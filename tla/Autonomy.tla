------------------------------- MODULE Autonomy -------------------------------
(***************************************************************************)
(* The degree of autonomy of the intelligence layer (AutonomyOrchestrator):*)
(* a smoothed anomaly score sets the mode each tick, and the mode of full  *)
(* autonomy is entered only from below the lowest threshold.  Scores are   *)
(* in thousandths, rounded down.                                           *)
(***************************************************************************)
EXTENDS Integers

CONSTANTS Readings,     (* sigmoid of a weighted sum that is never negative *)
          MaxTicks      (* bound: ticks of a behaviour                      *)

VARIABLES
  tick,
  anomalyEW,
  mode,
  cooled,       (* the recovery window since the last promotion has passed  *)
  promotions    (* history: ticks at which full autonomy was entered        *)

vars == <<tick, anomalyEW, mode, cooled, promotions>>

(* It starts supervised, with a score of zero. *)
Init ==
  /\ tick = 0
  /\ anomalyEW = 0
  /\ mode = "supervised"
  /\ cooled = TRUE
  /\ promotions = {}

(* Slip: the score is the reading itself, centred.                         *)
anomalyScore_Centred(reading) == (9 * anomalyEW + 2 * (reading - 500)) \div 10

anomalyScore(reading) == (9 * anomalyEW + reading) \div 10

(* updateMode.  fit: the health, the confidence and the score smoothed for *)
(* the regime are as they have to be.                                      *)
updateMode(score, fit) ==
  CASE score > 800 -> "safetyOnly"
    [] score > 600 -> "supervised"
    [] score > 450 -> "advisory"
    [] OTHER -> IF mode # "autonomous" /\ fit /\ cooled THEN "autonomous" ELSE mode

(* Step *)
Step(reading, fit) ==
  /\ tick < MaxTicks
  /\ tick' = tick + 1
  /\ anomalyEW' = anomalyScore(reading)
  /\ mode' = updateMode(anomalyEW', fit)
  /\ LET promoted == mode # "autonomous" /\ mode' = "autonomous"
     IN  /\ cooled' \in (IF promoted THEN BOOLEAN ELSE {cooled, TRUE})
         /\ promotions' = IF promoted THEN promotions \cup {tick'} ELSE promotions

Next == \E reading \in Readings, fit \in BOOLEAN : Step(reading, fit)

Spec == Init /\ [][Next]_vars

-------------------------------------------------------------------------------
(* Properties *)

(* Full autonomy is a matter of the first ticks.  A reading is never below *)
(* one half, so the score, which starts at zero, passes the threshold of   *)
(* autonomy within 24 ticks even if nothing is ever wrong, and does not    *)
(* come back: a service is autonomous at once or never, and is promoted at *)
(* most once.                                                              *)
AutonomyIsEarly ==
  /\ mode = "autonomous" => tick < 24
  /\ \A t, u \in promotions : t = u
===============================================================================
