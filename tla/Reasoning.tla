------------------------------ MODULE Reasoning ------------------------------
(***************************************************************************)
(* The alerts of the reasoning engine (internal/reasoning/engine.go) and   *)
(* their cooldowns.  A rule whose condition holds raises its alert unless  *)
(* it has done so within the cooldown period, which the pressure of the    *)
(* tick sets; the engine remembers a bounded number of alerts and forgets  *)
(* the oldest to make room.                                                *)
(*                                                                         *)
(* A rule is the key of its cooldown: the service and the condition, of    *)
(* which the thresholds are left out.  The rules of a service come in a    *)
(* fixed order but the services in that of a map, and no rule reads what   *)
(* another has raised: they are taken in any order.  Time is counted in    *)
(* units of five seconds.                                                  *)
(***************************************************************************)
EXTENDS Integers, FiniteSets

CONSTANTS Services,
          Rules,         (* rules of a service besides its utilisation bands  *)
          maxCooldowns,
          EvictCount,    (* entries evicted at once                           *)
          MaxGap,        (* bound: longest time between two analyses          *)
          MaxTime        (* bound: time of a behaviour                        *)

(* The two bands of the utilisation are exclusive. *)
Bands == {"util:crit", "util:warn"}
Keys == Services \X (Bands \cup Rules)
Never == -1

VARIABLES
  now,
  cooldownPeriod,
  cooldowns,   (* when each alert was last raised, or Never if not remembered  *)
  due,         (* rules of this analysis still to be evaluated                 *)
  held,        (* history: the rules whose condition holds in this analysis    *)
  fired        (* history: when each alert was last raised, evicted or not     *)

vars == <<now, cooldownPeriod, cooldowns, due, held, fired>>

Init ==
  /\ now = 0
  /\ cooldownPeriod = 6
  /\ cooldowns = [k \in Keys |-> Never]
  /\ due = {} /\ held = {}
  /\ fired = [k \in Keys |-> Never]

Remembered == {k \in Keys : cooldowns[k] # Never}

(* SetRuntimePressure: 30, 20, 10 and 5 seconds. *)
PeriodOf(level) == <<6, 4, 2, 1>>[level + 1]

(* A tick: the pressure is set and the rules are evaluated on its bundles. *)
Analyse(level, conditions) ==
  /\ due = {}
  /\ \E gap \in 1 .. MaxGap : now' = now + gap /\ now' <= MaxTime
  /\ cooldownPeriod' = PeriodOf(level)
  /\ \A s \in Services : ~({s} \X Bands \subseteq conditions)
  /\ due' = conditions
  /\ held' = conditions
  /\ UNCHANGED <<cooldowns, fired>>

(* Slip: the newest are evicted. *)
Oldest_Newest(n) ==
  {e \in SUBSET Remembered :
     /\ Cardinality(e) = IF n < Cardinality(Remembered) THEN n ELSE Cardinality(Remembered)
     /\ \A k \in e, j \in Remembered \ e : cooldowns[k] >= cooldowns[j]}

(* evictOldest: those of the same analysis are in no particular order. *)
Oldest(n) ==
  {e \in SUBSET Remembered :
     /\ Cardinality(e) = IF n < Cardinality(Remembered) THEN n ELSE Cardinality(Remembered)
     /\ \A k \in e, j \in Remembered \ e : cooldowns[k] <= cooldowns[j]}

(* Slip: an alert whose period has just passed is still silent. *)
Silent_AtPeriod(k) == cooldowns[k] # Never /\ now - cooldowns[k] <= cooldownPeriod

Silent(k) == cooldowns[k] # Never /\ now - cooldowns[k] < cooldownPeriod

(* canFire *)
Raise(k) ==
  /\ ~Silent(k)
  /\ \E evicted \in IF Cardinality(Remembered) >= maxCooldowns THEN Oldest(EvictCount) ELSE {{}} :
       cooldowns' = [j \in Keys |-> IF j = k THEN now
                                    ELSE IF j \in evicted THEN Never ELSE cooldowns[j]]
  /\ fired' = [fired EXCEPT ![k] = now]

Evaluate(k) ==
  /\ k \in due
  /\ due' = due \ {k}
  /\ \/ Raise(k)
     \/ Silent(k) /\ UNCHANGED <<cooldowns, fired>>
  /\ UNCHANGED <<now, cooldownPeriod, held>>

Next ==
  \/ \E level \in 0 .. 3, conditions \in SUBSET Keys : Analyse(level, conditions)
  \/ \E k \in due : Evaluate(k)

Spec == Init /\ [][Next]_vars

-------------------------------------------------------------------------------
(* Properties *)

(* No alert is raised twice within the period unless so many others have   *)
(* been raised as recently that the engine had to forget it: the eviction  *)
(* takes the oldest.                                                       *)
QuietStep ==
  \A k \in Keys :
    fired[k] # Never /\ fired'[k] # fired[k] /\ fired'[k] - fired[k] < cooldownPeriod =>
      Cardinality({j \in Keys \ {k} : fired[j] >= fired[k]}) >= maxCooldowns - EvictCount

(* After an analysis every rule whose condition holds has been raised      *)
(* within the period the pressure allows: neither the eviction of others   *)
(* nor a period that has just become shorter loses an alert.               *)
Reminded == due = {} => \A k \in held : fired[k] # Never /\ now - fired[k] < cooldownPeriod
===============================================================================
