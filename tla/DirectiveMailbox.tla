--------------------------- MODULE DirectiveMailbox ---------------------------
(***************************************************************************)
(* What the actuator promises its callers, with none of its machinery: a   *)
(* mailbox with one slot per service.  A post overwrites the slots of the  *)
(* services it names, the slots are emptied together, each directive that  *)
(* was taken out is told to the backend once, and after the mailbox shuts  *)
(* nothing is posted but everything posted before is still told.           *)
(*                                                                         *)
(* A directive is identified by the time at which it was posted; 0 is an   *)
(* empty slot.                                                             *)
(***************************************************************************)
EXTENDS Naturals

CONSTANT Services       (* the services a directive can name *)

VARIABLES clock,        (* the number of posts so far                       *)
          box,          (* box[s]: the directive waiting for s, or 0        *)
          taken,        (* taken[s]: the directive being told, or 0         *)
          told,         (* told[s]: the last directive told for s, or 0     *)
          open          (* posts are still accepted                         *)

vars == <<clock, box, taken, told, open>>

Empty == [s \in Services |-> 0]

Init ==
  /\ clock = 0
  /\ box = Empty
  /\ taken = Empty
  /\ told = Empty
  /\ open = TRUE

Post(S) ==
  /\ open
  /\ clock' = clock + 1
  /\ box' = [s \in Services |-> IF s \in S THEN clock + 1 ELSE box[s]]
  /\ UNCHANGED <<taken, told, open>>

Take ==
  /\ taken = Empty
  /\ box # Empty
  /\ taken' = box
  /\ box' = Empty
  /\ UNCHANGED <<clock, told, open>>

Tell(s) ==
  /\ taken[s] # 0
  /\ told' = [told EXCEPT ![s] = taken[s]]
  /\ taken' = [taken EXCEPT ![s] = 0]
  /\ UNCHANGED <<clock, box, open>>

Shut ==
  /\ open
  /\ open' = FALSE
  /\ UNCHANGED <<clock, box, taken, told>>

Next ==
  \/ \E S \in SUBSET Services : Post(S)
  \/ Take
  \/ \E s \in Services : Tell(s)
  \/ Shut

(* The safety part of the promise, which is what can be proved by steps. *)
SafeSpec == Init /\ [][Next]_vars

(* What was posted is eventually taken out, what was taken out is told. *)
Spec == SafeSpec /\ WF_vars(Take) /\ WF_vars(\E s \in Services : Tell(s))
===============================================================================
