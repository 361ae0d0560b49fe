----------------------------- MODULE PolicyLearner ----------------------------
(***************************************************************************)
(* One tick of the intelligence layer of a service and the learner beside  *)
(* it (internal/intelligence).  In a tick the policy is asked many times:  *)
(* for candidates in the state measured, and along every forecast in       *)
(* states that are only simulated.  Each answer is left pending in the     *)
(* policy.  Near its end the tick starts a goroutine that turns the        *)
(* pending answer into an experience; it may get the policy's lock only    *)
(* ticks later.                                                            *)
(***************************************************************************)
EXTENDS Integers, Sequences, FiniteSets, SequencesExt

CONSTANTS Candidates,   (* actions searched in a tick: 5 in the code        *)
          Horizon,      (* steps of a forecast: 8 and more in the code      *)
          MaxTicks      (* bound: ticks of a behaviour                      *)

VARIABLES
  tick,       (* the tick, or the last one                                  *)
  step,       (* calls of the policy made in this tick                      *)
  pending,    (* the policy's last answer and whether it is yet unused      *)
  prevTD,     (* the tick whose state, action and hazard are kept; 0: none  *)
  observes,   (* goroutines that wait to observe                            *)
  learned     (* history: the experiences in the order they were added      *)

vars == <<tick, step, pending, prevTD, observes, learned>>

NoAnswer == [tick |-> 0, call |-> 0, real |-> FALSE, unused |-> FALSE]

Init ==
  /\ tick = 0
  /\ step = 0
  /\ pending = NoAnswer
  /\ prevTD = 0
  /\ observes = {}
  /\ learned = <<>>

-------------------------------------------------------------------------------
(* The calls of a tick, in order: the adapter's forecast; each candidate   *)
(* and its forecast; the forecast of the best; then, past the learning,    *)
(* the forecast that certifies the action, and the anchor's if it fails.   *)

SearchEnds  == Horizon + Candidates * (1 + Horizon)
LearnsAfter == SearchEnds + Horizon
TickEnds    == {LearnsAfter + Horizon, LearnsAfter + 2 * Horizon}

(* The calls made in the state that was measured. *)
searchAction(call) ==
  call > Horizon /\ call <= SearchEnds /\ (call - Horizon - 1) % (1 + Horizon) = 0

BeginTick ==
  /\ step = 0
  /\ tick < MaxTicks
  /\ tick' = tick + 1
  /\ step' = 1
  /\ pending' = [tick |-> tick', call |-> 1, real |-> FALSE, unused |-> TRUE]
  /\ UNCHANGED <<prevTD, observes, learned>>

(* Act, under the lock: the answer replaces a pending one. *)
Act ==
  /\ step > 0
  /\ step \notin {LearnsAfter} \cup {LearnsAfter + 2 * Horizon}
  /\ step' = step + 1
  /\ pending' = [tick |-> tick, call |-> step', real |-> searchAction(step'), unused |-> TRUE]
  /\ UNCHANGED <<tick, prevTD, observes, learned>>

(* The rest of Tick, with the first call of the certification: the state   *)
(* kept is handed to the trainer, with the performance of this tick.       *)
TryStep ==
  /\ step = LearnsAfter
  /\ observes' = IF prevTD = 0 THEN observes ELSE observes \cup {[next |-> prevTD, reward |-> tick]}
  /\ prevTD' = tick
  /\ step' = step + 1
  /\ pending' = [tick |-> tick, call |-> step', real |-> FALSE, unused |-> TRUE]
  /\ UNCHANGED <<tick, learned>>

EndTick ==
  /\ step \in TickEnds
  /\ step' = 0
  /\ UNCHANGED <<tick, pending, prevTD, observes, learned>>

(* Slip: the answer stays pending.                                         *)
Used_Still == pending

Used == [pending EXCEPT !.unused = FALSE]

(* Observe, under the lock. *)
Observe(o) ==
  /\ observes' = observes \ {o}
  /\ IF pending.unused
     THEN /\ learned' = Append(learned, [tick |-> pending.tick, call |-> pending.call,
                                         real |-> pending.real, next |-> o.next, reward |-> o.reward])
          /\ pending' = Used
     ELSE UNCHANGED <<learned, pending>>
  /\ UNCHANGED <<tick, step, prevTD>>

Next ==
  \/ BeginTick \/ Act \/ TryStep \/ EndTick
  \/ \E o \in observes : Observe(o)

Spec == Init /\ [][Next]_vars

-------------------------------------------------------------------------------
(* Properties *)

(* No answer of the policy is learned from twice, however the goroutines   *)
(* of several ticks get hold of the lock, and the reward of a tick is      *)
(* given out at most once.                                                 *)
LearnedOnce ==
  \A i, j \in 1 .. Len(learned) : i # j =>
     /\ <<learned[i].tick, learned[i].call>> # <<learned[j].tick, learned[j].call>>
     /\ learned[i].reward # learned[j].reward

(* An experience is a step the service took: the answer given in the state *)
(* measured in one tick, and the state measured in the next, as the        *)
(* comment at the call of TryStep has it: "Call TryStep with PREVIOUS      *)
(* tick's (s, a, hazard) and CURRENT state as s'.  This gives the proper   *)
(* bootstrapped TD target".                                                *)
ProperTarget ==
  \A i \in 1 .. Len(learned) : learned[i].real /\ learned[i].next = learned[i].tick + 1
===============================================================================
