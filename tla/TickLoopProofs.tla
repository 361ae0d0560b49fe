--------------------------- MODULE TickLoopProofs ---------------------------
(***************************************************************************)
(* Proofs about TickLoop, for any number of runners, steppers and          *)
(* operators: one tick at a time, one Run at a time, what the counters and *)
(* StepOnce report, and what toggling the actuation guarantees.            *)
(***************************************************************************)
EXTENDS TickLoop, TLAPS

-------------------------------------------------------------------------------
(* The inductive invariant, in parts *)

(* Whoever ticks has taken the gate. *)
GateInv ==
  /\ \A a \in Actors : Ticking(a) => inFlight
  /\ AtMostOneTick

(* Whoever loops in Run has taken the start flag. *)
RunInv ==
  /\ \A r \in Runners : Looping(r) => running
  /\ SingleRun

(* What the tick that runs has published and counted so far. *)
CountInv ==
  /\ (\A a \in Actors : pc[a] \notin {"decide", "dispatch", "publish"}) => publicTick = tickCount
  /\ (\A a \in Actors : pc[a] \notin {"decide", "dispatch", "publish", "account"}) => processed = begun
  /\ \A a \in Actors :
       /\ pc[a] \in {"decide", "dispatch", "publish", "account"} => begun = (processed + 1) % Wrap
       /\ pc[a] \in {"decide", "dispatch", "publish", "account", "release", "unlock"}
            => ticked[a] = tickCount
  /\ \A s \in Steppers : pc[s] = "unlock" => report[s] = publicTick

IInv == TypeOK /\ GateInv /\ RunInv /\ CountInv

-------------------------------------------------------------------------------
(* Type correctness *)

(* A counter that wraps stays in its width. *)
LEMMA WrapStays == \A n \in 0 .. Wrap - 1 : (n + 1) % Wrap \in 0 .. Wrap - 1
BY WrapAssumption, SMT

(* The numbers a tick can take are in the width of the counter. *)
LEMMA NextTicksType == tickCount \in 0 .. Wrap - 1 => NextTicks \subseteq 0 .. Wrap - 1
BY WrapStays, WrapAssumption DEF NextTicks

LEMMA TypeInit == Init => TypeOK
<1> SUFFICES ASSUME Init PROVE TypeOK
  OBVIOUS
<1>1. 0 \in 0 .. Wrap - 1
  BY WrapAssumption
<1>2. /\ pc \in [Actors -> Labels]
      /\ \A a \in Actors : pc[a] = "idle"
  BY DEF Init, Labels
<1> QED BY <1>1, <1>2 DEF Init, TypeOK, Actors

LEMMA TypeStep == TypeOK /\ [Next]_vars => TypeOK'
<1> SUFFICES ASSUME TypeOK, [Next]_vars PROVE TypeOK'
  OBVIOUS
<1> USE WrapAssumption, ActorsAssumption DEF TypeOK, Labels, Actors, loopVars, countVars, controlVars, tickFrame, Goto
<1>1. CASE Cancel BY <1>1 DEF Cancel
<1>2. ASSUME NEW r \in Runners, RunStart(r) PROVE TypeOK'
  BY <1>2 DEF RunStart
<1>3. ASSUME NEW r \in Runners, TimerFires(r) PROVE TypeOK'
  BY <1>3 DEF TimerFires
<1>4. ASSUME NEW r \in Runners, RunReceive(r) PROVE TypeOK'
  BY <1>4 DEF RunReceive
<1>5. ASSUME NEW r \in Runners, RunGate(r) PROVE TypeOK'
  BY <1>5 DEF RunGate
<1>6. ASSUME NEW r \in Runners, RunRelease(r) PROVE TypeOK'
  BY <1>6 DEF RunRelease
<1>7. ASSUME NEW r \in Runners, RunRearm(r) PROVE TypeOK'
  BY <1>7 DEF RunRearm
<1>8. ASSUME NEW r \in Runners, RunCancelled(r) PROVE TypeOK'
  BY <1>8 DEF RunCancelled
<1>9. ASSUME NEW s \in Steppers, StepGate(s) PROVE TypeOK'
  BY <1>9 DEF StepGate
<1>10. ASSUME NEW s \in Steppers, StepReport(s) PROVE TypeOK'
  BY <1>10 DEF StepReport
<1>11. ASSUME NEW s \in Steppers, StepRelease(s) PROVE TypeOK'
  BY <1>11 DEF StepRelease
<1>12. ASSUME NEW a \in Actors, TickBegin(a) PROVE TypeOK'
  BY <1>12, NextTicksType, WrapStays DEF TickBegin
<1>13. ASSUME NEW a \in Actors, TickDecide(a) PROVE TypeOK'
  BY <1>13 DEF TickDecide
<1>14. ASSUME NEW a \in Actors, TickDispatch(a) PROVE TypeOK'
  BY <1>14 DEF TickDispatch
<1>15. ASSUME NEW a \in Actors, TickPublish(a) PROVE TypeOK'
  BY <1>15 DEF TickPublish
<1>16. ASSUME NEW a \in Actors, TickAccount(a) PROVE TypeOK'
  BY <1>16, WrapStays DEF TickAccount
<1>17. ASSUME NEW o \in Operators, NEW body \in Requests, ToggleRequest(o, body) PROVE TypeOK'
  BY <1>17 DEF ToggleRequest
<1>18. ASSUME NEW o \in Operators, ToggleLoad(o) PROVE TypeOK'
  BY <1>18 DEF ToggleLoad
<1>19. ASSUME NEW o \in Operators, ToggleSwap(o) PROVE TypeOK'
  BY <1>19 DEF ToggleSwap, Answer
<1>20. ASSUME NEW o \in Operators, SetActuationEnabled(o) PROVE TypeOK'
  BY <1>20 DEF SetActuationEnabled, Answer
<1>21. CASE UNCHANGED vars BY <1>21 DEF vars
<1> QED
  BY <1>1, <1>2, <1>3, <1>4, <1>5, <1>6, <1>7, <1>8, <1>9, <1>10, <1>11, <1>12,
     <1>13, <1>14, <1>15, <1>16, <1>17, <1>18, <1>19, <1>20, <1>21
  DEF Next, RunStep, Tick, Toggle

(* The variables of the tick loop keep their types, the counters their     *)
(* width.                                                                  *)
THEOREM TypeCorrect == SafeSpec => []TypeOK
BY TypeInit, TypeStep, PTL DEF SafeSpec

-------------------------------------------------------------------------------
(* Each part of the invariant is preserved *)

(* Taking the gate excludes the others, and only its holder gives it back. *)
LEMMA GateStep == TypeOK /\ GateInv /\ [Next]_vars => GateInv'
<1> SUFFICES ASSUME TypeOK, GateInv, [Next]_vars PROVE GateInv'
  OBVIOUS
<1> USE ActorsAssumption DEF TypeOK, GateInv, AtMostOneTick, Ticking, Actors, loopVars, countVars, controlVars, tickFrame, Goto
<1>1. CASE Cancel BY <1>1 DEF Cancel
<1>2. ASSUME NEW r \in Runners, RunStart(r) PROVE GateInv'
  BY <1>2 DEF RunStart
<1>3. ASSUME NEW r \in Runners, TimerFires(r) PROVE GateInv'
  BY <1>3 DEF TimerFires
<1>4. ASSUME NEW r \in Runners, RunReceive(r) PROVE GateInv'
  BY <1>4 DEF RunReceive
<1>5. ASSUME NEW r \in Runners, RunGate(r) PROVE GateInv'
  BY <1>5 DEF RunGate
<1>6. ASSUME NEW r \in Runners, RunRelease(r) PROVE GateInv'
  BY <1>6 DEF RunRelease
<1>7. ASSUME NEW r \in Runners, RunRearm(r) PROVE GateInv'
  BY <1>7 DEF RunRearm
<1>8. ASSUME NEW r \in Runners, RunCancelled(r) PROVE GateInv'
  BY <1>8 DEF RunCancelled
<1>9. ASSUME NEW s \in Steppers, StepGate(s) PROVE GateInv'
  BY <1>9 DEF StepGate
<1>10. ASSUME NEW s \in Steppers, StepReport(s) PROVE GateInv'
  BY <1>10 DEF StepReport
<1>11. ASSUME NEW s \in Steppers, StepRelease(s) PROVE GateInv'
  BY <1>11 DEF StepRelease
<1>12. ASSUME NEW a \in Actors, TickBegin(a) PROVE GateInv'
  BY <1>12 DEF TickBegin
<1>13. ASSUME NEW a \in Actors, TickDecide(a) PROVE GateInv'
  BY <1>13 DEF TickDecide
<1>14. ASSUME NEW a \in Actors, TickDispatch(a) PROVE GateInv'
  BY <1>14 DEF TickDispatch
<1>15. ASSUME NEW a \in Actors, TickPublish(a) PROVE GateInv'
  BY <1>15 DEF TickPublish
<1>16. ASSUME NEW a \in Actors, TickAccount(a) PROVE GateInv'
  BY <1>16 DEF TickAccount
<1>17. ASSUME NEW o \in Operators, NEW body \in Requests, ToggleRequest(o, body) PROVE GateInv'
  BY <1>17 DEF ToggleRequest
<1>18. ASSUME NEW o \in Operators, ToggleLoad(o) PROVE GateInv'
  BY <1>18 DEF ToggleLoad
<1>19. ASSUME NEW o \in Operators, ToggleSwap(o) PROVE GateInv'
  BY <1>19 DEF ToggleSwap
<1>20. ASSUME NEW o \in Operators, SetActuationEnabled(o) PROVE GateInv'
  BY <1>20 DEF SetActuationEnabled
<1>21. CASE UNCHANGED vars BY <1>21 DEF vars
<1> QED
  BY <1>1, <1>2, <1>3, <1>4, <1>5, <1>6, <1>7, <1>8, <1>9, <1>10, <1>11, <1>12,
     <1>13, <1>14, <1>15, <1>16, <1>17, <1>18, <1>19, <1>20, <1>21
  DEF Next, RunStep, Tick, Toggle

(* Taking the start flag excludes other runners, until the loop returns. *)
LEMMA RunnerStep == TypeOK /\ RunInv /\ [Next]_vars => RunInv'
<1> SUFFICES ASSUME TypeOK, RunInv, [Next]_vars PROVE RunInv'
  OBVIOUS
<1> USE ActorsAssumption DEF TypeOK, RunInv, SingleRun, Looping, Labels, Actors, loopVars, countVars, controlVars, tickFrame, Goto
<1>1. CASE Cancel BY <1>1 DEF Cancel
<1>2. ASSUME NEW r \in Runners, RunStart(r) PROVE RunInv'
  BY <1>2 DEF RunStart
<1>3. ASSUME NEW r \in Runners, TimerFires(r) PROVE RunInv'
  BY <1>3 DEF TimerFires
<1>4. ASSUME NEW r \in Runners, RunReceive(r) PROVE RunInv'
  BY <1>4 DEF RunReceive
<1>5. ASSUME NEW r \in Runners, RunGate(r) PROVE RunInv'
  BY <1>5 DEF RunGate
<1>6. ASSUME NEW r \in Runners, RunRelease(r) PROVE RunInv'
  BY <1>6 DEF RunRelease
<1>7. ASSUME NEW r \in Runners, RunRearm(r) PROVE RunInv'
  BY <1>7 DEF RunRearm
<1>8. ASSUME NEW r \in Runners, RunCancelled(r) PROVE RunInv'
  BY <1>8 DEF RunCancelled
<1>9. ASSUME NEW s \in Steppers, StepGate(s) PROVE RunInv'
  BY <1>9 DEF StepGate
<1>10. ASSUME NEW s \in Steppers, StepReport(s) PROVE RunInv'
  BY <1>10 DEF StepReport
<1>11. ASSUME NEW s \in Steppers, StepRelease(s) PROVE RunInv'
  BY <1>11 DEF StepRelease
<1>12. ASSUME NEW a \in Actors, TickBegin(a) PROVE RunInv'
  BY <1>12 DEF TickBegin
<1>13. ASSUME NEW a \in Actors, TickDecide(a) PROVE RunInv'
  BY <1>13 DEF TickDecide
<1>14. ASSUME NEW a \in Actors, TickDispatch(a) PROVE RunInv'
  BY <1>14 DEF TickDispatch
<1>15. ASSUME NEW a \in Actors, TickPublish(a) PROVE RunInv'
  BY <1>15 DEF TickPublish
<1>16. ASSUME NEW a \in Actors, TickAccount(a) PROVE RunInv'
  BY <1>16 DEF TickAccount
<1>17. ASSUME NEW o \in Operators, NEW body \in Requests, ToggleRequest(o, body) PROVE RunInv'
  BY <1>17 DEF ToggleRequest
<1>18. ASSUME NEW o \in Operators, ToggleLoad(o) PROVE RunInv'
  BY <1>18 DEF ToggleLoad
<1>19. ASSUME NEW o \in Operators, ToggleSwap(o) PROVE RunInv'
  BY <1>19 DEF ToggleSwap
<1>20. ASSUME NEW o \in Operators, SetActuationEnabled(o) PROVE RunInv'
  BY <1>20 DEF SetActuationEnabled
<1>21. CASE UNCHANGED vars BY <1>21 DEF vars
<1> QED
  BY <1>1, <1>2, <1>3, <1>4, <1>5, <1>6, <1>7, <1>8, <1>9, <1>10, <1>11, <1>12,
     <1>13, <1>14, <1>15, <1>16, <1>17, <1>18, <1>19, <1>20, <1>21
  DEF Next, RunStep, Tick, Toggle

(* The counters are moved by the one tick that runs, in its order. *)
LEMMA CountStep == TypeOK /\ GateInv /\ CountInv /\ [Next]_vars => CountInv'
<1> SUFFICES ASSUME TypeOK, GateInv, CountInv, [Next]_vars PROVE CountInv'
  OBVIOUS
<1> USE ActorsAssumption DEF TypeOK, GateInv, AtMostOneTick, Ticking, CountInv, Actors, loopVars, countVars, controlVars, tickFrame, Goto
<1>1. CASE Cancel BY <1>1 DEF Cancel
<1>2. ASSUME NEW r \in Runners, RunStart(r) PROVE CountInv'
  BY <1>2 DEF RunStart
<1>3. ASSUME NEW r \in Runners, TimerFires(r) PROVE CountInv'
  BY <1>3 DEF TimerFires
<1>4. ASSUME NEW r \in Runners, RunReceive(r) PROVE CountInv'
  BY <1>4 DEF RunReceive
<1>5. ASSUME NEW r \in Runners, RunGate(r) PROVE CountInv'
  BY <1>5 DEF RunGate
<1>6. ASSUME NEW r \in Runners, RunRelease(r) PROVE CountInv'
  BY <1>6 DEF RunRelease
<1>7. ASSUME NEW r \in Runners, RunRearm(r) PROVE CountInv'
  BY <1>7 DEF RunRearm
<1>8. ASSUME NEW r \in Runners, RunCancelled(r) PROVE CountInv'
  BY <1>8 DEF RunCancelled
<1>9. ASSUME NEW s \in Steppers, StepGate(s) PROVE CountInv'
  BY <1>9 DEF StepGate
<1>10. ASSUME NEW s \in Steppers, StepReport(s) PROVE CountInv'
  BY <1>10 DEF StepReport
<1>11. ASSUME NEW s \in Steppers, StepRelease(s) PROVE CountInv'
  BY <1>11 DEF StepRelease
<1>12. ASSUME NEW a \in Actors, TickBegin(a) PROVE CountInv'
  BY <1>12 DEF TickBegin
<1>13. ASSUME NEW a \in Actors, TickDecide(a) PROVE CountInv'
  BY <1>13 DEF TickDecide
<1>14. ASSUME NEW a \in Actors, TickDispatch(a) PROVE CountInv'
  BY <1>14 DEF TickDispatch
<1>15. ASSUME NEW a \in Actors, TickPublish(a) PROVE CountInv'
  BY <1>15 DEF TickPublish
<1>16. ASSUME NEW a \in Actors, TickAccount(a) PROVE CountInv'
  BY <1>16 DEF TickAccount
<1>17. ASSUME NEW o \in Operators, NEW body \in Requests, ToggleRequest(o, body) PROVE CountInv'
  BY <1>17 DEF ToggleRequest
<1>18. ASSUME NEW o \in Operators, ToggleLoad(o) PROVE CountInv'
  BY <1>18 DEF ToggleLoad
<1>19. ASSUME NEW o \in Operators, ToggleSwap(o) PROVE CountInv'
  BY <1>19 DEF ToggleSwap
<1>20. ASSUME NEW o \in Operators, SetActuationEnabled(o) PROVE CountInv'
  BY <1>20 DEF SetActuationEnabled
<1>21. CASE UNCHANGED vars BY <1>21 DEF vars
<1> QED
  BY <1>1, <1>2, <1>3, <1>4, <1>5, <1>6, <1>7, <1>8, <1>9, <1>10, <1>11, <1>12,
     <1>13, <1>14, <1>15, <1>16, <1>17, <1>18, <1>19, <1>20, <1>21
  DEF Next, RunStep, Tick, Toggle

LEMMA Inductive == SafeSpec => []IInv
<1>1. Init => IInv
  BY TypeInit DEF Init, IInv, GateInv, RunInv, CountInv, AtMostOneTick, SingleRun, Ticking, Looping, Labels, Actors
<1>2. IInv /\ [Next]_vars => IInv'
  BY TypeStep, GateStep, RunnerStep, CountStep DEF IInv
<1> QED BY <1>1, <1>2, PTL DEF SafeSpec

-------------------------------------------------------------------------------
(* What the loop guarantees *)

(* The gate inFlightTicks (orchestrator.go:261, control.go:19) admits one  *)
(* tick at a time, whoever asks for it.                                    *)
THEOREM OneTickAtATime == SafeSpec => []AtMostOneTick
BY Inductive, PTL DEF IInv, GateInv

(* The single-start guard of Run (orchestrator.go:235) admits one loop at  *)
(* a time, through cancellations and later calls of Run.                   *)
THEOREM OneRun == SafeSpec => []SingleRun
BY Inductive, PTL DEF IInv, RunInv

(* StepOnce (control.go:27) answers with the number of its own tick.       *)
THEOREM StepAnswersItsTick == SafeSpec => []StepReportsOwnTick
<1>1. IInv => StepReportsOwnTick
  BY DEF IInv, TypeOK, GateInv, AtMostOneTick, Ticking, CountInv, StepReportsOwnTick, Actors
<1> QED BY Inductive, <1>1, PTL

(* With the gate free the public counters agree with the ticks executed    *)
(* (orchestrator.go:1240, control.go:32).                                  *)
THEOREM CountersSettle == SafeSpec => []Settled
<1>1. IInv => Settled
  BY DEF IInv, GateInv, Ticking, CountInv, Settled
<1> QED BY Inductive, <1>1, PTL

(* The gate and the single-start guard together (orchestrator.go:235, 261). *)
THEOREM GateHolds == SafeSpec => []OneAtATime
BY OneTickAtATime, OneRun, PTL DEF OneAtATime

(* What a step and the public counters report (control.go:27, 32).         *)
THEOREM CountersTrue == SafeSpec => []CountsTrue
BY StepAnswersItsTick, CountersSettle, PTL DEF CountsTrue

-------------------------------------------------------------------------------
(* Freezing and toggling the actuation *)

(* Where nobody sends "disable": an acknowledged freeze means that the     *)
(* flag is off and no request is being served, and only such a freeze      *)
(* makes a tick quiet.                                                     *)
FreezeInv ==
  /\ frozen => ~actuation /\ \A o \in Operators : opc[o] = "idle"
  /\ quiet => frozen
  /\ FreezeHolds

LEMMA FreezeStep ==
  ASSUME "disable" \notin Requests, TypeOK, GateInv, FreezeInv, [Next]_vars
  PROVE  FreezeInv'
<1> USE DEF TypeOK, GateInv, AtMostOneTick, Ticking, FreezeInv, FreezeHolds, Actors, loopVars, countVars, controlVars, tickFrame, Goto
<1>1. CASE Cancel BY <1>1 DEF Cancel
<1>2. ASSUME NEW r \in Runners, RunStart(r) PROVE FreezeInv'
  BY <1>2 DEF RunStart
<1>3. ASSUME NEW r \in Runners, TimerFires(r) PROVE FreezeInv'
  BY <1>3 DEF TimerFires
<1>4. ASSUME NEW r \in Runners, RunReceive(r) PROVE FreezeInv'
  BY <1>4 DEF RunReceive
<1>5. ASSUME NEW r \in Runners, RunGate(r) PROVE FreezeInv'
  BY <1>5 DEF RunGate
<1>6. ASSUME NEW r \in Runners, RunRelease(r) PROVE FreezeInv'
  BY <1>6 DEF RunRelease
<1>7. ASSUME NEW r \in Runners, RunRearm(r) PROVE FreezeInv'
  BY <1>7 DEF RunRearm
<1>8. ASSUME NEW r \in Runners, RunCancelled(r) PROVE FreezeInv'
  BY <1>8 DEF RunCancelled
<1>9. ASSUME NEW s \in Steppers, StepGate(s) PROVE FreezeInv'
  BY <1>9 DEF StepGate
<1>10. ASSUME NEW s \in Steppers, StepReport(s) PROVE FreezeInv'
  BY <1>10 DEF StepReport
<1>11. ASSUME NEW s \in Steppers, StepRelease(s) PROVE FreezeInv'
  BY <1>11 DEF StepRelease
<1>12. ASSUME NEW a \in Actors, TickBegin(a) PROVE FreezeInv'
  BY <1>12 DEF TickBegin
<1>13. ASSUME NEW a \in Actors, TickDecide(a) PROVE FreezeInv'
  BY <1>13 DEF TickDecide
<1>14. ASSUME NEW a \in Actors, TickDispatch(a) PROVE FreezeInv'
  BY <1>14 DEF TickDispatch
<1>15. ASSUME NEW a \in Actors, TickPublish(a) PROVE FreezeInv'
  BY <1>15 DEF TickPublish
<1>16. ASSUME NEW a \in Actors, TickAccount(a) PROVE FreezeInv'
  BY <1>16 DEF TickAccount
<1>17. ASSUME NEW o \in Operators, NEW body \in Requests, ToggleRequest(o, body) PROVE FreezeInv'
  BY <1>17 DEF ToggleRequest
<1>18. ASSUME NEW o \in Operators, ToggleLoad(o) PROVE FreezeInv'
  BY <1>18 DEF ToggleLoad
<1>19. ASSUME NEW o \in Operators, ToggleSwap(o) PROVE FreezeInv'
  <2>1. ~frozen /\ ~quiet /\ quiet' = quiet /\ pc' = pc
    BY <1>19 DEF ToggleSwap
  <2>2. \A p \in Operators : want[p] # "disable"
    OBVIOUS
  <2>3. ASSUME frozen' PROVE ~actuation' /\ \A p \in Operators : opc'[p] = "idle"
    <3>1. Answer(o, actuation')
      BY <1>19, <2>1, <2>3 DEF ToggleSwap
    <3>2. ~actuation' /\ \A p \in Operators \ {o} : opc[p] = "idle"
      BY <2>1, <2>2, <2>3, <3>1, Zenon DEF Answer
    <3> QED BY <3>1, <3>2 DEF Answer
  <2> QED BY <2>1, <2>3
<1>20. ASSUME NEW o \in Operators, SetActuationEnabled(o) PROVE FreezeInv'
  BY <1>20 DEF SetActuationEnabled, Answer
<1>21. CASE UNCHANGED vars BY <1>21 DEF vars
<1> QED
  BY <1>1, <1>2, <1>3, <1>4, <1>5, <1>6, <1>7, <1>8, <1>9, <1>10, <1>11, <1>12,
     <1>13, <1>14, <1>15, <1>16, <1>17, <1>18, <1>19, <1>20, <1>21
  DEF Next, RunStep, Tick, Toggle

(* A freeze that a toggle has acknowledged is obeyed by every later tick   *)
(* (orchestrator.go:893) until somebody asks to lift it, as long as nobody *)
(* freezes with a body {"enabled": false}: the handler (api/server.go:371) *)
(* then toggles first, and MCTickFreeze shows what a tick can see.         *)
THEOREM FreezeObeyed ==
  ASSUME "disable" \notin Requests
  PROVE  SafeSpec => []FreezeHolds
<1>1. Init => FreezeInv
  BY DEF Init, FreezeInv, FreezeHolds
<1>2. IInv /\ FreezeInv /\ [Next]_vars => FreezeInv'
  BY FreezeStep DEF IInv
<1>3. FreezeInv => FreezeHolds
  BY DEF FreezeInv
<1> QED BY Inductive, <1>1, <1>2, <1>3, PTL DEF SafeSpec

(* No request is lost: the CAS of ToggleActuation (control.go:48-53) loses *)
(* no toggle, and SetActuationEnabled overrides the ones before it.        *)
THEOREM TogglesAllCount == SafeSpec => []ToggleParity
<1> DEFINE Inv == /\ TypeOK
                  /\ (\A o \in Operators : opc[o] # "set") => actuation = ~parity
                  /\ \A o \in Operators : opc[o] = "set" => want[o] \in {"enable", "disable"}
<1>1. Init => Inv
  BY TypeInit DEF Init
<1>2. Inv /\ [Next]_vars => Inv'
  <2> SUFFICES ASSUME Inv, [Next]_vars PROVE Inv'
    OBVIOUS
  <2> USE DEF TypeOK, Actors, loopVars, countVars, controlVars, tickFrame, Goto
  <2>0. TypeOK'
    BY TypeStep
  <2>1. CASE Cancel BY <2>1, <2>0 DEF Cancel
  <2>2. ASSUME NEW r \in Runners, RunStart(r) PROVE Inv'
    BY <2>2, <2>0 DEF RunStart
  <2>3. ASSUME NEW r \in Runners, TimerFires(r) PROVE Inv'
    BY <2>3, <2>0 DEF TimerFires
  <2>4. ASSUME NEW r \in Runners, RunReceive(r) PROVE Inv'
    BY <2>4, <2>0 DEF RunReceive
  <2>5. ASSUME NEW r \in Runners, RunGate(r) PROVE Inv'
    BY <2>5, <2>0 DEF RunGate
  <2>6. ASSUME NEW r \in Runners, RunRelease(r) PROVE Inv'
    BY <2>6, <2>0 DEF RunRelease
  <2>7. ASSUME NEW r \in Runners, RunRearm(r) PROVE Inv'
    BY <2>7, <2>0 DEF RunRearm
  <2>8. ASSUME NEW r \in Runners, RunCancelled(r) PROVE Inv'
    BY <2>8, <2>0 DEF RunCancelled
  <2>9. ASSUME NEW s \in Steppers, StepGate(s) PROVE Inv'
    BY <2>9, <2>0 DEF StepGate
  <2>10. ASSUME NEW s \in Steppers, StepReport(s) PROVE Inv'
    BY <2>10, <2>0 DEF StepReport
  <2>11. ASSUME NEW s \in Steppers, StepRelease(s) PROVE Inv'
    BY <2>11, <2>0 DEF StepRelease
  <2>12. ASSUME NEW a \in Actors, TickBegin(a) PROVE Inv'
    BY <2>12, <2>0 DEF TickBegin
  <2>13. ASSUME NEW a \in Actors, TickDecide(a) PROVE Inv'
    BY <2>13, <2>0 DEF TickDecide
  <2>14. ASSUME NEW a \in Actors, TickDispatch(a) PROVE Inv'
    BY <2>14, <2>0 DEF TickDispatch
  <2>15. ASSUME NEW a \in Actors, TickPublish(a) PROVE Inv'
    BY <2>15, <2>0 DEF TickPublish
  <2>16. ASSUME NEW a \in Actors, TickAccount(a) PROVE Inv'
    BY <2>16, <2>0 DEF TickAccount
  <2>17. ASSUME NEW o \in Operators, NEW body \in Requests, ToggleRequest(o, body) PROVE Inv'
    BY <2>17, <2>0 DEF ToggleRequest
  <2>18. ASSUME NEW o \in Operators, ToggleLoad(o) PROVE Inv'
    BY <2>18, <2>0 DEF ToggleLoad
  <2>19. ASSUME NEW o \in Operators, ToggleSwap(o) PROVE Inv'
    <3>1. CASE actuation # seen[o]
      BY <2>19, <2>0, <3>1 DEF ToggleSwap
    <3>2. CASE actuation = seen[o] /\ want[o] = "toggle"
      <4>1. /\ actuation' = ~actuation /\ parity' = ~parity
            /\ opc' = [opc EXCEPT ![o] = "idle"]
            /\ want' = [want EXCEPT ![o] = "toggle"]
            /\ opc[o] = "swap"
        BY <2>19, <3>2 DEF ToggleSwap, Answer
      <4>2. (\A p \in Operators : opc'[p] # "set") => \A p \in Operators : opc[p] # "set"
        BY <4>1
      <4>3. (\A p \in Operators : opc'[p] # "set") => actuation' = ~parity'
        BY <4>1, <4>2
      <4>4. \A p \in Operators : opc'[p] = "set" => want'[p] \in {"enable", "disable"}
        BY <4>1
      <4> QED BY <2>0, <4>3, <4>4
    <3>3. CASE actuation = seen[o] /\ want[o] # "toggle"
      BY <2>19, <2>0, <3>3, RequestsAssumption DEF ToggleSwap
    <3> QED BY <3>1, <3>2, <3>3
  <2>20. ASSUME NEW o \in Operators, SetActuationEnabled(o) PROVE Inv'
    BY <2>20, <2>0 DEF SetActuationEnabled, Answer
  <2>21. CASE UNCHANGED vars BY <2>21, <2>0 DEF vars
  <2> QED
    BY <2>1, <2>2, <2>3, <2>4, <2>5, <2>6, <2>7, <2>8, <2>9, <2>10, <2>11, <2>12,
       <2>13, <2>14, <2>15, <2>16, <2>17, <2>18, <2>19, <2>20, <2>21
    DEF Next, RunStep, Tick, Toggle
<1>3. Inv => ToggleParity
  BY DEF ToggleParity
<1> QED BY <1>1, <1>2, <1>3, PTL DEF SafeSpec
===============================================================================
