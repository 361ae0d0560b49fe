---------------------------- MODULE ActuatorProofs ----------------------------
(***************************************************************************)
(* Proofs about Actuator, for every set of services, dispatchers and       *)
(* closers: nothing is ever sent on, or closed, a closed channel; the      *)
(* newest snapshot of a service survives; a clean Close has drained        *)
(* everything; and the actuator implements DirectiveMailbox.               *)
(***************************************************************************)
EXTENDS Actuator, FiniteSetTheorems, TLAPS

-------------------------------------------------------------------------------
(* The inductive invariant, in parts *)

(* mu is held by the dispatcher that is between lock and unlock. *)
Holding(d) == dpc[d] \in {"recheck", "merge", "send"}
MutexInv == \A d \in Dispatchers : Holding(d) <=> mu = d

(* The caller of Close that won the CAS. *)
Closing(c) == cpc[c] \in {"barrier", "close", "wait", "drained", "timedOut"}
PastClose(c) == cpc[c] \in {"wait", "drained", "timedOut"}

CloserInv ==
  /\ \A c \in Closers : cpc[c] # "idle" => closed
  /\ \A c, e \in Closers : Closing(c) /\ Closing(e) => c = e
  /\ closed => \E c \in Closers : Closing(c)
  /\ notifyClosed <=> \E c \in Closers : PastClose(c)

(* Once Close has passed through mu no dispatcher is, or comes, between    *)
(* its second check of closed and its unlock.                              *)
BarrierInv ==
  (notifyClosed \/ \E c \in Closers : cpc[c] = "close")
    => \A d \in Dispatchers : dpc[d] \notin {"merge", "send"}

WorkerInv ==
  /\ (wpc = "exec") <=> (work # None)
  /\ ending => notifyClosed /\ ~token /\ wpc \in {"swap", "exec", "exit"}
  /\ wpc = "exit" => ending
  /\ \A c \in Closers : cpc[c] = "drained" => wpc = "exit"

(* Along the pipeline the snapshots of a service get older. *)
OrderInv ==
  \A s \in Services :
    /\ pending[s] <= clock /\ work[s] <= clock /\ applied[s] <= clock
    /\ pending[s] # 0 => work[s] < pending[s] /\ applied[s] < pending[s]
    /\ work[s] # 0 => applied[s] < work[s]

IInv ==
  /\ TypeOK
  /\ MutexInv
  /\ CloserInv
  /\ BarrierInv
  /\ WorkerInv
  /\ NoLostWakeup
  /\ OrderInv
  /\ NewestSurvives

-------------------------------------------------------------------------------
(* Type correctness *)

(* The actuator's variables keep their types and the feedback channel its  *)
(* capacity (the default branch of the send at coalescer.go:158).          *)
THEOREM TypeCorrect == SafeSpec => []TypeOK
<1>1. Init => TypeOK
  <2> SUFFICES ASSUME Init PROVE TypeOK
    OBVIOUS
  <2> USE DEF Init
  <2>1. feedback \in Seq(Result) /\ Len(feedback) <= FeedbackCap
    BY FeedbackCapAssumption
  <2>2. None \in [Services -> Nat]
    BY DEF None
  <2> QED BY <2>1, <2>2 DEF TypeOK
<1>2. TypeOK /\ [Next]_vars => TypeOK'
  <2> SUFFICES ASSUME TypeOK, [Next]_vars PROVE TypeOK'
    OBVIOUS
  <2> USE DEF TypeOK, callVars, workerVars, closeFrame
  <2>1. ASSUME NEW d \in Dispatchers, NEW S \in SUBSET Services, DispatchCall(d, S)
        PROVE TypeOK'
    BY <2>1 DEF DispatchCall
  <2>2. ASSUME NEW d \in Dispatchers, DispatchStep(d) PROVE TypeOK'
    <3>1. CASE DispatchCheck(d)   BY <3>1 DEF DispatchCheck
    <3>2. CASE DispatchLock(d)    BY <3>2 DEF DispatchLock
    <3>3. CASE DispatchRecheck(d) BY <3>3 DEF DispatchRecheck
    <3>4. CASE DispatchMerge(d)   BY <3>4 DEF DispatchMerge, Overwrite
    <3>5. CASE DispatchSend(d)    BY <3>5 DEF DispatchSend
    <3> QED BY <2>2, <3>1, <3>2, <3>3, <3>4, <3>5 DEF DispatchStep
  <2>3. CASE WorkerReceive BY <2>3 DEF WorkerReceive
  <2>4. CASE WorkerDrain   BY <2>4 DEF WorkerDrain
  <2>5. CASE WorkerSwap    BY <2>5 DEF WorkerSwap, None, AfterWork
  <2>6. ASSUME NEW s \in Services, NEW success \in BOOLEAN, WorkerExecute(s, success)
        PROVE TypeOK'
    <3>1. [svc |-> s, at |-> work[s], ok |-> success] \in Result
      BY DEF Result
    <3>2. feedback' \in Seq(Result) /\ Len(feedback') <= FeedbackCap
      BY <2>6, <3>1, FeedbackCapAssumption DEF WorkerExecute
    <3>3. wpc' \in {"range", "exec", "exit"}
      BY <2>6 DEF WorkerExecute, AfterWork
    <3> QED BY <2>6, <3>2, <3>3 DEF WorkerExecute
  <2>7. CASE FeedbackReceive
    <3>1. feedback' \in Seq(Result) /\ Len(feedback') = Len(feedback) - 1
      BY <2>7 DEF FeedbackReceive
    <3>2. Len(feedback') <= FeedbackCap
      BY <3>1, FeedbackCapAssumption
    <3> QED BY <2>7, <3>1, <3>2 DEF FeedbackReceive
  <2>8. ASSUME NEW c \in Closers, CloseCall(c) PROVE TypeOK'
    BY <2>8 DEF CloseCall
  <2>9. ASSUME NEW c \in Closers, CloseStep(c) PROVE TypeOK'
    BY <2>9 DEF CloseStep, CloseBarrier, CloseChannel, CloseReturn
  <2>10. CASE UNCHANGED vars BY <2>10 DEF vars
  <2> QED
    BY <2>1, <2>2, <2>3, <2>4, <2>5, <2>6, <2>7, <2>8, <2>9, <2>10
    DEF Next, WorkerStep
<1> QED BY <1>1, <1>2, PTL DEF SafeSpec

-------------------------------------------------------------------------------
(* Each part of the invariant is preserved *)

(* Whoever is between lock and unlock holds mu, and nobody else does. *)
LEMMA MutexStep == TypeOK /\ MutexInv /\ [Next]_vars => MutexInv'
<1> SUFFICES ASSUME TypeOK, MutexInv, [Next]_vars PROVE MutexInv'
  OBVIOUS
<1> USE DEF TypeOK, MutexInv, Holding, callVars, workerVars, closeFrame
<1>1. ASSUME NEW d \in Dispatchers, NEW S \in SUBSET Services, DispatchCall(d, S) PROVE MutexInv'
  BY <1>1 DEF DispatchCall
<1>2. ASSUME NEW d \in Dispatchers, DispatchCheck(d) PROVE MutexInv'
  BY <1>2 DEF DispatchCheck
<1>3. ASSUME NEW d \in Dispatchers, DispatchLock(d) PROVE MutexInv'
  BY <1>3, FreeAssumption DEF DispatchLock
<1>4. ASSUME NEW d \in Dispatchers, DispatchRecheck(d) PROVE MutexInv'
  BY <1>4, FreeAssumption DEF DispatchRecheck
<1>5. ASSUME NEW d \in Dispatchers, DispatchMerge(d) PROVE MutexInv'
  BY <1>5 DEF DispatchMerge
<1>6. ASSUME NEW d \in Dispatchers, DispatchSend(d) PROVE MutexInv'
  BY <1>6, FreeAssumption DEF DispatchSend
<1>7. CASE WorkerReceive BY <1>7 DEF WorkerReceive
<1>8. CASE WorkerDrain BY <1>8 DEF WorkerDrain
<1>9. CASE WorkerSwap BY <1>9 DEF WorkerSwap
<1>10. ASSUME NEW s \in Services, NEW success \in BOOLEAN, WorkerExecute(s, success) PROVE MutexInv'
  BY <1>10 DEF WorkerExecute
<1>11. CASE FeedbackReceive BY <1>11 DEF FeedbackReceive
<1>12. ASSUME NEW c \in Closers, CloseCall(c) PROVE MutexInv'
  BY <1>12 DEF CloseCall
<1>13. ASSUME NEW c \in Closers, CloseBarrier(c) PROVE MutexInv'
  BY <1>13 DEF CloseBarrier
<1>14. ASSUME NEW c \in Closers, CloseChannel(c) PROVE MutexInv'
  BY <1>14 DEF CloseChannel
<1>15. ASSUME NEW c \in Closers, CloseReturn(c) PROVE MutexInv'
  BY <1>15 DEF CloseReturn
<1>16. CASE UNCHANGED vars BY <1>16 DEF vars
<1> QED
  BY <1>1, <1>2, <1>3, <1>4, <1>5, <1>6, <1>7, <1>8, <1>9, <1>10, <1>11, <1>12, <1>13, <1>14, <1>15, <1>16
  DEF Next, DispatchStep, WorkerStep, CloseStep

(* One caller of Close gets past the CAS, and it alone closes the channel. *)
LEMMA CloserStep == TypeOK /\ CloserInv /\ [Next]_vars => CloserInv'
<1> SUFFICES ASSUME TypeOK, CloserInv, [Next]_vars PROVE CloserInv'
  OBVIOUS
<1> USE DEF TypeOK, CloserInv, Closing, PastClose, callVars, workerVars, closeFrame
<1>1. ASSUME NEW d \in Dispatchers, NEW S \in SUBSET Services, DispatchCall(d, S) PROVE CloserInv'
  BY <1>1 DEF DispatchCall
<1>2. ASSUME NEW d \in Dispatchers, DispatchCheck(d) PROVE CloserInv'
  BY <1>2 DEF DispatchCheck
<1>3. ASSUME NEW d \in Dispatchers, DispatchLock(d) PROVE CloserInv'
  BY <1>3 DEF DispatchLock
<1>4. ASSUME NEW d \in Dispatchers, DispatchRecheck(d) PROVE CloserInv'
  BY <1>4 DEF DispatchRecheck
<1>5. ASSUME NEW d \in Dispatchers, DispatchMerge(d) PROVE CloserInv'
  BY <1>5 DEF DispatchMerge
<1>6. ASSUME NEW d \in Dispatchers, DispatchSend(d) PROVE CloserInv'
  BY <1>6 DEF DispatchSend
<1>7. CASE WorkerReceive BY <1>7 DEF WorkerReceive
<1>8. CASE WorkerDrain BY <1>8 DEF WorkerDrain
<1>9. CASE WorkerSwap BY <1>9 DEF WorkerSwap
<1>10. ASSUME NEW s \in Services, NEW success \in BOOLEAN, WorkerExecute(s, success) PROVE CloserInv'
  BY <1>10 DEF WorkerExecute
<1>11. CASE FeedbackReceive BY <1>11 DEF FeedbackReceive
<1>12. ASSUME NEW c \in Closers, CloseCall(c) PROVE CloserInv'
  BY <1>12 DEF CloseCall
<1>13. ASSUME NEW c \in Closers, CloseBarrier(c) PROVE CloserInv'
  BY <1>13 DEF CloseBarrier
<1>14. ASSUME NEW c \in Closers, CloseChannel(c) PROVE CloserInv'
  BY <1>14 DEF CloseChannel
<1>15. ASSUME NEW c \in Closers, CloseReturn(c) PROVE CloserInv'
  BY <1>15 DEF CloseReturn
<1>16. CASE UNCHANGED vars BY <1>16 DEF vars
<1> QED
  BY <1>1, <1>2, <1>3, <1>4, <1>5, <1>6, <1>7, <1>8, <1>9, <1>10, <1>11, <1>12, <1>13, <1>14, <1>15, <1>16
  DEF Next, DispatchStep, WorkerStep, CloseStep

(* Passing through mu leaves no dispatcher behind. *)
LEMMA BarrierStep == TypeOK /\ MutexInv /\ CloserInv /\ BarrierInv /\ [Next]_vars => BarrierInv'
<1> SUFFICES ASSUME TypeOK, MutexInv, CloserInv, BarrierInv, [Next]_vars PROVE BarrierInv'
  OBVIOUS
<1> USE DEF TypeOK, MutexInv, Holding, CloserInv, PastClose, BarrierInv, callVars, workerVars, closeFrame
<1>1. ASSUME NEW d \in Dispatchers, NEW S \in SUBSET Services, DispatchCall(d, S) PROVE BarrierInv'
  BY <1>1 DEF DispatchCall
<1>2. ASSUME NEW d \in Dispatchers, DispatchCheck(d) PROVE BarrierInv'
  BY <1>2 DEF DispatchCheck
<1>3. ASSUME NEW d \in Dispatchers, DispatchLock(d) PROVE BarrierInv'
  BY <1>3 DEF DispatchLock
<1>4. ASSUME NEW d \in Dispatchers, DispatchRecheck(d) PROVE BarrierInv'
  BY <1>4 DEF DispatchRecheck
<1>5. ASSUME NEW d \in Dispatchers, DispatchMerge(d) PROVE BarrierInv'
  BY <1>5 DEF DispatchMerge
<1>6. ASSUME NEW d \in Dispatchers, DispatchSend(d) PROVE BarrierInv'
  BY <1>6 DEF DispatchSend
<1>7. CASE WorkerReceive BY <1>7 DEF WorkerReceive
<1>8. CASE WorkerDrain BY <1>8 DEF WorkerDrain
<1>9. CASE WorkerSwap BY <1>9 DEF WorkerSwap
<1>10. ASSUME NEW s \in Services, NEW success \in BOOLEAN, WorkerExecute(s, success) PROVE BarrierInv'
  BY <1>10 DEF WorkerExecute
<1>11. CASE FeedbackReceive BY <1>11 DEF FeedbackReceive
<1>12. ASSUME NEW c \in Closers, CloseCall(c) PROVE BarrierInv'
  BY <1>12 DEF CloseCall
<1>13. ASSUME NEW c \in Closers, CloseBarrier(c) PROVE BarrierInv'
  BY <1>13, FreeAssumption DEF CloseBarrier
<1>14. ASSUME NEW c \in Closers, CloseChannel(c) PROVE BarrierInv'
  BY <1>14 DEF CloseChannel
<1>15. ASSUME NEW c \in Closers, CloseReturn(c) PROVE BarrierInv'
  BY <1>15 DEF CloseReturn
<1>16. CASE UNCHANGED vars BY <1>16 DEF vars
<1> QED
  BY <1>1, <1>2, <1>3, <1>4, <1>5, <1>6, <1>7, <1>8, <1>9, <1>10, <1>11, <1>12, <1>13, <1>14, <1>15, <1>16
  DEF Next, DispatchStep, WorkerStep, CloseStep

(* The worker ends with nothing left to execute. *)
LEMMA WorkerStepInv == TypeOK /\ CloserInv /\ BarrierInv /\ WorkerInv /\ NoLostWakeup /\ [Next]_vars => WorkerInv'
<1> SUFFICES ASSUME TypeOK, CloserInv, BarrierInv, WorkerInv, NoLostWakeup, [Next]_vars PROVE WorkerInv'
  OBVIOUS
<1> USE DEF TypeOK, WorkerInv, callVars, workerVars, closeFrame
<1>1. ASSUME NEW d \in Dispatchers, NEW S \in SUBSET Services, DispatchCall(d, S) PROVE WorkerInv'
  BY <1>1 DEF DispatchCall
<1>2. ASSUME NEW d \in Dispatchers, DispatchCheck(d) PROVE WorkerInv'
  BY <1>2 DEF DispatchCheck
<1>3. ASSUME NEW d \in Dispatchers, DispatchLock(d) PROVE WorkerInv'
  BY <1>3 DEF DispatchLock
<1>4. ASSUME NEW d \in Dispatchers, DispatchRecheck(d) PROVE WorkerInv'
  BY <1>4 DEF DispatchRecheck
<1>5. ASSUME NEW d \in Dispatchers, DispatchMerge(d) PROVE WorkerInv'
  BY <1>5 DEF DispatchMerge
<1>6. ASSUME NEW d \in Dispatchers, DispatchSend(d) PROVE WorkerInv'
  BY <1>6 DEF DispatchSend, BarrierInv
<1>7. CASE WorkerReceive BY <1>7 DEF WorkerReceive
<1>8. CASE WorkerDrain BY <1>8 DEF WorkerDrain
<1>9. CASE WorkerSwap BY <1>9 DEF WorkerSwap, AfterWork, NoLostWakeup, BarrierInv, CloserInv
<1>10. ASSUME NEW s \in Services, NEW success \in BOOLEAN, WorkerExecute(s, success) PROVE WorkerInv'
  BY <1>10 DEF WorkerExecute, AfterWork, CloserInv, PastClose
<1>11. CASE FeedbackReceive BY <1>11 DEF FeedbackReceive
<1>12. ASSUME NEW c \in Closers, CloseCall(c) PROVE WorkerInv'
  BY <1>12 DEF CloseCall
<1>13. ASSUME NEW c \in Closers, CloseBarrier(c) PROVE WorkerInv'
  BY <1>13 DEF CloseBarrier
<1>14. ASSUME NEW c \in Closers, CloseChannel(c) PROVE WorkerInv'
  BY <1>14 DEF CloseChannel
<1>15. ASSUME NEW c \in Closers, CloseReturn(c) PROVE WorkerInv'
  BY <1>15 DEF CloseReturn
<1>16. CASE UNCHANGED vars BY <1>16 DEF vars
<1> QED
  BY <1>1, <1>2, <1>3, <1>4, <1>5, <1>6, <1>7, <1>8, <1>9, <1>10, <1>11, <1>12, <1>13, <1>14, <1>15, <1>16
  DEF Next, DispatchStep, WorkerStep, CloseStep

(* A snapshot that waits keeps its wakeup. *)
LEMMA WakeupStep == TypeOK /\ WorkerInv /\ NoLostWakeup /\ [Next]_vars => NoLostWakeup'
<1> SUFFICES ASSUME TypeOK, WorkerInv, NoLostWakeup, [Next]_vars PROVE NoLostWakeup'
  OBVIOUS
<1> USE DEF TypeOK, NoLostWakeup, callVars, workerVars, closeFrame
<1>1. ASSUME NEW d \in Dispatchers, NEW S \in SUBSET Services, DispatchCall(d, S) PROVE NoLostWakeup'
  BY <1>1 DEF DispatchCall
<1>2. ASSUME NEW d \in Dispatchers, DispatchCheck(d) PROVE NoLostWakeup'
  BY <1>2 DEF DispatchCheck
<1>3. ASSUME NEW d \in Dispatchers, DispatchLock(d) PROVE NoLostWakeup'
  BY <1>3 DEF DispatchLock
<1>4. ASSUME NEW d \in Dispatchers, DispatchRecheck(d) PROVE NoLostWakeup'
  BY <1>4 DEF DispatchRecheck
<1>5. ASSUME NEW d \in Dispatchers, DispatchMerge(d) PROVE NoLostWakeup'
  BY <1>5 DEF DispatchMerge
<1>6. ASSUME NEW d \in Dispatchers, DispatchSend(d) PROVE NoLostWakeup'
  BY <1>6 DEF DispatchSend
<1>7. CASE WorkerReceive BY <1>7 DEF WorkerReceive
<1>8. CASE WorkerDrain BY <1>8 DEF WorkerDrain
<1>9. CASE WorkerSwap BY <1>9 DEF WorkerSwap
<1>10. ASSUME NEW s \in Services, NEW success \in BOOLEAN, WorkerExecute(s, success) PROVE NoLostWakeup'
  BY <1>10 DEF WorkerExecute
<1>11. CASE FeedbackReceive BY <1>11 DEF FeedbackReceive
<1>12. ASSUME NEW c \in Closers, CloseCall(c) PROVE NoLostWakeup'
  BY <1>12 DEF CloseCall
<1>13. ASSUME NEW c \in Closers, CloseBarrier(c) PROVE NoLostWakeup'
  BY <1>13 DEF CloseBarrier
<1>14. ASSUME NEW c \in Closers, CloseChannel(c) PROVE NoLostWakeup'
  BY <1>14 DEF CloseChannel
<1>15. ASSUME NEW c \in Closers, CloseReturn(c) PROVE NoLostWakeup'
  BY <1>15 DEF CloseReturn
<1>16. CASE UNCHANGED vars BY <1>16 DEF vars
<1> QED
  BY <1>1, <1>2, <1>3, <1>4, <1>5, <1>6, <1>7, <1>8, <1>9, <1>10, <1>11, <1>12, <1>13, <1>14, <1>15, <1>16
  DEF Next, DispatchStep, WorkerStep, CloseStep

(* Snapshots only get older along the pipeline. *)
LEMMA OrderStep == TypeOK /\ WorkerInv /\ OrderInv /\ [Next]_vars => OrderInv'
<1> SUFFICES ASSUME TypeOK, WorkerInv, OrderInv, [Next]_vars PROVE OrderInv'
  OBVIOUS
<1> USE DEF TypeOK, OrderInv, callVars, workerVars, closeFrame
<1>1. ASSUME NEW d \in Dispatchers, NEW S \in SUBSET Services, DispatchCall(d, S) PROVE OrderInv'
  BY <1>1 DEF DispatchCall
<1>2. ASSUME NEW d \in Dispatchers, DispatchCheck(d) PROVE OrderInv'
  BY <1>2 DEF DispatchCheck
<1>3. ASSUME NEW d \in Dispatchers, DispatchLock(d) PROVE OrderInv'
  BY <1>3 DEF DispatchLock
<1>4. ASSUME NEW d \in Dispatchers, DispatchRecheck(d) PROVE OrderInv'
  BY <1>4 DEF DispatchRecheck
<1>5. ASSUME NEW d \in Dispatchers, DispatchMerge(d) PROVE OrderInv'
  BY <1>5 DEF DispatchMerge, Overwrite
<1>6. ASSUME NEW d \in Dispatchers, DispatchSend(d) PROVE OrderInv'
  BY <1>6 DEF DispatchSend
<1>7. CASE WorkerReceive BY <1>7 DEF WorkerReceive
<1>8. CASE WorkerDrain BY <1>8 DEF WorkerDrain
<1>9. CASE WorkerSwap BY <1>9 DEF WorkerSwap, WorkerInv, None
<1>10. ASSUME NEW s \in Services, NEW success \in BOOLEAN, WorkerExecute(s, success) PROVE OrderInv'
  BY <1>10 DEF WorkerExecute
<1>11. CASE FeedbackReceive BY <1>11 DEF FeedbackReceive
<1>12. ASSUME NEW c \in Closers, CloseCall(c) PROVE OrderInv'
  BY <1>12 DEF CloseCall
<1>13. ASSUME NEW c \in Closers, CloseBarrier(c) PROVE OrderInv'
  BY <1>13 DEF CloseBarrier
<1>14. ASSUME NEW c \in Closers, CloseChannel(c) PROVE OrderInv'
  BY <1>14 DEF CloseChannel
<1>15. ASSUME NEW c \in Closers, CloseReturn(c) PROVE OrderInv'
  BY <1>15 DEF CloseReturn
<1>16. CASE UNCHANGED vars BY <1>16 DEF vars
<1> QED
  BY <1>1, <1>2, <1>3, <1>4, <1>5, <1>6, <1>7, <1>8, <1>9, <1>10, <1>11, <1>12, <1>13, <1>14, <1>15, <1>16
  DEF Next, DispatchStep, WorkerStep, CloseStep

(* The newest snapshot moves along the pipeline and is never dropped. *)
LEMMA NewestStep == TypeOK /\ WorkerInv /\ OrderInv /\ NewestSurvives /\ [Next]_vars => NewestSurvives'
<1> SUFFICES ASSUME TypeOK, WorkerInv, OrderInv, NewestSurvives, [Next]_vars PROVE NewestSurvives'
  OBVIOUS
<1> USE DEF TypeOK, NewestSurvives, Newest, callVars, workerVars, closeFrame
<1>1. ASSUME NEW d \in Dispatchers, NEW S \in SUBSET Services, DispatchCall(d, S) PROVE NewestSurvives'
  BY <1>1 DEF DispatchCall
<1>2. ASSUME NEW d \in Dispatchers, DispatchCheck(d) PROVE NewestSurvives'
  BY <1>2 DEF DispatchCheck
<1>3. ASSUME NEW d \in Dispatchers, DispatchLock(d) PROVE NewestSurvives'
  BY <1>3 DEF DispatchLock
<1>4. ASSUME NEW d \in Dispatchers, DispatchRecheck(d) PROVE NewestSurvives'
  BY <1>4 DEF DispatchRecheck
<1>5. ASSUME NEW d \in Dispatchers, DispatchMerge(d) PROVE NewestSurvives'
  BY <1>5 DEF DispatchMerge, Overwrite
<1>6. ASSUME NEW d \in Dispatchers, DispatchSend(d) PROVE NewestSurvives'
  BY <1>6 DEF DispatchSend
<1>7. CASE WorkerReceive BY <1>7 DEF WorkerReceive
<1>8. CASE WorkerDrain BY <1>8 DEF WorkerDrain
<1>9. CASE WorkerSwap BY <1>9 DEF WorkerSwap, WorkerInv, None
<1>10. ASSUME NEW s \in Services, NEW success \in BOOLEAN, WorkerExecute(s, success) PROVE NewestSurvives'
  BY <1>10 DEF WorkerExecute
<1>11. CASE FeedbackReceive BY <1>11 DEF FeedbackReceive
<1>12. ASSUME NEW c \in Closers, CloseCall(c) PROVE NewestSurvives'
  BY <1>12 DEF CloseCall
<1>13. ASSUME NEW c \in Closers, CloseBarrier(c) PROVE NewestSurvives'
  BY <1>13 DEF CloseBarrier
<1>14. ASSUME NEW c \in Closers, CloseChannel(c) PROVE NewestSurvives'
  BY <1>14 DEF CloseChannel
<1>15. ASSUME NEW c \in Closers, CloseReturn(c) PROVE NewestSurvives'
  BY <1>15 DEF CloseReturn
<1>16. CASE UNCHANGED vars BY <1>16 DEF vars
<1> QED
  BY <1>1, <1>2, <1>3, <1>4, <1>5, <1>6, <1>7, <1>8, <1>9, <1>10, <1>11, <1>12, <1>13, <1>14, <1>15, <1>16
  DEF Next, DispatchStep, WorkerStep, CloseStep

-------------------------------------------------------------------------------
(* The inductive invariant and what follows from it *)

LEMMA InitIInv == Init => IInv
<1> SUFFICES ASSUME Init PROVE IInv
  OBVIOUS
<1> USE DEF Init, None
<1>1. TypeOK
  <2>1. feedback \in Seq(Result) /\ Len(feedback) <= FeedbackCap
    BY FeedbackCapAssumption
  <2> QED BY <2>1 DEF TypeOK
<1>2. MutexInv /\ CloserInv /\ BarrierInv /\ WorkerInv
  BY FreeAssumption
  DEF MutexInv, Holding, CloserInv, Closing, PastClose, BarrierInv, WorkerInv
<1>3. NoLostWakeup /\ OrderInv /\ NewestSurvives
  BY DEF NoLostWakeup, OrderInv, NewestSurvives, Newest
<1> QED BY <1>1, <1>2, <1>3 DEF IInv

LEMMA Inductive == SafeSpec => []IInv
<1>1. IInv /\ TypeOK' /\ [Next]_vars => IInv'
  BY MutexStep, CloserStep, BarrierStep, WorkerStepInv, WakeupStep, OrderStep,
     NewestStep
  DEF IInv
<1> QED BY <1>1, InitIInv, TypeCorrect, PTL DEF SafeSpec

(* A Dispatch that races Close never panics: it cannot reach its send once *)
(* the channel is closed, because Close passes through mu between setting  *)
(* the flag and closing the channel (coalescer.go:198-203).                *)
THEOREM SendSafety == SafeSpec => []NoSendOnClosed
<1>1. IInv => NoSendOnClosed
  BY DEF IInv, BarrierInv, NoSendOnClosed
<1> QED BY <1>1, Inductive, PTL

(* Any number of callers of Close close the channel once: the CAS of       *)
(* coalescer.go:191 lets one of them through.                              *)
THEOREM CloseSafety == SafeSpec => []NoDoubleClose
<1>1. IInv => NoDoubleClose
  BY DEF IInv, CloserInv, Closing, PastClose, NoDoubleClose
<1> QED BY <1>1, Inductive, PTL

(* The last snapshot that Dispatch let in for a service is waiting, being  *)
(* executed or given to the backend, whatever happens around it.           *)
THEOREM NewestNeverLost == SafeSpec => []NewestSurvives
<1>1. IInv => NewestSurvives
  BY DEF IInv
<1> QED BY <1>1, Inductive, PTL

(* The worker never sleeps while a snapshot waits: processPending takes    *)
(* everything that was merged before the token it answers.                 *)
THEOREM WakeupSafety == SafeSpec => []NoLostWakeup
<1>1. IInv => NoLostWakeup
  BY DEF IInv
<1> QED BY <1>1, Inductive, PTL

(* A Close that returns without an error leaves nothing to execute, and    *)
(* the backend holds the newest snapshot of every service.                 *)
THEOREM CloseDrains == SafeSpec => []CloseDrained
<1>1. IInv => CloseDrained
  <2> SUFFICES ASSUME IInv, NEW c \in Closers, cpc[c] = "drained"
               PROVE /\ applied = accepted
                     /\ pending = None /\ work = None
                     /\ \A d \in Dispatchers : dpc[d] \notin {"merge", "send"}
    BY DEF CloseDrained
  <2>1. wpc = "exit" /\ notifyClosed /\ ~token
    BY DEF IInv, WorkerInv
  <2>2. \A d \in Dispatchers : dpc[d] \notin {"merge", "send"}
    BY <2>1 DEF IInv, BarrierInv
  <2>3. pending = None /\ work = None
    BY <2>1, <2>2 DEF IInv, NoLostWakeup, WorkerInv
  <2>4. \A s \in Services : accepted[s] = applied[s]
    BY <2>3 DEF IInv, NewestSurvives, Newest, None
  <2> QED BY <2>2, <2>3, <2>4 DEF IInv, TypeOK
<1> QED BY <1>1, Inductive, PTL

(* Nothing that was let in is lost to a later tick (coalescer.go:52-88), or *)
(* to a shutdown at any moment (coalescer.go:187-204).                      *)
THEOREM NothingEverLost == SafeSpec => []NothingLost
BY SendSafety, NewestNeverLost, CloseDrains, PTL DEF NothingLost

-------------------------------------------------------------------------------
(* What the feedback tells *)

Failed(results) == {i \in DOMAIN results : ~results[i].ok}

(* The results that wait are finitely many. *)
LEMMA FailedFinite ==
  ASSUME NEW f \in Seq(Result)
  PROVE  IsFiniteSet(Failed(f)) /\ Cardinality(Failed(f)) \in Nat
<1>1. DOMAIN f = 1 .. Len(f) /\ Len(f) \in Nat
  OBVIOUS
<1>2. IsFiniteSet(1 .. Len(f))
  BY <1>1, FS_Interval
<1>3. Failed(f) \in SUBSET (1 .. Len(f))
  BY <1>1 DEF Failed
<1>4. IsFiniteSet(Failed(f))
  BY <1>2, <1>3, FS_Subset
<1> QED BY <1>4, FS_CardinalityType

(* One more result is one more failure at most, and only if it is one. *)
LEMMA FailedAppend ==
  ASSUME NEW f \in Seq(Result), NEW r \in Result
  PROVE  Cardinality(Failed(Append(f, r))) <= Cardinality(Failed(f)) + (IF r.ok THEN 0 ELSE 1)
<1> DEFINE n == Len(f) + 1
<1>1. /\ DOMAIN f = 1 .. Len(f) /\ DOMAIN Append(f, r) = 1 .. n /\ Len(f) \in Nat
      /\ \A i \in 1 .. Len(f) : Append(f, r)[i] = f[i]
      /\ Append(f, r)[n] = r
  OBVIOUS
<1>2. CASE r.ok
  <2>1. Failed(Append(f, r)) \subseteq Failed(f)
    BY <1>1, <1>2 DEF Failed
  <2>2. Cardinality(Failed(Append(f, r))) <= Cardinality(Failed(f))
    BY <2>1, FailedFinite, FS_Subset
  <2> QED BY <1>2, <2>2, FailedFinite
<1>3. CASE ~r.ok
  <2>1. Failed(Append(f, r)) = Failed(f) \cup {n} /\ n \notin Failed(f)
    BY <1>1, <1>3 DEF Failed
  <2>2. Cardinality(Failed(Append(f, r))) = Cardinality(Failed(f)) + 1
    BY <2>1, FailedFinite, FS_AddElement
  <2> QED BY <1>3, <2>2, FailedFinite
<1> QED BY <1>2, <1>3

(* Taking a result out leaves no more failures than there were. *)
LEMMA FailedTail ==
  ASSUME NEW f \in Seq(Result), f # <<>>
  PROVE  Cardinality(Failed(Tail(f))) <= Cardinality(Failed(f))
<1> DEFINE shift == [i \in Failed(Tail(f)) |-> i + 1]
<1>1. /\ DOMAIN f = 1 .. Len(f) /\ DOMAIN Tail(f) = 1 .. (Len(f) - 1) /\ Len(f) \in Nat
      /\ \A i \in 1 .. (Len(f) - 1) : Tail(f)[i] = f[i + 1]
  OBVIOUS
<1>2. shift \in [Failed(Tail(f)) -> Failed(f)]
  BY <1>1 DEF Failed
<1>3. \A i, j \in Failed(Tail(f)) : shift[i] = shift[j] => i = j
  BY <1>1 DEF Failed
<1>4. shift \in Injection(Failed(Tail(f)), Failed(f))
  BY <1>2, <1>3 DEF Injection, IsInjective
<1>5. IsFiniteSet(Failed(f))
  BY FailedFinite
<1> QED BY <1>4, <1>5, FS_Injection

(* A result is added by the execution it reports, and is taken out in the  *)
(* order of the executions.                                                *)
LEMMA FeedbackStep == TypeOK /\ OrderInv /\ FeedbackHonest /\ [Next]_vars => FeedbackHonest'
<1> SUFFICES ASSUME TypeOK, OrderInv, FeedbackHonest, [Next]_vars PROVE FeedbackHonest'
  OBVIOUS
<1> DEFINE reported == <<feedback, applied, failureCount>>
<1>f. /\ feedback \in Seq(Result) /\ Len(feedback) \in Nat
      /\ DOMAIN feedback = 1 .. Len(feedback)
      /\ applied \in [Services -> Nat] /\ work \in [Services -> Nat] /\ failureCount \in Nat
      /\ \A i \in DOMAIN feedback :
           /\ feedback[i].at \in Nat /\ feedback[i].svc \in Services
           /\ feedback[i].at <= applied[feedback[i].svc]
      /\ \A i, j \in DOMAIN feedback :
           i < j /\ feedback[i].svc = feedback[j].svc => feedback[i].at < feedback[j].at
      /\ Cardinality(Failed(feedback)) <= failureCount /\ Cardinality(Failed(feedback)) \in Nat
  <2>1. feedback \in Seq(Result)
    BY DEF TypeOK
  <2>2. \A i \in DOMAIN feedback : feedback[i] \in Result
    BY <2>1
  <2>3. \A i \in DOMAIN feedback : feedback[i].at \in Nat /\ feedback[i].svc \in Services
    BY <2>2 DEF Result
  <2>4. Cardinality(Failed(feedback)) \in Nat
    BY <2>1, FailedFinite
  <2>5. Len(feedback) \in Nat /\ DOMAIN feedback = 1 .. Len(feedback)
    BY <2>1
  <2>6. Cardinality(Failed(feedback)) <= failureCount
    BY DEF FeedbackHonest, Failed
  <2>7. applied \in [Services -> Nat] /\ work \in [Services -> Nat] /\ failureCount \in Nat
    BY DEF TypeOK
  <2> QED BY <2>1, <2>3, <2>4, <2>5, <2>6, <2>7 DEF FeedbackHonest
<1>1. ASSUME NEW s \in Services, NEW success \in BOOLEAN, WorkerExecute(s, success)
      PROVE FeedbackHonest'
  <2> DEFINE r == [svc |-> s, at |-> work[s], ok |-> success]
  <2>1. r \in Result
    BY <1>f DEF Result
  <2>2. applied[s] < work[s] /\ applied' = [applied EXCEPT ![s] = work[s]]
    BY <1>1 DEF WorkerExecute, OrderInv
  <2>3. /\ failureCount' = failureCount + (IF success THEN 0 ELSE 1)
        /\ failureCount' >= failureCount /\ failureCount' \in Nat
    BY <1>1, <1>f DEF WorkerExecute
  <2>4. \A i \in DOMAIN feedback : feedback[i].at <= applied'[feedback[i].svc]
    BY <1>f, <2>2
  <2>5. CASE feedback' = feedback
    <3>1. Cardinality(Failed(feedback)) <= failureCount'
      BY <1>f, <2>3
    <3> QED BY <1>f, <2>4, <2>5, <3>1 DEF FeedbackHonest, Failed
  <2>6. CASE feedback' = Append(feedback, r)
    <3>1. /\ DOMAIN feedback' = 1 .. (Len(feedback) + 1)
          /\ \A i \in 1 .. Len(feedback) : feedback'[i] = feedback[i]
          /\ feedback'[Len(feedback) + 1] = r
      BY <1>f, <2>1, <2>6
    <3>2. \A i \in DOMAIN feedback' : feedback'[i].at <= applied'[feedback'[i].svc]
      BY <1>f, <2>2, <2>4, <3>1
    <3>3. \A i, j \in DOMAIN feedback' :
            i < j /\ feedback'[i].svc = feedback'[j].svc => feedback'[i].at < feedback'[j].at
      <4> SUFFICES ASSUME NEW i \in DOMAIN feedback', NEW j \in DOMAIN feedback',
                          i < j, feedback'[i].svc = feedback'[j].svc
                   PROVE  feedback'[i].at < feedback'[j].at
        OBVIOUS
      <4>1. i \in DOMAIN feedback /\ feedback'[i] = feedback[i]
        BY <1>f, <3>1
      <4>2. CASE j \in DOMAIN feedback
        BY <1>f, <3>1, <4>1, <4>2
      <4>3. CASE j = Len(feedback) + 1
        <5>1. feedback[i].svc = s /\ feedback'[j].at = work[s]
          BY <3>1, <4>1, <4>3
        <5>2. feedback[i].at <= applied[s] /\ feedback[i].at \in Nat
          BY <1>f, <4>1, <5>1
        <5> QED BY <1>f, <2>2, <4>1, <5>1, <5>2
      <4> QED BY <1>f, <3>1, <4>2, <4>3
    <3>4. Cardinality(Failed(feedback')) <= failureCount'
      <4>1. Cardinality(Failed(feedback'))
              <= Cardinality(Failed(feedback)) + (IF success THEN 0 ELSE 1)
        BY <1>f, <2>1, <2>6, FailedAppend
      <4>2. feedback' \in Seq(Result)
        BY <1>f, <2>1, <2>6
      <4>3. Cardinality(Failed(feedback')) \in Nat
        BY <4>2, FailedFinite
      <4> QED BY <1>f, <2>3, <4>1, <4>3
    <3> QED BY <3>2, <3>3, <3>4 DEF FeedbackHonest, Failed
  <2> QED BY <1>1, <2>5, <2>6 DEF WorkerExecute
<1>2. CASE FeedbackReceive
  <2>1. feedback # <<>> /\ feedback' = Tail(feedback) /\ UNCHANGED <<applied, failureCount>>
    BY <1>2 DEF FeedbackReceive, workerVars
  <2>2. /\ DOMAIN feedback' = 1 .. (Len(feedback) - 1)
        /\ \A i \in 1 .. (Len(feedback) - 1) : feedback'[i] = feedback[i + 1]
        /\ feedback' \in Seq(Result)
    BY <1>f, <2>1
  <2>3. Cardinality(Failed(feedback')) <= failureCount
    <3>1. Cardinality(Failed(feedback')) <= Cardinality(Failed(feedback))
      BY <1>f, <2>1, FailedTail
    <3>2. Cardinality(Failed(feedback')) \in Nat
      BY <2>2, FailedFinite
    <3> QED BY <1>f, <3>1, <3>2
  <2>4. \A i \in DOMAIN feedback' : i + 1 \in DOMAIN feedback /\ feedback'[i] = feedback[i + 1]
    BY <1>f, <2>2
  <2>5. \A i \in DOMAIN feedback' : feedback'[i].at <= applied[feedback'[i].svc]
    BY <1>f, <2>4
  <2>6. \A i, j \in DOMAIN feedback' :
          i < j /\ feedback'[i].svc = feedback'[j].svc => feedback'[i].at < feedback'[j].at
    <3> SUFFICES ASSUME NEW i \in DOMAIN feedback', NEW j \in DOMAIN feedback',
                        i < j, feedback'[i].svc = feedback'[j].svc
                 PROVE  feedback'[i].at < feedback'[j].at
      OBVIOUS
    <3>1. i + 1 < j + 1
      BY <2>2
    <3> QED BY <1>f, <2>4, <3>1
  <2> QED BY <2>1, <2>3, <2>5, <2>6 DEF FeedbackHonest, Failed
<1>3. UNCHANGED reported => FeedbackHonest'
  BY DEF FeedbackHonest
<1>4. ASSUME NEW d \in Dispatchers, NEW S \in SUBSET Services, DispatchCall(d, S)
      PROVE UNCHANGED reported
  BY <1>4 DEF DispatchCall, workerVars
<1>5. ASSUME NEW d \in Dispatchers, DispatchStep(d) PROVE UNCHANGED reported
  BY <1>5 DEF DispatchStep, DispatchCheck, DispatchLock, DispatchRecheck, DispatchMerge,
              DispatchSend, workerVars
<1>6. CASE WorkerReceive \/ WorkerDrain \/ WorkerSwap
  <2>1. UNCHANGED reported
    BY <1>6 DEF WorkerReceive, WorkerDrain, WorkerSwap
  <2> QED BY <1>3, <2>1
<1>7. ASSUME NEW c \in Closers, CloseCall(c) \/ CloseStep(c) PROVE UNCHANGED reported
  BY <1>7 DEF CloseCall, CloseStep, CloseBarrier, CloseChannel, CloseReturn, closeFrame, workerVars
<1>8. CASE UNCHANGED vars BY <1>3, <1>8 DEF vars
<1> QED
  BY <1>1, <1>2, <1>3, <1>4, <1>5, <1>6, <1>7, <1>8 DEF Next, WorkerStep

(* The tick that drains the feedback at its top learns of nothing that was *)
(* not applied, learns it in order and never twice, and misses no failure  *)
(* count: the drop of a result at coalescer.go:158 loses it, and nothing   *)
(* else.                                                                   *)
THEOREM FeedbackTruthful == SafeSpec => []FeedbackHonest
<1>1. Init => FeedbackHonest
  <2> SUFFICES ASSUME Init PROVE FeedbackHonest
    OBVIOUS
  <2>1. feedback = <<>> /\ failureCount = 0
    BY DEF Init
  <2>2. DOMAIN feedback = {}
    BY <2>1
  <2>3. {i \in DOMAIN feedback : ~feedback[i].ok} = {}
    BY <2>2
  <2>4. Cardinality({i \in DOMAIN feedback : ~feedback[i].ok}) = 0
    BY <2>3, FS_EmptySet
  <2> QED BY <2>1, <2>2, <2>4 DEF FeedbackHonest
<1>2. IInv /\ FeedbackHonest /\ [Next]_vars => FeedbackHonest'
  BY FeedbackStep DEF IInv
<1> QED BY <1>1, <1>2, Inductive, PTL DEF SafeSpec

-------------------------------------------------------------------------------
(* Refinement *)

(* Every step of the actuator is a step of the mailbox or changes nothing  *)
(* of what the mailbox sees.                                               *)
LEMMA MailboxStep == IInv /\ IInv' /\ [Next]_vars => [Mailbox!Next]_(Mailbox!vars)
<1> SUFFICES ASSUME IInv, IInv', [Next]_vars PROVE [Mailbox!Next]_(Mailbox!vars)
  OBVIOUS
<1> USE DEF callVars, workerVars, closeFrame, Mailbox!vars
<1>1. ASSUME NEW d \in Dispatchers, DispatchMerge(d) PROVE Mailbox!Next
  <2>1. ~notifyClosed /\ dirs[d] \in SUBSET Services
    BY <1>1 DEF DispatchMerge, IInv, BarrierInv, TypeOK
  <2>2. Mailbox!Post(dirs[d])
    BY <1>1, <2>1 DEF DispatchMerge, Overwrite, Mailbox!Post
  <2> QED BY <2>1, <2>2 DEF Mailbox!Next
<1>2. CASE WorkerSwap
  <2>1. work = None
    BY <1>2 DEF WorkerSwap, IInv, WorkerInv
  <2>2. CASE pending = None
    BY <1>2, <2>1, <2>2 DEF WorkerSwap
  <2>3. CASE pending # None
    <3>1. Mailbox!Take
      BY <1>2, <2>1, <2>3 DEF WorkerSwap, Mailbox!Take, Mailbox!Empty, None
    <3> QED BY <3>1 DEF Mailbox!Next
  <2> QED BY <2>2, <2>3
<1>3. ASSUME NEW s \in Services, NEW success \in BOOLEAN, WorkerExecute(s, success)
      PROVE Mailbox!Next
  BY <1>3 DEF WorkerExecute, Mailbox!Tell, Mailbox!Next
<1>4. ASSUME NEW c \in Closers, CloseChannel(c) PROVE Mailbox!Next
  <2>1. ~notifyClosed
    BY <1>4 DEF CloseChannel, IInv, CloserInv, Closing, PastClose
  <2> QED BY <1>4, <2>1 DEF CloseChannel, Mailbox!Shut, Mailbox!Next
<1>5. ASSUME NEW d \in Dispatchers, NEW S \in SUBSET Services, DispatchCall(d, S)
      PROVE UNCHANGED Mailbox!vars
  BY <1>5 DEF DispatchCall
<1>6. ASSUME NEW d \in Dispatchers,
             DispatchCheck(d) \/ DispatchLock(d) \/ DispatchRecheck(d) \/ DispatchSend(d)
      PROVE UNCHANGED Mailbox!vars
  BY <1>6 DEF DispatchCheck, DispatchLock, DispatchRecheck, DispatchSend
<1>7. CASE WorkerReceive \/ WorkerDrain \/ FeedbackReceive
  BY <1>7 DEF WorkerReceive, WorkerDrain, FeedbackReceive
<1>8. ASSUME NEW c \in Closers, CloseCall(c) \/ CloseBarrier(c) \/ CloseReturn(c)
      PROVE UNCHANGED Mailbox!vars
  BY <1>8 DEF CloseCall, CloseBarrier, CloseReturn
<1>9. CASE UNCHANGED vars
  BY <1>9 DEF vars
<1> QED
  BY <1>1, <1>2, <1>3, <1>4, <1>5, <1>6, <1>7, <1>8, <1>9
  DEF Next, DispatchStep, WorkerStep, CloseStep

(* The actuator keeps the safety part of the mailbox's promise: what is    *)
(* posted is overwritten only by a newer post, taken out with everything   *)
(* else, told once, and nothing is posted after the channel is closed.     *)
THEOREM ActuatorRefinesMailbox == SafeSpec => Mailbox!SafeSpec
<1>1. Init => Mailbox!Init
  BY DEF Init, None, Mailbox!Init, Mailbox!Empty
<1>2. SafeSpec => [][Mailbox!Next]_(Mailbox!vars)
  BY MailboxStep, Inductive, PTL DEF SafeSpec
<1> QED BY <1>1, <1>2, PTL DEF SafeSpec, Mailbox!SafeSpec
===============================================================================
