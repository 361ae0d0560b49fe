------------------------------- MODULE Actuator -------------------------------
(***************************************************************************)
(* The coalescing actuator (internal/actuator/coalescer.go): goroutines    *)
(* that call Dispatch, the one worker goroutine that runs loop, and the    *)
(* callers of Close.                                                       *)
(*                                                                         *)
(* A DirectiveSnapshot is identified by its CreatedAt, a logical time that *)
(* advances with every Dispatch that is let in; its other fields are data  *)
(* the actuator copies and never looks at.  0 stands for "no entry" in the *)
(* maps, as a missing key does in Go.                                      *)
(*                                                                         *)
(* A step is what one goroutine does between two points at which another   *)
(* one can get in: an atomic load, a CAS, the acquisition of mu, a channel *)
(* operation, a call of the backend.                                       *)
(***************************************************************************)
EXTENDS Naturals, Sequences, FiniteSets

CONSTANTS Services,     (* the services a directive can name                *)
          Dispatchers,  (* goroutines that call Dispatch                    *)
          Closers,      (* goroutines that call Close                       *)
          FeedbackCap,  (* feedbackBuf, the capacity of the feedback channel *)
          MaxClock      (* bound: calls of Dispatch in a behaviour          *)

ASSUME FeedbackCapAssumption == FeedbackCap \in Nat
ASSUME MaxClockAssumption == MaxClock \in Nat

(* mu when nobody holds it. *)
Free == "free"
ASSUME FreeAssumption == Free \notin Dispatchers

VARIABLES
  calls,          (* the calls of Dispatch so far                           *)
  clock,          (* time.Now() as Dispatch reads it under mu               *)
  mu,             (* the goroutine that holds mu, or Free                   *)
  closed,         (* the atomic flag closed                                 *)
  pending,        (* pending[s]: the snapshot waiting for s, or 0           *)
  token,          (* the channel notify, capacity 1, holds its element      *)
  notifyClosed,   (* close(a.notify) has been executed                      *)
  work,           (* work[s]: the snapshot the worker still has to execute  *)
  applied,        (* applied[s]: the last snapshot the backend was given    *)
  failureCount,   (* the executions that returned an error                  *)
  feedback,       (* the buffered results, oldest first                     *)
  dpc,            (* dpc[d]: where d stands in Dispatch                     *)
  dirs,           (* dirs[d]: the services with an Active directive in d's call *)
  wpc,            (* where the worker stands in loop                        *)
  ending,         (* the worker has seen the closed channel                 *)
  cpc,            (* cpc[c]: where c stands in Close, or what it returned   *)
  accepted        (* history: accepted[s] is the last snapshot let in for s *)

vars == <<calls, clock, mu, closed, pending, token, notifyClosed, work, applied,
          failureCount, feedback, dpc, dirs, wpc, ending, cpc, accepted>>

callVars   == <<calls, clock, dpc, dirs, accepted>>
workerVars == <<work, applied, failureCount, feedback, wpc, ending>>

None == [s \in Services |-> 0]

Init ==
  /\ calls = 0
  /\ clock = 0
  /\ mu = Free
  /\ closed = FALSE
  /\ pending = None
  /\ token = FALSE
  /\ notifyClosed = FALSE
  /\ work = None
  /\ applied = None
  /\ failureCount = 0
  /\ feedback = <<>>
  /\ dpc = [d \in Dispatchers |-> "idle"]
  /\ dirs = [d \in Dispatchers |-> {}]
  /\ wpc = "range"
  /\ ending = FALSE
  /\ cpc = [c \in Closers |-> "idle"]
  /\ accepted = None

-------------------------------------------------------------------------------
(* Dispatch *)

DispatchCall(d, S) ==
  /\ dpc[d] = "idle"
  /\ calls < MaxClock
  /\ calls' = calls + 1
  /\ dirs' = [dirs EXCEPT ![d] = S]
  /\ dpc' = [dpc EXCEPT ![d] = "check"]
  /\ UNCHANGED <<clock, mu, closed, pending, token, notifyClosed, workerVars, cpc, accepted>>

(* The load before the lock: a closed actuator ignores the call. *)
DispatchCheck(d) ==
  /\ dpc[d] = "check"
  /\ dpc' = [dpc EXCEPT ![d] = IF closed THEN "idle" ELSE "lock"]
  /\ UNCHANGED <<calls, clock, mu, closed, pending, token, notifyClosed, workerVars,
                 dirs, cpc, accepted>>

DispatchLock(d) ==
  /\ dpc[d] = "lock"
  /\ mu = Free
  /\ mu' = d
  /\ dpc' = [dpc EXCEPT ![d] = "recheck"]
  /\ UNCHANGED <<calls, clock, closed, pending, token, notifyClosed, workerVars,
                 dirs, cpc, accepted>>

(* Slip: the load under the lock is forgotten. *)
DispatchRecheck_Trusting(d) ==
  /\ dpc[d] = "recheck"
  /\ dpc' = [dpc EXCEPT ![d] = "merge"]
  /\ UNCHANGED <<calls, clock, mu, closed, pending, token, notifyClosed, workerVars,
                 dirs, cpc, accepted>>

(* The load under the lock. *)
DispatchRecheck(d) ==
  /\ dpc[d] = "recheck"
  /\ IF closed
     THEN /\ mu' = Free
          /\ dpc' = [dpc EXCEPT ![d] = "idle"]
     ELSE /\ dpc' = [dpc EXCEPT ![d] = "merge"]
          /\ UNCHANGED mu
  /\ UNCHANGED <<calls, clock, closed, pending, token, notifyClosed, workerVars,
                 dirs, cpc, accepted>>

Overwrite(map, S, at) == [s \in Services |-> IF s \in S THEN at ELSE map[s]]

(* Slip: a snapshot that waits is not replaced, the first one wins. *)
DispatchMerge_FirstWins(d) ==
  /\ dpc[d] = "merge"
  /\ clock' = clock + 1
  /\ pending' = Overwrite(pending, {s \in dirs[d] : pending[s] = 0}, clock + 1)
  /\ accepted' = Overwrite(accepted, dirs[d], clock + 1)
  /\ dpc' = [dpc EXCEPT ![d] = "send"]
  /\ UNCHANGED <<calls, mu, closed, token, notifyClosed, workerVars, dirs, cpc>>

(* The range over dirs: the newest snapshot of a service replaces the one  *)
(* that waits.                                                             *)
DispatchMerge(d) ==
  /\ dpc[d] = "merge"
  /\ clock' = clock + 1
  /\ pending' = Overwrite(pending, dirs[d], clock + 1)
  /\ accepted' = Overwrite(accepted, dirs[d], clock + 1)
  /\ dpc' = [dpc EXCEPT ![d] = "send"]
  /\ UNCHANGED <<calls, mu, closed, token, notifyClosed, workerVars, dirs, cpc>>

(* The select with a default: the send is skipped when the buffer is full. *)
(* The unlock that follows needs no step of its own.                       *)
DispatchSend(d) ==
  /\ dpc[d] = "send"
  /\ token' = TRUE
  /\ mu' = Free
  /\ dpc' = [dpc EXCEPT ![d] = "idle"]
  /\ UNCHANGED <<calls, clock, closed, pending, notifyClosed, workerVars, dirs,
                 cpc, accepted>>

-------------------------------------------------------------------------------
(* loop and processPending: the worker *)

(* Slip: a receive that does not notice the closed channel. *)
WorkerReceive_NeverEnds ==
  /\ wpc = "range"
  /\ token
  /\ token' = FALSE
  /\ wpc' = "window"
  /\ UNCHANGED <<callVars, mu, closed, pending, notifyClosed, work, applied,
                 failureCount, feedback, ending, cpc>>

(* The receive of "for range a.notify".  A closed channel still yields its *)
(* buffered element; without one it ends the loop.                         *)
WorkerReceive ==
  /\ wpc = "range"
  /\ \/ /\ token
        /\ token' = FALSE
        /\ wpc' = "window"
        /\ UNCHANGED ending
     \/ /\ ~token /\ notifyClosed
        /\ wpc' = "swap"
        /\ ending' = TRUE
        /\ UNCHANGED token
  /\ UNCHANGED <<callVars, mu, closed, pending, notifyClosed, work, applied,
                 failureCount, feedback, cpc>>

(* Slip: the worker returns on the closed channel without a last round. *)
WorkerDrain_NoLastRound ==
  /\ wpc = "window"
  /\ IF token
     THEN /\ token' = FALSE
          /\ UNCHANGED <<wpc, ending>>
     ELSE /\ wpc' = IF notifyClosed THEN "exit" ELSE "swap"
          /\ ending' = notifyClosed
          /\ UNCHANGED token
  /\ UNCHANGED <<callVars, mu, closed, pending, notifyClosed, work, applied,
                 failureCount, feedback, cpc>>

(* After the coalescing window: one turn of the loop that drains notify.   *)
WorkerDrain ==
  /\ wpc = "window"
  /\ IF token
     THEN /\ token' = FALSE
          /\ UNCHANGED <<wpc, ending>>
     ELSE /\ wpc' = "swap"
          /\ ending' = notifyClosed
          /\ UNCHANGED token
  /\ UNCHANGED <<callVars, mu, closed, pending, notifyClosed, work, applied,
                 failureCount, feedback, cpc>>

(* Where the worker goes when it has nothing left to execute. *)
AfterWork == IF ending THEN "exit" ELSE "range"

(* processPending up to its unlock. *)
WorkerSwap ==
  /\ wpc = "swap"
  /\ mu = Free
  /\ work' = pending
  /\ pending' = None
  /\ wpc' = IF pending = None THEN AfterWork ELSE "exec"
  /\ UNCHANGED <<callVars, mu, closed, token, notifyClosed, applied, failureCount,
                 feedback, ending, cpc>>

(* Slip: the result is sent with a blocking send. *)
WorkerExecute_BlockingSend(s, success) ==
  /\ wpc = "exec"
  /\ work[s] # 0
  /\ Len(feedback) < FeedbackCap
  /\ applied' = [applied EXCEPT ![s] = work[s]]
  /\ work' = [work EXCEPT ![s] = 0]
  /\ failureCount' = IF success THEN failureCount ELSE failureCount + 1
  /\ feedback' = Append(feedback, [svc |-> s, at |-> work[s], ok |-> success])
  /\ wpc' = IF work' = None THEN AfterWork ELSE "exec"
  /\ UNCHANGED <<callVars, mu, closed, pending, token, notifyClosed, ending, cpc>>

(* Slip: a snapshot that failed is put back to be tried in the next round. *)
WorkerExecute_Requeue(s, success) ==
  /\ wpc = "exec"
  /\ work[s] # 0
  /\ applied' = [applied EXCEPT ![s] = work[s]]
  /\ work' = [work EXCEPT ![s] = 0]
  /\ pending' = IF success \/ pending[s] # 0 THEN pending
                ELSE [pending EXCEPT ![s] = work[s]]
  /\ failureCount' = IF success THEN failureCount ELSE failureCount + 1
  /\ feedback' = IF Len(feedback) < FeedbackCap
                 THEN Append(feedback, [svc |-> s, at |-> work[s], ok |-> success])
                 ELSE feedback
  /\ wpc' = IF work' = None THEN AfterWork ELSE "exec"
  /\ UNCHANGED <<callVars, mu, closed, token, notifyClosed, ending, cpc>>

(* One turn of the loop over work, whose order Go leaves open: the backend *)
(* is given the snapshot and answers, and the result is offered to the     *)
(* feedback channel, which drops it when full.  A failed directive is      *)
(* counted and not tried again.                                            *)
WorkerExecute(s, success) ==
  /\ wpc = "exec"
  /\ work[s] # 0
  /\ applied' = [applied EXCEPT ![s] = work[s]]
  /\ work' = [work EXCEPT ![s] = 0]
  /\ failureCount' = IF success THEN failureCount ELSE failureCount + 1
  /\ feedback' = IF Len(feedback) < FeedbackCap
                 THEN Append(feedback, [svc |-> s, at |-> work[s], ok |-> success])
                 ELSE feedback
  /\ wpc' = IF work' = None THEN AfterWork ELSE "exec"
  /\ UNCHANGED <<callVars, mu, closed, pending, token, notifyClosed, ending, cpc>>

(* The receive at the top of Orchestrator.tick. *)
FeedbackReceive ==
  /\ feedback # <<>>
  /\ feedback' = Tail(feedback)
  /\ UNCHANGED <<callVars, mu, closed, pending, token, notifyClosed, work, applied,
                 failureCount, wpc, ending, cpc>>

-------------------------------------------------------------------------------
(* Close *)

closeFrame == <<callVars, mu, pending, token, workerVars>>

(* The CAS: the second caller returns nil at once. *)
CloseCall(c) ==
  /\ cpc[c] = "idle"
  /\ closed' = TRUE
  /\ cpc' = [cpc EXCEPT ![c] = IF closed THEN "already" ELSE "barrier"]
  /\ UNCHANGED <<closeFrame, notifyClosed>>

(* Slip: the channel is closed without passing through mu. *)
CloseBarrier_Skipped(c) ==
  /\ cpc[c] = "barrier"
  /\ cpc' = [cpc EXCEPT ![c] = "close"]
  /\ UNCHANGED <<closeFrame, closed, notifyClosed>>

(* Lock and Unlock: whoever held mu when the flag was set has let it go. *)
CloseBarrier(c) ==
  /\ cpc[c] = "barrier"
  /\ mu = Free
  /\ cpc' = [cpc EXCEPT ![c] = "close"]
  /\ UNCHANGED <<closeFrame, closed, notifyClosed>>

CloseChannel(c) ==
  /\ cpc[c] = "close"
  /\ notifyClosed' = TRUE
  /\ cpc' = [cpc EXCEPT ![c] = "wait"]
  /\ UNCHANGED <<closeFrame, closed>>

(* The select: wg.Wait has returned, or the context is done first. *)
CloseReturn(c) ==
  /\ cpc[c] = "wait"
  /\ \/ /\ wpc = "exit"
        /\ cpc' = [cpc EXCEPT ![c] = "drained"]
     \/ cpc' = [cpc EXCEPT ![c] = "timedOut"]
  /\ UNCHANGED <<closeFrame, closed, notifyClosed>>

-------------------------------------------------------------------------------
DispatchStep(d) ==
  \/ DispatchCheck(d) \/ DispatchLock(d) \/ DispatchRecheck(d)
  \/ DispatchMerge(d) \/ DispatchSend(d)

WorkerStep ==
  \/ WorkerReceive \/ WorkerDrain \/ WorkerSwap
  \/ \E s \in Services, success \in BOOLEAN : WorkerExecute(s, success)

CloseStep(c) == CloseBarrier(c) \/ CloseChannel(c) \/ CloseReturn(c)

Next ==
  \/ \E d \in Dispatchers, S \in SUBSET Services : DispatchCall(d, S)
  \/ \E d \in Dispatchers : DispatchStep(d)
  \/ WorkerStep
  \/ FeedbackReceive
  \/ \E c \in Closers : CloseCall(c)
  \/ \E c \in Closers : CloseStep(c)

(* The Go scheduler runs every goroutine that can run, and sync.Mutex      *)
(* hands the lock to a waiter that has waited for a millisecond, so nobody *)
(* who wants mu is passed over for ever.  Nothing obliges anybody to call  *)
(* Dispatch or Close, or to read the feedback.                             *)
Fairness ==
  /\ \A d \in Dispatchers : WF_vars(DispatchStep(d)) /\ SF_vars(DispatchLock(d))
  /\ WF_vars(WorkerStep) /\ SF_vars(WorkerSwap)
  /\ \A c \in Closers : WF_vars(CloseStep(c)) /\ SF_vars(CloseBarrier(c))

SafeSpec == Init /\ [][Next]_vars
Spec == SafeSpec /\ Fairness

-------------------------------------------------------------------------------
(* Properties *)

Result == [svc : Services, at : Nat, ok : BOOLEAN]

(* Every variable has its type; the feedback never exceeds its buffer.     *)
TypeOK ==
  /\ calls \in Nat
  /\ clock \in Nat
  /\ mu \in Dispatchers \cup {Free}
  /\ closed \in BOOLEAN
  /\ pending \in [Services -> Nat]
  /\ token \in BOOLEAN
  /\ notifyClosed \in BOOLEAN
  /\ work \in [Services -> Nat]
  /\ applied \in [Services -> Nat]
  /\ failureCount \in Nat
  /\ feedback \in Seq(Result) /\ Len(feedback) <= FeedbackCap
  /\ dpc \in [Dispatchers -> {"idle", "check", "lock", "recheck", "merge", "send"}]
  /\ dirs \in [Dispatchers -> SUBSET Services]
  /\ wpc \in {"range", "window", "swap", "exec", "exit"}
  /\ ending \in BOOLEAN
  /\ cpc \in [Closers ->
       {"idle", "already", "barrier", "close", "wait", "drained", "timedOut"}]
  /\ accepted \in [Services -> Nat]

(* Dispatch never sends on the closed channel, which would panic the       *)
(* orchestrator: the pass of Close through mu shuts the window between the *)
(* second check of closed and the send.                                    *)
NoSendOnClosed == \A d \in Dispatchers : dpc[d] = "send" => ~notifyClosed

(* However many callers Close has, the channel is closed once.             *)
NoDoubleClose == \A c \in Closers : cpc[c] = "close" => ~notifyClosed

(* Where the newest snapshot of s is: waiting, being executed, or given to *)
(* the backend.                                                            *)
Newest(s) == IF pending[s] # 0 THEN pending[s]
             ELSE IF work[s] # 0 THEN work[s]
             ELSE applied[s]

(* Coalescing drops only snapshots that a newer one of the same service    *)
(* replaces: the last one Dispatch let in is never lost, whatever Close,   *)
(* failures of the backend and other dispatches do meanwhile.              *)
NewestSurvives == \A s \in Services : accepted[s] = Newest(s)

(* A snapshot that waits has a wakeup on its way: the token is in the      *)
(* channel, its sender is about to put it there, or the worker is on its   *)
(* way to the swap.                                                        *)
NoLostWakeup ==
  pending # None => \/ token
                    \/ wpc \in {"window", "swap"}
                    \/ \E d \in Dispatchers : dpc[d] = "send"

(* When Close returns without an error the backend has been given the last *)
(* snapshot of every service and nothing can follow it.                    *)
CloseDrained ==
  (\E c \in Closers : cpc[c] = "drained")
    => /\ applied = accepted
       /\ pending = None /\ work = None
       /\ \A d \in Dispatchers : dpc[d] \notin {"merge", "send"}

(* A result in the feedback reports a snapshot the backend has been given, *)
(* the results of one service come in the order of their snapshots with    *)
(* none twice, and every failed one has been counted.                      *)
FeedbackHonest ==
  /\ \A i \in DOMAIN feedback : feedback[i].at <= applied[feedback[i].svc]
  /\ \A i, j \in DOMAIN feedback :
       i < j /\ feedback[i].svc = feedback[j].svc => feedback[i].at < feedback[j].at
  /\ Cardinality({i \in DOMAIN feedback : ~feedback[i].ok}) <= failureCount

(* Nothing that was let in is lost to a later tick or to a shutdown, and   *)
(* no dispatcher sends on the channel that Close has closed.               *)
NothingLost == NewestSurvives /\ CloseDrained /\ NoSendOnClosed

(* The backend is given every snapshot that was let in, or a newer one of  *)
(* the same service, even when nobody reads the feedback.                  *)
EventuallyApplied ==
  \A s \in Services, at \in 1..MaxClock :
    (accepted[s] = at) ~> (applied[s] >= at)

(* Once the flag is set the worker goroutine terminates, so a Close whose  *)
(* context is never done returns.                                          *)
WorkerTerminates == closed ~> (wpc = "exit")

(* What was let in is applied and, after a Close, the goroutine is gone.   *)
ComesToRest == EventuallyApplied /\ WorkerTerminates

(* The actuator implements the mailbox: a snapshot is posted by the merge, *)
(* the mailbox shuts when the channel is closed.                           *)
Mailbox == INSTANCE DirectiveMailbox
             WITH box <- pending, taken <- work, told <- applied,
                  open <- ~notifyClosed

ImplementsMailbox == Mailbox!Spec
===============================================================================
