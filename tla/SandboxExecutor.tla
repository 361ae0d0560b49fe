--------------------------- MODULE SandboxExecutor ---------------------------
(***************************************************************************)
(* One batch of the sandbox's executor                                     *)
(* (internal/sandbox/parallel_executor.go RunBatch): a feeder, a pool of   *)
(* workers that a scaler enlarges and idle workers leave, a closer, and    *)
(* the reducer, which hands the results to the sink in the order of the    *)
(* jobs; and what the experiment makes of the results                      *)
(* (sandbox_orchestrator.go streamScenarioSnapshotsDeterministic).         *)
(*                                                                         *)
(* Workers are alike: the pool is the number of workers in each state and  *)
(* the jobs the others are at.  What a simulation computes is left out; it *)
(* may panic, which the worker turns into a result without a trace.  An    *)
(* idle timer may have run out whenever its worker waits: a job can take   *)
(* longer than it.                                                         *)
(***************************************************************************)
EXTENDS Integers, Sequences, FiniteSets, Functions

CONSTANTS NJobs,
          InitWorkers, MaxWorkers,
          JobBuffer, ResultBuffer,
          ReorderWindow,
          EnableAutoscale,
          FlushOnCancel,
          Cancellable,     (* whether the context of the batch can be cancelled *)
          MayPanic         (* whether a simulation can panic                    *)

Jobs == 0 .. NJobs - 1

VARIABLES
  cancelled,
  fed,        (* jobs the feeder has sent; then it closes jobCh                *)
  taken,      (* jobs taken from jobCh, in their order                         *)
  feeder,     (* whether the feeder still runs                                 *)
  idle,       (* workers at their select                                       *)
  retiring,   (* workers that have seen more than InitWorkers active           *)
  busy,       (* jobs being run                                                *)
  sending,    (* jobs whose result is to be sent                               *)
  panicked,   (* jobs whose simulation has panicked                            *)
  launching,  (* the scaler has decided on another worker                      *)
  resCh, resClosed,
  pending, next,
  reducer,    (* "reduce", "flush" after a cancellation, "returned"            *)
  delivered,  (* what the sink has been given                                  *)
  sentClosed  (* a worker has sent on the closed channel                       *)

vars == <<cancelled, fed, taken, feeder, idle, retiring, busy, sending, panicked, launching,
          resCh, resClosed, pending, next, reducer, delivered, sentClosed>>
pool == <<idle, retiring, busy, sending, panicked, launching, sentClosed>>
reduction == <<resCh, pending, next, reducer, delivered>>

Init ==
  /\ cancelled = FALSE
  /\ fed = 0 /\ taken = 0 /\ feeder = TRUE
  /\ idle = InitWorkers /\ retiring = 0
  /\ busy = {} /\ sending = {} /\ panicked = {}
  /\ launching = FALSE
  /\ resCh = <<>> /\ resClosed = FALSE
  /\ pending = {} /\ next = 0
  /\ reducer = "reduce"
  /\ delivered = <<>>
  /\ sentClosed = FALSE

activeWorkers == idle + retiring + Cardinality(busy) + Cardinality(sending)
jobChClosed == ~feeder

Cancel ==
  /\ Cancellable /\ ~cancelled
  /\ cancelled' = TRUE
  /\ UNCHANGED <<fed, taken, feeder, pool, resClosed, reduction>>

Feed ==
  /\ feeder
  /\ \/ fed < NJobs /\ fed - taken < JobBuffer /\ fed' = fed + 1 /\ feeder' = TRUE
     \/ (fed = NJobs \/ cancelled) /\ feeder' = FALSE /\ fed' = fed
  /\ UNCHANGED <<cancelled, taken, pool, resClosed, reduction>>

(* The scaler reads the queue and the pool, and launches afterwards. *)
Scale ==
  /\ EnableAutoscale /\ ~cancelled /\ ~launching
  /\ fed - taken > activeWorkers
  /\ 10 * Cardinality(busy) > 7 * (activeWorkers + 1)
  /\ activeWorkers < MaxWorkers
  /\ launching' = TRUE
  /\ UNCHANGED <<cancelled, fed, taken, feeder, idle, retiring, busy, sending, panicked, sentClosed,
                 resClosed, reduction>>

Launch ==
  /\ launching
  /\ launching' = FALSE
  /\ idle' = idle + 1
  /\ UNCHANGED <<cancelled, fed, taken, feeder, retiring, busy, sending, panicked, sentClosed,
                 resClosed, reduction>>

(* A worker takes a job, or leaves: the jobs are done or cancelled. *)
TakeJob ==
  /\ idle > 0 /\ taken < fed
  /\ idle' = idle - 1
  /\ busy' = busy \cup {taken}
  /\ taken' = taken + 1
  /\ UNCHANGED <<cancelled, fed, feeder, retiring, sending, panicked, launching, sentClosed,
                 resClosed, reduction>>

Leave ==
  /\ idle > 0
  /\ cancelled \/ (jobChClosed /\ taken = fed)
  /\ idle' = idle - 1
  /\ UNCHANGED <<cancelled, fed, taken, feeder, retiring, busy, sending, panicked, launching,
                 sentClosed, resClosed, reduction>>

(* Slip: a worker whose timer runs out leaves, whatever is left. *)
MayRetire_Always == TRUE

MayRetire == activeWorkers > InitWorkers

(* The idle timer: the check, then, later, the worker is counted off. *)
IdleTimeout ==
  /\ idle > 0 /\ MayRetire
  /\ idle' = idle - 1
  /\ retiring' = retiring + 1
  /\ UNCHANGED <<cancelled, fed, taken, feeder, busy, sending, panicked, launching, sentClosed,
                 resClosed, reduction>>

Retire ==
  /\ retiring > 0
  /\ retiring' = retiring - 1
  /\ UNCHANGED <<cancelled, fed, taken, feeder, idle, busy, sending, panicked, launching, sentClosed,
                 resClosed, reduction>>

(* runSafe *)
RunJob(j) ==
  /\ j \in busy
  /\ busy' = busy \ {j}
  /\ sending' = sending \cup {j}
  /\ \/ panicked' = panicked
     \/ MayPanic /\ panicked' = panicked \cup {j}
  /\ UNCHANGED <<cancelled, fed, taken, feeder, idle, retiring, launching, sentClosed,
                 resClosed, reduction>>

SendResult(j) ==
  /\ j \in sending
  /\ sending' = sending \ {j}
  /\ \/ /\ ~resClosed /\ Len(resCh) < ResultBuffer
        /\ resCh' = Append(resCh, j)
        /\ idle' = idle + 1
        /\ UNCHANGED sentClosed
     \/ /\ resClosed
        /\ sentClosed' = TRUE
        /\ UNCHANGED <<idle, resCh>>
     \/ /\ cancelled
        /\ UNCHANGED <<idle, resCh, sentClosed>>
  /\ UNCHANGED <<cancelled, fed, taken, feeder, retiring, busy, panicked, launching,
                 resClosed, pending, next, reducer, delivered>>

CloseResults ==
  /\ ~resClosed /\ activeWorkers = 0
  /\ resClosed' = TRUE
  /\ UNCHANGED <<cancelled, fed, taken, feeder, pool, reduction>>

(* Slip: a result that is not the next one is handed on at once. *)
Accept_Unordered(r) ==
  /\ delivered' = Append(delivered, r)
  /\ next' = next + 1
  /\ UNCHANGED pending

(* Slip: what is handed on to make room waits on. *)
Accept_Keeps(r) ==
  \/ /\ r = next
     /\ delivered' = Append(delivered, r)
     /\ next' = next + 1
     /\ UNCHANGED pending
  \/ /\ r # next
     /\ pending' = pending \cup {r}
     /\ delivered' \in IF Cardinality(pending) < ReorderWindow THEN {delivered}
                       ELSE {Append(delivered, k) : k \in pending}
     /\ UNCHANGED next

(* A result goes to the sink if it is the next one, and waits otherwise;   *)
(* when too many wait, any one of them is handed on to make room.  The     *)
(* results that waited for it stay where they are.                         *)
Accept(r) ==
  \/ /\ r = next
     /\ delivered' = Append(delivered, r)
     /\ next' = next + 1
     /\ UNCHANGED pending
  \/ /\ r # next
     /\ \/ /\ Cardinality(pending) < ReorderWindow
           /\ pending' = pending \cup {r}
           /\ UNCHANGED delivered
        \/ /\ Cardinality(pending) >= ReorderWindow
           /\ \E k \in pending :
                /\ pending' = (pending \ {k}) \cup {r}
                /\ delivered' = Append(delivered, k)
     /\ UNCHANGED next

Reduce ==
  /\ reducer = "reduce" /\ resCh # <<>>
  /\ resCh' = Tail(resCh)
  /\ Accept(Head(resCh))
  /\ UNCHANGED <<cancelled, fed, taken, feeder, pool, resClosed, reducer>>

(* How far the results that wait continue the ones handed on. *)
RunOf(from) == CHOOSE n \in 0 .. NJobs :
  /\ \A i \in 0 .. n - 1 : from + i \in pending
  /\ from + n \notin pending

(* The channel is closed: what waits is handed on, up to the first gap. *)
FinishReduce ==
  /\ reducer = "reduce" /\ resCh = <<>> /\ resClosed
  /\ LET n == RunOf(next)
     IN  /\ delivered' = delivered \o [i \in 1 .. n |-> next + i - 1]
         /\ pending' = pending \ (next .. next + n - 1)
         /\ next' = next + n
  /\ reducer' = "returned"
  /\ UNCHANGED <<cancelled, fed, taken, feeder, pool, resCh, resClosed>>

ReduceCancelled ==
  /\ reducer = "reduce" /\ cancelled
  /\ reducer' = IF FlushOnCancel THEN "flush" ELSE "returned"
  /\ UNCHANGED <<cancelled, fed, taken, feeder, pool, resCh, resClosed, pending, next, delivered>>

Flush ==
  /\ reducer = "flush"
  /\ \/ /\ resCh # <<>>
        /\ delivered' = Append(delivered, Head(resCh))
        /\ resCh' = Tail(resCh)
        /\ UNCHANGED reducer
     \/ /\ resCh = <<>> /\ resClosed
        /\ reducer' = "returned"
        /\ UNCHANGED <<delivered, resCh>>
  /\ UNCHANGED <<cancelled, fed, taken, feeder, pool, resClosed, pending, next>>

Work ==
  \/ TakeJob \/ Leave \/ IdleTimeout \/ Retire
  \/ \E j \in busy : RunJob(j)
  \/ \E j \in sending : SendResult(j)

Next ==
  \/ Cancel \/ Feed \/ Scale \/ Launch \/ Work
  \/ CloseResults \/ Reduce \/ FinishReduce \/ ReduceCancelled \/ Flush

(* Every goroutine that can run does so. *)
Fairness ==
  /\ WF_vars(Feed) /\ WF_vars(Launch) /\ WF_vars(TakeJob) /\ WF_vars(Leave) /\ WF_vars(Retire)
  /\ \A j \in Jobs : WF_vars(RunJob(j) \/ SendResult(j))
  /\ WF_vars(CloseResults)
  /\ WF_vars(Reduce \/ FinishReduce \/ ReduceCancelled \/ Flush)

Spec == Init /\ [][Next]_vars /\ Fairness

(* The snapshots the experiment compares; the others stay zero. *)
Snapshots == {delivered[i] : i \in DOMAIN delivered} \ panicked

-------------------------------------------------------------------------------
(* Properties *)

(* A batch that was not cancelled hands on the result of every job, once   *)
(* and in the order of the jobs, however the workers overtake each other,  *)
(* as long as the window can hold the results that wait and the pool does  *)
(* not scale, as the engine's does not (phase_runtime.go): the experiment  *)
(* has a snapshot of every job whose simulation did not panic.             *)
AllDelivered ==
  reducer = "returned" /\ ~cancelled /\ ~EnableAutoscale /\ NJobs <= ReorderWindow + 1 =>
    /\ delivered = [i \in 1 .. NJobs |-> i - 1]
    /\ Snapshots = Jobs \ panicked

(* No result is handed on twice, also when the window is too small for the *)
(* results that wait, the pool grows and shrinks, and the batch is flushed *)
(* after a cancellation.                                                   *)
NothingTwice == IsInjective(delivered)

(* A batch ends, cancelled or not, and leaves no goroutine behind but the  *)
(* scaler: nobody waits on a channel that nobody serves.                   *)
BatchEnds == <>(reducer = "returned" /\ ~feeder /\ activeWorkers = 0 /\ resClosed)

(* "correct feeder termination semantics": the feeder ends, whatever the   *)
(* pool does.                                                              *)
FeederEnds == <>~feeder
===============================================================================
