----------------------------- MODULE IngestClient -----------------------------
(***************************************************************************)
(* The collector's way to the engine (internal/collector): scrapers put    *)
(* points on a bounded queue without waiting, one goroutine gathers them   *)
(* in batches and posts each batch with retries, behind a circuit breaker. *)
(* A post may be stored although its answer is lost, and every wait ends   *)
(* early when the context is cancelled.                                    *)
(*                                                                         *)
(* Points are numbered in the order in which they are built.  The request  *)
(* throttle, off by default, is modelled as on: without it the token is    *)
(* always there.                                                           *)
(***************************************************************************)
EXTENDS Integers, Sequences, SequencesExt

CONSTANTS QueueSize,
          BatchSizes,         (* the values of BatchMaxPoints considered    *)
          Attempts,           (* MaxRetries + 1                             *)
          CircuitOpenAfter,   (* failed batches that open the breaker       *)
          MaxPoints           (* bound: points built in a behaviour         *)

(* NewIngestClient and flushWithRetry put defaults in the place of what is *)
(* not positive; CircuitOpenAfter = 0 is a client without a breaker, which *)
(* is not modelled.                                                        *)
ClientConstants ==
  /\ QueueSize \in Nat \ {0} /\ BatchSizes \subseteq Nat \ {0}
  /\ Attempts \in Nat \ {0} /\ CircuitOpenAfter \in Nat \ {0} /\ MaxPoints \in Nat

VARIABLES
  batchMax,   (* BatchMaxPoints: configured, never changed                  *)
  built,      (* the number of the newest point                             *)
  queue,      (* the channel                                                *)
  batch,      (* Run's batch                                                *)
  pc,         (* where Run stands                                           *)
  final,      (* this is the flush before Run returns                       *)
  attempt,    (* posts of this batch already failed                         *)
  failures,   (* failed batches in a row, counted up to CircuitOpenAfter    *)
  breaker,    (* openTil: "closed" (zero), "open", or "expired" (in the past) *)
  cancelled,  (* ctx is done                                                *)
  stored,     (* the batches the engine has stored, in that order           *)
  dropped,    (* points counted in PointsDroppedTotal                       *)
  failed,     (* points of batches counted in BatchesErrorTotal             *)
  spent       (* history: failed posts that left the client since the       *)
              (* breaker last expired                                       *)

vars == <<batchMax, built, queue, batch, pc, final, attempt, failures, breaker, cancelled,
          stored, dropped, failed, spent>>
pipe == <<batchMax, built, queue, cancelled, dropped>>

Init ==
  /\ batchMax \in BatchSizes
  /\ built = 0
  /\ queue = <<>>
  /\ batch = <<>>
  /\ pc = "select"
  /\ final = FALSE
  /\ attempt = 0
  /\ failures = 0
  /\ breaker = "closed"
  /\ cancelled = FALSE
  /\ stored = <<>>
  /\ dropped = {}
  /\ failed = {}
  /\ spent = 0

-------------------------------------------------------------------------------
(* The scrapers, which do not stop at once when ctx is done. *)
Enqueue ==
  /\ built < MaxPoints
  /\ built' = built + 1
  /\ IF Len(queue) < QueueSize
     THEN queue' = Append(queue, built') /\ UNCHANGED dropped
     ELSE dropped' = dropped \cup {built'} /\ UNCHANGED queue
  /\ UNCHANGED <<batchMax, batch, pc, final, attempt, failures, breaker, cancelled, stored, failed,
                 spent>>

Cancel ==
  /\ ~cancelled
  /\ cancelled' = TRUE
  /\ UNCHANGED <<batchMax, built, queue, batch, pc, final, attempt, failures, breaker, stored, dropped,
                 failed, spent>>

CooldownPasses ==
  /\ breaker = "open"
  /\ breaker' = "expired"
  /\ spent' = 0
  /\ UNCHANGED <<pipe, batch, pc, final, attempt, failures, stored, failed>>

-------------------------------------------------------------------------------
(* Run *)

(* flush goes to the throttle, or back at once when the batch is empty. *)
StartFlush(points) == pc' = IF points = <<>> THEN "select" ELSE "token"

Receive ==
  /\ pc = "select"
  /\ queue # <<>>
  /\ queue' = Tail(queue)
  /\ LET full == Len(batch) >= 4 * batchMax
         kept == IF full THEN Tail(batch) ELSE batch
     IN  /\ batch' = Append(kept, Head(queue))
         /\ dropped' = IF full THEN dropped \cup {Head(batch)} ELSE dropped
  /\ IF Len(batch') >= batchMax THEN StartFlush(batch') ELSE UNCHANGED pc
  /\ UNCHANGED <<batchMax, built, cancelled, final, attempt, failures, breaker, stored, failed, spent>>

TickerFires ==
  /\ pc = "select"
  /\ batch # <<>>
  /\ StartFlush(batch)
  /\ UNCHANGED <<pipe, batch, final, attempt, failures, breaker, stored, failed, spent>>

(* Slip: the loop goes on after the last flush. *)
SeesCancel_GoesOn ==
  /\ pc = "select"
  /\ cancelled
  /\ StartFlush(batch)
  /\ UNCHANGED <<pipe, batch, final, attempt, failures, breaker, stored, failed, spent>>

SeesCancel ==
  /\ pc = "select"
  /\ cancelled
  /\ final' = TRUE
  /\ pc' = IF batch = <<>> THEN "returned" ELSE "token"
  /\ UNCHANGED <<pipe, batch, attempt, failures, breaker, stored, failed, spent>>

AfterFlush == IF final THEN "returned" ELSE "select"

(* Slip: a flush given up for the throttle empties the batch as the others do. *)
GivesUp_Clears ==
  /\ pc = "token"
  /\ cancelled
  /\ pc' = AfterFlush
  /\ batch' = <<>>
  /\ UNCHANGED <<pipe, final, attempt, failures, breaker, stored, failed, spent>>

(* Waiting for the throttle, flush returns with the batch as it is. *)
GivesUp ==
  /\ pc = "token"
  /\ cancelled
  /\ pc' = AfterFlush
  /\ UNCHANGED <<pipe, batch, final, attempt, failures, breaker, stored, failed, spent>>

TakesToken ==
  /\ pc = "token"
  /\ pc' = "check"
  /\ UNCHANGED <<pipe, batch, final, attempt, failures, breaker, stored, failed, spent>>

(* Slip: a batch that could not be sent is kept for the next flush. *)
FlushFailed_Keeps ==
  /\ pc' = AfterFlush
  /\ attempt' = 0
  /\ UNCHANGED <<batch, failed>>

(* The batch is counted and given up. *)
FlushFailed ==
  /\ pc' = AfterFlush
  /\ attempt' = 0
  /\ batch' = <<>>
  /\ failed' = failed \cup Range(batch)

CheckCircuit ==
  /\ pc = "check"
  /\ IF breaker = "open"
     THEN FlushFailed
     ELSE pc' = "post" /\ UNCHANGED <<batch, failed, attempt>>
  /\ UNCHANGED <<pipe, final, failures, breaker, stored, spent>>

recordSuccess ==
  /\ failures' = 0
  /\ breaker' = "closed"

(* Slip: opening the breaker starts the count again. *)
recordFailure_Restarts ==
  /\ failures' = (failures + 1) % CircuitOpenAfter
  /\ breaker' = IF failures' = 0 THEN "open" ELSE breaker

recordFailure ==
  /\ failures' = IF failures < CircuitOpenAfter THEN failures + 1 ELSE failures
  /\ breaker' = IF failures' = CircuitOpenAfter THEN "open" ELSE breaker

(* A post the engine stores and answers. *)
PostSucceeds ==
  /\ pc = "post"
  /\ ~cancelled
  /\ stored' = Append(stored, batch)
  /\ recordSuccess
  /\ spent' = 0
  /\ pc' = AfterFlush
  /\ attempt' = 0
  /\ batch' = <<>>
  /\ UNCHANGED <<pipe, final, failed>>

(* A post that fails: refused, or never sent because ctx is done, or       *)
(* stored while the answer is lost.                                        *)
PostFails ==
  /\ pc = "post"
  /\ spent' = IF breaker = "expired" /\ ~cancelled THEN spent + 1 ELSE spent
  /\ \/ UNCHANGED stored
     \/ ~cancelled /\ stored' = Append(stored, batch)
  /\ IF attempt = Attempts - 1
     THEN recordFailure /\ FlushFailed
     ELSE /\ attempt' = attempt + 1
          /\ pc' = "backoff"
          /\ UNCHANGED <<failures, breaker, batch, failed>>
  /\ UNCHANGED <<pipe, final>>

BackoffEnds ==
  /\ pc = "backoff"
  /\ pc' = "post"
  /\ UNCHANGED <<pipe, batch, final, attempt, failures, breaker, stored, failed, spent>>

(* A flush cut short by ctx does not count against the breaker. *)
BackoffCancelled ==
  /\ pc = "backoff"
  /\ cancelled
  /\ FlushFailed
  /\ UNCHANGED <<pipe, final, failures, breaker, stored, spent>>

Run ==
  \/ Receive \/ TickerFires \/ SeesCancel
  \/ GivesUp \/ TakesToken \/ CheckCircuit
  \/ PostSucceeds \/ PostFails
  \/ BackoffEnds \/ BackoffCancelled

Next == Enqueue \/ Cancel \/ CooldownPasses \/ Run

(* Run is a goroutine whose waits all have a timeout; among ready cases    *)
(* its select is random, hence fair to ctx.Done.                           *)
Spec == Init /\ [][Next]_vars /\ WF_vars(Run) /\ SF_vars(SeesCancel)

-------------------------------------------------------------------------------
(* Properties *)

(* The engine sees batches in the order in which they were gathered: a     *)
(* retry may store a batch again, and never a point of an earlier batch    *)
(* after one of a later.                                                   *)
BatchesInOrder ==
  \A i, j \in DOMAIN stored : i < j =>
     stored[i] = stored[j] \/ Last(stored[i]) < Head(stored[j])

(* A point the collector has built is on its way, stored, or counted in    *)
(* one of the error counters: none is lost without a trace.                *)
Accounted ==
  \A p \in 1 .. built :
     \/ p \in Range(queue) \cup Range(batch) \cup dropped \cup failed
     \/ \E b \in Range(stored) : p \in Range(b)

(* Once open, the breaker lets a single batch through after each cooldown, *)
(* until one succeeds: an engine that is down sees no more than the posts  *)
(* of that batch.                                                          *)
SingleTrial == spent <= Attempts

(* What a point's way to the engine must keep: the three above.            *)
CollectorSound == Accounted /\ BatchesInOrder /\ SingleTrial

(* A cancelled client returns, wherever the cancellation meets it.         *)
ShutdownEnds == cancelled ~> pc = "returned"
===============================================================================
