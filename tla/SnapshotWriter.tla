---------------------------- MODULE SnapshotWriter ----------------------------
(***************************************************************************)
(* Persistence (internal/persistence/writer.go) between its two users: the *)
(* engine's tick, which Enqueues a snapshot, and main, which Closes the    *)
(* writer on the way out (cmd/loadequilibrium/main.go).  The drain         *)
(* goroutine sends one statement at a time over one PostgreSQL connection, *)
(* whose protocol is modelled message by message: to each query the server *)
(* answers CommandComplete "C" or ErrorResponse "E", then ReadyForQuery    *)
(* "Z".                                                                    *)
(***************************************************************************)
EXTENDS Integers, Sequences, FiniteSets

CONSTANTS queueCap,      (* bufSize given to NewWriter                      *)
          MaxSnapshots   (* bound: snapshots the engine makes               *)

ASSUME WriterAssumption == {queueCap, MaxSnapshots} \subseteq Nat \ {0}

VARIABLES
  engine,     \* "idle", "tick", "stopped" or "panicked"
  cancelled,  \* the context of Run
  main,       \* "serve", "closing" (waits for the drain) or "exit"
  queue, closed,      \* the channel of the writer
  hasSim,     \* the snapshots made: did the tick have a simulation result
  outcome,    \* snapshot -> what became of it
  drain,      \* where the drain goroutine stands
  linkUp,     \* the connection works
  requests,   \* statements sent that the server has not run
  replies,    \* messages the server sent that the driver has not read
  stored,     \* the rows of engine_snapshots, in the order of insertion
  errors      \* history: error replies this connection has returned

procVars == <<engine, cancelled, main>>
linkVars == <<linkUp, requests, replies, stored, errors>>
vars == <<procVars, queue, closed, hasSim, outcome, drain, linkVars>>

Snapshots == 1 .. Len(hasSim)

Init ==
  /\ engine = "idle" /\ cancelled = FALSE /\ main = "serve"
  /\ queue = <<>> /\ closed = FALSE
  /\ hasSim = <<>> /\ outcome = <<>>
  /\ drain = [pc |-> "receive"]
  /\ linkUp = TRUE /\ requests = <<>> /\ replies = <<>> /\ stored = <<>>
  /\ errors = 0

(* A panic in any goroutine, and the return of main, end the process. *)
Alive == engine # "panicked" /\ main # "exit"

-------------------------------------------------------------------------------
(* The engine *)

(* Also after the cancellation: select may prefer the timer, and nobody    *)
(* waits for a tick that is under way.                                     *)
TickStart ==
  /\ Alive /\ engine = "idle" /\ Len(hasSim) < MaxSnapshots
  /\ engine' = "tick"
  /\ UNCHANGED <<cancelled, main, queue, closed, hasSim, outcome, drain, linkVars>>

(* Under pressure the tick skips persistence. *)
TickSkip ==
  /\ Alive /\ engine = "tick"
  /\ engine' = "idle"
  /\ UNCHANGED <<cancelled, main, queue, closed, hasSim, outcome, drain, linkVars>>

(* Slip: the queue grows instead of dropping.                              *)
Enqueue_Grow(sim) ==
  /\ Alive /\ engine = "tick"
  /\ engine' = IF closed THEN "panicked" ELSE "idle"
  /\ queue' = IF closed THEN queue ELSE Append(queue, Len(hasSim) + 1)
  /\ outcome' = Append(outcome, IF closed THEN "dropped" ELSE "queued")
  /\ hasSim' = Append(hasSim, sim)
  /\ UNCHANGED <<cancelled, main, closed, drain, linkVars>>

(* Enqueue never blocks: a full queue drops the snapshot; a send on a      *)
(* closed channel panics, in a select with a default too.                  *)
Enqueue(sim) ==
  /\ Alive /\ engine = "tick"
  /\ engine' = IF closed THEN "panicked" ELSE "idle"
  /\ LET accepted == ~closed /\ Len(queue) < queueCap
     IN  /\ queue' = IF accepted THEN Append(queue, Len(hasSim) + 1) ELSE queue
         /\ outcome' = Append(outcome, IF accepted THEN "queued" ELSE "dropped")
  /\ hasSim' = Append(hasSim, sim)
  /\ UNCHANGED <<cancelled, main, closed, drain, linkVars>>

RunReturns ==
  /\ Alive /\ engine = "idle" /\ cancelled
  /\ engine' = "stopped"
  /\ UNCHANGED <<cancelled, main, queue, closed, hasSim, outcome, drain, linkVars>>

-------------------------------------------------------------------------------
(* main *)

Signal ==
  /\ ~cancelled
  /\ cancelled' = TRUE
  /\ UNCHANGED <<engine, main, queue, closed, hasSim, outcome, drain, linkVars>>

(* Slip: Close waits for the drain without closing its queue.              *)
Close_KeepOpen ==
  /\ Alive /\ cancelled /\ main = "serve"
  /\ main' = "closing"
  /\ UNCHANGED <<engine, cancelled, closed, queue, hasSim, outcome, drain, linkVars>>

(* pw.Close, once the HTTP server and the actuator are shut down.          *)
Close ==
  /\ Alive /\ cancelled /\ main = "serve"
  /\ closed' = TRUE
  /\ main' = "closing"
  /\ UNCHANGED <<engine, cancelled, queue, hasSim, outcome, drain, linkVars>>

(* Slip: Close does not wait for done.                                     *)
Exit_NoWait ==
  /\ Alive /\ main = "closing"
  /\ main' = "exit"
  /\ UNCHANGED <<engine, cancelled, queue, closed, hasSim, outcome, drain, linkVars>>

Exit ==
  /\ Alive /\ main = "closing"
  /\ drain.pc = "done"
  /\ main' = "exit"
  /\ UNCHANGED <<engine, cancelled, queue, closed, hasSim, outcome, drain, linkVars>>

-------------------------------------------------------------------------------
(* The drain goroutine and its driver *)

Report(s, what) ==
  /\ outcome' = [outcome EXCEPT ![s] = what]
  /\ drain' = [pc |-> "receive"]

(* Send the statement of s, or fail on a connection that is gone.          *)
Query(s) ==
  IF linkUp
  THEN /\ requests' = Append(requests, s)
       /\ drain' = [pc |-> "read", snap |-> s]
       /\ UNCHANGED outcome
  ELSE Report(s, "error") /\ UNCHANGED requests

(* Slip: the newest snapshot first.                                        *)
DrainReceive_Newest ==
  /\ Alive /\ drain.pc = "receive" /\ queue # <<>>
  /\ queue' = SubSeq(queue, 1, Len(queue) - 1)
  /\ Query(queue[Len(queue)])
  /\ UNCHANGED <<procVars, closed, hasSim, linkUp, replies, stored, errors>>

DrainReceive ==
  /\ Alive /\ drain.pc = "receive" /\ queue # <<>>
  /\ queue' = Tail(queue)
  /\ Query(Head(queue))
  /\ UNCHANGED <<procVars, closed, hasSim, linkUp, replies, stored, errors>>

DrainDone ==
  /\ Alive /\ drain.pc = "receive" /\ queue = <<>> /\ closed
  /\ drain' = [pc |-> "done"]
  /\ UNCHANGED <<procVars, queue, closed, hasSim, outcome, linkVars>>

(* Slip: CommandComplete is taken for the end of the response.             *)
ReadReply_Early ==
  /\ Alive /\ drain.pc = "read" /\ replies # <<>>
  /\ replies' = Tail(replies)
  /\ Report(drain.snap, IF Head(replies) = "E" THEN "error" ELSE "ok")
  /\ errors' = errors + (IF Head(replies) = "E" THEN 1 ELSE 0)
  /\ UNCHANGED <<procVars, queue, closed, hasSim, linkUp, requests, stored>>

(* One message: "E" ends the call at once, "Z" ends it well.               *)
ReadReply ==
  /\ Alive /\ drain.pc = "read" /\ replies # <<>>
  /\ replies' = Tail(replies)
  /\ CASE Head(replies) = "E" ->
            Report(drain.snap, "error") /\ errors' = errors + 1
       [] Head(replies) = "Z" ->
            Report(drain.snap, "ok") /\ UNCHANGED errors
       [] OTHER -> UNCHANGED <<outcome, drain, errors>>
  /\ UNCHANGED <<procVars, queue, closed, hasSim, linkUp, requests, stored>>

(* The read fails; database/sql keeps the connection, for the error is not *)
(* driver.ErrBadConn.                                                      *)
ReadFails ==
  /\ Alive /\ drain.pc = "read" /\ ~linkUp
  /\ Report(drain.snap, "error")
  /\ UNCHANGED <<procVars, queue, closed, hasSim, linkVars>>

(* SetConnMaxLifetime: an expired connection is replaced before its next use. *)
Reconnect ==
  /\ Alive /\ drain.pc = "receive"
  /\ linkUp' = TRUE /\ requests' = <<>> /\ replies' = <<>> /\ errors' = 0
  /\ UNCHANGED <<procVars, queue, closed, hasSim, outcome, drain, stored>>

-------------------------------------------------------------------------------
(* The server.  A snapshot without a simulation result carries '' for a    *)
(* JSONB column, which is not JSON: its row is refused.                    *)
ServerRuns ==
  /\ linkUp /\ requests # <<>>
  /\ requests' = Tail(requests)
  /\ IF hasSim[Head(requests)]
     THEN /\ stored' = Append(stored, Head(requests))
          /\ replies' = replies \o <<"C", "Z">>
     ELSE /\ replies' = replies \o <<"E", "Z">>
          /\ UNCHANGED stored
  /\ UNCHANGED <<procVars, queue, closed, hasSim, outcome, drain, linkUp, errors>>

LinkBreaks ==
  /\ linkUp
  /\ linkUp' = FALSE /\ requests' = <<>> /\ replies' = <<>>
  /\ UNCHANGED <<procVars, queue, closed, hasSim, outcome, drain, stored, errors>>

(* The process is over. *)
Over == ~Alive /\ UNCHANGED vars

Next ==
  \/ TickStart \/ TickSkip \/ (\E sim \in BOOLEAN : Enqueue(sim)) \/ RunReturns
  \/ Signal \/ Close \/ Exit
  \/ DrainReceive \/ DrainDone \/ ReadReply \/ ReadFails \/ Reconnect
  \/ ServerRuns \/ LinkBreaks
  \/ Over

Spec == Init /\ [][Next]_vars

(* The goroutines run, and a server that can be reached answers.           *)
Fairness ==
  /\ WF_vars(Close) /\ WF_vars(Exit)
  /\ WF_vars(DrainReceive) /\ WF_vars(DrainDone)
  /\ WF_vars(ReadReply) /\ WF_vars(ReadFails)
  /\ WF_vars(ServerRuns)

LiveSpec == Spec /\ Fairness

-------------------------------------------------------------------------------
(* Properties *)

TypeOK ==
  /\ engine \in {"idle", "tick", "stopped", "panicked"}
  /\ cancelled \in BOOLEAN /\ closed \in BOOLEAN /\ linkUp \in BOOLEAN
  /\ main \in {"serve", "closing", "exit"}
  /\ hasSim \in Seq(BOOLEAN)
  /\ Len(queue) <= queueCap
  /\ {queue, requests, stored} \subseteq Seq(Snapshots)
  /\ outcome \in [Snapshots -> {"queued", "dropped", "ok", "error"}]
  /\ \/ drain \in [pc : {"receive", "done"}]
     \/ drain \in [pc : {"read"}, snap : Snapshots]
  /\ replies \in Seq({"C", "E", "Z"})
  /\ errors \in Nat

(* How many answers the connection still owes, run or not. *)
Owed == Len(requests) + Cardinality({k \in DOMAIN replies : replies[k] = "Z"})

(* The driver is out of step with the server by one answer for each error  *)
(* it returned, no more and no less: nothing but a new connection cures    *)
(* it, and a connection that has seen no error is in step.                 *)
DriftIsErrors ==
  linkUp => Owed = errors + (IF drain.pc = "read" THEN 1 ELSE 0)

(* As long as its connection has returned no error, a write that reports   *)
(* success has stored its row.                                             *)
OkMeansStored ==
  [][\A s \in Snapshots :
       outcome[s] = "queued" /\ outcome'[s] = "ok" /\ errors = 0 =>
         \E n \in 1 .. Len(stored) : stored[n] = s]_vars

(* The rows are in the order of the ticks, and none is there twice,        *)
(* whatever was dropped, refused or lost with a connection.                *)
StoredInOrder ==
  \A m, n \in 1 .. Len(stored) : m < n => stored[m] < stored[n]

(* When main returns, every snapshot that was accepted has been tried.     *)
CloseDrains ==
  main = "exit" => \A s \in Snapshots : outcome[s] # "queued"

(* Rows are in order, and main waits for the last of them.                 *)
WriterSound == StoredInOrder /\ CloseDrains

(* Shutdown comes to an end, by the return of main or by a panic.          *)
ShutdownEnds == cancelled ~> ~Alive

(* writer.go:298: "simpleQuery sends a Q (simple query) message and drains *)
(* the response".                                                          *)
DrainsResponse == linkUp /\ drain.pc = "receive" => Owed = 0

(* writer.go:103: "Close drains pending snapshots and shuts the writer     *)
(* down cleanly".                                                          *)
ShutsDownCleanly == engine # "panicked"
===============================================================================
