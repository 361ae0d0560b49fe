------------------------------ MODULE MCDelivery ------------------------------
(***************************************************************************)
(* The queues of Delivery and the jobs and results of a sandbox batch      *)
(* (SandboxExecutor), with their shutdown.                                 *)
(*                                                                         *)
(* They share no state, so that no interleaving of two of them shows more  *)
(* than each alone: a behaviour exercises one, the part, and leaves the    *)
(* others in their initial states.                                         *)
(***************************************************************************)
EXTENDS Delivery

VARIABLES
  part,
  ctxDone, fed, taken, feeder, idle, retiring, busy, sending, panicked, launching,
  resCh, resClosed, pending, next, reducer, delivered, sentClosed

ofHub == <<seqNo, lastPayload, lastJSON, cast, clients, upgrade, send, gone, done,
           removing, pump, inHand, reader, connUp, got>>
ofClient == <<batchMax, built, points, batch, pc, final, attempt, failures, breaker,
              stopped, posted, dropped, failed, spent>>
ofBatch == <<ctxDone, fed, taken, feeder, idle, retiring, busy, sending, panicked,
             launching, resCh, resClosed, pending, next, reducer, delivered, sentClosed>>

(* Three jobs and three workers, with cancellations and panics, and a      *)
(* window that holds them all.                                             *)
Batch == INSTANCE SandboxExecutor
  WITH NJobs <- 3, InitWorkers <- 3, MaxWorkers <- 3, JobBuffer <- 1, ResultBuffer <- 1,
       ReorderWindow <- 2, EnableAutoscale <- FALSE, FlushOnCancel <- TRUE,
       Cancellable <- TRUE, MayPanic <- TRUE, cancelled <- ctxDone

allVars == <<part, vars, ofHub, ofClient, ofBatch>>

InitAll ==
  /\ part \in {"writer", "hub", "client", "batch"}
  /\ Init /\ Hub!Init /\ Client!Init /\ Batch!Init
  /\ part # "client" => batchMax = 1

Writer(A) == part = "writer" /\ A /\ UNCHANGED <<part, ofHub, ofClient, ofBatch>>
HubStep(A) == part = "hub" /\ A /\ UNCHANGED <<part, vars, ofClient, ofBatch>>
ClientStep(A) == part = "client" /\ A /\ UNCHANGED <<part, vars, ofHub, ofBatch>>
BatchStep(A) == part = "batch" /\ A /\ UNCHANGED <<part, vars, ofHub, ofClient>>

NextAll ==
  Writer(Next) \/ HubStep(Hub!Next) \/ ClientStep(Client!Next) \/ BatchStep(Batch!Next)

(* The fairness of the specifications. *)
FairAll ==
  /\ WF_allVars(Writer(Close)) /\ WF_allVars(Writer(Exit))
  /\ WF_allVars(Writer(DrainReceive)) /\ WF_allVars(Writer(DrainDone))
  /\ WF_allVars(Writer(ReadReply)) /\ WF_allVars(Writer(ReadFails))
  /\ WF_allVars(Writer(ServerRuns))
  /\ \A c \in Clients :
       /\ WF_allVars(HubStep(Hub!Register(c) \/ Hub!Bootstrap(c)))
       /\ WF_allVars(HubStep(Hub!ReadFails(c) /\ ~connUp[c]))
       /\ \A t \in Hub!Threads : WF_allVars(HubStep(Hub!RemoveUnderLock(c, t)))
  /\ WF_allVars(ClientStep(Client!Run)) /\ SF_allVars(ClientStep(Client!SeesCancel))
  /\ WF_allVars(BatchStep(Batch!Feed)) /\ WF_allVars(BatchStep(Batch!TakeJob))
  /\ WF_allVars(BatchStep(Batch!Leave)) /\ WF_allVars(BatchStep(Batch!Retire))
  /\ \A j \in Batch!Jobs :
       WF_allVars(BatchStep(Batch!RunJob(j) \/ Batch!SendResult(j)))
  /\ WF_allVars(BatchStep(Batch!CloseResults))
  /\ WF_allVars(BatchStep(\/ Batch!Reduce \/ Batch!FinishReduce
                          \/ Batch!ReduceCancelled \/ Batch!Flush))

SpecAll == InitAll /\ [][NextAll]_allVars /\ FairAll

-------------------------------------------------------------------------------
(* A client of the hub whose connection is gone leaves the hub's map, whichever of    *)
(* its three threads notices first.                                        *)
HubDeadLeave == Hub!DeadLeave

(* A shutdown of the engine's writer and of the collector's client comes   *)
(* to an end, wherever the cancellation meets them, and a batch of the     *)
(* sandbox ends, cancelled or not, and leaves no worker behind.            *)
ShutdownsEnd ==
  /\ ShutdownEnds
  /\ Client!ShutdownEnds
  /\ (part = "batch") => Batch!BatchEnds
===============================================================================
