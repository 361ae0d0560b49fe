------------------------------- MODULE Delivery -------------------------------
(***************************************************************************)
(* Three bounded queues and the goroutines at their ends: snapshots to the *)
(* database (SnapshotWriter), payloads to the dashboard's clients          *)
(* (StreamHub) and points from the collector to the engine (IngestClient). *)
(* They share no state.                                                    *)
(***************************************************************************)
EXTENDS SnapshotWriter

CONSTANTS Clients, Broadcasters, maxClients, sendBufferSize, MaxSeq,            (* hub    *)
          QueueSize, BatchSizes, Attempts, CircuitOpenAfter, MaxPoints    (* client *)

VARIABLES
  seqNo, lastPayload, lastJSON, cast, clients, upgrade, send, gone, done, removing,
  pump, inHand, reader, connUp, got,
  batchMax, built, points, batch, pc, final, attempt, failures, breaker, stopped,
  posted, dropped, failed, spent

Hub == INSTANCE StreamHub WITH closed <- gone

Client == INSTANCE IngestClient WITH queue <- points, cancelled <- stopped, stored <- posted

(* The tick is the engine's only broadcaster. *)
ASSUME HubAssumption == Hub!HubConstants /\ Hub!OneBroadcaster
ASSUME ClientAssumption == Client!ClientConstants

-------------------------------------------------------------------------------
(* A client of the hub that is slow is cut off, never starved of single    *)
(* messages: while it is not removed, its stream has no gap and is in      *)
(* order.  The bootstrap payload, which may reach it behind newer          *)
(* messages, is never newer than the stream: dropping older numbers loses  *)
(* nothing.  And of the three threads that may find a client dead at once, *)
(* one closes its done channel (a second close panics).                    *)
StreamWhole == Hub!StreamWhole

(* Every point the collector has built is on its way, stored or counted;   *)
(* batches are stored in the order in which they were gathered,            *)
(* repetitions by a retry apart; and an open breaker lets a single batch   *)
(* through after each cooldown.                                            *)
CollectorSound == Client!CollectorSound
===============================================================================
