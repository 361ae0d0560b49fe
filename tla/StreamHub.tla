------------------------------- MODULE StreamHub -------------------------------
(***************************************************************************)
(* The WebSocket hub (internal/streaming/hub.go): broadcasters that number *)
(* a payload, publish it and offer it to every client's bounded channel;   *)
(* HTTP handlers that register a client; and the two goroutines of each    *)
(* client.  Everything done under Hub.mu is one step.  A message is its    *)
(* sequence number, and whether it was sent as the bootstrap payload.      *)
(***************************************************************************)
EXTENDS Integers, Sequences, FiniteSets

CONSTANTS
  Clients,        (* connections; each is upgraded at most once             *)
  Broadcasters,   (* threads that call Broadcast: in the engine, the tick   *)
  maxClients,
  sendBufferSize,
  MaxSeq          (* bound: broadcasts                                      *)

NoOne == "none"

(* What the constants must be; the engine has one broadcaster, its tick.   *)
HubConstants ==
  /\ sendBufferSize \in Nat /\ MaxSeq \in Nat
  /\ IsFiniteSet(Clients) /\ NoOne \notin Clients
OneBroadcaster == \A b, e \in Broadcasters : b = e

VARIABLES
  seqNo,
  lastPayload, lastJSON,   \* sequence numbers; 0 is nil
  cast,       \* broadcaster -> where it stands in Broadcast
  clients,    \* Hub.clients
  upgrade,    \* client -> where its HandleUpgrade stands
  send,       \* client -> its channel
  closed,     \* client -> the flag that remove compares and swaps
  done,       \* client -> how often its done channel was closed
  removing,   \* <<client, thread>> inside remove, past the swap
  pump,       \* client -> its writePump: "off", "check", "wait", "write" or "exit"
  inHand,     \* client -> the message its writePump is writing, or none
  reader,     \* client -> its readPump: "off", "on" or "exit"
  connUp,     \* client -> its connection works
  got         \* history: client -> the messages written to its connection

hubVars == <<seqNo, lastPayload, lastJSON, cast>>
connVars == <<send, closed, done, removing, pump, inHand, reader, connUp, got>>
vars == <<hubVars, clients, upgrade, connVars>>

Threads == Broadcasters \cup {"writePump", "readPump"}
Messages == [seq : 0 .. MaxSeq, boot : BOOLEAN]

Init ==
  /\ seqNo = 0 /\ lastPayload = 0 /\ lastJSON = 0
  /\ cast = [b \in Broadcasters |-> [pc |-> "idle"]]
  /\ clients = {}
  /\ upgrade = [c \in Clients |-> [pc |-> "new"]]
  /\ send = [c \in Clients |-> <<>>]
  /\ closed = [c \in Clients |-> FALSE]
  /\ done = [c \in Clients |-> 0]
  /\ removing = {}
  /\ pump = [c \in Clients |-> "off"]
  /\ inHand = [c \in Clients |-> <<>>]
  /\ reader = [c \in Clients |-> "off"]
  /\ connUp = [c \in Clients |-> TRUE]
  /\ got = [c \in Clients |-> <<>>]

-------------------------------------------------------------------------------
(* remove(c) called by thread t: the swap, and the rest under the lock. *)

(* Slip: the flag is set but not compared.                                 *)
Remove_Unguarded(c, t) ==
  /\ closed' = [closed EXCEPT ![c] = TRUE]
  /\ removing' = removing \cup {<<c, t>>}

Remove(c, t) ==
  /\ closed' = [closed EXCEPT ![c] = TRUE]
  /\ removing' = IF closed[c] THEN removing ELSE removing \cup {<<c, t>>}

(* Slip: the client stays in the map.                                      *)
RemoveUnderLock_Keep(c, t) ==
  /\ <<c, t>> \in removing
  /\ removing' = removing \ {<<c, t>>}
  /\ UNCHANGED clients
  /\ send' = [send EXCEPT ![c] = <<>>]
  /\ done' = [done EXCEPT ![c] = @ + 1]
  /\ UNCHANGED <<hubVars, upgrade, closed, pump, inHand, reader, connUp, got>>

(* Delete, drain the channel, close done.                                  *)
RemoveUnderLock(c, t) ==
  /\ <<c, t>> \in removing
  /\ removing' = removing \ {<<c, t>>}
  /\ clients' = clients \ {c}
  /\ send' = [send EXCEPT ![c] = <<>>]
  /\ done' = [done EXCEPT ![c] = @ + 1]
  /\ UNCHANGED <<hubVars, upgrade, closed, pump, inHand, reader, connUp, got>>

-------------------------------------------------------------------------------
(* Broadcast *)

Stamp(b) ==
  /\ cast[b].pc = "idle" /\ seqNo < MaxSeq
  /\ seqNo' = seqNo + 1
  /\ cast' = [cast EXCEPT ![b] = [pc |-> "payload", seq |-> seqNo + 1]]
  /\ UNCHANGED <<lastPayload, lastJSON, clients, upgrade, connVars>>

StorePayload(b) ==
  /\ cast[b].pc = "payload"
  /\ lastPayload' = cast[b].seq
  /\ cast' = [cast EXCEPT ![b].pc = "json"]
  /\ UNCHANGED <<seqNo, lastJSON, clients, upgrade, connVars>>

StoreJSON(b) ==
  /\ cast[b].pc = "json"
  /\ lastJSON' = cast[b].seq
  /\ cast' = [cast EXCEPT ![b].pc = "list"]
  /\ UNCHANGED <<seqNo, lastPayload, clients, upgrade, connVars>>

FanOut(b, seq, todo, to) ==
  cast' = [cast EXCEPT ![b] =
             IF todo = {} /\ to = NoOne THEN [pc |-> "idle"]
             ELSE [pc |-> "fanout", seq |-> seq, todo |-> todo, to |-> to]]

ListClients(b) ==
  /\ cast[b].pc = "list"
  /\ FanOut(b, cast[b].seq, clients, NoOne)
  /\ UNCHANGED <<seqNo, lastPayload, lastJSON, clients, upgrade, connVars>>

(* The next client of the list, unless it is closed.                       *)
PickClient(b, c) ==
  /\ cast[b].pc = "fanout" /\ cast[b].to = NoOne
  /\ \A x \in removing : x[2] # b          \* remove has returned
  /\ c \in cast[b].todo
  /\ FanOut(b, cast[b].seq, cast[b].todo \ {c}, IF closed[c] THEN NoOne ELSE c)
  /\ UNCHANGED <<seqNo, lastPayload, lastJSON, clients, upgrade, connVars>>

Target(b, c) == cast[b].pc = "fanout" /\ cast[b].to = c

(* Slip: the channel takes whatever it is given.                           *)
Offer_Unbounded(b, c) ==
  /\ Target(b, c)
  /\ send' = [send EXCEPT ![c] = Append(@, [seq |-> cast[b].seq, boot |-> FALSE])]
  /\ FanOut(b, cast[b].seq, cast[b].todo, NoOne)
  /\ UNCHANGED <<seqNo, lastPayload, lastJSON, clients, upgrade,
                 closed, done, removing, pump, inHand, reader, connUp, got>>

(* Slip: a full channel loses the message instead of the client.           *)
Offer_DropMessage(b, c) ==
  /\ Target(b, c)
  /\ IF Len(send[c]) < sendBufferSize
     THEN send' = [send EXCEPT ![c] = Append(@, [seq |-> cast[b].seq, boot |-> FALSE])]
     ELSE UNCHANGED send
  /\ FanOut(b, cast[b].seq, cast[b].todo, NoOne)
  /\ UNCHANGED <<seqNo, lastPayload, lastJSON, clients, upgrade,
                 closed, done, removing, pump, inHand, reader, connUp, got>>

(* The select: done, or the channel, or neither is ready and the client is *)
(* dropped.                                                                *)
Offer(b, c) ==
  /\ Target(b, c)
  /\ FanOut(b, cast[b].seq, cast[b].todo, NoOne)
  /\ \/ /\ done[c] > 0
        /\ UNCHANGED <<send, closed, removing>>
     \/ /\ Len(send[c]) < sendBufferSize
        /\ send' = [send EXCEPT ![c] = Append(@, [seq |-> cast[b].seq, boot |-> FALSE])]
        /\ UNCHANGED <<closed, removing>>
     \/ /\ done[c] = 0 /\ Len(send[c]) = sendBufferSize
        /\ Remove(c, b)
        /\ UNCHANGED send
  /\ UNCHANGED <<seqNo, lastPayload, lastJSON, clients, upgrade,
                 done, pump, inHand, reader, connUp, got>>

-------------------------------------------------------------------------------
(* HandleUpgrade *)

ReadCount(c) ==
  /\ upgrade[c].pc = "new"
  /\ upgrade' = [upgrade EXCEPT ![c] = [pc |-> "counted", count |-> Cardinality(clients)]]
  /\ UNCHANGED <<hubVars, clients, connVars>>

(* The payload is read before the capacity is judged; the handshake may    *)
(* fail.                                                                   *)
ReadLast(c) ==
  /\ upgrade[c].pc = "counted"
  /\ \/ /\ upgrade[c].count < maxClients
        /\ upgrade' = [upgrade EXCEPT ![c] = [pc |-> "admitted", last |-> lastJSON]]
     \/ upgrade' = [upgrade EXCEPT ![c] = [pc |-> "refused"]]
  /\ UNCHANGED <<hubVars, clients, connVars>>

Register(c) ==
  /\ upgrade[c].pc = "admitted"
  /\ clients' = clients \cup {c}
  /\ upgrade' = [upgrade EXCEPT ![c].pc = "registered"]
  /\ UNCHANGED <<hubVars, connVars>>

(* Slip: the bootstrap payload is the latest, not the one read before.     *)
Bootstrap_Late(c) ==
  /\ upgrade[c].pc = "registered"
  /\ upgrade' = [upgrade EXCEPT ![c] = [pc |-> "open"]]
  /\ send' = IF lastJSON # 0 /\ Len(send[c]) < sendBufferSize
             THEN [send EXCEPT ![c] = Append(@, [seq |-> lastJSON, boot |-> TRUE])]
             ELSE send
  /\ pump' = [pump EXCEPT ![c] = "check"]
  /\ reader' = [reader EXCEPT ![c] = "on"]
  /\ UNCHANGED <<hubVars, clients, closed, done, removing, inHand, connUp, got>>

(* The payload that was read, if the channel has room; then the pumps. *)
Bootstrap(c) ==
  /\ upgrade[c].pc = "registered"
  /\ upgrade' = [upgrade EXCEPT ![c] = [pc |-> "open"]]
  /\ LET last == upgrade[c].last
     IN  send' = IF last # 0 /\ Len(send[c]) < sendBufferSize
                 THEN [send EXCEPT ![c] = Append(@, [seq |-> last, boot |-> TRUE])]
                 ELSE send
  /\ pump' = [pump EXCEPT ![c] = "check"]
  /\ reader' = [reader EXCEPT ![c] = "on"]
  /\ UNCHANGED <<hubVars, clients, closed, done, removing, inHand, connUp, got>>

-------------------------------------------------------------------------------
(* The goroutines of a client *)

(* writePump ends, and its deferred remove runs.                           *)
PumpExit(c) ==
  /\ pump' = [pump EXCEPT ![c] = "exit"]
  /\ Remove(c, "writePump")

PumpCheck(c) ==
  /\ pump[c] = "check"
  /\ \/ /\ done[c] > 0
        /\ PumpExit(c)
     \/ /\ done[c] = 0
        /\ pump' = [pump EXCEPT ![c] = "wait"]
        /\ UNCHANGED <<closed, removing>>
  /\ UNCHANGED <<hubVars, clients, upgrade, send, done, inHand, reader, connUp, got>>

(* A message is taken; done may be closed by now, select does not prefer.  *)
PumpTake(c) ==
  /\ pump[c] = "wait" /\ send[c] # <<>>
  /\ send' = [send EXCEPT ![c] = Tail(@)]
  /\ inHand' = [inHand EXCEPT ![c] = <<Head(send[c])>>]
  /\ pump' = [pump EXCEPT ![c] = "write"]
  /\ UNCHANGED <<hubVars, clients, upgrade, closed, done, removing, reader, connUp, got>>

PumpWrite(c) ==
  /\ pump[c] = "write" /\ connUp[c]
  /\ got' = [got EXCEPT ![c] = @ \o inHand[c]]
  /\ inHand' = [inHand EXCEPT ![c] = <<>>]
  /\ pump' = [pump EXCEPT ![c] = "check"]
  /\ UNCHANGED <<hubVars, clients, upgrade, send, closed, done, removing, reader, connUp>>

PumpDone(c) ==
  /\ pump[c] = "wait" /\ done[c] > 0
  /\ PumpExit(c)
  /\ UNCHANGED <<hubVars, clients, upgrade, send, done, inHand, reader, connUp, got>>

(* A message or a ping cannot be written in time. *)
PumpFails(c) ==
  /\ pump[c] \in {"wait", "write"}
  /\ PumpExit(c)
  /\ inHand' = [inHand EXCEPT ![c] = <<>>]
  /\ UNCHANGED <<hubVars, clients, upgrade, send, done, reader, connUp, got>>

(* No pong in time, or the connection is closed.                           *)
ReadFails(c) ==
  /\ reader[c] = "on"
  /\ reader' = [reader EXCEPT ![c] = "exit"]
  /\ Remove(c, "readPump")
  /\ UNCHANGED <<hubVars, clients, upgrade, send, done, pump, inHand, connUp, got>>

(* The peer leaves, or remove's own conn.Close.                            *)
ConnCloses(c) ==
  /\ connUp[c] /\ upgrade[c].pc \in {"registered", "open"}
  /\ connUp' = [connUp EXCEPT ![c] = FALSE]
  /\ UNCHANGED <<hubVars, clients, upgrade, send, closed, done, removing, pump, inHand, reader, got>>

-------------------------------------------------------------------------------
Broadcast(b) ==
  \/ Stamp(b) \/ StorePayload(b) \/ StoreJSON(b) \/ ListClients(b)
  \/ \E c \in Clients : PickClient(b, c) \/ Offer(b, c)

HandleUpgrade(c) == ReadCount(c) \/ ReadLast(c) \/ Register(c) \/ Bootstrap(c)

Pumps(c) ==
  PumpCheck(c) \/ PumpTake(c) \/ PumpWrite(c) \/ PumpDone(c) \/ PumpFails(c) \/ ReadFails(c)

Next ==
  \/ \E b \in Broadcasters : Broadcast(b)
  \/ \E c \in Clients : HandleUpgrade(c) \/ Pumps(c) \/ ConnCloses(c)
  \/ \E c \in Clients, t \in Threads : RemoveUnderLock(c, t)

Spec == Init /\ [][Next]_vars

(* A handler goes on; a read on a dead connection fails, if only by its    *)
(* deadline; a mutex that is waited for is had.                            *)
Fairness ==
  /\ \A c \in Clients : WF_vars(Register(c) \/ Bootstrap(c))
  /\ \A c \in Clients : WF_vars(ReadFails(c) /\ ~connUp[c])
  /\ \A c \in Clients, t \in Threads : WF_vars(RemoveUnderLock(c, t))

LiveSpec == Spec /\ Fairness

-------------------------------------------------------------------------------
(* Properties *)

CastStates ==
  [pc : {"idle"}]
    \cup [pc : {"payload", "json", "list"}, seq : 1 .. MaxSeq]
    \cup [pc : {"fanout"}, seq : 1 .. MaxSeq, todo : SUBSET Clients, to : Clients \cup {NoOne}]

UpgradeStates ==
  [pc : {"new", "refused", "open"}]
    \cup [pc : {"counted"}, count : 0 .. Cardinality(Clients)]
    \cup [pc : {"admitted", "registered"}, last : 0 .. MaxSeq]

TypeOK ==
  /\ {seqNo, lastPayload, lastJSON} \subseteq 0 .. MaxSeq
  /\ cast \in [Broadcasters -> CastStates]
  /\ clients \subseteq Clients
  /\ upgrade \in [Clients -> UpgradeStates]
  /\ send \in [Clients -> Seq(Messages)]
  /\ \A c \in Clients : Len(send[c]) <= sendBufferSize
  /\ closed \in [Clients -> BOOLEAN]
  /\ done \in [Clients -> Nat]
  /\ removing \subseteq Clients \X Threads
  /\ pump \in [Clients -> {"off", "check", "wait", "write", "exit"}]
  /\ inHand \in [Clients -> Seq(Messages)]
  /\ reader \in [Clients -> {"off", "on", "exit"}]
  /\ connUp \in [Clients -> BOOLEAN]
  /\ got \in [Clients -> Seq(Messages)]

(* Three threads may find a client dead at once; its done channel is       *)
(* closed by one of them (a second close panics).                          *)
DoneClosedOnce == \A c \in Clients : done[c] <= 1

(* What a client has got or is about to get. *)
Stream(c) == got[c] \o inHand[c] \o send[c]

(* A client that is slow is cut off, never starved of single messages:     *)
(* while it is not removed its stream, the bootstrap payload apart, has no *)
(* gap and is in order (with one broadcaster, the tick).                   *)
NoGaps ==
  \A c \in Clients : ~closed[c] =>
    \A m, n \in DOMAIN Stream(c) :
      /\ m < n /\ ~Stream(c)[m].boot /\ ~Stream(c)[n].boot
      /\ \A k \in DOMAIN Stream(c) : m < k /\ k < n => Stream(c)[k].boot
      => Stream(c)[n].seq = Stream(c)[m].seq + 1

(* The bootstrap payload may reach the client behind newer messages, for   *)
(* the client is registered first; it is never newer than the stream that  *)
(* follows it, so that dropping older numbers loses nothing.               *)
BootstrapNotNewer ==
  \A c \in Clients : \A m, n \in DOMAIN Stream(c) :
    Stream(c)[m].boot /\ ~Stream(c)[n].boot => Stream(c)[m].seq <= Stream(c)[n].seq

(* What the stream of every client must keep: the three above.             *)
StreamWhole == NoGaps /\ BootstrapNotNewer /\ DoneClosedOnce

(* A client whose connection is gone leaves the map (and the capacity).    *)
DeadLeave ==
  \A c \in Clients : (c \in clients /\ ~connUp[c]) ~> c \notin clients

(* websocket_hub_soak_test.go:262: "Hub max client cap enforced: beyond    *)
(* cap returns 503".                                                       *)
CapEnforced == Cardinality(clients) <= maxClients

(* broadcast_concurrent_test.go:42-45: "goroutines calling Broadcast       *)
(* simultaneously ... the sequence numbers in GetLastPayload must strictly *)
(* increase".                                                              *)
LastPayloadAdvances == [][lastPayload' # lastPayload => lastPayload' > lastPayload]_vars
===============================================================================
