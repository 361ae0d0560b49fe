---------------------------- MODULE TelemetryStore ----------------------------
(***************************************************************************)
(* The sharded telemetry store (internal/telemetry/store.go) under its     *)
(* real callers: HTTP handlers that Ingest, the engine's tick that Prunes  *)
(* and then reads AllWindows, the metrics handler that reads AllWindows at *)
(* any time.  The maps of a shard are read and written under its lock, so  *)
(* what a thread does between two accesses to something else that is       *)
(* shared (svcCount, the lock, a ring buffer) is one step.  A ring buffer  *)
(* is the last bufCap points it was given (RingBuffer proves it); a point  *)
(* is its timestamp.                                                       *)
(***************************************************************************)
EXTENDS Integers, Sequences, FiniteSets

CONSTANTS
  Services,
  numShards,
  ShardOf,        (* service -> shard, the FNV hash                         *)
  Ingesters,      (* threads that call Ingest                               *)
  Tick, Metrics,  (* the two threads that call AllWindows                   *)
  maxSvc, bufCap, staleAge,
  freshCutoff,    (* the cutoff both callers give AllWindows                *)
  Delays,         (* how old a point's own timestamp is when it arrives     *)
  MaxNow,         (* bound: the clock                                       *)
  MaxIngests      (* bound: calls of Ingest in a behaviour                  *)

Shards   == 0 .. numShards - 1
Scanners == {Tick, Metrics}
None     == -1    \* no entry in a map

ASSUME StoreAssumption ==
  /\ {numShards, maxSvc, bufCap} \subseteq Nat \ {0}
  /\ {staleAge, freshCutoff, MaxNow, MaxIngests} \subseteq Nat
  /\ ShardOf \in [Services -> Shards]
  /\ Delays \subseteq Nat
  /\ IsFiniteSet(Services)
ASSUME ThreadAssumption ==
  /\ Tick # Metrics
  /\ Scanners \cap Ingesters = {}
  /\ "free" \notin Ingesters \cup {Tick}

VARIABLES
  now,
  locked,     \* shard -> the thread that keeps its write lock, or "free"
  buffers,    \* service -> index of its ring buffer in heap, or None
  lastSeen,   \* service -> timestamp, or None
  svcCount,
  heap,       \* the ring buffers ever made, in the order they were made
  ingest,     \* ingester -> where it stands
  ingests,    \* how many calls of Ingest there were
  prune,      \* where the tick stands in Prune
  scan,       \* scanner -> where it stands in AllWindows
  owed        \* history: scanner -> services its scan cannot leave out

shardVars == <<locked, buffers, lastSeen, svcCount>>
vars == <<now, shardVars, heap, ingest, ingests, prune, scan, owed>>

Registered == {s \in Services : buffers[s] # None}

(* The last n points of a ring buffer. *)
Newest(s, n) ==
  IF Len(s) <= n THEN s ELSE SubSeq(s, Len(s) - n + 1, Len(s))

Init ==
  /\ now = 0
  /\ locked = [h \in Shards |-> "free"]
  /\ buffers = [s \in Services |-> None]
  /\ lastSeen = [s \in Services |-> None]
  /\ svcCount = 0
  /\ heap = <<>>
  /\ ingest = [i \in Ingesters |-> [pc |-> "idle"]]
  /\ ingests = 0
  /\ prune = [pc |-> "idle"]
  /\ scan = [k \in Scanners |-> [pc |-> "idle", out |-> <<>>]]
  /\ owed = [k \in Scanners |-> {}]

AdvanceClock ==
  /\ now < MaxNow
  /\ now' = now + 1
  /\ UNCHANGED <<shardVars, heap, ingest, ingests, prune, scan>>

-------------------------------------------------------------------------------
(* Ingest *)

(* What Ingest does once it holds the lock of a shard that does not know   *)
(* the service, up to its first look at svcCount: it gives up when the     *)
(* store is full, and otherwise keeps the lock and the count it saw.       *)
LookAtCount(i, s, t) ==
  IF svcCount >= maxSvc
  THEN /\ locked' = [locked EXCEPT ![ShardOf[s]] = "free"]
       /\ ingest' = [ingest EXCEPT ![i] = [pc |-> "idle"]]
  ELSE /\ locked' = [locked EXCEPT ![ShardOf[s]] = i]
       /\ ingest' = [ingest EXCEPT ![i] =
                       [pc |-> "admit", svc |-> s, at |-> t, saw |-> svcCount]]

IngestStart(i, s, t) ==
  /\ ingest[i].pc = "idle"
  /\ ingests < MaxIngests
  /\ locked[ShardOf[s]] = "free"
  /\ ingests' = ingests + 1
  /\ IF buffers[s] # None
     THEN /\ lastSeen' = [lastSeen EXCEPT ![s] = t]
          /\ ingest' = [ingest EXCEPT ![i] =
                          [pc |-> "append", buf |-> buffers[s], at |-> t]]
          /\ UNCHANGED locked
     ELSE LookAtCount(i, s, t) /\ UNCHANGED lastSeen
  /\ UNCHANGED <<now, buffers, svcCount, heap, prune, scan>>

(* Slip: the new service is not entered in lastSeen.                       *)
Insert_Unseen(i, s, t) ==
  /\ heap' = Append(heap, <<>>)
  /\ buffers' = [buffers EXCEPT ![s] = Len(heap) + 1]
  /\ UNCHANGED lastSeen
  /\ locked' = [locked EXCEPT ![ShardOf[s]] = "free"]
  /\ ingest' = [ingest EXCEPT ![i] =
                  [pc |-> "append", buf |-> Len(heap) + 1, at |-> t]]

(* A new service gets a buffer and an entry, and the lock goes.            *)
Insert(i, s, t) ==
  /\ heap' = Append(heap, <<>>)
  /\ buffers' = [buffers EXCEPT ![s] = Len(heap) + 1]
  /\ lastSeen' = [lastSeen EXCEPT ![s] = t]
  /\ locked' = [locked EXCEPT ![ShardOf[s]] = "free"]
  /\ ingest' = [ingest EXCEPT ![i] =
                  [pc |-> "append", buf |-> Len(heap) + 1, at |-> t]]

(* Slip: the count is stored without comparing.                            *)
IngestAdmit_Blind(i) ==
  /\ ingest[i].pc = "admit"
  /\ svcCount' = ingest[i].saw + 1
  /\ Insert(i, ingest[i].svc, ingest[i].at)
  /\ UNCHANGED <<now, ingests, prune, scan>>

(* The compare-and-swap of svcCount; when it fails the loop looks again.   *)
IngestAdmit(i) ==
  /\ ingest[i].pc = "admit"
  /\ IF svcCount = ingest[i].saw
     THEN /\ svcCount' = svcCount + 1
          /\ Insert(i, ingest[i].svc, ingest[i].at)
     ELSE /\ LookAtCount(i, ingest[i].svc, ingest[i].at)
          /\ UNCHANGED <<svcCount, buffers, lastSeen, heap>>
  /\ UNCHANGED <<now, ingests, prune, scan>>

(* buf.Append, after the shard was unlocked, into a buffer that may no     *)
(* longer be in the map.                                                   *)
IngestAppend(i) ==
  /\ ingest[i].pc = "append"
  /\ heap' = [heap EXCEPT ![ingest[i].buf] =
                Newest(Append(@, ingest[i].at), bufCap)]
  /\ ingest' = [ingest EXCEPT ![i] = [pc |-> "idle"]]
  /\ UNCHANGED <<now, shardVars, ingests, prune, scan>>

-------------------------------------------------------------------------------
(* Prune, called by the tick with the time the tick began at *)

StaleAt(t, s) == lastSeen[s] # None /\ t - lastSeen[s] > staleAge

PruneStart ==
  /\ prune.pc = "idle"
  /\ prune' = [pc |-> "lock", shard |-> 0, now |-> now]
  /\ UNCHANGED <<now, shardVars, heap, ingest, ingests, scan>>

PruneLock ==
  /\ prune.pc = "lock"
  /\ locked[prune.shard] = "free"
  /\ locked' = [locked EXCEPT ![prune.shard] = Tick]
  /\ prune' = [prune EXCEPT !.pc = "sweep"]
  /\ UNCHANGED <<now, buffers, lastSeen, svcCount, heap, ingest, ingests, scan>>

StaleHere == {s \in Services : ShardOf[s] = prune.shard /\ StaleAt(prune.now, s)}

(* Slip: the count keeps what was deleted.                                 *)
PruneDelete_Uncounted(s) ==
  /\ prune.pc = "sweep"
  /\ s \in StaleHere
  /\ buffers' = [buffers EXCEPT ![s] = None]
  /\ lastSeen' = [lastSeen EXCEPT ![s] = None]
  /\ UNCHANGED svcCount
  /\ UNCHANGED <<now, locked, heap, ingest, ingests, prune, scan>>

(* One stale service of the shard: both maps and the count. *)
PruneDelete(s) ==
  /\ prune.pc = "sweep"
  /\ s \in StaleHere
  /\ buffers' = [buffers EXCEPT ![s] = None]
  /\ lastSeen' = [lastSeen EXCEPT ![s] = None]
  /\ svcCount' = svcCount - 1
  /\ UNCHANGED <<now, locked, heap, ingest, ingests, prune, scan>>

(* After the last shard the tick goes on to AllWindows. *)
PruneUnlock ==
  /\ prune.pc = "sweep"
  /\ StaleHere = {}
  /\ locked' = [locked EXCEPT ![prune.shard] = "free"]
  /\ prune' = IF prune.shard + 1 \in Shards
              THEN [prune EXCEPT !.pc = "lock", !.shard = @ + 1]
              ELSE [pc |-> "windows"]
  /\ UNCHANGED <<now, buffers, lastSeen, svcCount, heap, ingest, ingests, scan>>

-------------------------------------------------------------------------------
(* AllWindows *)

(* An empty store is answered at once; the tick comes here after Prune. *)
ScanStart(k) ==
  /\ scan[k].pc = "idle"
  /\ k = Tick => prune.pc = "windows"
  /\ IF svcCount = 0
     THEN /\ UNCHANGED scan
          /\ prune' = IF k = Tick THEN [pc |-> "idle"] ELSE prune
     ELSE /\ scan' = [scan EXCEPT ![k] =
                        [pc |-> "shards", shard |-> 0, now |-> now,
                         entries |-> {}, out |-> [s \in Services |-> <<>>]]]
          /\ UNCHANGED prune
  /\ UNCHANGED <<now, shardVars, heap, ingest, ingests>>

FreshAt(t, s) == lastSeen[s] # None /\ t - lastSeen[s] <= freshCutoff

FreshEntries(k) ==
  {<<s, buffers[s]>> : s \in {r \in Registered : /\ ShardOf[r] = scan[k].shard
                                                 /\ FreshAt(scan[k].now, r)}}

NextShard(k, found) ==
  scan' = [scan EXCEPT ![k].entries = @ \cup found,
                       ![k].shard = IF @ + 1 \in Shards THEN @ + 1 ELSE @,
                       ![k].pc = IF scan[k].shard + 1 \in Shards
                                 THEN "shards" ELSE "buffers"]

(* Slip: a shard whose lock is taken is passed over.                       *)
ScanShard_Try(k) ==
  /\ scan[k].pc = "shards"
  /\ NextShard(k, IF locked[scan[k].shard] = "free" THEN FreshEntries(k) ELSE {})
  /\ UNCHANGED <<now, shardVars, heap, ingest, ingests, prune>>

(* Phase 1: the buffers of one shard, under its read lock. *)
ScanShard(k) ==
  /\ scan[k].pc = "shards"
  /\ locked[scan[k].shard] = "free"
  /\ NextShard(k, FreshEntries(k))
  /\ UNCHANGED <<now, shardVars, heap, ingest, ingests, prune>>

(* Phase 2: a snapshot of one buffer, no shard lock held. *)
ScanBuffer(k) ==
  /\ scan[k].pc = "buffers"
  /\ \E e \in scan[k].entries :
       scan' = [scan EXCEPT ![k].entries = @ \ {e},
                            ![k].out[e[1]] = heap[e[2]]]
  /\ UNCHANGED <<now, shardVars, heap, ingest, ingests, prune>>

Finished(k) == scan[k].pc = "buffers" /\ scan[k].entries = {}

(* The windows go to the caller; the tick's next call is Prune again. *)
ScanReturn(k) ==
  /\ Finished(k)
  /\ scan' = [scan EXCEPT ![k] = [pc |-> "idle", out |-> <<>>]]
  /\ prune' = IF k = Tick THEN [pc |-> "idle"] ELSE prune
  /\ UNCHANGED <<now, shardVars, heap, ingest, ingests>>

-------------------------------------------------------------------------------
(* History: the services that were registered, fresh and not empty in      *)
(* every state since the scan of k began.                                  *)
Present(k, s) ==
  /\ buffers[s] # None
  /\ FreshAt(scan[k].now, s)
  /\ heap[buffers[s]] # <<>>

Remember ==
  owed' = [k \in Scanners |->
             IF scan'[k].pc = "idle" THEN {}
             ELSE {s \in IF scan[k].pc = "idle" THEN Services ELSE owed[k] :
                     Present(k, s)'}]

Ingest(i) ==
  \/ \E s \in Services, d \in Delays : d <= now /\ IngestStart(i, s, now - d)
  \/ IngestAdmit(i)
  \/ IngestAppend(i)

Prune == PruneStart \/ PruneLock \/ (\E s \in Services : PruneDelete(s)) \/ PruneUnlock

AllWindows(k) == ScanStart(k) \/ ScanShard(k) \/ ScanBuffer(k) \/ ScanReturn(k)

Next ==
  /\ \/ AdvanceClock
     \/ \E i \in Ingesters : Ingest(i)
     \/ Prune
     \/ \E k \in Scanners : AllWindows(k)
  /\ Remember

Spec == Init /\ [][Next]_vars

(* The tick keeps calling; a sync.RWMutex does not starve a writer or a    *)
(* reader that waits, and a thread inside an operation goes on with it.    *)
Fairness ==
  /\ WF_vars(AdvanceClock /\ Remember)
  /\ \A i \in Ingesters : WF_vars((IngestAdmit(i) \/ IngestAppend(i)) /\ Remember)
  /\ SF_vars(Prune /\ Remember)
  /\ SF_vars(AllWindows(Tick) /\ Remember)

LiveSpec == Spec /\ Fairness

-------------------------------------------------------------------------------
(* Properties *)

Times == Nat

IngestState ==
  [pc : {"idle"}]
    \cup [pc : {"admit"}, svc : Services, at : Times, saw : Int]
    \cup [pc : {"append"}, buf : Nat, at : Times]

PruneState ==
  [pc : {"idle", "windows"}] \cup [pc : {"lock", "sweep"}, shard : Shards, now : Times]

ScanState ==
  [pc : {"idle"}, out : {<<>>}]
    \cup [pc : {"shards", "buffers"}, shard : Shards, now : Times,
          entries : SUBSET (Services \X Nat), out : [Services -> Seq(Times)]]

(* Every reference to a ring buffer is to one that was made.               *)
References ==
  /\ \A s \in Services : buffers[s] # None => buffers[s] \in 1 .. Len(heap)
  /\ \A i \in Ingesters : ingest[i].pc = "append" => ingest[i].buf \in 1 .. Len(heap)
  /\ \A k \in Scanners : scan[k].pc # "idle" =>
       \A e \in scan[k].entries : e[2] \in 1 .. Len(heap)

TypeOK ==
  /\ now \in Nat /\ ingests \in Nat /\ svcCount \in Int
  /\ locked \in [Shards -> Ingesters \cup {Tick, "free"}]
  /\ heap \in Seq(Seq(Times))
  /\ buffers \in [Services -> Nat \cup {None}]
  /\ lastSeen \in [Services -> Times \cup {None}]
  /\ ingest \in [Ingesters -> IngestState]
  /\ prune \in PruneState
  /\ scan \in [Scanners -> ScanState]
  /\ owed \in [Scanners -> SUBSET Services]
  /\ References

(* The cap on services holds although the shards that admit them are       *)
(* locked one by one and share only the atomic count.                      *)
AdmissionBound == Cardinality(Registered) <= maxSvc

(* HasServices, the capacity check and the size hints all rest on svcCount *)
(* being the number of services in the maps, whichever of Ingest and Prune *)
(* ran in between.                                                         *)
CountExact == svcCount = Cardinality(Registered)

(* Admission is sound: the shards never hold more services than allowed,   *)
(* and the counter that decides is the number they hold.                   *)
AdmissionSound == AdmissionBound /\ CountExact

(* AllWindows leaves out no service that was in the store, fresh and not   *)
(* empty all the while it ran, though it holds one shard lock at a time.   *)
WindowsComplete ==
  \A k \in Scanners : Finished(k) =>
    \A s \in owed[k] : scan[k].out[s] # <<>>

(* A service that goes silent leaves the store, or is heard of again.      *)
SilentIsPruned ==
  \A s \in Services :
    (buffers[s] # None /\ ~(lastSeen[s] # None /\ now - lastSeen[s] <= staleAge))
      ~> (buffers[s] = None \/ (lastSeen[s] # None /\ now - lastSeen[s] <= staleAge))

(* orchestrator.go:471 of the windows the tick works on: "Hard cutoff: 3x  *)
(* tick interval - excludes severely stale windows entirely".              *)
WindowsFresh ==
  \A k \in Scanners : scan[k].pc # "idle" =>
    \A s \in Services :
      LET w == scan[k].out[s]
      IN  w # <<>> => scan[k].now - w[Len(w)] <= freshCutoff

(* store.go:187: "Prune removes stale services shard by shard": what it    *)
(* removes has had no point of its own for longer than staleAge.           *)
PrunesOnlyStale ==
  [][\A s \in Services :
       buffers[s] # None /\ buffers'[s] = None =>
         \A n \in 1 .. Len(heap[buffers[s]]) :
           prune.now - heap[buffers[s]][n] > staleAge]_vars
===============================================================================
