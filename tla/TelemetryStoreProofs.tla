------------------------- MODULE TelemetryStoreProofs -------------------------
(***************************************************************************)
(* Proofs about TelemetryStore, for any number of services, shards,        *)
(* ingesting threads and any capacity: the types, and the admission of new *)
(* services under the shared count.  The count is exact because a thread   *)
(* that is about to admit a service keeps the lock of its shard all the    *)
(* while it retries the compare-and-swap, so that nobody else can admit    *)
(* the same service (AdmitInv).                                            *)
(***************************************************************************)
EXTENDS TelemetryStore, FiniteSetTheorems, SequenceTheorems, TLAPS

-------------------------------------------------------------------------------
(* Types *)

LEMMA NewestType ==
  ASSUME NEW S, NEW q \in Seq(S), NEW n \in Nat
  PROVE  Newest(q, n) \in Seq(S)
<1>1. CASE Len(q) <= n
  BY <1>1 DEF Newest
<1>2. CASE ~(Len(q) <= n)
  <2>1. Len(q) - n + 1 \in Int /\ Len(q) \in Int
    BY LenProperties
  <2>2. \A j \in Len(q) - n + 1 .. Len(q) : q[j] \in S
    BY <1>2, ElementOfSeq, LenProperties
  <2> QED BY <1>2, <2>1, <2>2, SubSeqProperties DEF Newest
<1> QED BY <1>1, <1>2

LEMMA NewestKeeps ==
  ASSUME NEW S, NEW q \in Seq(S), NEW n \in Nat \ {0}, q # <<>>
  PROVE  Newest(q, n) # <<>>
<1>1. CASE Len(q) <= n
  BY <1>1 DEF Newest
<1>2. CASE ~(Len(q) <= n)
  <2>1. Len(q) - n + 1 \in Int /\ Len(q) \in Int
    BY LenProperties
  <2>2. \A j \in Len(q) - n + 1 .. Len(q) : q[j] \in S
    BY <1>2, ElementOfSeq, LenProperties
  <2>3. Len(SubSeq(q, Len(q) - n + 1, Len(q))) = n
    BY <1>2, <2>1, <2>2, SubSeqProperties
  <2> QED BY <1>2, <2>3 DEF Newest
<1> QED BY <1>1, <1>2

LEMMA TypeInit == Init => TypeOK
  BY StoreAssumption, ThreadAssumption
  DEF Init, TypeOK, References, IngestState, PruneState, ScanState, None, Scanners, Shards, Times

(* All of TypeOK but the history variable. *)
StateType ==
  /\ now \in Nat /\ ingests \in Nat /\ svcCount \in Int
  /\ locked \in [Shards -> Ingesters \cup {Tick, "free"}]
  /\ heap \in Seq(Seq(Times))
  /\ buffers \in [Services -> Nat \cup {None}]
  /\ lastSeen \in [Services -> Times \cup {None}]
  /\ ingest \in [Ingesters -> IngestState]
  /\ prune \in PruneState
  /\ scan \in [Scanners -> ScanState]
  /\ References

LEMMA OwedType == ASSUME TypeOK, Remember PROVE owed' \in [Scanners -> SUBSET Services]
<1> SUFFICES ASSUME NEW k \in Scanners
             PROVE  (IF scan'[k].pc = "idle" THEN {}
                     ELSE {s \in IF scan[k].pc = "idle" THEN Services ELSE owed[k] :
                             Present(k, s)'}) \in SUBSET Services
  BY DEF Remember
<1> QED BY DEF TypeOK

LEMMA LookType ==
  ASSUME TypeOK, NEW i \in Ingesters, NEW s \in Services, NEW t \in Nat,
         LookAtCount(i, s, t), UNCHANGED <<heap, buffers, scan>>
  PROVE  /\ ingest' \in [Ingesters -> IngestState]
         /\ locked' \in [Shards -> Ingesters \cup {Tick, "free"}]
         /\ References'
<1> USE DEF TypeOK
<1>1. PICK x \in {[pc |-> "idle"], [pc |-> "admit", svc |-> s, at |-> t, saw |-> svcCount]} :
             ingest' = [ingest EXCEPT ![i] = x]
  BY DEF LookAtCount
<1>2. x \in IngestState /\ x.pc # "append"
  BY DEF IngestState, Times
<1>3. ingest' \in [Ingesters -> IngestState]
  BY <1>1, <1>2
<1>4. \A j \in Ingesters : ingest'[j].pc = "append" => ingest'[j] = ingest[j]
  BY <1>1, <1>2
<1>5. References'
  BY <1>4 DEF References
<1>6. ShardOf[s] \in Shards
  BY StoreAssumption
<1>7. locked' \in [Shards -> Ingesters \cup {Tick, "free"}]
  BY <1>6 DEF LookAtCount
<1> QED BY <1>3, <1>5, <1>7

LEMMA StartType ==
  ASSUME TypeOK, NEW i \in Ingesters, NEW s \in Services, NEW d \in Delays, d <= now,
         IngestStart(i, s, now - d)
  PROVE  StateType'
<1> USE DEF TypeOK, StateType, References, Times
<1>1. now - d \in Nat /\ ShardOf[s] \in Shards
  BY StoreAssumption
<1>2. CASE buffers[s] # None
  <2>1. /\ lastSeen' = [lastSeen EXCEPT ![s] = now - d]
        /\ ingest' = [ingest EXCEPT ![i] = [pc |-> "append", buf |-> buffers[s], at |-> now - d]]
        /\ UNCHANGED <<locked, now, buffers, svcCount, heap, prune, scan>>
        /\ ingests' = ingests + 1
    BY <1>2 DEF IngestStart
  <2>2. buffers[s] \in Nat
    BY <1>2
  <2>3. [pc |-> "append", buf |-> buffers[s], at |-> now - d] \in IngestState
    BY <1>1, <2>2 DEF IngestState
  <2> QED BY <1>1, <1>2, <2>1, <2>3
<1>3. CASE buffers[s] = None
  <2>1. /\ LookAtCount(i, s, now - d)
        /\ UNCHANGED <<lastSeen, now, buffers, svcCount, heap, prune, scan>>
        /\ ingests' = ingests + 1
    BY <1>3 DEF IngestStart
  <2> QED BY <1>1, <2>1, LookType
<1> QED BY <1>2, <1>3

LEMMA AdmitType ==
  ASSUME TypeOK, NEW i \in Ingesters, IngestAdmit(i)
  PROVE  StateType'
<1> USE DEF TypeOK, StateType, References, Times
<1>1. ingest[i] \in [pc : {"admit"}, svc : Services, at : Times, saw : Int]
  BY DEF IngestAdmit, IngestState
<1> DEFINE s == ingest[i].svc
           t == ingest[i].at
<1>2. s \in Services /\ t \in Nat /\ ShardOf[s] \in Shards
  BY <1>1, StoreAssumption
<1>3. CASE svcCount = ingest[i].saw
  <2>1. Insert(i, s, t) /\ svcCount' = svcCount + 1 /\ UNCHANGED <<now, ingests, prune, scan>>
    BY <1>3 DEF IngestAdmit
  <2>2. /\ Len(heap) \in Nat /\ heap' \in Seq(Seq(Nat)) /\ Len(heap') = Len(heap) + 1
    BY <2>1 DEF Insert
  <2>3. [pc |-> "append", buf |-> Len(heap) + 1, at |-> t] \in IngestState
    BY <1>2, <2>2 DEF IngestState
  <2>4. References'
    BY <1>2, <2>1, <2>2 DEF Insert
  <2> QED BY <1>2, <2>1, <2>2, <2>3, <2>4 DEF Insert
<1>4. CASE svcCount # ingest[i].saw
  <2>1. LookAtCount(i, s, t) /\ UNCHANGED <<now, ingests, prune, scan, svcCount, buffers, lastSeen, heap>>
    BY <1>4 DEF IngestAdmit
  <2> QED BY <1>2, <2>1, LookType
<1> QED BY <1>3, <1>4

LEMMA AppendType ==
  ASSUME TypeOK, NEW i \in Ingesters, IngestAppend(i)
  PROVE  StateType'
<1> USE DEF TypeOK, StateType, References, Times
<1>1. /\ ingest[i].buf \in 1 .. Len(heap)
      /\ ingest[i] \in [pc : {"append"}, buf : Nat, at : Times]
  BY DEF IngestAppend, IngestState
<1> DEFINE b == ingest[i].buf
           q == Newest(Append(heap[b], ingest[i].at), bufCap)
<1>2. q \in Seq(Nat)
  <2>1. heap[b] \in Seq(Nat)
    BY <1>1, ElementOfSeq
  <2>2. Append(heap[b], ingest[i].at) \in Seq(Nat)
    BY <1>1, <2>1
  <2> QED BY <2>2, NewestType, StoreAssumption
<1>3. heap' = [heap EXCEPT ![b] = q]
  BY DEF IngestAppend
<1>4. heap' \in Seq(Seq(Nat)) /\ Len(heap') = Len(heap)
  BY <1>1, <1>2, <1>3, ExceptSeq
<1>5. [pc |-> "idle"] \in IngestState
  BY DEF IngestState
<1> QED BY <1>4, <1>5 DEF IngestAppend, shardVars

LEMMA PruneType == ASSUME TypeOK, Prune PROVE StateType'
<1> USE DEF TypeOK, StateType, References, Times, PruneState, shardVars
<1>1. CASE PruneStart
  BY <1>1, StoreAssumption DEF PruneStart, Shards
<1>2. CASE PruneLock
  BY <1>2 DEF PruneLock
<1>3. ASSUME NEW s \in Services, PruneDelete(s) PROVE StateType'
  BY <1>3 DEF PruneDelete, None
<1>4. CASE PruneUnlock
  BY <1>4 DEF PruneUnlock
<1> QED BY <1>1, <1>2, <1>3, <1>4 DEF Prune

LEMMA ScanType == ASSUME TypeOK, NEW k \in Scanners, AllWindows(k) PROVE StateType'
<1> USE DEF TypeOK, StateType, References, Times, shardVars
<1>1. CASE ScanStart(k)
  <2>1. [pc |-> "shards", shard |-> 0, now |-> now, entries |-> {},
         out |-> [s \in Services |-> <<>>]] \in ScanState
    BY StoreAssumption DEF ScanState, Shards
  <2>2. CASE svcCount = 0
    BY <1>1, <2>2 DEF ScanStart, PruneState
  <2>3. CASE svcCount # 0
    <3>1. scan' = [scan EXCEPT ![k] =
                     [pc |-> "shards", shard |-> 0, now |-> now, entries |-> {},
                      out |-> [s \in Services |-> <<>>]]]
          /\ UNCHANGED <<now, shardVars, heap, ingest, ingests, prune>>
      BY <1>1, <2>3 DEF ScanStart
    <3>2. scan' \in [Scanners -> ScanState]
      BY <2>1, <3>1
    <3>3. \A j \in Scanners : scan'[j].pc # "idle" =>
            \/ scan'[j].entries = {}
            \/ scan'[j] = scan[j]
      BY <3>1
    <3>4. References'
      BY <3>1, <3>3
    <3> QED BY <3>1, <3>2, <3>4
  <2> QED BY <2>2, <2>3
<1>2. CASE ScanShard(k)
  <2>1. scan[k] \in [pc : {"shards", "buffers"}, shard : Shards, now : Nat,
                     entries : SUBSET (Services \X Nat), out : [Services -> Seq(Nat)]]
    BY <1>2 DEF ScanShard, ScanState
  <2>2. PICK F \in SUBSET (Services \X Nat) :
          F = FreshEntries(k) /\ \A e \in F : e[2] \in 1 .. Len(heap)
    <3>1. \A e \in FreshEntries(k) : e \in Services \X Nat /\ e[2] \in 1 .. Len(heap)
      BY DEF FreshEntries, Registered
    <3> QED BY <3>1
  <2>3. PICK h \in Shards, p \in {"shards", "buffers"} :
               scan' = [scan EXCEPT ![k].entries = @ \cup F,
                                    ![k].shard = h, ![k].pc = p]
    BY <1>2, <2>1, <2>2 DEF ScanShard, NextShard
  <2>4. /\ scan'[k] = [scan[k] EXCEPT !.entries = @ \cup F, !.shard = h, !.pc = p]
        /\ \A j \in Scanners \ {k} : scan'[j] = scan[j]
        /\ DOMAIN scan' = Scanners
    BY <2>3
  <2>5. /\ scan'[k] \in [pc : {"shards", "buffers"}, shard : Shards, now : Nat,
                         entries : SUBSET (Services \X Nat), out : [Services -> Seq(Nat)]]
        /\ scan'[k].entries = scan[k].entries \cup F
    <3>1. scan'[k].entries = scan[k].entries \cup F
      BY <2>1, <2>4
    <3>2. scan'[k].entries \in SUBSET (Services \X Nat)
      BY <2>1, <2>2, <3>1
    <3>3. scan'[k] = [scan[k] EXCEPT !.entries = scan'[k].entries, !.shard = h, !.pc = p]
      BY <2>1, <2>4, <3>1
    <3>4. \A E \in SUBSET (Services \X Nat) :
            [scan[k] EXCEPT !.entries = E, !.shard = h, !.pc = p]
              \in [pc : {"shards", "buffers"}, shard : Shards, now : Nat,
                   entries : SUBSET (Services \X Nat), out : [Services -> Seq(Nat)]]
      BY <2>1
    <3> QED BY <3>1, <3>2, <3>3, <3>4
  <2>6. UNCHANGED <<now, shardVars, heap, ingest, ingests, prune>>
    BY <1>2 DEF ScanShard
  <2>7. scan' \in [Scanners -> ScanState]
    BY <2>3, <2>4, <2>5 DEF ScanState
  <2>8. scan[k].pc # "idle"
    BY <2>1
  <2>9. \A j \in Scanners : scan'[j].pc # "idle" =>
          \A e \in scan'[j].entries : e[2] \in 1 .. Len(heap)
    BY <2>2, <2>4, <2>5, <2>8
  <2> QED BY <2>6, <2>7, <2>9
<1>3. CASE ScanBuffer(k)
  <2>1. scan[k] \in [pc : {"shards", "buffers"}, shard : Shards, now : Nat,
                     entries : SUBSET (Services \X Nat), out : [Services -> Seq(Nat)]]
    BY <1>3 DEF ScanBuffer, ScanState
  <2>2. PICK e \in scan[k].entries :
               scan' = [scan EXCEPT ![k].entries = @ \ {e}, ![k].out[e[1]] = heap[e[2]]]
    BY <1>3 DEF ScanBuffer
  <2>3. e[1] \in Services /\ heap[e[2]] \in Seq(Nat)
    BY <1>3, <2>1, ElementOfSeq DEF ScanBuffer
  <2>4. /\ scan'[k] \in [pc : {"shards", "buffers"}, shard : Shards, now : Nat,
                         entries : SUBSET (Services \X Nat), out : [Services -> Seq(Nat)]]
        /\ scan'[k].entries = scan[k].entries \ {e}
        /\ \A j \in Scanners \ {k} : scan'[j] = scan[j]
        /\ scan[k].pc = "buffers"
    BY <1>3, <2>1, <2>2, <2>3 DEF ScanBuffer
  <2>5. UNCHANGED <<now, shardVars, heap, ingest, ingests, prune>>
    BY <1>3 DEF ScanBuffer
  <2>6. scan' \in [Scanners -> ScanState]
    BY <2>2, <2>4 DEF ScanState
  <2>7. References'
    BY <2>1, <2>4, <2>5
  <2> QED BY <2>5, <2>6, <2>7
<1>4. CASE ScanReturn(k)
  BY <1>4 DEF ScanReturn, ScanState, PruneState
<1> QED BY <1>1, <1>2, <1>3, <1>4 DEF AllWindows

LEMMA TypeStep == ASSUME TypeOK, [Next]_vars PROVE TypeOK'
<1>1. CASE UNCHANGED vars
  BY <1>1 DEF vars, shardVars, TypeOK, References
<1>2. CASE Next
  <2>1. StateType'
    <3>1. CASE AdvanceClock
      BY <3>1 DEF AdvanceClock, shardVars, TypeOK, StateType, References
    <3>2. ASSUME NEW i \in Ingesters, Ingest(i) PROVE StateType'
      BY <3>2, StartType, AdmitType, AppendType DEF Ingest
    <3> QED BY <1>2, <3>1, <3>2, PruneType, ScanType DEF Next
  <2>2. owed' \in [Scanners -> SUBSET Services]
    BY <1>2, OwedType DEF Next
  <2> QED BY <2>1, <2>2 DEF StateType, TypeOK
<1> QED BY <1>1, <1>2

(* Threads and buffers keep their types throughout.                        *)
THEOREM TypeCorrect == Spec => []TypeOK
  BY TypeInit, TypeStep, PTL DEF Spec

-------------------------------------------------------------------------------
(* Admission *)

(* The two maps agree, a thread about to admit a service has the lock of   *)
(* its shard and saw room, the sweeping tick has the lock of its shard,    *)
(* and the count is what the maps hold.                                    *)
AdmitInv ==
  /\ \A s \in Services : buffers[s] = None <=> lastSeen[s] = None
  /\ \A i \in Ingesters : ingest[i].pc = "admit" =>
       /\ locked[ShardOf[ingest[i].svc]] = i
       /\ buffers[ingest[i].svc] = None
       /\ ingest[i].saw < maxSvc
  /\ prune.pc = "sweep" => locked[prune.shard] = Tick
  /\ svcCount = Cardinality(Registered)
  /\ Cardinality(Registered) <= maxSvc

LEMMA RegisteredFinite == IsFiniteSet(Registered) /\ Cardinality(Registered) \in Nat
  BY StoreAssumption, FS_Subset, FS_CardinalityType DEF Registered

LEMMA AdmitInit == Init => AdmitInv
<1> SUFFICES ASSUME Init PROVE AdmitInv
  OBVIOUS
<1>1. Registered = {}
  BY DEF Init, Registered
<1>2. Cardinality(Registered) = 0
  BY <1>1, FS_EmptySet
<1> QED BY <1>2, StoreAssumption DEF Init, AdmitInv

(* LookAtCount keeps the invariant, with the lock free or already held.    *)
LEMMA AdmitLook ==
  ASSUME TypeOK, AdmitInv, NEW i \in Ingesters, NEW s \in Services, NEW t \in Nat,
         buffers[s] = None, LookAtCount(i, s, t),
         locked[ShardOf[s]] \in {"free", i},
         UNCHANGED <<buffers, lastSeen, svcCount, prune>>
  PROVE  AdmitInv'
<1> USE DEF TypeOK
<1>1. ShardOf[s] \in Shards /\ maxSvc \in Nat
  BY StoreAssumption
<1>2. \A j \in Ingesters \ {i} : ingest'[j] = ingest[j]
  BY DEF LookAtCount
<1>3. \A j \in Ingesters \ {i} : ingest[j].pc = "admit" =>
        /\ ShardOf[ingest[j].svc] # ShardOf[s]
        /\ ShardOf[ingest[j].svc] \in Shards
  BY ThreadAssumption, StoreAssumption DEF AdmitInv, IngestState
<1>4. \A h \in Shards \ {ShardOf[s]} : locked'[h] = locked[h]
  BY DEF LookAtCount
<1>5. prune.pc = "sweep" => prune.shard # ShardOf[s] /\ prune.shard \in Shards
  BY ThreadAssumption DEF AdmitInv, PruneState, Scanners
<1>6. \A j \in Ingesters \ {i} : ingest'[j].pc = "admit" =>
        /\ locked'[ShardOf[ingest'[j].svc]] = j
        /\ buffers'[ingest'[j].svc] = None
        /\ ingest'[j].saw < maxSvc
  BY <1>2, <1>3, <1>4 DEF AdmitInv
<1>7. ingest'[i].pc = "admit" =>
        /\ locked'[ShardOf[ingest'[i].svc]] = i
        /\ buffers'[ingest'[i].svc] = None
        /\ ingest'[i].saw < maxSvc
  BY <1>1 DEF LookAtCount
<1>8. prune'.pc = "sweep" => locked'[prune'.shard] = Tick
  BY <1>4, <1>5 DEF AdmitInv
<1>9. Registered' = Registered
  BY DEF Registered
<1> QED BY <1>6, <1>7, <1>8, <1>9 DEF AdmitInv

LEMMA AdmitStart ==
  ASSUME TypeOK, AdmitInv, NEW i \in Ingesters, NEW s \in Services, NEW d \in Delays,
         d <= now, IngestStart(i, s, now - d)
  PROVE  AdmitInv'
<1>1. now - d \in Nat
  BY StoreAssumption DEF TypeOK
<1>2. CASE buffers[s] # None
  <2>1. /\ lastSeen' = [lastSeen EXCEPT ![s] = now - d]
        /\ ingest' = [ingest EXCEPT ![i] = [pc |-> "append", buf |-> buffers[s], at |-> now - d]]
        /\ UNCHANGED <<locked, buffers, svcCount, prune>>
    BY <1>2 DEF IngestStart
  <2>2. Registered' = Registered
    BY <2>1 DEF Registered
  <2>3. now - d # None
    BY <1>1 DEF None
  <2>4. \A r \in Services : buffers'[r] = None <=> lastSeen'[r] = None
    BY <1>2, <2>1, <2>3 DEF AdmitInv, TypeOK
  <2>5. \A j \in Ingesters : ingest'[j].pc = "admit" => ingest'[j] = ingest[j]
    BY <2>1 DEF TypeOK
  <2> QED BY <2>1, <2>2, <2>4, <2>5 DEF AdmitInv
<1>3. CASE buffers[s] = None
  BY <1>1, <1>3, AdmitLook DEF IngestStart
<1> QED BY <1>2, <1>3

LEMMA AdmitInsert ==
  ASSUME TypeOK, AdmitInv, NEW i \in Ingesters, IngestAdmit(i)
  PROVE  AdmitInv'
<1> USE DEF TypeOK
<1>1. ingest[i] \in [pc : {"admit"}, svc : Services, at : Nat, saw : Int]
  BY DEF IngestAdmit, IngestState, Times
<1> DEFINE s == ingest[i].svc
           t == ingest[i].at
<1>2. /\ s \in Services /\ t \in Nat /\ ShardOf[s] \in Shards /\ maxSvc \in Nat
      /\ locked[ShardOf[s]] = i /\ buffers[s] = None /\ ingest[i].saw < maxSvc
      /\ ingest[i].saw \in Int
  BY <1>1, StoreAssumption DEF AdmitInv
<1>3. CASE svcCount # ingest[i].saw
  BY <1>2, <1>3, AdmitLook DEF IngestAdmit
<1>4. CASE svcCount = ingest[i].saw
  <2>1. Insert(i, s, t) /\ svcCount' = svcCount + 1 /\ UNCHANGED prune
    BY <1>4 DEF IngestAdmit
  <2>2. buffers'[s] # None /\ lastSeen'[s] # None
    BY <1>2, <2>1, LenProperties DEF Insert, None
  <2>3. \A r \in Services \ {s} : buffers'[r] = buffers[r] /\ lastSeen'[r] = lastSeen[r]
    BY <2>1 DEF Insert
  <2>4. Registered' = Registered \cup {s} /\ s \notin Registered
    BY <1>2, <2>2, <2>3 DEF Registered
  <2>5. Cardinality(Registered') = Cardinality(Registered) + 1
    BY <2>4, RegisteredFinite, FS_AddElement
  <2>6. \A j \in Ingesters : ingest'[j].pc = "admit" =>
          /\ j # i /\ ingest'[j] = ingest[j] /\ ingest[j].svc \in Services
          /\ ShardOf[ingest[j].svc] # ShardOf[s]
          /\ ShardOf[ingest[j].svc] \in Shards
    <3>1. \A j \in Ingesters : ingest'[j].pc = "admit" => j # i /\ ingest'[j] = ingest[j]
      BY <2>1 DEF Insert
    <3> QED BY <1>2, <3>1, StoreAssumption DEF AdmitInv, IngestState
  <2>7. \A h \in Shards \ {ShardOf[s]} : locked'[h] = locked[h]
    BY <2>1 DEF Insert
  <2>8. \A j \in Ingesters : ingest'[j].pc = "admit" =>
          /\ locked'[ShardOf[ingest'[j].svc]] = j
          /\ buffers'[ingest'[j].svc] = None
          /\ ingest'[j].saw < maxSvc
    BY <2>3, <2>6, <2>7 DEF AdmitInv
  <2>9. prune'.pc = "sweep" => locked'[prune'.shard] = Tick
    BY <1>2, <2>1, <2>7, ThreadAssumption DEF AdmitInv, PruneState, Scanners
  <2>10. svcCount' = Cardinality(Registered') /\ Cardinality(Registered') <= maxSvc
    <3>1. svcCount = Cardinality(Registered)
      BY DEF AdmitInv
    <3> QED BY <1>2, <1>4, <2>1, <2>5, <3>1
  <2>11. \A r \in Services : buffers'[r] = None <=> lastSeen'[r] = None
    BY <2>2, <2>3 DEF AdmitInv
  <2> QED BY <2>8, <2>9, <2>10, <2>11 DEF AdmitInv
<1> QED BY <1>3, <1>4

LEMMA AdmitPrune == ASSUME TypeOK, AdmitInv, Prune PROVE AdmitInv'
<1> USE DEF TypeOK
<1>1. \A j \in Ingesters : ingest[j].pc = "admit" =>
        ShardOf[ingest[j].svc] \in Shards /\ ingest[j].svc \in Services
  BY StoreAssumption DEF IngestState
<1>2. CASE PruneStart
  <2>1. Registered' = Registered
    BY <1>2 DEF PruneStart, shardVars, Registered
  <2> QED BY <1>2, <2>1 DEF PruneStart, shardVars, AdmitInv
<1>3. CASE PruneLock
  <2>1. Registered' = Registered
    BY <1>3 DEF PruneLock, Registered
  <2>2. prune.shard \in Shards
    BY <1>3 DEF PruneLock, PruneState
  <2>3. \A j \in Ingesters : ingest[j].pc = "admit" => ShardOf[ingest[j].svc] # prune.shard
    BY <1>3, ThreadAssumption DEF PruneLock, AdmitInv
  <2>4. locked'[prune.shard] = Tick /\ prune'.shard = prune.shard
    BY <1>3, <2>2 DEF PruneLock, PruneState
  <2>5. \A h \in Shards \ {prune.shard} : locked'[h] = locked[h]
    BY <1>3 DEF PruneLock
  <2>6. UNCHANGED <<buffers, lastSeen, svcCount, ingest>>
    BY <1>3 DEF PruneLock
  <2> QED BY <1>1, <2>1, <2>3, <2>4, <2>5, <2>6 DEF AdmitInv
<1>4. ASSUME NEW s \in Services, PruneDelete(s) PROVE AdmitInv'
  <2>1. /\ buffers' = [buffers EXCEPT ![s] = None]
        /\ lastSeen' = [lastSeen EXCEPT ![s] = None]
        /\ svcCount' = svcCount - 1
        /\ UNCHANGED <<locked, ingest, prune>>
    BY <1>4 DEF PruneDelete
  <2>2. buffers[s] # None
    BY <1>4 DEF PruneDelete, StaleHere, StaleAt, AdmitInv
  <2>3. Registered' = Registered \ {s} /\ s \in Registered
    BY <2>1, <2>2 DEF Registered
  <2>4. Cardinality(Registered') = Cardinality(Registered) - 1
    BY <2>3, RegisteredFinite, FS_RemoveElement
  <2>5. svcCount' = Cardinality(Registered') /\ Cardinality(Registered') <= maxSvc
    BY <2>1, <2>4, RegisteredFinite, StoreAssumption DEF AdmitInv
  <2>6. \A r \in Services : buffers'[r] = None <=> lastSeen'[r] = None
    BY <2>1 DEF AdmitInv
  <2>7. \A r \in Services : buffers[r] = None => buffers'[r] = None
    BY <2>1
  <2> QED BY <1>1, <2>1, <2>5, <2>6, <2>7 DEF AdmitInv
<1>5. CASE PruneUnlock
  <2>1. Registered' = Registered
    BY <1>5 DEF PruneUnlock, Registered
  <2>2. locked[prune.shard] = Tick /\ prune.shard \in Shards
    BY <1>5 DEF PruneUnlock, PruneState, AdmitInv
  <2>3. \A j \in Ingesters : ingest[j].pc = "admit" => ShardOf[ingest[j].svc] # prune.shard
    BY <2>2, ThreadAssumption DEF AdmitInv, Scanners
  <2>4. \A h \in Shards \ {prune.shard} : locked'[h] = locked[h]
    BY <1>5 DEF PruneUnlock
  <2>5. prune'.pc # "sweep"
    BY <1>5 DEF PruneUnlock, PruneState
  <2>6. UNCHANGED <<buffers, lastSeen, svcCount, ingest>>
    BY <1>5 DEF PruneUnlock
  <2> QED BY <1>1, <2>1, <2>3, <2>4, <2>5, <2>6 DEF AdmitInv
<1> QED BY <1>2, <1>3, <1>4, <1>5 DEF Prune

LEMMA AdmitStep == ASSUME TypeOK, AdmitInv, [Next]_vars PROVE AdmitInv'
<1>1. ASSUME NEW i \in Ingesters, Ingest(i) PROVE AdmitInv'
  <2>1. CASE IngestAppend(i)
    <3>1. UNCHANGED <<locked, buffers, lastSeen, svcCount, prune>>
      BY <2>1 DEF IngestAppend, shardVars
    <3>2. \A j \in Ingesters : ingest'[j].pc = "admit" => ingest'[j] = ingest[j]
      BY <2>1 DEF IngestAppend, TypeOK
    <3>3. Registered' = Registered
      BY <3>1 DEF Registered
    <3> QED BY <3>1, <3>2, <3>3 DEF AdmitInv
  <2> QED BY <1>1, <2>1, AdmitStart, AdmitInsert DEF Ingest
<1>2. ASSUME NEW k \in Scanners, AllWindows(k) PROVE AdmitInv'
  <2>1. UNCHANGED <<locked, buffers, lastSeen, svcCount, ingest>>
    BY <1>2 DEF AllWindows, ScanStart, ScanShard, ScanBuffer, ScanReturn, shardVars
  <2>2. prune'.pc = "sweep" => prune' = prune
    BY <1>2 DEF AllWindows, ScanStart, ScanShard, ScanBuffer, ScanReturn
  <2>3. Registered' = Registered
    BY <2>1 DEF Registered
  <2> QED BY <2>1, <2>2, <2>3 DEF AdmitInv
<1>3. CASE AdvanceClock \/ UNCHANGED vars
  <2>1. UNCHANGED <<locked, buffers, lastSeen, svcCount, ingest, prune>>
    BY <1>3 DEF AdvanceClock, vars, shardVars
  <2>2. Registered' = Registered
    BY <2>1 DEF Registered
  <2> QED BY <2>1, <2>2 DEF AdmitInv
<1> QED BY <1>1, <1>2, <1>3, AdmitPrune DEF Next

LEMMA Inductive == Spec => [](TypeOK /\ AdmitInv)
<1>1. Init => TypeOK /\ AdmitInv
  BY TypeInit, AdmitInit
<1>2. (TypeOK /\ AdmitInv) /\ [Next]_vars => (TypeOK /\ AdmitInv)'
  BY TypeStep, AdmitStep
<1> QED BY <1>1, <1>2, PTL DEF Spec

(* The store never holds more than maxSvc services (store.go:151-160),     *)
(* however many threads admit services in different shards at once.        *)
THEOREM AdmissionBounded == Spec => []AdmissionBound
<1>1. AdmitInv => AdmissionBound
  BY DEF AdmitInv, AdmissionBound
<1> QED BY <1>1, Inductive, PTL

(* svcCount is the number of services in the maps (store.go:151-165, 197). *)
THEOREM CountCorrect == Spec => []CountExact
<1>1. AdmitInv => CountExact
  BY DEF AdmitInv, CountExact
<1> QED BY <1>1, Inductive, PTL

(* The admission of services is sound (store.go:151-165, 197).             *)
THEOREM AdmissionIsSound == Spec => []AdmissionSound
BY AdmissionBounded, CountCorrect, PTL DEF AdmissionSound

-------------------------------------------------------------------------------
(* The windows *)

(* What a scan owes is there still, is not empty, and, its shard passed,   *)
(* has been listed or taken.                                               *)
WindowInv ==
  \A k \in Scanners : \A s \in owed[k] :
    /\ scan[k].pc # "idle"
    /\ Present(k, s)
    /\ \A e \in scan[k].entries : e[1] = s => heap[e[2]] # <<>>
    /\ scan[k].pc = "buffers" \/ ShardOf[s] < scan[k].shard =>
         scan[k].out[s] # <<>> \/ \E e \in scan[k].entries : e[1] = s

(* A buffer that has a point keeps one: it is made empty and never emptied. *)
LEMMA HeapFills ==
  ASSUME TypeOK, Next
  PROVE  \A b \in 1 .. Len(heap) : heap[b] # <<>> => heap'[b] # <<>>
<1>1. ASSUME NEW i \in Ingesters, IngestAppend(i)
      PROVE  \A b \in 1 .. Len(heap) : heap[b] # <<>> => heap'[b] # <<>>
  <2> DEFINE n == ingest[i].buf
             q == Append(heap[n], ingest[i].at)
  <2>1. n \in 1 .. Len(heap) /\ ingest[i].at \in Nat
    BY <1>1 DEF IngestAppend, TypeOK, References, IngestState, Times
  <2>2. heap[n] \in Seq(Nat)
    BY <2>1, ElementOfSeq DEF TypeOK, Times
  <2>3. q \in Seq(Nat) /\ q # <<>>
    BY <2>1, <2>2
  <2>4. Newest(q, bufCap) # <<>>
    BY <2>3, NewestKeeps, StoreAssumption
  <2>5. heap' = [heap EXCEPT ![n] = Newest(q, bufCap)]
    BY <1>1 DEF IngestAppend
  <2> HIDE DEF n, q
  <2> QED BY <2>1, <2>4, <2>5 DEF TypeOK
<1>2. ASSUME NEW i \in Ingesters, IngestAdmit(i)
      PROVE  \A b \in 1 .. Len(heap) : heap[b] # <<>> => heap'[b] # <<>>
  <2>1. CASE heap' = Append(heap, <<>>)
    <3>1. \A b \in 1 .. Len(heap) : heap'[b] = heap[b]
      BY <2>1 DEF TypeOK
    <3> QED BY <3>1
  <2>2. heap' = heap \/ heap' = Append(heap, <<>>)
    BY <1>2 DEF IngestAdmit, Insert
  <2> QED BY <2>1, <2>2
<1>3. CASE UNCHANGED heap
  BY <1>3
<1>4. CASE \E i \in Ingesters : Ingest(i)
  BY <1>1, <1>2, <1>3, <1>4 DEF Ingest, IngestStart
<1> QED BY <1>3, <1>4 DEF Next, AdvanceClock, Prune, PruneStart, PruneLock, PruneDelete,
                          PruneUnlock, AllWindows, ScanStart, ScanShard, ScanBuffer, ScanReturn

(* Only k's own steps move its scan.                                       *)
LEMMA ScanMoves ==
  ASSUME TypeOK, Next, NEW k \in Scanners
  PROVE  scan'[k] = scan[k] \/ AllWindows(k)
<1>1. ASSUME NEW j \in Scanners, j # k, AllWindows(j) PROVE scan'[k] = scan[k]
  BY <1>1 DEF AllWindows, ScanStart, ScanShard, NextShard, ScanBuffer, ScanReturn, TypeOK
<1>2. CASE \E j \in Scanners : AllWindows(j)
  BY <1>1, <1>2
<1>3. CASE UNCHANGED scan
  BY <1>3
<1> QED BY <1>2, <1>3 DEF Next, AdvanceClock, Ingest, IngestStart, IngestAdmit, IngestAppend,
                          Prune, PruneStart, PruneLock, PruneDelete, PruneUnlock

LEMMA WindowStep == ASSUME TypeOK, WindowInv, Next PROVE WindowInv'
<1> SUFFICES ASSUME NEW k \in Scanners, NEW s \in owed'[k]
             PROVE  /\ scan'[k].pc # "idle"
                    /\ Present(k, s)'
                    /\ \A e \in scan'[k].entries : e[1] = s => heap'[e[2]] # <<>>
                    /\ scan'[k].pc = "buffers" \/ ShardOf[s] < scan'[k].shard =>
                         scan'[k].out[s] # <<>> \/ \E e \in scan'[k].entries : e[1] = s
  BY DEF WindowInv
<1> USE DEF TypeOK
<1>1. /\ scan'[k].pc # "idle" /\ Present(k, s)' /\ s \in Services
      /\ scan[k].pc # "idle" => s \in owed[k]
  BY DEF Next, Remember
<1>2. ShardOf[s] \in Nat /\ ShardOf[s] \in Shards /\ numShards \in Nat
  BY <1>1, StoreAssumption DEF Shards
<1>3. CASE scan[k].pc = "idle"
  <2>1. ScanStart(k)
    BY <1>1, <1>3, ScanMoves DEF AllWindows, ScanShard, ScanBuffer, ScanReturn, Finished
  <2>2. scan'[k].entries = {} /\ scan'[k].shard = 0 /\ scan'[k].pc = "shards"
    BY <1>1, <1>3, <2>1 DEF ScanStart
  <2> QED BY <1>1, <1>2, <2>2
<1>4. CASE scan[k].pc # "idle"
  <2>1. /\ Present(k, s)
        /\ \A e \in scan[k].entries : e[1] = s => heap[e[2]] # <<>>
        /\ scan[k].pc = "buffers" \/ ShardOf[s] < scan[k].shard =>
             scan[k].out[s] # <<>> \/ \E e \in scan[k].entries : e[1] = s
    BY <1>1, <1>4 DEF WindowInv
  <2>2. \A e \in scan[k].entries : e[1] = s => heap'[e[2]] # <<>>
    BY <1>4, <2>1, HeapFills DEF References
  <2>3. scan[k] \in [pc : {"shards", "buffers"}, shard : Shards, now : Nat,
                     entries : SUBSET (Services \X Nat), out : [Services -> Seq(Nat)]]
    BY <1>4 DEF ScanState, Times
  <2>4. CASE scan'[k] = scan[k]
    BY <1>1, <2>1, <2>2, <2>4
  <2>5. CASE ScanShard(k)
    <3>1. /\ scan[k].pc = "shards" /\ UNCHANGED heap
          /\ scan'[k].entries = scan[k].entries \cup FreshEntries(k)
          /\ scan'[k].out = scan[k].out
          /\ scan'[k].shard = IF scan[k].shard + 1 \in Shards THEN scan[k].shard + 1
                              ELSE scan[k].shard
          /\ scan'[k].pc = IF scan[k].shard + 1 \in Shards THEN "shards" ELSE "buffers"
      BY <2>3, <2>5 DEF ScanShard, NextShard
    <3>2. \A e \in FreshEntries(k) : e[1] = s => heap'[e[2]] # <<>>
      BY <2>1, <3>1 DEF FreshEntries, Present
    <3>3. CASE ShardOf[s] < scan[k].shard
      BY <1>1, <2>1, <2>2, <3>1, <3>2, <3>3
    <3>4. CASE ShardOf[s] = scan[k].shard
      <4>1. <<s, buffers[s]>> \in FreshEntries(k)
        BY <1>1, <2>1, <3>4 DEF FreshEntries, Present, Registered
      <4>2. \E e \in scan'[k].entries : e[1] = s
        BY <3>1, <4>1
      <4> QED BY <1>1, <2>2, <3>1, <3>2, <4>2
    <3>5. CASE ShardOf[s] > scan[k].shard
      <4>1. scan[k].shard + 1 \in Shards
        BY <1>2, <2>3, <3>5 DEF Shards
      <4>2. scan'[k].pc = "shards" /\ ~(ShardOf[s] < scan'[k].shard)
        BY <1>2, <2>3, <3>1, <3>5, <4>1 DEF Shards
      <4> QED BY <1>1, <2>2, <3>1, <3>2, <4>2
    <3> QED BY <1>2, <2>3, <3>3, <3>4, <3>5 DEF Shards
  <2>6. CASE ScanBuffer(k)
    <3>1. PICK e \in scan[k].entries :
                 scan' = [scan EXCEPT ![k].entries = @ \ {e}, ![k].out[e[1]] = heap[e[2]]]
      BY <2>6 DEF ScanBuffer
    <3>2. /\ scan[k].pc = "buffers" /\ scan'[k].entries = scan[k].entries \ {e}
          /\ scan'[k].out = [scan[k].out EXCEPT ![e[1]] = heap[e[2]]]
      BY <2>3, <2>6, <3>1 DEF ScanBuffer
    <3>3. scan'[k].out[s] # <<>> \/ \E f \in scan'[k].entries : f[1] = s
      <4>1. CASE e[1] = s
        BY <1>1, <2>1, <2>3, <3>2, <4>1
      <4>2. CASE e[1] # s
        BY <1>1, <2>1, <2>3, <3>2, <4>2
      <4> QED BY <4>1, <4>2
    <3> QED BY <1>1, <2>2, <3>2, <3>3
  <2>7. ~ScanStart(k)
    BY <1>4 DEF ScanStart
  <2>8. ~ScanReturn(k)
    BY <1>1 DEF ScanReturn
  <2> QED BY <2>4, <2>5, <2>6, <2>7, <2>8, ScanMoves DEF AllWindows
<1> QED BY <1>3, <1>4

(* AllWindows misses no service that was there, fresh and not empty, all   *)
(* the while it ran (store.go:279-320).                                    *)
THEOREM WindowsMissNothing == Spec => []WindowsComplete
<1>1. Init => TypeOK /\ WindowInv
  BY TypeInit DEF Init, WindowInv
<1>2. (TypeOK /\ WindowInv) /\ [Next]_vars => (TypeOK /\ WindowInv)'
  <2>1. ASSUME TypeOK, WindowInv, UNCHANGED vars PROVE WindowInv'
    BY <2>1 DEF vars, shardVars, WindowInv, Present, FreshAt
  <2> QED BY <2>1, TypeStep, WindowStep
<1>3. TypeOK /\ WindowInv => WindowsComplete
  BY DEF TypeOK, WindowInv, WindowsComplete, Finished
<1> QED BY <1>1, <1>2, <1>3, PTL DEF Spec
===============================================================================
