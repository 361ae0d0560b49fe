---------------------------- MODULE DeliveryProofs ----------------------------
(***************************************************************************)
(* Proofs about the bounded queues and the goroutines at their ends, for   *)
(* every capacity and every number of messages: the snapshots on their way *)
(* to the database (SnapshotWriter), the payloads on their way to the      *)
(* dashboards (StreamHub) and the points on their way to the engine        *)
(* (IngestClient).  The last two are instances in Delivery: their theorems *)
(* are about the specification of the instance.                            *)
(***************************************************************************)
EXTENDS Delivery, FiniteSetTheorems, SequenceTheorems, TLAPS

-------------------------------------------------------------------------------
(* Sequences, by their elements and their order *)

(* A queue takes at its end and gives at its front. *)
LEMMA QueueRange ==
  ASSUME NEW S, NEW s \in Seq(S)
  PROVE  /\ Range(s) \subseteq S
         /\ Len(s) \in Nat /\ DOMAIN s = 1 .. Len(s)
         /\ s = <<>> => Range(s) = {}
         /\ \A e \in S : /\ Append(s, e) \in Seq(S)
                         /\ Len(Append(s, e)) = Len(s) + 1
                         /\ Range(Append(s, e)) = Range(s) \cup {e}
         /\ s # <<>> => /\ Head(s) \in S /\ Tail(s) \in Seq(S)
                        /\ Len(s) > 0 /\ Len(Tail(s)) = Len(s) - 1
                        /\ Range(s) = {Head(s)} \cup Range(Tail(s))
<1>1. Len(s) \in Nat /\ DOMAIN s = 1 .. Len(s)
  OBVIOUS
<1>2. Range(s) \subseteq S
  BY <1>1 DEF Range
<1>3. s = <<>> => Range(s) = {}
  BY DEF Range
<1>4. ASSUME NEW e \in S
      PROVE  /\ Append(s, e) \in Seq(S)
             /\ Len(Append(s, e)) = Len(s) + 1
             /\ Range(Append(s, e)) = Range(s) \cup {e}
  <2>1. /\ Append(s, e) \in Seq(S) /\ Len(Append(s, e)) = Len(s) + 1
        /\ DOMAIN Append(s, e) = 1 .. Len(s) + 1
        /\ \A i \in 1 .. Len(s) : Append(s, e)[i] = s[i]
        /\ Append(s, e)[Len(s) + 1] = e
    BY AppendProperties, LenProperties
  <2> HIDE DEF Range
  <2>2. ASSUME NEW x PROVE x \in Range(Append(s, e)) <=> x \in Range(s) \cup {e}
    <3> DEFINE t == Append(s, e)
    <3> HIDE DEF t
    <3>1. /\ DOMAIN t = 1 .. Len(s) + 1 /\ t[Len(s) + 1] = e
          /\ \A i \in 1 .. Len(s) : t[i] = s[i]
      BY <2>1 DEF t
    <3>2. x \in Range(t) <=> x \in Range(s) \cup {e}
      BY <1>1, <3>1 DEF Range
    <3> QED BY <3>2 DEF t
  <2> QED BY <2>1, <2>2
<1>5. ASSUME s # <<>>
      PROVE  /\ Head(s) \in S /\ Tail(s) \in Seq(S)
             /\ Len(s) > 0 /\ Len(Tail(s)) = Len(s) - 1
             /\ Range(s) = {Head(s)} \cup Range(Tail(s))
  <2> DEFINE t == Tail(s)
  <2>1. /\ Head(s) \in S /\ t \in Seq(S) /\ Len(t) = Len(s) - 1
        /\ \A i \in 1 .. Len(t) : t[i] = s[i + 1]
    BY <1>5, HeadTailProperties
  <2>2. Len(s) > 0 /\ Head(s) = s[1] /\ DOMAIN t = 1 .. Len(t)
    BY <1>1, <1>5, <2>1
  <2> HIDE DEF t
  <2>3. ASSUME NEW x PROVE x \in Range(s) <=> x \in {Head(s)} \cup Range(t)
    <3>1. ASSUME NEW i \in 1 .. Len(s), x = s[i] PROVE x \in {Head(s)} \cup Range(t)
      <4>1. CASE i = 1
        BY <2>2, <3>1, <4>1
      <4>2. CASE i # 1
        <5>1. i - 1 \in 1 .. Len(t) /\ t[i - 1] = s[(i - 1) + 1] /\ (i - 1) + 1 = i
          BY <1>1, <2>1, <4>2
        <5> QED BY <2>2, <3>1, <5>1 DEF Range
      <4> QED BY <4>1, <4>2
    <3>2. ASSUME NEW i \in 1 .. Len(t), x = t[i] PROVE x \in Range(s)
      <4>1. i + 1 \in 1 .. Len(s) /\ t[i] = s[i + 1]
        BY <1>1, <2>1
      <4> QED BY <1>1, <3>2, <4>1 DEF Range
    <3>3. Head(s) \in Range(s)
      BY <1>1, <2>2 DEF Range
    <3> QED BY <1>1, <2>2, <3>1, <3>2, <3>3 DEF Range
  <2> QED BY <2>1, <2>2, <2>3 DEF t
<1> QED BY <1>1, <1>2, <1>3, <1>4, <1>5

Rising(s) == \A m, n \in DOMAIN s : m < n => s[m] < s[n]

(* A rising queue rises when what it takes is newer than what it holds, and *)
(* what it gives is older than the rest.                                    *)
LEMMA RisingQueue ==
  ASSUME NEW s \in Seq(Nat), Rising(s)
  PROVE  /\ \A e \in Nat : (\A x \in Range(s) : x < e) => Rising(Append(s, e))
         /\ s # <<>> => Rising(Tail(s)) /\ \A x \in Range(Tail(s)) : Head(s) < x
<1>1. Len(s) \in Nat /\ DOMAIN s = 1 .. Len(s)
  OBVIOUS
<1>2. ASSUME NEW e \in Nat, \A x \in Range(s) : x < e PROVE Rising(Append(s, e))
  <2> DEFINE t == Append(s, e)
  <2>1. /\ DOMAIN t = 1 .. Len(s) + 1 /\ t[Len(s) + 1] = e
        /\ \A i \in 1 .. Len(s) : t[i] = s[i]
    BY AppendProperties, LenProperties
  <2>2. \A i \in 1 .. Len(s) : s[i] < e
    BY <1>1, <1>2 DEF Range
  <2> HIDE DEF t
  <2>3. Rising(t)
    BY <1>1, <2>1, <2>2 DEF Rising
  <2> QED BY <2>3 DEF t
<1>3. ASSUME s # <<>> PROVE Rising(Tail(s)) /\ \A x \in Range(Tail(s)) : Head(s) < x
  <2> DEFINE t == Tail(s)
  <2>1. /\ DOMAIN t = 1 .. Len(s) - 1 /\ Len(s) > 0 /\ Head(s) = s[1]
        /\ \A i \in 1 .. Len(s) - 1 : t[i] = s[i + 1]
    BY <1>1, <1>3, HeadTailProperties, LenProperties
  <2> HIDE DEF t
  <2>2. Rising(t)
    <3> SUFFICES ASSUME NEW m \in DOMAIN t, NEW n \in DOMAIN t, m < n PROVE t[m] < t[n]
      BY DEF Rising
    <3>1. m + 1 \in DOMAIN s /\ n + 1 \in DOMAIN s /\ m + 1 < n + 1
      BY <1>1, <2>1
    <3> QED BY <2>1, <3>1 DEF Rising
  <2>3. \A i \in DOMAIN t : Head(s) < t[i]
    <3> SUFFICES ASSUME NEW i \in DOMAIN t PROVE Head(s) < t[i]
      OBVIOUS
    <3>1. 1 \in DOMAIN s /\ i + 1 \in DOMAIN s /\ 1 < i + 1
      BY <1>1, <2>1
    <3> QED BY <2>1, <3>1 DEF Rising
  <2> QED BY <2>2, <2>3 DEF Range, t
<1> QED BY <1>2, <1>3

-------------------------------------------------------------------------------
(* The replies of the server *)

Reply == {"C", "E", "Z"}
Ends(r) == {k \in DOMAIN r : r[k] = "Z"}

(* The replies that end a response are finitely many. *)
LEMMA EndsFinite ==
  ASSUME NEW r \in Seq(Reply)
  PROVE  IsFiniteSet(Ends(r)) /\ Cardinality(Ends(r)) \in Nat
<1>1. DOMAIN r = 1 .. Len(r) /\ Len(r) \in Nat
  OBVIOUS
<1>2. IsFiniteSet(1 .. Len(r))
  BY <1>1, FS_Interval
<1>3. Ends(r) \in SUBSET (1 .. Len(r))
  BY <1>1 DEF Ends
<1>4. IsFiniteSet(Ends(r))
  BY <1>2, <1>3, FS_Subset
<1> QED BY <1>4, FS_CardinalityType

(* Each response brings one end. *)
LEMMA EndsConcat ==
  ASSUME NEW r \in Seq(Reply), NEW a \in {"C", "E"}
  PROVE  /\ r \o <<a, "Z">> \in Seq(Reply)
         /\ Cardinality(Ends(r \o <<a, "Z">>)) = Cardinality(Ends(r)) + 1
<1> DEFINE t == r \o <<a, "Z">>
           n == Len(r) + 2
<1>1. /\ t \in Seq(Reply) /\ Len(t) = Len(r) + 2 /\ Len(r) \in Nat
      /\ DOMAIN t = 1 .. n /\ DOMAIN r = 1 .. Len(r)
      /\ \A i \in 1 .. Len(r) : t[i] = r[i]
      /\ t[Len(r) + 1] = a /\ t[n] = "Z"
  <2>1. <<a, "Z">> \in Seq(Reply) /\ Len(<<a, "Z">>) = 2
    BY DEF Reply
  <2> QED BY <2>1, ConcatProperties, LenProperties
<1> HIDE DEF t
<1>2. Ends(t) = Ends(r) \cup {n} /\ n \notin Ends(r)
  <2>1. a # "Z"
    OBVIOUS
  <2>2. ASSUME NEW k PROVE k \in Ends(t) <=> k \in Ends(r) \cup {n}
    BY <1>1, <2>1 DEF Ends
  <2>3. n \notin Ends(r)
    BY <1>1 DEF Ends
  <2> QED BY <2>2, <2>3
<1>3. Cardinality(Ends(t)) = Cardinality(Ends(r)) + 1
  BY <1>2, EndsFinite, FS_AddElement
<1> QED BY <1>1, <1>3 DEF t

(* Reading a reply takes its end away, if it is one. *)
LEMMA EndsTail ==
  ASSUME NEW r \in Seq(Reply), r # <<>>
  PROVE  Cardinality(Ends(r)) = Cardinality(Ends(Tail(r))) + (IF Head(r) = "Z" THEN 1 ELSE 0)
<1> DEFINE t == Tail(r)
           later == Ends(r) \ {1}
           shift == [k \in Ends(t) |-> k + 1]
<1>1. /\ DOMAIN r = 1 .. Len(r) /\ Len(r) \in Nat /\ Len(r) > 0 /\ Head(r) = r[1]
      /\ DOMAIN t = 1 .. (Len(r) - 1)
      /\ \A i \in 1 .. (Len(r) - 1) : t[i] = r[i + 1]
      /\ t \in Seq(Reply)
  BY HeadTailProperties, LenProperties
<1> HIDE DEF t
<1>2. shift \in [Ends(t) -> later]
  BY <1>1 DEF Ends
<1>3. \A i, j \in Ends(t) : shift[i] = shift[j] => i = j
  BY <1>1 DEF Ends
<1>4. \A k \in later : k - 1 \in Ends(t) /\ shift[k - 1] = k
  <2> SUFFICES ASSUME NEW k \in later PROVE k - 1 \in Ends(t) /\ shift[k - 1] = k
    OBVIOUS
  <2>1. k \in 2 .. Len(r) /\ r[k] = "Z"
    BY <1>1 DEF Ends
  <2>2. k - 1 \in 1 .. (Len(r) - 1) /\ (k - 1) + 1 = k
    BY <1>1, <2>1
  <2>3. k - 1 \in Ends(t)
    BY <1>1, <2>1, <2>2 DEF Ends
  <2> QED BY <2>2, <2>3
<1>5. shift \in Bijection(Ends(t), later)
  BY <1>2, <1>3, <1>4 DEF Bijection, Injection, Surjection, IsInjective
<1>6. IsFiniteSet(Ends(t)) /\ Cardinality(Ends(t)) \in Nat /\ IsFiniteSet(Ends(r))
      /\ Cardinality(Ends(r)) \in Nat
  BY <1>1, EndsFinite
<1>7. ExistsBijection(Ends(t), later)
  BY <1>5 DEF ExistsBijection
<1>8. Cardinality(later) = Cardinality(Ends(t))
  BY <1>6, <1>7, FS_Bijection
<1>9. Cardinality(later) = IF 1 \in Ends(r) THEN Cardinality(Ends(r)) - 1 ELSE Cardinality(Ends(r))
  BY <1>6, FS_RemoveElement
<1>10. 1 \in Ends(r) <=> Head(r) = "Z"
  BY <1>1 DEF Ends
<1> QED BY <1>6, <1>8, <1>9, <1>10 DEF t

-------------------------------------------------------------------------------
(* The writer: type correctness *)

Outcome == {"queued", "dropped", "ok", "error"}

(* What TypeOK says of each variable. *)
LEMMA WriterTypes ==
  ASSUME TypeOK
  PROVE  /\ Len(hasSim) \in Nat /\ Snapshots \subseteq Nat /\ hasSim \in Seq(BOOLEAN)
         /\ queue \in Seq(Snapshots) /\ requests \in Seq(Snapshots) /\ stored \in Seq(Snapshots)
         /\ queue \in Seq(Nat) /\ requests \in Seq(Nat) /\ stored \in Seq(Nat)
         /\ outcome \in [Snapshots -> Outcome]
         /\ outcome \in Seq(Outcome) /\ Len(outcome) = Len(hasSim)
         /\ replies \in Seq(Reply) /\ errors \in Nat
         /\ drain.pc \in {"receive", "done", "read"}
         /\ drain.pc = "read" => drain.snap \in Snapshots
<1>1. Len(hasSim) \in Nat /\ hasSim \in Seq(BOOLEAN)
  BY DEF TypeOK
<1>2. Snapshots \subseteq Nat
  BY <1>1 DEF Snapshots
<1>3. queue \in Seq(Snapshots) /\ requests \in Seq(Snapshots) /\ stored \in Seq(Snapshots)
  BY DEF TypeOK
<1>4. queue \in Seq(Nat) /\ requests \in Seq(Nat) /\ stored \in Seq(Nat)
  BY <1>2, <1>3, SeqMonotonic
<1>5. outcome \in [1 .. Len(hasSim) -> Outcome]
  BY DEF TypeOK, Snapshots, Outcome
<1>6. outcome \in Seq(Outcome)
  BY <1>1, <1>5, SeqDef
<1>7. DOMAIN outcome = 1 .. Len(outcome) /\ Len(outcome) \in Nat /\ DOMAIN outcome = 1 .. Len(hasSim)
  BY <1>5, <1>6, LenProperties
<1>8. Len(outcome) = Len(hasSim)
  BY <1>1, <1>7
<1>9. replies \in Seq(Reply) /\ errors \in Nat
  BY DEF TypeOK, Reply
<1>10. drain.pc \in {"receive", "done", "read"} /\ (drain.pc = "read" => drain.snap \in Snapshots)
  BY DEF TypeOK
<1> QED BY <1>1, <1>2, <1>3, <1>4, <1>5, <1>6, <1>8, <1>9, <1>10 DEF Snapshots

(* What became of a snapshot can be told of it, and the drain is free again. *)
LEMMA ReportTypes ==
  ASSUME TypeOK, NEW snap \in Snapshots, NEW what \in {"ok", "error"}, Report(snap, what),
         hasSim' = hasSim
  PROVE  /\ outcome' \in [Snapshots' -> Outcome] /\ drain' = [pc |-> "receive"]
         /\ outcome'[snap] = what /\ \A s \in Snapshots : s # snap => outcome'[s] = outcome[s]
BY WriterTypes DEF Report, Snapshots, Outcome

(* A statement is sent, or fails on a connection that is gone. *)
LEMMA QueryTypes ==
  ASSUME TypeOK, NEW snap \in Snapshots, Query(snap), hasSim' = hasSim
  PROVE  /\ outcome' \in [Snapshots' -> Outcome]
         /\ requests' \in Seq(Snapshots')
         /\ drain' \in [pc : {"receive", "done"}] \/ drain' \in [pc : {"read"}, snap : Snapshots']
<1>1. Snapshots' = Snapshots
  BY DEF Snapshots
<1>2. CASE linkUp
  <2>1. /\ requests' = Append(requests, snap) /\ outcome' = outcome
        /\ drain' = [pc |-> "read", snap |-> snap]
    BY <1>2 DEF Query
  <2> QED BY <1>1, <2>1, WriterTypes
<1>3. CASE ~linkUp
  <2>1. Report(snap, "error") /\ requests' = requests
    BY <1>3 DEF Query
  <2> QED BY <1>1, <2>1, ReportTypes, WriterTypes
<1> QED BY <1>2, <1>3

(* The writer's variables keep their types and its queue its capacity (the *)
(* default branch of Enqueue's select); every snapshot that is made has an *)
(* outcome.                                                                *)
THEOREM TypeCorrect == Spec => []TypeOK
<1>1. Init => TypeOK
  <2> SUFFICES ASSUME Init PROVE TypeOK
    OBVIOUS
  <2>1. hasSim \in Seq(BOOLEAN) /\ Len(hasSim) = 0 /\ Snapshots = {}
    BY DEF Init, Snapshots
  <2>2. queue \in Seq(Snapshots) /\ requests \in Seq(Snapshots) /\ stored \in Seq(Snapshots)
    BY DEF Init
  <2>3. outcome \in [Snapshots -> {"queued", "dropped", "ok", "error"}]
    BY <2>1 DEF Init
  <2>4. Len(queue) <= queueCap /\ errors \in Nat
    BY WriterAssumption DEF Init
  <2>5. replies \in Seq({"C", "E", "Z"})
    BY DEF Init
  <2>6. /\ engine \in {"idle", "tick", "stopped", "panicked"}
        /\ cancelled \in BOOLEAN /\ closed \in BOOLEAN /\ linkUp \in BOOLEAN
        /\ main \in {"serve", "closing", "exit"}
        /\ drain \in [pc : {"receive", "done"}]
    BY DEF Init
  <2> QED BY <2>1, <2>2, <2>3, <2>4, <2>5, <2>6 DEF TypeOK
<1>2. TypeOK /\ [Next]_vars => TypeOK'
  <2> SUFFICES ASSUME TypeOK, [Next]_vars PROVE TypeOK'
    OBVIOUS
  <2> USE DEF procVars, linkVars
  <2>t. /\ engine \in {"idle", "tick", "stopped", "panicked"}
        /\ cancelled \in BOOLEAN /\ closed \in BOOLEAN /\ linkUp \in BOOLEAN
        /\ main \in {"serve", "closing", "exit"}
        /\ Len(queue) <= queueCap /\ queueCap \in Nat
    BY WriterAssumption DEF TypeOK
  <2>1. CASE TickStart \/ TickSkip \/ RunReturns \/ Signal \/ Close \/ Exit
    <3>1. UNCHANGED <<hasSim, queue, requests, stored, outcome, drain, replies, errors>>
      BY <2>1 DEF TickStart, TickSkip, RunReturns, Signal, Close, Exit
    <3>2. /\ engine' \in {"idle", "tick", "stopped", "panicked"}
          /\ cancelled' \in BOOLEAN /\ closed' \in BOOLEAN /\ linkUp' \in BOOLEAN
          /\ main' \in {"serve", "closing", "exit"}
      BY <2>1, <2>t DEF TickStart, TickSkip, RunReturns, Signal, Close, Exit
    <3> QED BY <3>1, <3>2 DEF TypeOK, Snapshots
  <2>2. ASSUME NEW sim \in BOOLEAN, Enqueue(sim) PROVE TypeOK'
    <3> DEFINE n == Len(hasSim) + 1
               accepted == ~closed /\ Len(queue) < queueCap
    <3>1. hasSim' \in Seq(BOOLEAN) /\ Len(hasSim') = n
      BY <2>2, WriterTypes, AppendProperties DEF Enqueue
    <3>2. Snapshots' = Snapshots \cup {n} /\ Snapshots \subseteq Snapshots' /\ n \in Snapshots'
      <4>1. Len(hasSim) \in Nat /\ Len(hasSim)' = n
        BY <3>1, WriterTypes
      <4> QED BY <4>1 DEF Snapshots
    <3>3. /\ queue \in Seq(Snapshots') /\ requests \in Seq(Snapshots') /\ stored \in Seq(Snapshots')
      BY <3>2, WriterTypes, SeqMonotonic
    <3>4. queue' \in Seq(Snapshots') /\ Len(queue') <= queueCap
      <4>1. CASE accepted
        <5>1. queue' = Append(queue, n)
          BY <2>2, <4>1 DEF Enqueue
        <5> QED BY <2>t, <3>2, <3>3, <4>1, <5>1, QueueRange
      <4>2. CASE ~accepted
        <5>1. queue' = queue
          BY <2>2, <4>2 DEF Enqueue
        <5> QED BY <2>t, <3>3, <5>1
      <4> QED BY <4>1, <4>2
    <3>5. outcome' \in [Snapshots' -> {"queued", "dropped", "ok", "error"}]
      <4>1. PICK o \in Outcome : outcome' = Append(outcome, o)
        BY <2>2 DEF Enqueue, Outcome
      <4>2. outcome' \in Seq(Outcome) /\ Len(outcome') = n
        BY <4>1, WriterTypes, AppendProperties
      <4>3. outcome' \in [1 .. n -> Outcome]
        BY <4>2, LenProperties
      <4> QED BY <3>1, <4>3 DEF Snapshots, Outcome
    <3>6. \/ drain' \in [pc : {"receive", "done"}]
          \/ drain' \in [pc : {"read"}, snap : Snapshots']
      BY <2>2, <3>2 DEF Enqueue, TypeOK
    <3>7. /\ UNCHANGED <<cancelled, closed, linkUp, main, requests, stored, replies, errors>>
          /\ engine' \in {"idle", "tick", "stopped", "panicked"}
      BY <2>2 DEF Enqueue
    <3> QED BY <2>t, <3>1, <3>3, <3>4, <3>5, <3>6, <3>7, WriterTypes DEF TypeOK, Reply
  <2>3. CASE DrainReceive
    <3>1. /\ queue # <<>> /\ queue' = Tail(queue) /\ Query(Head(queue))
          /\ UNCHANGED <<procVars, closed, hasSim, linkUp, replies, stored, errors>>
      BY <2>3 DEF DrainReceive
    <3>2. Head(queue) \in Snapshots /\ queue' \in Seq(Snapshots) /\ Len(queue') <= queueCap
      BY <2>t, <3>1, WriterTypes, QueueRange
    <3>3. /\ outcome' \in [Snapshots' -> Outcome] /\ requests' \in Seq(Snapshots')
          /\ drain' \in [pc : {"receive", "done"}] \/ drain' \in [pc : {"read"}, snap : Snapshots']
      BY <3>1, <3>2, QueryTypes
    <3>4. Snapshots' = Snapshots
      BY <3>1 DEF Snapshots
    <3> QED BY <2>t, <3>1, <3>2, <3>3, <3>4, WriterTypes DEF TypeOK, Outcome, Reply
  <2>4. CASE DrainDone
    <3>1. /\ drain' = [pc |-> "done"]
          /\ UNCHANGED <<procVars, queue, closed, hasSim, outcome, linkVars>>
      BY <2>4 DEF DrainDone
    <3> QED BY <2>t, <3>1, WriterTypes DEF TypeOK, Snapshots
  <2>5. CASE ReadReply \/ ReadFails
    <3>1. drain.snap \in Snapshots /\ Snapshots' = Snapshots /\ hasSim' = hasSim
      BY <2>5, WriterTypes DEF ReadReply, ReadFails, Snapshots
    <3>2. UNCHANGED <<procVars, queue, closed, hasSim, linkUp, requests, stored>>
      BY <2>5 DEF ReadReply, ReadFails
    <3>3. \/ UNCHANGED <<outcome, drain>>
          \/ \E what \in {"ok", "error"} : Report(drain.snap, what)
      BY <2>5 DEF ReadReply, ReadFails
    <3>4. /\ outcome' \in [Snapshots' -> {"queued", "dropped", "ok", "error"}]
          /\ drain' \in [pc : {"receive", "done"}] \/ drain' \in [pc : {"read"}, snap : Snapshots']
      <4>1. CASE UNCHANGED <<outcome, drain>>
        BY <3>1, <4>1 DEF TypeOK
      <4>2. ASSUME NEW what \in {"ok", "error"}, Report(drain.snap, what)
            PROVE  /\ outcome' \in [Snapshots' -> {"queued", "dropped", "ok", "error"}]
                   /\ drain' \in [pc : {"receive", "done"}]
        BY <3>1, <4>2, ReportTypes DEF Outcome
      <4> QED BY <3>3, <4>1, <4>2
    <3>5. replies' \in Seq({"C", "E", "Z"}) /\ errors' \in Nat
      <4>1. CASE ReadFails
        BY <4>1, WriterTypes DEF ReadFails, Reply
      <4>2. CASE ReadReply
        <5>1. /\ replies # <<>> /\ replies' = Tail(replies)
              /\ errors' = errors + 1 \/ errors' = errors
          BY <4>2 DEF ReadReply
        <5> QED BY <5>1, WriterTypes, QueueRange DEF Reply
      <4> QED BY <2>5, <4>1, <4>2
    <3> QED BY <2>t, <3>1, <3>2, <3>4, <3>5, WriterTypes DEF TypeOK
  <2>6. CASE Reconnect \/ LinkBreaks
    <3>1. /\ UNCHANGED <<procVars, queue, closed, hasSim, outcome, drain, stored>>
          /\ requests' = <<>> /\ replies' = <<>> /\ (errors' = errors \/ errors' = 0)
      BY <2>6 DEF Reconnect, LinkBreaks
    <3>2. linkUp' \in BOOLEAN
      BY <2>6 DEF Reconnect, LinkBreaks
    <3>3. errors' \in Nat
      BY <3>1, WriterTypes
    <3>4. requests' \in Seq(Snapshots') /\ replies' \in Seq({"C", "E", "Z"})
      BY <3>1
    <3> QED BY <2>t, <3>1, <3>2, <3>3, <3>4, WriterTypes DEF TypeOK, Snapshots
  <2>7. CASE ServerRuns
    <3>1. /\ UNCHANGED <<procVars, queue, closed, hasSim, outcome, drain, linkUp, errors>>
          /\ requests # <<>> /\ requests' = Tail(requests)
          /\ stored' = stored \/ stored' = Append(stored, Head(requests))
          /\ \E a \in {"C", "E"} : replies' = replies \o <<a, "Z">>
      BY <2>7 DEF ServerRuns
    <3>2. Snapshots' = Snapshots
      BY <3>1 DEF Snapshots
    <3>3. requests' \in Seq(Snapshots') /\ stored' \in Seq(Snapshots')
      <4>1. Head(requests) \in Snapshots /\ Tail(requests) \in Seq(Snapshots)
        BY <3>1, WriterTypes, QueueRange
      <4>2. stored \in Seq(Snapshots) /\ Append(stored, Head(requests)) \in Seq(Snapshots)
        BY <4>1, WriterTypes, AppendProperties
      <4> QED BY <3>1, <3>2, <4>1, <4>2
    <3>4. replies' \in Seq(Reply)
      BY <3>1, WriterTypes, EndsConcat
    <3> QED BY <2>t, <3>1, <3>2, <3>3, <3>4, WriterTypes DEF TypeOK, Reply
  <2>8. CASE UNCHANGED vars
    BY <2>8 DEF vars, TypeOK, Snapshots
  <2> QED
    BY <2>1, <2>2, <2>3, <2>4, <2>5, <2>6, <2>7, <2>8 DEF Next, Over
<1> QED BY <1>1, <1>2, PTL DEF Spec

-------------------------------------------------------------------------------
(* The writer: the inductive invariant, in parts *)

Before(s, t) == \A x \in Range(s), y \in Range(t) : x < y

(* The rows, the statements under way and the queue are in order, each     *)
(* behind the one before; a connection that breaks takes the middle away.  *)
OrderInv ==
  /\ Rising(stored) /\ Rising(requests) /\ Rising(queue)
  /\ Before(stored, requests) /\ Before(stored, queue) /\ Before(requests, queue)

(* A snapshot without an outcome is in the queue or in the drain's hands,  *)
(* and the drain ends with an empty queue that nothing enters any more.    *)
QueuedInv ==
  /\ \A s \in Snapshots : outcome[s] = "queued" =>
       s \in Range(queue) \/ (drain.pc = "read" /\ drain.snap = s)
  /\ drain.pc = "done" => closed /\ queue = <<>>
  /\ main = "exit" => drain.pc = "done"

(* A connection without an error so far is in step: what the drain waits   *)
(* for is under way, or the answer to it, and nothing else.                *)
InStep ==
  LET s == drain.snap IN
  linkUp /\ errors = 0 =>
    IF drain.pc = "read"
    THEN \/ requests = <<s>> /\ replies = <<>>
         \/ requests = <<>> /\ s \in Range(stored) /\ replies \in {<<"C", "Z">>, <<"Z">>}
         \/ requests = <<>> /\ replies = <<"E", "Z">>
    ELSE requests = <<>> /\ replies = <<>>

LinkInv == ~linkUp => requests = <<>> /\ replies = <<>>

WriterInv == TypeOK /\ OrderInv /\ QueuedInv /\ InStep /\ LinkInv /\ DriftIsErrors

-------------------------------------------------------------------------------
(* The writer: each part of the invariant is preserved *)

flow == <<hasSim, queue, outcome, drain, linkVars>>

(* The engine between two ticks and main leave the snapshots alone. *)
LEMMA BesideFlow ==
  ASSUME TickStart \/ TickSkip \/ RunReturns \/ Signal \/ Close \/ Exit
  PROVE  UNCHANGED flow
BY DEF TickStart, TickSkip, RunReturns, Signal, Close, Exit, flow, linkVars

(* Numbers only grow, and none overtakes another. *)
LEMMA OrderStep == TypeOK /\ OrderInv /\ [Next]_vars => OrderInv'
<1> SUFFICES ASSUME TypeOK, OrderInv, [Next]_vars PROVE OrderInv'
  OBVIOUS
<1>t. /\ queue \in Seq(Nat) /\ requests \in Seq(Nat) /\ stored \in Seq(Nat)
      /\ Len(hasSim) \in Nat
      /\ \A x \in Range(queue) \cup Range(requests) \cup Range(stored) :
           x \in Nat /\ x <= Len(hasSim)
  BY WriterTypes, QueueRange DEF Snapshots
<1>e. Range(<<>>) = {} /\ Rising(<<>>)
  BY DEF Range, Rising
<1>1. ASSUME UNCHANGED <<queue, requests, stored>> PROVE OrderInv'
  BY <1>1 DEF OrderInv, Rising, Before
<1>2. ASSUME NEW sim \in BOOLEAN, Enqueue(sim) PROVE OrderInv'
  <2> DEFINE n == Len(hasSim) + 1
  <2>1. UNCHANGED <<requests, stored>> /\ (queue' = queue \/ queue' = Append(queue, n))
    BY <1>2 DEF Enqueue, linkVars
  <2>2. CASE queue' = Append(queue, n)
    <3>1. n \in Nat /\ \A x \in Range(queue) \cup Range(requests) \cup Range(stored) : x < n
      BY <1>t
    <3>2. Range(queue') = Range(queue) \cup {n}
      BY <1>t, <2>2, <3>1, QueueRange
    <3>3. Rising(queue')
      BY <1>t, <2>2, <3>1, RisingQueue DEF OrderInv
    <3> QED BY <2>1, <3>1, <3>2, <3>3 DEF OrderInv, Before, Rising
  <2> QED BY <1>1, <2>1, <2>2
<1>3. CASE DrainReceive
  <2>1. /\ queue # <<>> /\ queue' = Tail(queue) /\ stored' = stored
        /\ requests' = requests \/ requests' = Append(requests, Head(queue))
    BY <1>3 DEF DrainReceive, Query
  <2>2. /\ Head(queue) \in Nat /\ Range(queue) = {Head(queue)} \cup Range(queue')
        /\ Rising(queue') /\ \A x \in Range(queue') : Head(queue) < x
    BY <1>t, <2>1, QueueRange, RisingQueue DEF OrderInv
  <2>3. CASE requests' = requests
    BY <2>1, <2>2, <2>3 DEF OrderInv, Before, Rising
  <2>4. CASE requests' = Append(requests, Head(queue))
    <3>1. \A x \in Range(requests) \cup Range(stored) : x < Head(queue)
      BY <2>2 DEF OrderInv, Before
    <3>2. Rising(requests') /\ Range(requests') = Range(requests) \cup {Head(queue)}
      <4>1. requests \in Seq(Nat) /\ Rising(requests) /\ \A x \in Range(requests) : x < Head(queue)
        BY <1>t, <3>1 DEF OrderInv
      <4>2. Rising(requests')
        BY <2>2, <2>4, <4>1, RisingQueue
      <4> QED BY <2>2, <2>4, <4>1, <4>2, QueueRange
    <3> QED BY <2>1, <2>2, <3>1, <3>2 DEF OrderInv, Before, Rising
  <2> QED BY <2>1, <2>3, <2>4
<1>4. CASE ServerRuns
  <2>1. /\ requests # <<>> /\ requests' = Tail(requests) /\ queue' = queue
        /\ stored' = stored \/ stored' = Append(stored, Head(requests))
    BY <1>4 DEF ServerRuns
  <2>2. /\ Head(requests) \in Nat /\ Range(requests) = {Head(requests)} \cup Range(requests')
        /\ Rising(requests') /\ \A x \in Range(requests') : Head(requests) < x
    BY <1>t, <2>1, QueueRange, RisingQueue DEF OrderInv
  <2>3. CASE stored' = stored
    BY <2>1, <2>2, <2>3 DEF OrderInv, Before, Rising
  <2>4. CASE stored' = Append(stored, Head(requests))
    <3>1. \A x \in Range(stored) : x < Head(requests)
      BY <2>2 DEF OrderInv, Before
    <3>2. Rising(stored') /\ Range(stored') = Range(stored) \cup {Head(requests)}
      <4>1. stored \in Seq(Nat) /\ Rising(stored) /\ \A x \in Range(stored) : x < Head(requests)
        BY <1>t, <3>1 DEF OrderInv
      <4>2. Rising(stored')
        BY <2>2, <2>4, <4>1, RisingQueue
      <4> QED BY <2>2, <2>4, <4>1, <4>2, QueueRange
    <3> QED BY <2>1, <2>2, <3>1, <3>2 DEF OrderInv, Before, Rising
  <2> QED BY <2>1, <2>3, <2>4
<1>5. CASE Reconnect \/ LinkBreaks
  <2>1. requests' = <<>> /\ UNCHANGED <<queue, stored>>
    BY <1>5 DEF Reconnect, LinkBreaks
  <2>2. Range(requests') = {} /\ Rising(requests')
    BY <1>e, <2>1
  <2> QED BY <2>1, <2>2 DEF OrderInv, Before, Rising
<1>6. CASE DrainDone \/ ReadReply \/ ReadFails
  BY <1>1, <1>6 DEF DrainDone, ReadReply, ReadFails, linkVars
<1>7. CASE TickStart \/ TickSkip \/ RunReturns \/ Signal \/ Close \/ Exit
  BY <1>1, <1>7, BesideFlow DEF flow, linkVars
<1>8. CASE UNCHANGED vars
  BY <1>1, <1>8 DEF vars, linkVars
<1> QED BY <1>2, <1>3, <1>4, <1>5, <1>6, <1>7, <1>8 DEF Next, Over

(* No snapshot is left without an outcome by both the queue and the drain. *)
LEMMA QueuedStep == TypeOK /\ QueuedInv /\ [Next]_vars => QueuedInv'
<1> SUFFICES ASSUME TypeOK, QueuedInv, [Next]_vars PROVE QueuedInv'
  OBVIOUS
<1>t. /\ queue \in Seq(Snapshots) /\ Len(hasSim) \in Nat
      /\ outcome \in [Snapshots -> Outcome] /\ outcome \in Seq(Outcome)
      /\ Len(outcome) = Len(hasSim)
      /\ drain.pc = "read" => drain.snap \in Snapshots
  BY WriterTypes
<1>1. ASSUME NEW sim \in BOOLEAN, Enqueue(sim) PROVE QueuedInv'
  <2> DEFINE n == Len(hasSim) + 1
             accepted == ~closed /\ Len(queue) < queueCap
  <2>1. /\ queue' = IF accepted THEN Append(queue, n) ELSE queue
        /\ outcome' = Append(outcome, IF accepted THEN "queued" ELSE "dropped")
        /\ hasSim' = Append(hasSim, sim) /\ UNCHANGED <<closed, main, drain>>
    BY <1>1 DEF Enqueue
  <2>2. /\ \A s \in Snapshots : outcome'[s] = outcome[s]
        /\ outcome'[n] = IF accepted THEN "queued" ELSE "dropped"
    BY <1>t, <2>1, AppendProperties DEF Snapshots, Outcome
  <2>3. Snapshots' = Snapshots \cup {n}
    <3>1. Len(hasSim)' = n
      BY <2>1, WriterTypes, AppendProperties
    <3> QED BY <1>t, <3>1 DEF Snapshots
  <2>4. /\ Range(queue) \subseteq Range(queue') /\ (accepted => n \in Range(queue'))
    <3>1. queue \in Seq(Nat) /\ n \in Nat
      BY <1>t, WriterTypes
    <3>2. Range(Append(queue, n)) = Range(queue) \cup {n}
      BY <3>1, QueueRange
    <3> QED BY <2>1, <3>2
  <2>5. \A s \in Snapshots' : outcome'[s] = "queued" =>
          s \in Range(queue') \/ (drain'.pc = "read" /\ drain'.snap = s)
    BY <2>1, <2>2, <2>3, <2>4 DEF QueuedInv
  <2>6. closed => queue' = queue
    BY <2>1
  <2> QED BY <2>1, <2>5, <2>6 DEF QueuedInv
<1>2. CASE DrainReceive
  <2>1. /\ drain.pc = "receive" /\ queue # <<>> /\ queue' = Tail(queue) /\ Query(Head(queue))
        /\ UNCHANGED <<hasSim, main, closed>>
    BY <1>2 DEF DrainReceive, procVars
  <2>2. Head(queue) \in Snapshots /\ Range(queue) = {Head(queue)} \cup Range(queue')
    BY <1>t, <2>1, QueueRange
  <2>3. main # "exit"
    BY <2>1 DEF QueuedInv
  <2>4. CASE linkUp
    <3>1. outcome' = outcome /\ drain' = [pc |-> "read", snap |-> Head(queue)]
      BY <2>1, <2>4 DEF Query
    <3> QED BY <2>1, <2>2, <2>3, <3>1 DEF QueuedInv, Snapshots
  <2>5. CASE ~linkUp
    <3>1. Report(Head(queue), "error")
      BY <2>1, <2>5 DEF Query
    <3>2. /\ drain' = [pc |-> "receive"] /\ outcome'[Head(queue)] = "error"
          /\ \A s \in Snapshots : s # Head(queue) => outcome'[s] = outcome[s]
      BY <2>1, <2>2, <3>1, ReportTypes
    <3> QED BY <2>1, <2>2, <2>3, <3>2 DEF QueuedInv, Snapshots
  <2> QED BY <2>4, <2>5
<1>3. CASE DrainDone
  <2>1. /\ drain.pc = "receive" /\ queue = <<>> /\ closed /\ drain' = [pc |-> "done"]
        /\ UNCHANGED <<hasSim, outcome, main, closed, queue>>
    BY <1>3 DEF DrainDone, procVars
  <2> QED BY <2>1 DEF QueuedInv, Snapshots
<1>4. CASE ReadReply \/ ReadFails
  <2>1. /\ drain.pc = "read" /\ UNCHANGED <<main, queue, closed, hasSim>>
        /\ \/ UNCHANGED <<outcome, drain>>
           \/ \E what \in {"ok", "error"} : Report(drain.snap, what)
    BY <1>4 DEF ReadReply, ReadFails, procVars
  <2>2. CASE UNCHANGED <<outcome, drain>>
    BY <2>1, <2>2 DEF QueuedInv, Snapshots
  <2>3. ASSUME NEW what \in {"ok", "error"}, Report(drain.snap, what) PROVE QueuedInv'
    <3>1. /\ drain' = [pc |-> "receive"] /\ outcome'[drain.snap] # "queued"
          /\ \A s \in Snapshots : s # drain.snap => outcome'[s] = outcome[s]
      BY <1>t, <2>1, <2>3, ReportTypes
    <3> QED BY <2>1, <3>1 DEF QueuedInv, Snapshots
  <2> QED BY <2>1, <2>2, <2>3
<1>5. CASE Reconnect \/ LinkBreaks \/ ServerRuns
  <2>1. UNCHANGED <<queue, closed, main, hasSim, outcome, drain>>
    BY <1>5 DEF Reconnect, LinkBreaks, ServerRuns, procVars
  <2> QED BY <2>1 DEF QueuedInv, Snapshots
<1>6. CASE TickStart \/ TickSkip \/ RunReturns \/ Signal \/ Close \/ Exit
  <2>1. /\ UNCHANGED <<queue, hasSim, outcome, drain>>
        /\ closed => closed'
        /\ main' = "exit" => main = "exit" \/ drain.pc = "done"
    BY <1>6 DEF TickStart, TickSkip, RunReturns, Signal, Close, Exit
  <2> QED BY <2>1 DEF QueuedInv, Snapshots
<1>7. CASE UNCHANGED vars
  BY <1>7 DEF vars, procVars, QueuedInv, Snapshots
<1> QED BY <1>1, <1>2, <1>3, <1>4, <1>5, <1>6, <1>7 DEF Next, Over

(* A connection stays in step until its first error. *)
LEMMA InStepStep == TypeOK /\ InStep /\ LinkInv /\ [Next]_vars => InStep' /\ LinkInv'
<1> SUFFICES ASSUME TypeOK, InStep, LinkInv, [Next]_vars PROVE InStep' /\ LinkInv'
  OBVIOUS
<1>t. /\ queue \in Seq(Nat) /\ requests \in Seq(Nat) /\ stored \in Seq(Nat)
      /\ replies \in Seq(Reply) /\ errors \in Nat
  BY WriterTypes
<1>1. ASSUME UNCHANGED <<linkVars, drain>> PROVE InStep' /\ LinkInv'
  BY <1>1 DEF InStep, LinkInv, linkVars
<1>2. CASE DrainReceive
  <2>1. /\ drain.pc = "receive" /\ queue # <<>> /\ Query(Head(queue))
        /\ UNCHANGED <<linkUp, replies, stored, errors>>
    BY <1>2 DEF DrainReceive
  <2>2. CASE linkUp
    <3>1. requests' = Append(requests, Head(queue)) /\ drain' = [pc |-> "read", snap |-> Head(queue)]
      BY <2>1, <2>2 DEF Query
    <3>2. errors = 0 => requests' = <<Head(queue)>> /\ replies' = <<>>
      BY <2>1, <2>2, <3>1 DEF InStep
    <3> QED BY <2>1, <2>2, <3>1, <3>2 DEF InStep, LinkInv
  <2>3. CASE ~linkUp
    <3>1. requests' = requests
      BY <2>1, <2>3 DEF Query
    <3> QED BY <2>1, <2>3, <3>1 DEF InStep, LinkInv
  <2> QED BY <2>2, <2>3
<1>3. CASE DrainDone
  BY <1>3 DEF DrainDone, InStep, LinkInv, linkVars
<1>4. CASE ReadReply
  <2>1. /\ drain.pc = "read" /\ replies # <<>> /\ replies' = Tail(replies)
        /\ UNCHANGED <<linkUp, requests, stored>>
    BY <1>4 DEF ReadReply
  <2>2. linkUp
    BY <2>1 DEF LinkInv
  <2>3. ASSUME errors' = 0
        PROVE  IF drain'.pc = "read"
               THEN \/ requests' = <<drain'.snap>> /\ replies' = <<>>
                    \/ /\ requests' = <<>> /\ drain'.snap \in Range(stored')
                       /\ replies' \in {<<"C", "Z">>, <<"Z">>}
                    \/ requests' = <<>> /\ replies' = <<"E", "Z">>
               ELSE requests' = <<>> /\ replies' = <<>>
    <3>1. Head(replies) # "E" /\ errors = 0
      BY <1>t, <1>4, <2>3 DEF ReadReply
    <3>2. requests = <<>> /\ drain.snap \in Range(stored) /\ replies \in {<<"C", "Z">>, <<"Z">>}
      BY <2>1, <2>2, <3>1 DEF InStep
    <3>3. CASE replies = <<"C", "Z">>
      <4>1. Head(replies) = "C" /\ replies' = <<"Z">>
        BY <2>1, <3>3
      <4>2. drain' = drain
        BY <1>4, <4>1 DEF ReadReply
      <4> QED BY <2>1, <3>2, <4>1, <4>2
    <3>4. CASE replies = <<"Z">>
      <4>1. Head(replies) = "Z" /\ replies' = <<>>
        BY <2>1, <3>4
      <4>2. drain' = [pc |-> "receive"]
        BY <1>4, <4>1 DEF ReadReply, Report
      <4> QED BY <2>1, <3>2, <4>1, <4>2
    <3> QED BY <3>2, <3>3, <3>4
  <2> QED BY <2>1, <2>2, <2>3 DEF InStep, LinkInv
<1>5. CASE ReadFails
  BY <1>5 DEF ReadFails, Report, InStep, LinkInv, linkVars
<1>6. CASE Reconnect \/ LinkBreaks
  BY <1>6 DEF Reconnect, LinkBreaks, InStep, LinkInv
<1>7. CASE ServerRuns
  <2>1. /\ linkUp /\ requests # <<>> /\ requests' = Tail(requests)
        /\ UNCHANGED <<drain, linkUp, errors>>
    BY <1>7 DEF ServerRuns
  <2>2. ASSUME errors = 0
        PROVE  /\ drain.pc = "read" /\ requests' = <<>>
               /\ \/ drain.snap \in Range(stored') /\ replies' = <<"C", "Z">>
                  \/ replies' = <<"E", "Z">>
    <3>1. drain.pc = "read" /\ requests = <<drain.snap>> /\ replies = <<>>
      BY <2>1, <2>2 DEF InStep
    <3>2. requests' = <<>> /\ Head(requests) = drain.snap
      BY <2>1, <3>1
    <3>3. CASE hasSim[Head(requests)]
      <4>1. stored' = Append(stored, Head(requests)) /\ replies' = replies \o <<"C", "Z">>
        BY <1>7, <3>3 DEF ServerRuns
      <4>2. Head(requests) \in Nat
        BY <1>t, <2>1, QueueRange
      <4>3. Head(requests) \in Range(stored')
        BY <1>t, <4>1, <4>2, QueueRange
      <4>4. replies' = <<"C", "Z">>
        BY <3>1, <4>1
      <4> QED BY <3>1, <3>2, <4>3, <4>4
    <3>4. CASE ~hasSim[Head(requests)]
      <4>1. replies' = replies \o <<"E", "Z">>
        BY <1>7, <3>4 DEF ServerRuns
      <4>2. replies' = <<"E", "Z">>
        BY <3>1, <4>1
      <4> QED BY <3>1, <3>2, <4>2
    <3> QED BY <3>3, <3>4
  <2> QED BY <2>1, <2>2 DEF InStep, LinkInv
<1>8. ASSUME NEW sim \in BOOLEAN, Enqueue(sim) PROVE InStep' /\ LinkInv'
  BY <1>1, <1>8 DEF Enqueue
<1>9. CASE TickStart \/ TickSkip \/ RunReturns \/ Signal \/ Close \/ Exit
  BY <1>1, <1>9, BesideFlow DEF flow
<1>10. CASE UNCHANGED vars
  BY <1>1, <1>10 DEF vars
<1> QED
  BY <1>2, <1>3, <1>4, <1>5, <1>6, <1>7, <1>8, <1>9, <1>10 DEF Next, Over

(* Every statement brings one end of a response, and only an error lets    *)
(* the driver go without it.                                               *)
LEMMA DriftStep == TypeOK /\ LinkInv /\ DriftIsErrors /\ [Next]_vars => DriftIsErrors'
<1> SUFFICES ASSUME TypeOK, LinkInv, DriftIsErrors, [Next]_vars PROVE DriftIsErrors'
  OBVIOUS
<1> DEFINE ends == Cardinality(Ends(replies))
           reading == IF drain.pc = "read" THEN 1 ELSE 0
<1>t. /\ queue \in Seq(Nat) /\ requests \in Seq(Nat) /\ replies \in Seq(Reply)
      /\ errors \in Nat /\ Len(requests) \in Nat /\ ends \in Nat
      /\ linkUp => Len(requests) + ends = errors + reading
  <2>1. queue \in Seq(Nat) /\ requests \in Seq(Nat) /\ replies \in Seq(Reply) /\ errors \in Nat
    BY WriterTypes
  <2>2. Len(requests) \in Nat /\ ends \in Nat
    BY <2>1, QueueRange, EndsFinite
  <2> QED BY <2>1, <2>2 DEF DriftIsErrors, Owed, Ends
<1>g. (linkUp' => Len(requests)' + ends' = errors' + reading') => DriftIsErrors'
  BY DEF DriftIsErrors, Owed, Ends
<1>1. ASSUME UNCHANGED <<linkVars, drain>> PROVE DriftIsErrors'
  BY <1>1 DEF DriftIsErrors, Owed, linkVars
<1>2. CASE DrainReceive
  <2>1. /\ drain.pc = "receive" /\ queue # <<>> /\ Query(Head(queue))
        /\ UNCHANGED <<linkUp, replies, errors>>
    BY <1>2 DEF DrainReceive
  <2>2. CASE linkUp
    <3>1. requests' = Append(requests, Head(queue)) /\ drain' = [pc |-> "read", snap |-> Head(queue)]
      BY <2>1, <2>2 DEF Query
    <3>2. Head(queue) \in Nat
      BY <1>t, <2>1, QueueRange
    <3>3. Len(requests)' = Len(requests) + 1
      BY <1>t, <3>1, <3>2, QueueRange
    <3>4. ends' = ends /\ reading = 0 /\ reading' = 1
      BY <2>1, <3>1
    <3> HIDE DEF ends, reading
    <3>5. Len(requests)' + ends' = errors' + reading'
      BY <1>t, <2>1, <2>2, <3>3, <3>4
    <3> QED BY <1>g, <3>5
  <2>3. CASE ~linkUp
    BY <1>g, <2>1, <2>3
  <2> QED BY <2>2, <2>3
<1>3. CASE DrainDone
  <2>1. UNCHANGED linkVars /\ drain.pc = "receive" /\ drain'.pc = "done"
    BY <1>3 DEF DrainDone
  <2> QED BY <2>1 DEF DriftIsErrors, Owed, linkVars
<1>4. CASE ReadReply
  <2>1. /\ drain.pc = "read" /\ replies # <<>> /\ replies' = Tail(replies)
        /\ UNCHANGED <<linkUp, requests>>
    BY <1>4 DEF ReadReply
  <2>2. ends = ends' + (IF Head(replies) = "Z" THEN 1 ELSE 0) /\ ends' \in Nat
    <3>1. Tail(replies) \in Seq(Reply)
      BY <1>t, <2>1, QueueRange
    <3> QED BY <1>t, <2>1, <3>1, EndsTail, EndsFinite
  <2>3. \/ Head(replies) = "E" /\ errors' = errors + 1 /\ reading' = 0
        \/ Head(replies) = "Z" /\ errors' = errors /\ reading' = 0
        \/ Head(replies) = "C" /\ errors' = errors /\ reading' = 1
    <3>1. Head(replies) \in Reply
      BY <1>t, <2>1, QueueRange
    <3>2. CASE Head(replies) = "E"
      BY <1>4, <3>2 DEF ReadReply, Report
    <3>3. CASE Head(replies) = "Z"
      BY <1>4, <3>3 DEF ReadReply, Report
    <3>4. CASE Head(replies) = "C"
      BY <1>4, <2>1, <3>4 DEF ReadReply
    <3> QED BY <3>1, <3>2, <3>3, <3>4 DEF Reply
  <2>4. reading = 1 /\ Len(requests)' = Len(requests)
    BY <2>1
  <2> HIDE DEF ends, reading
  <2>5. linkUp => Len(requests)' + ends' = errors' + reading'
    <3>1. CASE Head(replies) = "E"
      BY <1>t, <2>2, <2>3, <2>4, <3>1
    <3>2. CASE Head(replies) # "E"
      BY <1>t, <2>2, <2>3, <2>4, <3>2
    <3> QED BY <3>1, <3>2
  <2> QED BY <1>g, <2>1, <2>5
<1>5. CASE ReadFails
  BY <1>g, <1>5 DEF ReadFails, linkVars
<1>6. CASE LinkBreaks
  BY <1>g, <1>6 DEF LinkBreaks
<1>7. CASE Reconnect
  <2>1. requests' = <<>> /\ replies' = <<>> /\ errors' = 0 /\ reading' = 0
    BY <1>7 DEF Reconnect
  <2>2. Ends(replies)' = {}
    BY <2>1 DEF Ends
  <2>3. ends' = 0 /\ Len(requests)' = 0
    BY <2>1, <2>2, FS_EmptySet
  <2> HIDE DEF ends, reading
  <2> QED BY <1>g, <2>1, <2>3
<1>8. CASE ServerRuns
  <2>1. /\ linkUp /\ requests # <<>> /\ requests' = Tail(requests)
        /\ UNCHANGED <<drain, linkUp, errors>>
        /\ \E a \in {"C", "E"} : replies' = replies \o <<a, "Z">>
    BY <1>8 DEF ServerRuns
  <2>2. Len(requests)' = Len(requests) - 1
    BY <1>t, <2>1, QueueRange
  <2>3. ends' = ends + 1
    BY <1>t, <2>1, EndsConcat
  <2>4. reading' = reading /\ reading \in Nat
    BY <2>1
  <2> HIDE DEF ends, reading
  <2>5. Len(requests)' + ends' = errors' + reading'
    BY <1>t, <2>1, <2>2, <2>3, <2>4
  <2> QED BY <1>g, <2>5
<1>9. ASSUME NEW sim \in BOOLEAN, Enqueue(sim) PROVE DriftIsErrors'
  BY <1>1, <1>9 DEF Enqueue
<1>10. CASE TickStart \/ TickSkip \/ RunReturns \/ Signal \/ Close \/ Exit
  BY <1>1, <1>10, BesideFlow DEF flow
<1>11. CASE UNCHANGED vars
  BY <1>1, <1>11 DEF vars
<1> QED
  BY <1>2, <1>3, <1>4, <1>5, <1>6, <1>7, <1>8, <1>9, <1>10, <1>11 DEF Next, Over

-------------------------------------------------------------------------------
(* The writer: the inductive invariant and what follows from it *)

LEMMA InitWriterInv == Init => OrderInv /\ QueuedInv /\ InStep /\ LinkInv /\ DriftIsErrors
<1> SUFFICES ASSUME Init PROVE OrderInv /\ QueuedInv /\ InStep /\ LinkInv /\ DriftIsErrors
  OBVIOUS
<1>1. Range(<<>>) = {} /\ Rising(<<>>)
  BY DEF Range, Rising
<1>2. OrderInv
  BY <1>1 DEF Init, OrderInv, Before
<1>3. QueuedInv
  <2>1. Snapshots = {}
    BY DEF Init, Snapshots
  <2> QED BY <2>1 DEF Init, QueuedInv
<1>4. InStep /\ LinkInv
  BY DEF Init, InStep, LinkInv
<1>5. DriftIsErrors
  <2>1. {k \in DOMAIN replies : replies[k] = "Z"} = {} /\ Len(requests) = 0
    BY DEF Init
  <2>2. Owed = 0
    BY <2>1, FS_EmptySet DEF Owed
  <2> QED BY <2>2 DEF Init, DriftIsErrors
<1> QED BY <1>2, <1>3, <1>4, <1>5

LEMMA Inductive == Spec => []WriterInv
<1>1. WriterInv /\ TypeOK' /\ [Next]_vars => WriterInv'
  BY OrderStep, QueuedStep, InStepStep, DriftStep DEF WriterInv
<1>2. Init /\ TypeOK => WriterInv
  BY InitWriterInv DEF WriterInv
<1> QED BY <1>1, <1>2, TypeCorrect, PTL DEF Spec

(* The driver of writer.go:298-330 leaves the end of a response unread for *)
(* each error it returns, so that every later statement is answered by the *)
(* end of an earlier one: the distance is the number of the errors, and it *)
(* never shrinks while the connection lives.                               *)
THEOREM DriftCountsErrors == Spec => []DriftIsErrors
<1>1. WriterInv => DriftIsErrors
  BY DEF WriterInv
<1> QED BY <1>1, Inductive, PTL

(* Rows enter engine_snapshots in the order of the ticks and none twice,   *)
(* through full queues, refused rows, lost connections and drift; and      *)
(* main's Close (writer.go:103) returns only when every snapshot that was  *)
(* accepted has been tried.                                                *)
THEOREM WriterKeepsOrder == Spec => []WriterSound
<1>1. WriterInv => StoredInOrder
  <2> SUFFICES ASSUME WriterInv PROVE StoredInOrder
    OBVIOUS
  <2>1. DOMAIN stored = 1 .. Len(stored)
    BY WriterTypes, QueueRange DEF WriterInv
  <2> QED BY <2>1 DEF WriterInv, OrderInv, Rising, StoredInOrder
<1>2. WriterInv => CloseDrains
  <2> SUFFICES ASSUME WriterInv, main = "exit", NEW s \in Snapshots, outcome[s] = "queued"
               PROVE  FALSE
    BY DEF CloseDrains
  <2>1. drain.pc = "done" /\ queue = <<>>
    BY DEF WriterInv, QueuedInv
  <2>2. Range(queue) = {}
    BY <2>1 DEF Range
  <2> QED BY <2>1, <2>2 DEF WriterInv, QueuedInv
<1> QED BY <1>1, <1>2, Inductive, PTL DEF WriterSound

(* A connection that has returned no error tells the truth: the write that *)
(* it reports as done has stored its row.                                  *)
THEOREM OkIsStored == Spec => OkMeansStored
<1>1. WriterInv /\ [Next]_vars =>
        [\A s \in Snapshots :
           outcome[s] = "queued" /\ outcome'[s] = "ok" /\ errors = 0 =>
             \E n \in 1 .. Len(stored) : stored[n] = s]_vars
  <2> SUFFICES ASSUME WriterInv, Next, NEW s \in Snapshots,
                      outcome[s] = "queued", outcome'[s] = "ok", errors = 0
               PROVE  \E n \in 1 .. Len(stored) : stored[n] = s
    OBVIOUS
  <2>t. TypeOK
    BY DEF WriterInv
  <2>1. outcome' # outcome
    OBVIOUS
  <2>2. ASSUME NEW sim \in BOOLEAN, Enqueue(sim) PROVE FALSE
    <3>1. PICK o \in Outcome : outcome' = Append(outcome, o)
      BY <2>2 DEF Enqueue, Outcome
    <3>2. outcome'[s] = outcome[s]
      BY <2>t, <3>1, WriterTypes, AppendProperties DEF Snapshots
    <3> QED BY <3>2
  <2>3. CASE DrainReceive
    <3>1. /\ queue # <<>> /\ Query(Head(queue)) /\ hasSim' = hasSim
      BY <2>3 DEF DrainReceive
    <3>2. Report(Head(queue), "error")
      BY <2>1, <3>1 DEF Query
    <3>3. Head(queue) \in Snapshots
      BY <2>t, <3>1, WriterTypes, QueueRange
    <3>4. outcome'[s] = outcome[s] \/ outcome'[s] = "error"
      BY <2>t, <3>1, <3>2, <3>3, ReportTypes
    <3> QED BY <3>4
  <2>4. CASE ReadFails
    <3>1. drain.snap \in Snapshots /\ hasSim' = hasSim /\ Report(drain.snap, "error")
      BY <2>t, <2>4, WriterTypes DEF ReadFails
    <3>2. outcome'[s] = outcome[s] \/ outcome'[s] = "error"
      BY <2>t, <3>1, ReportTypes
    <3> QED BY <3>2
  <2>5. CASE ReadReply
    <3>1. /\ drain.pc = "read" /\ replies # <<>> /\ drain.snap \in Snapshots /\ hasSim' = hasSim
      BY <2>t, <2>5, WriterTypes DEF ReadReply
    <3>2. CASE Head(replies) = "E"
      <4>1. errors' = errors + 1 /\ Report(drain.snap, "error")
        BY <2>5, <3>2 DEF ReadReply
      <4>2. outcome'[s] = outcome[s] \/ outcome'[s] = "error"
        BY <2>t, <3>1, <4>1, ReportTypes
      <4> QED BY <4>2
    <3>3. CASE Head(replies) = "Z"
      <4>1. Report(drain.snap, "ok")
        BY <2>5, <3>3 DEF ReadReply
      <4>2. s = drain.snap
        BY <2>t, <3>1, <4>1, ReportTypes
      <4>3. linkUp
        BY <3>1 DEF WriterInv, LinkInv
      <4>4. Head(replies) # "E" => s \in Range(stored)
        BY <3>1, <4>2, <4>3 DEF WriterInv, InStep
      <4>5. DOMAIN stored = 1 .. Len(stored)
        BY <2>t, WriterTypes, QueueRange
      <4> QED BY <3>3, <4>4, <4>5 DEF Range
    <3>4. CASE Head(replies) \notin {"E", "Z"}
      BY <2>1, <2>5, <3>4 DEF ReadReply
    <3> QED BY <3>2, <3>3, <3>4
  <2>6. CASE DrainDone \/ Reconnect \/ LinkBreaks \/ ServerRuns \/ Over
    BY <2>1, <2>6 DEF DrainDone, Reconnect, LinkBreaks, ServerRuns, Over, vars
  <2>7. CASE TickStart \/ TickSkip \/ RunReturns \/ Signal \/ Close \/ Exit
    BY <2>1, <2>7, BesideFlow DEF flow
  <2> QED BY <2>2, <2>3, <2>4, <2>5, <2>6, <2>7 DEF Next
<1> QED BY <1>1, Inductive, PTL DEF Spec, OkMeansStored

-------------------------------------------------------------------------------
(* The hub: type correctness *)

(* The actions of the hub, one by one. *)
LEMMA HubActions ==
  ASSUME Hub!Next
  PROVE  \/ \E b \in Broadcasters :
              \/ Hub!Stamp(b) \/ Hub!StorePayload(b) \/ Hub!StoreJSON(b) \/ Hub!ListClients(b)
              \/ \E c \in Clients : Hub!PickClient(b, c) \/ Hub!Offer(b, c)
         \/ \E c \in Clients :
              \/ Hub!ReadCount(c) \/ Hub!ReadLast(c) \/ Hub!Register(c) \/ Hub!Bootstrap(c)
              \/ Hub!PumpCheck(c) \/ Hub!PumpTake(c) \/ Hub!PumpWrite(c) \/ Hub!PumpDone(c)
              \/ Hub!PumpFails(c) \/ Hub!ReadFails(c) \/ Hub!ConnCloses(c)
              \/ \E t \in Hub!Threads : Hub!RemoveUnderLock(c, t)
BY DEF Hub!Next, Hub!Broadcast, Hub!HandleUpgrade, Hub!Pumps

(* Where a broadcast stands, and what it carries there. *)
LEMMA CastTypes ==
  ASSUME NEW x \in Hub!CastStates
  PROVE  /\ x.pc \in {"idle", "payload", "json", "list", "fanout"}
         /\ x.pc # "idle" => x.seq \in 1 .. MaxSeq
         /\ x.pc \in {"payload", "json", "list"} =>
              \A q \in {"payload", "json", "list"} : [x EXCEPT !.pc = q] = [pc |-> q, seq |-> x.seq]
         /\ x.pc = "fanout" => x.todo \in SUBSET Clients /\ x.to \in Clients \cup {Hub!NoOne}
BY DEF Hub!CastStates

(* A fan-out goes on until nobody is left. *)
LEMMA FanOutTypes ==
  ASSUME cast \in [Broadcasters -> Hub!CastStates], NEW b \in Broadcasters,
         NEW q \in 1 .. MaxSeq, NEW todo \in SUBSET Clients, NEW to \in Clients \cup {Hub!NoOne},
         Hub!FanOut(b, q, todo, to)
  PROVE  /\ cast' \in [Broadcasters -> Hub!CastStates]
         /\ cast'[b] = IF todo = {} /\ to = Hub!NoOne THEN [pc |-> "idle"]
                       ELSE [pc |-> "fanout", seq |-> q, todo |-> todo, to |-> to]
         /\ \A e \in Broadcasters : e # b => cast'[e] = cast[e]
<1>1. cast'[b] = IF todo = {} /\ to = Hub!NoOne THEN [pc |-> "idle"]
                 ELSE [pc |-> "fanout", seq |-> q, todo |-> todo, to |-> to]
  BY DEF Hub!FanOut
<1>2. cast'[b] \in Hub!CastStates
  BY <1>1 DEF Hub!CastStates
<1>3. cast' = [cast EXCEPT ![b] = cast'[b]]
  BY <1>1 DEF Hub!FanOut
<1> QED BY <1>1, <1>2, <1>3

(* What TypeOK says of the broadcasts. *)
HubTypes ==
  /\ {seqNo, lastPayload, lastJSON} \subseteq 0 .. MaxSeq
  /\ cast \in [Broadcasters -> Hub!CastStates]

(* and of the channels and the goroutines that read them *)
ChannelTypes ==
  /\ send \in [Clients -> Seq(Hub!Messages)]
  /\ \A c \in Clients : Len(send[c]) <= sendBufferSize
  /\ inHand \in [Clients -> Seq(Hub!Messages)]
  /\ got \in [Clients -> Seq(Hub!Messages)]

(* and of the registration, the removal and the pumps *)
ClientTypes ==
  /\ clients \subseteq Clients
  /\ upgrade \in [Clients -> Hub!UpgradeStates]
  /\ gone \in [Clients -> BOOLEAN]
  /\ done \in [Clients -> Nat]
  /\ removing \subseteq Clients \X Hub!Threads
  /\ pump \in [Clients -> {"off", "check", "wait", "write", "exit"}]
  /\ reader \in [Clients -> {"off", "on", "exit"}]
  /\ connUp \in [Clients -> BOOLEAN]

LEMMA HubTypesAre == Hub!TypeOK <=> HubTypes /\ ChannelTypes /\ ClientTypes
BY DEF Hub!TypeOK, HubTypes, ChannelTypes, ClientTypes

(* A broadcast that goes on keeps the types of the broadcasts. *)
LEMMA HubTypesStep ==
  ASSUME Hub!HubConstants, Hub!TypeOK, [Hub!Next]_(Hub!vars)
  PROVE  HubTypes'
<1> USE DEF HubTypes, Hub!hubVars
<1>k. MaxSeq \in Nat
  BY DEF Hub!HubConstants
<1>t. HubTypes /\ clients \in SUBSET Clients
  BY HubTypesAre DEF ClientTypes
<1>0. ASSUME UNCHANGED Hub!hubVars PROVE HubTypes'
  BY <1>t, <1>0
<1>1. ASSUME NEW b \in Broadcasters,
             Hub!Stamp(b) \/ Hub!StorePayload(b) \/ Hub!StoreJSON(b) \/ Hub!ListClients(b)
      PROVE  HubTypes'
  <2>0. cast[b] \in Hub!CastStates
    BY <1>t
  <2>1. CASE Hub!Stamp(b)
    <3>1. seqNo + 1 \in 1 .. MaxSeq /\ seqNo' = seqNo + 1
      BY <1>k, <1>t, <2>1 DEF Hub!Stamp
    <3>2. [pc |-> "payload", seq |-> seqNo + 1] \in Hub!CastStates
      BY <3>1 DEF Hub!CastStates
    <3> QED BY <1>k, <1>t, <2>1, <3>1, <3>2 DEF Hub!Stamp
  <2>2. CASE Hub!StorePayload(b)
    <3>1. cast[b].seq \in 1 .. MaxSeq
          /\ [cast[b] EXCEPT !.pc = "json"] = [pc |-> "json", seq |-> cast[b].seq]
      BY <2>0, <2>2, CastTypes DEF Hub!StorePayload
    <3>2. [cast[b] EXCEPT !.pc = "json"] \in Hub!CastStates
      BY <3>1 DEF Hub!CastStates
    <3> QED BY <1>k, <1>t, <2>2, <3>1, <3>2 DEF Hub!StorePayload
  <2>3. CASE Hub!StoreJSON(b)
    <3>1. cast[b].seq \in 1 .. MaxSeq
          /\ [cast[b] EXCEPT !.pc = "list"] = [pc |-> "list", seq |-> cast[b].seq]
      BY <2>0, <2>3, CastTypes DEF Hub!StoreJSON
    <3>2. [cast[b] EXCEPT !.pc = "list"] \in Hub!CastStates
      BY <3>1 DEF Hub!CastStates
    <3> QED BY <1>k, <1>t, <2>3, <3>1, <3>2 DEF Hub!StoreJSON
  <2>4. CASE Hub!ListClients(b)
    <3>1. cast[b].seq \in 1 .. MaxSeq
      BY <2>0, <2>4, CastTypes DEF Hub!ListClients
    <3>2. cast' \in [Broadcasters -> Hub!CastStates]
      BY <1>t, <2>4, <3>1, FanOutTypes DEF Hub!ListClients
    <3> QED BY <1>t, <2>4, <3>2 DEF Hub!ListClients
  <2> QED BY <1>1, <2>1, <2>2, <2>3, <2>4
<1>2. ASSUME NEW b \in Broadcasters, NEW c \in Clients, Hub!PickClient(b, c) \/ Hub!Offer(b, c)
      PROVE  HubTypes'
  <2>1. cast[b] \in Hub!CastStates
    BY <1>t
  <2>2. cast[b].pc = "fanout"
    BY <1>2 DEF Hub!PickClient, Hub!Offer, Hub!Target
  <2>3. cast[b].seq \in 1 .. MaxSeq /\ cast[b].todo \in SUBSET Clients
    BY <2>1, <2>2, CastTypes
  <2>4. PICK todo \in SUBSET Clients, to \in Clients \cup {Hub!NoOne} :
          Hub!FanOut(b, cast[b].seq, todo, to)
    BY <1>2, <2>3 DEF Hub!PickClient, Hub!Offer
  <2>5. cast' \in [Broadcasters -> Hub!CastStates]
    BY <1>t, <2>3, <2>4, FanOutTypes
  <2> QED BY <1>t, <1>2, <2>5 DEF Hub!PickClient, Hub!Offer
<1>3. ASSUME NEW c \in Clients,
             \/ Hub!ReadCount(c) \/ Hub!ReadLast(c) \/ Hub!Register(c) \/ Hub!Bootstrap(c)
             \/ Hub!PumpCheck(c) \/ Hub!PumpTake(c) \/ Hub!PumpWrite(c) \/ Hub!PumpDone(c)
             \/ Hub!PumpFails(c) \/ Hub!ReadFails(c) \/ Hub!ConnCloses(c)
             \/ \E t \in Hub!Threads : Hub!RemoveUnderLock(c, t)
      PROVE  HubTypes'
  <2>1. UNCHANGED Hub!hubVars
    BY <1>3 DEF Hub!ReadCount, Hub!ReadLast, Hub!Register, Hub!Bootstrap, Hub!PumpCheck,
      Hub!PumpTake, Hub!PumpWrite, Hub!PumpDone, Hub!PumpFails, Hub!ReadFails,
      Hub!ConnCloses, Hub!RemoveUnderLock
  <2> QED BY <1>0, <2>1
<1>4. CASE UNCHANGED Hub!vars
  BY <1>0, <1>4 DEF Hub!vars
<1> QED BY <1>1, <1>2, <1>3, <1>4, HubActions

(* A channel takes what a broadcast or a bootstrap gives it. *)
LEMMA MessageTypes ==
  ASSUME Hub!HubConstants
  PROVE  /\ \A q \in 0 .. MaxSeq, k \in BOOLEAN : [seq |-> q, boot |-> k] \in Hub!Messages
         /\ 1 .. MaxSeq \subseteq 0 .. MaxSeq /\ sendBufferSize \in Nat
BY DEF Hub!HubConstants, Hub!Messages

(* What a handler has read. *)
LEMMA UpgradeTypes ==
  ASSUME NEW x \in Hub!UpgradeStates
  PROVE  /\ x.pc \in {"admitted", "registered"} => x.last \in 0 .. MaxSeq
         /\ x.pc \in {"admitted", "registered"} =>
              [x EXCEPT !.pc = "registered"] = [pc |-> "registered", last |-> x.last]
         /\ x.pc \in {"new", "counted", "refused", "admitted", "registered", "open"}
BY DEF Hub!UpgradeStates

(* The actions that leave the channels and what is written alone. *)
LEMMA ChannelsRest ==
  ASSUME [Hub!Next]_(Hub!vars)
  PROVE  \/ UNCHANGED <<send, inHand, got>>
         \/ \E b \in Broadcasters, c \in Clients : Hub!Offer(b, c)
         \/ \E c \in Clients :
              \/ Hub!Bootstrap(c) \/ Hub!PumpTake(c) \/ Hub!PumpWrite(c) \/ Hub!PumpFails(c)
              \/ \E t \in Hub!Threads : Hub!RemoveUnderLock(c, t)
<1>1. ASSUME NEW b \in Broadcasters,
             \/ Hub!Stamp(b) \/ Hub!StorePayload(b) \/ Hub!StoreJSON(b) \/ Hub!ListClients(b)
             \/ \E c \in Clients : Hub!PickClient(b, c)
      PROVE  UNCHANGED <<send, inHand, got>>
  BY <1>1 DEF Hub!Stamp, Hub!StorePayload, Hub!StoreJSON, Hub!ListClients, Hub!PickClient,
    Hub!connVars
<1>2. ASSUME NEW c \in Clients,
             \/ Hub!ReadCount(c) \/ Hub!ReadLast(c) \/ Hub!Register(c) \/ Hub!PumpCheck(c)
             \/ Hub!PumpDone(c) \/ Hub!ReadFails(c) \/ Hub!ConnCloses(c)
      PROVE  UNCHANGED <<send, inHand, got>>
  BY <1>2 DEF Hub!ReadCount, Hub!ReadLast, Hub!Register, Hub!PumpCheck, Hub!PumpDone,
    Hub!ReadFails, Hub!ConnCloses, Hub!connVars
<1>3. CASE UNCHANGED Hub!vars
  BY <1>3 DEF Hub!vars, Hub!connVars
<1> QED BY <1>1, <1>2, <1>3, HubActions

(* No channel holds more than its capacity: Broadcast's select finds room, *)
(* or drops the client; the bootstrap payload needs room too.              *)
LEMMA ChannelTypesStep ==
  ASSUME Hub!HubConstants, Hub!TypeOK, [Hub!Next]_(Hub!vars)
  PROVE  ChannelTypes'
<1>t. HubTypes /\ ChannelTypes /\ ClientTypes
  BY HubTypesAre
<1>1. CASE UNCHANGED <<send, inHand, got>>
  BY <1>t, <1>1 DEF ChannelTypes
<1>2. ASSUME NEW c \in Clients, NEW x \in Hub!Messages, Len(send[c]) < sendBufferSize,
             send' = [send EXCEPT ![c] = Append(@, x)]
      PROVE  send' \in [Clients -> Seq(Hub!Messages)] /\ \A e \in Clients : Len(send'[e]) <= sendBufferSize
  <2>1. send[c] \in Seq(Hub!Messages)
    BY <1>t DEF ChannelTypes
  <2>2. Append(send[c], x) \in Seq(Hub!Messages) /\ Len(Append(send[c], x)) = Len(send[c]) + 1
        /\ Len(send[c]) \in Nat
    BY <2>1, QueueRange
  <2>3. send' = [send EXCEPT ![c] = Append(send[c], x)]
    BY <1>2
  <2> HIDE <1>2
  <2>4. send'[c] = Append(send[c], x) /\ \A e \in Clients : e # c => send'[e] = send[e]
    BY <1>t, <2>3 DEF ChannelTypes
  <2>5. Len(send'[c]) <= sendBufferSize
    BY <1>2, <2>2, <2>4, MessageTypes
  <2> QED BY <1>t, <2>2, <2>3, <2>4, <2>5 DEF ChannelTypes
<1>3. ASSUME NEW b \in Broadcasters, NEW c \in Clients, Hub!Offer(b, c) PROVE ChannelTypes'
  <2>1. cast[b] \in Hub!CastStates /\ cast[b].pc = "fanout" /\ UNCHANGED <<inHand, got>>
    BY <1>t, <1>3 DEF HubTypes, Hub!Offer, Hub!Target
  <2>2. cast[b].seq \in 0 .. MaxSeq
    BY <2>1, CastTypes, MessageTypes
  <2>3. [seq |-> cast[b].seq, boot |-> FALSE] \in Hub!Messages
    BY <2>2, MessageTypes
  <2>4. \/ send' = send
        \/ /\ Len(send[c]) < sendBufferSize
           /\ send' = [send EXCEPT ![c] = Append(@, [seq |-> cast[b].seq, boot |-> FALSE])]
    BY <1>3 DEF Hub!Offer
  <2>5. send' \in [Clients -> Seq(Hub!Messages)] /\ \A e \in Clients : Len(send'[e]) <= sendBufferSize
    BY <1>t, <1>2, <2>3, <2>4 DEF ChannelTypes
  <2> QED BY <1>t, <2>1, <2>5 DEF ChannelTypes
<1>4. ASSUME NEW c \in Clients, Hub!Bootstrap(c) PROVE ChannelTypes'
  <2>1. upgrade[c] \in Hub!UpgradeStates /\ upgrade[c].pc = "registered" /\ UNCHANGED <<inHand, got>>
    BY <1>t, <1>4 DEF ClientTypes, Hub!Bootstrap
  <2>2. [seq |-> upgrade[c].last, boot |-> TRUE] \in Hub!Messages
    BY <2>1, UpgradeTypes, MessageTypes
  <2>3. \/ send' = send
        \/ /\ Len(send[c]) < sendBufferSize
           /\ send' = [send EXCEPT ![c] = Append(@, [seq |-> upgrade[c].last, boot |-> TRUE])]
    BY <1>4 DEF Hub!Bootstrap
  <2>4. send' \in [Clients -> Seq(Hub!Messages)] /\ \A e \in Clients : Len(send'[e]) <= sendBufferSize
    BY <1>t, <1>2, <2>2, <2>3 DEF ChannelTypes
  <2> QED BY <1>t, <2>1, <2>4 DEF ChannelTypes
<1>5. ASSUME NEW c \in Clients, Hub!PumpTake(c) PROVE ChannelTypes'
  <2>1. send[c] \in Seq(Hub!Messages) /\ Len(send[c]) <= sendBufferSize /\ send[c] # <<>>
    BY <1>t, <1>5 DEF ChannelTypes, Hub!PumpTake
  <2>2. /\ Tail(send[c]) \in Seq(Hub!Messages) /\ Len(Tail(send[c])) <= sendBufferSize
        /\ Head(send[c]) \in Hub!Messages
    BY <2>1, QueueRange, MessageTypes
  <2>3. <<Head(send[c])>> \in Seq(Hub!Messages)
    BY <2>2
  <2>4. /\ send' = [send EXCEPT ![c] = Tail(send[c])]
        /\ inHand' = [inHand EXCEPT ![c] = <<Head(send[c])>>] /\ UNCHANGED got
    BY <1>5 DEF Hub!PumpTake
  <2> QED BY <1>t, <2>2, <2>3, <2>4 DEF ChannelTypes
<1>6. ASSUME NEW c \in Clients, Hub!PumpWrite(c) \/ Hub!PumpFails(c) PROVE ChannelTypes'
  <2>1. got[c] \in Seq(Hub!Messages) /\ inHand[c] \in Seq(Hub!Messages)
    BY <1>t DEF ChannelTypes
  <2>2. got[c] \o inHand[c] \in Seq(Hub!Messages) /\ <<>> \in Seq(Hub!Messages)
    BY <2>1, ConcatProperties
  <2>3. /\ got' = [got EXCEPT ![c] = got[c] \o inHand[c]] \/ got' = got
        /\ inHand' = [inHand EXCEPT ![c] = <<>>] /\ UNCHANGED send
    BY <1>6 DEF Hub!PumpWrite, Hub!PumpFails
  <2> QED BY <1>t, <2>2, <2>3 DEF ChannelTypes
<1>7. ASSUME NEW c \in Clients, NEW t \in Hub!Threads, Hub!RemoveUnderLock(c, t) PROVE ChannelTypes'
  <2>1. send' = [send EXCEPT ![c] = <<>>] /\ UNCHANGED <<inHand, got>>
    BY <1>7 DEF Hub!RemoveUnderLock
  <2>2. <<>> \in Seq(Hub!Messages) /\ Len(<<>>) <= sendBufferSize
    BY MessageTypes
  <2> QED BY <1>t, <2>1, <2>2 DEF ChannelTypes
<1> QED BY <1>1, <1>3, <1>4, <1>5, <1>6, <1>7, ChannelsRest

(* What remove writes, whoever calls it. *)
LEMMA RemoveTypes ==
  ASSUME ClientTypes, NEW c \in Clients, NEW t \in Hub!Threads, Hub!Remove(c, t)
  PROVE  /\ gone' \in [Clients -> BOOLEAN] /\ removing' \subseteq Clients \X Hub!Threads
         /\ gone'[c] /\ \A e \in Clients : e # c => gone'[e] = gone[e]
         /\ removing' = IF gone[c] THEN removing ELSE removing \cup {<<c, t>>}
BY DEF ClientTypes, Hub!Remove

(* The hub counts its clients as this module does. *)
LEMMA HubCounts ==
  ASSUME NEW S
  PROVE  Hub!IsFiniteSet(S) = IsFiniteSet(S) /\ Hub!Cardinality(S) = Cardinality(S)
<1>1. Hub!IsFiniteSet(S) = IsFiniteSet(S)
  BY Zenon DEF Hub!IsFiniteSet, IsFiniteSet
<1>2. Hub!Cardinality(S) = Cardinality(S)
  BY Zenon DEF Hub!Cardinality, Cardinality
<1> QED BY <1>1, <1>2

LEMMA ThreadNames ==
  Broadcasters \subseteq Hub!Threads /\ "writePump" \in Hub!Threads /\ "readPump" \in Hub!Threads
BY DEF Hub!Threads

LEMMA ClientTypesStep ==
  ASSUME Hub!HubConstants, Hub!TypeOK, [Hub!Next]_(Hub!vars)
  PROVE  ClientTypes'
<1>t. HubTypes /\ ChannelTypes /\ ClientTypes
  BY HubTypesAre
<1>1. ASSUME UNCHANGED <<clients, upgrade, gone, done, removing, pump, reader, connUp>>
      PROVE  ClientTypes'
  BY <1>t, <1>1 DEF ClientTypes
<1>2. ASSUME NEW b \in Broadcasters,
             \/ Hub!Stamp(b) \/ Hub!StorePayload(b) \/ Hub!StoreJSON(b) \/ Hub!ListClients(b)
             \/ \E c \in Clients : Hub!PickClient(b, c)
      PROVE  ClientTypes'
  BY <1>1, <1>2 DEF Hub!Stamp, Hub!StorePayload, Hub!StoreJSON, Hub!ListClients,
    Hub!PickClient, Hub!connVars
<1>3. ASSUME NEW b \in Broadcasters, NEW c \in Clients, Hub!Offer(b, c) PROVE ClientTypes'
  <2>1. UNCHANGED <<clients, upgrade, done, pump, reader, connUp>>
        /\ (UNCHANGED <<gone, removing>> \/ Hub!Remove(c, b))
    BY <1>3 DEF Hub!Offer
  <2>2. gone' \in [Clients -> BOOLEAN] /\ removing' \subseteq Clients \X Hub!Threads
    <3>1. CASE UNCHANGED <<gone, removing>>
      BY <1>t, <3>1 DEF ClientTypes
    <3>2. CASE Hub!Remove(c, b)
      BY <1>t, <3>2, RemoveTypes, ThreadNames
    <3> QED BY <2>1, <3>1, <3>2
  <2> QED BY <1>t, <2>1, <2>2 DEF ClientTypes
<1>4. ASSUME NEW c \in Clients,
             Hub!ReadCount(c) \/ Hub!ReadLast(c) \/ Hub!Register(c) \/ Hub!Bootstrap(c)
      PROVE  ClientTypes'
  <2>1. upgrade' \in [Clients -> Hub!UpgradeStates]
    <3>1. PICK x \in Hub!UpgradeStates : upgrade' = [upgrade EXCEPT ![c] = x]
      <4>1. CASE Hub!ReadCount(c)
        <5>1. Cardinality(clients) \in 0 .. Cardinality(Clients)
          <6>1. IsFiniteSet(clients) /\ Cardinality(clients) <= Cardinality(Clients)
            BY <1>t, HubCounts, FS_Subset DEF ClientTypes, Hub!HubConstants
          <6>2. Cardinality(clients) \in Nat /\ Cardinality(Clients) \in Nat
            BY <6>1, HubCounts, FS_CardinalityType DEF Hub!HubConstants
          <6> QED BY <6>1, <6>2
        <5>2. [pc |-> "counted", count |-> Cardinality(clients)] \in Hub!UpgradeStates
          BY <5>1, HubCounts DEF Hub!UpgradeStates
        <5> QED BY <4>1, <5>2, HubCounts DEF Hub!ReadCount
      <4>2. CASE Hub!ReadLast(c)
        <5>1. /\ [pc |-> "refused"] \in Hub!UpgradeStates
              /\ [pc |-> "admitted", last |-> lastJSON] \in Hub!UpgradeStates
          BY <1>t DEF HubTypes, Hub!UpgradeStates
        <5> QED BY <4>2, <5>1 DEF Hub!ReadLast
      <4>3. CASE Hub!Register(c)
        <5>1. upgrade[c] \in Hub!UpgradeStates /\ upgrade[c].pc = "admitted"
          BY <1>t, <4>3 DEF ClientTypes, Hub!Register
        <5>2. [upgrade[c] EXCEPT !.pc = "registered"] = [pc |-> "registered", last |-> upgrade[c].last]
              /\ upgrade[c].last \in 0 .. MaxSeq
          BY <5>1, UpgradeTypes
        <5>3. [pc |-> "registered", last |-> upgrade[c].last] \in Hub!UpgradeStates
          BY <5>2 DEF Hub!UpgradeStates
        <5>4. upgrade' = [upgrade EXCEPT ![c] = [upgrade[c] EXCEPT !.pc = "registered"]]
          BY <4>3 DEF Hub!Register
        <5> QED BY <5>2, <5>3, <5>4
      <4>4. CASE Hub!Bootstrap(c)
        <5>1. [pc |-> "open"] \in Hub!UpgradeStates
          BY DEF Hub!UpgradeStates
        <5> QED BY <4>4, <5>1 DEF Hub!Bootstrap
      <4> QED BY <1>4, <4>1, <4>2, <4>3, <4>4
    <3> QED BY <1>t, <3>1 DEF ClientTypes
  <2>2. clients' \subseteq Clients
    BY <1>t, <1>4 DEF ClientTypes, Hub!ReadCount, Hub!ReadLast, Hub!Register, Hub!Bootstrap
  <2>3. UNCHANGED <<gone, done, removing, connUp>>
    BY <1>4 DEF Hub!ReadCount, Hub!ReadLast, Hub!Register, Hub!Bootstrap, Hub!connVars
  <2>4. /\ pump' \in [Clients -> {"off", "check", "wait", "write", "exit"}]
        /\ reader' \in [Clients -> {"off", "on", "exit"}]
    BY <1>t, <1>4 DEF ClientTypes, Hub!ReadCount, Hub!ReadLast, Hub!Register, Hub!Bootstrap,
      Hub!connVars
  <2> QED BY <1>t, <2>1, <2>2, <2>3, <2>4 DEF ClientTypes
<1>5. ASSUME NEW c \in Clients,
             \/ Hub!PumpCheck(c) \/ Hub!PumpTake(c) \/ Hub!PumpWrite(c) \/ Hub!PumpDone(c)
             \/ Hub!PumpFails(c) \/ Hub!ReadFails(c) \/ Hub!ConnCloses(c)
      PROVE  ClientTypes'
  <2>1. UNCHANGED <<clients, upgrade, done>>
    BY <1>5 DEF Hub!PumpCheck, Hub!PumpTake, Hub!PumpWrite, Hub!PumpDone, Hub!PumpFails,
      Hub!ReadFails, Hub!ConnCloses
  <2>2. /\ pump' \in [Clients -> {"off", "check", "wait", "write", "exit"}]
        /\ reader' \in [Clients -> {"off", "on", "exit"}]
        /\ connUp' \in [Clients -> BOOLEAN]
    BY <1>t, <1>5 DEF ClientTypes, Hub!PumpCheck, Hub!PumpTake, Hub!PumpWrite, Hub!PumpDone,
      Hub!PumpFails, Hub!ReadFails, Hub!ConnCloses, Hub!PumpExit
  <2>3. UNCHANGED <<gone, removing>> \/ Hub!Remove(c, "writePump") \/ Hub!Remove(c, "readPump")
    BY <1>5 DEF Hub!PumpCheck, Hub!PumpTake, Hub!PumpWrite, Hub!PumpDone, Hub!PumpFails,
      Hub!ReadFails, Hub!ConnCloses, Hub!PumpExit
  <2>4. gone' \in [Clients -> BOOLEAN] /\ removing' \subseteq Clients \X Hub!Threads
    <3>1. CASE UNCHANGED <<gone, removing>>
      BY <1>t, <3>1 DEF ClientTypes
    <3>2. CASE Hub!Remove(c, "writePump") \/ Hub!Remove(c, "readPump")
      BY <1>t, <3>2, RemoveTypes, ThreadNames
    <3> QED BY <2>3, <3>1, <3>2
  <2> QED BY <1>t, <2>1, <2>2, <2>4 DEF ClientTypes
<1>6. ASSUME NEW c \in Clients, NEW t \in Hub!Threads, Hub!RemoveUnderLock(c, t) PROVE ClientTypes'
  BY <1>t, <1>6 DEF ClientTypes, Hub!RemoveUnderLock
<1>7. CASE UNCHANGED Hub!vars
  BY <1>1, <1>7 DEF Hub!vars, Hub!connVars
<1> QED BY <1>2, <1>3, <1>4, <1>5, <1>6, <1>7, HubActions

(* The hub's variables keep their types and every client's channel its     *)
(* capacity, for any clients, broadcasters and capacities.                 *)
THEOREM HubTypeCorrect ==
  ASSUME Hub!HubConstants
  PROVE  Hub!Spec => []Hub!TypeOK
<1>1. Hub!Init => Hub!TypeOK
  <2> SUFFICES ASSUME Hub!Init PROVE Hub!TypeOK
    OBVIOUS
  <2>1. HubTypes
    BY DEF Hub!Init, HubTypes, Hub!CastStates, Hub!HubConstants
  <2>2. ChannelTypes
    BY DEF Hub!Init, ChannelTypes, Hub!HubConstants
  <2>3. ClientTypes
    BY DEF Hub!Init, ClientTypes, Hub!UpgradeStates
  <2> QED BY <2>1, <2>2, <2>3, HubTypesAre
<1>2. Hub!TypeOK /\ [Hub!Next]_(Hub!vars) => Hub!TypeOK'
  <2> SUFFICES ASSUME Hub!TypeOK, [Hub!Next]_(Hub!vars) PROVE Hub!TypeOK'
    OBVIOUS
  <2>1. HubTypes' /\ ChannelTypes' /\ ClientTypes'
    BY HubTypesStep, ChannelTypesStep, ClientTypesStep
  <2> QED BY <2>1 DEF Hub!TypeOK, HubTypes, ChannelTypes, ClientTypes
<1> QED BY <1>1, <1>2, PTL DEF Hub!Spec

-------------------------------------------------------------------------------
(* The hub: a client is removed once *)

(* Whoever has won the swap of remove has yet to close done, and nobody    *)
(* else has won it.                                                        *)
RemoveInv ==
  \A c \in Clients :
    /\ \A t \in Hub!Threads : <<c, t>> \in removing => gone[c] /\ done[c] = 0
    /\ \A t, u \in Hub!Threads : <<c, t>> \in removing /\ <<c, u>> \in removing => t = u
    /\ done[c] <= 1 /\ (done[c] = 1 => gone[c])

(* The actions that neither flag a client nor close its done channel. *)
LEMMA RemovalRest ==
  ASSUME [Hub!Next]_(Hub!vars)
  PROVE  \/ UNCHANGED <<gone, done, removing>>
         \/ \E c \in Clients, t \in Hub!Threads :
              \/ Hub!Remove(c, t) /\ UNCHANGED <<clients, upgrade, done>>
              \/ Hub!RemoveUnderLock(c, t)
<1>1. ASSUME NEW b \in Broadcasters,
             \/ Hub!Stamp(b) \/ Hub!StorePayload(b) \/ Hub!StoreJSON(b) \/ Hub!ListClients(b)
             \/ \E c \in Clients : Hub!PickClient(b, c)
      PROVE  UNCHANGED <<gone, done, removing>>
  BY <1>1 DEF Hub!Stamp, Hub!StorePayload, Hub!StoreJSON, Hub!ListClients, Hub!PickClient,
    Hub!connVars
<1>2. ASSUME NEW b \in Broadcasters, NEW c \in Clients, Hub!Offer(b, c)
      PROVE  \/ UNCHANGED <<gone, done, removing>>
             \/ Hub!Remove(c, b) /\ UNCHANGED <<clients, upgrade, done>>
  BY <1>2 DEF Hub!Offer
<1>3. ASSUME NEW c \in Clients,
             \/ Hub!ReadCount(c) \/ Hub!ReadLast(c) \/ Hub!Register(c) \/ Hub!Bootstrap(c)
             \/ Hub!PumpTake(c) \/ Hub!PumpWrite(c) \/ Hub!ConnCloses(c)
      PROVE  UNCHANGED <<gone, done, removing>>
  BY <1>3 DEF Hub!ReadCount, Hub!ReadLast, Hub!Register, Hub!Bootstrap, Hub!PumpTake,
    Hub!PumpWrite, Hub!ConnCloses, Hub!connVars
<1>4. ASSUME NEW c \in Clients,
             Hub!PumpCheck(c) \/ Hub!PumpDone(c) \/ Hub!PumpFails(c) \/ Hub!ReadFails(c)
      PROVE  \/ UNCHANGED <<gone, done, removing>>
             \/ \E t \in Hub!Threads : Hub!Remove(c, t) /\ UNCHANGED <<clients, upgrade, done>>
  BY <1>4, ThreadNames DEF Hub!PumpCheck, Hub!PumpDone, Hub!PumpFails, Hub!ReadFails,
    Hub!PumpExit
<1>5. CASE UNCHANGED Hub!vars
  BY <1>5 DEF Hub!vars, Hub!connVars
<1> QED BY <1>1, <1>2, <1>3, <1>4, <1>5, HubActions, ThreadNames

LEMMA RemoveStep ==
  ASSUME Hub!TypeOK, RemoveInv, [Hub!Next]_(Hub!vars)
  PROVE  RemoveInv'
<1>t. ClientTypes
  BY HubTypesAre
<1>1. CASE UNCHANGED <<gone, done, removing>>
  BY <1>1 DEF RemoveInv, Hub!Threads
<1>2. ASSUME NEW c \in Clients, NEW t \in Hub!Threads, Hub!Remove(c, t), UNCHANGED done
      PROVE  RemoveInv'
  <2>1. /\ gone'[c] /\ \A e \in Clients : e # c => gone'[e] = gone[e]
        /\ removing' = IF gone[c] THEN removing ELSE removing \cup {<<c, t>>}
    BY <1>t, <1>2, RemoveTypes
  <2>2. ~gone[c] => done[c] = 0 /\ \A u \in Hub!Threads : <<c, u>> \notin removing
    <3>1. done[c] \in Nat
      BY <1>t DEF ClientTypes
    <3> QED BY <3>1 DEF RemoveInv
  <2> QED BY <1>2, <2>1, <2>2 DEF RemoveInv
<1>3. ASSUME NEW c \in Clients, NEW t \in Hub!Threads, Hub!RemoveUnderLock(c, t)
      PROVE  RemoveInv'
  <2>1. /\ <<c, t>> \in removing /\ removing' = removing \ {<<c, t>>} /\ gone' = gone
        /\ done' = [done EXCEPT ![c] = done[c] + 1]
    BY <1>3 DEF Hub!RemoveUnderLock
  <2>2. /\ done'[c] = 1 /\ gone[c] /\ \A e \in Clients : e # c => done'[e] = done[e]
        /\ \A u \in Hub!Threads : <<c, u>> \notin removing'
    BY <1>t, <2>1 DEF RemoveInv, ClientTypes
  <2> QED BY <2>1, <2>2 DEF RemoveInv
<1> QED BY <1>1, <1>2, <1>3, RemovalRest

(* Of the broadcasters and the two pumps of a client, which may find it    *)
(* dead at once, one closes its done channel: hub.go:remove's swap lets a  *)
(* single caller pass (a second close would panic).                        *)
THEOREM DoneClosesOnce ==
  ASSUME Hub!HubConstants
  PROVE  Hub!Spec => []Hub!DoneClosedOnce
<1>1. Hub!Init => RemoveInv
  BY DEF Hub!Init, RemoveInv
<1>2. RemoveInv /\ Hub!TypeOK /\ [Hub!Next]_(Hub!vars) => RemoveInv'
  BY RemoveStep
<1>3. RemoveInv => Hub!DoneClosedOnce
  BY DEF RemoveInv, Hub!DoneClosedOnce
<1> QED BY <1>1, <1>2, <1>3, HubTypeCorrect, PTL DEF Hub!Spec

-------------------------------------------------------------------------------
(* The hub: the stream of a client *)

(* What is written, in hand and in the channel, as one stream: *)
LEMMA StreamRange ==
  ASSUME NEW S, NEW g \in Seq(S), NEW h \in Seq(S), NEW s \in Seq(S)
  PROVE  Range((g \o h) \o s) = Range(g) \cup Range(h) \cup Range(s)
<1>1. g \o h \in Seq(S)
  BY ConcatProperties
<1>2. Range(g \o h) = Range(g) \cup Range(h)
  BY RangeConcatenation
<1>3. Range((g \o h) \o s) = Range(g \o h) \cup Range(s)
  BY <1>1, RangeConcatenation
<1> QED BY <1>2, <1>3

(* it grows at its end, *)
LEMMA StreamGrows ==
  ASSUME NEW S, NEW g \in Seq(S), NEW h \in Seq(S), NEW s \in Seq(S), NEW x \in S
  PROVE  (g \o h) \o Append(s, x) = Append((g \o h) \o s, x)
<1>1. g \o h \in Seq(S)
  BY ConcatProperties
<1>2. (g \o h) \o s \in Seq(S)
  BY <1>1, ConcatProperties
<1>3. <<x>> \in Seq(S)
  OBVIOUS
<1>4. Append(s, x) = s \o <<x>> /\ Append((g \o h) \o s, x) = ((g \o h) \o s) \o <<x>>
  BY <1>2, AppendIsConcat
<1>5. ((g \o h) \o s) \o <<x>> = (g \o h) \o (s \o <<x>>)
  BY <1>1, <1>3, ConcatAssociative
<1> QED BY <1>4, <1>5

(* and a message that is taken from the channel is still in it. *)
LEMMA StreamShifts ==
  ASSUME NEW S, NEW g \in Seq(S), NEW s \in Seq(S), s # <<>>
  PROVE  (g \o <<Head(s)>>) \o Tail(s) = (g \o <<>>) \o s
<1>1. <<Head(s)>> \in Seq(S) /\ Tail(s) \in Seq(S) /\ s = <<Head(s)>> \o Tail(s)
  OBVIOUS
<1>2. g \o <<>> = g
  BY ConcatEmptySeq
<1>3. (g \o <<Head(s)>>) \o Tail(s) = g \o (<<Head(s)>> \o Tail(s))
  BY <1>1, ConcatAssociative
<1> QED BY <1>1, <1>2, <1>3

(* The messages of s that are not a bootstrap have no gap, and the last of *)
(* them, if there is one, has number l.                                    *)
Chained(s, l) ==
  /\ \A m, n \in DOMAIN s :
       /\ m < n /\ ~s[m].boot /\ ~s[n].boot
       /\ \A k \in DOMAIN s : m < k /\ k < n => s[k].boot
       => s[n].seq = s[m].seq + 1
  /\ \A n \in DOMAIN s : ~s[n].boot /\ (\A k \in DOMAIN s : n < k => s[k].boot) => s[n].seq = l

(* The next broadcast continues the chain, a bootstrap leaves it alone. *)
LEMMA ChainGrows ==
  ASSUME NEW S, NEW s \in Seq(S), NEW l, Chained(s, l), NEW x \in S
  PROVE  /\ x.boot => Chained(Append(s, x), l)
         /\ ~x.boot /\ x.seq = l + 1 => Chained(Append(s, x), x.seq)
<1> DEFINE t == Append(s, x)
<1>1. /\ Len(s) \in Nat /\ DOMAIN s = 1 .. Len(s) /\ DOMAIN t = 1 .. Len(s) + 1
      /\ \A i \in 1 .. Len(s) : t[i] = s[i]
      /\ t[Len(s) + 1] = x
  BY AppendProperties, LenProperties
<1> HIDE DEF t
<1>2. ASSUME x.boot PROVE Chained(t, l)
  <2>1. ASSUME NEW m \in DOMAIN t, NEW n \in DOMAIN t, m < n, ~t[m].boot, ~t[n].boot,
               \A k \in DOMAIN t : m < k /\ k < n => t[k].boot
        PROVE  t[n].seq = t[m].seq + 1
    <3>1. m \in DOMAIN s /\ n \in DOMAIN s
      BY <1>1, <1>2, <2>1
    <3>2. \A k \in DOMAIN s : m < k /\ k < n => s[k].boot
      BY <1>1, <2>1
    <3>3. ~s[m].boot /\ ~s[n].boot /\ s[m] = t[m] /\ s[n] = t[n]
      BY <1>1, <2>1, <3>1
    <3> QED BY <2>1, <3>1, <3>2, <3>3 DEF Chained
  <2>2. ASSUME NEW n \in DOMAIN t, ~t[n].boot, \A k \in DOMAIN t : n < k => t[k].boot
        PROVE  t[n].seq = l
    <3>1. n \in DOMAIN s
      BY <1>1, <1>2, <2>2
    <3>2. \A k \in DOMAIN s : n < k => s[k].boot
      BY <1>1, <2>2
    <3>3. ~s[n].boot /\ s[n] = t[n]
      BY <1>1, <2>2, <3>1
    <3> QED BY <3>1, <3>2, <3>3 DEF Chained
  <2> QED BY <2>1, <2>2 DEF Chained
<1>3. ASSUME ~x.boot, x.seq = l + 1 PROVE Chained(t, x.seq)
  <2>1. ASSUME NEW m \in DOMAIN t, NEW n \in DOMAIN t, m < n, ~t[m].boot, ~t[n].boot,
               \A k \in DOMAIN t : m < k /\ k < n => t[k].boot
        PROVE  t[n].seq = t[m].seq + 1
    <3>1. m \in DOMAIN s /\ s[m] = t[m]
      BY <1>1, <2>1
    <3>2. CASE n \in DOMAIN s
      <4>1. \A k \in DOMAIN s : m < k /\ k < n => s[k].boot
        BY <1>1, <2>1
      <4>2. s[n] = t[n]
        BY <1>1, <3>2
      <4> QED BY <2>1, <3>1, <3>2, <4>1, <4>2 DEF Chained
    <3>3. CASE n = Len(s) + 1
      <4>1. \A k \in DOMAIN s : m < k => s[k].boot
        BY <1>1, <2>1, <3>3
      <4>2. s[m].seq = l
        BY <2>1, <3>1, <4>1 DEF Chained
      <4> QED BY <1>1, <1>3, <3>1, <3>3, <4>2
    <3> QED BY <1>1, <3>2, <3>3
  <2>2. ASSUME NEW n \in DOMAIN t, ~t[n].boot, \A k \in DOMAIN t : n < k => t[k].boot
        PROVE  t[n].seq = x.seq
    <3>1. Len(s) + 1 \in DOMAIN t
      BY <1>1
    <3>2. n = Len(s) + 1
      BY <1>1, <1>3, <2>2, <3>1
    <3> QED BY <1>1, <3>2
  <2> QED BY <2>1, <2>2 DEF Chained
<1> QED BY <1>2, <1>3 DEF t

(* A broadcast on its way to c. *)
Due(b, c) == cast[b].pc = "fanout" /\ (c \in cast[b].todo \/ cast[b].to = c)

(* Nobody writes to a client before it is registered, and it stays in the  *)
(* map until it is removed.                                                *)
RegisterInv ==
  \A c \in Clients :
    /\ upgrade[c].pc \notin {"registered", "open"} =>
         /\ c \notin clients /\ send[c] = <<>>
         /\ \A b \in Broadcasters : ~Due(b, c)
    /\ upgrade[c].pc # "open" => pump[c] = "off" /\ got[c] = <<>>
    /\ pump[c] # "write" => inHand[c] = <<>>
    /\ upgrade[c].pc \in {"registered", "open"} /\ ~gone[c] => c \in clients

LEMMA RegisterStep ==
  ASSUME Hub!HubConstants, Hub!TypeOK, RemoveInv, RegisterInv, [Hub!Next]_(Hub!vars)
  PROVE  RegisterInv'
<1>t. HubTypes /\ ChannelTypes /\ ClientTypes
  BY HubTypesAre
<1>n. Hub!NoOne \notin Clients
  BY DEF Hub!HubConstants
<1> USE DEF HubTypes, ChannelTypes, ClientTypes
<1>1. ASSUME NEW b \in Broadcasters, NEW e \in Clients,
             \/ Hub!Stamp(b) \/ Hub!StorePayload(b) \/ Hub!StoreJSON(b) \/ Hub!ListClients(b)
             \/ Hub!PickClient(b, e) \/ Hub!Offer(b, e),
             NEW c \in Clients, upgrade[c].pc \notin {"registered", "open"}, NEW d \in Broadcasters
      PROVE  ~Due(d, c)'
  <2>0. cast[b] \in Hub!CastStates /\ ~Due(b, c) /\ ~Due(d, c) /\ c \notin clients
    BY <1>t, <1>1 DEF RegisterInv
  <2>1. CASE d # b
    <3>1. cast'[d] = cast[d]
      BY <1>t, <1>1, <2>1 DEF Hub!Stamp, Hub!StorePayload, Hub!StoreJSON, Hub!ListClients,
        Hub!PickClient, Hub!Offer, Hub!FanOut
    <3> QED BY <2>0, <3>1 DEF Due
  <2>2. CASE d = b
    <3>1. CASE Hub!Stamp(b) \/ Hub!StorePayload(b) \/ Hub!StoreJSON(b)
      <4>1. cast'[b].pc # "fanout"
        <5>1. CASE Hub!Stamp(b)
          BY <1>t, <5>1 DEF Hub!Stamp
        <5>2. CASE Hub!StorePayload(b)
          <6>1. [cast[b] EXCEPT !.pc = "json"].pc = "json"
            BY <2>0, <5>2, CastTypes DEF Hub!StorePayload
          <6> QED BY <1>t, <5>2, <6>1 DEF Hub!StorePayload
        <5>3. CASE Hub!StoreJSON(b)
          <6>1. [cast[b] EXCEPT !.pc = "list"].pc = "list"
            BY <2>0, <5>3, CastTypes DEF Hub!StoreJSON
          <6> QED BY <1>t, <5>3, <6>1 DEF Hub!StoreJSON
        <5> QED BY <3>1, <5>1, <5>2, <5>3
      <4> QED BY <2>2, <4>1 DEF Due
    <3>2. CASE Hub!ListClients(b) \/ Hub!PickClient(b, e) \/ Hub!Offer(b, e)
      <4>1. cast[b].seq \in 1 .. MaxSeq
            /\ (cast[b].pc = "fanout" => cast[b].todo \in SUBSET Clients)
        BY <2>0, <3>2, CastTypes DEF Hub!ListClients, Hub!PickClient, Hub!Offer, Hub!Target
      <4>2. PICK todo \in SUBSET Clients, to \in Clients \cup {Hub!NoOne} :
              /\ Hub!FanOut(b, cast[b].seq, todo, to)
              /\ c \notin todo /\ to # c
        BY <1>t, <1>n, <2>0, <3>2, <4>1
          DEF Hub!ListClients, Hub!PickClient, Hub!Offer, Hub!Target, Due
      <4>3. cast'[b] = IF todo = {} /\ to = Hub!NoOne THEN [pc |-> "idle"]
                       ELSE [pc |-> "fanout", seq |-> cast[b].seq, todo |-> todo, to |-> to]
        <5>1. cast \in [Broadcasters -> Hub!CastStates] /\ cast[b].seq \in 1 .. MaxSeq
          BY <1>t, <4>1
        <5> HIDE DEF HubTypes, ChannelTypes, ClientTypes
        <5> QED BY <4>2, <5>1, FanOutTypes
      <4> QED BY <2>2, <4>2, <4>3 DEF Due
    <3> QED BY <1>1, <3>1, <3>2
  <2> QED BY <2>1, <2>2
<1>2. ASSUME NEW b \in Broadcasters,
             \/ Hub!Stamp(b) \/ Hub!StorePayload(b) \/ Hub!StoreJSON(b) \/ Hub!ListClients(b)
             \/ \E e \in Clients : Hub!PickClient(b, e),
             NEW c \in Clients
      PROVE  /\ upgrade'[c].pc \notin {"registered", "open"} => \A d \in Broadcasters : ~Due(d, c)'
             /\ UNCHANGED <<clients, upgrade, Hub!connVars>>
  BY <1>1, <1>2 DEF Hub!Stamp, Hub!StorePayload, Hub!StoreJSON, Hub!ListClients, Hub!PickClient,
    Hub!connVars
<1>3. ASSUME NEW b \in Broadcasters,
             \/ Hub!Stamp(b) \/ Hub!StorePayload(b) \/ Hub!StoreJSON(b) \/ Hub!ListClients(b)
             \/ \E e \in Clients : Hub!PickClient(b, e)
      PROVE  RegisterInv'
  BY <1>2, <1>3 DEF RegisterInv, Hub!connVars
<1>4. ASSUME NEW b \in Broadcasters, NEW e \in Clients, Hub!Offer(b, e) PROVE RegisterInv'
  <2> SUFFICES ASSUME NEW c \in Clients
               PROVE  /\ upgrade'[c].pc \notin {"registered", "open"} =>
                           /\ c \notin clients' /\ send'[c] = <<>>
                           /\ \A d \in Broadcasters : ~Due(d, c)'
                      /\ upgrade'[c].pc # "open" => pump'[c] = "off" /\ got'[c] = <<>>
                      /\ pump'[c] # "write" => inHand'[c] = <<>>
                      /\ upgrade'[c].pc \in {"registered", "open"} /\ ~gone'[c] => c \in clients'
    BY DEF RegisterInv
  <2>1. UNCHANGED <<clients, upgrade, pump, inHand, got>> /\ (gone[c] => gone'[c])
    BY <1>t, <1>4 DEF Hub!Offer, Hub!Remove
  <2>2. upgrade'[c].pc \notin {"registered", "open"} => \A d \in Broadcasters : ~Due(d, c)'
    BY <1>1, <1>4, <2>1
  <2>3. c # e => send'[c] = send[c]
    BY <1>t, <1>4 DEF Hub!Offer
  <2>4. upgrade[e].pc \in {"registered", "open"}
    BY <1>4 DEF RegisterInv, Due, Hub!Offer, Hub!Target
  <2> QED BY <2>1, <2>2, <2>3, <2>4 DEF RegisterInv
<1>5. ASSUME NEW e \in Clients,
             Hub!ReadCount(e) \/ Hub!ReadLast(e) \/ Hub!Register(e) \/ Hub!Bootstrap(e)
      PROVE  RegisterInv'
  <2>0. UNCHANGED <<cast, gone, inHand, got>>
    BY <1>5 DEF Hub!ReadCount, Hub!ReadLast, Hub!Register, Hub!Bootstrap, Hub!hubVars, Hub!connVars
  <2>1. CASE Hub!ReadCount(e) \/ Hub!ReadLast(e)
    <3>1. /\ upgrade[e].pc \notin {"registered", "open"} /\ upgrade'[e].pc \notin {"registered", "open"}
          /\ \A c \in Clients : c # e => upgrade'[c] = upgrade[c]
          /\ UNCHANGED <<clients, send, pump>>
      BY <1>t, <2>1 DEF Hub!ReadCount, Hub!ReadLast, Hub!connVars
    <3> QED BY <2>0, <3>1 DEF RegisterInv, Due
  <2>2. CASE Hub!Register(e)
    <3>1. upgrade[e] \in Hub!UpgradeStates /\ upgrade[e].pc = "admitted"
      BY <1>t, <2>2 DEF Hub!Register
    <3>2. /\ upgrade'[e].pc = "registered"
          /\ \A c \in Clients : c # e => upgrade'[c] = upgrade[c]
          /\ clients' = clients \cup {e} /\ UNCHANGED <<send, pump>>
      BY <1>t, <2>2, <3>1, UpgradeTypes DEF Hub!Register, Hub!connVars
    <3> QED BY <2>0, <3>1, <3>2 DEF RegisterInv, Due
  <2>3. CASE Hub!Bootstrap(e)
    <3>1. /\ upgrade[e].pc = "registered" /\ upgrade'[e].pc = "open"
          /\ \A c \in Clients : c # e => /\ upgrade'[c] = upgrade[c] /\ send'[c] = send[c]
                                         /\ pump'[c] = pump[c]
          /\ pump'[e] = "check" /\ clients' = clients
      BY <1>t, <2>3 DEF Hub!Bootstrap
    <3> QED BY <2>0, <3>1 DEF RegisterInv, Due
  <2> QED BY <1>5, <2>1, <2>2, <2>3
<1>6. ASSUME NEW e \in Clients,
             \/ Hub!PumpCheck(e) \/ Hub!PumpTake(e) \/ Hub!PumpWrite(e) \/ Hub!PumpDone(e)
             \/ Hub!PumpFails(e)
      PROVE  RegisterInv'
  <2>1. /\ UNCHANGED <<cast, clients, upgrade>> /\ \A c \in Clients : gone[c] => gone'[c]
        /\ pump[e] \in {"check", "wait", "write"}
        /\ \A c \in Clients : c # e => /\ send'[c] = send[c] /\ pump'[c] = pump[c]
                                       /\ inHand'[c] = inHand[c] /\ got'[c] = got[c]
    BY <1>t, <1>6 DEF Hub!PumpCheck, Hub!PumpTake, Hub!PumpWrite, Hub!PumpDone, Hub!PumpFails,
      Hub!PumpExit, Hub!Remove, Hub!hubVars
  <2>2. pump'[e] # "write" => inHand'[e] = <<>>
    BY <1>t, <1>6 DEF RegisterInv, Hub!PumpCheck, Hub!PumpTake, Hub!PumpWrite, Hub!PumpDone,
      Hub!PumpFails, Hub!PumpExit
  <2>3. upgrade[e].pc = "open"
    BY <2>1 DEF RegisterInv
  <2> QED BY <2>1, <2>2, <2>3 DEF RegisterInv, Due
<1>7. ASSUME NEW e \in Clients, Hub!ReadFails(e) \/ Hub!ConnCloses(e) PROVE RegisterInv'
  <2>1. /\ UNCHANGED <<cast, clients, upgrade, send, pump, inHand, got>>
        /\ \A c \in Clients : gone[c] => gone'[c]
    BY <1>t, <1>7 DEF Hub!ReadFails, Hub!ConnCloses, Hub!Remove, Hub!hubVars
  <2> QED BY <2>1 DEF RegisterInv, Due
<1>8. ASSUME NEW e \in Clients, NEW t \in Hub!Threads, Hub!RemoveUnderLock(e, t) PROVE RegisterInv'
  <2>1. /\ UNCHANGED <<cast, upgrade, gone, pump, inHand, got>> /\ clients' = clients \ {e}
        /\ send'[e] = <<>> /\ \A c \in Clients : c # e => send'[c] = send[c]
        /\ gone[e]
    BY <1>t, <1>8 DEF RemoveInv, Hub!RemoveUnderLock, Hub!hubVars
  <2> QED BY <2>1 DEF RegisterInv, Due
<1>9. CASE UNCHANGED Hub!vars
  BY <1>9 DEF RegisterInv, Due, Hub!vars, Hub!hubVars, Hub!connVars
<1> QED BY <1>3, <1>4, <1>5, <1>6, <1>7, <1>8, <1>9, HubActions

(* What a step does to the stream of a client: nothing, or it is cut off   *)
(* for good, or a broadcast or the bootstrap payload is put at its end.    *)
LEMMA StreamStep ==
  ASSUME Hub!HubConstants, Hub!TypeOK, RemoveInv, RegisterInv, [Hub!Next]_(Hub!vars),
         NEW c \in Clients
  PROVE  /\ Hub!Stream(c) \in Seq(Hub!Messages)
         /\ gone[c] => gone'[c]
         /\ \/ Hub!Stream(c)' = Hub!Stream(c)
            \/ gone'[c] /\ Range(Hub!Stream(c)') \subseteq Range(Hub!Stream(c))
            \/ \E b \in Broadcasters :
                 /\ Hub!Offer(b, c)
                 /\ [seq |-> cast[b].seq, boot |-> FALSE] \in Hub!Messages
                 /\ Hub!Stream(c)' = Append(Hub!Stream(c), [seq |-> cast[b].seq, boot |-> FALSE])
            \/ /\ Hub!Bootstrap(c)
               /\ [seq |-> upgrade[c].last, boot |-> TRUE] \in Hub!Messages
               /\ Hub!Stream(c)' = Append(Hub!Stream(c), [seq |-> upgrade[c].last, boot |-> TRUE])
<1>t. HubTypes /\ ChannelTypes /\ ClientTypes
  BY HubTypesAre
<1>c. got[c] \in Seq(Hub!Messages) /\ inHand[c] \in Seq(Hub!Messages) /\ send[c] \in Seq(Hub!Messages)
  BY <1>t DEF ChannelTypes
<1>s. /\ Hub!Stream(c) = (got[c] \o inHand[c]) \o send[c]
      /\ Hub!Stream(c)' = (got'[c] \o inHand'[c]) \o send'[c]
  BY DEF Hub!Stream
<1>0. Hub!Stream(c) \in Seq(Hub!Messages)
  BY <1>c, <1>s, ConcatProperties
<1>a. ASSUME NEW x \in Hub!Messages, got'[c] = got[c], inHand'[c] = inHand[c],
             send'[c] = Append(send[c], x)
      PROVE  Hub!Stream(c)' = Append(Hub!Stream(c), x)
  <2>1. (got[c] \o inHand[c]) \o Append(send[c], x) = Append((got[c] \o inHand[c]) \o send[c], x)
    <3>1. \A g, h, s \in Seq(Hub!Messages) : (g \o h) \o Append(s, x) = Append((g \o h) \o s, x)
      BY StreamGrows
    <3> QED BY <1>c, <3>1
  <2> QED BY <1>s, <1>a, <2>1
<1>g. gone[c] => gone'[c]
  <2>1. CASE UNCHANGED <<gone, done, removing>>
    BY <2>1
  <2>2. ASSUME NEW e \in Clients, NEW t \in Hub!Threads,
               Hub!Remove(e, t) \/ Hub!RemoveUnderLock(e, t)
        PROVE  gone[c] => gone'[c]
    BY <1>t, <2>2 DEF ClientTypes, Hub!Remove, Hub!RemoveUnderLock
  <2> QED BY <2>1, <2>2, RemovalRest
<1>1. CASE UNCHANGED <<send, inHand, got>>
  BY <1>0, <1>g, <1>s, <1>1
<1>2. ASSUME NEW b \in Broadcasters, NEW e \in Clients, Hub!Offer(b, e)
      PROVE  \/ Hub!Stream(c)' = Hub!Stream(c)
             \/ /\ c = e
                /\ [seq |-> cast[b].seq, boot |-> FALSE] \in Hub!Messages
                /\ Hub!Stream(c)' = Append(Hub!Stream(c), [seq |-> cast[b].seq, boot |-> FALSE])
  <2>1. cast[b] \in Hub!CastStates /\ cast[b].pc = "fanout" /\ UNCHANGED <<inHand, got>>
    BY <1>t, <1>2 DEF HubTypes, Hub!Offer, Hub!Target
  <2>2. [seq |-> cast[b].seq, boot |-> FALSE] \in Hub!Messages
    BY <2>1, CastTypes, MessageTypes
  <2>3. \/ send'[c] = send[c]
        \/ c = e /\ send'[c] = Append(send[c], [seq |-> cast[b].seq, boot |-> FALSE])
    BY <1>t, <1>2 DEF ChannelTypes, Hub!Offer
  <2>4. CASE send'[c] = send[c]
    BY <1>s, <2>1, <2>4
  <2>5. CASE c = e /\ send'[c] = Append(send[c], [seq |-> cast[b].seq, boot |-> FALSE])
    BY <1>a, <2>1, <2>2, <2>5
  <2> QED BY <2>3, <2>4, <2>5
<1>3. ASSUME NEW e \in Clients, Hub!Bootstrap(e)
      PROVE  \/ Hub!Stream(c)' = Hub!Stream(c)
             \/ /\ c = e
                /\ [seq |-> upgrade[c].last, boot |-> TRUE] \in Hub!Messages
                /\ Hub!Stream(c)' = Append(Hub!Stream(c), [seq |-> upgrade[c].last, boot |-> TRUE])
  <2>1. /\ upgrade[e] \in Hub!UpgradeStates /\ upgrade[e].pc = "registered"
        /\ UNCHANGED <<inHand, got>>
    BY <1>t, <1>3 DEF ClientTypes, Hub!Bootstrap
  <2>2. [seq |-> upgrade[e].last, boot |-> TRUE] \in Hub!Messages
    BY <2>1, UpgradeTypes, MessageTypes
  <2>3. \/ send'[c] = send[c]
        \/ c = e /\ send'[c] = Append(send[c], [seq |-> upgrade[c].last, boot |-> TRUE])
    BY <1>t, <1>3 DEF ChannelTypes, Hub!Bootstrap
  <2>4. CASE send'[c] = send[c]
    BY <1>s, <2>1, <2>4
  <2>5. CASE c = e /\ send'[c] = Append(send[c], [seq |-> upgrade[c].last, boot |-> TRUE])
    BY <1>a, <2>1, <2>2, <2>5
  <2> QED BY <2>3, <2>4, <2>5
<1>4. ASSUME NEW e \in Clients, Hub!PumpTake(e) \/ Hub!PumpWrite(e)
      PROVE  Hub!Stream(c)' = Hub!Stream(c)
  <2>1. CASE c # e
    <3>1. send'[c] = send[c] /\ inHand'[c] = inHand[c] /\ got'[c] = got[c]
      BY <1>t, <1>4, <2>1 DEF ChannelTypes, Hub!PumpTake, Hub!PumpWrite
    <3> QED BY <1>s, <3>1
  <2>2. CASE c = e /\ Hub!PumpTake(e)
    <3>1. /\ got'[c] = got[c] /\ inHand'[c] = <<Head(send[c])>> /\ send'[c] = Tail(send[c])
          /\ send[c] # <<>> /\ inHand[c] = <<>>
      BY <1>t, <2>2 DEF ChannelTypes, RegisterInv, Hub!PumpTake
    <3>2. send[c] # <<>> =>
            (got[c] \o <<Head(send[c])>>) \o Tail(send[c]) = (got[c] \o <<>>) \o send[c]
      BY <1>c, StreamShifts
    <3> QED BY <1>s, <3>1, <3>2
  <2>3. CASE c = e /\ Hub!PumpWrite(e)
    <3>1. got'[c] = got[c] \o inHand[c] /\ inHand'[c] = <<>> /\ send'[c] = send[c]
      BY <1>t, <2>3 DEF ChannelTypes, Hub!PumpWrite
    <3>2. got[c] \o inHand[c] \in Seq(Hub!Messages)
      BY <1>c, ConcatProperties
    <3>3. (got[c] \o inHand[c]) \o <<>> = got[c] \o inHand[c]
      BY <3>2, ConcatEmptySeq
    <3> QED BY <1>s, <3>1, <3>3
  <2> QED BY <1>4, <2>1, <2>2, <2>3
<1>5. ASSUME NEW e \in Clients,
             Hub!PumpFails(e) \/ \E t \in Hub!Threads : Hub!RemoveUnderLock(e, t)
      PROVE  \/ Hub!Stream(c)' = Hub!Stream(c)
             \/ gone'[c] /\ Range(Hub!Stream(c)') \subseteq Range(Hub!Stream(c))
  <2>1. CASE c # e
    <3>1. send'[c] = send[c] /\ inHand'[c] = inHand[c] /\ got'[c] = got[c]
      BY <1>t, <1>5, <2>1 DEF ChannelTypes, Hub!PumpFails, Hub!RemoveUnderLock
    <3> QED BY <1>s, <3>1
  <2>2. CASE c = e
    <3>1. /\ got'[c] = got[c] /\ inHand'[c] \in {<<>>, inHand[c]} /\ send'[c] \in {<<>>, send[c]}
          /\ gone'[c]
      BY <1>t, <1>5, <2>2 DEF ChannelTypes, ClientTypes, RemoveInv, Hub!PumpFails,
        Hub!RemoveUnderLock, Hub!PumpExit, Hub!Remove
    <3>2. <<>> \in Seq(Hub!Messages) /\ Range(<<>>) = {}
      BY DEF Range
    <3>3. inHand'[c] \in Seq(Hub!Messages) /\ send'[c] \in Seq(Hub!Messages)
          /\ Range(inHand'[c]) \subseteq Range(inHand[c]) /\ Range(send'[c]) \subseteq Range(send[c])
      BY <1>c, <3>1, <3>2
    <3>4. /\ Range(Hub!Stream(c)) = Range(got[c]) \cup Range(inHand[c]) \cup Range(send[c])
          /\ Range(Hub!Stream(c)') = Range(got[c]) \cup Range(inHand'[c]) \cup Range(send'[c])
      <4>1. got'[c] \in Seq(Hub!Messages)
        BY <1>c, <3>1
      <4>2. /\ Range((got[c] \o inHand[c]) \o send[c])
                 = Range(got[c]) \cup Range(inHand[c]) \cup Range(send[c])
            /\ Range((got'[c] \o inHand'[c]) \o send'[c])
                 = Range(got'[c]) \cup Range(inHand'[c]) \cup Range(send'[c])
        BY <1>c, <3>3, <4>1, StreamRange
      <4> QED BY <1>s, <3>1, <4>2
    <3> QED BY <3>1, <3>3, <3>4
  <2> QED BY <2>1, <2>2
<1> QED BY <1>0, <1>g, <1>1, <1>2, <1>3, <1>4, <1>5, ChannelsRest

-------------------------------------------------------------------------------
(* The hub: the order of the messages, with one broadcaster *)

(* The number that it holds is the newest, and the JSON payload of that    *)
(* number is published before the clients are listed.                      *)
CastInv ==
  /\ lastJSON <= seqNo
  /\ \A b \in Broadcasters :
       /\ cast[b].pc # "idle" => cast[b].seq = seqNo
       /\ cast[b].pc \in {"list", "fanout"} => lastJSON = seqNo
       /\ cast[b].pc = "fanout" => cast[b].to \notin cast[b].todo

LEMMA CastStep ==
  ASSUME Hub!HubConstants, Hub!OneBroadcaster, Hub!TypeOK, CastInv, [Hub!Next]_(Hub!vars)
  PROVE  CastInv' /\ lastJSON <= lastJSON'
<1>t. /\ seqNo \in Nat /\ lastJSON \in Nat /\ cast \in [Broadcasters -> Hub!CastStates]
      /\ clients \in SUBSET Clients /\ Hub!NoOne \notin Clients
  BY HubTypesAre DEF HubTypes, ClientTypes, Hub!HubConstants
<1>0. CASE UNCHANGED Hub!hubVars
  BY <1>t, <1>0 DEF CastInv, Hub!hubVars
<1>b. ASSUME NEW b \in Broadcasters, seqNo' \in Nat, lastJSON' <= seqNo', lastJSON <= lastJSON',
             cast'[b].pc # "idle" => cast'[b].seq = seqNo',
             cast'[b].pc \in {"list", "fanout"} => lastJSON' = seqNo',
             cast'[b].pc = "fanout" => cast'[b].to \notin cast'[b].todo
      PROVE  CastInv' /\ lastJSON <= lastJSON'
  <2>1. \A e \in Broadcasters : e = b
    BY DEF Hub!OneBroadcaster
  <2> QED BY <1>b, <2>1 DEF CastInv
<1>1. ASSUME NEW b \in Broadcasters, Hub!Stamp(b) PROVE CastInv' /\ lastJSON <= lastJSON'
  <2>1. /\ seqNo' = seqNo + 1 /\ lastJSON' = lastJSON
        /\ cast'[b] = [pc |-> "payload", seq |-> seqNo + 1]
    BY <1>t, <1>1 DEF Hub!Stamp
  <2> QED BY <1>t, <1>b, <2>1 DEF CastInv
<1>2. ASSUME NEW b \in Broadcasters, Hub!StorePayload(b) PROVE CastInv' /\ lastJSON <= lastJSON'
  <2>1. cast[b].pc = "payload" /\ [cast[b] EXCEPT !.pc = "json"] = [pc |-> "json", seq |-> cast[b].seq]
    BY <1>t, <1>2, CastTypes DEF Hub!StorePayload
  <2>2. UNCHANGED <<seqNo, lastJSON>> /\ cast'[b] = [pc |-> "json", seq |-> cast[b].seq]
    BY <1>t, <1>2, <2>1 DEF Hub!StorePayload
  <2>3. cast[b].seq = seqNo /\ lastJSON <= seqNo
    BY <2>1 DEF CastInv
  <2> QED BY <1>t, <1>b, <2>2, <2>3
<1>3. ASSUME NEW b \in Broadcasters, Hub!StoreJSON(b) PROVE CastInv' /\ lastJSON <= lastJSON'
  <2>1. cast[b].pc = "json" /\ [cast[b] EXCEPT !.pc = "list"] = [pc |-> "list", seq |-> cast[b].seq]
    BY <1>t, <1>3, CastTypes DEF Hub!StoreJSON
  <2>2. /\ lastJSON' = cast[b].seq /\ seqNo' = seqNo
        /\ cast'[b] = [pc |-> "list", seq |-> cast[b].seq]
    BY <1>t, <1>3, <2>1 DEF Hub!StoreJSON
  <2>3. cast[b].seq = seqNo
    BY <2>1 DEF CastInv
  <2> QED BY <1>t, <1>b, <2>2, <2>3 DEF CastInv
<1>4. ASSUME NEW b \in Broadcasters,
             Hub!ListClients(b) \/ \E c \in Clients : Hub!PickClient(b, c) \/ Hub!Offer(b, c)
      PROVE  CastInv' /\ lastJSON <= lastJSON'
  <2>1. cast[b].pc \in {"list", "fanout"} /\ UNCHANGED <<seqNo, lastJSON>>
    BY <1>4 DEF Hub!ListClients, Hub!PickClient, Hub!Offer, Hub!Target
  <2>2. cast[b].seq \in 1 .. MaxSeq /\ (cast[b].pc = "fanout" => cast[b].todo \in SUBSET Clients)
    BY <1>t, <2>1, CastTypes
  <2>3. PICK todo \in SUBSET Clients, to \in Clients \cup {Hub!NoOne} :
          Hub!FanOut(b, cast[b].seq, todo, to) /\ to \notin todo
    <3>1. CASE Hub!ListClients(b)
      BY <1>t, <3>1 DEF Hub!ListClients
    <3>2. ASSUME NEW c \in Clients, Hub!PickClient(b, c)
          PROVE  \E to \in {c, Hub!NoOne} : Hub!FanOut(b, cast[b].seq, cast[b].todo \ {c}, to)
      BY <3>2 DEF Hub!PickClient
    <3>3. ASSUME NEW c \in Clients, Hub!Offer(b, c)
          PROVE  Hub!FanOut(b, cast[b].seq, cast[b].todo, Hub!NoOne)
      BY <3>3 DEF Hub!Offer
    <3>4. ASSUME NEW c \in Clients, Hub!PickClient(b, c) \/ Hub!Offer(b, c)
          PROVE  cast[b].todo \in SUBSET Clients
      BY <2>2, <3>4 DEF Hub!PickClient, Hub!Offer, Hub!Target
    <3>5. ASSUME NEW c \in Clients, Hub!PickClient(b, c)
          PROVE  \E todo \in SUBSET Clients, to \in Clients \cup {Hub!NoOne} :
                   Hub!FanOut(b, cast[b].seq, todo, to) /\ to \notin todo
      <4>1. PICK to \in {c, Hub!NoOne} : Hub!FanOut(b, cast[b].seq, cast[b].todo \ {c}, to)
        BY <3>2, <3>5
      <4>2. /\ cast[b].todo \ {c} \in SUBSET Clients /\ to \in Clients \cup {Hub!NoOne}
            /\ to \notin cast[b].todo \ {c}
        BY <1>t, <3>4, <3>5
      <4> QED BY <4>1, <4>2
    <3>6. ASSUME NEW c \in Clients, Hub!Offer(b, c)
          PROVE  \E todo \in SUBSET Clients, to \in Clients \cup {Hub!NoOne} :
                   Hub!FanOut(b, cast[b].seq, todo, to) /\ to \notin todo
      <4>1. cast[b].todo \in SUBSET Clients /\ Hub!NoOne \notin cast[b].todo
        BY <1>t, <3>4, <3>6
      <4> QED BY <3>3, <3>6, <4>1
    <3> QED BY <1>4, <3>1, <3>5, <3>6
  <2>4. cast'[b] = IF todo = {} /\ to = Hub!NoOne THEN [pc |-> "idle"]
                   ELSE [pc |-> "fanout", seq |-> cast[b].seq, todo |-> todo, to |-> to]
    BY <1>t, <2>2, <2>3, FanOutTypes
  <2>5. cast[b].seq = seqNo /\ lastJSON = seqNo
    BY <2>1 DEF CastInv
  <2> QED BY <1>t, <1>b, <2>1, <2>3, <2>4, <2>5
<1>5. ASSUME NEW c \in Clients,
             \/ Hub!ReadCount(c) \/ Hub!ReadLast(c) \/ Hub!Register(c) \/ Hub!Bootstrap(c)
             \/ Hub!PumpCheck(c) \/ Hub!PumpTake(c) \/ Hub!PumpWrite(c) \/ Hub!PumpDone(c)
             \/ Hub!PumpFails(c) \/ Hub!ReadFails(c) \/ Hub!ConnCloses(c)
             \/ \E t \in Hub!Threads : Hub!RemoveUnderLock(c, t)
      PROVE  UNCHANGED Hub!hubVars
  BY <1>5 DEF Hub!ReadCount, Hub!ReadLast, Hub!Register, Hub!Bootstrap, Hub!PumpCheck,
    Hub!PumpTake, Hub!PumpWrite, Hub!PumpDone, Hub!PumpFails, Hub!ReadFails,
    Hub!ConnCloses, Hub!RemoveUnderLock
<1>6. CASE UNCHANGED Hub!vars
  BY <1>0, <1>6 DEF Hub!vars
<1> QED BY <1>0, <1>1, <1>2, <1>3, <1>4, <1>5, <1>6, HubActions

(* The payload that a handler has read, or has sent as the bootstrap, is   *)
(* no newer than what the client has been sent and than what it will be.   *)
BootInv ==
  \A c \in Clients :
    /\ upgrade[c].pc \in {"admitted", "registered"} =>
         /\ upgrade[c].last <= lastJSON
         /\ \A x \in Range(Hub!Stream(c)) : ~x.boot /\ upgrade[c].last <= x.seq
    /\ \A x \in Range(Hub!Stream(c)) : x.boot => x.seq <= lastJSON
    /\ \A x, y \in Range(Hub!Stream(c)) : x.boot /\ ~y.boot => x.seq <= y.seq

LEMMA MessageFields ==
  ASSUME Hub!HubConstants, NEW x \in Hub!Messages
  PROVE  x.seq \in Nat /\ x.boot \in BOOLEAN
BY DEF Hub!HubConstants, Hub!Messages

LEMMA BootStep ==
  ASSUME Hub!HubConstants, Hub!OneBroadcaster, Hub!TypeOK, RemoveInv, RegisterInv, CastInv,
         BootInv, [Hub!Next]_(Hub!vars)
  PROVE  BootInv'
<1> SUFFICES ASSUME NEW c \in Clients
             PROVE  /\ upgrade'[c].pc \in {"admitted", "registered"} =>
                         /\ upgrade'[c].last <= lastJSON'
                         /\ \A x \in Range(Hub!Stream(c)') : ~x.boot /\ upgrade'[c].last <= x.seq
                    /\ \A x \in Range(Hub!Stream(c)') : x.boot => x.seq <= lastJSON'
                    /\ \A x, y \in Range(Hub!Stream(c)') : x.boot /\ ~y.boot => x.seq <= y.seq
  BY DEF BootInv
<1> DEFINE S == Range(Hub!Stream(c))
<1>t. /\ lastJSON \in Nat /\ lastJSON' \in Nat /\ lastJSON <= lastJSON'
      /\ upgrade \in [Clients -> Hub!UpgradeStates]
      /\ cast \in [Broadcasters -> Hub!CastStates]
  <2>1. HubTypes'
    BY HubTypesStep
  <2> QED BY <2>1, CastStep, HubTypesAre DEF HubTypes, ClientTypes
<1>s. Hub!Stream(c) \in Seq(Hub!Messages)
  BY StreamStep
<1>m. S \subseteq Hub!Messages /\ \A x \in S : x.seq \in Nat /\ x.boot \in BOOLEAN
  <2>1. S \subseteq Hub!Messages
    BY <1>s, RangeOfSeq
  <2> QED BY <2>1, MessageFields
<1>r. \A x \in Hub!Messages : Range(Append(Hub!Stream(c), x)) = S \cup {x}
  BY <1>s, QueueRange
<1>i. /\ upgrade[c].pc \in {"admitted", "registered"} =>
           upgrade[c].last <= lastJSON /\ \A x \in S : ~x.boot /\ upgrade[c].last <= x.seq
      /\ \A x \in S : x.boot => x.seq <= lastJSON
      /\ \A x, y \in S : x.boot /\ ~y.boot => x.seq <= y.seq
  BY DEF BootInv
<1>u. \/ upgrade'[c] = upgrade[c]
      \/ upgrade'[c].pc \notin {"admitted", "registered"}
      \/ /\ upgrade'[c].pc = "registered" /\ upgrade[c].pc = "admitted"
         /\ upgrade'[c].last = upgrade[c].last
      \/ /\ upgrade'[c].pc = "admitted" /\ upgrade'[c].last = lastJSON
         /\ upgrade[c].pc = "counted" /\ Hub!Stream(c)' = Hub!Stream(c)
  <2>1. ASSUME NEW e \in Clients, Hub!ReadCount(e) \/ Hub!Bootstrap(e)
        PROVE  upgrade'[c] = upgrade[c] \/ upgrade'[c].pc \notin {"admitted", "registered"}
    BY <1>t, <2>1 DEF Hub!ReadCount, Hub!Bootstrap
  <2>2. ASSUME NEW e \in Clients, Hub!ReadLast(e)
        PROVE  \/ upgrade'[c] = upgrade[c]
               \/ upgrade'[c].pc \notin {"admitted", "registered"}
               \/ /\ upgrade'[c].pc = "admitted" /\ upgrade'[c].last = lastJSON
                  /\ upgrade[c].pc = "counted" /\ Hub!Stream(c)' = Hub!Stream(c)
    <3>1. UNCHANGED <<got, inHand, send>>
      BY <2>2 DEF Hub!ReadLast, Hub!connVars
    <3>2. Hub!Stream(c)' = Hub!Stream(c)
      BY <3>1 DEF Hub!Stream
    <3> QED BY <1>t, <2>2, <3>2 DEF Hub!ReadLast
  <2>3. ASSUME NEW e \in Clients, Hub!Register(e)
        PROVE  \/ upgrade'[c] = upgrade[c]
               \/ /\ upgrade'[c].pc = "registered" /\ upgrade[c].pc = "admitted"
                  /\ upgrade'[c].last = upgrade[c].last
    <3>1. CASE c # e
      BY <1>t, <2>3, <3>1 DEF Hub!Register
    <3>2. CASE c = e
      <4>1. upgrade[c] \in Hub!UpgradeStates /\ upgrade[c].pc = "admitted"
        BY <1>t, <2>3, <3>2 DEF Hub!Register
      <4>2. [upgrade[c] EXCEPT !.pc = "registered"] = [pc |-> "registered", last |-> upgrade[c].last]
        BY <4>1, UpgradeTypes
      <4>3. upgrade'[c] = [pc |-> "registered", last |-> upgrade[c].last]
        BY <1>t, <2>3, <3>2, <4>2 DEF Hub!Register
      <4> QED BY <4>1, <4>3
    <3> QED BY <3>1, <3>2
  <2>4. ASSUME NEW b \in Broadcasters,
               \/ Hub!Stamp(b) \/ Hub!StorePayload(b) \/ Hub!StoreJSON(b) \/ Hub!ListClients(b)
               \/ \E e \in Clients : Hub!PickClient(b, e) \/ Hub!Offer(b, e)
        PROVE  upgrade' = upgrade
    BY <2>4 DEF Hub!Stamp, Hub!StorePayload, Hub!StoreJSON, Hub!ListClients, Hub!PickClient,
      Hub!Offer
  <2>5. ASSUME NEW e \in Clients,
               \/ Hub!PumpCheck(e) \/ Hub!PumpTake(e) \/ Hub!PumpWrite(e) \/ Hub!PumpDone(e)
               \/ Hub!PumpFails(e) \/ Hub!ReadFails(e) \/ Hub!ConnCloses(e)
               \/ \E t \in Hub!Threads : Hub!RemoveUnderLock(e, t)
        PROVE  upgrade' = upgrade
    BY <2>5 DEF Hub!PumpCheck, Hub!PumpTake, Hub!PumpWrite, Hub!PumpDone, Hub!PumpFails,
      Hub!ReadFails, Hub!ConnCloses, Hub!RemoveUnderLock
  <2>6. CASE UNCHANGED Hub!vars
    BY <2>6 DEF Hub!vars
  <2> QED BY <2>1, <2>2, <2>3, <2>4, <2>5, <2>6, HubActions
<1>e. upgrade[c].pc = "counted" => S = {}
  <2> SUFFICES ASSUME upgrade[c].pc = "counted" PROVE S = {}
    OBVIOUS
  <2>1. send[c] = <<>> /\ got[c] = <<>> /\ inHand[c] = <<>>
    BY DEF RegisterInv
  <2>2. Hub!Stream(c) = <<>>
    BY <2>1 DEF Hub!Stream
  <2> QED BY <2>2 DEF Range
<1>l. upgrade[c].pc \in {"admitted", "registered"} => upgrade[c].last \in Nat
  <2>1. upgrade[c] \in Hub!UpgradeStates
    BY <1>t
  <2>2. upgrade[c].pc \in {"admitted", "registered"} => upgrade[c].last \in 0 .. MaxSeq
    BY <2>1, UpgradeTypes
  <2> QED BY <2>2
<1> HIDE DEF S
<1>1. CASE S' \subseteq S
  <2>1. upgrade'[c].pc \in {"admitted", "registered"} =>
          upgrade'[c].last <= lastJSON' /\ \A x \in S' : ~x.boot /\ upgrade'[c].last <= x.seq
    BY <1>t, <1>i, <1>u, <1>e, <1>l, <1>1
  <2>2. \A x \in S' : x.boot => x.seq <= lastJSON'
    BY <1>t, <1>m, <1>i, <1>1
  <2>3. \A x, y \in S' : x.boot /\ ~y.boot => x.seq <= y.seq
    BY <1>i, <1>1
  <2> QED BY <2>1, <2>2, <2>3 DEF S
<1>2. ASSUME NEW b \in Broadcasters, Hub!Offer(b, c),
             [seq |-> cast[b].seq, boot |-> FALSE] \in Hub!Messages,
             Hub!Stream(c)' = Append(Hub!Stream(c), [seq |-> cast[b].seq, boot |-> FALSE])
      PROVE  S' \subseteq S \cup {[seq |-> lastJSON, boot |-> FALSE]} /\ upgrade' = upgrade
  <2>1. Range(Append(Hub!Stream(c), [seq |-> cast[b].seq, boot |-> FALSE]))
          = S \cup {[seq |-> cast[b].seq, boot |-> FALSE]}
    BY <1>r, <1>2
  <2>2. cast[b].seq = lastJSON /\ upgrade' = upgrade
    BY <1>2 DEF CastInv, Hub!Offer, Hub!Target
  <2> QED BY <1>2, <2>1, <2>2 DEF S
<1>3. CASE S' \subseteq S \cup {[seq |-> lastJSON, boot |-> FALSE]} /\ upgrade' = upgrade
  <2> DEFINE new == [seq |-> lastJSON, boot |-> FALSE]
  <2>0. new.seq = lastJSON /\ new.boot = FALSE /\ S' \subseteq S \cup {new}
    BY <1>3
  <2> HIDE DEF new
  <2>1. upgrade'[c].pc \in {"admitted", "registered"} =>
          upgrade'[c].last <= lastJSON' /\ \A x \in S' : ~x.boot /\ upgrade'[c].last <= x.seq
    BY <1>t, <1>i, <1>l, <1>3, <2>0
  <2>2. \A x \in S' : x.boot => x.seq <= lastJSON'
    BY <1>t, <1>m, <1>i, <2>0
  <2>3. \A x, y \in S' : x.boot /\ ~y.boot => x.seq <= y.seq
    BY <1>t, <1>i, <2>0
  <2> QED BY <2>1, <2>2, <2>3 DEF S
<1>4. ASSUME Hub!Bootstrap(c), [seq |-> upgrade[c].last, boot |-> TRUE] \in Hub!Messages,
             Hub!Stream(c)' = Append(Hub!Stream(c), [seq |-> upgrade[c].last, boot |-> TRUE])
      PROVE  /\ S' \subseteq S \cup {[seq |-> upgrade[c].last, boot |-> TRUE]}
             /\ upgrade[c].pc = "registered" /\ upgrade'[c].pc = "open"
  <2>1. Range(Append(Hub!Stream(c), [seq |-> upgrade[c].last, boot |-> TRUE]))
          = S \cup {[seq |-> upgrade[c].last, boot |-> TRUE]}
    BY <1>r, <1>4
  <2>2. upgrade[c].pc = "registered" /\ upgrade'[c].pc = "open"
    BY <1>t, <1>4 DEF Hub!Bootstrap
  <2> QED BY <1>4, <2>1, <2>2 DEF S
<1>5. CASE /\ S' \subseteq S \cup {[seq |-> upgrade[c].last, boot |-> TRUE]}
           /\ upgrade[c].pc = "registered" /\ upgrade'[c].pc = "open"
  <2> DEFINE new == [seq |-> upgrade[c].last, boot |-> TRUE]
  <2>0. new.seq = upgrade[c].last /\ new.boot = TRUE /\ S' \subseteq S \cup {new}
    BY <1>5
  <2> HIDE DEF new
  <2>1. \A x \in S' : x.boot => x.seq <= lastJSON'
    BY <1>t, <1>m, <1>i, <1>l, <1>5, <2>0
  <2>2. \A x, y \in S' : x.boot /\ ~y.boot => x.seq <= y.seq
    BY <1>i, <1>5, <2>0
  <2> QED BY <1>5, <2>1, <2>2 DEF S
<1>6. \/ S' \subseteq S
      \/ S' \subseteq S \cup {[seq |-> lastJSON, boot |-> FALSE]} /\ upgrade' = upgrade
      \/ /\ S' \subseteq S \cup {[seq |-> upgrade[c].last, boot |-> TRUE]}
         /\ upgrade[c].pc = "registered" /\ upgrade'[c].pc = "open"
  <2>1. CASE Hub!Stream(c)' = Hub!Stream(c)
    BY <2>1 DEF S
  <2>2. CASE gone'[c] /\ Range(Hub!Stream(c)') \subseteq Range(Hub!Stream(c))
    BY <2>2 DEF S
  <2> QED BY <1>2, <1>4, <2>1, <2>2, StreamStep
<1> QED BY <1>1, <1>3, <1>5, <1>6

(* The last broadcast that a client in the map has been offered. *)
Reached(c) ==
  IF \E b \in Broadcasters : cast[b].pc \in {"payload", "json", "list"} \/ Due(b, c)
  THEN seqNo - 1 ELSE seqNo

(* The stream of a client that is not removed ends with that broadcast, if *)
(* it has begun.                                                           *)
GapInv == \A c \in Clients : ~gone[c] => Chained(Hub!Stream(c), Reached(c))

(* What a step does to the broadcast that a live client has reached: a     *)
(* client that is listed or passed over has not been registered yet.       *)
LEMMA ReachedStep ==
  ASSUME Hub!HubConstants, Hub!OneBroadcaster, Hub!TypeOK, RemoveInv, RegisterInv, CastInv,
         [Hub!Next]_(Hub!vars), NEW c \in Clients, ~gone'[c]
  PROVE  \/ Reached(c)' = Reached(c) /\ ~\E b \in Broadcasters : Hub!Offer(b, c)
         \/ Hub!Stream(c) = <<>> /\ ~\E b \in Broadcasters : Hub!Offer(b, c)
         \/ \E b \in Broadcasters :
              /\ Hub!Offer(b, c) /\ cast[b].seq = seqNo
              /\ Reached(c) = seqNo - 1 /\ Reached(c)' = seqNo
              /\ Hub!Stream(c)' # Hub!Stream(c)
<1>t. /\ seqNo \in Nat /\ cast \in [Broadcasters -> Hub!CastStates]
      /\ clients \in SUBSET Clients /\ Hub!NoOne \notin Clients
  BY HubTypesAre DEF HubTypes, ClientTypes, Hub!HubConstants
<1>b. ASSUME NEW b \in Broadcasters
      PROVE  /\ Reached(c) = IF cast[b].pc \in {"payload", "json", "list"} \/ Due(b, c)
                             THEN seqNo - 1 ELSE seqNo
             /\ Reached(c)' = IF cast'[b].pc \in {"payload", "json", "list"} \/ Due(b, c)'
                              THEN seqNo' - 1 ELSE seqNo'
  <2>1. \A e \in Broadcasters : e = b
    BY DEF Hub!OneBroadcaster
  <2> QED BY <2>1 DEF Reached
<1>g. ~gone[c]
  BY StreamStep
<1>1. ASSUME NEW b \in Broadcasters, Hub!Stamp(b) PROVE Reached(c)' = Reached(c)
  <2>1. /\ cast[b].pc = "idle" /\ cast'[b].pc = "payload" /\ seqNo' = seqNo + 1
    BY <1>t, <1>1 DEF Hub!Stamp
  <2> QED BY <1>t, <1>b, <2>1 DEF Due
<1>2. ASSUME NEW b \in Broadcasters, Hub!StorePayload(b) PROVE Reached(c)' = Reached(c)
  <2>1. cast[b].pc = "payload" /\ [cast[b] EXCEPT !.pc = "json"].pc = "json"
    BY <1>t, <1>2, CastTypes DEF Hub!StorePayload
  <2>2. cast'[b].pc = "json" /\ seqNo' = seqNo
    BY <1>t, <1>2, <2>1 DEF Hub!StorePayload
  <2> QED BY <1>t, <1>b, <2>1, <2>2
<1>3. ASSUME NEW b \in Broadcasters, Hub!StoreJSON(b) PROVE Reached(c)' = Reached(c)
  <2>1. cast[b].pc = "json" /\ [cast[b] EXCEPT !.pc = "list"].pc = "list"
    BY <1>t, <1>3, CastTypes DEF Hub!StoreJSON
  <2>2. cast'[b].pc = "list" /\ seqNo' = seqNo
    BY <1>t, <1>3, <2>1 DEF Hub!StoreJSON
  <2> QED BY <1>t, <1>b, <2>1, <2>2
<1>4. ASSUME NEW b \in Broadcasters, Hub!ListClients(b)
      PROVE  Reached(c)' = Reached(c) \/ Hub!Stream(c) = <<>>
  <2>1. cast[b].pc = "list" /\ seqNo' = seqNo /\ Hub!FanOut(b, cast[b].seq, clients, Hub!NoOne)
    BY <1>4 DEF Hub!ListClients
  <2>2. cast[b].seq \in 1 .. MaxSeq
    BY <1>t, <2>1, CastTypes
  <2>3. cast'[b] = IF clients = {} THEN [pc |-> "idle"]
                   ELSE [pc |-> "fanout", seq |-> cast[b].seq, todo |-> clients, to |-> Hub!NoOne]
    BY <1>t, <2>1, <2>2, FanOutTypes
  <2>4. CASE c \in clients
    <3>1. Due(b, c)'
      BY <2>3, <2>4 DEF Due
    <3> QED BY <1>b, <2>1, <3>1
  <2>5. CASE c \notin clients
    <3>1. send[c] = <<>> /\ got[c] = <<>> /\ inHand[c] = <<>>
      BY <1>g, <2>5 DEF RegisterInv
    <3> QED BY <3>1 DEF Hub!Stream
  <2> QED BY <2>4, <2>5
<1>5. ASSUME NEW b \in Broadcasters, NEW e \in Clients, Hub!PickClient(b, e)
      PROVE  Reached(c)' = Reached(c)
  <2> DEFINE to == IF gone[e] THEN Hub!NoOne ELSE e
  <2>1. /\ cast[b].pc = "fanout" /\ cast[b].to = Hub!NoOne /\ e \in cast[b].todo /\ seqNo' = seqNo
        /\ Hub!FanOut(b, cast[b].seq, cast[b].todo \ {e}, to)
    BY <1>5 DEF Hub!PickClient
  <2>2. cast[b].seq \in 1 .. MaxSeq /\ cast[b].todo \in SUBSET Clients
    BY <1>t, <2>1, CastTypes
  <2>3. to \in Clients \cup {Hub!NoOne} /\ (to = Hub!NoOne => gone[e]) /\ (to # Hub!NoOne => to = e)
    BY <1>t
  <2> HIDE DEF to
  <2>4. cast'[b] = IF cast[b].todo \ {e} = {} /\ to = Hub!NoOne THEN [pc |-> "idle"]
                   ELSE [pc |-> "fanout", seq |-> cast[b].seq, todo |-> cast[b].todo \ {e}, to |-> to]
    BY <1>t, <2>1, <2>2, <2>3, FanOutTypes
  <2>5. Due(b, c)' <=> Due(b, c)
    <3>1. CASE cast[b].todo \ {e} = {} /\ to = Hub!NoOne
      <4>1. ~Due(b, c)'
        BY <2>4, <3>1 DEF Due
      <4>2. c \notin cast[b].todo
        BY <1>g, <2>3, <3>1
      <4> QED BY <1>t, <2>1, <4>1, <4>2 DEF Due
    <3>2. CASE ~(cast[b].todo \ {e} = {} /\ to = Hub!NoOne)
      <4>1. /\ cast'[b].pc = "fanout" /\ cast'[b].todo = cast[b].todo \ {e} /\ cast'[b].to = to
        BY <2>4, <3>2
      <4>2. Due(b, c)' <=> c \in cast[b].todo \ {e} \/ to = c
        BY <4>1 DEF Due
      <4> QED BY <1>t, <1>g, <2>1, <2>3, <4>2 DEF Due
    <3> QED BY <3>1, <3>2
  <2>6. cast[b].pc \notin {"payload", "json", "list"} /\ cast'[b].pc \notin {"payload", "json", "list"}
    BY <2>1, <2>4
  <2> QED BY <1>b, <2>1, <2>5, <2>6
<1>6. ASSUME NEW b \in Broadcasters, NEW e \in Clients, Hub!Offer(b, e)
      PROVE  IF c = e THEN /\ cast[b].seq = seqNo /\ Reached(c) = seqNo - 1 /\ Reached(c)' = seqNo
                           /\ Hub!Stream(c)' # Hub!Stream(c)
             ELSE Reached(c)' = Reached(c)
  <2>1. /\ cast[b].pc = "fanout" /\ cast[b].to = e /\ seqNo' = seqNo
        /\ Hub!FanOut(b, cast[b].seq, cast[b].todo, Hub!NoOne)
    BY <1>6 DEF Hub!Offer, Hub!Target
  <2>2. cast[b].seq \in 1 .. MaxSeq /\ cast[b].todo \in SUBSET Clients
    BY <1>t, <2>1, CastTypes
  <2>3. cast'[b] = IF cast[b].todo = {} THEN [pc |-> "idle"]
                   ELSE [pc |-> "fanout", seq |-> cast[b].seq, todo |-> cast[b].todo,
                         to |-> Hub!NoOne]
    BY <1>t, <2>1, <2>2, FanOutTypes
  <2>4. cast[b].seq = seqNo /\ e \notin cast[b].todo
    BY <2>1 DEF CastInv
  <2>5. Due(b, c)' <=> c \in cast[b].todo
    BY <1>t, <2>3 DEF Due
  <2>6. cast[b].pc \notin {"payload", "json", "list"} /\ cast'[b].pc \notin {"payload", "json", "list"}
    BY <2>1, <2>3
  <2>7. CASE c # e
    <3>1. Due(b, c) <=> c \in cast[b].todo
      BY <2>1, <2>7 DEF Due
    <3> QED BY <1>b, <2>1, <2>5, <2>6, <2>7, <3>1
  <2>8. CASE c = e
    <3>1. Due(b, c) /\ ~Due(b, c)'
      BY <2>1, <2>4, <2>5, <2>8 DEF Due
    <3>2. done[c] \in Nat /\ done[c] = 0
      BY <1>g, HubTypesAre DEF ClientTypes, RemoveInv
    <3>3. send'[c] = Append(send[c], [seq |-> cast[b].seq, boot |-> FALSE])
          /\ got'[c] = got[c] /\ inHand'[c] = inHand[c]
      BY <1>6, <2>8, <3>2, HubTypesAre DEF Hub!Offer, Hub!Remove, ClientTypes, ChannelTypes
    <3>4. Hub!Stream(c)' # Hub!Stream(c)
      <4>1. /\ [seq |-> cast[b].seq, boot |-> FALSE] \in Hub!Messages
            /\ send[c] \in Seq(Hub!Messages) /\ got[c] \in Seq(Hub!Messages)
            /\ inHand[c] \in Seq(Hub!Messages)
        BY <2>2, HubTypesAre, MessageTypes DEF ChannelTypes
      <4>2. /\ send'[c] \in Seq(Hub!Messages) /\ Len(send'[c]) = Len(send[c]) + 1
            /\ Len(send[c]) \in Nat
        BY <3>3, <4>1, QueueRange
      <4>3. got[c] \o inHand[c] \in Seq(Hub!Messages)
        BY <4>1, ConcatProperties
      <4>4. /\ Len((got[c] \o inHand[c]) \o send[c]) = Len(got[c] \o inHand[c]) + Len(send[c])
            /\ Len((got[c] \o inHand[c]) \o send'[c]) = Len(got[c] \o inHand[c]) + Len(send'[c])
            /\ Len(got[c] \o inHand[c]) \in Nat
        BY <4>1, <4>2, <4>3, ConcatProperties, LenProperties
      <4>5. Len(Hub!Stream(c)') # Len(Hub!Stream(c))
        <5>1. /\ Hub!Stream(c) = (got[c] \o inHand[c]) \o send[c]
              /\ Hub!Stream(c)' = (got[c] \o inHand[c]) \o send'[c]
          BY <3>3 DEF Hub!Stream
        <5> DEFINE p == Len(got[c] \o inHand[c])
                   q == Len(send[c])
                   r == Len(send'[c])
        <5>2. Len(Hub!Stream(c)) = p + q /\ Len(Hub!Stream(c)') = p + r
          BY <4>4, <5>1
        <5>3. p \in Nat /\ q \in Nat /\ r = q + 1
          BY <4>2, <4>4
        <5> HIDE DEF p, q, r
        <5>4. p + q # p + r
          BY <5>3
        <5> QED BY <5>2, <5>4
      <4> QED BY <4>5
    <3> QED BY <1>b, <2>1, <2>4, <2>6, <2>8, <3>1, <3>4
  <2> QED BY <2>7, <2>8
<1>7. ASSUME UNCHANGED <<cast, seqNo>> PROVE Reached(c)' = Reached(c)
  BY <1>7 DEF Reached, Due
<1>8. ASSUME NEW e \in Clients,
             \/ Hub!ReadCount(e) \/ Hub!ReadLast(e) \/ Hub!Register(e) \/ Hub!Bootstrap(e)
             \/ Hub!PumpCheck(e) \/ Hub!PumpTake(e) \/ Hub!PumpWrite(e) \/ Hub!PumpDone(e)
             \/ Hub!PumpFails(e) \/ Hub!ReadFails(e) \/ Hub!ConnCloses(e)
             \/ \E t \in Hub!Threads : Hub!RemoveUnderLock(e, t)
      PROVE  UNCHANGED <<cast, seqNo>>
  BY <1>8 DEF Hub!ReadCount, Hub!ReadLast, Hub!Register, Hub!Bootstrap, Hub!PumpCheck,
    Hub!PumpTake, Hub!PumpWrite, Hub!PumpDone, Hub!PumpFails, Hub!ReadFails,
    Hub!ConnCloses, Hub!RemoveUnderLock, Hub!hubVars
<1>9. ASSUME UNCHANGED Hub!vars PROVE Reached(c)' = Reached(c)
  BY <1>7, <1>9 DEF Hub!vars, Hub!hubVars
<1>10. ASSUME NEW b \in Broadcasters, Hub!Offer(b, c)
       PROVE  /\ cast[b].seq = seqNo /\ Reached(c) = seqNo - 1 /\ Reached(c)' = seqNo
              /\ Hub!Stream(c)' # Hub!Stream(c)
  BY <1>6, <1>10
<1> QED BY <1>1, <1>2, <1>3, <1>4, <1>5, <1>6, <1>7, <1>8, <1>9, <1>10, HubActions

LEMMA GapStep ==
  ASSUME Hub!HubConstants, Hub!OneBroadcaster, Hub!TypeOK, RemoveInv, RegisterInv, CastInv,
         GapInv, [Hub!Next]_(Hub!vars)
  PROVE  GapInv'
<1> SUFFICES ASSUME NEW c \in Clients, ~gone'[c]
             PROVE  Chained(Hub!Stream(c)', Reached(c)')
  BY DEF GapInv, Chained
<1> DEFINE s == Hub!Stream(c)
<1>0. s \in Seq(Hub!Messages) /\ ~gone[c] /\ seqNo \in Nat
  <2>1. s \in Seq(Hub!Messages) /\ ~gone[c]
    BY StreamStep
  <2>2. seqNo \in Nat
    BY HubTypesAre DEF HubTypes
  <2> QED BY <2>1, <2>2
<1>1. Chained(s, Reached(c))
  BY <1>0 DEF GapInv
<1>e. \A l : Chained(<<>>, l)
  BY DEF Chained
<1>2. CASE ~\E b \in Broadcasters : Hub!Offer(b, c)
  <2>1. Chained(s, Reached(c)')
    <3>1. CASE Reached(c)' = Reached(c)
      BY <1>1, <3>1
    <3>2. CASE s = <<>>
      BY <1>e, <3>2
    <3> QED BY <1>2, <3>1, <3>2, ReachedStep
  <2>2. \/ s' = s
        \/ \E x \in Hub!Messages : x.boot /\ s' = Append(s, x)
    BY <1>2, StreamStep
  <2>3. ASSUME NEW x \in Hub!Messages, x.boot PROVE Chained(Append(s, x), Reached(c)')
    BY <1>0, <2>1, <2>3, ChainGrows
  <2> QED BY <2>1, <2>2, <2>3
<1>3. ASSUME NEW b \in Broadcasters, Hub!Offer(b, c) PROVE Chained(s', Reached(c)')
  <2>1. PICK e \in Broadcasters : /\ cast[e].seq = seqNo
                                  /\ Reached(c) = seqNo - 1 /\ Reached(c)' = seqNo
                                  /\ s' # s
    BY <1>3, ReachedStep
  <2>2. ~Hub!Bootstrap(c)
    <3>1. upgrade' = upgrade
      BY <1>3 DEF Hub!Offer
    <3>2. Hub!Bootstrap(c) => upgrade'[c].pc # upgrade[c].pc
      BY HubTypesAre DEF ClientTypes, Hub!Bootstrap
    <3> QED BY <3>1, <3>2
  <2>3. PICK d \in Broadcasters :
          /\ [seq |-> cast[d].seq, boot |-> FALSE] \in Hub!Messages
          /\ s' = Append(s, [seq |-> cast[d].seq, boot |-> FALSE])
    BY <2>1, <2>2, StreamStep
  <2>4. d = e
    BY DEF Hub!OneBroadcaster
  <2> DEFINE x == [seq |-> cast[d].seq, boot |-> FALSE]
  <2>5. x \in Hub!Messages /\ ~x.boot /\ x.seq = seqNo /\ x.seq = Reached(c) + 1
    BY <1>0, <2>1, <2>3, <2>4
  <2>6. s' = Append(s, x)
    BY <2>3
  <2> HIDE DEF x, s
  <2>7. Chained(Append(s, x), x.seq)
    BY <1>0, <1>1, <2>5, ChainGrows
  <2> QED BY <2>1, <2>5, <2>6, <2>7
<1> QED BY <1>2, <1>3

(* A client that falls behind is cut off and never starved of single       *)
(* messages; the bootstrap payload that may reach it late is not newer     *)
(* than what follows it (hub.go: Broadcast's fan-out against               *)
(* HandleUpgrade and the pumps); and its done channel is closed once.  The *)
(* engine has one broadcaster, its tick; with two this would be false.     *)
THEOREM StreamStaysWhole == Hub!Spec => []StreamWhole
<1> DEFINE HubInv == RemoveInv /\ RegisterInv /\ CastInv /\ BootInv /\ GapInv
<1> USE HubAssumption
<1>1. Hub!Init => HubInv
  <2> SUFFICES ASSUME Hub!Init PROVE HubInv
    OBVIOUS
  <2>1. RemoveInv /\ RegisterInv
    BY DEF Hub!Init, RemoveInv, RegisterInv, Due
  <2>2. CastInv
    BY DEF Hub!Init, CastInv
  <2>3. ASSUME NEW c \in Clients PROVE Hub!Stream(c) = <<>> /\ upgrade[c].pc = "new"
    BY <2>3 DEF Hub!Init, Hub!Stream
  <2>4. BootInv
    BY <2>3 DEF BootInv, Range
  <2>5. GapInv
    BY <2>3 DEF GapInv, Chained
  <2> QED BY <2>1, <2>2, <2>4, <2>5
<1>2. HubInv /\ Hub!TypeOK /\ [Hub!Next]_(Hub!vars) => HubInv'
  BY RemoveStep, RegisterStep, CastStep, BootStep, GapStep
<1>3. HubInv /\ Hub!TypeOK => StreamWhole
  <2> SUFFICES ASSUME HubInv, Hub!TypeOK PROVE StreamWhole
    OBVIOUS
  <2>1. Hub!NoGaps
    BY DEF GapInv, Chained, Hub!NoGaps
  <2>2. Hub!BootstrapNotNewer
    <3>1. \A c \in Clients : \A m \in DOMAIN Hub!Stream(c) : Hub!Stream(c)[m] \in Range(Hub!Stream(c))
      BY DEF Range
    <3> QED BY <3>1 DEF BootInv, Hub!BootstrapNotNewer
  <2>3. Hub!DoneClosedOnce
    BY DEF RemoveInv, Hub!DoneClosedOnce
  <2> QED BY <2>1, <2>2, <2>3 DEF StreamWhole, Hub!StreamWhole
<1> HIDE DEF HubInv
<1> QED BY <1>1, <1>2, <1>3, HubTypeCorrect, PTL DEF Hub!Spec

-------------------------------------------------------------------------------
(* The collector: types *)

(* The library of the collector's module is that of this one. *)
LEMMA SameLibrary ==
  ASSUME NEW s
  PROVE  Client!Range(s) = Range(s) /\ Client!Last(s) = s[Len(s)]
BY DEF Client!Range, Range, Client!Last

(* The actions of the collector, one by one. *)
LEMMA ClientActions ==
  ASSUME [Client!Next]_(Client!vars)
  PROVE  \/ Client!Enqueue \/ Client!Cancel \/ Client!CooldownPasses
         \/ Client!Receive \/ Client!TickerFires \/ Client!SeesCancel
         \/ Client!GivesUp \/ Client!TakesToken \/ Client!CheckCircuit
         \/ Client!PostSucceeds \/ Client!PostFails
         \/ Client!BackoffEnds \/ Client!BackoffCancelled
         \/ UNCHANGED Client!vars
BY DEF Client!Next, Client!Run

CollectorTypes ==
  /\ batchMax \in BatchSizes /\ built \in Nat
  /\ points \in Seq(Nat) /\ batch \in Seq(Nat) /\ posted \in Seq(Seq(Nat))
  /\ pc \in {"select", "token", "check", "post", "backoff", "returned"}
  /\ attempt \in 0 .. Attempts - 1 /\ failures \in 0 .. CircuitOpenAfter
  /\ breaker \in {"closed", "open", "expired"} /\ spent \in Nat

LEMMA CollectorTypesStep ==
  ASSUME Client!ClientConstants, CollectorTypes, [Client!Next]_(Client!vars)
  PROVE  CollectorTypes'
<1>k. Attempts \in Nat /\ Attempts > 0 /\ CircuitOpenAfter \in Nat /\ CircuitOpenAfter > 0
      /\ BatchSizes \subseteq Nat \ {0}
  BY DEF Client!ClientConstants
<1>t. CollectorTypes
  OBVIOUS
<1>e. <<>> \in Seq(Nat)
  OBVIOUS
<1> USE DEF CollectorTypes
<1>1. CASE Client!Enqueue
  <2>1. built' = built + 1 /\ points' \in {points, Append(points, built + 1)}
    BY <1>1 DEF Client!Enqueue
  <2>2. built + 1 \in Nat
    BY <1>t
  <2>3. Append(points, built + 1) \in Seq(Nat)
    BY <1>t, <2>2, AppendProperties
  <2>4. points' \in Seq(Nat)
    BY <1>t, <2>1, <2>3
  <2> QED BY <1>t, <1>1, <2>1, <2>2, <2>4 DEF Client!Enqueue
<1>2. CASE Client!Cancel \/ Client!CooldownPasses \/ UNCHANGED Client!vars
  BY <1>t, <1>2 DEF Client!Cancel, Client!CooldownPasses, Client!vars, Client!pipe
<1>3. CASE Client!Receive
  <2>1. /\ points # <<>> /\ points' = Tail(points)
        /\ batch' = Append(IF Len(batch) >= 4 * batchMax THEN Tail(batch) ELSE batch, Head(points))
    BY <1>3 DEF Client!Receive
  <2>2. Head(points) \in Nat /\ Tail(points) \in Seq(Nat)
    BY <1>t, <2>1, QueueRange
  <2>3. Len(batch) >= 4 * batchMax => batch # <<>>
    BY <1>k, <1>t
  <2>4. (IF Len(batch) >= 4 * batchMax THEN Tail(batch) ELSE batch) \in Seq(Nat)
    BY <1>t, <2>3, QueueRange
  <2>5. batch' \in Seq(Nat)
    BY <2>1, <2>2, <2>4, AppendProperties
  <2>6. pc' \in {"select", "token"}
    BY <1>3 DEF Client!Receive, Client!StartFlush
  <2> QED BY <1>t, <1>3, <2>1, <2>2, <2>5, <2>6 DEF Client!Receive
<1>4. CASE Client!TickerFires \/ Client!SeesCancel \/ Client!GivesUp \/ Client!TakesToken
           \/ Client!BackoffEnds
  BY <1>t, <1>4 DEF Client!TickerFires, Client!SeesCancel, Client!GivesUp, Client!TakesToken,
    Client!BackoffEnds, Client!StartFlush, Client!AfterFlush, Client!pipe
<1>5. CASE Client!CheckCircuit \/ Client!BackoffCancelled
  <2>1. /\ UNCHANGED <<batchMax, built, points, posted, failures, breaker, spent>>
        /\ batch' \in {batch, <<>>} /\ attempt' \in {attempt, 0}
        /\ pc' \in {"post", "select", "returned"}
    BY <1>5 DEF Client!CheckCircuit, Client!BackoffCancelled, Client!FlushFailed,
      Client!AfterFlush, Client!pipe
  <2>2. batch' \in Seq(Nat) /\ attempt' \in 0 .. Attempts - 1
    <3>1. batch' \in Seq(Nat)
      BY <1>t, <1>e, <2>1
    <3>2. attempt' \in 0 .. Attempts - 1
      BY <1>k, <1>t, <2>1
    <3> QED BY <3>1, <3>2
  <2> QED BY <1>t, <2>1, <2>2
<1>6. Append(posted, batch) \in Seq(Seq(Nat))
  BY <1>t, AppendProperties
<1>7. CASE Client!PostSucceeds
  BY <1>k, <1>t, <1>6, <1>7 DEF Client!PostSucceeds, Client!recordSuccess, Client!AfterFlush,
    Client!pipe
<1>8. CASE Client!PostFails
  <2>1. /\ UNCHANGED <<batchMax, built, points>> /\ posted' \in {posted, Append(posted, batch)}
        /\ spent' \in {spent, spent + 1} /\ batch' \in {batch, <<>>}
        /\ pc' \in {"backoff", "select", "returned"}
    BY <1>8 DEF Client!PostFails, Client!FlushFailed, Client!AfterFlush, Client!pipe
  <2>2. attempt' \in 0 .. Attempts - 1
    BY <1>k, <1>t, <1>8 DEF Client!PostFails, Client!FlushFailed
  <2>3. /\ failures' \in 0 .. CircuitOpenAfter /\ breaker' \in {"closed", "open", "expired"}
    BY <1>k, <1>t, <1>8 DEF Client!PostFails, Client!recordFailure
  <2>4. batch' \in Seq(Nat) /\ posted' \in Seq(Seq(Nat)) /\ spent' \in Nat
    <3>1. batch' \in Seq(Nat)
      BY <1>t, <1>e, <2>1
    <3>2. posted' \in Seq(Seq(Nat))
      BY <1>t, <1>6, <2>1
    <3> QED BY <1>t, <2>1, <3>1, <3>2
  <2> QED BY <1>t, <2>1, <2>2, <2>3, <2>4
<1> QED BY <1>1, <1>2, <1>3, <1>4, <1>5, <1>7, <1>8, ClientActions

-------------------------------------------------------------------------------
(* The collector: no point is lost, none overtakes another *)

(* Where a point may be. *)
Traced(p) ==
  \/ p \in Range(points) \cup Range(batch) \cup dropped \cup failed
  \/ \E n \in DOMAIN posted : p \in Range(posted[n])

LEMMA AccountedStep ==
  ASSUME Client!ClientConstants, CollectorTypes, Client!Accounted, [Client!Next]_(Client!vars)
  PROVE  Client!Accounted'
<1>r. \A s : Client!Range(s) = Range(s)
  BY SameLibrary
<1>k. BatchSizes \subseteq Nat \ {0}
  BY DEF Client!ClientConstants
<1>t. /\ built \in Nat /\ points \in Seq(Nat) /\ batch \in Seq(Nat) /\ posted \in Seq(Seq(Nat))
      /\ batchMax \in Nat \ {0}
  BY <1>k DEF CollectorTypes
<1>a. \A p \in 1 .. built : Traced(p)
  BY <1>r DEF Client!Accounted, Traced, Range
<1>g. SUFFICES ASSUME NEW p \in 1 .. built' PROVE Traced(p)'
  BY <1>r DEF Client!Accounted, Traced, Range
<1>e. Range(<<>>) = {}
  BY DEF Range
<1>p. posted' = Append(posted, batch) =>
        /\ \A n \in DOMAIN posted : n \in DOMAIN posted' /\ posted'[n] = posted[n]
        /\ \E n \in DOMAIN posted' : posted'[n] = batch
  <2>1. /\ DOMAIN Append(posted, batch) = 1 .. Len(posted) + 1 /\ DOMAIN posted = 1 .. Len(posted)
        /\ Len(posted) \in Nat
        /\ \A n \in 1 .. Len(posted) : Append(posted, batch)[n] = posted[n]
        /\ Append(posted, batch)[Len(posted) + 1] = batch
    BY <1>t, AppendProperties, LenProperties
  <2> QED BY <2>1
<1>f. ASSUME Client!FlushFailed, p \in Range(batch) PROVE p \in failed'
  BY <1>r, <1>f DEF Client!FlushFailed
<1>1. CASE Client!Enqueue
  <2>1. built' = built + 1 /\ UNCHANGED <<batch, failed, posted>>
        /\ \/ points' = Append(points, built + 1) /\ dropped' = dropped
           \/ points' = points /\ dropped' = dropped \cup {built + 1}
    BY <1>1 DEF Client!Enqueue
  <2>2. Range(Append(points, built + 1)) = Range(points) \cup {built + 1}
    <3>1. built + 1 \in Nat
      BY <1>t
    <3> QED BY <1>t, <3>1, QueueRange
  <2>3. p \in 1 .. built \/ p = built + 1
    BY <1>t, <2>1
  <2> QED BY <1>a, <2>1, <2>2, <2>3 DEF Traced
<1>b. (p \in 1 .. built /\ built' = built) \/ Client!Enqueue
  BY ClientActions DEF Client!Cancel, Client!CooldownPasses, Client!Receive, Client!TickerFires,
    Client!SeesCancel, Client!GivesUp, Client!TakesToken, Client!CheckCircuit,
    Client!PostSucceeds, Client!PostFails, Client!BackoffEnds, Client!BackoffCancelled,
    Client!pipe, Client!vars
<1>2. CASE /\ UNCHANGED <<points, batch, dropped, failed, posted>>
  BY <1>1, <1>a, <1>b, <1>2 DEF Traced
<1>3. CASE Client!Receive
  <2>1. /\ points # <<>> /\ points' = Tail(points) /\ UNCHANGED <<failed, posted>>
        /\ \/ /\ Len(batch) >= 4 * batchMax /\ batch' = Append(Tail(batch), Head(points))
              /\ dropped' = dropped \cup {Head(batch)}
           \/ batch' = Append(batch, Head(points)) /\ dropped' = dropped
    BY <1>3 DEF Client!Receive
  <2>2. Head(points) \in Nat /\ Range(points) = {Head(points)} \cup Range(Tail(points))
    BY <1>t, <2>1, QueueRange
  <2>3. Len(batch) >= 4 * batchMax => batch # <<>>
    BY <1>t
  <2>4. batch # <<>> => Tail(batch) \in Seq(Nat) /\ Range(batch) = {Head(batch)} \cup Range(Tail(batch))
    BY <1>t, QueueRange
  <2>5. /\ Range(Append(batch, Head(points))) = Range(batch) \cup {Head(points)}
        /\ batch # <<>> =>
             Range(Append(Tail(batch), Head(points))) = Range(Tail(batch)) \cup {Head(points)}
    <3>1. \A s \in Seq(Nat) : Range(Append(s, Head(points))) = Range(s) \cup {Head(points)}
      BY <2>2, QueueRange
    <3> QED BY <1>t, <2>4, <3>1
  <2>6. Range(points) \cup Range(batch) \cup dropped
          \subseteq Range(points') \cup Range(batch') \cup dropped'
    BY <2>1, <2>2, <2>3, <2>4, <2>5
  <2> QED BY <1>1, <1>a, <1>b, <2>1, <2>6 DEF Traced
<1>4. CASE Client!TickerFires \/ Client!SeesCancel \/ Client!GivesUp \/ Client!TakesToken
           \/ Client!BackoffEnds \/ Client!Cancel \/ Client!CooldownPasses \/ UNCHANGED Client!vars
  BY <1>2, <1>4 DEF Client!TickerFires, Client!SeesCancel, Client!GivesUp, Client!TakesToken,
    Client!BackoffEnds, Client!Cancel, Client!CooldownPasses, Client!pipe, Client!vars
<1>5. CASE Client!CheckCircuit \/ Client!BackoffCancelled
  <2>1. /\ UNCHANGED <<points, dropped, posted>>
        /\ (UNCHANGED <<batch, failed>> \/ Client!FlushFailed)
    BY <1>5 DEF Client!CheckCircuit, Client!BackoffCancelled, Client!pipe
  <2>2. failed \subseteq failed' /\ (p \in Range(batch) => p \in Range(batch') \cup failed')
    BY <1>f, <2>1 DEF Client!FlushFailed
  <2> QED BY <1>1, <1>a, <1>b, <2>1, <2>2 DEF Traced
<1>6. CASE Client!PostSucceeds
  <2>1. UNCHANGED <<points, dropped, failed>> /\ posted' = Append(posted, batch)
    BY <1>6 DEF Client!PostSucceeds, Client!pipe
  <2> QED BY <1>1, <1>a, <1>b, <1>p, <2>1 DEF Traced
<1>7. CASE Client!PostFails
  <2>1. /\ UNCHANGED <<points, dropped>> /\ posted' \in {posted, Append(posted, batch)}
        /\ (UNCHANGED <<batch, failed>> \/ Client!FlushFailed)
    BY <1>7 DEF Client!PostFails, Client!pipe
  <2>2. failed \subseteq failed' /\ (p \in Range(batch) => p \in Range(batch') \cup failed')
    BY <1>f, <2>1 DEF Client!FlushFailed
  <2> QED BY <1>1, <1>a, <1>b, <1>p, <2>1, <2>2 DEF Traced
<1> QED BY <1>1, <1>3, <1>4, <1>5, <1>6, <1>7, ClientActions

(* The batch is older than the queue, both are in order, and a batch that  *)
(* is being flushed is not empty.                                          *)
FlowInv ==
  /\ Rising(batch) /\ Rising(points)
  /\ \A x \in Range(batch), y \in Range(points) : x < y
  /\ \A x \in Range(batch) \cup Range(points) : x <= built
  /\ pc \in {"token", "check", "post", "backoff"} => batch # <<>>

(* A stored batch is older than all that is on its way, or it is the batch *)
(* that is being posted again.                                             *)
Newest(s) == s[Len(s)]
StoredInv ==
  \A n \in DOMAIN posted :
    /\ posted[n] # <<>> /\ Newest(posted[n]) <= built
    /\ \/ posted[n] = batch /\ pc \in {"post", "backoff"}
       \/ \A x \in Range(batch) \cup Range(points) : Newest(posted[n]) < x

(* The ends of a batch are in it. *)
LEMMA BatchEnds ==
  ASSUME NEW s \in Seq(Nat), s # <<>>
  PROVE  /\ Newest(s) \in Range(s) /\ Newest(s) \in Nat /\ Head(s) \in Range(s) /\ Head(s) \in Nat
<1>1. Len(s) \in Nat /\ Len(s) > 0 /\ DOMAIN s = 1 .. Len(s)
  OBVIOUS
<1>2. Head(s) = s[1] /\ 1 \in DOMAIN s /\ Len(s) \in DOMAIN s
  BY <1>1
<1> QED BY <1>1, <1>2 DEF Newest, Range

LEMMA OrderIs ==
  Client!BatchesInOrder <=>
    \A i, j \in DOMAIN posted : i < j =>
      posted[i] = posted[j] \/ Newest(posted[i]) < Head(posted[j])
BY SameLibrary DEF Client!BatchesInOrder, Newest

LEMMA OrderIsAfter ==
  Client!BatchesInOrder' <=>
    \A i, j \in DOMAIN posted' : i < j =>
      posted'[i] = posted'[j] \/ Newest(posted'[i]) < Head(posted'[j])
BY SameLibrary DEF Client!BatchesInOrder, Newest

(* What a step does to a point's way: a point enters the queue, or moves   *)
(* on to the batch, or the batch is posted, or given up, or nothing.       *)
LEMMA FlowMoves ==
  ASSUME Client!ClientConstants, CollectorTypes, FlowInv, [Client!Next]_(Client!vars)
  PROVE  \/ /\ Client!Enqueue /\ built' = built + 1 /\ UNCHANGED <<batch, posted, pc>>
            /\ points' \in {points, Append(points, built + 1)}
         \/ /\ pc = "select" /\ points # <<>> /\ points' = Tail(points) /\ UNCHANGED <<built, posted>>
            /\ \E kept \in {batch, Tail(batch)} :
                 (kept = batch \/ batch # <<>>) /\ batch' = Append(kept, Head(points))
            /\ pc' \in {"select", "token"}
         \/ /\ UNCHANGED <<built, points, batch, posted>>
            /\ pc \in {"post", "backoff"} => pc' \in {"post", "backoff"}
            /\ pc' \in {"token", "check", "post", "backoff"} => batch # <<>>
         \/ /\ UNCHANGED <<built, points>> /\ pc = "post"
            /\ posted' \in {posted, Append(posted, batch)}
            /\ \/ batch' = batch /\ pc' = "backoff"
               \/ batch' = <<>> /\ pc' \in {"select", "returned"}
         \/ /\ UNCHANGED <<built, points, posted>>
            /\ batch' = <<>> /\ pc' \in {"select", "returned"}
<1>1. CASE Client!Enqueue
  BY <1>1 DEF Client!Enqueue
<1>2. CASE Client!Cancel \/ Client!CooldownPasses \/ UNCHANGED Client!vars
  BY <1>2 DEF Client!Cancel, Client!CooldownPasses, Client!vars, Client!pipe, FlowInv
<1>3. CASE Client!Receive
  <2>1. /\ pc = "select" /\ points # <<>> /\ points' = Tail(points) /\ UNCHANGED <<built, posted>>
        /\ batch' = Append(IF Len(batch) >= 4 * batchMax THEN Tail(batch) ELSE batch, Head(points))
        /\ pc' \in {"select", "token"}
    BY <1>3 DEF Client!Receive, Client!StartFlush
  <2>2. Len(batch) >= 4 * batchMax => batch # <<>>
    BY DEF Client!ClientConstants, CollectorTypes
  <2> QED BY <2>1, <2>2
<1>4. CASE Client!TickerFires \/ Client!SeesCancel \/ Client!GivesUp \/ Client!TakesToken
           \/ Client!BackoffEnds
  BY <1>4 DEF Client!TickerFires, Client!SeesCancel, Client!GivesUp, Client!TakesToken,
    Client!BackoffEnds, Client!StartFlush, Client!AfterFlush, Client!pipe, FlowInv
<1>5. CASE Client!CheckCircuit \/ Client!BackoffCancelled
  BY <1>5 DEF Client!CheckCircuit, Client!BackoffCancelled, Client!FlushFailed,
    Client!AfterFlush, Client!pipe, FlowInv
<1>6. CASE Client!PostSucceeds
  BY <1>6 DEF Client!PostSucceeds, Client!AfterFlush, Client!pipe
<1>7. CASE Client!PostFails
  BY <1>7 DEF Client!PostFails, Client!FlushFailed, Client!AfterFlush, Client!pipe
<1> QED BY <1>1, <1>2, <1>3, <1>4, <1>5, <1>6, <1>7, ClientActions

LEMMA FlowStep ==
  ASSUME Client!ClientConstants, CollectorTypes, FlowInv, StoredInv, Client!BatchesInOrder,
         [Client!Next]_(Client!vars)
  PROVE  FlowInv' /\ StoredInv' /\ Client!BatchesInOrder'
<1>t. /\ built \in Nat /\ points \in Seq(Nat) /\ batch \in Seq(Nat) /\ posted \in Seq(Seq(Nat))
      /\ Range(points) \subseteq Nat /\ Range(batch) \subseteq Nat
      /\ DOMAIN posted = 1 .. Len(posted) /\ Len(posted) \in Nat
      /\ \A n \in DOMAIN posted : posted[n] \in Seq(Nat)
  <2>1. /\ built \in Nat /\ points \in Seq(Nat) /\ batch \in Seq(Nat) /\ posted \in Seq(Seq(Nat))
    BY DEF CollectorTypes
  <2>2. Range(points) \subseteq Nat /\ Range(batch) \subseteq Nat
    BY <2>1, QueueRange
  <2>3. DOMAIN posted = 1 .. Len(posted) /\ Len(posted) \in Nat
        /\ \A n \in DOMAIN posted : posted[n] \in Seq(Nat)
    BY <2>1, LenProperties, ElementOfSeq
  <2> QED BY <2>1, <2>2, <2>3
<1>n. \A n \in DOMAIN posted : posted[n] # <<>> /\ Newest(posted[n]) \in Nat
  BY <1>t, BatchEnds DEF StoredInv
<1>e. Range(<<>>) = {} /\ Rising(<<>>)
  BY DEF Range, Rising
<1>o. UNCHANGED posted => Client!BatchesInOrder'
  BY OrderIs, OrderIsAfter
<1>1. CASE /\ built' = built + 1 /\ UNCHANGED <<batch, posted, pc>>
           /\ points' \in {points, Append(points, built + 1)}
  <2>1. built + 1 \in Nat /\ \A x \in Range(points) : x < built + 1
    BY <1>t DEF FlowInv
  <2>2. Rising(points') /\ Range(points') \subseteq Range(points) \cup {built + 1}
    <3>1. CASE points' = points
      BY <3>1 DEF FlowInv
    <3>2. CASE points' = Append(points, built + 1)
      <4>1. Rising(Append(points, built + 1))
        BY <1>t, <2>1, RisingQueue DEF FlowInv
      <4>2. Range(Append(points, built + 1)) = Range(points) \cup {built + 1}
        BY <1>t, <2>1, QueueRange
      <4> QED BY <3>2, <4>1, <4>2
    <3> QED BY <1>1, <3>1, <3>2
  <2>3. FlowInv'
    BY <1>t, <1>1, <2>2 DEF FlowInv
  <2>4. StoredInv'
    BY <1>t, <1>n, <1>1, <2>2 DEF StoredInv
  <2> QED BY <1>o, <1>1, <2>3, <2>4
<1>2. CASE /\ pc = "select" /\ points # <<>> /\ points' = Tail(points) /\ UNCHANGED <<built, posted>>
           /\ \E kept \in {batch, Tail(batch)} :
                (kept = batch \/ batch # <<>>) /\ batch' = Append(kept, Head(points))
           /\ pc' \in {"select", "token"}
  <2> DEFINE h == Head(points)
  <2>1. PICK kept \in {batch, Tail(batch)} :
          (kept = batch \/ batch # <<>>) /\ batch' = Append(kept, h)
    BY <1>2
  <2>2. /\ h \in Nat /\ Range(points) = {h} \cup Range(points') /\ points' \in Seq(Nat)
    BY <1>t, <1>2, QueueRange
  <2>3. Rising(points') /\ \A x \in Range(points') : h < x
    BY <1>t, <1>2, RisingQueue DEF FlowInv
  <2>4. kept \in Seq(Nat) /\ Range(kept) \subseteq Range(batch) /\ Rising(kept)
    <3>1. CASE kept = batch
      BY <1>t, <3>1 DEF FlowInv
    <3>2. CASE kept = Tail(batch) /\ batch # <<>>
      <4>1. Tail(batch) \in Seq(Nat) /\ Range(Tail(batch)) \subseteq Range(batch)
        BY <1>t, <3>2, QueueRange
      <4>2. Rising(Tail(batch))
        BY <1>t, <3>2, RisingQueue DEF FlowInv
      <4> QED BY <3>2, <4>1, <4>2
    <3> QED BY <2>1, <3>1, <3>2
  <2> HIDE DEF h
  <2>5. \A x \in Range(kept) : x < h
    BY <2>2, <2>4 DEF FlowInv
  <2>6. Rising(batch')
    BY <2>1, <2>2, <2>4, <2>5, RisingQueue
  <2>7. Range(batch') = Range(kept) \cup {h} /\ batch' # <<>>
    <3>1. Range(Append(kept, h)) = Range(kept) \cup {h} /\ Len(Append(kept, h)) = Len(kept) + 1
          /\ Len(kept) \in Nat
      BY <2>2, <2>4, QueueRange
    <3> QED BY <1>e, <2>1, <3>1
  <2>8. Range(batch') \cup Range(points') \subseteq Range(batch) \cup Range(points)
    BY <2>2, <2>4, <2>7
  <2>9. FlowInv'
    <3>1. \A x \in Range(batch'), y \in Range(points') : x < y
      BY <2>2, <2>3, <2>4, <2>7 DEF FlowInv
    <3>2. \A x \in Range(batch') \cup Range(points') : x <= built'
      BY <1>2, <2>8 DEF FlowInv
    <3> QED BY <2>3, <2>6, <2>7, <3>1, <3>2 DEF FlowInv
  <2>10. StoredInv'
    BY <1>2, <2>8 DEF StoredInv
  <2> QED BY <1>o, <1>2, <2>9, <2>10
<1>3. CASE /\ UNCHANGED <<built, points, batch, posted>>
           /\ pc \in {"post", "backoff"} => pc' \in {"post", "backoff"}
           /\ pc' \in {"token", "check", "post", "backoff"} => batch # <<>>
  BY <1>o, <1>3 DEF FlowInv, StoredInv
<1>4. ASSUME UNCHANGED <<built, points>>, batch' = <<>>, pc' \in {"select", "returned"}
      PROVE  FlowInv'
  BY <1>e, <1>4 DEF FlowInv
<1>5. \A n \in DOMAIN posted : \A x \in Range(points) : Newest(posted[n]) < x
  <2> SUFFICES ASSUME NEW n \in DOMAIN posted, NEW x \in Range(points) PROVE Newest(posted[n]) < x
    OBVIOUS
  <2>1. CASE posted[n] = batch
    <3>1. Newest(batch) \in Range(batch)
      BY <1>t, <1>n, <2>1, BatchEnds
    <3> QED BY <2>1, <3>1 DEF FlowInv
  <2>2. CASE posted[n] # batch
    BY <2>2 DEF StoredInv
  <2> QED BY <2>1, <2>2
<1>6. CASE /\ UNCHANGED <<built, points, posted>>
           /\ batch' = <<>> /\ pc' \in {"select", "returned"}
  <2>1. StoredInv'
    BY <1>e, <1>5, <1>6 DEF StoredInv
  <2> QED BY <1>o, <1>4, <1>6, <2>1
<1>7. CASE /\ UNCHANGED <<built, points>> /\ pc = "post"
           /\ posted' \in {posted, Append(posted, batch)}
           /\ \/ batch' = batch /\ pc' = "backoff"
              \/ batch' = <<>> /\ pc' \in {"select", "returned"}
  <2>1. batch # <<>> /\ Newest(batch) \in Range(batch) /\ Head(batch) \in Range(batch)
        /\ Newest(batch) <= built
    BY <1>t, <1>7, BatchEnds DEF FlowInv
  <2>2. FlowInv'
    BY <1>4, <1>7, <2>1 DEF FlowInv
  <2>3. ASSUME NEW n \in DOMAIN posted'
        PROVE  posted'[n] = batch \/ (n \in DOMAIN posted /\ posted'[n] = posted[n])
    <3>1. CASE posted' = posted
      BY <2>3, <3>1
    <3>2. CASE posted' = Append(posted, batch)
      <4>1. /\ DOMAIN posted' = 1 .. Len(posted) + 1 /\ posted'[Len(posted) + 1] = batch
            /\ \A m \in DOMAIN posted : posted'[m] = posted[m]
        BY <1>t, <3>2, AppendProperties, LenProperties
      <4>2. n \in 1 .. Len(posted) + 1 /\ Len(posted) \in Nat /\ DOMAIN posted = 1 .. Len(posted)
        BY <1>t, <4>1
      <4>3. n \in DOMAIN posted \/ n = Len(posted) + 1
        BY <4>2
      <4>4. CASE n = Len(posted) + 1
        BY <4>1, <4>4
      <4>5. CASE n \in DOMAIN posted
        BY <4>1, <4>5
      <4> QED BY <4>3, <4>4, <4>5
    <3> QED BY <1>7, <3>1, <3>2
  <2>4. StoredInv'
    <3> SUFFICES ASSUME NEW n \in DOMAIN posted'
                 PROVE  /\ posted'[n] # <<>> /\ Newest(posted'[n]) <= built'
                        /\ \/ posted'[n] = batch' /\ pc' \in {"post", "backoff"}
                           \/ \A x \in Range(batch') \cup Range(points') : Newest(posted'[n]) < x
      BY DEF StoredInv, Newest
    <3>1. /\ posted'[n] # <<>> /\ Newest(posted'[n]) <= built'
          /\ \A x \in Range(points) : Newest(posted'[n]) < x
          /\ posted'[n] = batch \/ \A x \in Range(batch) : Newest(posted'[n]) < x
      BY <1>5, <1>7, <2>1, <2>3 DEF StoredInv, FlowInv
    <3> QED BY <1>e, <1>7, <3>1
  <2>5. Client!BatchesInOrder'
    <3>1. CASE posted' = posted
      BY <1>o, <3>1
    <3>2. CASE posted' = Append(posted, batch)
      <4>1. /\ DOMAIN posted' = 1 .. Len(posted) + 1 /\ posted'[Len(posted) + 1] = batch
            /\ \A n \in DOMAIN posted : posted'[n] = posted[n]
        BY <1>t, <3>2, AppendProperties, LenProperties
      <4>2. \A n \in DOMAIN posted : posted[n] = batch \/ Newest(posted[n]) < Head(batch)
        BY <2>1 DEF StoredInv
      <4>3. ASSUME NEW i \in DOMAIN posted', NEW j \in DOMAIN posted', i < j
            PROVE  posted'[i] = posted'[j] \/ Newest(posted'[i]) < Head(posted'[j])
        <5>1. i \in DOMAIN posted /\ posted'[i] = posted[i]
          BY <1>t, <4>1, <4>3
        <5>2. CASE j \in DOMAIN posted
          <6>1. posted'[j] = posted[j]
            BY <4>1, <5>2
          <6> QED BY <4>3, <5>1, <5>2, <6>1, OrderIs
        <5>3. CASE j = Len(posted) + 1
          BY <4>1, <4>2, <5>1, <5>3
        <5> QED BY <1>t, <4>1, <5>2, <5>3
      <4> QED BY <4>3, OrderIsAfter
    <3> QED BY <1>7, <3>1, <3>2
  <2> QED BY <2>2, <2>4, <2>5
<1> QED BY <1>1, <1>2, <1>3, <1>6, <1>7, FlowMoves

-------------------------------------------------------------------------------
(* The collector: the breaker *)

(* Posts that fail after a cooldown are attempts at one batch, and a       *)
(* breaker that was open keeps its count: the next failure opens it again. *)
TrialInv ==
  /\ spent <= Attempts
  /\ breaker = "expired" /\ ~stopped => spent <= attempt
  /\ breaker # "closed" => failures = CircuitOpenAfter

LEMMA TrialStep ==
  ASSUME Client!ClientConstants, CollectorTypes, TrialInv, [Client!Next]_(Client!vars)
  PROVE  TrialInv'
<1>t. /\ Attempts \in Nat /\ Attempts > 0 /\ CircuitOpenAfter \in Nat /\ CircuitOpenAfter > 0
      /\ attempt \in 0 .. Attempts - 1 /\ failures \in 0 .. CircuitOpenAfter
      /\ breaker \in {"closed", "open", "expired"} /\ spent \in Nat
  BY DEF Client!ClientConstants, CollectorTypes
<1>1. CASE UNCHANGED <<attempt, failures, breaker, stopped, spent>>
  BY <1>1 DEF TrialInv
<1>2. CASE Client!Cancel
  BY <1>2 DEF Client!Cancel, TrialInv
<1>3. CASE Client!CooldownPasses
  BY <1>t, <1>3 DEF Client!CooldownPasses, Client!pipe, TrialInv
<1>4. CASE Client!PostSucceeds
  BY <1>t, <1>4 DEF Client!PostSucceeds, Client!recordSuccess, TrialInv
<1>5. CASE Client!PostFails
  BY <1>t, <1>5 DEF Client!PostFails, Client!recordFailure, Client!FlushFailed, Client!pipe, TrialInv
<1>6. CASE Client!CheckCircuit
  BY <1>t, <1>6 DEF Client!CheckCircuit, Client!FlushFailed, Client!pipe, TrialInv
<1>7. CASE Client!BackoffCancelled
  BY <1>t, <1>7 DEF Client!BackoffCancelled, Client!FlushFailed, Client!pipe, TrialInv
<1>8. CASE \/ Client!Enqueue \/ Client!Receive \/ Client!TickerFires \/ Client!SeesCancel
           \/ Client!GivesUp \/ Client!TakesToken \/ Client!BackoffEnds
           \/ UNCHANGED Client!vars
  BY <1>1, <1>8 DEF Client!Enqueue, Client!Receive, Client!TickerFires, Client!SeesCancel,
    Client!GivesUp, Client!TakesToken, Client!BackoffEnds, Client!pipe, Client!vars
<1> QED BY <1>2, <1>3, <1>4, <1>5, <1>6, <1>7, <1>8, ClientActions

(* What the collector keeps, as an inductive invariant. *)
CollectorInv ==
  /\ CollectorTypes /\ FlowInv /\ StoredInv /\ TrialInv
  /\ Client!Accounted /\ Client!BatchesInOrder

(* Whatever the scrapers, the clock, the engine and the shutdown do, every *)
(* point the collector has built is on its way, stored or counted as lost; *)
(* a batch posted again never puts a point after a newer one; and an open  *)
(* breaker lets the posts of a single batch through after each cooldown    *)
(* (Enqueue, Run, flush and flushWithRetry of internal/collector).         *)
THEOREM CollectorStaysSound == Client!Spec => []CollectorSound
<1> USE ClientAssumption
<1>1. Client!Init => CollectorInv
  <2> SUFFICES ASSUME Client!Init PROVE CollectorInv
    OBVIOUS
  <2> USE DEF Client!Init
  <2>1. CollectorTypes
    BY DEF CollectorTypes, Client!ClientConstants
  <2>2. FlowInv
    BY DEF FlowInv, Rising, Range
  <2>3. StoredInv
    BY DEF StoredInv
  <2>4. TrialInv
    BY DEF TrialInv, Client!ClientConstants
  <2>5. Client!Accounted
    BY DEF Client!Accounted
  <2>6. Client!BatchesInOrder
    BY DEF Client!BatchesInOrder
  <2> QED BY <2>1, <2>2, <2>3, <2>4, <2>5, <2>6 DEF CollectorInv
<1>2. CollectorInv /\ [Client!Next]_(Client!vars) => CollectorInv'
  BY CollectorTypesStep, AccountedStep, FlowStep, TrialStep DEF CollectorInv
<1>3. CollectorInv => CollectorSound
  BY DEF CollectorInv, TrialInv, CollectorSound, Client!CollectorSound, Client!SingleTrial
<1> QED BY <1>1, <1>2, <1>3, PTL DEF Client!Spec
===============================================================================
