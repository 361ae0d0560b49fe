-------------------------------- MODULE Ingest --------------------------------
(***************************************************************************)
(* The ingest endpoint (internal/api/server.go): concurrent requests take  *)
(* a slice of points from a pool, decode their payload into it, hand the   *)
(* points to the store one by one and give the slice back.                 *)
(*                                                                         *)
(* A point is told by one field that a payload may leave out, such as the  *)
(* upstream calls, which the collector omits when there are none.  The     *)
(* field of a full point carries the number of its request.  The decoder   *)
(* is the one of encoding/json: elements of an array are decoded into the  *)
(* elements the slice's array already holds, field by field.               *)
(***************************************************************************)
EXTENDS Integers, Sequences, SequencesExt

CONSTANTS Handlers,      (* requests served at a time                       *)
          MaxBatchSize,
          MaxRequests    (* bound: requests of a behaviour                  *)

Empty == 0
Elements == {"full", "bare", "invalid"}   (* invalid: not a service id      *)
Slots == 1 .. MaxBatchSize + 1            (* bound: longest payload         *)
Payloads ==
  [kind : {"array"}, points : SeqOf(Elements, MaxBatchSize + 1) \ {<<>>}, badType : BOOLEAN]
    \cup [kind : {"object"}, points : {<<e>> : e \in Elements}, badType : BOOLEAN]
    \cup [kind : {"neither"}, points : {<<>>}, badType : {FALSE}]

VARIABLES
  arrays,   (* slice -> slot -> the field of the point it holds             *)
  pool,     (* the slices ingestPointPool holds                             *)
  req,      (* handler -> its request, or none                              *)
  count,    (* requests so far                                              *)
  stored    (* history: what was sent and what the store was given          *)

vars == <<arrays, pool, req, count, stored>>

(* No more slices than handlers are ever in use. *)
Fresh == [s \in Slots |-> Empty]
None  == [number |-> 0, slice |-> 0, points |-> <<>>, next |-> 0]
Slices == Handlers

Init ==
  /\ arrays = [a \in Slices |-> Fresh]
  /\ pool = {}
  /\ req = [h \in Handlers |-> None]
  /\ count = 0
  /\ stored = {}

InUse == {req[h].slice : h \in {x \in Handlers : req[x] # None}}

(* A field the payload names is set; an array's other fields keep what the *)
(* slot held, an object's go to a zero value first.                        *)
Decoded(slots, p, number) ==
  [s \in Slots |->
     IF s > Len(p.points) THEN slots[s]
     ELSE IF p.points[s] # "bare" THEN number
     ELSE IF p.kind = "array" THEN slots[s] ELSE Empty]

(* An object that is refused never reaches the slice. *)
DecodedInto(slots, p, number) ==
  IF p.kind = "neither" \/ (p.kind = "object" /\ p.badType) THEN slots ELSE Decoded(slots, p, number)

Refused(p) == p.kind = "neither" \/ p.badType \/ Len(p.points) > MaxBatchSize

(* Slip: the slice goes back to the pool as soon as it is decoded.         *)
PoolAfter_Early(a, p) == pool \cup {a}

PoolAfter(a, p) == IF Refused(p) THEN pool \cup {a} ELSE pool \ {a}

(* Up to the loop: a slice of the pool, or a new one, is filled.  A refused *)
(* payload gives the slice back as it is by then.                          *)
Receive(h, p) ==
  /\ req[h] = None
  /\ count < MaxRequests
  /\ count' = count + 1
  /\ \E a \in pool \cup (Slices \ InUse) :
       /\ arrays' = [arrays EXCEPT ![a] =
                       DecodedInto(IF a \in pool THEN @ ELSE Fresh, p, count')]
       /\ pool' = PoolAfter(a, p)
       /\ req' = IF Refused(p) THEN req
                 ELSE [req EXCEPT ![h] = [number |-> count', slice |-> a, points |-> p.points, next |-> 1]]
  /\ UNCHANGED stored

(* One round of the loop.  The store copies what it is given. *)
IngestPoint(h) ==
  LET r == req[h] IN
  /\ r # None /\ r.next <= Len(r.points)
  /\ stored' = IF r.points[r.next] = "invalid" THEN stored
               ELSE stored \cup {[sent |-> IF r.points[r.next] = "full" THEN r.number ELSE Empty,
                                  kept |-> arrays[r.slice][r.next]]}
  /\ req' = [req EXCEPT ![h].next = @ + 1]
  /\ UNCHANGED <<arrays, pool, count>>

(* After the loop. *)
Finish(h) ==
  /\ req[h] # None
  /\ req[h].next > Len(req[h].points)
  /\ pool' = pool \cup {req[h].slice}
  /\ req' = [req EXCEPT ![h] = None]
  /\ UNCHANGED <<arrays, count, stored>>

(* The collector of the language empties the pool now and then. *)
Drop(a) ==
  /\ a \in pool
  /\ pool' = pool \ {a}
  /\ UNCHANGED <<arrays, req, count, stored>>

Next ==
  \/ \E h \in Handlers : (\E p \in Payloads : Receive(h, p)) \/ IngestPoint(h) \/ Finish(h)
  \/ \E a \in Slices : Drop(a)

Spec == Init /\ [][Next]_vars

-------------------------------------------------------------------------------
(* Properties *)

(* What a payload names is what the store keeps, whoever else is being     *)
(* served and whatever became of the slice before.                         *)
StoredAsSent == \A s \in stored : s.sent # Empty => s.kept = s.sent

(* What a payload leaves out is kept as empty, as the documentation of the *)
(* collector has it: the payload "feeds the current topology graph         *)
(* unchanged".                                                             *)
OmittedIsEmpty == \A s \in stored : s.sent = Empty => s.kept = Empty
===============================================================================
