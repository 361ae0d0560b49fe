------------------------------ MODULE RingBuffer ------------------------------
(***************************************************************************)
(* The ring buffer of a service (internal/telemetry/ringbuffer.go): head,  *)
(* size and the slots, under its own lock, so that an operation is a step. *)
(* A MetricPoint is a value; 0 is the zero value of an unused slot.        *)
(***************************************************************************)
EXTENDS Integers, Sequences

CONSTANTS Points,      (* the points that can be appended                   *)
          capacity,
          MaxAppends   (* bound: appends in a behaviour                     *)

ASSUME CapacityAssumption == capacity \in Nat \ {0}
ASSUME PointsAssumption == 0 \notin Points

VARIABLES head, size, buf,
          log          (* history: every point ever appended                *)

vars == <<head, size, buf, log>>

Slots == 0 .. capacity - 1

Init ==
  /\ head = 0
  /\ size = 0
  /\ buf = [i \in Slots |-> 0]
  /\ log = <<>>

(* The oldest point gives way when the buffer is full. *)
AppendPoint(p) ==
  /\ buf' = [buf EXCEPT ![head] = p]
  /\ head' = (head + 1) % capacity
  /\ size' = IF size < capacity THEN size + 1 ELSE size

Next ==
  \E p \in Points :
    /\ Len(log) < MaxAppends
    /\ AppendPoint(p)
    /\ log' = Append(log, p)

Spec == Init /\ [][Next]_vars

-------------------------------------------------------------------------------
(* Reads *)

(* How many points Snapshot returns; n = 0 stands for no argument. *)
Count(n) == IF n > 0 /\ n < size THEN n ELSE size

(* Slip: the window starts at the head whenever it is asked for.           *)
Snapshot_FromHead(n) ==
  [i \in 1 .. Count(n) |-> buf[(head + i - 1) % capacity]]

(* The most recent n points, oldest first, or all of them. *)
Snapshot(n) ==
  LET start == (head - Count(n) + capacity) % capacity
  IN  [i \in 1 .. Count(n) |-> buf[(start + i - 1) % capacity]]

(* Slip: the slot the next point will take.                                *)
Last_AtHead == IF size = 0 THEN 0 ELSE buf[head]

Last == IF size = 0 THEN 0 ELSE buf[(head - 1 + capacity) % capacity]

(* The points SummaryStats adds up, oldest first, and its two ends. *)
Summary ==
  LET start == (head - size + capacity) % capacity
  IN  [points |-> [i \in 1 .. size |-> buf[(start + i - 1) % capacity]],
       oldest |-> IF size = 0 THEN 0 ELSE buf[start],
       newest |-> IF size = 0 THEN 0 ELSE buf[(head - 1 + capacity) % capacity]]

-------------------------------------------------------------------------------
(* Properties *)

TypeOK ==
  /\ head \in Slots
  /\ size \in 0 .. capacity
  /\ buf \in [Slots -> Points \cup {0}]
  /\ log \in Seq(Points)

(* The last n elements of s, or all of them. *)
Suffix(s, n) == [i \in 1 .. (IF n < Len(s) THEN n ELSE Len(s)) |->
                   s[Len(s) - (IF n < Len(s) THEN n ELSE Len(s)) + i]]

(* Whatever was appended before, Snapshot returns the newest points in the *)
(* order they came, never a slot that was overwritten or not yet used.     *)
SnapshotIsSuffix ==
  \A n \in 0 .. capacity + 1 :
    Snapshot(n) = Suffix(log, IF n = 0 \/ n > capacity THEN capacity ELSE n)

(* Last and the ends that SummaryStats reports are those of the snapshot.  *)
ReadsAgree ==
  /\ Summary.points = Snapshot(0)
  /\ size > 0 => /\ Last = log[Len(log)]
                 /\ Summary.newest = Last
                 /\ Summary.oldest = Snapshot(0)[1]
===============================================================================
