--------------------------- MODULE ObservationProofs ---------------------------
(***************************************************************************)
(* Proofs about the components of Observation: each keeps its promise for  *)
(* every value of its constants and any number of steps.                   *)
(***************************************************************************)
EXTENDS Observation, FiniteSetTheorems, SequenceTheorems, TLAPS

---------------------------------------------------------------------------
(* Arithmetic modulo m *)

(* The remainder is in range, and differs from the number by a multiple. *)
LEMMA Remainder ==
  ASSUME NEW x \in Int, NEW m \in Nat \ {0}
  PROVE  x % m \in 0 .. m - 1 /\ \E q \in Int : x = m * q + (x % m)
<1> DEFINE r == x % m
           d == x \div m
<1>1. r \in 0 .. m - 1 /\ d \in Int
  OBVIOUS
<1>2. r = x - m * d
  BY Z3
<1> HIDE DEF r, d
<1>3. x = m * d + r
  BY <1>1, <1>2
<1>4. r \in 0 .. m - 1 /\ \E q \in Int : x = m * q + r
  BY <1>1, <1>3
<1> QED BY <1>4 DEF r

(* Two numbers in range that differ by a multiple are equal. *)
LEMMA OneRemainder ==
  ASSUME NEW m \in Nat \ {0}, NEW r \in 0 .. m - 1, NEW s \in 0 .. m - 1,
         NEW p \in Int, NEW q \in Int, m * p + r = m * q + s
  PROVE  r = s
<1>1. m * (p - q) = s - r
  OBVIOUS
<1>2. ASSUME p - q >= 1 PROVE FALSE
  <2>1. m * (p - q) >= m * 1
    BY <1>2
  <2> QED BY <1>1, <2>1
<1>3. ASSUME p - q <= -1 PROVE FALSE
  <2>1. m * (p - q) <= m * (-1)
    BY <1>3
  <2> QED BY <1>1, <2>1
<1>4. p = q
  BY <1>2, <1>3
<1> QED BY <1>4

(* Adding a multiple does not change the remainder. *)
LEMMA Shift ==
  ASSUME NEW m \in Nat \ {0}, NEW x \in Int, NEW y \in Int, NEW q \in Int,
         x = y + m * q
  PROVE  x % m = y % m
<1> DEFINE r == x % m
           s == y % m
<1>1. r \in 0 .. m - 1 /\ s \in 0 .. m - 1
  BY Remainder
<1>2. PICK k \in Int : x = m * k + r
  BY Remainder
<1>3. PICK l \in Int : y = m * l + s
  BY Remainder
<1> HIDE DEF r, s
<1>4. m * k + r = m * (l + q) + s
  BY <1>1, <1>2, <1>3
<1>5. l + q \in Int
  OBVIOUS
<1>6. r = s
  BY <1>1, <1>4, <1>5, OneRemainder
<1> QED BY <1>6 DEF r, s

(* A remainder can be taken before an addition. *)
LEMMA AddAfter ==
  ASSUME NEW m \in Nat \ {0}, NEW x \in Int, NEW y \in Int
  PROVE  ((x % m) + y) % m = (x + y) % m
<1> DEFINE r == x % m
<1>1. r \in Int
  BY Remainder
<1>2. PICK q \in Int : x = m * q + r
  BY Remainder
<1> HIDE DEF r
<1>3. r + y \in Int /\ x + y \in Int /\ x + y = (r + y) + m * q
  BY <1>1, <1>2
<1>4. (x + y) % m = (r + y) % m
  BY <1>3, Shift
<1> QED BY <1>4 DEF r

(* Numbers less than m apart, and different, have different remainders. *)
LEMMA Apart ==
  ASSUME NEW m \in Nat \ {0}, NEW x \in Int, NEW y \in Int, x < y, y < x + m
  PROVE  x % m # y % m
<1> SUFFICES ASSUME x % m = y % m PROVE FALSE
  OBVIOUS
<1> DEFINE r == x % m
<1>1. r \in Int
  BY Remainder
<1>2. PICK k \in Int : x = m * k + r
  BY Remainder
<1>3. PICK l \in Int : y = m * l + r
  BY Remainder
<1> HIDE DEF r
<1>4. m * (l - k) = y - x
  BY <1>1, <1>2, <1>3
<1>5. ASSUME l - k >= 1 PROVE FALSE
  <2>1. m * (l - k) >= m * 1
    BY <1>5
  <2> QED BY <1>4, <2>1
<1>6. ASSUME l - k <= 0 PROVE FALSE
  <2>1. m * (l - k) <= 0
    BY <1>6
  <2> QED BY <1>4, <2>1
<1> QED BY <1>5, <1>6

(* A small number is its own remainder. *)
LEMMA SmallRemainder ==
  ASSUME NEW m \in Nat \ {0}, NEW x \in 0 .. m - 1
  PROVE  x % m = x
OBVIOUS

-------------------------------------------------------------------------------
(* Rings *)

(* The last cap elements of l are in the slots of their numbers. *)
Holds(l, b, cap) ==
  /\ DOMAIN b = 0 .. cap - 1
  /\ \A k \in 1 .. Len(l) : k > Len(l) - cap => b[(k - 1) % cap] = l[k]

(* An element written at the head takes the place of the oldest. *)
LEMMA RingAppend ==
  ASSUME NEW cap \in Nat \ {0}, NEW S, NEW l \in Seq(S), NEW e \in S, NEW b, Holds(l, b, cap)
  PROVE  /\ Holds(Append(l, e), [b EXCEPT ![Len(l) % cap] = e], cap)
         /\ ((Len(l) % cap) + 1) % cap = Len(Append(l, e)) % cap
         /\ Len(Append(l, e)) % cap \in 0 .. cap - 1
<1> DEFINE n == Len(l)
           m == Append(l, e)
           c == [b EXCEPT ![n % cap] = e]
<1>1. n \in Nat /\ Len(m) = n + 1 /\ m[n + 1] = e /\ \A k \in 1 .. n : m[k] = l[k]
  OBVIOUS
<1>2. n % cap \in 0 .. cap - 1
  BY <1>1, Remainder
<1>3. DOMAIN c = 0 .. cap - 1 /\ c[n % cap] = e
      /\ \A i \in 0 .. cap - 1 : i # n % cap => c[i] = b[i]
  BY <1>2 DEF Holds
<1>4. ASSUME NEW k \in 1 .. n + 1, k > n + 1 - cap
      PROVE  c[(k - 1) % cap] = m[k]
  <2>1. CASE k = n + 1
    BY <1>1, <1>3, <2>1
  <2>2. CASE k # n + 1
    <3>1. k - 1 \in Int /\ k - 1 < n /\ n < (k - 1) + cap /\ k \in 1 .. n /\ k > n - cap
      BY <1>1, <1>4, <2>2
    <3> HIDE DEF n
    <3>2. (k - 1) % cap # n % cap
      <4>1. n \in Int
        BY <1>1
      <4> QED BY <3>1, <4>1, Apart
    <3>3. (k - 1) % cap \in 0 .. cap - 1
      BY <3>1, Remainder
    <3> HIDE DEF n, m, c
    <3>4. b[(k - 1) % cap] = l[k]
      BY <3>1 DEF Holds, n
    <3> QED BY <1>1, <1>3, <3>1, <3>2, <3>3, <3>4
  <2> QED BY <2>1, <2>2
<1>5. ((n % cap) + 1) % cap = (n + 1) % cap
  <2>1. n \in Int /\ 1 \in Int
    BY <1>1
  <2> HIDE DEF n
  <2> QED BY <2>1, AddAfter
<1>6. n + 1 \in Int
  BY <1>1
<1>7. (n + 1) % cap \in 0 .. cap - 1
  BY <1>6, Remainder
<1> HIDE DEF n, m, c
<1>8. Holds(m, c, cap)
  BY <1>1, <1>3, <1>4 DEF Holds
<1> QED BY <1>1, <1>5, <1>7, <1>8 DEF n, m, c

(* A read that goes back r elements from the head finds the i-th of them.  *)
LEMMA RingRead ==
  ASSUME NEW cap \in Nat \ {0}, NEW S, NEW l \in Seq(S), NEW b, Holds(l, b, cap),
         NEW r \in 0 .. cap, r <= Len(l), NEW i \in 1 .. r
  PROVE  /\ b[((((Len(l) % cap) - r + cap) % cap) + i - 1) % cap] = l[Len(l) - r + i]
         /\ b[((Len(l) % cap) - r + i - 1 + cap) % cap] = l[Len(l) - r + i]
<1> DEFINE n == Len(l)
           h == n % cap
           s == (h - r + cap) % cap
<1>1. n \in Nat /\ h \in 0 .. cap - 1 /\ r \in Int /\ cap \in Int
  <2>1. n \in Int /\ n \in Nat
    OBVIOUS
  <2> HIDE DEF n
  <2>2. n % cap \in 0 .. cap - 1
    BY <2>1, Remainder
  <2> QED BY <2>1, <2>2
<1>2. s = (n - r) % cap
  <2>1. h - r + cap = h + (cap - r) /\ cap - r \in Int /\ n \in Int
    BY <1>1
  <2>2. ((n % cap) + (cap - r)) % cap = (n + (cap - r)) % cap
    BY <2>1, AddAfter
  <2>3. /\ n + (cap - r) \in Int /\ n - r \in Int /\ 1 \in Int
        /\ n + (cap - r) = (n - r) + cap * 1
    BY <1>1
  <2>4. (n + (cap - r)) % cap = (n - r) % cap
    BY <2>3, Shift
  <2> QED BY <2>1, <2>2, <2>4
<1>3. (s + (i - 1)) % cap = (n - r + (i - 1)) % cap
  <2>1. n - r \in Int /\ i - 1 \in Int
    BY <1>1
  <2>2. (((n - r) % cap) + (i - 1)) % cap = (n - r + (i - 1)) % cap
    BY <2>1, AddAfter
  <2> QED BY <1>2, <2>2
<1>4. (h - r + i - 1 + cap) % cap = (n - r + (i - 1)) % cap
  <2>1. h - r + i - 1 + cap = h + (cap - r + i - 1) /\ cap - r + i - 1 \in Int /\ n \in Int
    BY <1>1
  <2>2. ((n % cap) + (cap - r + i - 1)) % cap = (n + (cap - r + i - 1)) % cap
    BY <2>1, AddAfter
  <2>3. /\ n + (cap - r + i - 1) \in Int /\ n - r + (i - 1) \in Int /\ 1 \in Int
        /\ n + (cap - r + i - 1) = (n - r + (i - 1)) + cap * 1
    BY <1>1
  <2>4. (n + (cap - r + i - 1)) % cap = (n - r + (i - 1)) % cap
    BY <2>3, Shift
  <2> QED BY <2>1, <2>2, <2>4
<1>5. s \in Int
  BY <1>2, <1>1, Remainder
<1> HIDE DEF n, h, s
<1>6. s + i - 1 = s + (i - 1) /\ n - r + (i - 1) = (n - r + i) - 1
  BY <1>1, <1>5
<1>7. n - r + i \in 1 .. n /\ n - r + i > n - cap
  BY <1>1 DEF n
<1>8. b[((n - r + i) - 1) % cap] = l[n - r + i]
  BY <1>7 DEF Holds, n
<1> QED BY <1>3, <1>4, <1>6, <1>8 DEF n, h, s

-------------------------------------------------------------------------------
(* The inductive invariant *)

(* A point of the log stays in the slot of its number until the capacity   *)
(* has been appended after it.                                             *)
RingInv ==
  /\ size = IF Len(log) < capacity THEN Len(log) ELSE capacity
  /\ head = Len(log) % capacity
  /\ Holds(log, buf, capacity)

IInv == TypeOK /\ RingInv

LEMMA InitIInv == Init => IInv
<1> SUFFICES ASSUME Init PROVE IInv
  OBVIOUS
<1>1. Len(log) = 0 /\ log \in Seq(Points)
  BY DEF Init
<1>2. 0 % capacity = 0 /\ 0 \in Slots
  BY CapacityAssumption, SmallRemainder DEF Slots
<1>3. TypeOK
  BY <1>1, <1>2, CapacityAssumption DEF Init, TypeOK
<1>4. RingInv
  BY <1>1, <1>2, CapacityAssumption DEF Init, RingInv, Holds, Slots
<1> QED BY <1>3, <1>4 DEF IInv

LEMMA AppendKeepsIInv ==
  ASSUME IInv, NEW p \in Points, AppendPoint(p), log' = Append(log, p)
  PROVE  IInv'
<1> USE CapacityAssumption
<1>1. log \in Seq(Points) /\ log' \in Seq(Points) /\ Len(log) \in Nat /\ Len(log') = Len(log) + 1
  BY DEF IInv, TypeOK
<1>2. head = Len(log) % capacity /\ Holds(log, buf, capacity)
  BY DEF IInv, RingInv
<1>3. size' \in 0 .. capacity /\ size' = IF Len(log') < capacity THEN Len(log') ELSE capacity
  BY <1>1 DEF AppendPoint, IInv, RingInv, TypeOK
<1>4. /\ Holds(log', buf', capacity)
      /\ head' = Len(log') % capacity
      /\ head' \in 0 .. capacity - 1
  BY <1>1, <1>2, RingAppend DEF AppendPoint
<1>5. buf' \in [Slots -> Points \cup {0}]
  BY DEF AppendPoint, IInv, TypeOK
<1>6. TypeOK'
  BY <1>1, <1>3, <1>4, <1>5 DEF TypeOK, Slots
<1>7. RingInv'
  BY <1>3, <1>4 DEF RingInv
<1> QED BY <1>6, <1>7 DEF IInv

LEMMA Inductive == Spec => []IInv
<1>1. IInv /\ [Next]_vars => IInv'
  <2>1. CASE UNCHANGED vars BY <2>1 DEF vars, IInv, TypeOK, RingInv, Holds
  <2> QED BY <2>1, AppendKeepsIInv DEF Next
<1> QED BY InitIInv, <1>1, PTL DEF Spec

(* The head and the size stay in the buffer, for every capacity.           *)
THEOREM TypeCorrect == Spec => []TypeOK
BY Inductive, PTL DEF IInv

-------------------------------------------------------------------------------
(* The reads *)

(* Snapshot returns the newest points in the order they came, for every    *)
(* capacity and every request (ringbuffer.go:66-87).                       *)
THEOREM SnapshotCorrect == Spec => []SnapshotIsSuffix
<1>1. IInv => SnapshotIsSuffix
  <2> SUFFICES ASSUME IInv, NEW n \in 0 .. capacity + 1
               PROVE  Snapshot(n) = Suffix(log, IF n = 0 \/ n > capacity THEN capacity ELSE n)
    BY DEF SnapshotIsSuffix
  <2> DEFINE m == IF n = 0 \/ n > capacity THEN capacity ELSE n
             c == IF m < Len(log) THEN m ELSE Len(log)
  <2>1. Count(n) = c /\ c \in 0 .. size
    BY CapacityAssumption DEF Count, IInv, RingInv, TypeOK
  <2>2. Suffix(log, m) = [i \in 1 .. c |-> log[Len(log) - c + i]]
    BY DEF Suffix
  <2>3. Snapshot(n) = [i \in 1 .. c |->
                         buf[(((head - c + capacity) % capacity) + i - 1) % capacity]]
    BY <2>1 DEF Snapshot
  <2> HIDE DEF c
  <2>4. \A i \in 1 .. c : buf[(((head - c + capacity) % capacity) + i - 1) % capacity]
                            = log[Len(log) - c + i]
    <3>1. /\ log \in Seq(Points) /\ Holds(log, buf, capacity) /\ head = Len(log) % capacity
          /\ c \in 0 .. capacity /\ c <= Len(log)
      BY <2>1, CapacityAssumption DEF IInv, TypeOK, RingInv
    <3>2. \A i \in 1 .. c :
            buf[((((Len(log) % capacity) - c + capacity) % capacity) + i - 1) % capacity]
              = log[Len(log) - c + i]
      BY <3>1, CapacityAssumption, RingRead
    <3> QED BY <3>1, <3>2
  <2> QED BY <2>2, <2>3, <2>4
<1> QED BY Inductive, <1>1, PTL

(* Last and the ends that SummaryStats reports are those of the snapshot,  *)
(* for every capacity (ringbuffer.go Last, SummaryStats).                  *)
THEOREM ReadsAgreeAlways == Spec => []ReadsAgree
<1>1. IInv => ReadsAgree
  <2> SUFFICES ASSUME IInv PROVE ReadsAgree
    OBVIOUS
  <2> USE CapacityAssumption
  <2>1. /\ log \in Seq(Points) /\ Holds(log, buf, capacity) /\ head = Len(log) % capacity
        /\ head \in 0 .. capacity - 1 /\ size \in 0 .. capacity /\ size <= Len(log)
    BY DEF IInv, TypeOK, RingInv, Slots
  <2>2. Count(0) = size
    BY DEF Count
  <2>3. Summary.points = Snapshot(0)
    BY <2>2 DEF Summary, Snapshot
  <2>4. ASSUME size > 0
        PROVE  Last = log[Len(log)] /\ Summary.newest = Last /\ Summary.oldest = Snapshot(0)[1]
    <3>1. 1 \in 0 .. capacity /\ 1 \in 1 .. 1 /\ 1 <= Len(log)
      BY <2>1, <2>4
    <3>2. buf[((Len(log) % capacity) - 1 + 1 - 1 + capacity) % capacity] = log[Len(log) - 1 + 1]
      <4>1. \A r \in 0 .. capacity : r <= Len(log) => \A i \in 1 .. r :
              buf[((Len(log) % capacity) - r + i - 1 + capacity) % capacity] = log[Len(log) - r + i]
        BY ZenonT(30), <2>1, RingRead
      <4> QED BY <3>1, <4>1
    <3>3. head - 1 + 1 - 1 + capacity = head - 1 + capacity /\ Len(log) - 1 + 1 = Len(log)
      BY <2>1
    <3>4. Last = log[Len(log)]
      BY <2>1, <2>4, <3>2, <3>3 DEF Last
    <3>5. Summary.newest = Last
      BY DEF Summary, Last
    <3> DEFINE start == (head - size + capacity) % capacity
    <3>6. start \in 0 .. capacity - 1
      <4>1. head - size + capacity \in Int
        BY <2>1
      <4> QED BY <4>1, Remainder
    <3> HIDE DEF start
    <3>7. (start + 1 - 1) % capacity = start
      <4>1. start + 1 - 1 = start
        BY <3>6
      <4> QED BY <3>6, <4>1, SmallRemainder
    <3>8. Snapshot(0)[1] = buf[(start + 1 - 1) % capacity]
      <4>1. Snapshot(0) = [i \in 1 .. size |-> buf[(start + i - 1) % capacity]]
        BY <2>2 DEF Snapshot, start
      <4>2. 1 \in 1 .. size
        BY <2>1, <2>4
      <4> QED BY <4>1, <4>2
    <3>9. Summary.oldest = buf[start]
      BY <2>4 DEF Summary, start
    <3> QED BY <3>4, <3>5, <3>7, <3>8, <3>9
  <2> QED BY <2>3, <2>4 DEF ReadsAgree
<1> QED BY Inductive, <1>1, PTL

-------------------------------------------------------------------------------
(* The scrapes *)

ScrapeTypes ==
  /\ DOMAIN containers \subseteq Containers /\ \A c \in DOMAIN containers : containers[c] \in Nat
  /\ served \in [Containers -> Nat]
  /\ DOMAIN read \subseteq Containers /\ \A c \in DOMAIN read : read[c] \in Nat
  /\ targets \subseteq Containers /\ waiting \subseteq Containers
  /\ prev \in [Scrapes!Ids -> Nat \cup {Scrapes!None}]
  /\ counted \in [Scrapes!Ids -> [Scrapes!FamilyNames -> Nat]]
  /\ \A c \in DOMAIN containers : containers[c] <= served[c]

(* The requests of a container that its counter has, and all of a service  *)
(* that were reported.                                                     *)
Now(c) == IF c \in DOMAIN containers THEN containers[c] ELSE 0
Total(i) == counted[i]["server"] + counted[i]["client"]

Sole(c) == \A x \in Containers : ServiceOf[x] = ServiceOf[c] => x = c

(* What was reported of a service's only container are requests to its     *)
(* former lives, and those that the counter of this one had when it was    *)
(* last read; and what a visit under way will add to them keeps it so.     *)
Accounted(c) ==
  LET past == served[c] - Now(c)
      total == Total(ServiceOf[c])
      before == prev[ServiceOf[c]]
      upTo(v) == total <= past \/ (before # Scrapes!None /\ before <= v /\ total <= past + before)
  IN  IF c \in DOMAIN read
      THEN \/ total + Scrapes!counterRate(before, read[c]) <= past
           \/ read[c] <= Now(c) /\ upTo(read[c])
      ELSE upTo(Now(c))

ScrapeInv == ScrapeTypes /\ \A c \in Containers : Sole(c) => Accounted(c)

LEMMA ServiceIds == \A c \in Containers : ServiceOf[c] \in Scrapes!Ids
BY ScrapeAssumption DEF ScrapeAssumption, Scrapes!Ids, Scrapes!Range

(* The numbers an account is about. *)
LEMMA AccountTypes ==
  ASSUME ScrapeTypes, NEW c \in Containers
  PROVE  /\ Now(c) \in Nat /\ served[c] \in Nat /\ Now(c) <= served[c]
         /\ Total(ServiceOf[c]) \in Nat
         /\ prev[ServiceOf[c]] \in Nat \cup {-1}
BY ServiceIds DEF ScrapeTypes, Now, Total, Scrapes!FamilyNames, Scrapes!None

LEMMA ScrapeInit == Scrapes!Init => ScrapeInv
<1> SUFFICES ASSUME Scrapes!Init PROVE ScrapeInv
  OBVIOUS
<1>1. ScrapeTypes
  BY DEF Scrapes!Init, ScrapeTypes, Scrapes!None
<1>2. ASSUME NEW c \in Containers PROVE Accounted(c)
  <2>1. Total(ServiceOf[c]) = 0 /\ served[c] = 0 /\ Now(c) = 0 /\ c \notin DOMAIN read
    BY ServiceIds DEF Scrapes!Init, Total, Now, Scrapes!FamilyNames
  <2> QED BY <2>1 DEF Accounted
<1> QED BY <1>1, <1>2 DEF ScrapeInv

(* A container that starts, serves or stops. *)
LEMMA ContainerSteps ==
  ASSUME ScrapeInv, NEW d \in Containers,
         Scrapes!Request(d) \/ Scrapes!Stop(d) \/ Scrapes!Start(d)
  PROVE  ScrapeInv'
<1>1. UNCHANGED <<targets, waiting, read, prev, counted>>
  BY DEF Scrapes!Request, Scrapes!Stop, Scrapes!Start
<1>2. ScrapeTypes' /\ \A c \in Containers : c # d => Now(c)' = Now(c) /\ served'[c] = served[c]
  <2>1. CASE Scrapes!Request(d)
    <3>1. /\ containers' = [containers EXCEPT ![d] = @ + 1] /\ d \in DOMAIN containers
          /\ served' = [served EXCEPT ![d] = @ + 1]
      BY <2>1 DEF Scrapes!Request
    <3> QED BY <1>1, <3>1 DEF ScrapeInv, ScrapeTypes, Now
  <2>2. CASE Scrapes!Stop(d)
    <3>1. containers' = [x \in DOMAIN containers \ {d} |-> containers[x]] /\ served' = served
      BY <2>2 DEF Scrapes!Stop, Scrapes!Restrict
    <3> QED BY <1>1, <3>1 DEF ScrapeInv, ScrapeTypes, Now
  <2>3. CASE Scrapes!Start(d)
    <3>1. /\ containers' = [x \in DOMAIN containers \cup {d} |-> IF x = d THEN 0 ELSE containers[x]]
          /\ served' = served
      BY <2>3 DEF Scrapes!Start
    <3> QED BY <1>1, <3>1 DEF ScrapeInv, ScrapeTypes, Now
  <2> QED BY <2>1, <2>2, <2>3
<1>3. ASSUME NEW c \in Containers, Sole(c) PROVE Accounted(c)'
  <2>1. Accounted(c)
    BY <1>3 DEF ScrapeInv
  <2>2. CASE c # d
    BY <1>1, <1>2, <2>1, <2>2 DEF Accounted, Total
  <2>3. CASE c = d
    <3>1. \/ Now(c)' = Now(c) + 1 /\ served'[c] = served[c] + 1
          \/ Now(c)' = 0 /\ served'[c] = served[c]
      <4>1. CASE Scrapes!Request(d)
        BY <2>3, <4>1 DEF Scrapes!Request, Now, ScrapeInv, ScrapeTypes
      <4>2. CASE Scrapes!Stop(d) \/ Scrapes!Start(d)
        BY <2>3, <4>2 DEF Scrapes!Stop, Scrapes!Start, Scrapes!Restrict, Now
      <4> QED BY <4>1, <4>2
    <3>2. UNCHANGED <<Total(ServiceOf[c]), prev[ServiceOf[c]], read>>
      BY <1>1 DEF Total
    <3>3. c \in DOMAIN read => read[c] \in Nat
      BY DEF ScrapeInv, ScrapeTypes
    <3>4. /\ Now(c) \in Nat /\ served[c] \in Nat /\ Now(c) <= served[c]
          /\ Total(ServiceOf[c]) \in Nat /\ prev[ServiceOf[c]] \in Nat \cup {-1}
      BY AccountTypes DEF ScrapeInv
    <3> QED BY <2>1, <3>1, <3>2, <3>3, <3>4 DEF Accounted, Scrapes!counterRate, Scrapes!None
  <2> QED BY <2>2, <2>3
<1>4. \A c \in Containers : Sole(c)' <=> Sole(c)
  BY DEF Sole
<1> QED BY <1>2, <1>3, <1>4 DEF ScrapeInv

(* A visit reads the counter of a container. *)
LEMMA VisitSteps ==
  ASSUME ScrapeInv, NEW d \in Containers, Scrapes!Scrape(d)
  PROVE  ScrapeInv'
<1>1. UNCHANGED <<containers, served, targets, prev, counted>> /\ waiting' \subseteq Containers
  BY DEF Scrapes!Scrape, ScrapeInv, ScrapeTypes
<1>2. CASE UNCHANGED read
  BY <1>1, <1>2 DEF ScrapeInv, ScrapeTypes, Accounted, Total, Now, Sole
<1>3. CASE /\ d \in DOMAIN containers
           /\ read' = [x \in DOMAIN read \cup {d} |-> IF x = d THEN containers[d] ELSE read[x]]
  <2>1. ScrapeTypes'
    BY <1>1, <1>3 DEF ScrapeInv, ScrapeTypes
  <2>2. ASSUME NEW c \in Containers, Sole(c) PROVE Accounted(c)'
    <3>1. Accounted(c)
      BY <2>2 DEF ScrapeInv
    <3>2. CASE c # d
      BY <1>1, <1>3, <3>1, <3>2 DEF Accounted, Total, Now
    <3>3. CASE c = d
      <4>1. c \in DOMAIN read' /\ read'[c] = Now(c)
        BY <1>3, <3>3 DEF Now
      <4>2. /\ Now(c) \in Nat /\ served[c] \in Nat /\ Now(c) <= served[c]
            /\ Total(ServiceOf[c]) \in Nat /\ prev[ServiceOf[c]] \in Nat \cup {-1}
        BY AccountTypes DEF ScrapeInv
      <4>3. c \in DOMAIN read => read[c] \in Nat
        BY DEF ScrapeInv, ScrapeTypes
      <4>4. UNCHANGED <<Now(c), Total(ServiceOf[c]), prev[ServiceOf[c]], served>>
        BY <1>1 DEF Total, Now
      <4> QED BY <3>1, <4>1, <4>2, <4>3, <4>4 DEF Accounted, Scrapes!counterRate, Scrapes!None
    <3> QED BY <3>2, <3>3
  <2> QED BY <2>1, <2>2 DEF ScrapeInv, Sole
<1> QED BY <1>2, <1>3 DEF Scrapes!Scrape

(* A visit that has read a counter reports what it has grown by. *)
LEMMA BuildSteps ==
  ASSUME ScrapeInv, NEW d \in Containers, Scrapes!Build(d)
  PROVE  ScrapeInv'
<1> DEFINE i == ServiceOf[d]
           rate == Scrapes!counterRate(prev[i], read[d])
<1>1. /\ UNCHANGED <<containers, served, targets, waiting>> /\ d \in DOMAIN read
      /\ read' = [x \in DOMAIN read \ {d} |-> read[x]]
      /\ prev' = [prev EXCEPT ![i] = read[d]]
      /\ counted' = [counted EXCEPT ![i] =
           [f \in Scrapes!FamilyNames |->
              IF f \in Scrapes!Fed(d) THEN @[f] + rate ELSE @[f]]]
  BY DEF Scrapes!Build, Scrapes!Restrict, Scrapes!Remember
<1>2. i \in Scrapes!Ids /\ read[d] \in Nat /\ prev[i] \in Nat \cup {-1}
  BY <1>1, ServiceIds, AccountTypes DEF ScrapeInv, ScrapeTypes
<1>3. rate \in Nat
  BY <1>2 DEF Scrapes!counterRate, Scrapes!None
<1> HIDE DEF rate
<1>4. prev' \in [Scrapes!Ids -> Nat \cup {Scrapes!None}]
  BY <1>1, <1>2 DEF ScrapeInv, ScrapeTypes
<1>5. counted' \in [Scrapes!Ids -> [Scrapes!FamilyNames -> Nat]]
  BY <1>1, <1>2, <1>3 DEF ScrapeInv, ScrapeTypes
<1>6. ScrapeTypes'
  BY <1>1, <1>4, <1>5 DEF ScrapeInv, ScrapeTypes
<1>7. /\ \A x \in Scrapes!Ids : x # i => Total(x)' = Total(x) /\ prev'[x] = prev[x]
      /\ prev'[i] = read[d]
      /\ Total(i)' = Total(i) \/ Total(i)' = Total(i) + rate
  <2>1. \A x \in Scrapes!Ids : x # i => counted'[x] = counted[x] /\ prev'[x] = prev[x]
    BY <1>1 DEF ScrapeInv, ScrapeTypes
  <2>2. prev'[i] = read[d]
    BY <1>1, <1>2 DEF ScrapeInv, ScrapeTypes
  <2>3. ~("server" \in Scrapes!Fed(d) /\ "client" \in Scrapes!Fed(d))
    BY DEF Scrapes!Fed
  <2>4. \A f \in Scrapes!FamilyNames :
          counted'[i][f] = IF f \in Scrapes!Fed(d) THEN counted[i][f] + rate ELSE counted[i][f]
    BY <1>1, <1>2 DEF ScrapeInv, ScrapeTypes
  <2>5. counted[i]["server"] \in Nat /\ counted[i]["client"] \in Nat
    BY <1>2 DEF ScrapeInv, ScrapeTypes, Scrapes!FamilyNames
  <2>6. counted'[i]["server"] + counted'[i]["client"]
          \in {Total(i), Total(i) + rate}
    BY <1>3, <2>3, <2>4, <2>5 DEF Total, Scrapes!FamilyNames
  <2> QED BY <2>1, <2>2, <2>6 DEF Total
<1>8. ASSUME NEW c \in Containers, Sole(c) PROVE Accounted(c)'
  <2>1. Accounted(c)
    BY <1>8 DEF ScrapeInv
  <2>2. /\ Now(c) \in Nat /\ served[c] \in Nat /\ Now(c) <= served[c]
        /\ Total(ServiceOf[c]) \in Nat /\ prev[ServiceOf[c]] \in Nat \cup {-1}
    BY AccountTypes DEF ScrapeInv
  <2>3. CASE c # d
    <3>1. ServiceOf[c] # i /\ ServiceOf[c] \in Scrapes!Ids
      BY <1>8, <2>3, ServiceIds DEF Sole
    <3>2. UNCHANGED <<Total(ServiceOf[c]), prev[ServiceOf[c]], Now(c), served>>
      BY <1>1, <1>7, <3>1 DEF Now
    <3>3. (c \in DOMAIN read' <=> c \in DOMAIN read) /\ (c \in DOMAIN read => read'[c] = read[c])
      BY <1>1, <2>3
    <3> QED BY <2>1, <3>2, <3>3 DEF Accounted
  <2>4. CASE c = d
    <3>1. /\ c \notin DOMAIN read' /\ prev'[ServiceOf[c]] = read[c]
          /\ \/ Total(ServiceOf[c])' = Total(ServiceOf[c])
             \/ Total(ServiceOf[c])' = Total(ServiceOf[c])
                                         + Scrapes!counterRate(prev[ServiceOf[c]], read[c])
      BY <1>1, <1>7, <2>4 DEF rate
    <3>2. UNCHANGED <<Now(c), served>>
      BY <1>1 DEF Now
    <3> QED BY <1>1, <1>2, <2>1, <2>2, <2>4, <3>1, <3>2
            DEF Accounted, Scrapes!counterRate, Scrapes!None
  <2> QED BY <2>3, <2>4
<1> QED BY <1>6, <1>8 DEF ScrapeInv, Sole

LEMMA ScrapeStep == ScrapeInv /\ [Scrapes!Next]_(Scrapes!vars) => ScrapeInv'
<1> SUFFICES ASSUME ScrapeInv, [Scrapes!Next]_(Scrapes!vars) PROVE ScrapeInv'
  OBVIOUS
<1>1. CASE /\ UNCHANGED <<containers, served, read, prev, counted>>
           /\ targets' \subseteq Containers /\ waiting' \subseteq Containers
  BY <1>1 DEF ScrapeInv, ScrapeTypes, Accounted, Total, Now, Sole
<1>2. CASE Scrapes!Discover
  BY <1>1, <1>2 DEF Scrapes!Discover, ScrapeInv, ScrapeTypes
<1>3. CASE Scrapes!BeginScrape
  BY <1>1, <1>3 DEF Scrapes!BeginScrape, ScrapeInv, ScrapeTypes
<1>4. CASE UNCHANGED Scrapes!vars
  BY <1>1, <1>4 DEF Scrapes!vars, ScrapeInv, ScrapeTypes
<1> QED BY <1>2, <1>3, <1>4, ContainerSteps, VisitSteps, BuildSteps DEF Scrapes!Next

(* The increments reported for a service with one container never exceed   *)
(* the requests made to it (collector normalizer counterRate): a counter   *)
(* that has gone down gives nothing, so what is reported of a life is at   *)
(* most what its counter had.                                              *)
THEOREM ScrapesNeverOvercount == Scrapes!Spec => []Scrapes!NeverOvercounts
<1>1. ScrapeInv => Scrapes!NeverOvercounts
  <2> SUFFICES ASSUME ScrapeInv, NEW c \in Containers, Sole(c)
               PROVE  Total(ServiceOf[c]) <= served[c]
    BY DEF Scrapes!NeverOvercounts, Sole, Total
  <2>1. /\ Now(c) \in Nat /\ served[c] \in Nat /\ Now(c) <= served[c]
        /\ Total(ServiceOf[c]) \in Nat /\ prev[ServiceOf[c]] \in Nat \cup {-1}
    BY AccountTypes DEF ScrapeInv
  <2>2. Accounted(c) /\ (c \in DOMAIN read => read[c] \in Nat)
    BY DEF ScrapeInv, ScrapeTypes
  <2> QED BY <2>1, <2>2 DEF Accounted, Scrapes!counterRate, Scrapes!None
<1> QED BY ScrapeInit, ScrapeStep, <1>1, PTL DEF Scrapes!Spec

-------------------------------------------------------------------------------
(* The ingest handlers *)

(* The decoded fields of a payload. *)
Named(r, s) == s \in 1 .. Len(r.points) /\ r.points[s] # "bare"

Uploads == [number : Nat, slice : Ingests!Slices, points : Seq(Ingests!Elements),
            next : Nat \ {0}]

(* A handler at work has a slice of its own, out of the pool, and what its *)
(* payload names is in it.                                                 *)
IngestInv ==
  /\ arrays \in [Ingests!Slices -> [Ingests!Slots -> Nat]] /\ uploads \in Nat
  /\ pool \subseteq Ingests!Slices
  /\ DOMAIN upload = Handlers
  /\ \A h \in Handlers : upload[h] # Ingests!None =>
       /\ upload[h] \in Uploads /\ upload[h].slice \notin pool
       /\ Len(upload[h].points) \in 1 .. MaxBatchSize
       /\ \A s \in Ingests!Slots :
            Named(upload[h], s) => arrays[upload[h].slice][s] = upload[h].number
  /\ \A h, i \in Handlers :
       h # i /\ upload[h] # Ingests!None /\ upload[i] # Ingests!None =>
         upload[h].slice # upload[i].slice

LEMMA PayloadFacts ==
  ASSUME NEW p \in Ingests!Payloads
  PROVE  /\ Len(p.points) \in 0 .. MaxBatchSize + 1 /\ DOMAIN p.points = 1 .. Len(p.points)
         /\ ~Ingests!Refused(p) => Len(p.points) \in 1 .. MaxBatchSize
         /\ p.points \in Seq(Ingests!Elements)
<1>m. MaxBatchSize \in Nat
  BY IngestAssumption
<1> DEFINE n == Len(p.points)
<1>1. CASE p \in [kind : {"array"},
                  points : Ingests!SeqOf(Ingests!Elements, MaxBatchSize + 1) \ {<<>>},
                  badType : BOOLEAN]
  <2>1. /\ p.points # <<>>
        /\ p.points \in Ingests!SeqOf(Ingests!Elements, MaxBatchSize + 1)
    BY <1>1
  <2>2. PICK m \in 0 .. MaxBatchSize + 1 : p.points \in [1 .. m -> Ingests!Elements]
    BY <2>1 DEF Ingests!SeqOf
  <2>3. m \in Nat
    BY <1>m, <2>2
  <2>4. p.points \in Seq(Ingests!Elements)
    BY <2>2, <2>3
  <2>5. n = m /\ DOMAIN p.points = 1 .. m
    BY <2>2, <2>3
  <2>6. m # 0
    BY <2>1, <2>4, <2>5, EmptySeq
  <2> QED BY <1>m, <2>2, <2>4, <2>5, <2>6 DEF Ingests!Refused
<1>2. CASE p \in [kind : {"object"}, points : {<<e>> : e \in Ingests!Elements}, badType : BOOLEAN]
  <2>1. PICK e \in Ingests!Elements : p.points = <<e>>
    BY <1>2
  <2>2. p.points \in Seq(Ingests!Elements) /\ n = 1 /\ DOMAIN p.points = 1 .. 1
    BY <2>1
  <2> QED BY <1>m, <2>2 DEF Ingests!Refused
<1>3. CASE p \in [kind : {"neither"}, points : {<<>>}, badType : {FALSE}]
  <2>1. p.points = <<>> /\ p.kind = "neither"
    BY <1>3
  <2>2. p.points \in Seq(Ingests!Elements) /\ n = 0 /\ DOMAIN p.points = 1 .. 0
    BY <2>1
  <2> QED BY <1>m, <2>1, <2>2 DEF Ingests!Refused
<1> QED BY <1>1, <1>2, <1>3 DEF Ingests!Payloads

LEMMA IngestReceives ==
  ASSUME IngestInv, NEW h \in Handlers, NEW p \in Ingests!Payloads, Ingests!Receive(h, p)
  PROVE  IngestInv'
<1>m. MaxBatchSize \in Nat
  BY IngestAssumption
<1>0. /\ arrays \in [Ingests!Slices -> [Ingests!Slots -> Nat]] /\ uploads \in Nat
      /\ pool \subseteq Ingests!Slices /\ DOMAIN upload = Handlers
  BY DEF IngestInv
<1>1. PICK a \in pool \cup (Ingests!Slices \ Ingests!InUse) :
        /\ arrays' = [arrays EXCEPT ![a] = Ingests!DecodedInto(
                        IF a \in pool THEN @ ELSE Ingests!Fresh, p, uploads')]
        /\ pool' = Ingests!PoolAfter(a, p)
        /\ upload' = IF Ingests!Refused(p) THEN upload
                     ELSE [upload EXCEPT ![h] = [number |-> uploads', slice |-> a,
                                                 points |-> p.points, next |-> 1]]
  BY DEF Ingests!Receive
<1>2. upload[h] = Ingests!None /\ uploads' = uploads + 1 /\ uploads' \in Nat \ {0}
  BY <1>0 DEF Ingests!Receive
<1>3. a \in Ingests!Slices
  BY <1>0, <1>1
<1>4. ASSUME NEW i \in Handlers, upload[i] # Ingests!None
      PROVE  upload[i].slice # a /\ upload[i].slice \in Ingests!Slices \ pool
  BY <1>1, <1>4 DEF IngestInv, Uploads, Ingests!InUse
<1> DEFINE was == IF a \in pool THEN arrays[a] ELSE Ingests!Fresh
           d == Ingests!DecodedInto(was, p, uploads')
<1>5. was \in [Ingests!Slots -> Nat]
  BY <1>0, <1>3 DEF Ingests!Fresh, Ingests!Empty
<1> HIDE DEF was
<1>6. d \in [Ingests!Slots -> Nat]
  BY <1>2, <1>5 DEF Ingests!DecodedInto, Ingests!Decoded, Ingests!Empty
<1>7. ~Ingests!Refused(p) => \A s \in Ingests!Slots : Named(p, s) => d[s] = uploads'
  BY PayloadFacts DEF Ingests!DecodedInto, Ingests!Decoded, Ingests!Refused, Named
<1>8. arrays' = [arrays EXCEPT ![a] = d]
  BY <1>1 DEF was
<1> HIDE DEF d
<1>9. /\ arrays' \in [Ingests!Slices -> [Ingests!Slots -> Nat]] /\ arrays'[a] = d
      /\ \A b \in Ingests!Slices : b # a => arrays'[b] = arrays[b]
  BY <1>0, <1>3, <1>6, <1>8
<1>10. /\ pool' \subseteq pool \cup {a} /\ (~Ingests!Refused(p) => a \notin pool')
       /\ pool' \subseteq Ingests!Slices
  BY <1>0, <1>1, <1>3 DEF Ingests!PoolAfter
<1> DEFINE new == [number |-> uploads', slice |-> a, points |-> p.points, next |-> 1]
<1>11. /\ DOMAIN upload' = Handlers
       /\ \A i \in Handlers : upload'[i] = upload[i] \/ (i = h /\ ~Ingests!Refused(p) /\ upload'[i] = new)
  BY <1>0, <1>1
<1>12. ASSUME NEW i \in Handlers, upload'[i] # Ingests!None
       PROVE  /\ upload'[i] \in Uploads /\ upload'[i].slice \notin pool'
              /\ Len(upload'[i].points) \in 1 .. MaxBatchSize
              /\ \A s \in Ingests!Slots :
                   Named(upload'[i], s) => arrays'[upload'[i].slice][s] = upload'[i].number
  <2>1. CASE upload'[i] = upload[i]
    <3>1. upload[i].slice # a /\ upload[i].slice \in Ingests!Slices \ pool
      BY <1>4, <1>12, <2>1
    <3>2. arrays'[upload[i].slice] = arrays[upload[i].slice]
      BY <1>9, <3>1
    <3> QED BY <1>10, <1>12, <2>1, <3>1, <3>2 DEF IngestInv
  <2>2. CASE ~Ingests!Refused(p) /\ upload'[i] = new
    <3>1. upload'[i].slice = a /\ upload'[i].points = p.points /\ upload'[i].next = 1
          /\ upload'[i].number = uploads'
      BY <2>2
    <3>2. Len(p.points) \in 1 .. MaxBatchSize /\ p.points \in Seq(Ingests!Elements)
      BY <2>2, PayloadFacts
    <3>4. new \in Uploads
      BY <1>2, <1>3, <3>2 DEF Uploads
    <3>3. \A s : Named(upload'[i], s) <=> Named(p, s)
      BY <3>1 DEF Named
    <3> QED BY <1>3, <1>7, <1>9, <1>10, <2>2, <3>1, <3>2, <3>3, <3>4
  <2> QED BY <1>11, <2>1, <2>2
<1>13. ASSUME NEW i \in Handlers, NEW j \in Handlers, i # j,
              upload'[i] # Ingests!None, upload'[j] # Ingests!None
       PROVE  upload'[i].slice # upload'[j].slice
  <2>1. CASE upload'[i] = upload[i] /\ upload'[j] = upload[j]
    BY <1>13, <2>1 DEF IngestInv
  <2>2. CASE upload'[i] = upload[i] /\ upload'[j] = new
    BY <1>4, <1>13, <2>2
  <2>3. CASE upload'[i] = new /\ upload'[j] = upload[j]
    BY <1>4, <1>13, <2>3
  <2> QED BY <1>11, <1>13, <2>1, <2>2, <2>3
<1> HIDE DEF new
<1> QED BY <1>2, <1>9, <1>10, <1>11, <1>12, <1>13 DEF IngestInv

(* A point that is given to the store is the one that was sent. *)
LEMMA IngestGives ==
  ASSUME IngestInv, Ingests!StoredAsSent, NEW h \in Handlers, Ingests!IngestPoint(h)
  PROVE  Ingests!StoredAsSent'
<1> DEFINE r == upload[h]
           new == [sent |-> IF r.points[r.next] = "full" THEN r.number ELSE Ingests!Empty,
                   kept |-> arrays[r.slice][r.next]]
<1>1. r # Ingests!None /\ r.next <= Len(r.points) /\ stored' \subseteq stored \cup {new}
  BY DEF Ingests!IngestPoint
<1>2. Len(r.points) \in 1 .. MaxBatchSize /\ r.next \in Nat \ {0} /\ MaxBatchSize \in Nat
  BY <1>1, IngestAssumption DEF IngestInv, Uploads
<1>3. r.next \in 1 .. Len(r.points) /\ r.next \in Ingests!Slots
  BY <1>1, <1>2 DEF Ingests!Slots
<1>4. ASSUME r.points[r.next] = "full" PROVE arrays[r.slice][r.next] = r.number
  <2>1. Named(r, r.next)
    BY <1>3, <1>4 DEF Named
  <2> QED BY <1>1, <1>3, <2>1 DEF IngestInv
<1>5. new.sent # Ingests!Empty => new.kept = new.sent
  BY <1>4
<1> HIDE DEF new
<1> QED BY <1>1, <1>5 DEF Ingests!StoredAsSent

(* Whatever requests share the pool, and whatever the runtime takes out of *)
(* it, the store is given what the payload names (handleIngest, server.go: *)
(* the deferred Put, the decoding into a used slice).                      *)
THEOREM IngestKeepsPoints == Ingests!Spec => []Ingests!StoredAsSent
<1>1. Ingests!Init => IngestInv /\ Ingests!StoredAsSent
  <2> SUFFICES ASSUME Ingests!Init PROVE IngestInv /\ Ingests!StoredAsSent
    OBVIOUS
  <2>1. arrays \in [Ingests!Slices -> [Ingests!Slots -> Nat]]
    BY DEF Ingests!Init, Ingests!Fresh, Ingests!Empty
  <2> QED BY <2>1 DEF Ingests!Init, IngestInv, Ingests!StoredAsSent
<1>2. IngestInv /\ Ingests!StoredAsSent /\ [Ingests!Next]_(Ingests!vars) => (IngestInv /\ Ingests!StoredAsSent)'
  <2> SUFFICES ASSUME IngestInv, Ingests!StoredAsSent, [Ingests!Next]_(Ingests!vars)
               PROVE  IngestInv' /\ Ingests!StoredAsSent'
    OBVIOUS
  <2>1. ASSUME NEW h \in Handlers, NEW p \in Ingests!Payloads, Ingests!Receive(h, p)
        PROVE  IngestInv' /\ Ingests!StoredAsSent'
    BY <2>1, IngestReceives DEF Ingests!Receive, Ingests!StoredAsSent
  <2>2. ASSUME NEW h \in Handlers, Ingests!IngestPoint(h) PROVE IngestInv' /\ Ingests!StoredAsSent'
    <3>1. /\ UNCHANGED <<arrays, pool, uploads>> /\ upload[h] # Ingests!None
          /\ upload' = [upload EXCEPT ![h].next = upload[h].next + 1]
      BY <2>2 DEF Ingests!IngestPoint
    <3>2. /\ DOMAIN upload' = Handlers /\ \A i \in Handlers \ {h} : upload'[i] = upload[i]
          /\ upload'[h] = [upload[h] EXCEPT !.next = upload[h].next + 1]
      BY <3>1 DEF IngestInv
    <3>3. upload[h] \in Uploads
      BY <3>1 DEF IngestInv
    <3>4. /\ upload'[h] \in Uploads /\ upload'[h].slice = upload[h].slice
          /\ upload'[h].points = upload[h].points /\ upload'[h].number = upload[h].number
      BY <3>2, <3>3 DEF Uploads
    <3>5. \A i \in Handlers : upload'[i] # Ingests!None =>
             /\ upload[i] # Ingests!None /\ upload'[i] \in Uploads
             /\ upload'[i].slice = upload[i].slice /\ upload'[i].points = upload[i].points
             /\ upload'[i].number = upload[i].number
      BY <3>1, <3>2, <3>4 DEF IngestInv
    <3>6. \A i \in Handlers : \A s :
            upload'[i] # Ingests!None => (Named(upload'[i], s) <=> Named(upload[i], s))
      BY <3>5 DEF Named
    <3>7. IngestInv'
      BY SMTT(30), <3>1, <3>2, <3>5, <3>6 DEF IngestInv
    <3> QED BY <2>2, <3>7, IngestGives
  <2>3. ASSUME NEW h \in Handlers, Ingests!Finish(h) PROVE IngestInv' /\ Ingests!StoredAsSent'
    <3>1. /\ UNCHANGED <<arrays, uploads, stored>> /\ upload[h] # Ingests!None
          /\ pool' = pool \cup {upload[h].slice}
          /\ upload' = [upload EXCEPT ![h] = Ingests!None]
      BY <2>3 DEF Ingests!Finish
    <3>2. \A i \in Handlers : upload'[i] # Ingests!None => i # h /\ upload'[i] = upload[i]
      BY <3>1 DEF IngestInv
    <3>3. DOMAIN upload' = Handlers /\ upload[h].slice \in Ingests!Slices
      BY <3>1 DEF IngestInv, Uploads
    <3>4. IngestInv'
      BY <3>1, <3>2, <3>3 DEF IngestInv, Named
    <3> QED BY <3>1, <3>4 DEF Ingests!StoredAsSent
  <2>4. ASSUME NEW a \in Ingests!Slices, Ingests!Drop(a) PROVE IngestInv' /\ Ingests!StoredAsSent'
    BY <2>4 DEF Ingests!Drop, IngestInv, Named, Ingests!StoredAsSent
  <2>5. CASE UNCHANGED Ingests!vars
    BY <2>5 DEF Ingests!vars, IngestInv, Named, Ingests!StoredAsSent
  <2> QED BY <2>1, <2>2, <2>3, <2>4, <2>5 DEF Ingests!Next
<1> QED BY <1>1, <1>2, PTL DEF Ingests!Spec

-------------------------------------------------------------------------------
(* What comes in is what is kept: the buffer, the scrapes and the ingest   *)
(* handlers side by side.                                                  *)
THEOREM IntakeStaysTrue == Spec /\ Scrapes!Spec /\ Ingests!Spec => []IntakeTrue
BY ReadsAgreeAlways, ScrapesNeverOvercount, IngestKeepsPoints, PTL DEF IntakeTrue

-------------------------------------------------------------------------------
(* The control API *)

(* What the histories say of request number m. *)
NoAction(m) ==
  /\ \A i \in DOMAIN done : done[i] # m
  /\ \A i \in DOMAIN logged : logged[i] # <<m, "control_action">>
ActedOnce(m) == \E i \in DOMAIN done : \A j \in DOMAIN done : done[j] = m <=> j = i
InLog(m, kind) == \E i \in DOMAIN logged : logged[i] = <<m, kind>>

(* What is so of a request, by where it is. *)
Fair(r) ==
  /\ r.at \in {"cors", "auth", "handle"} => NoAction(r.n)
  /\ r.at = "handle" /\ r.route \in Api!Writes => InLog(r.n, "auth_ok")
  /\ r.at \in {"step", "audit"} =>
       r.route \in Api!Audited /\ ActedOnce(r.n) /\ InLog(r.n, "auth_ok")
  /\ r.at = "answered" /\ r.route \in Api!Writes =>
       IF r.status \in {200, 202}
       THEN ActedOnce(r.n) /\ InLog(r.n, "auth_ok")
            /\ (r.route \in Api!Audited => InLog(r.n, "control_action"))
       ELSE NoAction(r.n)

Events == {"rate_limit", "auth_fail", "auth_ok", "control_action"}
Methods == {"none", "GET", "POST", "OPTIONS"}
Contents == {"none", "good", "malformed", "unknown"}
Requests == [at : {"free", "cors", "auth", "handle", "step", "audit", "answered"}, n : Nat,
             route : Routes \cup {"none"}, method : Methods, token : BOOLEAN, body : Contents,
             status : Nat]

ApiTypes ==
  /\ req \in [Handlers -> Requests] /\ count \in Nat
  /\ done \in Seq(Nat) /\ \A i \in DOMAIN done : done[i] <= count
  /\ logged \in Seq(Nat \X Events)
  /\ \A i \in DOMAIN logged : logged[i][1] <= count

(* The requests being served have numbers of their own. *)
Numbered ==
  \A h \in Handlers : req[h].at # "free" =>
    /\ req[h].n \in 1 .. count
    /\ \A g \in Handlers : g # h /\ req[g].at # "free" => req[g].n # req[h].n

ApiInv == ApiTypes /\ Numbered /\ \A h \in Handlers : Fair(req[h])

(* What is remembered of other requests stays as it was. *)
LEMMA OthersKeep ==
  ASSUME ApiTypes, NEW m \in Nat, NEW o \in Nat, o # m,
         \/ done' = done
         \/ done' = Append(done, o),
         \/ logged' = logged
         \/ \E k \in Events : logged' = Append(logged, <<o, k>>)
  PROVE  /\ NoAction(m) => NoAction(m)'
         /\ ActedOnce(m) => ActedOnce(m)'
         /\ \A k \in Events : InLog(m, k) => InLog(m, k)'
<1>1. /\ \A i \in DOMAIN done : i \in DOMAIN done' /\ done'[i] = done[i]
      /\ \A i \in DOMAIN done' : i \notin DOMAIN done => done'[i] = o
  <2>1. CASE done' = done
    BY <2>1
  <2>2. CASE done' = Append(done, o)
    BY <2>2 DEF ApiTypes
  <2> QED BY <2>1, <2>2
<1>2. /\ \A i \in DOMAIN logged : i \in DOMAIN logged' /\ logged'[i] = logged[i]
      /\ \A i \in DOMAIN logged' : i \notin DOMAIN logged => \E k \in Events : logged'[i] = <<o, k>>
  <2>1. CASE logged' = logged
    BY <2>1
  <2>2. ASSUME NEW k \in Events, logged' = Append(logged, <<o, k>>) PROVE <1>2
    <3>1. <<o, k>> \in Nat \X Events
      OBVIOUS
    <3> HIDE DEF Events
    <3> QED BY <2>2, <3>1 DEF ApiTypes
  <2> QED BY <2>1, <2>2
<1>3. NoAction(m) => NoAction(m)'
  BY <1>1, <1>2 DEF NoAction
<1>4. ActedOnce(m) => ActedOnce(m)'
  BY <1>1 DEF ActedOnce
<1>5. \A k \in Events : InLog(m, k) => InLog(m, k)'
  BY <1>2 DEF InLog
<1> QED BY <1>3, <1>4, <1>5

(* A step of one handler, whose request becomes r. *)
LEMMA HandlerSteps ==
  ASSUME ApiInv, NEW h \in Handlers, NEW r \in Requests, req' = [req EXCEPT ![h] = r],
         count' = count, r.n = req[h].n, req[h].at # "free",
         \/ done' = done
         \/ done' = Append(done, r.n),
         \/ logged' = logged
         \/ \E k \in Events : logged' = Append(logged, <<r.n, k>>),
         Fair(r)'
  PROVE  ApiInv'
<1> USE DEF ApiInv
<1>1. r.n \in Nat /\ r.n \in 1 .. count
  BY DEF Numbered, ApiTypes
<1>2. req' \in [Handlers -> Requests] /\ req'[h] = r
      /\ \A g \in Handlers : g # h => req'[g] = req[g]
  BY DEF ApiTypes
<1>3. ApiTypes'
  <2>1. done' \in Seq(Nat) /\ \A i \in DOMAIN done' : done'[i] <= count'
    <3>1. CASE done' = done
      BY <3>1 DEF ApiTypes
    <3>2. CASE done' = Append(done, r.n)
      BY <1>1, <3>2 DEF ApiTypes
    <3> QED BY <3>1, <3>2
  <2>2. logged' \in Seq(Nat \X Events) /\ \A i \in DOMAIN logged' : logged'[i][1] <= count'
    <3>1. CASE logged' = logged
      BY <3>1 DEF ApiTypes
    <3>2. ASSUME NEW k \in Events, logged' = Append(logged, <<r.n, k>>) PROVE <2>2
      <4>1. <<r.n, k>> \in Nat \X Events /\ <<r.n, k>>[1] <= count
        BY <1>1
      <4> HIDE DEF Events
      <4> QED BY <3>2, <4>1 DEF ApiTypes
    <3> QED BY <3>1, <3>2
  <2> QED BY <1>2, <2>1, <2>2 DEF ApiTypes
<1>4. Numbered'
  BY <1>2 DEF Numbered
<1>5. ASSUME NEW g \in Handlers PROVE Fair(req[g])'
  <2>1. CASE g = h
    BY <1>2, <2>1 DEF Fair, NoAction, ActedOnce, InLog
  <2>2. CASE g # h /\ req[g].at = "free"
    BY <1>2, <2>2 DEF Fair
  <2>3. CASE g # h /\ req[g].at # "free"
    <3>1. PICK m \in Nat : m = req[g].n
      BY DEF ApiTypes, Requests
    <3>2. m # r.n /\ req'[g] = req[g]
      BY <1>2, <2>3, <3>1 DEF Numbered
    <3>3. /\ NoAction(m) => NoAction(m)'
          /\ ActedOnce(m) => ActedOnce(m)'
          /\ \A k \in Events : InLog(m, k) => InLog(m, k)'
      BY <1>1, <3>2, OthersKeep
    <3>4. Fair(req[g])
      OBVIOUS
    <3> QED BY <3>1, <3>2, <3>3, <3>4 DEF Fair, NoAction, ActedOnce, InLog, Events
  <2> QED BY <2>1, <2>2, <2>3
<1> QED BY <1>3, <1>4, <1>5

(* The audit log is a ring of the last events. *)
AuditRing ==
  /\ Holds(logged, auditBuf, AuditBufSize)
  /\ auditHead = Len(logged) % AuditBufSize
  /\ auditSize = IF Len(logged) < AuditBufSize THEN Len(logged) ELSE AuditBufSize

LEMMA LogKeepsRing ==
  ASSUME ApiTypes, AuditRing, NEW e \in Nat \X Events, Api!Log(e)
  PROVE  AuditRing'
<1>1. logged \in Seq(Nat \X Events) /\ Len(logged) \in Nat /\ logged' = Append(logged, e)
  BY DEF ApiTypes, Api!Log
<1>2. Len(logged') = Len(logged) + 1
  BY <1>1
<1>3. /\ auditBuf' = [auditBuf EXCEPT ![auditHead] = e]
      /\ auditHead' = (auditHead + 1) % AuditBufSize
      /\ auditSize' = IF auditSize < AuditBufSize THEN auditSize + 1 ELSE auditSize
  BY DEF Api!Log
<1>4. Holds(logged, auditBuf, AuditBufSize) /\ auditHead = Len(logged) % AuditBufSize
  BY DEF AuditRing
<1>5. /\ Holds(logged', auditBuf', AuditBufSize)
      /\ auditHead' = Len(logged') % AuditBufSize
  BY <1>1, <1>3, <1>4, AuditAssumption, RingAppend DEF AuditAssumption
<1>6. auditSize' = IF Len(logged') < AuditBufSize THEN Len(logged') ELSE AuditBufSize
  BY <1>1, <1>2, <1>3, AuditAssumption DEF AuditRing, AuditAssumption
<1> QED BY <1>5, <1>6 DEF AuditRing

(* What the log returns of such a ring. *)
LEMMA RecentReads == ApiTypes /\ AuditRing => Api!RecentIsLast
<1> SUFFICES ASSUME ApiTypes, AuditRing, NEW n \in 0 .. AuditBufSize + 1
             PROVE  LET k == IF n > Len(logged) THEN Len(logged)
                             ELSE IF n > AuditBufSize THEN AuditBufSize ELSE n
                    IN  Api!Recent(n) = Api!LastOf(logged, k)
  BY DEF Api!RecentIsLast
<1> DEFINE k == IF n > Len(logged) THEN Len(logged)
                ELSE IF n > AuditBufSize THEN AuditBufSize ELSE n
           s == [i \in 1 .. k |-> logged[Len(logged) - k + i]]
<1>1. logged \in Seq(Nat \X Events) /\ Len(logged) \in Nat /\ AuditBufSize \in Nat \ {0}
  BY AuditAssumption DEF ApiTypes, AuditAssumption
<1>2. k \in 0 .. AuditBufSize /\ k <= Len(logged) /\ k = IF n > auditSize THEN auditSize ELSE n
  BY <1>1 DEF AuditRing
<1>3. Api!Recent(n) = [i \in 1 .. k |-> auditBuf[(auditHead - k + i - 1 + AuditBufSize) % AuditBufSize]]
  BY <1>2 DEF Api!Recent
<1> HIDE DEF k
<1>4. \A i \in 1 .. k : auditBuf[(auditHead - k + i - 1 + AuditBufSize) % AuditBufSize]
                          = logged[Len(logged) - k + i]
  <2>1. Holds(logged, auditBuf, AuditBufSize) /\ auditHead = Len(logged) % AuditBufSize
    BY DEF AuditRing
  <2>2. \A i \in 1 .. k :
          auditBuf[((Len(logged) % AuditBufSize) - k + i - 1 + AuditBufSize) % AuditBufSize]
            = logged[Len(logged) - k + i]
    <3>1. logged \in Seq(Nat \X Events) /\ Holds(logged, auditBuf, AuditBufSize)
          /\ k \in 0 .. AuditBufSize /\ k <= Len(logged) /\ AuditBufSize \in Nat \ {0}
      BY <1>1, <1>2, <2>1
    <3> QED BY ZenonT(30), <3>1, RingRead
  <2> QED BY <2>1, <2>2
<1>5. Api!Recent(n) = s
  BY <1>3, <1>4
<1>6. Api!LastOf(logged, k) = s
  <2>1. Len(logged) - k + 1 \in 1 .. Len(logged) + 1
    BY <1>1, <1>2
  <2> DEFINE l == SubSeq(logged, Len(logged) - k + 1, Len(logged))
  <2>2. \A i \in Len(logged) - k + 1 .. Len(logged) : logged[i] \in Nat \X Events
    <3> HIDE DEF Events
    <3> QED BY <1>1, <1>2, <2>1
  <2>3. /\ l \in Seq(Nat \X Events)
        /\ Len(l) = IF Len(logged) - k + 1 <= Len(logged)
                    THEN Len(logged) - (Len(logged) - k + 1) + 1 ELSE 0
        /\ \A i \in 1 .. Len(logged) - (Len(logged) - k + 1) + 1 :
             l[i] = logged[Len(logged) - k + 1 + i - 1]
    <3>1. Len(logged) - k + 1 \in Int /\ Len(logged) \in Int
      BY <1>1, <1>2
    <3> HIDE DEF Events
    <3> QED BY <2>2, <3>1, SubSeqProperties
  <2>4. Len(l) = k /\ \A i \in 1 .. k : l[i] = logged[Len(logged) - k + i]
    <3> HIDE DEF l
    <3>1. /\ Len(logged) - (Len(logged) - k + 1) + 1 = k
          /\ \A i \in 1 .. k : Len(logged) - k + 1 + i - 1 = Len(logged) - k + i
      BY <1>1, <1>2
    <3> QED BY <1>1, <1>2, <2>3, <3>1
  <2>5. l = s
    <3> HIDE DEF l, Events
    <3> QED BY <2>3, <2>4
  <2> QED BY <2>5 DEF Api!LastOf
<1> QED BY <1>5, <1>6 DEF k

-------------------------------------------------------------------------------
LEMMA ApiInit == Api!Init => ApiInv /\ AuditRing
<1> SUFFICES ASSUME Api!Init PROVE ApiInv /\ AuditRing
  OBVIOUS
<1>1. \A h \in Handlers : req[h] = Api!Free
  BY DEF Api!Init
<1>2. Api!Free \in Requests
  BY DEF Api!Free, Requests, Methods, Contents
<1>3. ApiTypes
  BY <1>2 DEF Api!Init, ApiTypes
<1>4. ApiInv
  BY <1>1, <1>3 DEF ApiInv, Numbered, Fair, Api!Free
<1>5. AuditRing
  <2>1. 0 % AuditBufSize = 0
    BY AuditAssumption, SmallRemainder DEF AuditAssumption
  <2> QED BY <2>1, AuditAssumption DEF AuditRing, Api!Init, Holds, AuditAssumption
<1> QED BY <1>4, <1>5

LEMMA ApiArrives ==
  ASSUME ApiInv, AuditRing, NEW h \in Handlers, Api!Arrive(h)
  PROVE  ApiInv' /\ AuditRing'
<1> USE DEF ApiInv
<1>1. PICK r \in Routes, m \in {"GET", "POST", "OPTIONS"}, tok \in BOOLEAN, b \in Contents :
         req' = [req EXCEPT ![h] = [at |-> "cors", n |-> count + 1, route |-> r, method |-> m,
                                    token |-> tok, body |-> b, status |-> 0]]
  <2>1. \A r \in Routes : Api!Bodies(r) \subseteq Contents
    BY DEF Api!Bodies, Contents
  <2> QED BY <2>1 DEF Api!Arrive
<1> DEFINE new == [at |-> "cors", n |-> count + 1, route |-> r, method |-> m,
                   token |-> tok, body |-> b, status |-> 0]
<1>2. new \in Requests /\ new.at = "cors" /\ new.n = count + 1
  BY DEF Requests, ApiTypes, Methods
<1> HIDE DEF new
<1>3. req' \in [Handlers -> Requests] /\ req'[h] = new
      /\ \A g \in Handlers : g # h => req'[g] = req[g]
  BY <1>1, <1>2 DEF ApiTypes, new
<1>4. count' = count + 1 /\ done' = done /\ logged' = logged
      /\ UNCHANGED <<auditBuf, auditHead, auditSize>>
  BY DEF Api!Arrive, Api!auditLog
<1>5. ApiTypes'
  BY <1>3, <1>4 DEF ApiTypes
<1>6. Numbered'
  <2>1. count' = count + 1 /\ count \in Nat
    BY <1>4 DEF ApiTypes
  <2>2. ASSUME NEW g \in Handlers, req'[g].at # "free"
        PROVE  /\ req'[g].n \in 1 .. count'
               /\ g # h => req'[g].n \in 1 .. count /\ req[g].at # "free"
    BY <1>2, <1>3, <2>1, <2>2 DEF Numbered
  <2>3. ASSUME NEW g \in Handlers, NEW f \in Handlers, f # g,
               req'[g].at # "free", req'[f].at # "free"
        PROVE  req'[f].n # req'[g].n
    BY <1>2, <1>3, <2>1, <2>2, <2>3 DEF Numbered
  <2> QED BY <2>2, <2>3 DEF Numbered
<1>7. NoAction(count + 1)
  <2>1. \A i \in DOMAIN done : done[i] # count + 1
    BY DEF ApiTypes
  <2>2. \A i \in DOMAIN logged : logged[i][1] # count + 1
    BY DEF ApiTypes
  <2> QED BY <2>1, <2>2 DEF NoAction
<1>8. ASSUME NEW g \in Handlers PROVE Fair(req[g])'
  <2>1. CASE g = h
    BY <1>2, <1>3, <1>4, <1>7, <2>1 DEF Fair, NoAction
  <2>2. CASE g # h
    <3>1. Fair(req[g]) /\ req'[g] = req[g]
      BY <1>3, <2>2
    <3> QED BY <1>4, <3>1 DEF Fair, NoAction, ActedOnce, InLog
  <2> QED BY <2>1, <2>2
<1>9. AuditRing'
  BY <1>4 DEF AuditRing, Holds
<1> QED BY <1>5, <1>6, <1>8, <1>9

(* A request that is answered or moves on keeps all but where it is. *)
Moved(r, at) == [r EXCEPT !.at = at]
Answered(r, status) == [r EXCEPT !.at = "answered", !.status = status]

LEMMA MovedIs ==
  ASSUME ApiTypes, NEW h \in Handlers
  PROVE  /\ \A at : Api!GoTo(h, at) => req' = [req EXCEPT ![h] = Moved(req[h], at)]
         /\ \A st : Api!Answer(h, st) => req' = [req EXCEPT ![h] = Answered(req[h], st)]
BY DEF Api!GoTo, Api!Answer, Moved, Answered, ApiTypes, Requests

LEMMA MovedFields ==
  ASSUME NEW r \in Requests
  PROVE  /\ \A at \in {"handle", "step", "audit", "auth"} :
              /\ Moved(r, at) \in Requests /\ Moved(r, at).at = at
              /\ Moved(r, at).n = r.n /\ Moved(r, at).route = r.route
         /\ \A st \in Nat :
              /\ Answered(r, st) \in Requests /\ Answered(r, st).at = "answered"
              /\ Answered(r, st).n = r.n /\ Answered(r, st).route = r.route
              /\ Answered(r, st).status = st
BY DEF Moved, Answered, Requests

(* What an event in the log, or a call, makes of what is said of its own   *)
(* request.                                                                *)
LEMMA OwnEvent ==
  ASSUME ApiTypes, NEW m \in Nat, NEW k \in Events, logged' = Append(logged, <<m, k>>), done' = done
  PROVE  /\ InLog(m, k)'
         /\ \A j \in Events : InLog(m, j) => InLog(m, j)'
         /\ ActedOnce(m) => ActedOnce(m)'
         /\ k # "control_action" /\ NoAction(m) => NoAction(m)'
<1>1. logged \in Seq(Nat \X Events) /\ <<m, k>> \in Nat \X Events
  BY DEF ApiTypes
<1>2. /\ \A i \in DOMAIN logged : i \in DOMAIN logged' /\ logged'[i] = logged[i]
      /\ \A i \in DOMAIN logged' : i \notin DOMAIN logged => logged'[i] = <<m, k>>
      /\ Len(logged) + 1 \in DOMAIN logged' /\ logged'[Len(logged) + 1] = <<m, k>>
  <2> HIDE DEF Events
  <2> QED BY <1>1
<1>3. InLog(m, k)'
  BY <1>2 DEF InLog
<1>4. \A j \in Events : InLog(m, j) => InLog(m, j)'
  BY <1>2 DEF InLog
<1>5. ActedOnce(m) => ActedOnce(m)'
  BY DEF ActedOnce
<1>6. k # "control_action" /\ NoAction(m) => NoAction(m)'
  BY <1>2 DEF NoAction
<1> QED BY <1>3, <1>4, <1>5, <1>6

LEMMA OwnCall ==
  ASSUME ApiTypes, NEW m \in Nat, done' = Append(done, m), logged' = logged, NoAction(m)
  PROVE  ActedOnce(m)' /\ \A j \in Events : InLog(m, j) => InLog(m, j)'
<1>1. /\ \A i \in DOMAIN done : i \in DOMAIN done' /\ done'[i] = done[i]
      /\ \A i \in DOMAIN done' : i \notin DOMAIN done => i = Len(done) + 1
      /\ Len(done) + 1 \in DOMAIN done' /\ done'[Len(done) + 1] = m
  BY DEF ApiTypes
<1>2. ActedOnce(m)'
  BY <1>1 DEF ActedOnce, NoAction
<1> QED BY <1>2 DEF InLog

LEMMA CorsKeeps ==
  ASSUME ApiInv, AuditRing, NEW h \in Handlers, Api!CORSMiddleware(h)
  PROVE  ApiInv' /\ AuditRing'
<1> DEFINE r == req[h]
<1>1. /\ UNCHANGED <<count, done, logged, auditBuf, auditHead, auditSize>>
      /\ r.at = "cors" /\ r \in Requests /\ Fair(r)
  BY DEF Api!CORSMiddleware, Api!auditLog, ApiInv, ApiTypes
<1>2. PICK m \in Nat : m = r.n
  BY <1>1 DEF Requests
<1>3. NoAction(m) /\ NoAction(m)'
  BY <1>1, <1>2 DEF Fair, NoAction
<1>4. PICK s \in Requests : /\ req' = [req EXCEPT ![h] = s] /\ s.n = m
                            /\ \/ s.at = "auth"
                               \/ s.at = "answered" /\ s.status = 204
  <2>1. CASE Api!Answer(h, 204)
    BY <1>1, <1>2, <2>1, MovedIs, MovedFields DEF ApiInv
  <2>2. CASE Api!GoTo(h, "auth")
    BY <1>1, <1>2, <2>2, MovedIs, MovedFields DEF ApiInv
  <2> QED BY <2>1, <2>2 DEF Api!CORSMiddleware
<1>5. Fair(s)'
  BY <1>3, <1>4 DEF Fair
<1>6. ApiInv'
  BY ZenonT(30), <1>1, <1>2, <1>4, <1>5, HandlerSteps
<1> QED BY <1>1, <1>6 DEF AuditRing, Holds

LEMMA AuthKeeps ==
  ASSUME ApiInv, AuditRing, NEW h \in Handlers, Api!AuthMiddleware(h)
  PROVE  ApiInv' /\ AuditRing'
<1> DEFINE r == req[h]
<1>1. /\ UNCHANGED <<count, done>>
      /\ r.at = "auth" /\ r \in Requests /\ Fair(r) /\ ApiTypes
  BY DEF Api!AuthMiddleware, ApiInv, ApiTypes
<1>2. PICK m \in Nat : m = r.n
  BY <1>1 DEF Requests
<1>3. NoAction(m)
  BY <1>1, <1>2 DEF Fair
<1>4. CASE Api!RouteClass(r.route) = "open" /\ Api!GoTo(h, "handle") /\ UNCHANGED Api!auditLog
  <2>1. UNCHANGED <<logged, auditBuf, auditHead, auditSize>>
    BY <1>4 DEF Api!auditLog
  <2>2. PICK s \in Requests : /\ req' = [req EXCEPT ![h] = s] /\ s.n = m
                              /\ s.at = "handle" /\ s.route = r.route
    BY <1>1, <1>2, <1>4, MovedIs, MovedFields
  <2>3. s.route \notin Api!Writes
    BY <1>4, <2>2 DEF Api!RouteClass
  <2>4. Fair(s)'
    BY <1>1, <1>3, <2>1, <2>2, <2>3 DEF Fair, NoAction
  <2>5. ApiInv'
    BY <1>1, <1>2, <2>1, <2>2, <2>4, HandlerSteps
  <2> QED BY <2>1, <2>5 DEF AuditRing, Holds
<1>5. ASSUME NEW st \in {429, 401}, NEW k \in {"rate_limit", "auth_fail"},
             Api!Answer(h, st), Api!Log(<<r.n, k>>)
      PROVE  ApiInv' /\ AuditRing'
  <2>1. k \in Events /\ logged' = Append(logged, <<m, k>>) /\ <<m, k>> \in Nat \X Events
        /\ Api!Log(<<m, k>>)
    BY <1>2, <1>5 DEF Api!Log, Events
  <2>2. PICK s \in Requests : /\ req' = [req EXCEPT ![h] = s] /\ s.n = m
                              /\ s.at = "answered" /\ s.status = st
    BY <1>1, <1>2, <1>5, MovedIs, MovedFields
  <2>3. NoAction(m)'
    BY <1>1, <1>3, <1>5, <2>1, OwnEvent
  <2>4. Fair(s)'
    BY <1>5, <2>2, <2>3 DEF Fair
  <2>5. ApiInv'
    <3>1. /\ s.n = req[h].n /\ req[h].at # "free" /\ done' = done /\ count' = count
          /\ \E j \in Events : logged' = Append(logged, <<s.n, j>>)
      BY <1>1, <1>2, <2>1, <2>2
    <3> QED BY <2>2, <2>4, <3>1, HandlerSteps
  <2> QED BY <1>1, <2>1, <2>5, LogKeepsRing
<1>6. ASSUME Api!GoTo(h, "handle"), Api!Log(<<r.n, "auth_ok">>)
      PROVE  ApiInv' /\ AuditRing'
  <2>1. "auth_ok" \in Events /\ logged' = Append(logged, <<m, "auth_ok">>)
        /\ <<m, "auth_ok">> \in Nat \X Events /\ Api!Log(<<m, "auth_ok">>)
    BY <1>2, <1>6 DEF Api!Log, Events
  <2>2. PICK s \in Requests : req' = [req EXCEPT ![h] = s] /\ s.n = m /\ s.at = "handle"
    BY <1>1, <1>2, <1>6, MovedIs, MovedFields
  <2>3. NoAction(m)' /\ InLog(m, "auth_ok")'
    BY <1>1, <1>3, <2>1, OwnEvent
  <2>4. Fair(s)'
    BY <2>2, <2>3 DEF Fair
  <2>5. ApiInv'
    BY <1>1, <1>2, <2>1, <2>2, <2>4, HandlerSteps
  <2> QED BY <1>1, <2>1, <2>5, LogKeepsRing
<1> QED BY <1>4, <1>5, <1>6 DEF Api!AuthMiddleware

LEMMA RefuseKeeps ==
  ASSUME ApiInv, AuditRing, NEW h \in Handlers,
         Api!Refuse(h) \/ Api!handleRead(h)
  PROVE  ApiInv' /\ AuditRing'
<1> DEFINE r == req[h]
<1>1. /\ UNCHANGED <<count, done, logged, auditBuf, auditHead, auditSize>>
      /\ r.at = "handle" /\ r \in Requests /\ Fair(r)
  BY DEF Api!Refuse, Api!handleRead, Api!auditLog, ApiInv, ApiTypes
<1>2. PICK m \in Nat : m = r.n
  BY <1>1 DEF Requests
<1>3. NoAction(m) /\ NoAction(m)'
  BY <1>1, <1>2 DEF Fair, NoAction
<1>4. PICK st \in Nat : /\ Api!Answer(h, st)
                        /\ r.route \in Api!Writes => st \notin {200, 202}
  <2>1. CASE Api!Refuse(h)
    <3>1. Api!Refusal(r) \in {405, 400, 404, 409}
      BY <2>1 DEF Api!Refuse, Api!Refusal
    <3>2. Api!Answer(h, Api!Refusal(r))
      BY <2>1 DEF Api!Refuse
    <3> QED BY <3>1, <3>2
  <2>2. CASE Api!handleRead(h)
    <3>1. r.route \notin Api!Writes
      BY <2>2 DEF Api!handleRead, Api!Reads, Api!Writes, Api!Audited
    <3> QED BY <2>2, <3>1 DEF Api!handleRead
  <2> QED BY <2>1, <2>2
<1>5. PICK s \in Requests : /\ req' = [req EXCEPT ![h] = s] /\ s.n = m
                            /\ s.at = "answered" /\ s.status = st /\ s.route = r.route
  <2>1. r \in Requests /\ ApiTypes /\ Api!Answer(h, st) /\ st \in Nat
    BY <1>1, <1>4 DEF ApiInv
  <2>2. req' = [req EXCEPT ![h] = Answered(r, st)]
    BY <2>1, MovedIs
  <2> QED BY ZenonT(30), <1>2, <2>1, <2>2, MovedFields
<1>6. Fair(s)'
  BY <1>3, <1>4, <1>5 DEF Fair
<1>7. ApiInv'
  BY <1>1, <1>2, <1>5, <1>6, HandlerSteps
<1> QED BY <1>1, <1>7 DEF AuditRing, Holds

LEMMA PerformKeeps ==
  ASSUME ApiInv, AuditRing, NEW h \in Handlers, Api!Perform(h)
  PROVE  ApiInv' /\ AuditRing'
<1> DEFINE r == req[h]
<1>1. /\ UNCHANGED <<count, logged, auditBuf, auditHead, auditSize>>
      /\ r.at = "handle" /\ r \in Requests /\ Fair(r) /\ ApiTypes /\ r.route \in Api!Writes
      /\ done' = Append(done, r.n)
  BY DEF Api!Perform, Api!auditLog, ApiInv, ApiTypes
<1>2. PICK m \in Nat : m = r.n
  BY <1>1 DEF Requests
<1>3. NoAction(m) /\ InLog(m, "auth_ok")
  BY <1>1, <1>2 DEF Fair
<1>4. ActedOnce(m)' /\ InLog(m, "auth_ok")'
  BY <1>1, <1>2, <1>3, OwnCall DEF Events
<1>5. PICK s \in Requests :
        /\ req' = [req EXCEPT ![h] = s] /\ s.n = m /\ s.route = r.route
        /\ \/ s.at \in {"step", "audit"} /\ r.route \in Api!Audited
           \/ s.at = "answered" /\ s.status \in {200, 202} /\ r.route \notin Api!Audited
  <2>1. CASE r.route = "step"
    <3>1. Api!GoTo(h, "step") /\ r.route \in Api!Audited
      BY <2>1 DEF Api!Perform, Api!Audited
    <3> QED BY <1>1, <1>2, <3>1, MovedIs, MovedFields
  <2>2. CASE r.route # "step" /\ r.route \in Api!Audited
    <3>1. Api!GoTo(h, "audit")
      BY <2>2 DEF Api!Perform
    <3> QED BY <1>1, <1>2, <2>2, <3>1, MovedIs, MovedFields
  <2>3. CASE r.route # "step" /\ r.route \notin Api!Audited
    <3>1. Api!Answer(h, Api!Status(r.route))
      BY <2>3 DEF Api!Perform
    <3>2. Api!Status(r.route) \in {200, 202}
      BY DEF Api!Status
    <3>3. req' = [req EXCEPT ![h] = Answered(r, Api!Status(r.route))]
      BY <1>1, <3>1, MovedIs
    <3>4. PICK st \in {200, 202} : st = Api!Status(r.route)
      BY <3>2
    <3>5. /\ Answered(r, st) \in Requests /\ Answered(r, st).at = "answered"
          /\ Answered(r, st).n = m /\ Answered(r, st).route = r.route
          /\ Answered(r, st).status = st
      <4>1. st \in Nat /\ r \in Requests
        BY <1>1
      <4> HIDE DEF r
      <4> QED BY <1>2, <4>1, MovedFields
    <3> QED BY <2>3, <3>3, <3>4, <3>5
  <2> QED BY <2>1, <2>2, <2>3
<1>6. Fair(s)'
  BY <1>4, <1>5 DEF Fair
<1>7. ApiInv'
  <2>1. s.n = req[h].n /\ req[h].at # "free" /\ done' = Append(done, s.n)
    BY <1>1, <1>2, <1>5
  <2>2. ApiInv /\ count' = count /\ logged' = logged /\ req' = [req EXCEPT ![h] = s]
    BY <1>1, <1>5
  <2> HIDE DEF r
  <2> QED BY <1>6, <2>1, <2>2, HandlerSteps
<1> QED BY <1>1, <1>7 DEF AuditRing, Holds

LEMMA AuditKeeps ==
  ASSUME ApiInv, AuditRing, NEW h \in Handlers, Api!AuditAction(h)
  PROVE  ApiInv' /\ AuditRing'
<1> DEFINE r == req[h]
<1>1. /\ UNCHANGED <<count, done>> /\ Api!Log(<<r.n, "control_action">>)
      /\ r.at = "audit" /\ r \in Requests /\ Fair(r) /\ ApiTypes
  BY DEF Api!AuditAction, ApiInv, ApiTypes
<1>2. PICK m \in Nat : m = r.n
  BY <1>1 DEF Requests
<1>3. "control_action" \in Events /\ logged' = Append(logged, <<m, "control_action">>)
      /\ <<m, "control_action">> \in Nat \X Events /\ Api!Log(<<m, "control_action">>)
  BY <1>1, <1>2 DEF Api!Log, Events
<1>4. ActedOnce(m)' /\ InLog(m, "auth_ok")' /\ InLog(m, "control_action")'
  <2>1. ActedOnce(m) /\ InLog(m, "auth_ok")
    BY <1>1, <1>2 DEF Fair
  <2>2. "auth_ok" \in Events
    BY DEF Events
  <2> QED BY <1>1, <1>3, <2>1, <2>2, OwnEvent
<1>5. PICK s \in Requests :
        req' = [req EXCEPT ![h] = s] /\ s.n = m /\ s.at = "answered" /\ s.status \in {200, 202}
  <2>1. Api!Answer(h, Api!Status(r.route)) /\ Api!Status(r.route) \in {200, 202}
    BY DEF Api!AuditAction, Api!Status
  <2> QED BY <1>1, <1>2, <2>1, MovedIs, MovedFields
<1>6. Fair(s)'
  BY <1>4, <1>5 DEF Fair
<1>7. ApiInv'
  BY ZenonT(30), <1>1, <1>2, <1>3, <1>5, <1>6, HandlerSteps
<1> QED BY <1>1, <1>3, <1>7, LogKeepsRing

LEMMA LeaveKeeps ==
  ASSUME ApiInv, AuditRing, NEW h \in Handlers, Api!Leave(h) 
  PROVE  ApiInv' /\ AuditRing'
<1> USE DEF ApiInv
<1>1. /\ UNCHANGED <<count, done, logged, auditBuf, auditHead, auditSize>>
      /\ req' = [req EXCEPT ![h] = Api!Free]
  BY DEF Api!Leave, Api!auditLog
<1>2. Api!Free \in Requests /\ Api!Free.at = "free"
  BY DEF Api!Free, Requests, Methods, Contents
<1>3. req' \in [Handlers -> Requests] /\ req'[h] = Api!Free
      /\ \A g \in Handlers : g # h => req'[g] = req[g]
  BY <1>1, <1>2 DEF ApiTypes
<1>4. ApiTypes' /\ Numbered'
  BY <1>1, <1>2, <1>3 DEF ApiTypes, Numbered
<1>5. ASSUME NEW g \in Handlers PROVE Fair(req[g])'
  <2>1. CASE g = h
    BY <1>2, <1>3, <2>1 DEF Fair
  <2>2. CASE g # h
    <3>1. Fair(req[g]) /\ req'[g] = req[g]
      BY <1>3, <2>2
    <3> QED BY <1>1, <3>1 DEF Fair, NoAction, ActedOnce, InLog
  <2> QED BY <2>1, <2>2
<1> QED BY <1>1, <1>4, <1>5 DEF AuditRing, Holds

LEMMA StepReturnKeeps ==
  ASSUME ApiInv, AuditRing, NEW h \in Handlers, Api!StepReturns(h)
  PROVE  ApiInv' /\ AuditRing'
<1> DEFINE r == req[h]
<1>1. /\ UNCHANGED <<count, done, logged, auditBuf, auditHead, auditSize>>
      /\ r.at = "step" /\ r \in Requests /\ Fair(r)
      /\ Api!GoTo(h, "audit")
  BY DEF Api!StepReturns, Api!auditLog, ApiInv, ApiTypes
<1>2. PICK m \in Nat : m = r.n
  BY <1>1 DEF Requests
<1>3. PICK s \in Requests : /\ req' = [req EXCEPT ![h] = s] /\ s.n = m
                            /\ s.at = "audit" /\ s.route = r.route
  BY <1>1, <1>2, MovedIs, MovedFields DEF ApiInv
<1>4. Fair(s)'
  <2>1. ActedOnce(m) /\ InLog(m, "auth_ok") /\ r.route \in Api!Audited
    BY <1>1, <1>2 DEF Fair
  <2>2. ActedOnce(m)' /\ InLog(m, "auth_ok")'
    BY <1>1, <2>1 DEF ActedOnce, InLog
  <2> QED BY <1>3, <2>1, <2>2 DEF Fair
<1>5. ApiInv'
  BY <1>1, <1>2, <1>3, <1>4, HandlerSteps
<1> QED BY <1>1, <1>5 DEF AuditRing, Holds

LEMMA ApiStep == ApiInv /\ AuditRing /\ [Api!Next]_(Api!vars) => ApiInv' /\ AuditRing'
<1> SUFFICES ASSUME ApiInv, AuditRing, [Api!Next]_(Api!vars) PROVE ApiInv' /\ AuditRing'
  OBVIOUS
<1>1. CASE UNCHANGED <<req, count, done, logged, auditBuf, auditHead, auditSize>>
  BY <1>1 DEF ApiInv, ApiTypes, Numbered, Fair, NoAction, ActedOnce, InLog, AuditRing, Holds
<1>2. ASSUME NEW h \in Handlers,
             \/ Api!Arrive(h) \/ Api!CORSMiddleware(h) \/ Api!AuthMiddleware(h)
             \/ Api!Refuse(h) \/ Api!handleRead(h) \/ Api!Perform(h)
             \/ Api!StepReturns(h) \/ Api!AuditAction(h) \/ Api!Leave(h)
      PROVE  ApiInv' /\ AuditRing'
  BY <1>2, ApiArrives, CorsKeeps, AuthKeeps, RefuseKeeps, PerformKeeps, StepReturnKeeps,
     AuditKeeps, LeaveKeeps
<1>3. CASE Api!Tick
  BY <1>1, <1>3 DEF Api!Tick, Api!auditLog
<1>4. CASE UNCHANGED Api!vars
  BY <1>1, <1>4 DEF Api!vars, Api!auditLog
<1> QED BY <1>2, <1>3, <1>4 DEF Api!Next

(* The set the property counts is one element or none. *)
LEMMA SameCount == \A S : Api!Cardinality(S) = Cardinality(S)
  BY DEF Api!Cardinality, Cardinality, Api!IsFiniteSet, IsFiniteSet

LEMMA CountCalls ==
  ASSUME NEW m
  PROVE  /\ ActedOnce(m) => Cardinality({i \in DOMAIN done : done[i] = m}) = 1
         /\ NoAction(m) => Cardinality({i \in DOMAIN done : done[i] = m}) = 0
<1>1. ASSUME ActedOnce(m) PROVE Cardinality({i \in DOMAIN done : done[i] = m}) = 1
  <2>1. PICK i \in DOMAIN done : \A j \in DOMAIN done : done[j] = m <=> j = i
    BY <1>1 DEF ActedOnce
  <2>2. {j \in DOMAIN done : done[j] = m} = {i}
    BY <2>1
  <2> QED BY <2>2, FS_Singleton
<1>2. ASSUME NoAction(m) PROVE Cardinality({i \in DOMAIN done : done[i] = m}) = 0
  <2>1. {j \in DOMAIN done : done[j] = m} = {}
    BY <1>2 DEF NoAction
  <2> QED BY <2>1, FS_EmptySet
<1> QED BY <1>1, <1>2

(* A control request is answered with success only if its call on the      *)
(* orchestrator was made, once, and is in the audit log, and with a        *)
(* refusal only if it was not; and the log returns its last events         *)
(* (internal/api, security.go AuditLogger).                                *)
THEOREM AnswersStayHonest == Api!Spec => []AnswersHonest
<1>1. ApiInv => Api!AnswersHonest
  <2> SUFFICES ASSUME ApiInv, NEW h \in Handlers, req[h].at = "answered", req[h].route \in Api!Writes
               PROVE  LET calls == Api!Cardinality({i \in DOMAIN done : done[i] = req[h].n})
                      IN IF req[h].status \in {200, 202}
                         THEN calls = 1 /\ Api!Occurs(<<req[h].n, "auth_ok">>, logged)
                              /\ (req[h].route \in Api!Audited =>
                                    Api!Occurs(<<req[h].n, "control_action">>, logged))
                         ELSE calls = 0 /\ ~Api!Occurs(<<req[h].n, "control_action">>, logged)
    BY DEF Api!AnswersHonest
  <2> DEFINE m == req[h].n
  <2>1. Fair(req[h])
    BY DEF ApiInv
  <2>2. CASE req[h].status \in {200, 202}
    <3>1. ActedOnce(m) /\ InLog(m, "auth_ok")
          /\ (req[h].route \in Api!Audited => InLog(m, "control_action"))
      BY <2>1, <2>2 DEF Fair
    <3>2. Cardinality({i \in DOMAIN done : done[i] = m}) = 1
      BY <3>1, CountCalls
    <3>3. \A k : InLog(m, k) => Api!Occurs(<<m, k>>, logged)
      BY DEF InLog, Api!Occurs
    <3> QED BY <2>2, <3>1, <3>2, <3>3, SameCount
  <2>3. CASE req[h].status \notin {200, 202}
    <3>1. NoAction(m)
      BY <2>1, <2>3 DEF Fair
    <3>2. Cardinality({i \in DOMAIN done : done[i] = m}) = 0
      BY <3>1, CountCalls
    <3>3. ~Api!Occurs(<<m, "control_action">>, logged)
      BY <3>1 DEF NoAction, Api!Occurs
    <3> QED BY <2>3, <3>2, <3>3, SameCount
  <2> QED BY <2>2, <2>3
<1>2. ApiInv /\ AuditRing => AnswersHonest
  BY <1>1, RecentReads DEF AnswersHonest, ApiInv
<1> QED BY ApiInit, ApiStep, <1>2, PTL DEF Api!Spec

-------------------------------------------------------------------------------
(* The disturbances: types *)

Overlays ==
  [request : Nat, start : Nat, duration : Nat, until : Nat]
Controls ==
  [at : {"none", "read", "overlay", "force", "store"}, number : Nat,
   kind : Scenarios!Kinds \cup {"run", "stop", "none"}, duration : Nat, start : Nat]

ScenarioTypes ==
  /\ tick \in Nat /\ controls \in Nat /\ forceSimulationUntil \in Nat
  /\ forcedBy \in Nat
  /\ overlays \in [Scenarios!Kinds -> Overlays]
  /\ control \in [Handlers -> Controls]
  /\ applied \in [Scenarios!Kinds -> 0 .. 2]
  /\ peaked \in [Scenarios!Kinds -> [full : BOOLEAN, due : BOOLEAN]]

(* The strength of a disturbance c ticks after its start. *)
Strength(k, c, d) ==
  IF k = "chaos-run" THEN Scenarios!disturbanceEnvelope(c, d) ELSE Scenarios!BurstFactor(c, d)

(* A disturbance of two ticks or more has one of full strength, and one of *)
(* a single tick unless it is a burst.                                     *)
LEMMA HasPeak ==
  ASSUME NEW k \in Scenarios!Kinds, NEW d \in Nat \ {0}, ~(k = "replay-burst" /\ d = 1)
  PROVE  \E c \in 0 .. d : Strength(k, c, d) = 2
<1> USE DEF Strength, Scenarios!disturbanceEnvelope, Scenarios!BurstFactor, Scenarios!Kinds
<1>1. CASE d <= 5
  <2>1. 1 \in 0 .. d /\ Strength(k, 1, d) = 2
    BY <1>1
  <2> QED BY <2>1
<1>2. CASE d > 5
  <2>1. PICK q \in Nat : 5 * q <= d /\ d < 5 * q + 5
    <3>1. d \div 5 \in Nat /\ 5 * (d \div 5) <= d /\ d < 5 * (d \div 5) + 5
      BY Z3
    <3> QED BY <3>1
  <2>2. q + 1 \in 0 .. d /\ 5 * (q + 1) >= d /\ 5 * (q + 1) <= 4 * d
    BY <1>2, <2>1
  <2>3. Strength(k, q + 1, d) = 2
    BY <1>2, <2>1, <2>2
  <2> QED BY <2>2, <2>3
<1> QED BY <1>1, <1>2

(* A run is between a tick and the longest. *)
LEMMA BoundedTicks ==
  ASSUME NEW d \in Durations
  PROVE  Scenarios!boundedTicks(d, Fallback) \in Nat \ {0}
BY DurationAssumption DEF Scenarios!boundedTicks

(* Either scenario, by its strength. *)
LEMMA EvaluateIs ==
  ASSUME NEW k, NEW t \in Nat, overlays[k] \in Overlays
  PROVE  /\ Scenarios!Evaluate(k, t) \in 0 .. 2
         /\ \A c \in 0 .. overlays[k].duration :
              overlays[k] # Scenarios!NoOverlay /\ t = overlays[k].start + c =>
                Scenarios!Evaluate(k, t) = Strength(k, c, overlays[k].duration)
<1>1. Scenarios!Evaluate(k, t) \in 0 .. 2
  BY DEF Scenarios!Evaluate, Scenarios!disturbanceEnvelope, Scenarios!BurstFactor
<1>2. ASSUME NEW c \in 0 .. overlays[k].duration, overlays[k] # Scenarios!NoOverlay,
             t = overlays[k].start + c
      PROVE  Scenarios!Evaluate(k, t) = Strength(k, c, overlays[k].duration)
  <2>1. overlays[k].start \in Nat /\ overlays[k].duration \in Nat
    BY DEF Overlays
  <2>2. t - overlays[k].start = c /\ ~(c < 0) /\ ~(c > overlays[k].duration)
    BY <1>2, <2>1
  <2> QED BY <1>2, <2>2 DEF Scenarios!Evaluate, Strength
<1> QED BY <1>1, <1>2

(* What a tick does to a disturbance. *)
LEMMA TickEffects ==
  ASSUME ScenarioTypes, Scenarios!ApplySuperposition, NEW k \in Scenarios!Kinds
  PROVE  /\ overlays'[k] \in {overlays[k], Scenarios!NoOverlay} /\ applied'[k] \in 0 .. 2
         /\ peaked'[k] \in [full : BOOLEAN, due : BOOLEAN] /\ peaked'[k].due = peaked[k].due
         /\ applied'[k] > 0 => overlays'[k] # Scenarios!NoOverlay /\ tick + 1 <= overlays'[k].until
         /\ ScenarioMode # "off" =>
              /\ peaked[k].full => peaked'[k].full
              /\ \A c \in 0 .. overlays[k].duration :
                   /\ overlays'[k] # Scenarios!NoOverlay
                   /\ tick + 1 = overlays[k].start + c /\ Strength(k, c, overlays[k].duration) = 2
                   => peaked'[k].full
<1>1. /\ overlays[k] \in Overlays /\ applied[k] \in 0 .. 2 /\ tick \in Nat
      /\ peaked[k] \in [full : BOOLEAN, due : BOOLEAN]
  BY DEF ScenarioTypes
<1>2. CASE ScenarioMode = "off"
  BY <1>1, <1>2 DEF Scenarios!ApplySuperposition
<1>3. CASE ScenarioMode # "off"
  <2> DEFINE o == overlays[k]
             a == IF overlays'[k] = Scenarios!NoOverlay THEN 0 ELSE Scenarios!Evaluate(k, tick + 1)
  <2>1. /\ overlays'[k] = (IF tick + 1 > o.until THEN Scenarios!NoOverlay ELSE o)
        /\ applied'[k] = a
        /\ peaked'[k] = [peaked[k] EXCEPT !.full = peaked[k].full \/ applied'[k] = 2]
    BY <1>3 DEF Scenarios!ApplySuperposition
  <2>3. a \in 0 .. 2
    BY <1>1, EvaluateIs
  <2>4. /\ peaked'[k] \in [full : BOOLEAN, due : BOOLEAN] /\ peaked'[k].due = peaked[k].due
        /\ peaked'[k].full = (peaked[k].full \/ applied'[k] = 2)
    BY <1>1, <2>1
  <2>5. applied'[k] > 0 => overlays'[k] # Scenarios!NoOverlay /\ tick + 1 <= overlays'[k].until
    <3> SUFFICES ASSUME applied'[k] > 0 PROVE overlays'[k] # Scenarios!NoOverlay /\ tick + 1 <= overlays'[k].until
      OBVIOUS
    <3>1. overlays'[k] # Scenarios!NoOverlay
      BY <2>1
    <3>2. ~(tick + 1 > o.until) /\ overlays'[k] = o
      BY <2>1, <3>1
    <3>3. o.until \in Nat
      BY <1>1 DEF Overlays
    <3> QED BY <1>1, <3>1, <3>2, <3>3
  <2>6. ASSUME NEW c \in 0 .. o.duration, overlays'[k] # Scenarios!NoOverlay,
               tick + 1 = o.start + c, Strength(k, c, o.duration) = 2
        PROVE  peaked'[k].full
    <3>1. o # Scenarios!NoOverlay /\ tick + 1 \in Nat
      BY <1>1, <2>1, <2>6
    <3>2. Scenarios!Evaluate(k, tick + 1) = Strength(k, c, o.duration)
      BY <1>1, <2>6, <3>1, EvaluateIs
    <3> QED BY <2>1, <2>4, <2>6, <3>2
  <2> QED BY <2>1, <2>3, <2>4, <2>5, <2>6
<1> QED BY <1>2, <1>3

(* Who is at which step, and what its steps do. *)
LEMMA ScenarioTypesStep ==
  ASSUME ScenarioTypes, [Scenarios!Next]_(Scenarios!vars)
  PROVE  ScenarioTypes'
<1> USE DEF ScenarioTypes
<1>1. ASSUME NEW h \in Handlers, NEW kind \in Scenarios!Kinds \cup {"run", "stop"}, NEW d \in Durations,
             Scenarios!Receive(h, kind, d)
      PROVE  ScenarioTypes'
  <2>1. controls' \in Nat /\ (IF kind = "stop" THEN 0 ELSE Scenarios!boundedTicks(d, Fallback)) \in Nat
    BY <1>1, BoundedTicks DEF Scenarios!Receive
  <2> QED BY <1>1, <2>1 DEF Scenarios!Receive, Controls
<1>2. ASSUME NEW h \in Handlers, Scenarios!ReadTick(h) PROVE ScenarioTypes'
  <2>1. control[h] \in Controls /\ tick + 1 \in Nat
    OBVIOUS
  <2>2. control' = [control EXCEPT ![h].at = "overlay", ![h].start = tick + 1]
    BY <1>2 DEF Scenarios!ReadTick
  <2>3. control' = [control EXCEPT ![h] = [control[h] EXCEPT !.at = "overlay", !.start = tick + 1]]
    BY <2>1, <2>2
  <2>4. [control[h] EXCEPT !.at = "overlay", !.start = tick + 1] \in Controls
    BY <2>1 DEF Controls
  <2>5. control' \in [Handlers -> Controls]
    BY <2>3, <2>4
  <2> QED BY <1>2, <2>5 DEF Scenarios!ReadTick
<1>3. ASSUME NEW h \in Handlers, Scenarios!SetOverlay(h) PROVE ScenarioTypes'
  <2>1. control[h] \in Controls /\ tick + 1 \in Nat
    OBVIOUS
  <2>2. control' \in [Handlers -> Controls]
    BY <1>3, <2>1 DEF Scenarios!SetOverlay, Controls
  <2>3. overlays' \in [Scenarios!Kinds -> Overlays]
    <3> DEFINE o == [request |-> control[h].number, start |-> control[h].start,
                     duration |-> control[h].duration,
                     until |-> control[h].start + control[h].duration]
    <3>1. o \in Overlays
      BY <2>1 DEF Controls, Overlays
    <3>2. overlays' = [overlays EXCEPT ![control[h].kind] = o]
      BY <1>3 DEF Scenarios!SetOverlay
    <3> HIDE DEF o
    <3> QED BY <3>1, <3>2
  <2>4. peaked' \in [Scenarios!Kinds -> [full : BOOLEAN, due : BOOLEAN]]
    <3>1. \A b \in BOOLEAN : [full |-> FALSE, due |-> b] \in [full : BOOLEAN, due : BOOLEAN]
      OBVIOUS
    <3>2. PICK b \in BOOLEAN : peaked' = [peaked EXCEPT ![control[h].kind] = [full |-> FALSE, due |-> b]]
      BY <1>3 DEF Scenarios!SetOverlay
    <3> QED BY <3>1, <3>2
  <2> QED BY <1>3, <2>2, <2>3, <2>4 DEF Scenarios!SetOverlay
<1>4. ASSUME NEW h \in Handlers, Scenarios!ForceRead(h) PROVE ScenarioTypes'
  <2>1. control[h] \in Controls
    OBVIOUS
  <2>2. tick + Scenarios!Forced(control[h]) \in Nat
    BY <2>1 DEF Controls, Scenarios!Forced
  <2> DEFINE s == tick + Scenarios!Forced(control[h])
  <2>3. control' = [control EXCEPT ![h].at = "store", ![h].start = s]
    BY <1>4 DEF Scenarios!ForceRead
  <2> HIDE DEF s
  <2>4. control' = [control EXCEPT ![h] = [control[h] EXCEPT !.at = "store", !.start = s]]
    BY <2>1, <2>3
  <2>5. [control[h] EXCEPT !.at = "store", !.start = s] \in Controls
    BY <2>1, <2>2 DEF Controls, s
  <2>6. control' \in [Handlers -> Controls]
    BY <2>4, <2>5
  <2> QED BY <1>4, <2>6 DEF Scenarios!ForceRead
<1>5. ASSUME NEW h \in Handlers, Scenarios!ForceStore(h) PROVE ScenarioTypes'
  BY <1>5 DEF Scenarios!ForceStore, Controls, Scenarios!NoRequest
<1>6. CASE Scenarios!ApplySuperposition
  <2>1. /\ DOMAIN overlays' = Scenarios!Kinds /\ DOMAIN applied' = Scenarios!Kinds
        /\ DOMAIN peaked' = Scenarios!Kinds
    BY <1>6 DEF Scenarios!ApplySuperposition
  <2> QED BY <1>6, TickEffects DEF Scenarios!ApplySuperposition, Overlays, Scenarios!NoOverlay
<1>7. CASE UNCHANGED Scenarios!vars
  BY <1>7 DEF Scenarios!vars
<1> QED BY <1>1, <1>2, <1>3, <1>4, <1>5, <1>6, <1>7 DEF Scenarios!Next

-------------------------------------------------------------------------------
(* The disturbances: who forces, and for how long *)

(* Requests are told apart by their numbers; one that is to schedule a     *)
(* disturbance has read a tick that is not ahead.                          *)
Waiting(h) == control[h].at # "none"
Scheduled(k) == overlays[k] # Scenarios!NoOverlay

TurnInv ==
  /\ forcedBy <= controls
  /\ \A k \in Scenarios!Kinds : overlays[k].request <= controls
  /\ \A h \in Handlers : Waiting(h) =>
       /\ 1 <= control[h].number /\ control[h].number <= controls
       /\ control[h].number # forcedBy
       /\ control[h].at \in {"read", "overlay"} =>
            control[h].kind \in Scenarios!Kinds /\ 0 < control[h].duration
       /\ control[h].at = "overlay" => control[h].start <= tick + 1
  /\ \A h, i \in Handlers :
       h # i /\ Waiting(h) /\ Waiting(i) => control[h].number # control[i].number

(* What the request of a scheduled disturbance has forced, or will force   *)
(* with the tick it has read, lasts as long as the disturbance.            *)
FollowInv ==
  \A k \in Scenarios!Kinds :
    IF Scheduled(k)
    THEN /\ ScenarioMode # "off" /\ 0 < overlays[k].duration /\ 1 <= overlays[k].request
         /\ overlays[k].until = overlays[k].start + overlays[k].duration
         /\ overlays[k].start <= tick + 1
         /\ overlays[k].request = forcedBy =>
              /\ overlays[k].until <= forceSimulationUntil
              /\ applied[k] > 0 => tick <= forceSimulationUntil
         /\ \A h \in Handlers : Waiting(h) /\ control[h].number = overlays[k].request =>
              /\ control[h].kind = k /\ control[h].duration = overlays[k].duration
              /\ control[h].at \in {"force", "store"}
              /\ control[h].at = "store" =>
                   /\ overlays[k].until <= control[h].start
                   /\ applied[k] > 0 => tick <= control[h].start
    ELSE applied[k] = 0

(* A request other than those under way and the last that forced leaves    *)
(* their order alone.                                                      *)
LEMMA ControlFields ==
  ASSUME ScenarioTypes, NEW h \in Handlers
  PROVE  /\ control[h] \in Controls /\ control[h].number \in Nat
         /\ control[h].duration \in Nat /\ control[h].start \in Nat
         /\ \A k \in Scenarios!Kinds :
              /\ overlays[k] \in Overlays /\ overlays[k].request \in Nat
              /\ overlays[k].start \in Nat /\ overlays[k].duration \in Nat
              /\ overlays[k].until \in Nat /\ applied[k] \in 0 .. 2
BY DEF ScenarioTypes, Controls, Overlays

(* A step of one request leaves the others. *)
LEMMA OneControl ==
  ASSUME ScenarioTypes, NEW h \in Handlers, NEW r, control' = [control EXCEPT ![h] = r]
  PROVE  control'[h] = r /\ \A i \in Handlers : i # h => control'[i] = control[i]
BY DEF ScenarioTypes

(* Two fields of a request change. *)
LEMMA TwoFields ==
  ASSUME NEW r \in Controls, NEW a, NEW s
  PROVE  LET q == [r EXCEPT !.at = a, !.start = s]
         IN  q.at = a /\ q.start = s /\ q.number = r.number /\ q.kind = r.kind /\ q.duration = r.duration
BY DEF Controls

LEMMA FollowReceive ==
  ASSUME ScenarioTypes, TurnInv, FollowInv, NEW h \in Handlers,
         NEW kind \in Scenarios!Kinds \cup {"run", "stop"}, NEW d \in Durations,
         Scenarios!Receive(h, kind, d)
  PROVE  TurnInv' /\ FollowInv'
<1> DEFINE r == [at |-> IF kind \in Scenarios!Kinds THEN "read" ELSE "force", number |-> controls + 1,
                 kind |-> kind,
                 duration |-> IF kind = "stop" THEN 0 ELSE Scenarios!boundedTicks(d, Fallback),
                 start |-> 0]
<1>1. /\ controls' = controls + 1 /\ control' = [control EXCEPT ![h] = r]
      /\ UNCHANGED <<tick, ScenarioMode, overlays, forceSimulationUntil, forcedBy, applied, peaked>>
  BY DEF Scenarios!Receive
<1>2. /\ r.at \in {"read", "force"} /\ r.number = controls + 1 /\ r.kind = kind
      /\ r.at = "read" => r.kind \in Scenarios!Kinds /\ 0 < r.duration
  BY BoundedTicks DEF Scenarios!Kinds
<1>3. control'[h] = r /\ \A i \in Handlers : i # h => control'[i] = control[i]
  BY <1>1, OneControl
<1>4. /\ controls \in Nat /\ forcedBy \in Nat /\ tick \in Nat
      /\ \A k \in Scenarios!Kinds : overlays[k].request \in Nat
      /\ \A i \in Handlers : control[i].number \in Nat
  BY ControlFields DEF ScenarioTypes, Overlays
<1> HIDE DEF r
<1>5. TurnInv'
  <2>1. /\ (forcedBy <= controls)' /\ \A k \in Scenarios!Kinds : (overlays[k].request <= controls)'
    BY <1>1, <1>4 DEF TurnInv
  <2>2. ASSUME NEW i \in Handlers, Waiting(i)'
        PROVE  /\ 1 <= control'[i].number /\ control'[i].number <= controls'
               /\ control'[i].number # forcedBy
               /\ control'[i].at \in {"read", "overlay"} =>
                    control'[i].kind \in Scenarios!Kinds /\ 0 < control'[i].duration
               /\ control'[i].at = "overlay" => control'[i].start <= tick + 1
    <3>1. CASE i = h
      BY <1>1, <1>2, <1>3, <1>4, <3>1 DEF TurnInv
    <3>2. CASE i # h
      BY <1>1, <1>3, <1>4, <2>2, <3>2 DEF TurnInv, Waiting
    <3> QED BY <3>1, <3>2
  <2>3. ASSUME NEW i \in Handlers, NEW j \in Handlers, i # j, Waiting(i)', Waiting(j)'
        PROVE  control'[i].number # control'[j].number
    BY <1>1, <1>2, <1>3, <1>4, <2>3 DEF TurnInv, Waiting
  <2> QED BY <1>1, <2>1, <2>2, <2>3 DEF TurnInv
<1>6. FollowInv'
  <2>1. ASSUME NEW k \in Scenarios!Kinds, NEW i \in Handlers, Waiting(i)',
               control'[i].number = overlays[k].request
        PROVE  Waiting(i) /\ control'[i] = control[i]
    BY <1>2, <1>3, <1>4, <2>1 DEF TurnInv, Waiting
  <2> QED BY <1>1, <2>1 DEF FollowInv, Scheduled
<1> QED BY <1>5, <1>6

LEMMA FollowReadTick ==
  ASSUME ScenarioTypes, TurnInv, FollowInv, NEW h \in Handlers, Scenarios!ReadTick(h)
  PROVE  TurnInv' /\ FollowInv'
<1> DEFINE r == [control[h] EXCEPT !.at = "overlay", !.start = tick + 1]
<1>1. /\ control[h].at = "read" /\ control' = [control EXCEPT ![h].at = "overlay", ![h].start = tick + 1]
      /\ UNCHANGED <<tick, ScenarioMode, overlays, forceSimulationUntil, controls, forcedBy, applied>>
  BY DEF Scenarios!ReadTick
<1>2. control[h] \in Controls /\ control[h].number \in Nat /\ tick \in Nat /\ control[h].duration \in Nat
      /\ Handlers = DOMAIN control
  BY ControlFields DEF ScenarioTypes
<1>3. control' = [control EXCEPT ![h] = r]
  BY <1>1, <1>2
<1>4. /\ r.at = "overlay" /\ r.start = tick + 1 /\ r.number = control[h].number
      /\ r.kind = control[h].kind /\ r.duration = control[h].duration
  BY <1>2, TwoFields
<1> HIDE DEF r
<1>5. control'[h] = r /\ \A i \in Handlers : i # h => control'[i] = control[i]
  BY <1>3, OneControl
<1>6. \A i \in Handlers : /\ control'[i].number = control[i].number
                          /\ (Waiting(i)' <=> Waiting(i))
  BY <1>1, <1>4, <1>5 DEF Waiting
<1>7. TurnInv'
  <2>1. ASSUME NEW i \in Handlers, Waiting(i)'
        PROVE  /\ 1 <= control'[i].number /\ control'[i].number <= controls
               /\ control'[i].number # forcedBy
               /\ control'[i].at \in {"read", "overlay"} =>
                    control'[i].kind \in Scenarios!Kinds /\ 0 < control'[i].duration
               /\ control'[i].at = "overlay" => control'[i].start <= tick + 1
    <3>1. CASE i = h
      BY <1>1, <1>2, <1>4, <1>5, <1>6, <2>1, <3>1 DEF TurnInv
    <3>2. CASE i # h
      BY <1>1, <1>5, <1>6, <2>1, <3>2 DEF TurnInv
    <3> QED BY <3>1, <3>2
  <2>2. \A i, j \in Handlers :
          i # j /\ Waiting(i)' /\ Waiting(j)' => control'[i].number # control'[j].number
    BY <1>6 DEF TurnInv
  <2> QED BY <1>1, <2>1, <2>2 DEF TurnInv
<1>8. FollowInv'
  <2>1. ASSUME NEW k \in Scenarios!Kinds, Scheduled(k), NEW i \in Handlers, Waiting(i)',
               control'[i].number = overlays[k].request
        PROVE  Waiting(i) /\ control'[i] = control[i]
    <3>1. Waiting(i) /\ control[i].at # "read"
      BY <1>6, <2>1 DEF FollowInv
    <3> QED BY <1>1, <1>5, <3>1
  <2>2. \A k \in Scenarios!Kinds : Scheduled(k)' <=> Scheduled(k)
    BY <1>1 DEF Scheduled
  <2>3. ASSUME NEW k \in Scenarios!Kinds, Scheduled(k), NEW i \in Handlers, Waiting(i)',
               control'[i].number = overlays[k].request
        PROVE  /\ control'[i].kind = k /\ control'[i].duration = overlays[k].duration
               /\ control'[i].at \in {"force", "store"}
               /\ control'[i].at = "store" =>
                    /\ overlays[k].until <= control'[i].start
                    /\ applied[k] > 0 => tick <= control'[i].start
    <3>1. Waiting(i) /\ control'[i] = control[i]
      BY <2>1, <2>3
    <3>2. /\ control[i].kind = k /\ control[i].duration = overlays[k].duration
          /\ control[i].at \in {"force", "store"}
          /\ control[i].at = "store" =>
               /\ overlays[k].until <= control[i].start
               /\ applied[k] > 0 => tick <= control[i].start
      BY <2>3, <3>1 DEF FollowInv
    <3> QED BY <3>1, <3>2
  <2>4. UNCHANGED <<tick, ScenarioMode, overlays, forceSimulationUntil, forcedBy, applied>>
    BY <1>1
  <2> QED BY <2>2, <2>3, <2>4 DEF FollowInv
<1> QED BY <1>7, <1>8

LEMMA FollowSetOverlay ==
  ASSUME ScenarioTypes, TurnInv, FollowInv, NEW h \in Handlers, Scenarios!SetOverlay(h)
  PROVE  TurnInv' /\ FollowInv'
<1> DEFINE r == [control[h] EXCEPT !.at = "force"]
           k == control[h].kind
           o == [request |-> control[h].number, start |-> control[h].start,
                 duration |-> control[h].duration, until |-> control[h].start + control[h].duration]
<1>1. /\ control[h].at = "overlay" /\ control' = [control EXCEPT ![h].at = "force"]
      /\ ScenarioMode' = "on" /\ overlays' = [overlays EXCEPT ![k] = o]
      /\ UNCHANGED <<tick, forceSimulationUntil, controls, forcedBy, applied>>
  BY DEF Scenarios!SetOverlay
<1>2. /\ control[h] \in Controls /\ control[h].number \in Nat /\ tick \in Nat /\ controls \in Nat
      /\ control[h].duration \in Nat /\ control[h].start \in Nat
      /\ Handlers = DOMAIN control /\ Scenarios!Kinds = DOMAIN overlays
  BY ControlFields DEF ScenarioTypes
<1>3. control' = [control EXCEPT ![h] = r]
  BY <1>1, <1>2
<1>4. /\ r.at = "force" /\ r.number = control[h].number /\ r.kind = k
      /\ r.duration = control[h].duration
  BY <1>2 DEF Controls
<1> HIDE DEF r
<1>5. control'[h] = r /\ \A i \in Handlers : i # h => control'[i] = control[i]
  BY <1>3, OneControl
<1>6. \A i \in Handlers : /\ control'[i].number = control[i].number
                          /\ (Waiting(i)' <=> Waiting(i))
  BY <1>1, <1>4, <1>5 DEF Waiting
<1>7. /\ k \in Scenarios!Kinds /\ 0 < control[h].duration /\ control[h].start <= tick + 1
      /\ 1 <= control[h].number /\ control[h].number <= controls /\ control[h].number # forcedBy
  BY <1>1 DEF TurnInv, Waiting
<1>8. overlays'[k] = o /\ \A j \in Scenarios!Kinds : j # k => overlays'[j] = overlays[j]
  BY <1>1, <1>2, <1>7
<1>9. /\ o.request = control[h].number /\ o.duration = control[h].duration
      /\ o.start = control[h].start /\ o.until = o.start + o.duration
      /\ o # Scenarios!NoOverlay
  BY <1>2, <1>7 DEF Scenarios!NoOverlay
<1>10. TurnInv'
  <2>1. ASSUME NEW i \in Handlers, Waiting(i)'
        PROVE  /\ 1 <= control'[i].number /\ control'[i].number <= controls
               /\ control'[i].number # forcedBy
               /\ control'[i].at \in {"read", "overlay"} =>
                    control'[i].kind \in Scenarios!Kinds /\ 0 < control'[i].duration
               /\ control'[i].at = "overlay" => control'[i].start <= tick + 1
    <3>1. CASE i = h
      BY <1>4, <1>5, <1>7, <3>1
    <3>2. CASE i # h
      BY <1>5, <1>6, <2>1, <3>2 DEF TurnInv
    <3> QED BY <3>1, <3>2
  <2>2. \A i, j \in Handlers :
          i # j /\ Waiting(i)' /\ Waiting(j)' => control'[i].number # control'[j].number
    BY <1>6 DEF TurnInv
  <2>3. \A j \in Scenarios!Kinds : overlays'[j].request <= controls
    BY <1>7, <1>8, <1>9 DEF TurnInv
  <2>4. forcedBy <= controls
    BY DEF TurnInv
  <2> QED BY <1>1, <2>1, <2>2, <2>3, <2>4 DEF TurnInv
<1> HIDE DEF o
<1>11. FollowInv'
  <2>1. ASSUME NEW j \in Scenarios!Kinds, j # k, Scheduled(j), NEW i \in Handlers, Waiting(i)',
               control'[i].number = overlays[j].request
        PROVE  Waiting(i) /\ control'[i] = control[i]
    <3>1. Waiting(i) /\ control[i].at # "overlay"
      BY <1>6, <2>1 DEF FollowInv
    <3> QED BY <1>1, <1>5, <3>1
  <2>2. ASSUME NEW i \in Handlers, Waiting(i)', control'[i].number = o.request
        PROVE  i = h
    BY <1>1, <1>6, <1>9, <2>2 DEF TurnInv, Waiting
  <2>3. /\ \A j \in Scenarios!Kinds : j = k => Scheduled(j)'
        /\ \A j \in Scenarios!Kinds : j # k => (Scheduled(j)' <=> Scheduled(j))
    BY <1>8, <1>9 DEF Scheduled
  <2> SUFFICES ASSUME NEW j \in Scenarios!Kinds
               PROVE  IF Scheduled(j)'
                      THEN /\ ScenarioMode' # "off" /\ 0 < overlays'[j].duration
                           /\ 1 <= overlays'[j].request
                           /\ overlays'[j].until = overlays'[j].start + overlays'[j].duration
                           /\ overlays'[j].start <= tick + 1
                           /\ overlays'[j].request = forcedBy =>
                                /\ overlays'[j].until <= forceSimulationUntil
                                /\ applied[j] > 0 => tick <= forceSimulationUntil
                           /\ \A i \in Handlers :
                                Waiting(i)' /\ control'[i].number = overlays'[j].request =>
                                  /\ control'[i].kind = j
                                  /\ control'[i].duration = overlays'[j].duration
                                  /\ control'[i].at \in {"force", "store"}
                                  /\ control'[i].at = "store" =>
                                       /\ overlays'[j].until <= control'[i].start
                                       /\ applied[j] > 0 => tick <= control'[i].start
                      ELSE applied[j] = 0
    BY <1>1 DEF FollowInv
  <2>4. CASE j = k
    BY <1>1, <1>4, <1>5, <1>7, <1>8, <1>9, <2>2, <2>3, <2>4
  <2>5. CASE j # k
    BY <1>1, <1>8, <2>1, <2>3, <2>5 DEF FollowInv
  <2> QED BY <2>4, <2>5
<1> QED BY <1>10, <1>11

LEMMA FollowForceRead ==
  ASSUME ScenarioTypes, TurnInv, FollowInv, NEW h \in Handlers, Scenarios!ForceRead(h)
  PROVE  TurnInv' /\ FollowInv'
<1> DEFINE s == tick + Scenarios!Forced(control[h])
           r == [control[h] EXCEPT !.at = "store", !.start = s]
<1>1. /\ control[h].at = "force" /\ control' = [control EXCEPT ![h].at = "store", ![h].start = s]
      /\ UNCHANGED <<tick, ScenarioMode, overlays, forceSimulationUntil, controls, forcedBy, applied>>
  BY DEF Scenarios!ForceRead
<1>2. control[h] \in Controls /\ control[h].number \in Nat /\ tick \in Nat /\ control[h].duration \in Nat
      /\ Handlers = DOMAIN control
  BY ControlFields DEF ScenarioTypes
<1>s. control[h].kind \in Scenarios!Kinds => s = tick + (control[h].duration + 1)
  BY DEF Scenarios!Forced
<1> HIDE DEF s
<1>3. control' = [control EXCEPT ![h] = r]
  BY <1>1, <1>2
<1>4. /\ r.at = "store" /\ r.start = s /\ r.number = control[h].number
      /\ r.kind = control[h].kind /\ r.duration = control[h].duration
  BY <1>2, TwoFields
<1> HIDE DEF r
<1>5. control'[h] = r /\ \A i \in Handlers : i # h => control'[i] = control[i]
  BY <1>3, OneControl
<1>6. \A i \in Handlers : /\ control'[i].number = control[i].number
                          /\ (Waiting(i)' <=> Waiting(i))
  BY <1>1, <1>4, <1>5 DEF Waiting
<1>u. UNCHANGED <<tick, ScenarioMode, overlays, forceSimulationUntil, controls, forcedBy, applied>>
  BY <1>1
<1>7. TurnInv'
  <2>1. ASSUME NEW i \in Handlers, Waiting(i)'
        PROVE  /\ 1 <= control'[i].number /\ control'[i].number <= controls
               /\ control'[i].number # forcedBy
               /\ control'[i].at \in {"read", "overlay"} =>
                    control'[i].kind \in Scenarios!Kinds /\ 0 < control'[i].duration
               /\ control'[i].at = "overlay" => control'[i].start <= tick + 1
    <3>1. CASE i = h
      BY <1>4, <1>5, <1>6, <2>1, <3>1 DEF TurnInv
    <3>2. CASE i # h
      BY <1>5, <1>6, <2>1, <3>2 DEF TurnInv
    <3> QED BY <3>1, <3>2
  <2>2. \A i, j \in Handlers :
          i # j /\ Waiting(i)' /\ Waiting(j)' => control'[i].number # control'[j].number
    BY <1>6 DEF TurnInv
  <2> QED BY <1>u, <2>1, <2>2 DEF TurnInv
<1>8. FollowInv'
  <2>1. ASSUME NEW k \in Scenarios!Kinds, Scheduled(k), NEW i \in Handlers, Waiting(i)',
               control'[i].number = overlays[k].request
        PROVE  /\ control'[i].kind = k /\ control'[i].duration = overlays[k].duration
               /\ control'[i].at \in {"force", "store"}
               /\ control'[i].at = "store" =>
                    /\ overlays[k].until <= control'[i].start
                    /\ applied[k] > 0 => tick <= control'[i].start
    <3>1. Waiting(i) /\ control[i].number = overlays[k].request
      BY <1>6, <2>1
    <3>2. /\ control[i].kind = k /\ control[i].duration = overlays[k].duration
          /\ control[i].at \in {"force", "store"}
          /\ control[i].at = "store" =>
               /\ overlays[k].until <= control[i].start
               /\ applied[k] > 0 => tick <= control[i].start
      BY <2>1, <3>1 DEF FollowInv
    <3>3. CASE i # h
      BY <1>5, <3>2, <3>3
    <3>4. CASE i = h
      <4>1. /\ overlays[k].until = overlays[k].start + overlays[k].duration
            /\ overlays[k].start <= tick + 1
        BY <2>1 DEF FollowInv
      <4>2. overlays[k].start \in Nat /\ overlays[k].duration \in Nat
        BY ControlFields
      <4>3. s = tick + (overlays[k].duration + 1)
        BY <1>s, <3>2, <3>4
      <4>4. overlays[k].until <= s /\ tick <= s
        BY <1>2, <4>1, <4>2, <4>3
      <4> QED BY <1>4, <1>5, <3>2, <3>4, <4>4
    <3> QED BY <3>3, <3>4
  <2>2. \A k \in Scenarios!Kinds : Scheduled(k)' <=> Scheduled(k)
    BY <1>u DEF Scheduled
  <2> QED BY <1>u, <2>1, <2>2 DEF FollowInv
<1> QED BY <1>7, <1>8

LEMMA FollowForceStore ==
  ASSUME ScenarioTypes, TurnInv, FollowInv, NEW h \in Handlers, Scenarios!ForceStore(h)
  PROVE  TurnInv' /\ FollowInv'
<1>1. /\ control[h].at = "store" \/ (control[h].at = "force" /\ control[h].kind = "stop")
      /\ forceSimulationUntil' = IF control[h].kind = "stop" THEN 0 ELSE control[h].start
      /\ forcedBy' = control[h].number /\ control' = [control EXCEPT ![h] = Scenarios!NoRequest]
  BY DEF Scenarios!ForceStore
<1>u. UNCHANGED <<tick, ScenarioMode, overlays, controls, applied>>
  BY DEF Scenarios!ForceStore
<1>2. control'[h] = Scenarios!NoRequest /\ \A i \in Handlers : i # h => control'[i] = control[i]
  BY <1>1, OneControl
<1>3. ~Waiting(h)' /\ Waiting(h)
  <2>1. control'[h].at = "none"
    BY <1>2 DEF Scenarios!NoRequest
  <2> QED BY <1>1, <2>1 DEF Waiting
<1>4. \A i \in Handlers : Waiting(i)' => i # h /\ Waiting(i) /\ control'[i] = control[i]
  BY <1>2, <1>3 DEF Waiting
<1>5. TurnInv'
  <2>1. forcedBy' <= controls
    BY <1>1, <1>3 DEF TurnInv
  <2>2. \A k \in Scenarios!Kinds : overlays[k].request <= controls
    BY DEF TurnInv
  <2>3. ASSUME NEW i \in Handlers, Waiting(i)'
        PROVE  /\ 1 <= control'[i].number /\ control'[i].number <= controls
               /\ control'[i].number # forcedBy'
               /\ control'[i].at \in {"read", "overlay"} =>
                    control'[i].kind \in Scenarios!Kinds /\ 0 < control'[i].duration
               /\ control'[i].at = "overlay" => control'[i].start <= tick + 1
    <3>1. i # h /\ Waiting(i) /\ control'[i] = control[i]
      BY <1>4, <2>3
    <3>2. control[i].number # control[h].number
      BY <1>3, <3>1 DEF TurnInv
    <3> QED BY <1>1, <3>1, <3>2 DEF TurnInv
  <2>4. ASSUME NEW i \in Handlers, NEW j \in Handlers, i # j, Waiting(i)', Waiting(j)'
        PROVE  control'[i].number # control'[j].number
    BY <1>4, <2>4 DEF TurnInv
  <2> QED BY <1>u, <2>1, <2>2, <2>3, <2>4 DEF TurnInv
<1>6. FollowInv'
  <2>1. ASSUME NEW k \in Scenarios!Kinds, Scheduled(k), overlays[k].request = forcedBy'
        PROVE  /\ overlays[k].until <= forceSimulationUntil'
               /\ applied[k] > 0 => tick <= forceSimulationUntil'
    <3>1. /\ control[h].kind = k
          /\ control[h].at = "store" =>
               /\ overlays[k].until <= control[h].start
               /\ applied[k] > 0 => tick <= control[h].start
      BY <1>1, <1>3, <2>1 DEF FollowInv
    <3>2. k # "stop"
      BY DEF Scenarios!Kinds
    <3> QED BY <1>1, <3>1, <3>2
  <2>2. ASSUME NEW k \in Scenarios!Kinds, Scheduled(k), NEW i \in Handlers, Waiting(i)',
               control'[i].number = overlays[k].request
        PROVE  /\ control'[i].kind = k /\ control'[i].duration = overlays[k].duration
               /\ control'[i].at \in {"force", "store"}
               /\ control'[i].at = "store" =>
                    /\ overlays[k].until <= control'[i].start
                    /\ applied[k] > 0 => tick <= control'[i].start
    <3>1. Waiting(i) /\ control'[i] = control[i]
      BY <1>4, <2>2
    <3> QED BY <2>2, <3>1 DEF FollowInv
  <2>3. \A k \in Scenarios!Kinds : Scheduled(k)' <=> Scheduled(k)
    BY <1>u DEF Scheduled
  <2> QED BY <1>u, <2>1, <2>2, <2>3 DEF FollowInv
<1> QED BY <1>5, <1>6

LEMMA FollowTick ==
  ASSUME ScenarioTypes, TurnInv, FollowInv, Scenarios!ApplySuperposition
  PROVE  TurnInv' /\ FollowInv'
<1>1. /\ tick' = tick + 1
      /\ UNCHANGED <<ScenarioMode, forceSimulationUntil, control, controls, forcedBy>>
  BY DEF Scenarios!ApplySuperposition
<1>2. tick \in Nat /\ controls \in Nat
  BY DEF ScenarioTypes
<1>3. \A k \in Scenarios!Kinds :
        /\ overlays'[k] \in {overlays[k], Scenarios!NoOverlay}
        /\ applied'[k] \in 0 .. 2
        /\ applied'[k] > 0 => overlays'[k] # Scenarios!NoOverlay /\ tick + 1 <= overlays'[k].until
  BY TickEffects
<1>4. TurnInv'
  <2>1. \A k \in Scenarios!Kinds : overlays'[k].request <= controls
    BY <1>2, <1>3 DEF TurnInv, Scenarios!NoOverlay
  <2>2. ASSUME NEW i \in Handlers, Waiting(i)
        PROVE  /\ 1 <= control[i].number /\ control[i].number <= controls
               /\ control[i].number # forcedBy
               /\ control[i].at \in {"read", "overlay"} =>
                    control[i].kind \in Scenarios!Kinds /\ 0 < control[i].duration
               /\ control[i].at = "overlay" => control[i].start <= tick + 1 + 1
    <3>1. control[i].start \in Nat
      BY ControlFields
    <3> QED BY <1>2, <2>2, <3>1 DEF TurnInv
  <2> QED BY <1>1, <2>1, <2>2 DEF TurnInv, Waiting
<1>5. FollowInv'
  <2>1. ASSUME NEW k \in Scenarios!Kinds, Scheduled(k)'
        PROVE  /\ Scheduled(k) /\ overlays'[k] = overlays[k]
               /\ overlays[k].start <= tick + 1 + 1
               /\ applied'[k] > 0 => tick + 1 <= overlays[k].until
    <3>1. Scheduled(k) /\ overlays'[k] = overlays[k]
      BY <1>3, <2>1 DEF Scheduled
    <3>2. overlays[k].start \in Nat /\ overlays[k].start <= tick + 1
      BY <3>1 DEF FollowInv, ScenarioTypes, Overlays
    <3> QED BY <1>2, <1>3, <3>1, <3>2
  <2>2. ASSUME NEW k \in Scenarios!Kinds, Scheduled(k)', NEW x \in Nat, overlays[k].until <= x, applied'[k] > 0
        PROVE  tick' <= x
    <3>1. overlays[k].until \in Nat
      BY DEF ScenarioTypes, Overlays
    <3> QED BY <1>1, <1>2, <2>1, <2>2, <3>1
  <2>3. forceSimulationUntil \in Nat /\ \A i \in Handlers : control[i].start \in Nat
    BY ControlFields DEF ScenarioTypes
  <2>4. ASSUME NEW k \in Scenarios!Kinds, Scheduled(k)'
        PROVE  /\ ScenarioMode # "off" /\ 0 < overlays[k].duration /\ 1 <= overlays[k].request
               /\ overlays[k].until = overlays[k].start + overlays[k].duration
               /\ overlays[k].request = forcedBy =>
                    /\ overlays[k].until <= forceSimulationUntil
                    /\ applied'[k] > 0 => tick' <= forceSimulationUntil
               /\ \A i \in Handlers : Waiting(i) /\ control[i].number = overlays[k].request =>
                    /\ control[i].kind = k /\ control[i].duration = overlays[k].duration
                    /\ control[i].at \in {"force", "store"}
                    /\ control[i].at = "store" =>
                         /\ overlays[k].until <= control[i].start
                         /\ applied'[k] > 0 => tick' <= control[i].start
    BY <2>1, <2>2, <2>3, <2>4 DEF FollowInv
  <2>5. ASSUME NEW k \in Scenarios!Kinds, ~Scheduled(k)' PROVE applied'[k] = 0
    BY <1>3, <2>5 DEF Scheduled
  <2>6. \A i \in Handlers : Waiting(i)' <=> Waiting(i)
    BY <1>1 DEF Waiting
  <2> QED BY <1>1, <2>1, <2>4, <2>5, <2>6 DEF FollowInv
<1> QED BY <1>4, <1>5

-------------------------------------------------------------------------------
(* The disturbances: their peaks *)

(* A disturbance handed over in time has reached its full strength once a  *)
(* tick of full strength has passed.                                       *)
PeakInv ==
  \A k \in Scenarios!Kinds : Scheduled(k) /\ peaked[k].due =>
    \A c \in 0 .. overlays[k].duration :
      Strength(k, c, overlays[k].duration) = 2 /\ overlays[k].start + c <= tick => peaked[k].full

LEMMA PeakStep ==
  ASSUME ScenarioTypes, TurnInv, FollowInv, PeakInv, [Scenarios!Next]_(Scenarios!vars)
  PROVE  PeakInv'
<1>1. CASE Scenarios!ApplySuperposition
  <2> SUFFICES ASSUME NEW k \in Scenarios!Kinds, Scheduled(k)', peaked'[k].due,
                      NEW c \in 0 .. overlays'[k].duration,
                      Strength(k, c, overlays'[k].duration) = 2, overlays'[k].start + c <= tick'
               PROVE  peaked'[k].full
    BY DEF PeakInv, Strength, Scenarios!disturbanceEnvelope, Scenarios!BurstFactor
  <2>1. /\ overlays'[k] = overlays[k] /\ Scheduled(k) /\ peaked[k].due /\ overlays'[k] # Scenarios!NoOverlay
        /\ tick' = tick + 1
    BY <1>1, TickEffects DEF Scheduled, Scenarios!ApplySuperposition
  <2>2. ScenarioMode # "off" /\ overlays[k].start \in Nat /\ overlays[k].duration \in Nat /\ tick \in Nat
    BY <2>1 DEF FollowInv, ScenarioTypes, Overlays
  <2>3. CASE overlays[k].start + c <= tick
    <3>1. peaked[k].full
      BY <2>1, <2>3 DEF PeakInv
    <3> QED BY <1>1, <2>2, <3>1, TickEffects
  <2>4. CASE tick + 1 = overlays[k].start + c
    BY <1>1, <2>1, <2>2, <2>4, TickEffects
  <2> QED BY <2>1, <2>2, <2>3, <2>4
<1>2. ASSUME NEW h \in Handlers, Scenarios!SetOverlay(h)
      PROVE  PeakInv'
  <2>1. /\ tick' = tick /\ control[h].at = "overlay"
        /\ overlays' = [overlays EXCEPT ![control[h].kind] =
             [request |-> control[h].number, start |-> control[h].start,
              duration |-> control[h].duration,
              until |-> control[h].start + control[h].duration]]
        /\ peaked' = [peaked EXCEPT ![control[h].kind] =
                        [full |-> FALSE, due |-> control[h].start = tick + 1]]
    BY <1>2 DEF Scenarios!SetOverlay
  <2>2. control[h].kind \in Scenarios!Kinds /\ control[h].start \in Nat /\ tick \in Nat
    BY <2>1, ControlFields DEF TurnInv, Waiting, ScenarioTypes
  <2> SUFFICES ASSUME NEW k \in Scenarios!Kinds, Scheduled(k)', peaked'[k].due,
                      NEW c \in 0 .. overlays'[k].duration,
                      Strength(k, c, overlays'[k].duration) = 2, overlays'[k].start + c <= tick'
               PROVE  peaked'[k].full
    BY DEF PeakInv, Strength, Scenarios!disturbanceEnvelope, Scenarios!BurstFactor
  <2>3. CASE k = control[h].kind
    <3>1. overlays'[k].start = control[h].start /\ (peaked'[k].due => control[h].start = tick + 1)
      BY <2>1, <2>2, <2>3 DEF ScenarioTypes
    <3>2. c \in Nat
      BY <2>1, <2>2, <2>3, ControlFields DEF ScenarioTypes
    <3> QED BY <2>1, <2>2, <3>1, <3>2
  <2>4. CASE k # control[h].kind
    <3>1. overlays'[k] = overlays[k] /\ peaked'[k] = peaked[k]
      BY <2>1, <2>2, <2>4 DEF ScenarioTypes
    <3> QED BY <2>1, <3>1 DEF PeakInv, Scheduled
  <2> QED BY <2>3, <2>4
<1>3. ASSUME UNCHANGED <<tick, overlays, peaked>> PROVE PeakInv'
  BY <1>3 DEF PeakInv, Scheduled, Strength, Scenarios!disturbanceEnvelope, Scenarios!BurstFactor
<1> QED BY <1>1, <1>2, <1>3 DEF Scenarios!Next, Scenarios!vars, Scenarios!Receive, Scenarios!ReadTick,
  Scenarios!ForceRead, Scenarios!ForceStore

LEMMA FollowStep ==
  ASSUME ScenarioTypes, TurnInv, FollowInv, [Scenarios!Next]_(Scenarios!vars)
  PROVE  TurnInv' /\ FollowInv'
<1>1. CASE UNCHANGED Scenarios!vars
  BY <1>1 DEF Scenarios!vars, TurnInv, FollowInv, Waiting, Scheduled
<1> QED BY <1>1, FollowReceive, FollowReadTick, FollowSetOverlay, FollowForceRead, FollowForceStore,
  FollowTick DEF Scenarios!Next

(* A disturbance handed over in time reaches its full strength, whatever   *)
(* its duration, and is never shown without the simulation it forces,      *)
(* whatever ticks and requests come between its steps (handleControl and   *)
(* ForceSimulation; disturbanceEnvelope and Evaluate of the scenarios).    *)
THEOREM DisturbancesAlwaysHold == Scenarios!Spec => []DisturbancesHold
<1> DEFINE Inv == ScenarioTypes /\ TurnInv /\ FollowInv /\ PeakInv
<1>1. Scenarios!Init => Inv
  BY DEF Scenarios!Init, ScenarioTypes, TurnInv, FollowInv, PeakInv, Overlays, Controls, Waiting,
    Scheduled, Scenarios!NoRequest, Scenarios!NoOverlay
<1>2. Inv /\ [Scenarios!Next]_(Scenarios!vars) => Inv'
  BY ScenarioTypesStep, FollowStep, PeakStep
<1>3. Inv => DisturbancesHold
  <2> SUFFICES ASSUME Inv PROVE DisturbancesHold
    OBVIOUS
  <2>1. ASSUME NEW k \in Scenarios!Kinds, overlays[k] # Scenarios!NoOverlay, peaked[k].due,
               tick = overlays[k].until, ~(k = "replay-burst" /\ overlays[k].duration = 1)
        PROVE  peaked[k].full
    <3>1. /\ overlays[k].duration \in Nat \ {0} /\ overlays[k].start \in Nat
          /\ tick = overlays[k].start + overlays[k].duration
      BY <2>1 DEF FollowInv, Scheduled, ScenarioTypes, Overlays
    <3>2. PICK c \in 0 .. overlays[k].duration : Strength(k, c, overlays[k].duration) = 2
      BY <2>1, <3>1, HasPeak
    <3>3. overlays[k].start + c <= tick
      BY <3>1, <3>2
    <3> QED BY <2>1, <3>2, <3>3 DEF PeakInv, Scheduled
  <2>2. Scenarios!SimulationFollows
    BY DEF FollowInv, Scheduled, Scenarios!SimulationFollows
  <2> QED BY <2>1, <2>2 DEF DisturbancesHold, Scenarios!Peaks
<1> QED BY <1>1, <1>2, <1>3, PTL DEF Scenarios!Spec

-------------------------------------------------------------------------------
(* The ticks *)

PipeTypes ==
  /\ cycle \in Nat /\ pc \in {"idle", "observe", "decide", "publish"}
  /\ pc # "idle" => cycle >= 1
  /\ windows \subseteq Services /\ observed \subseteq Services
  /\ DOMAIN nodes \subseteq Ticks!Nodes /\ \A n \in DOMAIN nodes : nodes[n] \in Nat
  /\ results \in Seq(Nat) /\ runs \subseteq Nat
  /\ overlayAge \in Nat /\ calm \in 0 .. simInterval + 1
  /\ prevTopo = [nodes |-> prevTopo.nodes, edges |-> prevTopo.edges]

(* A tick that found windows has some when it ends, and their services are *)
(* in the graph as long as it has room.                                    *)
Complete ==
  pc \in {"decide", "publish"} =>
    /\ windows # {} => observed # {}
    /\ Cardinality(Ticks!Nodes) <= maxNodes => observed \subseteq DOMAIN nodes

(* How many ticks ago the last run was due.                                *)
Ended == IF pc = "idle" THEN cycle ELSE cycle - 1
SinceDue == Ended % simInterval
Awaited == runs # {} \/ results # <<>>
Due == cycle % simInterval = 0

(* Since the tick in which a run was due the result shown has only aged by *)
(* the ticks since, or the run's result is still to be taken up.           *)
Fresh ==
  /\ SinceDue >= 1 /\ calm >= SinceDue + 1 => overlayAge <= SinceDue
  /\ SinceDue = 0 /\ calm = simInterval + 1 => overlayAge <= simInterval
  /\ SinceDue = 0 /\ calm >= 1 /\ pc # "publish" => overlayAge = 0 \/ Awaited
  /\ pc \in {"observe", "decide"} => runs = {}
  /\ pc = "publish" /\ ~forced /\ ~skip.sim =>
       /\ SinceDue = 0 /\ calm >= 1 => overlayAge = 0 \/ results # <<>>
       /\ Due => Awaited

TickInv == PipeTypes /\ Complete /\ view = prevTopo /\ Fresh

LEMMA IntervalFacts == simInterval \in Nat /\ simInterval >= 2 /\ simInterval \in Nat \ {0}
BY TickAssumption DEF TickAssumption

(* The remainder of the next number. *)
LEMMA NextRemainder ==
  ASSUME NEW m \in Nat \ {0, 1}, NEW t \in Nat
  PROVE  /\ t % m \in 0 .. m - 1
         /\ (t + 1) % m = IF t % m = m - 1 THEN 0 ELSE (t % m) + 1
<1>1. t % m \in 0 .. m - 1
  BY Remainder
<1>2. ((t % m) + 1) % m = (t + 1) % m
  <2>1. t \in Int /\ 1 \in Int /\ m \in Nat \ {0}
    OBVIOUS
  <2> QED BY <2>1, AddAfter
<1> DEFINE r == t % m
<1>3. r \in 0 .. m - 1
  BY <1>1
<1> HIDE DEF r
<1>4. CASE r = m - 1
  <2>1. m % m = 0 % m
    <3>1. m \in Int /\ 0 \in Int /\ 1 \in Int /\ m = 0 + m * 1
      OBVIOUS
    <3> QED BY <3>1, Shift
  <2>2. 0 % m = 0
    BY SmallRemainder
  <2>3. r + 1 = m
    BY <1>3, <1>4
  <2> QED BY <1>1, <1>2, <1>4, <2>1, <2>2, <2>3 DEF r
<1>5. CASE r # m - 1
  <2>1. r + 1 \in 0 .. m - 1
    BY <1>3, <1>5
  <2>2. (r + 1) % m = r + 1
    BY <2>1, SmallRemainder
  <2> QED BY <1>1, <1>2, <1>5, <2>2 DEF r
<1> QED BY <1>4, <1>5

LEMMA TickInit == Ticks!Init => TickInv
<1> SUFFICES ASSUME Ticks!Init PROVE TickInv
  OBVIOUS
<1>1. PipeTypes
  BY IntervalFacts DEF Ticks!Init, PipeTypes, Ticks!NoGraph
<1>2. Complete /\ view = prevTopo
  BY DEF Ticks!Init, Complete
<1>3. SinceDue = 0
  <2>1. 0 % simInterval = 0
    BY IntervalFacts, SmallRemainder
  <2> QED BY <2>1 DEF Ticks!Init, SinceDue, Ended
<1>4. Fresh
  BY <1>3, IntervalFacts DEF Ticks!Init, Fresh
<1> QED BY <1>1, <1>2, <1>4 DEF TickInv

(* Steps around the tick, which leave its stage and its graph alone. *)
LEMMA AroundTick ==
  ASSUME TickInv, UNCHANGED <<cycle, pc, windows, observed, nodes, skip, forced, calm, view, prevTopo>>,
         UNCHANGED <<runs, results, overlayAge>>
         \/ \E r : Ticks!RunEnds(r)
  PROVE  TickInv'
<1> USE DEF TickInv
<1>1. CASE UNCHANGED <<runs, results, overlayAge>>
  BY <1>1 DEF PipeTypes, Complete, Fresh, SinceDue, Ended, Awaited, Due
<1>2. ASSUME NEW r, Ticks!RunEnds(r) PROVE TickInv'
  <2>1. /\ r \in runs /\ runs' = runs \ {r} /\ UNCHANGED overlayAge
        /\ results' = IF Len(results) < AsyncBuffer THEN Append(results, r) ELSE results
    BY <1>2 DEF Ticks!RunEnds
  <2>2. results' \in Seq(Nat) /\ results' # <<>> /\ runs' \subseteq Nat
    BY SMTT(30), <2>1, TickAssumption DEF PipeTypes, TickAssumption
  <2>3. PipeTypes'
    BY <2>1, <2>2 DEF PipeTypes
  <2>4. pc \notin {"observe", "decide"}
    BY <2>1 DEF Fresh
  <2>5. Fresh'
    BY <2>1, <2>2, <2>4 DEF Fresh, SinceDue, Ended, Awaited, Due
  <2> QED BY <2>3, <2>5 DEF Complete
<1> QED BY <1>1, <1>2

LEMMA CollectKeeps ==
  ASSUME TickInv, Ticks!CollectWindows
  PROVE  TickInv'
<1> USE DEF TickInv
<1>1. /\ pc = "idle" /\ pc' = "observe" /\ runs = {} /\ cycle' = cycle + 1
      /\ windows' \subseteq Services
      /\ UNCHANGED <<observed, nodes, skip, runs, results, prevTopo, view, calm>>
      /\ overlayAge' = 0 \/ overlayAge' = overlayAge
  BY DEF Ticks!CollectWindows, Ticks!graph, Ticks!output
<1>2. PipeTypes'
  BY <1>1 DEF PipeTypes
<1>3. Complete' /\ (view = prevTopo)'
  BY <1>1 DEF Complete
<1>4. SinceDue' = SinceDue
  <2>1. Ended' = Ended
    BY <1>1 DEF Ended, PipeTypes
  <2> QED BY <2>1 DEF SinceDue
<1>5. SinceDue \in 0 .. simInterval - 1
  <2>1. Ended \in Int
    BY <1>1 DEF Ended, PipeTypes
  <2> QED BY <2>1, IntervalFacts, Remainder DEF SinceDue
<1>6. Fresh'
  BY <1>1, <1>4, <1>5, IntervalFacts DEF Fresh, Awaited, PipeTypes
<1> QED BY <1>2, <1>3, <1>6

LEMMA SameNodeCount == \A S : Ticks!Cardinality(S) = Cardinality(S)
  BY DEF Ticks!Cardinality, Cardinality, Ticks!IsFiniteSet, IsFiniteSet

(* The graph has room for every service a tick observes, if it has room    *)
(* for all.                                                                *)
LEMMA GraphHolds ==
  ASSUME PipeTypes, NEW o \in SUBSET Services, NEW called \in SUBSET Ticks!Nodes,
         Ticks!UpdateNodes(o, called)
  PROVE  /\ DOMAIN nodes' \subseteq Ticks!Nodes /\ \A n \in DOMAIN nodes' : nodes'[n] \in Nat
         /\ Cardinality(Ticks!Nodes) <= maxNodes => o \subseteq DOMAIN nodes'
<1>1. PICK new \in Ticks!Admissible(o, called) :
        LET aged == [n \in DOMAIN nodes \cup new |->
                       IF n \in o \cup new THEN 0 ELSE nodes[n] + 1]
        IN  nodes' = Ticks!Restrict(aged, {n \in DOMAIN aged : aged[n] <= NodeStaleAge})
  BY DEF Ticks!UpdateNodes
<1> DEFINE all == DOMAIN nodes \cup new
           aged == [n \in all |-> IF n \in o \cup new THEN 0 ELSE nodes[n] + 1]
           kept == {n \in all : aged[n] <= NodeStaleAge}
<1>2. nodes' = [n \in kept |-> aged[n]]
  BY <1>1 DEF Ticks!Restrict
<1>3. new \subseteq o \cup called /\ o \subseteq Ticks!Nodes /\ all \subseteq Ticks!Nodes
  BY DEF Ticks!Admissible, Ticks!Nodes, PipeTypes
<1>4. DOMAIN nodes' \subseteq Ticks!Nodes /\ \A n \in DOMAIN nodes' : nodes'[n] \in Nat
  <2>1. \A n \in all : n \notin new => n \in DOMAIN nodes /\ nodes[n] \in Nat
    BY DEF PipeTypes
  <2>2. \A n \in all : aged[n] \in Nat
    BY <2>1
  <2> QED BY <1>2, <1>3, <2>2
<1>5. ASSUME Cardinality(Ticks!Nodes) <= maxNodes, NEW n \in o PROVE n \in DOMAIN nodes'
  <2>1. n \in all
    <3> SUFFICES ASSUME n \notin all PROVE FALSE
      OBVIOUS
    <3>1. Ticks!Cardinality(all) >= maxNodes
      BY DEF Ticks!Admissible
    <3>2. Cardinality(all) >= maxNodes
      BY <3>1, SameNodeCount
    <3>3. IsFiniteSet(Ticks!Nodes) /\ maxNodes \in Nat
      BY TickAssumption DEF TickAssumption
    <3>4. all \subseteq Ticks!Nodes /\ all # Ticks!Nodes
      BY <1>3
    <3>5. Cardinality(all) \in Nat /\ Cardinality(Ticks!Nodes) \in Nat
      <4> HIDE DEF all
      <4> QED BY <3>3, <3>4, FS_Subset, FS_CardinalityType
    <3>6. Cardinality(all) < Cardinality(Ticks!Nodes)
      <4> HIDE DEF all
      <4>1. /\ Cardinality(all) <= Cardinality(Ticks!Nodes)
            /\ Cardinality(all) = Cardinality(Ticks!Nodes) => all = Ticks!Nodes
        BY <3>3, <3>4, FS_Subset
      <4> QED BY <3>4, <3>5, <4>1
    <3> HIDE DEF all
    <3> QED BY <1>5, <3>2, <3>3, <3>5, <3>6
  <2>2. n \in kept
    BY <2>1, TickAssumption DEF TickAssumption
  <2> QED BY <1>2, <2>2
<1> QED BY <1>4, <1>5

LEMMA ObserveKeeps ==
  ASSUME TickInv, Ticks!Observe
  PROVE  TickInv'
<1> USE DEF TickInv
<1>1. /\ pc = "observe" /\ pc' = "decide"
      /\ UNCHANGED <<cycle, windows, skip, forced, runs, results, overlayAge, prevTopo, view, calm>>
  BY DEF Ticks!Observe, Ticks!sim, Ticks!output
<1>2. PICK o \in Ticks!Requeried : observed' = o
        /\ \E called \in SUBSET Ticks!Nodes : Ticks!UpdateNodes(o, called)
  <2>1. PICK o \in Ticks!Requeried :
          /\ observed' = o
          /\ \E calls \in SUBSET {e \in Services \X Ticks!Nodes : e[1] \in o /\ e[2] \in Deps[e[1]]} :
               Ticks!UpdateNodes(o, {e[2] : e \in calls})
    BY DEF Ticks!Observe
  <2>2. PICK calls \in SUBSET {e \in Services \X Ticks!Nodes : e[1] \in o /\ e[2] \in Deps[e[1]]} :
          Ticks!UpdateNodes(o, {e[2] : e \in calls})
    BY <2>1
  <2>3. {e[2] : e \in calls} \in SUBSET Ticks!Nodes
    BY <2>2
  <2> QED BY <2>1, <2>2, <2>3
<1>3. o \in SUBSET Services /\ (windows # {} => o # {})
  BY <1>2 DEF Ticks!Requeried, PipeTypes
<1>4. /\ DOMAIN nodes' \subseteq Ticks!Nodes /\ \A n \in DOMAIN nodes' : nodes'[n] \in Nat
      /\ Cardinality(Ticks!Nodes) <= maxNodes => o \subseteq DOMAIN nodes'
  BY <1>2, <1>3, GraphHolds
<1>5. PipeTypes'
  BY <1>1, <1>2, <1>3, <1>4 DEF PipeTypes
<1>6. Complete'
  BY <1>1, <1>2, <1>3, <1>4 DEF Complete
<1>7. SinceDue' = SinceDue
  BY <1>1 DEF SinceDue, Ended
<1>8. Fresh'
  BY <1>1, <1>7 DEF Fresh, Awaited
<1> QED BY <1>1, <1>5, <1>6, <1>8

(* What the remainder of a tick under way is to that of the last. *)
LEMMA UnderWay ==
  ASSUME PipeTypes, pc # "idle"
  PROVE  /\ SinceDue \in 0 .. simInterval - 1
         /\ cycle % simInterval = IF SinceDue = simInterval - 1 THEN 0 ELSE SinceDue + 1
<1>1. PICK t \in Nat : t = cycle - 1 /\ cycle = t + 1
  BY DEF PipeTypes
<1>2. SinceDue = t % simInterval
  BY <1>1 DEF SinceDue, Ended
<1>3. simInterval \in Nat \ {0, 1}
  BY TickAssumption DEF TickAssumption
<1> QED BY <1>1, <1>2, <1>3, NextRemainder

LEMMA SimulateKeeps ==
  ASSUME TickInv, Ticks!Simulate
  PROVE  TickInv'
<1> USE DEF TickInv
<1>1. /\ pc = "decide" /\ pc' = "publish"
      /\ UNCHANGED <<cycle, windows, observed, nodes, forced, overlayAge, prevTopo, view, calm>>
  BY DEF Ticks!Simulate, Ticks!graph, Ticks!output
<1>2. IF ~skip'.sim /\ (Due \/ forced)
      THEN /\ results' = IF results = <<>> THEN results ELSE Tail(results)
           /\ runs' = runs \cup {cycle}
      ELSE UNCHANGED <<runs, results>>
  BY DEF Ticks!Simulate, Ticks!Submit, Ticks!SubmitDue, Due
<1>3. results' \in Seq(Nat) /\ runs' \subseteq Nat
  <2>1. results # <<>> => Tail(results) \in Seq(Nat)
    BY DEF PipeTypes
  <2>2. cycle \in Nat /\ results \in Seq(Nat) /\ runs \subseteq Nat
    BY DEF PipeTypes
  <2> QED BY <1>2, <2>1, <2>2
<1>4. PipeTypes' /\ Complete'
  BY <1>1, <1>3 DEF PipeTypes, Complete
<1>5. SinceDue' = SinceDue /\ Due' = Due
  BY <1>1 DEF SinceDue, Ended, Due
<1>6. ASSUME ~forced, ~skip'.sim, SinceDue = 0, calm >= 1 PROVE overlayAge = 0 \/ results' # <<>>
  <2>1. ~Due
    BY <1>1, <1>6, UnderWay, IntervalFacts DEF Due
  <2> QED BY <1>1, <1>2, <1>6, <2>1 DEF Fresh, Awaited
<1>7. ASSUME ~skip'.sim, Due PROVE Awaited'
  BY <1>2, <1>7 DEF Awaited
<1>8. Fresh'
  BY <1>1, <1>5, <1>6, <1>7 DEF Fresh
<1> QED BY <1>1, <1>4, <1>8

(* A client that has the graph of the last diff and applies the next.      *)
LEMMA DiffApplies ==
  ASSUME NEW prevs, NEW curr, curr = [nodes |-> curr.nodes, edges |-> curr.edges]
  PROVE  Ticks!Applied(prevs, Ticks!Diff(prevs, curr)) = curr
<1>1. \A full \in BOOLEAN :
        Ticks!Applied(prevs,
          [full |-> full,
           addedNodes |-> IF full THEN curr.nodes ELSE curr.nodes \ prevs.nodes,
           removedNodes |-> IF full THEN {} ELSE prevs.nodes \ curr.nodes,
           addedEdges |-> IF full THEN curr.edges ELSE curr.edges \ prevs.edges,
           removedEdges |-> IF full THEN {} ELSE prevs.edges \ curr.edges]) = curr
  <2>1. (prevs.nodes \ (prevs.nodes \ curr.nodes)) \cup (curr.nodes \ prevs.nodes) = curr.nodes
    OBVIOUS
  <2>2. (prevs.edges \ (prevs.edges \ curr.edges)) \cup (curr.edges \ prevs.edges) = curr.edges
    OBVIOUS
  <2> QED BY <2>1, <2>2 DEF Ticks!Applied
<1> QED BY <1>1 DEF Ticks!Diff

LEMMA PublishKeeps ==
  ASSUME TickInv, Ticks!Publish
  PROVE  TickInv'
<1> USE DEF TickInv
<1>1. /\ pc = "publish" /\ pc' = "idle" /\ UNCHANGED <<cycle, nodes, runs>>
      /\ windows' = {} /\ observed' = {}
      /\ calm' = IF forced \/ skip.sim THEN 0 ELSE IF calm <= simInterval THEN calm + 1 ELSE calm
      /\ prevTopo' = IF skip.diff THEN prevTopo ELSE Ticks!Snapshot
      /\ view' = Ticks!Applied(view, IF skip.diff THEN Ticks!NoDiff
                                     ELSE Ticks!Diff(prevTopo, Ticks!Snapshot))
  BY DEF Ticks!Publish, Ticks!graph, Ticks!PrevTopo
<1>2. IF results = <<>>
      THEN overlayAge' = overlayAge + 1 /\ results' = results
      ELSE overlayAge' = 0 /\ results' = Tail(results)
  BY DEF Ticks!Publish, Ticks!TakeUp
<1>3. /\ view' = prevTopo'
      /\ prevTopo' = [nodes |-> prevTopo'.nodes, edges |-> prevTopo'.edges]
  <2>1. CASE skip.diff
    <3>1. Ticks!Applied(view, Ticks!NoDiff) = view
      BY DEF Ticks!Applied, Ticks!NoDiff, PipeTypes
    <3>2. prevTopo' = prevTopo /\ view' = view
      BY <1>1, <2>1, <3>1
    <3> QED BY <3>2 DEF PipeTypes
  <2>2. CASE ~skip.diff
    <3>1. Ticks!Snapshot = [nodes |-> Ticks!Snapshot.nodes, edges |-> Ticks!Snapshot.edges]
      BY DEF Ticks!Snapshot
    <3>2. view' = Ticks!Applied(view, Ticks!Diff(view, Ticks!Snapshot))
          /\ prevTopo' = Ticks!Snapshot
      BY <1>1, <2>2
    <3>3. view' = Ticks!Snapshot
      BY <3>1, <3>2, DiffApplies
    <3> QED BY <3>1, <3>2, <3>3
  <2> QED BY <2>1, <2>2
<1>4. PipeTypes' /\ Complete'
  <2>1. results' \in Seq(Nat)
    <3>1. results # <<>> => Tail(results) \in Seq(Nat)
      BY DEF PipeTypes
    <3>2. results \in Seq(Nat)
      BY DEF PipeTypes
    <3> QED BY <1>2, <3>1, <3>2
  <2>2. overlayAge' \in Nat /\ calm' \in 0 .. simInterval + 1
    BY <1>1, <1>2, IntervalFacts DEF PipeTypes
  <2> QED BY <1>1, <1>3, <2>1, <2>2 DEF PipeTypes, Complete
<1>5. PICK e \in Nat : e = cycle % simInterval
  <2>1. cycle \in Int
    BY DEF PipeTypes
  <2>2. cycle % simInterval \in 0 .. simInterval - 1
    BY <2>1, IntervalFacts, Remainder
  <2> QED BY <2>2, IntervalFacts
<1>6. PICK d \in Nat : d = SinceDue /\ d <= simInterval - 1
                       /\ e = IF d = simInterval - 1 THEN 0 ELSE d + 1
  BY <1>1, <1>5, UnderWay, IntervalFacts
<1>7. SinceDue' = e /\ (Due <=> e = 0)
  BY <1>1, <1>5 DEF SinceDue, Ended, Due
<1>8. /\ e >= 1 /\ calm' >= e + 1 => overlayAge' <= e
      /\ e = 0 /\ calm' = simInterval + 1 => overlayAge' <= simInterval
      /\ e = 0 /\ calm' >= 1 => overlayAge' = 0 \/ Awaited'
  <2>1. CASE forced \/ skip.sim
    <3>1. calm' = 0
      BY <1>1, <2>1
    <3> QED BY <3>1, IntervalFacts
  <2>2. CASE ~forced /\ ~skip.sim
    <3>1. /\ calm' = (IF calm <= simInterval THEN calm + 1 ELSE calm)
          /\ calm \in Nat /\ overlayAge \in Nat /\ calm <= simInterval + 1
      BY <1>1, <2>2, IntervalFacts DEF PipeTypes
    <3>2. /\ d >= 1 /\ calm >= d + 1 => overlayAge <= d
          /\ d = 0 /\ calm >= 1 => overlayAge = 0 \/ results # <<>>
          /\ e = 0 => Awaited
      BY <1>1, <1>6, <1>7, <2>2 DEF Fresh
    <3>3. e = 0 => overlayAge' = 0 \/ Awaited'
      BY <1>1, <1>2, <3>2 DEF Awaited
    <3>4. e = 0 /\ calm' = simInterval + 1 => overlayAge' <= simInterval
      BY <1>2, <1>6, <3>1, <3>2, IntervalFacts
    <3>5. e >= 1 /\ calm' >= e + 1 => overlayAge' <= e
      BY <1>2, <1>6, <3>1, <3>2, IntervalFacts
    <3> QED BY <3>3, <3>4, <3>5
  <2> QED BY <2>1, <2>2
<1>9. Fresh'
  BY <1>1, <1>7, <1>8 DEF Fresh
<1> QED BY <1>3, <1>4, <1>9

LEMMA TickStep == TickInv /\ [Ticks!Next]_(Ticks!vars) => TickInv'
<1> SUFFICES ASSUME TickInv, [Ticks!Next]_(Ticks!vars) PROVE TickInv'
  OBVIOUS
<1>1. CASE Ticks!RequestSimulationReset \/ \E duration \in {0, 2} : Ticks!ForceSimulation(duration)
  <2>1. UNCHANGED <<cycle, pc, windows, observed, nodes, skip, forced, calm, view, prevTopo,
                    runs, results, overlayAge>>
    BY <1>1 DEF Ticks!RequestSimulationReset, Ticks!ForceSimulation, Ticks!graph, Ticks!sim, Ticks!output
  <2> QED BY <2>1, AroundTick
<1>2. ASSUME NEW r \in runs, Ticks!RunEnds(r) PROVE TickInv'
  <2>1. UNCHANGED <<cycle, pc, windows, observed, nodes, skip, forced, calm, view, prevTopo>>
    BY <1>2 DEF Ticks!RunEnds, Ticks!graph, Ticks!output
  <2> QED BY <1>2, <2>1, AroundTick
<1>3. CASE UNCHANGED Ticks!vars
  <2>1. UNCHANGED <<cycle, pc, windows, observed, nodes, skip, forced, calm, view, prevTopo,
                    runs, results, overlayAge>>
    BY <1>3 DEF Ticks!vars
  <2> QED BY <2>1, AroundTick
<1> QED BY <1>1, <1>2, <1>3, CollectKeeps, ObserveKeeps, SimulateKeeps, PublishKeeps DEF Ticks!Next

(* A tick that found windows broadcasts bundles of services that are in    *)
(* the graph of the same payload; a client that applies the diffs has the  *)
(* graph of the last, since every diff is made against what the one before *)
(* was made of; and while no tick forces or skips the simulation the       *)
(* result shown is at most an interval old, for every interval of two      *)
(* ticks or more (orchestrator.go tick).                                   *)
THEOREM PayloadsStayTrue == Ticks!Spec => []PayloadsTrue
<1>1. TickInv => PayloadsTrue
  <2> SUFFICES ASSUME TickInv PROVE PayloadsTrue
    OBVIOUS
  <2>1. Ticks!PayloadComplete
    BY SameNodeCount DEF TickInv, Complete, Ticks!PayloadComplete, Ticks!Snapshot
  <2>2. Ticks!ClientKnowsGraph
    BY DEF TickInv, Ticks!ClientKnowsGraph
  <2>3. ASSUME pc = "idle", calm = simInterval + 1 PROVE overlayAge <= simInterval
    <3>1. SinceDue \in 0 .. simInterval - 1
      <4>1. Ended \in Int
        BY <2>3 DEF Ended, TickInv, PipeTypes
      <4> QED BY <4>1, IntervalFacts, Remainder DEF SinceDue
    <3>2. overlayAge \in Nat /\ simInterval \in Nat
      BY IntervalFacts DEF TickInv, PipeTypes
    <3> QED BY <2>3, <3>1, <3>2 DEF TickInv, Fresh
  <2> QED BY <2>1, <2>2, <2>3 DEF PayloadsTrue, Ticks!FreshOverlay
<1> QED BY TickInit, TickStep, <1>1, PTL DEF Ticks!Spec

-------------------------------------------------------------------------------
(* The alerts *)

AlertTypes ==
  /\ now \in Nat
  /\ cooldownPeriod \in 1 .. 6
  /\ cooldowns \in [Alerts!Keys -> Nat \cup {Alerts!Never}]
  /\ fired \in [Alerts!Keys -> Nat \cup {Alerts!Never}]
  /\ due \subseteq held /\ held \subseteq Alerts!Keys

(* What the engine remembers of an alert is when it was last raised. *)
Remembers ==
  \A k \in Alerts!Keys :
    /\ fired[k] <= now
    /\ cooldowns[k] # Alerts!Never => cooldowns[k] = fired[k]

(* A rule that this analysis is done with has been raised in time. *)
Attended ==
  \A k \in held \ due : fired[k] # Alerts!Never /\ now - fired[k] < cooldownPeriod

(* An alert the engine forgot was crowded out by as many later ones. *)
Later(k) == {j \in Alerts!Keys \ {k} : fired[j] >= fired[k]}
Crowded ==
  \A k \in Alerts!Keys :
    fired[k] # Alerts!Never /\ cooldowns[k] = Alerts!Never =>
      Cardinality(Later(k)) >= maxCooldowns - EvictCount

AlertInv == AlertTypes /\ Remembers /\ Attended /\ Crowded

(* The alerts count with the same operator. *)
LEMMA SameCardinality == \A S : Alerts!Cardinality(S) = Cardinality(S)
  BY DEF Alerts!Cardinality, Cardinality, Alerts!IsFiniteSet, IsFiniteSet

(* What a rule that raises its alert does to the times. *)
LEMMA RaiseWrites ==
  ASSUME AlertTypes, NEW k \in Alerts!Keys, Alerts!Raise(k)
  PROVE  /\ fired' = [fired EXCEPT ![k] = now]
         /\ \E e \in SUBSET Alerts!Remembered :
              /\ cooldowns' = [j \in Alerts!Keys |-> IF j = k THEN now
                                 ELSE IF j \in e THEN Alerts!Never ELSE cooldowns[j]]
              /\ e # {} => /\ Cardinality(Alerts!Remembered) >= maxCooldowns
                           /\ e \in Alerts!Oldest(EvictCount)
<1>0. PICK e \in IF Cardinality(Alerts!Remembered) >= maxCooldowns
                  THEN Alerts!Oldest(EvictCount) ELSE {{}} :
             cooldowns' = [j \in Alerts!Keys |-> IF j = k THEN now
                             ELSE IF j \in e THEN Alerts!Never ELSE cooldowns[j]]
  BY SameCardinality, Zenon DEF Alerts!Raise
<1>1. CASE Cardinality(Alerts!Remembered) >= maxCooldowns
  <2>1. e \in Alerts!Oldest(EvictCount)
    BY <1>0, <1>1
  <2>2. e \in SUBSET Alerts!Remembered
    BY <2>1 DEF Alerts!Oldest
  <2> QED BY <1>0, <1>1, <2>1, <2>2 DEF Alerts!Raise
<1>2. CASE ~(Cardinality(Alerts!Remembered) >= maxCooldowns)
  <2>1. e = {}
    BY <1>0, <1>2
  <2> QED BY <1>0, <2>1 DEF Alerts!Raise
<1> QED BY <1>1, <1>2

(* Raising keeps the types and what the engine remembers true. *)
LEMMA RaiseRemembers ==
  ASSUME AlertTypes, Remembers, NEW k \in Alerts!Keys, Alerts!Raise(k), now' = now
  PROVE  /\ cooldowns' \in [Alerts!Keys -> Nat \cup {Alerts!Never}]
         /\ fired' \in [Alerts!Keys -> Nat \cup {Alerts!Never}]
         /\ Remembers'
<1>1. PICK e \in SUBSET Alerts!Remembered :
             cooldowns' = [j \in Alerts!Keys |-> IF j = k THEN now
                             ELSE IF j \in e THEN Alerts!Never ELSE cooldowns[j]]
  BY RaiseWrites
<1>2. fired' = [fired EXCEPT ![k] = now]
  BY RaiseWrites
<1>3. cooldowns' \in [Alerts!Keys -> Nat \cup {Alerts!Never}]
  BY <1>1 DEF AlertTypes
<1>4. fired' \in [Alerts!Keys -> Nat \cup {Alerts!Never}]
  BY <1>2 DEF AlertTypes
<1>5. ASSUME NEW j \in Alerts!Keys
      PROVE  fired'[j] <= now' /\ (cooldowns'[j] # Alerts!Never => cooldowns'[j] = fired'[j])
  BY <1>1, <1>2 DEF AlertTypes, Remembers
<1> QED BY <1>3, <1>4, <1>5 DEF Remembers

(* The alerts later than one only become more. *)
LEMMA LaterGrows ==
  ASSUME AlertTypes, Remembers, AlertAssumption, NEW k \in Alerts!Keys,
         fired' = [fired EXCEPT ![k] = now],
         NEW x \in Alerts!Keys, x # k, NEW S \in SUBSET Later(x)
  PROVE  Cardinality(Later(x)') >= Cardinality(S)
<1>1. ASSUME NEW j \in S PROVE j \in Later(x)'
  BY <1>1 DEF Later, AlertTypes, Remembers, Alerts!Never
<1>2. IsFiniteSet(Later(x)')
  <2>1. Later(x)' \subseteq Alerts!Keys
    BY DEF Later
  <2> QED BY <2>1, FS_Subset DEF AlertAssumption
<1>3. S \subseteq Later(x)'
  BY <1>1
<1> QED BY <1>2, <1>3, FS_Subset, FS_CardinalityType

(* The alerts kept at an eviction are later than those evicted, and enough. *)
LEMMA KeptAreLater ==
  ASSUME AlertTypes, Remembers, AlertAssumption, Cardinality(Alerts!Remembered) >= maxCooldowns,
         NEW e \in Alerts!Oldest(EvictCount), NEW x \in e
  PROVE  /\ Alerts!Remembered \ e \subseteq Later(x)
         /\ Cardinality(Alerts!Remembered \ e) >= maxCooldowns - EvictCount
<1> DEFINE R == Alerts!Remembered
<1>1. R \subseteq Alerts!Keys /\ e \subseteq R
  BY DEF Alerts!Remembered, Alerts!Oldest
<1>2. IsFiniteSet(R)
  BY <1>1, FS_Subset DEF AlertAssumption
<1>3. \A j \in R \ e : cooldowns[x] <= cooldowns[j]
  BY DEF Alerts!Oldest
<1>4. \A j \in R : cooldowns[j] = fired[j]
  BY DEF Alerts!Remembered, Remembers
<1>5. R \ e \subseteq Later(x)
  <2> SUFFICES ASSUME NEW j \in R \ e PROVE j \in Later(x)
    OBVIOUS
  <2>1. j \in Alerts!Keys \ {x} /\ x \in R /\ j \in R
    BY <1>1
  <2>2. fired[j] \in Int /\ fired[x] \in Int /\ fired[x] <= fired[j]
    BY <2>1, <1>3, <1>4, <1>1 DEF AlertTypes, Alerts!Never
  <2> QED BY <2>1, <2>2 DEF Later
<1>6. Cardinality(R) \in Nat /\ Cardinality(e) \in Nat
  BY <1>1, <1>2, FS_Subset, FS_CardinalityType
<1>7. Cardinality(e) <= EvictCount
  <2>1. Cardinality(e) = IF EvictCount < Cardinality(R) THEN EvictCount ELSE Cardinality(R)
    BY SameCardinality DEF Alerts!Oldest
  <2> QED BY <1>6, <2>1 DEF AlertAssumption
<1>8. Cardinality(R \ e) = Cardinality(R) - Cardinality(e)
  <2>1. R \cap e = e
    BY <1>1
  <2> QED BY <1>2, <2>1, FS_Difference
<1> QED BY <1>5, <1>6, <1>7, <1>8 DEF AlertAssumption

LEMMA RaiseCrowds ==
  ASSUME AlertTypes, Remembers, Crowded, NEW k \in Alerts!Keys, Alerts!Raise(k), now' = now
  PROVE  Crowded'
<1>1. PICK e \in SUBSET Alerts!Remembered :
        /\ cooldowns' = [j \in Alerts!Keys |-> IF j = k THEN now
                           ELSE IF j \in e THEN Alerts!Never ELSE cooldowns[j]]
        /\ e # {} => /\ Cardinality(Alerts!Remembered) >= maxCooldowns
                     /\ e \in Alerts!Oldest(EvictCount)
  BY RaiseWrites
<1>2. fired' = [fired EXCEPT ![k] = now]
  BY RaiseWrites
<1> SUFFICES ASSUME NEW x \in Alerts!Keys, fired'[x] # Alerts!Never, cooldowns'[x] = Alerts!Never
             PROVE  Cardinality(Later(x)') >= maxCooldowns - EvictCount
  <2> \A x \in Alerts!Keys : Cardinality(Later(x))' = Cardinality(Later(x)')
    OBVIOUS
  <2> QED BY DEF Crowded
<1>3. x # k /\ fired[x] # Alerts!Never
  BY <1>1, <1>2 DEF AlertTypes, Alerts!Never
<1>4. \E S \in SUBSET Later(x) : Cardinality(S) >= maxCooldowns - EvictCount
  <2>1. CASE x \in e
    BY <2>1, <1>1, KeptAreLater, AlertAssumption
  <2>2. CASE x \notin e
    <3>1. cooldowns[x] = Alerts!Never
      BY <2>2, <1>1, <1>3
    <3> QED BY <3>1, <1>3 DEF Crowded
  <2> QED BY <2>1, <2>2
<1>5. PICK S \in SUBSET Later(x) : Cardinality(S) >= maxCooldowns - EvictCount
  BY <1>4
<1>6. IsFiniteSet(S) /\ IsFiniteSet(Later(x)')
  <2>1. S \subseteq Alerts!Keys /\ Later(x)' \subseteq Alerts!Keys
    BY DEF Later
  <2> QED BY <2>1, FS_Subset, AlertAssumption DEF AlertAssumption
<1>7. Cardinality(Later(x)') >= Cardinality(S)
  BY <1>2, <1>3, LaterGrows, AlertAssumption
<1>8. Cardinality(S) \in Nat /\ Cardinality(Later(x)') \in Nat
  BY <1>6, FS_CardinalityType
<1> QED BY <1>5, <1>7, <1>8, AlertAssumption DEF AlertAssumption

LEMMA AlertInit == Alerts!Init => AlertInv
  BY DEF Alerts!Init, AlertInv, AlertTypes, Remembers, Attended, Crowded, Alerts!Never

LEMMA AlertStep == AlertInv /\ [Alerts!Next]_(Alerts!vars) => AlertInv'
<1> SUFFICES ASSUME AlertInv, [Alerts!Next]_(Alerts!vars) PROVE AlertInv'
  OBVIOUS
<1> USE DEF AlertInv
<1>1. ASSUME NEW level \in 0 .. 3, NEW conditions \in SUBSET Alerts!Keys,
             Alerts!Analyse(level, conditions)
      PROVE  AlertInv'
  <2>1. PICK gap \in 1 .. MaxGap : now' = now + gap
    BY <1>1 DEF Alerts!Analyse
  <2>2. UNCHANGED <<cooldowns, fired>> /\ due' = conditions /\ held' = conditions
    BY <1>1 DEF Alerts!Analyse
  <2>3. cooldownPeriod' \in 1 .. 6
    BY <1>1 DEF Alerts!Analyse, Alerts!PeriodOf
  <2>4. AlertTypes'
    BY <2>1, <2>2, <2>3 DEF AlertTypes
  <2>5. Remembers'
    BY <2>1, <2>2 DEF Remembers, AlertTypes, Alerts!Never
  <2>6. Attended'
    BY <2>2 DEF Attended
  <2>7. Crowded'
    BY <2>2 DEF Crowded, Later
  <2> QED BY <2>4, <2>5, <2>6, <2>7
<1>2. ASSUME NEW k \in due, Alerts!Evaluate(k) PROVE AlertInv'
  <2>1. UNCHANGED <<now, cooldownPeriod, held>> /\ due' = due \ {k} /\ k \in Alerts!Keys
    BY <1>2 DEF Alerts!Evaluate, AlertTypes
  <2>2. CASE Alerts!Raise(k)
    <3>1. /\ cooldowns' \in [Alerts!Keys -> Nat \cup {Alerts!Never}]
          /\ fired' \in [Alerts!Keys -> Nat \cup {Alerts!Never}]
          /\ Remembers'
      BY <2>1, <2>2, RaiseRemembers
    <3>2. AlertTypes'
      BY <2>1, <3>1 DEF AlertTypes
    <3>3. fired' = [fired EXCEPT ![k] = now]
      BY <2>2 DEF Alerts!Raise
    <3>4. Attended'
      BY <2>1, <3>3 DEF Attended, AlertTypes, Alerts!Never
    <3>5. Crowded'
      BY <2>1, <2>2, RaiseCrowds
    <3> QED BY <3>1, <3>2, <3>4, <3>5
  <2>3. CASE Alerts!Silent(k) /\ UNCHANGED <<cooldowns, fired>>
    <3>1. AlertTypes' /\ Remembers'
      BY <2>1, <2>3 DEF AlertTypes, Remembers
    <3>2. Attended'
      BY <2>1, <2>3 DEF Attended, Remembers, Alerts!Silent
    <3>3. Crowded'
      BY <2>3 DEF Crowded, Later
    <3> QED BY <3>1, <3>2, <3>3
  <2> QED BY <1>2, <2>2, <2>3 DEF Alerts!Evaluate
<1>3. CASE UNCHANGED Alerts!vars
  <2>1. UNCHANGED <<now, cooldownPeriod, cooldowns, due, held, fired>>
    BY <1>3 DEF Alerts!vars
  <2> QED BY <2>1 DEF AlertTypes, Remembers, Attended, Crowded, Later
<1> QED BY <1>1, <1>2, <1>3 DEF Alerts!Next

(* The conditions of an analysis that is over have all been raised within  *)
(* the period (engine.go canFire): a rule that stays silent was raised     *)
(* when the engine remembers, and what it forgot it raises again.          *)
THEOREM OperatorIsTold == Alerts!Spec => []OperatorTold
<1>1. AlertInv => OperatorTold
  BY DEF AlertInv, Attended, OperatorTold, Alerts!Reminded
<1> QED BY AlertInit, AlertStep, <1>1, PTL DEF Alerts!Spec

(* An alert is raised again within its period only when maxCooldowns -     *)
(* EvictCount others are as recent (engine.go evictOldest): the engine     *)
(* forgets only the oldest, so an alert it no longer remembers has at      *)
(* least as many later ones.                                               *)
THEOREM QuietUnlessForgotten == Alerts!Spec => QuietUnlessCrowded
<1>1. AlertInv /\ [Alerts!Next]_(Alerts!vars) => [Alerts!QuietStep]_(Alerts!vars)
  <2> SUFFICES ASSUME AlertInv, Alerts!Next, NEW x \in Alerts!Keys,
                      fired[x] # Alerts!Never, fired'[x] # fired[x],
                      fired'[x] - fired[x] < cooldownPeriod
               PROVE  Cardinality({j \in Alerts!Keys \ {x} : fired[j] >= fired[x]})
                        >= maxCooldowns - EvictCount
    <3>1. Alerts!QuietStep => [Alerts!QuietStep]_(Alerts!vars)
      OBVIOUS
    <3>2. CASE UNCHANGED Alerts!vars
      BY <3>2
    <3> QED BY <3>1, <3>2, SameCardinality DEF Alerts!QuietStep
  <2>1. PICK k \in due : Alerts!Evaluate(k)
    BY DEF Alerts!Next, Alerts!Analyse
  <2>2. Alerts!Raise(k) /\ k \in Alerts!Keys
    BY <2>1 DEF Alerts!Evaluate, AlertInv, AlertTypes
  <2>3. fired' = [fired EXCEPT ![k] = now]
    BY <2>2 DEF Alerts!Raise
  <2>4. x = k /\ fired'[x] = now
    BY <2>2, <2>3 DEF AlertInv, AlertTypes
  <2>5. cooldowns[x] = Alerts!Never
    BY <2>2, <2>4 DEF Alerts!Raise, Alerts!Silent, AlertInv, Remembers
  <2> QED BY <2>5 DEF AlertInv, Crowded, Later
<1> QED BY AlertInit, AlertStep, <1>1, PTL DEF Alerts!Spec, QuietUnlessCrowded

-------------------------------------------------------------------------------
(* The rate limiter *)

LimitTypes ==
  /\ clock \in 0 .. MaxClock
  /\ requested \in [InFlight -> [client : Clients \cup {"none"}, stamp : Nat]]
  /\ buckets \in [Clients -> [tokens : Int, lastSeen : Int]]
  /\ passed \in [Limits!Windows -> Nat]

(* A request that waits for the lock was stamped MaxDelay ago at most. *)
DelayInv ==
  \A r \in InFlight : requested[r] # Limits!NoRequest =>
    /\ requested[r].client \in Clients
    /\ requested[r].stamp <= clock /\ clock - requested[r].stamp <= MaxDelay

(* A bucket that has gone back in time to a late stamp owes no more than   *)
(* what was refilled until the latest stamp it has seen.                   *)
Owes(tokens, lastSeen) ==
  \E latest \in 0 .. clock :
    /\ lastSeen <= latest /\ latest <= lastSeen + MaxDelay
    /\ tokens + refillRate * (latest - lastSeen) >= 0

(* What passed in a window and what is left in the bucket were there or    *)
(* refilled since the window began; and when a bucket has been dropped,    *)
(* enough time has passed for a full one.                                  *)
BucketInv ==
  LET b == buckets[Watched] IN
  IF b = Limits!NoBucket
  THEN \A w \in Limits!Windows : passed[w] > 0 =>
         passed[w] <= refillRate * (clock - MaxDelay - w[1])
  ELSE /\ b.lastSeen \in 0 .. clock /\ b.tokens <= bucketSize
       /\ Owes(b.tokens, b.lastSeen)
       /\ \A w \in Limits!Windows : passed[w] > 0 =>
            passed[w] + b.tokens <= bucketSize + refillRate * (b.lastSeen - w[1])

LimitInv == LimitTypes /\ DelayInv /\ BucketInv /\ Limits!WindowBound

LEMMA Refill ==
  ASSUME NEW x \in Int, NEW y \in Int
  PROVE  /\ refillRate * x \in Int
         /\ refillRate * (x - y) = refillRate * x - refillRate * y
         /\ refillRate * (x + y) = refillRate * x + refillRate * y
         /\ x <= y => refillRate * x <= refillRate * y
<1>1. refillRate \in Nat
  BY LimitAssumption
<1>2. refillRate * x \in Int /\ refillRate * y \in Int
  BY <1>1
<1>3. refillRate * (x - y) = refillRate * x - refillRate * y
  BY <1>1
<1>4. refillRate * (x + y) = refillRate * x + refillRate * y
  BY <1>1
<1>5. ASSUME x <= y PROVE refillRate * x <= refillRate * y
  <2>1. y - x \in Nat
    BY <1>5
  <2>2. refillRate * (y - x) \in Nat
    BY <1>1, <2>1
  <2>3. refillRate * (y - x) = refillRate * y - refillRate * x
    BY <1>1
  <2> QED BY <1>2, <2>2, <2>3
<1> QED BY <1>2, <1>3, <1>4, <1>5

(* A bucket that a sweep drops would be full again for every request to come. *)
LEMMA DroppedIsFull ==
  ASSUME NEW T \in Int, NEW L \in Int, NEW at \in Int, NEW now1 \in Int, NEW n \in Int,
         NEW end \in Int, NEW latest \in Int,
         now1 - L > idleTimeout, now1 <= end,
         latest <= L + MaxDelay, T + refillRate * (latest - L) >= 0,
         n + T <= bucketSize + refillRate * (L - at)
  PROVE  n <= refillRate * (end - MaxDelay - at)
<1>0. bucketSize \in Nat /\ refillRate \in Nat /\ idleTimeout \in Nat /\ MaxDelay \in Nat
      /\ bucketSize <= refillRate * (idleTimeout + 1 - 2 * MaxDelay)
  BY LimitAssumption
<1>1. DEFINE A == refillRate * (latest - L)
             B == refillRate * (L - at)
             C == refillRate * (idleTimeout + 1 - 2 * MaxDelay)
             D == refillRate * (latest - at)
             E == refillRate * (latest - at + (idleTimeout + 1 - 2 * MaxDelay))
             F == refillRate * (end - MaxDelay - at)
<1>2. latest - L \in Int /\ L - at \in Int /\ idleTimeout + 1 - 2 * MaxDelay \in Int
      /\ latest - at \in Int /\ end - MaxDelay - at \in Int
      /\ latest - at = (latest - L) + (L - at)
      /\ latest - at + (idleTimeout + 1 - 2 * MaxDelay) \in Int
      /\ latest - at + (idleTimeout + 1 - 2 * MaxDelay) <= end - MaxDelay - at
  BY <1>0
<1>3. A \in Int /\ B \in Int /\ C \in Int
  BY <1>2, Refill
<1>4. D = A + B
  BY <1>2, Refill
<1>5. E = D + C
  BY <1>2, Refill
<1>6. E <= F /\ F \in Int /\ E \in Int
  BY <1>2, Refill
<1>7. T + A >= 0 /\ n + T <= bucketSize + B /\ bucketSize <= C
  BY <1>0
<1> HIDE DEF A, B, C, D, E, F
<1>8. n <= F
  BY <1>0, <1>3, <1>4, <1>5, <1>6, <1>7
<1> QED BY <1>8 DEF F

LEMMA ArriveStep ==
  ASSUME LimitInv, NEW r \in InFlight, NEW c \in Clients, Limits!Arrive(r, c)
  PROVE  LimitInv'
<1> USE LimitAssumption
<1>1. /\ requested' = [requested EXCEPT ![r] = [client |-> c, stamp |-> clock]]
      /\ UNCHANGED <<clock, buckets, lastCleanup, passed>>
  BY DEF Limits!Arrive
<1>2. LimitTypes'
  BY <1>1 DEF LimitInv, LimitTypes
<1>3. DelayInv'
  <2> SUFFICES ASSUME NEW q \in InFlight, requested'[q] # Limits!NoRequest
               PROVE  /\ requested'[q].client \in Clients
                      /\ requested'[q].stamp <= clock /\ clock - requested'[q].stamp <= MaxDelay
    BY <1>1 DEF DelayInv
  <2>1. CASE q = r
    <3>1. requested'[q] = [client |-> c, stamp |-> clock]
      BY <1>1, <2>1 DEF LimitInv, LimitTypes
    <3> QED BY <3>1 DEF LimitInv, LimitTypes
  <2>2. CASE q # r
    <3>1. requested'[q] = requested[q]
      BY <1>1, <2>2 DEF LimitInv, LimitTypes
    <3> QED BY <3>1 DEF LimitInv, DelayInv
  <2> QED BY <2>1, <2>2
<1>4. BucketInv'
  BY <1>1 DEF LimitInv, BucketInv, Owes
<1>5. Limits!WindowBound'
  BY <1>1 DEF LimitInv, Limits!WindowBound
<1> QED BY <1>2, <1>3, <1>4, <1>5 DEF LimitInv

LEMMA AdvanceStep ==
  ASSUME LimitInv, Limits!Advance
  PROVE  LimitInv'
<1> USE LimitAssumption
<1>1. /\ clock' = clock + 1 /\ clock < MaxClock
      /\ \A r \in InFlight : requested[r] # Limits!NoRequest => clock - requested[r].stamp < MaxDelay
      /\ UNCHANGED <<requested, buckets, lastCleanup, passed>>
  BY DEF Limits!Advance
<1>0. clock \in 0 .. MaxClock /\ LimitTypes
  BY DEF LimitInv, LimitTypes
<1>2. LimitTypes'
  BY <1>0, <1>1 DEF LimitTypes
<1>3. DelayInv'
  <2> SUFFICES ASSUME NEW q \in InFlight, requested[q] # Limits!NoRequest
               PROVE  /\ requested[q].client \in Clients
                      /\ requested[q].stamp <= clock + 1 /\ clock + 1 - requested[q].stamp <= MaxDelay
    <3>1. requested' = requested /\ clock' = clock + 1
      BY <1>1
    <3>2. \A q \in InFlight : requested[q].stamp \in Nat
      BY <1>0 DEF LimitTypes
    <3> QED BY <1>0, <3>1, <3>2 DEF DelayInv
  <2>1. requested[q].stamp \in Nat
    BY <1>0 DEF LimitTypes
  <2> QED BY <1>0, <1>1, <2>1 DEF LimitInv, DelayInv
<1>4. BucketInv'
  <2>1. CASE buckets[Watched] = Limits!NoBucket
    <3>1. ASSUME NEW w \in Limits!Windows, passed[w] > 0
          PROVE  passed[w] <= refillRate * (clock' - MaxDelay - w[1])
      <4>1. w[1] \in Int /\ passed[w] \in Nat
        BY <1>0 DEF LimitTypes, Limits!Windows
      <4>2. passed[w] <= refillRate * (clock - MaxDelay - w[1])
        BY <2>1, <3>1 DEF LimitInv, BucketInv
      <4>3. clock - MaxDelay - w[1] \in Int /\ clock' - MaxDelay - w[1] \in Int
            /\ clock - MaxDelay - w[1] <= clock' - MaxDelay - w[1]
        BY <1>0, <1>1, <4>1
      <4>4. refillRate * (clock - MaxDelay - w[1]) <= refillRate * (clock' - MaxDelay - w[1])
            /\ refillRate * (clock - MaxDelay - w[1]) \in Int
            /\ refillRate * (clock' - MaxDelay - w[1]) \in Int
        BY <4>3, Refill
      <4> QED BY <4>1, <4>2, <4>4
    <3>2. clock' = clock + 1 /\ buckets' = buckets /\ passed' = passed
      BY <1>1
    <3>3. Limits!Windows' = Limits!Windows /\ Limits!NoBucket' = Limits!NoBucket
      BY DEF Limits!Windows, Limits!NoBucket
    <3>4. buckets'[Watched] = Limits!NoBucket
      BY <2>1, <3>2
    <3>5. \A w \in Limits!Windows : passed'[w] > 0 => passed'[w] <= refillRate * (clock' - MaxDelay - w[1])
      BY <3>1, <3>2
    <3> QED BY <3>3, <3>4, <3>5 DEF BucketInv
  <2>2. CASE buckets[Watched] # Limits!NoBucket
    <3> DEFINE b == buckets[Watched]
    <3>1. /\ b.lastSeen \in 0 .. clock /\ b.tokens <= bucketSize
          /\ Owes(b.tokens, b.lastSeen)
          /\ \A w \in Limits!Windows : passed[w] > 0 =>
               passed[w] + b.tokens <= bucketSize + refillRate * (b.lastSeen - w[1])
      BY <2>2 DEF LimitInv, BucketInv
    <3> HIDE DEF b
    <3>2. \E latest \in 0 .. clock + 1 :
            /\ b.lastSeen <= latest /\ latest <= b.lastSeen + MaxDelay
            /\ b.tokens + refillRate * (latest - b.lastSeen) >= 0
      <4>1. \A x \in 0 .. clock : x \in 0 .. clock + 1
        BY <1>0
      <4> QED BY <3>1, <4>1 DEF Owes
    <3>3. b.lastSeen \in 0 .. clock + 1
      BY <1>0, <3>1
    <3>4. buckets'[Watched] = b /\ b # Limits!NoBucket
      BY <1>1, <2>2 DEF b
    <3> QED BY <1>1, <3>1, <3>2, <3>3, <3>4 DEF BucketInv, Owes
  <2> QED BY <2>1, <2>2
<1>5. Limits!WindowBound'
  BY <1>1 DEF LimitInv, Limits!WindowBound
<1> QED BY <1>2, <1>3, <1>4, <1>5 DEF LimitInv

LEMMA StillCovered ==
  ASSUME NEW T \in Int, NEW L \in Int, NEW now1 \in Int, NEW at \in Int,
         NEW tk \in Int, NEW n \in Nat, tk <= T + refillRate * (now1 - L),
         n + T <= bucketSize + refillRate * (L - at)
  PROVE  n + tk <= bucketSize + refillRate * (now1 - at)
<1> DEFINE A == refillRate * (now1 - L)
           B == refillRate * (L - at)
           C == refillRate * (now1 - at)
<1>1. now1 - L \in Int /\ L - at \in Int /\ now1 - at = (now1 - L) + (L - at)
  OBVIOUS
<1>2. A \in Int /\ B \in Int /\ C = A + B
  BY <1>1, Refill
<1>3. bucketSize \in Nat
  BY LimitAssumption
<1>4. tk <= T + A /\ n + T <= bucketSize + B
  OBVIOUS
<1> HIDE DEF A, B, C
<1>5. n + tk <= bucketSize + C
  BY <1>2, <1>3, <1>4
<1> QED BY <1>5 DEF C

LEMMA AllowStep ==
  ASSUME LimitInv, NEW r \in InFlight, Limits!Allow(r)
  PROVE  LimitInv'
<1> DEFINE c == requested[r].client
           now1 == requested[r].stamp
           b0 == Limits!Found(c, now1)
           tk == Limits!Refilled(b0, now1)
           left == IF tk < 1 THEN tk ELSE tk - 1
           nb == [tokens |-> left, lastSeen |-> now1]
           after == [buckets EXCEPT ![c] = nb]
<1>0. /\ LimitTypes /\ DelayInv /\ BucketInv /\ Limits!WindowBound
      /\ bucketSize \in Nat \ {0} /\ refillRate \in Nat /\ idleTimeout \in Nat /\ MaxDelay \in Nat
      /\ MaxClock \in Nat /\ Watched \in Clients
  BY LimitAssumption DEF LimitInv
<1>1. /\ requested[r] # Limits!NoRequest
      /\ buckets' = Limits!gcIfNeeded(after, now1)
      /\ requested' = [requested EXCEPT ![r] = Limits!NoRequest]
      /\ passed' = IF tk < 1 \/ c # Watched THEN passed
                   ELSE [w \in Limits!Windows |-> IF w[1] <= now1 /\ now1 <= w[2] THEN passed[w] + 1
                                                  ELSE passed[w]]
      /\ clock' = clock
  BY DEF Limits!Allow
<1>2. /\ c \in Clients /\ now1 \in Nat /\ now1 <= clock /\ clock - now1 <= MaxDelay
      /\ clock \in 0 .. MaxClock
  BY <1>0, <1>1 DEF LimitTypes, DelayInv
<1>3. /\ b0 = IF buckets[c] = Limits!NoBucket THEN [tokens |-> bucketSize, lastSeen |-> now1] ELSE buckets[c]
      /\ b0.tokens \in Int /\ b0.lastSeen \in Int
  BY <1>0, <1>2 DEF Limits!Found, LimitTypes
<1> HIDE DEF c, now1, b0
<1>4. /\ tk \in Int /\ tk <= bucketSize
      /\ tk = bucketSize \/ tk = b0.tokens + refillRate * (now1 - b0.lastSeen)
      /\ tk <= b0.tokens + refillRate * (now1 - b0.lastSeen)
  <2> DEFINE x == b0.tokens + refillRate * (now1 - b0.lastSeen)
  <2>1. x \in Int
    BY <1>0, <1>2, <1>3
  <2>2. x = b0.tokens + (now1 - b0.lastSeen) * refillRate
    BY <1>0, <1>2, <1>3
  <2>3. tk = IF x > bucketSize THEN bucketSize ELSE x
    BY <2>2 DEF Limits!Refilled
  <2> HIDE DEF x, tk
  <2>4. tk \in Int /\ tk <= bucketSize /\ (tk = bucketSize \/ tk = x) /\ tk <= x
    BY <1>0, <2>1, <2>3
  <2> QED BY <2>4 DEF x
<1> HIDE DEF tk
<1>5. /\ left \in Int /\ left <= bucketSize
      /\ left = IF tk < 1 THEN tk ELSE tk - 1
  BY <1>0, <1>4
<1> HIDE DEF left
<1>6. /\ nb \in [tokens : Int, lastSeen : Int] /\ nb.tokens = left /\ nb.lastSeen = now1
      /\ nb # Limits!NoBucket
  BY <1>2, <1>5 DEF Limits!NoBucket
<1> HIDE DEF nb
<1>7. /\ after \in [Clients -> [tokens : Int, lastSeen : Int]]
      /\ after[c] = nb /\ \A x \in Clients \ {c} : after[x] = buckets[x]
  BY <1>0, <1>2, <1>6 DEF LimitTypes
<1> HIDE DEF after
<1>8. \A x \in Clients :
        \/ buckets'[x] = after[x]
        \/ now1 - after[x].lastSeen > idleTimeout /\ buckets'[x] = Limits!NoBucket
  BY <1>1 DEF Limits!gcIfNeeded
<1>9. buckets' \in [Clients -> [tokens : Int, lastSeen : Int]]
  <2>1. Limits!NoBucket \in [tokens : Int, lastSeen : Int]
    BY DEF Limits!NoBucket
  <2>2. CASE buckets' = after
    BY <1>7, <2>2
  <2>3. CASE buckets' = [x \in Clients |-> IF now1 - after[x].lastSeen > idleTimeout
                                           THEN Limits!NoBucket ELSE after[x]]
    BY <1>7, <2>1, <2>3
  <2> QED BY <1>1, <2>2, <2>3 DEF Limits!gcIfNeeded
<1>w. \A w \in Limits!Windows : w[1] \in 0 .. MaxClock /\ w[2] \in 0 .. MaxClock /\ w[1] <= w[2]
  BY DEF Limits!Windows
<1>p. passed \in [Limits!Windows -> Nat]
  BY <1>0 DEF LimitTypes
<1>10. LimitTypes'
  <2>1. passed' \in [Limits!Windows -> Nat]
    BY <1>1, <1>p
  <2>2. requested' \in [InFlight -> [client : Clients \cup {"none"}, stamp : Nat]]
    <3>1. Limits!NoRequest \in [client : Clients \cup {"none"}, stamp : Nat]
      BY DEF Limits!NoRequest
    <3>2. requested \in [InFlight -> [client : Clients \cup {"none"}, stamp : Nat]]
      BY <1>0 DEF LimitTypes
    <3> QED BY <1>1, <3>1, <3>2
  <2>3. Limits!Windows' = Limits!Windows
    BY DEF Limits!Windows
  <2> QED BY <1>1, <1>2, <1>9, <2>1, <2>2, <2>3 DEF LimitTypes
<1>11. DelayInv'
  <2> SUFFICES ASSUME NEW q \in InFlight, requested'[q] # Limits!NoRequest
               PROVE  /\ requested'[q].client \in Clients
                      /\ requested'[q].stamp <= clock /\ clock - requested'[q].stamp <= MaxDelay
    BY <1>1 DEF DelayInv, Limits!NoRequest
  <2>1. q # r /\ requested'[q] = requested[q]
    BY <1>0, <1>1 DEF LimitTypes
  <2> QED BY <1>0, <2>1 DEF DelayInv
<1>12. CASE c # Watched
  <2>1. passed' = passed /\ after[Watched] = buckets[Watched]
    BY <1>0, <1>1, <1>7, <1>12
  <2>2. CASE buckets'[Watched] = buckets[Watched]
    <3>1. BucketInv'
      BY <1>0, <1>1, <2>1, <2>2 DEF BucketInv, Owes, Limits!NoBucket, Limits!Windows
    <3>2. Limits!WindowBound'
      BY <1>0, <2>1 DEF Limits!WindowBound, Limits!Windows
    <3> QED BY <1>10, <1>11, <3>1, <3>2 DEF LimitInv
  <2>3. CASE /\ now1 - buckets[Watched].lastSeen > idleTimeout /\ buckets[Watched] # Limits!NoBucket
             /\ buckets'[Watched] = Limits!NoBucket
    <3> DEFINE T == buckets[Watched].tokens
               L == buckets[Watched].lastSeen
    <3>1. /\ T \in Int /\ L \in 0 .. clock /\ Owes(T, L)
          /\ \A w \in Limits!Windows : passed[w] > 0 => passed[w] + T <= bucketSize + refillRate * (L - w[1])
      BY <1>0, <2>3 DEF BucketInv, LimitTypes
    <3>t. now1 - L > idleTimeout
      BY <2>3
    <3> HIDE DEF T, L
    <3>2. PICK latest \in 0 .. clock : /\ L <= latest /\ latest <= L + MaxDelay
                                       /\ T + refillRate * (latest - L) >= 0
      BY <3>1 DEF Owes
    <3>3. ASSUME NEW w \in Limits!Windows, passed[w] > 0
          PROVE  passed[w] <= refillRate * (clock - MaxDelay - w[1])
      <4>1. /\ L \in Int /\ w[1] \in Int /\ now1 \in Int /\ passed[w] \in Int /\ clock \in Int
            /\ latest \in Int
        BY <1>2, <1>p, <1>w, <3>1
      <4>2. passed[w] + T <= bucketSize + refillRate * (L - w[1])
        BY <3>1, <3>3
      <4> QED BY <1>2, <3>1, <3>2, <3>t, <4>1, <4>2, DroppedIsFull
    <3>4. BucketInv'
      <4>1. Limits!Windows' = Limits!Windows /\ Limits!NoBucket' = Limits!NoBucket
        BY DEF Limits!Windows, Limits!NoBucket
      <4> QED BY <1>1, <2>1, <2>3, <3>3, <4>1 DEF BucketInv
    <3>5. Limits!WindowBound'
      BY <1>0, <2>1 DEF Limits!WindowBound, Limits!Windows
    <3> QED BY <1>10, <1>11, <3>4, <3>5 DEF LimitInv
  <2> QED BY <1>0, <1>8, <2>1, <2>2, <2>3
<1>13. CASE c = Watched
  <2> DEFINE T == b0.tokens
             L == b0.lastSeen
  <2>t. /\ T \in Int /\ L \in Int /\ T <= bucketSize
        /\ tk = bucketSize \/ tk = T + refillRate * (now1 - L)
        /\ tk <= T + refillRate * (now1 - L)
    <3>1. T <= bucketSize
      BY <1>0, <1>3, <1>13 DEF BucketInv
    <3> QED BY <1>3, <1>4, <3>1
  <2>1. buckets'[Watched] = nb
    <3>1. ~(now1 - nb.lastSeen > idleTimeout)
      BY <1>0, <1>2, <1>6
    <3> QED BY <1>2, <1>7, <1>8, <1>13, <3>1
  <2>2. \E latest \in 0 .. clock : /\ L <= latest /\ latest <= L + MaxDelay
                                   /\ T + refillRate * (latest - L) >= 0
    <3>1. CASE buckets[c] = Limits!NoBucket
      <4>1. T = bucketSize /\ L = now1 /\ now1 \in 0 .. clock /\ now1 - now1 = 0 /\ now1 <= now1 + MaxDelay
        BY <1>0, <1>2, <1>3, <3>1
      <4>2. refillRate * 0 = 0
        BY <1>0
      <4>3. T + refillRate * (now1 - L) >= 0
        BY <1>0, <4>1, <4>2
      <4> HIDE DEF T, L
      <4> QED BY <4>1, <4>3
    <3>2. CASE buckets[c] # Limits!NoBucket
      <4>1. Owes(T, L)
        BY <1>0, <1>3, <1>13, <3>2 DEF BucketInv
      <4> HIDE DEF T, L
      <4> QED BY <4>1 DEF Owes
    <3> QED BY <3>1, <3>2
  <2>3. ASSUME NEW w \in Limits!Windows, passed[w] > 0
        PROVE  passed[w] + T <= bucketSize + refillRate * (L - w[1])
    <3>1. CASE buckets[c] = Limits!NoBucket
      <4>1. T = bucketSize /\ L = now1
        BY <1>3, <3>1
      <4>2. passed[w] <= refillRate * (clock - MaxDelay - w[1])
        BY <1>0, <1>13, <2>3, <3>1 DEF BucketInv
      <4> HIDE DEF T, L
      <4>3. /\ clock - MaxDelay - w[1] \in Int /\ now1 - w[1] \in Int
            /\ clock - MaxDelay - w[1] <= now1 - w[1]
        BY <1>0, <1>2, <1>w
      <4>4. /\ refillRate * (clock - MaxDelay - w[1]) <= refillRate * (now1 - w[1])
            /\ refillRate * (clock - MaxDelay - w[1]) \in Int /\ refillRate * (now1 - w[1]) \in Int
        BY <4>3, Refill
      <4>5. passed[w] \in Nat
        BY <1>p
      <4>6. passed[w] + bucketSize <= bucketSize + refillRate * (now1 - w[1])
        BY <1>0, <4>2, <4>4, <4>5
      <4> QED BY <4>1, <4>6
    <3>2. CASE buckets[c] # Limits!NoBucket
      BY <1>0, <1>3, <1>13, <2>3, <3>2 DEF BucketInv
    <3> QED BY <3>1, <3>2
  <2> HIDE DEF T, L
  <2>4. Owes(left, now1)
    <3>1. PICK latest \in 0 .. clock : /\ L <= latest /\ latest <= L + MaxDelay
                                       /\ T + refillRate * (latest - L) >= 0
      BY <2>2
    <3>2. latest \in Int /\ clock \in Int /\ now1 \in Int /\ latest <= clock
      BY <1>2
    <3>3. \E m \in Int : /\ m = now1 \/ m = latest
                         /\ now1 <= m /\ m <= clock /\ m <= now1 + MaxDelay
                         /\ left + refillRate * (m - now1) >= 0
      <4>a. /\ T \in Int /\ L \in Int /\ tk \in Int /\ left \in Int
            /\ now1 <= clock /\ clock - now1 <= MaxDelay
        BY <1>2, <1>4, <1>5, <2>t
      <4>b. /\ tk <= bucketSize /\ tk <= T + refillRate * (now1 - L)
            /\ tk = bucketSize \/ tk = T + refillRate * (now1 - L)
            /\ left = IF tk < 1 THEN tk ELSE tk - 1
        BY <1>4, <1>5, <2>t
      <4> USE <3>1, <3>2, <4>a, <4>b
      <4>0. bucketSize \in Nat \ {0} /\ refillRate \in Nat /\ MaxDelay \in Nat
        BY LimitAssumption
      <4> DEFINE A == refillRate * (latest - L)
                 B == refillRate * (now1 - L)
                 C == refillRate * (latest - now1)
      <4>1. latest - L \in Int /\ now1 - L \in Int /\ latest - now1 \in Int
            /\ latest - L = (latest - now1) + (now1 - L)
        OBVIOUS
      <4>2. A \in Int /\ B \in Int /\ C \in Int /\ A = C + B
        BY <4>1, Refill
      <4>3. refillRate * (now1 - now1) = 0
        BY <4>0
      <4>4. CASE latest <= now1
        <5>1. A <= B
          <6>1. latest - L <= now1 - L
            BY <4>4
          <6> QED BY <4>1, <6>1, Refill
        <5> HIDE DEF A, B, C
        <5>2. T + A >= 0 /\ (tk = bucketSize \/ tk = T + B)
          BY DEF A, B
        <5>3. left >= 0
          BY <4>0, <4>2, <5>1, <5>2
        <5>4. left + refillRate * (now1 - now1) >= 0
          BY <4>3, <5>3
        <5>5. now1 <= now1 + MaxDelay
          BY <4>0
        <5> QED BY <5>4, <5>5
      <4>5. CASE now1 < latest
        <5>0. C >= 0
          <6>1. 0 <= latest - now1 /\ 0 \in Int
            BY <4>5
          <6>2. refillRate * 0 <= C
            BY <4>1, <6>1, Refill
          <6>3. refillRate * 0 = 0
            BY <4>0
          <6> QED BY <4>2, <6>2, <6>3
        <5> HIDE DEF A, B, C
        <5>2. T + A >= 0 /\ (tk = bucketSize \/ tk = T + B)
          BY DEF A, B
        <5>3. left + C >= 0
          BY <4>0, <4>2, <5>0, <5>2
        <5>4. left + refillRate * (latest - now1) >= 0
          BY <5>3 DEF C
        <5>5. latest <= now1 + MaxDelay
          BY <4>0
        <5> QED BY <4>5, <5>4, <5>5
      <4> QED BY <4>4, <4>5
    <3>4. now1 \in 0 .. clock
      BY <1>2
    <3> QED BY <3>3, <3>4 DEF Owes
  <2>5. ASSUME NEW w \in Limits!Windows, passed'[w] > 0
        PROVE  passed'[w] + left <= bucketSize + refillRate * (now1 - w[1])
    <3>0. w[1] \in Int /\ now1 \in Int /\ passed[w] \in Nat
      BY <1>2, <1>p, <1>w
    <3>i. refillRate * (now1 - w[1]) \in Int
      <4>1. now1 - w[1] \in Int
        BY <3>0
      <4> QED BY <4>1, Refill
    <3>1. CASE passed[w] > 0
      <4>1. passed[w] + tk <= bucketSize + refillRate * (now1 - w[1])
        BY <1>4, <2>t, <2>3, <3>0, <3>1, StillCovered
      <4>2. (passed'[w] = passed[w] /\ left <= tk) \/ (passed'[w] = passed[w] + 1 /\ left = tk - 1)
        BY <1>1, <1>4, <1>5, <1>13, <3>0
      <4> QED BY <1>0, <1>4, <1>5, <3>0, <3>i, <4>1, <4>2
    <3>2. CASE passed[w] = 0
      <4>1. passed'[w] = 1 /\ left = tk - 1 /\ w[1] <= now1
        BY <1>1, <1>4, <1>5, <1>13, <2>5, <3>0, <3>2
      <4>2. 0 <= now1 - w[1] /\ 0 \in Int /\ now1 - w[1] \in Int
        BY <3>0, <4>1
      <4>3. refillRate * 0 <= refillRate * (now1 - w[1]) /\ refillRate * 0 = 0
        BY <1>0, <4>2, Refill
      <4> QED BY <1>0, <1>4, <1>5, <3>i, <4>1, <4>3
    <3> QED BY <3>0, <3>1, <3>2
  <2>6. BucketInv'
    <3>1. Limits!Windows' = Limits!Windows /\ Limits!NoBucket' = Limits!NoBucket
      BY DEF Limits!Windows, Limits!NoBucket
    <3>2. \E latest \in 0 .. clock' :
            /\ now1 <= latest /\ latest <= now1 + MaxDelay /\ left + refillRate * (latest - now1) >= 0
      BY <1>1, <2>4 DEF Owes
    <3>3. now1 \in 0 .. clock'
      BY <1>1, <1>2
    <3> QED BY <1>5, <1>6, <2>1, <2>5, <3>1, <3>2, <3>3 DEF BucketInv, Owes
  <2>7. Limits!WindowBound'
    <3>0. Limits!Windows' = Limits!Windows
      BY DEF Limits!Windows
    <3>1. ASSUME NEW w \in Limits!Windows PROVE passed'[w] <= bucketSize + refillRate * (w[2] - w[1])
      <4>1. CASE passed'[w] = passed[w]
        BY <1>0, <4>1 DEF Limits!WindowBound
      <4>2. CASE passed'[w] # passed[w]
        <5>1. /\ passed'[w] = passed[w] + 1 /\ passed[w] \in Nat /\ now1 <= w[2] /\ left >= 0
          BY <1>1, <1>4, <1>5, <1>p, <4>2
        <5>2. passed'[w] + left <= bucketSize + refillRate * (now1 - w[1])
          BY <2>5, <5>1
        <5>3. now1 - w[1] \in Int /\ w[2] - w[1] \in Int /\ now1 - w[1] <= w[2] - w[1]
          BY <1>2, <1>w, <5>1
        <5>4. /\ refillRate * (now1 - w[1]) <= refillRate * (w[2] - w[1])
              /\ refillRate * (now1 - w[1]) \in Int /\ refillRate * (w[2] - w[1]) \in Int
          BY <5>3, Refill
        <5> QED BY <1>0, <1>5, <5>1, <5>2, <5>4
      <4> QED BY <4>1, <4>2
    <3> QED BY <3>0, <3>1 DEF Limits!WindowBound
  <2> QED BY <1>10, <1>11, <2>6, <2>7 DEF LimitInv
<1> QED BY <1>12, <1>13

(* In no window of time does a client get more requests through than its   *)
(* full bucket and what was refilled meanwhile (security.go Allow), for    *)
(* every size, rate and number of requests that wait for the lock, each    *)
(* for any time up to MaxDelay, and every sweep of the buckets.            *)
THEOREM WindowStaysBounded == Limits!Spec => []WindowBound
<1>1. Limits!Init => LimitInv
  <2> SUFFICES ASSUME Limits!Init PROVE LimitInv
    OBVIOUS
  <2> USE LimitAssumption
  <2>1. /\ clock = 0 /\ requested = [r \in InFlight |-> Limits!NoRequest]
        /\ buckets = [x \in Clients |-> Limits!NoBucket] /\ passed = [w \in Limits!Windows |-> 0]
    BY DEF Limits!Init
  <2>2. /\ Limits!NoRequest \in [client : Clients \cup {"none"}, stamp : Nat]
        /\ Limits!NoBucket \in [tokens : Int, lastSeen : Int]
    BY DEF Limits!NoRequest, Limits!NoBucket
  <2>3. LimitTypes
    BY <2>1, <2>2 DEF LimitTypes
  <2>4. DelayInv
    BY <2>1 DEF DelayInv
  <2>5. BucketInv
    BY <2>1 DEF BucketInv
  <2>6. Limits!WindowBound
    <3>1. ASSUME NEW w \in Limits!Windows PROVE 0 <= bucketSize + refillRate * (w[2] - w[1])
      <4>1. w[2] - w[1] \in Nat
        BY DEF Limits!Windows
      <4>2. refillRate * (w[2] - w[1]) \in Nat
        BY <4>1
      <4> QED BY <4>2
    <3> QED BY <2>1, <3>1 DEF Limits!WindowBound
  <2> QED BY <2>3, <2>4, <2>5, <2>6 DEF LimitInv
<1>2. LimitInv /\ [Limits!Next]_(Limits!vars) => LimitInv'
  <2> SUFFICES ASSUME LimitInv, [Limits!Next]_(Limits!vars) PROVE LimitInv'
    OBVIOUS
  <2>1. CASE Limits!Next
    BY <2>1, ArriveStep, AllowStep, AdvanceStep DEF Limits!Next
  <2>2. CASE UNCHANGED Limits!vars
    <3>1. UNCHANGED <<clock, requested, buckets, lastCleanup, passed>>
      BY <2>2 DEF Limits!vars
    <3>2. LimitTypes' /\ DelayInv'
      BY <3>1 DEF LimitInv, LimitTypes, DelayInv
    <3>3. BucketInv'
      BY <3>1 DEF LimitInv, BucketInv, Owes
    <3>4. Limits!WindowBound'
      BY <3>1 DEF LimitInv, Limits!WindowBound
    <3> QED BY <3>2, <3>3, <3>4 DEF LimitInv
  <2> QED BY <2>1, <2>2
<1>3. LimitInv => WindowBound
  BY DEF LimitInv, WindowBound
<1> QED BY <1>1, <1>2, <1>3, PTL DEF Limits!Spec
===============================================================================
