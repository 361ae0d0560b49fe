---------------------------- MODULE CadenceProofs ----------------------------
(***************************************************************************)
(* Proofs about Cadence, for every interval, stretch factor and threshold: *)
(* the interval stays in its range, the safety level covers the overruns   *)
(* and moves one by one, and a stretched interval contracts strictly.      *)
(***************************************************************************)
EXTENDS Cadence, TLAPS

-------------------------------------------------------------------------------
(* Integer division *)

(* The quotient is the number it is defined to be. *)
LEMMA Euclid ==
  \A a \in Nat, b \in Nat \ {0} :
    a \div b \in Nat /\ b * (a \div b) <= a /\ a < b * (a \div b) + b
OBVIOUS

(* A bound from above on the dividend is one on the quotient. *)
LEMMA DivAtMost ==
  ASSUME NEW a \in Nat, NEW b \in Nat \ {0}, NEW q \in Int, a < b * q + b
  PROVE  a \div b <= q
<1> DEFINE d == a \div b
<1>1. d \in Nat /\ b * d <= a
  BY Euclid
<1>2. ASSUME d >= q + 1 PROVE FALSE
  <2>1. b * d >= b * (q + 1)
    BY <1>1, <1>2
  <2> QED BY <1>1, <2>1
<1> QED BY <1>1, <1>2

(* A bound from below on the dividend is one on the quotient. *)
LEMMA DivAtLeast ==
  ASSUME NEW a \in Nat, NEW b \in Nat \ {0}, NEW q \in Int, b * q <= a
  PROVE  q <= a \div b
<1> DEFINE d == a \div b
<1>1. d \in Nat /\ a < b * d + b
  BY Euclid
<1>2. ASSUME q >= d + 1 PROVE FALSE
  <2>1. b * q >= b * (d + 1)
    BY <1>1, <1>2
  <2> QED BY <1>1, <2>1
<1> QED BY <1>1, <1>2

(* One more overrun reaches at most one more multiple of the threshold. *)
LEMMA DivSuccessor ==
  ASSUME NEW a \in Nat, NEW b \in Nat \ {0}
  PROVE  /\ a \div b <= (a + 1) \div b
         /\ (a + 1) \div b <= a \div b + 1
<1> DEFINE d == a \div b
<1>1. d \in Nat /\ b * d <= a /\ a < b * d + b
  BY Euclid
<1>2. d <= (a + 1) \div b
  BY <1>1, DivAtLeast
<1>3. a + 1 < b * (d + 1) + b
  BY <1>1
<1>4. (a + 1) \div b <= d + 1
  BY <1>1, <1>3, DivAtMost
<1> QED BY <1>2, <1>4

(* A factor above 1 shrinks nothing. *)
LEMMA StretchGrows ==
  ASSUME NEW x \in Nat, NEW num \in Nat \ {0}, NEW den \in Nat \ {0}, num > den
  PROVE  (x * num) \div den \in Nat /\ x <= (x * num) \div den
<1>1. x * num \in Nat /\ den * x <= x * num
  OBVIOUS
<1> QED BY <1>1, Euclid, DivAtLeast

(* A factor below 1 makes a gap strictly smaller, and not negative. *)
LEMMA DecayShrinks ==
  ASSUME NEW gap \in Nat \ {0}, NEW num \in Nat \ {0}, NEW den \in Nat \ {0}, num > den
  PROVE  (gap * den) \div num \in 0 .. gap - 1
<1>1. gap * den \in Nat /\ gap * den < gap * num
  OBVIOUS
<1>2. gap * den < num * (gap - 1) + num
  BY <1>1
<1>3. (gap * den) \div num <= gap - 1
  BY <1>1, <1>2, DivAtMost
<1> QED BY <1>1, <1>3, Euclid

(* The largest of a pair is one of it. *)
LEMMA HighestOfTwo ==
  \A x, y \in Int : Highest({x, y}) = IF x >= y THEN x ELSE y
<1> SUFFICES ASSUME NEW x \in Int, NEW y \in Int
             PROVE  Highest({x, y}) = IF x >= y THEN x ELSE y
  OBVIOUS
<1> DEFINE m == IF x >= y THEN x ELSE y
           P(z) == z \in {x, y} /\ \A u \in {x, y} : u <= z
<1>1. P(m) /\ \A z : P(z) => z = m
  OBVIOUS
<1> QED BY <1>1 DEF Highest

(* The largest of three is one of them. *)
LEMMA HighestOfThree ==
  \A x, y, z \in Int : Highest({x, y, z}) \in {x, y, z}
<1> SUFFICES ASSUME NEW x \in Int, NEW y \in Int, NEW z \in Int
             PROVE  Highest({x, y, z}) \in {x, y, z}
  OBVIOUS
<1>1. \E m \in {x, y, z} : \A u \in {x, y, z} : u <= m
  OBVIOUS
<1> QED BY <1>1 DEF Highest

-------------------------------------------------------------------------------
(* What one tick does to each variable *)

LEMMA TickCases ==
  ASSUME NEW c \in Conditions, Tick(c)
  PROVE  /\ c.strain \in 0 .. 2 /\ c.staleness \in 0 .. 2
         /\ c.overran \in BOOLEAN /\ c.heavy \in BOOLEAN
         /\ CountOverrun(c) /\ (Escalate(c) \/ Deescalate(c))
         /\ StretchReactive \/ StretchProactive(c) \/ Contract(c)
         /\ ComputePressure(c) /\ CountTick(c) /\ OptionalStages(c) /\ Witness(c)
BY DEF Conditions, Tick, adaptInterval

(* The overruns move by one, and stay within the bound of the guard. *)
LEMMA OverrunsMove ==
  ASSUME TypeOK, NEW c \in Conditions, Tick(c)
  PROVE  /\ consecutiveOverruns' \in 0 .. MaxOverruns
         /\ c.overran => consecutiveOverruns' = consecutiveOverruns + 1
         /\ ~c.overran => consecutiveOverruns' =
                            IF consecutiveOverruns > 0 THEN consecutiveOverruns - 1 ELSE 0
BY ThresholdAssumption DEF TypeOK, Tick, CountOverrun

(* The quotient of the overruns by the threshold. *)
Called(n) == AtMost(n \div SafetyModeThreshold, 3)

(* What the overruns call for moves by at most one with them. *)
LEMMA CalledMoves ==
  \A n \in Nat : /\ Called(n) \in 0 .. 3
                 /\ Called(n) <= Called(n + 1)
                 /\ Called(n + 1) <= Called(n) + 1
<1> SUFFICES ASSUME NEW n \in Nat
             PROVE  /\ Called(n) \in 0 .. 3
                    /\ Called(n) <= Called(n + 1)
                    /\ Called(n + 1) <= Called(n) + 1
  OBVIOUS
<1> DEFINE d == n \div SafetyModeThreshold
           e == (n + 1) \div SafetyModeThreshold
<1>1. d \in Nat /\ e \in Nat
  BY ThresholdAssumption, Euclid
<1>2. d <= e /\ e <= d + 1
  BY ThresholdAssumption, DivSuccessor
<1>3. Called(n) = AtMost(d, 3) /\ Called(n + 1) = AtMost(e, 3)
  BY DEF Called
<1> HIDE DEF d, e
<1> QED BY <1>1, <1>2, <1>3 DEF AtMost

(* No overrun calls for nothing. *)
LEMMA CalledByNone == Called(0) = 0
<1>1. 0 \div SafetyModeThreshold = 0
  BY ThresholdAssumption, DivAtMost, Euclid
<1> QED BY <1>1 DEF Called, AtMost

(* The safety level keeps above what the overruns call for, and moves by   *)
(* at most one.                                                            *)
LEMMA LevelMoves ==
  ASSUME TypeOK, LevelCoversOverruns, NEW c \in Conditions, Tick(c)
  PROVE  /\ safetyLevel' \in 0 .. 3
         /\ safetyMode' \in BOOLEAN
         /\ LevelCoversOverruns'
         /\ GradualStep
<1> USE DEF TypeOK
<1> DEFINE n == consecutiveOverruns
<1>1. n \in Nat /\ n' \in Nat
  BY OverrunsMove, ThresholdAssumption
<1>2. safetyLevel >= Called(n) /\ (safetyMode <=> safetyLevel >= 2)
  BY DEF LevelCoversOverruns, Called
<1>3. SUFFICES /\ safetyLevel' \in 0 .. 3
               /\ safetyMode' \in BOOLEAN
               /\ safetyLevel' >= Called(n') /\ (safetyMode' <=> safetyLevel' >= 2)
               /\ safetyLevel' - safetyLevel \in {-1, 0, 1}
  BY DEF LevelCoversOverruns, Called, GradualStep
<1>4. CASE Escalate(c)
  <2>1. n' = n + 1
    BY <1>4, OverrunsMove DEF Escalate
  <2>2. Called(n') \in 0 .. 3 /\ Called(n') <= safetyLevel + 1
    BY <1>1, <1>2, <2>1, CalledMoves
  <2>3. IF Called(n') > safetyLevel
        THEN safetyLevel' = Called(n') /\ safetyMode' = (Called(n') >= 2)
        ELSE safetyLevel' = safetyLevel /\ safetyMode' = safetyMode
    BY <1>4 DEF Escalate, Called
  <2>4. CASE Called(n') > safetyLevel
    <3>1. safetyLevel' = Called(n') /\ safetyMode' = (Called(n') >= 2)
      BY <2>3, <2>4
    <3>2. safetyMode' \in BOOLEAN /\ (safetyMode' <=> safetyLevel' >= 2)
      <4>1. (Called(n') >= 2) \in BOOLEAN
        BY <2>2
      <4>2. safetyMode' \in BOOLEAN
        BY <3>1, <4>1, Zenon
      <4>3. safetyMode' <=> safetyLevel' >= 2
        BY <3>1, Zenon
      <4> QED BY <4>2, <4>3
    <3> QED BY <2>2, <2>4, <3>1, <3>2
  <2>5. CASE ~(Called(n') > safetyLevel)
    <3>1. safetyLevel' = safetyLevel /\ safetyMode' = safetyMode
      BY <2>3, <2>5
    <3> QED BY <1>2, <2>2, <2>5, <3>1
  <2> QED BY <2>4, <2>5
<1>5. CASE Deescalate(c)
  <2>1. n' = IF n > 0 THEN n - 1 ELSE 0
    BY <1>5, OverrunsMove DEF Deescalate
  <2>2. Called(n') \in 0 .. 3 /\ Called(n') <= Called(n)
    <3>1. CASE n > 0
      <4>1. n' \in Nat /\ n = n' + 1
        BY <1>1, <2>1, <3>1
      <4> QED BY <4>1, CalledMoves
    <3>2. CASE n = 0 BY <2>1, <3>2, CalledMoves
    <3> QED BY <1>1, <3>1, <3>2
  <2>3. Called(n') <= safetyLevel /\ Called(n) \in 0 .. 3
    BY <1>1, <1>2, <2>2, CalledMoves
  <2>4. CASE safetyLevel > 0 /\ n' = 0 /\ safetyLevel' = safetyLevel - 1
             /\ safetyMode' = (safetyLevel' >= 2)
    <3>1. safetyMode' \in BOOLEAN /\ (safetyMode' <=> safetyLevel' >= 2)
      <4>1. (safetyLevel' >= 2) \in BOOLEAN
        BY <2>4
      <4>2. safetyMode' \in BOOLEAN
        BY <2>4, <4>1, Zenon
      <4>3. safetyMode' <=> safetyLevel' >= 2
        BY <2>4, Zenon
      <4> QED BY <4>2, <4>3
    <3>2. Called(n') = 0
      BY <2>4, CalledByNone
    <3> QED BY <2>4, <3>1, <3>2
  <2>5. CASE safetyLevel' = safetyLevel /\ safetyMode' = safetyMode
    BY <1>2, <2>3, <2>5
  <2> QED BY <1>5, <2>4, <2>5 DEF Deescalate
<1> QED BY <1>4, <1>5, TickCases

(* The decay of a stretched interval. *)
LEMMA DecayedRange ==
  ASSUME TypeOK, currentInterval > TickInterval
  PROVE  Decayed \in TickInterval .. currentInterval - 1
<1> DEFINE gap == currentInterval - TickInterval
           rest == (gap * StepDen) \div StepNum
<1>1. gap \in Nat \ {0}
  BY IntervalAssumption DEF TypeOK
<1>2. rest \in 0 .. gap - 1
  BY <1>1, StepAssumption, DecayShrinks
<1>3. Decayed = Highest({TickInterval + rest, MinTickInterval})
  BY DEF Decayed
<1> HIDE DEF rest
<1>4. Decayed = TickInterval + rest
  BY <1>2, <1>3, IntervalAssumption, HighestOfTwo
<1> QED BY <1>1, <1>2, <1>4, IntervalAssumption DEF TypeOK

(* A stretched interval. *)
LEMMA StretchedRange ==
  ASSUME TypeOK, NEW num \in Nat \ {0}, NEW den \in Nat \ {0}, num > den
  PROVE  Stretched(num, den) \in currentInterval .. MaxTickInterval
<1> DEFINE longer == (currentInterval * num) \div den
<1>1. currentInterval \in Nat /\ currentInterval <= MaxTickInterval
  BY IntervalAssumption DEF TypeOK
<1>2. longer \in Nat /\ currentInterval <= longer
  BY <1>1, StretchGrows
<1> HIDE DEF longer
<1> QED BY <1>1, <1>2, IntervalAssumption DEF Stretched, AtMost, longer

(* The interval stays in its range, and contracts strictly. *)
LEMMA IntervalMoves ==
  ASSUME TypeOK, NEW c \in Conditions, Tick(c)
  PROVE  /\ currentInterval' \in TickInterval .. MaxTickInterval
         /\ stableTickCount' \in 0 .. 5
         /\ ContractStep
<1>0. consecutiveOverruns' \in Nat
  BY OverrunsMove, ThresholdAssumption
<1>1. CASE StretchReactive
  BY <1>0, <1>1, StretchedRange, StepAssumption, IntervalAssumption
  DEF StretchReactive, TypeOK, ContractStep
<1>2. CASE StretchProactive(c)
  BY <1>0, <1>2, StretchedRange, StepAssumption, IntervalAssumption
  DEF StretchProactive, Proactive, HeavyAtNominal, TypeOK, ContractStep
<1>3. CASE Contract(c)
  <2>1. stableTickCount' \in 0 .. 5
    BY <1>3 DEF Contract, StableAtTick, TypeOK
  <2>2. currentInterval' = IF currentInterval > TickInterval THEN Decayed ELSE currentInterval
    BY <1>3 DEF Contract
  <2> QED BY <2>1, <2>2, DecayedRange, IntervalAssumption DEF TypeOK, ContractStep
<1> QED BY <1>1, <1>2, <1>3, TickCases

-------------------------------------------------------------------------------
(* The invariant *)

IInv == TypeOK /\ LevelCoversOverruns

LEMMA InitIInv == Init => IInv
<1> SUFFICES ASSUME Init PROVE IInv
  OBVIOUS
<1>1. TypeOK
  <2>1. 0 \in 0 .. MaxOverruns /\ TickInterval \in TickInterval .. MaxTickInterval
    BY IntervalAssumption, ThresholdAssumption
  <2>2. safetyMode \in BOOLEAN /\ calm \in BOOLEAN /\ stretchDue \in BOOLEAN
    BY Zenon DEF Init
  <2> QED BY <2>1, <2>2 DEF Init, TypeOK
<1>2. LevelCoversOverruns
  BY CalledByNone DEF Init, LevelCoversOverruns, Called
<1> QED BY <1>1, <1>2 DEF IInv

LEMMA TickKeepsIInv ==
  ASSUME IInv, NEW c \in Conditions, Tick(c)
  PROVE  IInv' /\ GradualStep /\ ContractStep
<1> USE DEF IInv
<1>1. tickCount' \in 0 .. 12
  BY DEF Tick, CountTick, NextTick, TypeOK
<1>2. pressureLevel' \in 0 .. 3
  <2>1. AtMost(consecutiveOverruns, 3) \in 0 .. 3
    BY ThresholdAssumption DEF TypeOK, AtMost
  <2>2. c.strain \in 0 .. 2 /\ c.staleness \in 0 .. 2
        /\ pressureLevel' = Highest({AtMost(consecutiveOverruns, 3), c.strain, c.staleness})
    BY TickCases DEF ComputePressure
  <2>3. pressureLevel' \in {AtMost(consecutiveOverruns, 3), c.strain, c.staleness}
    BY <2>1, <2>2, HighestOfThree
  <2> QED BY <2>1, <2>2, <2>3
<1>3. ran' \subseteq {"sim", "predDiff", "persist"}
  BY DEF Tick, OptionalStages
<1>4. calm' \in BOOLEAN /\ stretchDue' \in BOOLEAN /\ cleanTicks' \in 0 .. 5
  <2>1. calm' \in BOOLEAN /\ stretchDue' \in BOOLEAN
    BY TickCases, Zenon DEF Witness, HeavyAtNominal
  <2>2. cleanTicks' \in {0, AtMost(cleanTicks + 1, 5)}
    BY TickCases DEF Witness
  <2> QED BY <2>1, <2>2 DEF AtMost, TypeOK
<1> QED BY <1>1, <1>2, <1>3, <1>4, OverrunsMove, LevelMoves, IntervalMoves DEF TypeOK

LEMMA Inductive == SafeSpec => []IInv
<1>1. IInv /\ [Next]_vars => IInv'
  <2>1. CASE UNCHANGED vars BY <2>1 DEF vars, IInv, TypeOK, LevelCoversOverruns
  <2> QED BY <2>1, TickKeepsIInv DEF Next
<1> QED BY InitIInv, <1>1, PTL DEF SafeSpec

-------------------------------------------------------------------------------
(* What the pacing guarantees *)

(* Whatever sequence of ticks, the interval stays between the nominal one  *)
(* and the maximum (adaptInterval, orchestrator.go:324-371).               *)
THEOREM TypeCorrect == SafeSpec => []TypeOK
BY Inductive, PTL DEF IInv

(* De-escalation never overtakes the overrun counter                       *)
(* (orchestrator.go:1175-1192).                                            *)
THEOREM LevelCovers == SafeSpec => []LevelCoversOverruns
BY Inductive, PTL DEF IInv

(* The safety level moves one by one (orchestrator.go:1175).               *)
THEOREM Gradual == SafeSpec => EscalatesGradually
<1>1. IInv /\ [Next]_vars => [GradualStep]_vars
  BY TickKeepsIInv DEF Next
<1> QED BY Inductive, <1>1, PTL DEF SafeSpec, EscalatesGradually

(* A stretched interval contracts strictly with every tick that is not     *)
(* overrunning, and never below the nominal one (orchestrator.go:351-363). *)
THEOREM Contraction == SafeSpec => ContractsMonotonically
<1>1. IInv /\ [Next]_vars => [ContractStep]_vars
  BY TickKeepsIInv DEF Next
<1> QED BY Inductive, <1>1, PTL DEF SafeSpec, ContractsMonotonically

(* Neither the safety level nor the contraction of the interval jumps      *)
(* (orchestrator.go:351-363, 1175).                                        *)
THEOREM PacingGradual == SafeSpec => NeverJumps
BY Gradual, Contraction DEF NeverJumps
===============================================================================
