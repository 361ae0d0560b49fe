-------------------------- MODULE PhaseRuntimeProofs --------------------------
(***************************************************************************)
(* Proofs about PhaseRuntime, for any set of services, any replica counts  *)
(* and loads, any period of the sandbox and any sequence of wishes:        *)
(* successive directives keep the rate limits, none reverses               *)
(* within the cooldown, none shrinks a service at high risk, and a forced  *)
(* window is seen.                                                         *)
(***************************************************************************)
EXTENDS PhaseRuntime, TLAPS

-------------------------------------------------------------------------------
(* One decision *)

(* What Decide may start from: a record of the map, or a new one. *)
Authorities == {a \in Records : a.scale = 0 \/ a.scale >= MinScale}

(* A directive is within the clamp. *)
LEMMA DirectiveInRange ==
  ASSUME NEW a \in Authorities, NEW wish \in Int, NEW rising \in BOOLEAN
  PROVE  Directive(a, wish, rising) \in MinScale .. MaxScale
BY DEF Authorities, Records, Scales, Directive, EnforceScaleRate, Raw, Reversal, ClampTo,
       Tick3, Smaller, Direction, MinScale, MaxScale, MaxUp, MaxDown, Cooldown

(* It differs from the last one by the rate limits at most; the clamp can  *)
(* only bring the two closer together.                                     *)
LEMMA DirectiveNear ==
  ASSUME NEW a \in Authorities, NEW wish \in Int, NEW rising \in BOOLEAN, a.scale > 0
  PROVE  Directive(a, wish, rising) - a.scale \in -MaxDown .. MaxUp
<1> DEFINE raw == Raw(a, wish, rising)
           last == a.scale
<1>1. raw \in Int
  BY DEF Authorities, Records, Scales, Raw
<1>2. last \in MinScale .. MaxScale
  BY DEF Authorities, Records, Scales, MinScale, MaxScale
<1>3. Directive(a, wish, rising) = ClampTo(ClampTo(raw, last - MaxDown, last + MaxUp), MinScale, MaxScale)
  BY <1>2 DEF Directive, EnforceScaleRate, MinScale
<1> HIDE DEF raw, last
<1>4. ClampTo(ClampTo(raw, last - MaxDown, last + MaxUp), MinScale, MaxScale) - last \in -15 .. 200
  BY <1>1, <1>2 DEF ClampTo, MinScale, MaxScale, MaxUp, MaxDown
<1> QED BY <1>3, <1>4 DEF last, MaxUp, MaxDown

(* A wish of 1.0 or more is never turned into less: a rise is cut to 2.0   *)
(* above a directive that is at least 0.45.                                *)
LEMMA DirectiveKeepsFloor ==
  ASSUME NEW a \in Authorities, NEW wish \in Int, NEW rising \in BOOLEAN, wish >= 100
  PROVE  Directive(a, wish, rising) >= 100
BY DEF Authorities, Records, Scales, Directive, EnforceScaleRate, Raw, Reversal, ClampTo,
       Tick3, Smaller, Direction, MinScale, MaxScale, MaxUp, MaxDown, Cooldown

(* A directive below 0.95 comes from a wish that was recorded as "down".   *)
LEMMA LowIsRecorded ==
  ASSUME NEW a \in Authorities, NEW wish \in Int, NEW rising \in BOOLEAN,
         Directive(a, wish, rising) < 95
  PROVE  Direction(wish) = "down" /\ ~Reversal(a, "down")
BY DEF Authorities, Records, Scales, Directive, EnforceScaleRate, Raw, Reversal, ClampTo,
       Tick3, Smaller, Direction, MinScale, MaxScale, MaxUp, MaxDown, Cooldown

(* While the cooldown after "down" lasts and the directive has not been    *)
(* raised yet, the next one is not above 1.05.                             *)
LEMMA NoneUpInCooldown ==
  ASSUME NEW a \in Authorities, NEW wish \in Int, NEW rising \in BOOLEAN,
         a.scale <= 105, a.dir = "down", Tick3(a.age) < Cooldown
  PROVE  Directive(a, wish, rising) <= 105
BY DEF Authorities, Records, Scales, Directive, EnforceScaleRate, Raw, Reversal, ClampTo,
       Tick3, Smaller, Direction, MinScale, MaxScale, MaxUp, MaxDown, Cooldown

(* The record a decision leaves. *)
LEMMA DecidedType ==
  ASSUME NEW a \in Authorities, NEW wish \in Int, NEW rising \in BOOLEAN,
         NEW sandbox \in {NoAdvice, "riskUp", "calm"}
  PROVE  /\ Decided(a, wish, rising, sandbox) \in Records
         /\ Decided(a, wish, rising, sandbox).scale = Directive(a, wish, rising)
<1>1. Directive(a, wish, rising) \in Scales
  BY DirectiveInRange DEF Scales, MinScale, MaxScale
<1>2. Direction(wish) \in {"up", "down", "hold"}
  BY DEF Direction
<1>3. Tick3(a.age) \in 0 .. Cooldown
  BY DEF Authorities, Records, Tick3, Smaller, Cooldown
<1>4. a.dir \in {"up", "down", "hold"}
  BY DEF Authorities, Records
<1> QED BY <1>1, <1>2, <1>3, <1>4 DEF Decided, Records, Cooldown

-------------------------------------------------------------------------------
(* The choice of a bundle *)

(* The replicas of a bundle are whole, and at the highest risk no fewer    *)
(* than today.                                                             *)
LEMMA ChoiceBounds ==
  ASSUME NEW rep \in ReplicaCounts, NEW class, NEW best \in Choices(rep, class)
  PROVE  best \in Int /\ (class = 2 => best >= rep)
<1>1. ASSUME best \in LocalReplicas(rep, class) PROVE best \in Int /\ (class = 2 => best >= rep)
  BY <1>1, ReplicaAssumption DEF LocalReplicas, MinBound
<1>2. ASSUME best \in AdvisoryReplicas(rep, class) PROVE best \in Int /\ (class = 2 => best >= rep)
  BY <1>2, ReplicaAssumption DEF AdvisoryReplicas, MinBound
<1> QED BY <1>1, <1>2 DEF Choices

(* The wish is a whole number of hundredths, and at the highest risk it is *)
(* at least 1.0.                                                           *)
LEMMA WishBounds ==
  ASSUME NEW rep \in ReplicaCounts, NEW class, NEW best \in Choices(rep, class)
  PROVE  best * (100 \div rep) \in Int /\ (class = 2 => best * (100 \div rep) >= 100)
<1> DEFINE unit == 100 \div rep
<1>1. rep \in Nat \ {0} /\ rep * unit = 100
  BY ReplicaAssumption
<1>2. unit \in Nat
  BY <1>1
<1>3. best \in Int /\ (class = 2 => best >= rep)
  BY ChoiceBounds
<1> HIDE DEF unit
<1>4. best >= rep => best * unit >= rep * unit
  BY <1>1, <1>2, <1>3
<1>5. best * unit \in Int
  BY <1>2, <1>3
<1>6. best * unit \in Int /\ (class = 2 => best * unit >= 100)
  BY <1>1, <1>3, <1>4, <1>5
<1> QED BY <1>6 DEF unit
-------------------------------------------------------------------------------
(* The inductive invariant *)

(* A record in the map has been decided at least once. *)
ScaleInv == \A s \in DOMAIN svc : svc[s].scale \in MinScale .. MaxScale

(* A directive below 0.95 within the cooldown means that the authority     *)
(* still remembers the direction "down", and not as an older one.          *)
CooldownInv ==
  /\ \A s \in Services \ DOMAIN svc : down[s] = Cooldown
  /\ \A s \in DOMAIN svc :
       down[s] < Cooldown => svc[s].dir = "down" /\ svc[s].age <= down[s]

(* Inside the loop, the services that were taken have a record.            *)
DecidedInv == pc = "apply" => seen \ todo \subseteq DOMAIN svc

(* A window that is due reaches the next decision: inside the loop it      *)
(* covers this tick, and the next one too unless no decision was taken.    *)
WindowInv ==
  due => /\ started
         /\ pc = "idle" => window >= 1
         /\ pc = "apply" => window >= 0 /\ (window >= 1 \/ todo = seen)

IInv ==
  /\ TypeOK /\ ScaleInv /\ CooldownInv /\ DecidedInv /\ WindowInv
  /\ NoQuickReversal /\ RiskHoldsCapacity

(* The authority a decision starts from. *)
LEMMA AuthorityType ==
  ASSUME TypeOK, ScaleInv, NEW s \in Services
  PROVE  Authority(s) \in Authorities
<1>1. CASE s \in DOMAIN svc
  BY <1>1 DEF TypeOK, ScaleInv, Authority, Authorities, MinScale, MaxScale
<1>2. CASE s \notin DOMAIN svc
  BY <1>2 DEF Authority, NewService, Authorities, Records, Scales, MaxScale, Cooldown
<1> QED BY <1>1, <1>2

(* What a decision does to the map and to the history of high risk. *)
Outcome(s, class, wish, rising, sandbox) ==
  /\ class = 2 => wish >= 100
  /\ hot' = IF class = 2 THEN hot \cup {s} ELSE hot \ {s}
  /\ svc' = [t \in DOMAIN svc \cup {s} |->
               IF t = s THEN Decided(Authority(s), wish, rising, sandbox) ELSE svc[t]]

(* Every decision has such an outcome, with a whole wish. *)
LEMMA DecisionOutcome ==
  ASSUME TypeOK, ScaleInv, NEW s \in Services, Decide(s)
  PROVE  \E class \in RiskClasses, wish \in Int, rising \in BOOLEAN, sandbox \in {NoAdvice, "riskUp", "calm"} :
           Outcome(s, class, wish, rising, sandbox)
<1>1. PICK sandbox \in SandboxResults(Authority(s)), rep \in ReplicaCounts :
        \E class \in {FusedClass(in.class, mergeSandboxAdvice(phase2, sandbox)) :
                      in \in Inputs(rep), phase2 \in Recommendations} :
          /\ hot' = IF class = 2 THEN hot \cup {s} ELSE hot \ {s}
          /\ \E best \in Choices(rep, class), rising \in BOOLEAN :
               svc' = [t \in DOMAIN svc \cup {s} |->
                         IF t = s THEN Decided(Authority(s), best * (100 \div rep), rising, sandbox)
                                  ELSE svc[t]]
  BY DEF Decide
<1>2. PICK class \in RiskClasses :
        /\ hot' = IF class = 2 THEN hot \cup {s} ELSE hot \ {s}
        /\ \E best \in Choices(rep, class), rising \in BOOLEAN :
             svc' = [t \in DOMAIN svc \cup {s} |->
                       IF t = s THEN Decided(Authority(s), best * (100 \div rep), rising, sandbox)
                                ELSE svc[t]]
  <2>1. {FusedClass(in.class, mergeSandboxAdvice(phase2, sandbox)) :
           in \in Inputs(rep), phase2 \in Recommendations} \subseteq RiskClasses
    BY DEF FusedClass, Inputs, RiskClasses, Larger
  <2> QED BY <1>1, <2>1
<1>3. PICK best \in Choices(rep, class), rising \in BOOLEAN :
        svc' = [t \in DOMAIN svc \cup {s} |->
                  IF t = s THEN Decided(Authority(s), best * (100 \div rep), rising, sandbox)
                           ELSE svc[t]]
  BY <1>2
<1>4. sandbox \in {NoAdvice, "riskUp", "calm"}
  <2>1. Authority(s).sandbox \in {NoAdvice, "riskUp", "calm"}
    BY AuthorityType DEF Authorities, Records
  <2> QED BY <1>1, <2>1 DEF SandboxResults
<1> DEFINE wish == best * (100 \div rep)
<1>5. wish \in Int /\ (class = 2 => wish >= 100)
  BY <1>1, <1>3, WishBounds
<1>6. Outcome(s, class, wish, rising, sandbox)
  BY <1>2, <1>3, <1>5 DEF Outcome
<1> HIDE DEF wish
<1> QED BY <1>2, <1>3, <1>4, <1>5, <1>6

(* The cooldown over one decision: n ticks have gone by since the last     *)
(* directive below 0.95.                                                   *)
LEMMA CooldownKept ==
  ASSUME NEW a \in Authorities, NEW wish \in Int, NEW rising \in BOOLEAN,
         NEW sandbox \in {NoAdvice, "riskUp", "calm"}, NEW n \in 0 .. Cooldown,
         n < Cooldown => a.dir = "down" /\ a.age <= n,
         a.scale > 105 => n = Cooldown,
         NEW m, m = IF Directive(a, wish, rising) < 95 THEN 0 ELSE Tick3(n)
  PROVE  /\ m < Cooldown => /\ Decided(a, wish, rising, sandbox).dir = "down"
                            /\ Decided(a, wish, rising, sandbox).age <= m
         /\ Decided(a, wish, rising, sandbox).scale > 105 => m = Cooldown
<1> DEFINE r == Decided(a, wish, rising, sandbox)
           dir == Direction(wish)
<1>1. r.scale = Directive(a, wish, rising) /\ r.scale \in MinScale .. MaxScale
  BY DecidedType, DirectiveInRange
<1>2. /\ dir # "hold" /\ ~Reversal(a, dir) => r.dir = dir /\ r.age = 0
      /\ ~(dir # "hold" /\ ~Reversal(a, dir)) => r.dir = a.dir /\ r.age = Tick3(a.age)
  BY DEF Decided
<1>3. a.age \in 0 .. Cooldown /\ a.dir \in {"up", "down", "hold"} /\ a.scale \in Int
  BY DEF Authorities, Records, Scales
<1>4. CASE Directive(a, wish, rising) < 95
  <2>1. m = 0
    BY <1>4
  <2>2. dir = "down" /\ ~Reversal(a, dir)
    BY <1>4, LowIsRecorded
  <2>3. r.dir = "down" /\ r.age = 0
    BY <1>2, <2>2
  <2> HIDE DEF r
  <2>4. ~(r.scale > 105)
    BY <1>1, <1>4 DEF MinScale, MaxScale
  <2>5. /\ m < Cooldown => r.dir = "down" /\ r.age <= m
        /\ r.scale > 105 => m = Cooldown
    BY <2>1, <2>3, <2>4
  <2> QED BY <2>5 DEF r
<1>5. CASE ~(Directive(a, wish, rising) < 95)
  <2>1. m = Tick3(n) /\ m \in 0 .. Cooldown
    BY <1>5 DEF Tick3, Smaller, Cooldown
  <2>2. CASE m = Cooldown
    BY <2>2 DEF Cooldown
  <2>3. CASE m < Cooldown
    <3>1. n < Cooldown /\ a.dir = "down" /\ a.age <= n /\ a.scale <= 105
      BY <1>3, <2>1, <2>3 DEF Tick3, Smaller, Cooldown
    <3>2. Tick3(a.age) <= m /\ Tick3(a.age) < Cooldown /\ 0 <= m
      BY <1>3, <2>1, <2>3, <3>1 DEF Tick3, Smaller, Cooldown
    <3>3. r.scale <= 105
      BY <1>1, <3>1, <3>2, NoneUpInCooldown
    <3>4. dir # "hold" /\ ~Reversal(a, dir) => dir = "down"
      BY <3>1, <3>2 DEF Reversal, Direction
    <3>5. r.dir = "down" /\ r.age <= m
      BY <1>2, <3>1, <3>2, <3>4
    <3> HIDE DEF r
    <3>6. /\ m < Cooldown => r.dir = "down" /\ r.age <= m
          /\ r.scale > 105 => m = Cooldown
      BY <1>1, <3>3, <3>5 DEF MinScale, MaxScale
    <3> QED BY <3>6 DEF r
  <2> QED BY <2>1, <2>2, <2>3 DEF Cooldown
<1> QED BY <1>4, <1>5
-------------------------------------------------------------------------------
(* Decide keeps the invariant *)

(* The parts about the records, with the history of low directives.        *)
LEMMA DecideKeepsRecords ==
  ASSUME IInv, NEW s \in Services, Decide(s)
  PROVE  /\ TypeOK' /\ ScaleInv' /\ CooldownInv' /\ DecidedInv'
         /\ NoQuickReversal' /\ RiskHoldsCapacity'
<1> USE DEF IInv
<1>1. PICK class \in RiskClasses, wish \in Int, rising \in BOOLEAN,
           sandbox \in {NoAdvice, "riskUp", "calm"} : Outcome(s, class, wish, rising, sandbox)
  BY DecisionOutcome
<1> DEFINE a == Authority(s)
           r == Decided(a, wish, rising, sandbox)
<1>2. a \in Authorities
  BY AuthorityType
<1>3. /\ svc' = [t \in DOMAIN svc \cup {s} |-> IF t = s THEN r ELSE svc[t]]
      /\ hot' = IF class = 2 THEN hot \cup {s} ELSE hot \ {s}
      /\ class = 2 => wish >= 100
  BY <1>1 DEF Outcome
<1>4. r \in Records /\ r.scale = Directive(a, wish, rising) /\ r.scale \in MinScale .. MaxScale
  BY <1>1, <1>2, DecidedType, DirectiveInRange
<1>5. class = 2 => r.scale >= 100
  BY <1>1, <1>2, <1>3, <1>4, DirectiveKeepsFloor
<1> DEFINE m == IF r.scale < 95 THEN 0 ELSE Tick3(down[s])
<1>6. /\ pc = "apply" /\ s \in todo /\ todo' = todo \ {s} /\ due' = (due /\ ~sandboxForced)
      /\ pc' = pc /\ seen' = seen /\ started' = started /\ phase' = phase /\ window' = window
      /\ down' = [down EXCEPT ![s] = IF svc'[s].scale < 95 THEN 0 ELSE Tick3(down[s])]
  BY DEF Decide
<1>7. down[s] \in 0 .. Cooldown /\ m \in 0 .. Cooldown
  BY DEF TypeOK, Tick3, Smaller, Cooldown
<1>8. /\ down[s] < Cooldown => a.dir = "down" /\ a.age <= down[s]
      /\ a.scale > 105 => down[s] = Cooldown
  <2>1. CASE s \in DOMAIN svc
    BY <2>1 DEF Authority, CooldownInv, NoQuickReversal
  <2>2. CASE s \notin DOMAIN svc
    BY <2>2, <1>7 DEF Authority, NewService, CooldownInv, Cooldown
  <2> QED BY <2>1, <2>2
<1>9. /\ m < Cooldown => r.dir = "down" /\ r.age <= m
      /\ r.scale > 105 => m = Cooldown
  BY <1>1, <1>2, <1>4, <1>7, <1>8, CooldownKept
<1> HIDE DEF a, r, m
<1>10. /\ DOMAIN svc' = DOMAIN svc \cup {s} /\ svc'[s] = r
       /\ \A t \in DOMAIN svc : t # s => svc'[t] = svc[t]
  BY <1>3
<1>11. down'[s] = m /\ \A t \in Services : t # s => down'[t] = down[t]
  BY <1>6, <1>10 DEF TypeOK, m
<1>12. TypeOK'
  <2>1. DOMAIN svc' \subseteq Services /\ \A t \in DOMAIN svc' : svc'[t] \in Records
    BY <1>4, <1>10 DEF TypeOK
  <2>2. down' \in [Services -> 0 .. Cooldown]
    BY <1>6, <1>7, <1>10 DEF TypeOK, m
  <2>3. hot' \subseteq DOMAIN svc'
    BY <1>3, <1>10 DEF TypeOK
  <2>4. due' \in BOOLEAN
    BY <1>6
  <2> QED BY <1>6, <2>1, <2>2, <2>3, <2>4 DEF TypeOK
<1>13. ScaleInv'
  BY <1>4, <1>10 DEF ScaleInv
<1>14. CooldownInv'
  BY <1>9, <1>10, <1>11 DEF CooldownInv, TypeOK
<1>15. DecidedInv'
  BY <1>6, <1>10 DEF DecidedInv
<1>16. NoQuickReversal'
  BY <1>9, <1>10, <1>11 DEF NoQuickReversal, TypeOK
<1>17. RiskHoldsCapacity'
  BY <1>3, <1>5, <1>10 DEF RiskHoldsCapacity, TypeOK
<1> QED BY <1>12, <1>13, <1>14, <1>15, <1>16, <1>17

(* The window is over as due once a decision has seen it.                  *)
LEMMA DecideKeepsWindow ==
  ASSUME IInv, NEW s \in Services, Decide(s)
  PROVE  WindowInv'
<1>1. due' = (due /\ ~(window >= 0)) /\ pc = "apply"
  BY DEF Decide, sandboxForced
<1> QED BY <1>1 DEF IInv, WindowInv, TypeOK
-------------------------------------------------------------------------------
(* The other steps, and the theorems *)

(* A tick begins with no decision taken, inside every window that is due.  *)
LEMMA TickBeginKeeps ==
  ASSUME IInv, TickBegin
  PROVE  IInv'
<1> USE DEF IInv, TickBegin
<1>1. TypeOK'
  <2>1. phase' \in 0 .. SandboxEvery - 1
    <3> DEFINE n == phase + (IF started THEN 1 ELSE Warm)
    <3>1. n \in Nat /\ SandboxEvery \in Nat /\ SandboxEvery > 0
      BY TickAssumption DEF TypeOK
    <3>2. phase' = n % SandboxEvery
      OBVIOUS
    <3> HIDE DEF n
    <3> QED BY <3>1, <3>2
  <2>2. window' \in Int /\ window' >= -1
    BY TickAssumption DEF TypeOK, Larger
  <2> QED BY <2>1, <2>2 DEF TypeOK
<1>2. ScaleInv' /\ CooldownInv' /\ NoQuickReversal' /\ RiskHoldsCapacity'
  BY DEF ScaleInv, CooldownInv, NoQuickReversal, RiskHoldsCapacity
<1>3. DecidedInv'
  BY DEF DecidedInv
<1>4. WindowInv'
  BY DEF WindowInv, TypeOK, Larger
<1> QED BY <1>1, <1>2, <1>3, <1>4

(* A tick ends with a record for every service of its bundles; a window    *)
(* that is still due covers the next tick, for no decision was taken.      *)
LEMMA TickEndKeeps ==
  ASSUME IInv, TickEnd
  PROVE  IInv'
<1> USE DEF IInv, TickEnd
<1>1. /\ seen \subseteq DOMAIN svc /\ DOMAIN svc' = seen
      /\ \A s \in seen : svc'[s] = svc[s] /\ down'[s] = down[s]
      /\ \A s \in Services \ seen : down'[s] = Cooldown
  BY DEF DecidedInv, TypeOK
<1>2. TypeOK'
  BY <1>1 DEF TypeOK, Cooldown
<1>3. ScaleInv' /\ CooldownInv' /\ NoQuickReversal'
  BY <1>1 DEF TypeOK, ScaleInv, CooldownInv, NoQuickReversal
<1>4. RiskHoldsCapacity'
  BY <1>1 DEF RiskHoldsCapacity
<1>5. DecidedInv'
  BY DEF DecidedInv
<1>6. WindowInv'
  BY DEF WindowInv, TypeOK, sandboxForced
<1> QED BY <1>2, <1>3, <1>4, <1>5, <1>6

(* An operator's request replaces the window and touches nothing else.     *)
LEMMA ForceSandboxKeeps ==
  ASSUME IInv, NEW n \in Durations, ForceSandbox(n)
  PROVE  IInv'
<1> USE DEF IInv, ForceSandbox
<1>1. n \in Nat \ {0} /\ Warm \in Nat \ {0}
  BY TickAssumption
<1>2. TypeOK'
  BY <1>1 DEF TypeOK, Lag, Larger
<1>3. ScaleInv' /\ CooldownInv' /\ NoQuickReversal' /\ RiskHoldsCapacity' /\ DecidedInv'
  BY DEF ScaleInv, CooldownInv, NoQuickReversal, RiskHoldsCapacity, DecidedInv
<1>4. WindowInv'
  <2> SUFFICES ASSUME due' PROVE /\ started'
                                 /\ pc' = "idle" => window' >= 1
                                 /\ pc' = "apply" => window' >= 0 /\ window' >= 1
    BY DEF WindowInv
  <2>1. started /\ n > 1 /\ started' = started /\ pc' = pc
    OBVIOUS
  <2>2. window' = Larger(n - (IF pc = "idle" THEN 0 ELSE 1), -1)
    BY <2>1 DEF Lag
  <2>3. window' >= 1 /\ window' >= 0
    BY <1>1, <2>1, <2>2 DEF Larger
  <2> QED BY <2>1, <2>3
<1> QED BY <1>2, <1>3, <1>4

(* Nothing has been decided and no window is due at the start.             *)
LEMMA InitIInv == Init => IInv
<1> SUFFICES ASSUME Init PROVE IInv
  OBVIOUS
<1> USE DEF Init
<1>1. TypeOK
  <2>1. DOMAIN svc = {} /\ started \in BOOLEAN /\ due \in BOOLEAN
    OBVIOUS
  <2>2. down \in [Services -> 0 .. Cooldown] /\ phase \in 0 .. SandboxEvery - 1
    BY TickAssumption DEF Cooldown
  <2> QED BY <2>1, <2>2 DEF TypeOK
<1>2. ScaleInv /\ CooldownInv /\ NoQuickReversal /\ RiskHoldsCapacity
  BY DEF ScaleInv, CooldownInv, NoQuickReversal, RiskHoldsCapacity
<1>3. DecidedInv /\ WindowInv
  BY DEF DecidedInv, WindowInv
<1> QED BY <1>1, <1>2, <1>3 DEF IInv

(* Every step of the phase runtime keeps the invariant.                    *)
LEMMA NextIInv == IInv /\ [Next]_vars => IInv'
<1> SUFFICES ASSUME IInv, [Next]_vars PROVE IInv'
  OBVIOUS
<1>1. CASE TickBegin
  BY <1>1, TickBeginKeeps
<1>2. CASE \E s \in Services : Decide(s)
  BY <1>2, DecideKeepsRecords, DecideKeepsWindow DEF IInv
<1>3. CASE TickEnd
  BY <1>3, TickEndKeeps
<1>4. CASE \E n \in Durations : ForceSandbox(n)
  BY <1>4, ForceSandboxKeeps
<1>5. CASE UNCHANGED vars
  BY <1>5 DEF vars, IInv, TypeOK, ScaleInv, CooldownInv, DecidedInv, WindowInv,
              NoQuickReversal, RiskHoldsCapacity
<1> QED BY <1>1, <1>2, <1>3, <1>4, <1>5 DEF Next

(* The invariant holds in every reachable state.                           *)
LEMMA Inductive == Spec => []IInv
BY InitIInv, NextIInv, PTL DEF Spec

(* The state of the phase runtime keeps its types: no authority, direction,*)
(* window or phase leaves its range.                                       *)
THEOREM TypeCorrect == Spec => []TypeOK
<1>1. IInv => TypeOK
  BY DEF IInv
<1> QED BY <1>1, Inductive, PTL

(* enforceScaleRate: successive directives differ by 0.15 downwards and    *)
(* 2.0 upwards at most, for all wishes and backlogs.                       *)
THEOREM RateKept == Spec => RateLimited
<1> DEFINE Step == \A s \in DOMAIN svc \cap DOMAIN svc' :
                     svc[s].scale > 0 => svc'[s].scale - svc[s].scale \in -MaxDown .. MaxUp
<1>1. IInv /\ [Next]_vars => [Step]_vars
  <2> SUFFICES ASSUME IInv, Next, NEW s \in DOMAIN svc \cap DOMAIN svc', svc[s].scale > 0
               PROVE  svc'[s].scale - svc[s].scale \in -MaxDown .. MaxUp
    OBVIOUS
  <2> USE DEF IInv
  <2>1. s \in Services /\ svc[s].scale \in Int
    BY DEF TypeOK, ScaleInv, MinScale, MaxScale
  <2>2. CASE svc'[s] = svc[s]
    BY <2>1, <2>2 DEF MaxDown, MaxUp
  <2>3. ASSUME NEW t \in Services, Decide(t), svc'[s] # svc[s]
        PROVE  svc'[s].scale - svc[s].scale \in -MaxDown .. MaxUp
    <3>1. PICK class \in RiskClasses, wish \in Int, rising \in BOOLEAN,
               sandbox \in {NoAdvice, "riskUp", "calm"} : Outcome(t, class, wish, rising, sandbox)
      BY <2>3, DecisionOutcome
    <3>2. t = s
      BY <2>3, <3>1 DEF Outcome
    <3>3. Authority(s) \in Authorities /\ Authority(s) = svc[s]
      BY <2>1, AuthorityType DEF Authority
    <3>4. svc'[s] = Decided(svc[s], wish, rising, sandbox)
      BY <3>1, <3>2, <3>3 DEF Outcome
    <3>5. svc'[s].scale = Directive(svc[s], wish, rising)
      BY <3>1, <3>3, <3>4, DecidedType
    <3> QED BY <3>1, <3>3, <3>5, DirectiveNear
  <2>4. CASE TickBegin \/ TickEnd \/ \E n \in Durations : ForceSandbox(n)
    <3>1. svc'[s] = svc[s]
      BY <2>4 DEF TickBegin, TickEnd, ForceSandbox
    <3> QED BY <2>2, <3>1
  <2> QED BY <2>2, <2>3, <2>4 DEF Next
<1> QED BY <1>1, Inductive, PTL DEF Spec, RateLimited

(* The cooldown of Authority.Decide: no directive above 1.05 within three  *)
(* ticks of one below 0.95, although guard and rate limit act after it.    *)
THEOREM NoReversal == Spec => []NoQuickReversal
<1>1. IInv => NoQuickReversal
  BY DEF IInv
<1> QED BY <1>1, Inductive, PTL

(* deriveBounds above a risk of 0.75: the directive does not shrink the    *)
(* service, wherever the rate limit starts from.                           *)
THEOREM RiskFloor == Spec => []RiskHoldsCapacity
<1>1. IInv => RiskHoldsCapacity
  BY DEF IInv
<1> QED BY <1>1, Inductive, PTL

(* ForceSandbox: a window of two ticks or more is never used up unseen,    *)
(* at whatever point of a tick the request arrives.                        *)
THEOREM ForcedSeen == Spec => []ForceTakesHold
<1>1. IInv => ForceTakesHold
  BY DEF IInv, WindowInv, ForceTakesHold, TypeOK
<1> QED BY <1>1, Inductive, PTL
===============================================================================
