-------------------------------- MODULE Policy --------------------------------
(***************************************************************************)
(* The rules of the policy engine (internal/policy), as the phase runtime  *)
(* calls it.  Replicas: candidates around the current count, priced by the *)
(* latency they leave above the target, the replicas they need and the     *)
(* distance they move, the first of the cheapest taken.  Retries, queue    *)
(* and cache: a step either way, a wider one under congestion; which of    *)
(* them scores best depends on exponentials of risks, so that any may.     *)
(***************************************************************************)
EXTENDS Integers

TargetLatency == 500   (* milliseconds; phase_runtime.go passes no other    *)

Larger(a, b)  == IF a > b THEN a ELSE b
Smaller(a, b) == IF a < b THEN a ELSE b
Distance(a, b) == IF a > b THEN a - b ELSE b - a

(* The bounds evaluatePolicy hands over: at least 1, at most three times   *)
(* the current count, or two more.                                         *)
MaxReplicas(cur) == Larger(3 * cur, cur + 2)

(* The candidates.  A load above 1.3 (1.6) times the replica count opens   *)
(* one (two) more.                                                         *)
ScalingCandidates(cur, load) ==
  {r \in (cur - 1) .. (cur + 4) :
      /\ r >= 1 /\ r <= MaxReplicas(cur)
      /\ r = cur + 3 => 10 * load > 13 * cur
      /\ r = cur + 4 => 10 * load > 16 * cur}

(* Slip: the estimate of the latency grows with the replicas.              *)
Price_Inverted(cur, latency, r) ==
  (10 * r * Larger(0, latency * r - TargetLatency * cur)) \div cur + 10 * r * r + r * Distance(r, cur)

(* The cost of r replicas is Price(cur, latency, r) / (10 * r): the        *)
(* estimate of the latency divides by r, so costs are compared crosswise.  *)
Price(cur, latency, r) ==
  10 * Larger(0, latency * cur - TargetLatency * r) + 10 * r * r + r * Distance(r, cur)

Cheaper(cur, latency, r, q) == Price(cur, latency, r) * q < Price(cur, latency, q) * r

(* The candidates are tried in increasing order, a tie keeps the earlier.  *)
RecommendScaling(cur, latency, load) ==
  CHOOSE r \in ScalingCandidates(cur, load) :
     \A q \in ScalingCandidates(cur, load) \ {r} :
        IF q < r THEN Cheaper(cur, latency, r, q) ELSE ~Cheaper(cur, latency, q, r)

-------------------------------------------------------------------------------
(* The other rules.  util is the arrivals per capacity, in percent; only   *)
(* its place among 110 and 115 matters.                                    *)

(* The limit is kept within 1 and three more than the current one. *)
RecommendRetryPolicy(cur, util) ==
  {l \in {cur - 1, cur, cur + 1} \cup (IF util > 115 THEN {cur - 2} ELSE {}) :
      l >= 1 /\ l <= Larger(cur + 3, 3)}

(* In eighths of the current limit, of which a step is a quarter. *)
RecommendQueuePolicy(util) == {6, 8, 10} \cup (IF util > 110 THEN {4} ELSE {})

(* In steps, whose size grows with util, from the current aggression. *)
RecommendCachePolicy(util) == {-1, 0, 1} \cup (IF util > 115 THEN {2} ELSE {})

(* Slip: the damping looks at the load instead of the decision.            *)
Damped_ByLoad(cur, replicas, queue, util) == IF util > 115 /\ queue < 8 THEN (8 + queue) \div 2 ELSE queue

(* More replicas and a tighter queue are a conflict: half of it is done.   *)
Damped(cur, replicas, queue, util) == IF replicas > cur /\ queue < 8 THEN (8 + queue) \div 2 ELSE queue

EvaluatePolicies(cur, retry, latency, util) ==
  LET replicas == RecommendScaling(cur, latency, (cur * util) \div 100)
  IN  [replicas : {replicas},
       retry : RecommendRetryPolicy(retry, util),
       queue : {Damped(cur, replicas, q, util) : q \in RecommendQueuePolicy(util)},
       cache : RecommendCachePolicy(util)]

-------------------------------------------------------------------------------
(* Properties *)

(* Slower services never get fewer replicas, whatever the count and the    *)
(* load, although a candidate is priced by an estimate, the replicas and   *)
(* the distance, and the candidates depend on the load.  Two milliseconds  *)
(* above the target there is always one more, and where one less would do  *)
(* there is one less: no service is stuck at its count.                    *)
ScalesWithLatency(Counts, Latencies, Utils) ==
  \A cur \in Counts, util \in Utils, low \in Latencies :
    LET Advised(latency) == RecommendScaling(cur, latency, (cur * util) \div 100)
    IN  /\ \A high \in Latencies : low <= high => Advised(low) <= Advised(high)
        /\ low >= TargetLatency + 2 => Advised(low) > cur
        /\ cur > 1 /\ low * cur <= TargetLatency * (cur - 1) => Advised(low) = cur - 1

(* A service that is to get replicas never has its queue cut by more than  *)
(* a quarter, and the retry limit never falls to zero or below.            *)
PoliciesAgree(Counts, Latencies, Utils) ==
  \A cur, retry \in Counts, util \in Utils, latency \in Latencies :
     \A d \in EvaluatePolicies(cur, retry, latency, util) :
        /\ d.replicas > cur => d.queue >= 6
        /\ d.retry >= 1
===============================================================================
