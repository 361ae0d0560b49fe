----------------------------- MODULE ServiceWindow ----------------------------
(***************************************************************************)
(* What the store makes of numbers (internal/telemetry/store.go): a point  *)
(* is sanitized when it is ingested, and computeWindow condenses the last  *)
(* points of a service into the window that all models of a tick work      *)
(* with, inferring what the points leave out.                              *)
(*                                                                         *)
(* Latencies are in tenths of a millisecond, error rates, connections,     *)
(* queues and confidences in thousandths; divisions round down.            *)
(***************************************************************************)
EXTENDS Integers, Sequences, SequencesExt, FiniteSetsExt

CONSTANTS NotFinite,               (* stands for NaN and the infinities     *)
          maxReasonableRPS,
          maxReasonableLatencyMs

-------------------------------------------------------------------------------
(* sanitizePoint *)

finiteOrZero(v) == IF v = NotFinite THEN 0 ELSE v

Within(v, low, high) == Max({low, Min({high, finiteOrZero(v)})})

minLatencyMs == 1

sanitizePoint(p) ==
  LET Lat(v) == Within(v, 0, maxReasonableLatencyMs)
      silent == Lat(p.mean) = 0 /\ Lat(p.p50) = 0 /\ Lat(p.p95) = 0
  IN  [p EXCEPT !.rate  = Within(@, 0, maxReasonableRPS),
                !.error = Within(@, 0, 1000),
                !.mean  = IF silent THEN minLatencyMs ELSE Lat(@),
                !.p50   = Lat(@),
                !.p95   = Lat(@),
                !.p99   = Lat(@),
                !.conns = Max({0, @}),
                !.queue = Max({0, @})]

-------------------------------------------------------------------------------
(* computeWindow *)

SumOf(F(_), pts) == FoldLeft(LAMBDA acc, p : acc + F(p), 0, pts)
MeanOf(F(_), pts) == SumOf(F, pts) \div Len(pts)

(* The 99th percentile of the last point, or made up from another. *)
LastP99(p) ==
  CASE p.p99 > 0 -> p.p99
    [] p.p99 = 0 /\ p.p95 > 0 -> (6 * p.p95) \div 5
    [] p.p99 = 0 /\ p.p95 = 0 -> (5 * p.mean) \div 2

(* Slip: fewer connections than one are kept when Little's law gives none. *)
MeanActiveConns_Kept(pts) ==
  LET mean == (1000 * SumOf(LAMBDA p : p.conns, pts)) \div Len(pts)
      inferred == (MeanOf(LAMBDA p : p.rate, pts) * MeanOf(LAMBDA p : p.mean, pts)) \div 10
  IN  IF mean < 1000 /\ inferred >= 1000 THEN inferred ELSE mean

(* Little's law when the points say of less than one connection that they  *)
(* have traffic, and one at least.                                         *)
MeanActiveConns(pts) ==
  LET mean == (1000 * SumOf(LAMBDA p : p.conns, pts)) \div Len(pts)
      inferred == (SumOf(LAMBDA p : p.rate, pts) * SumOf(LAMBDA p : p.mean, pts)) \div (10 * Len(pts) * Len(pts))
  IN  IF mean < 1000 /\ SumOf(LAMBDA p : p.rate, pts) > 0 /\ SumOf(LAMBDA p : p.mean, pts) > 0
      THEN Max({1000, inferred}) ELSE mean

(* A mean latency far above the median means requests that wait. *)
LastQueueDepth(pts) ==
  LET p == Last(pts)
  IN  IF p.queue = 0 /\ p.p50 > 0 /\ 2 * p.mean > 3 * p.p50
      THEN ((p.mean - p.p50) * MeanActiveConns(pts)) \div p.mean
      ELSE 1000 * p.queue

MeanQueueDepth(pts) ==
  LET mean == (1000 * SumOf(LAMBDA p : p.queue, pts)) \div Len(pts)
  IN  IF mean = 0 /\ Last(pts).queue = 0 THEN LastQueueDepth(pts) \div Len(pts) ELSE mean

(* e to the power of -n/15 and -n/6, in ten-thousandths; n may be negative *)
(* in the second, where it is bounded by MaxSkew.                          *)
MaxSkew == 12
SampleDecay(n) ==
  LET f[k \in 0 .. n] == IF k = 0 THEN 10000 ELSE (f[k - 1] * 9355) \div 10000 IN f[n]
Freshness(age) ==
  LET older[k \in Nat] == IF k = 0 THEN 10000 ELSE (older[k - 1] * 8465) \div 10000
      ahead[k \in 0 .. MaxSkew] == IF k = 0 THEN 10000 ELSE (ahead[k - 1] * 11813) \div 10000
  IN  IF age >= 0 THEN older[age] ELSE ahead[-age]

(* stability: e to the power of minus half the variation of the rates.     *)
(* The age of the last point is by its own timestamp, which its sender     *)
(* made.                                                                   *)
ConfidenceScore(n, stability, age) ==
  ((((10000 - SampleDecay(n)) * stability) \div 1000) * Freshness(age)) \div 100000

SignalQuality(n, confidence) ==
  CASE n < 3 \/ confidence < 300 -> "sparse"
    [] n >= 3 /\ confidence \in 300 .. 649 -> "degraded"
    [] OTHER -> "good"

(* The mean of the calls to a target, over the points that name it. *)
UpstreamEdges(pts) ==
  LET calls == FlattenSeq([k \in 1 .. Len(pts) |-> pts[k].calls])
      To(t) == SelectSeq(calls, LAMBDA c : c.target = t)
  IN  [t \in {calls[k].target : k \in 1 .. Len(calls)} |->
         MeanOf(LAMBDA c : finiteOrZero(c.rate), To(t))]

computeWindow(pts) ==
  [MeanRequestRate  |-> MeanOf(LAMBDA p : p.rate, pts),
   MeanLatencyMs    |-> MeanOf(LAMBDA p : p.mean, pts),
   MaxLatencyMs     |-> Max({pts[k].mean : k \in 1 .. Len(pts)}),
   LastP99LatencyMs |-> LastP99(Last(pts)),
   MeanErrorRate    |-> MeanOf(LAMBDA p : p.error, pts),
   MeanActiveConns  |-> MeanActiveConns(pts),
   LastQueueDepth   |-> LastQueueDepth(pts),
   MeanQueueDepth   |-> MeanQueueDepth(pts),
   UpstreamEdges    |-> UpstreamEdges(pts)]

-------------------------------------------------------------------------------
(* Properties *)

(* Whatever numbers the points carry, the window can be worked with: a     *)
(* service with traffic and latency has a connection at least, so that it  *)
(* has a capacity; no queue that was inferred holds more than the requests *)
(* under way; a service with a latency has a percentile; an error rate is  *)
(* one; and the calls to a target are within those reported.               *)
WindowUsable(Raw, Lengths) ==
  \A n \in Lengths : \A raw \in [1 .. n -> Raw] :
    LET pts == [k \in 1 .. n |-> sanitizePoint(raw[k])]
        w == computeWindow(pts)
    IN  /\ w.MeanRequestRate > 0 /\ w.MeanLatencyMs > 0 => w.MeanActiveConns >= 1000
        /\ Last(pts).queue = 0 => w.LastQueueDepth <= w.MeanActiveConns
        /\ w.LastP99LatencyMs = 0 => Last(pts).mean = 0
        /\ w.MeanLatencyMs <= w.MaxLatencyMs /\ w.MaxLatencyMs <= maxReasonableLatencyMs
        /\ w.MeanErrorRate \in 0 .. 1000
        /\ \A t \in DOMAIN w.UpstreamEdges :
             LET rates == {finiteOrZero(c.rate) : c \in UNION {{d \in ToSet(pts[k].calls) : d.target = t} : k \in 1 .. n}}
             IN  w.UpstreamEdges[t] \in Min(rates) .. Max(rates)

(* A window is never called good on fewer than sixteen points, nor on a    *)
(* last point older than two seconds, unless timestamps lie ahead.         *)
GoodMeansEnough(Counts, Stabilities, Ages) ==
  \A n \in Counts, stability \in Stabilities, age \in Ages :
    age >= 0 /\ SignalQuality(n, ConfidenceScore(n, stability, age)) = "good" => n >= 16 /\ age <= 2

(* "ConfidenceScore: composite signal quality [0,1]", whatever timestamp   *)
(* the last point brings.                                                  *)
ConfidenceInRange(Counts, Stabilities, Ages) ==
  \A n \in Counts, stability \in Stabilities, age \in Ages :
    ConfidenceScore(n, stability, age) \in 0 .. 1000
===============================================================================
