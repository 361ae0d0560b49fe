------------------------------- MODULE Scraping -------------------------------
(***************************************************************************)
(* The collector's scrapes (internal/collector): discovery finds the       *)
(* containers that ask to be observed, every scrape visits those of the    *)
(* last discovery, several at a time, and turns the counters it reads into *)
(* rates against what the service's counter was at the scrape before.      *)
(*                                                                         *)
(* A container has one counter, which starts again at zero with the        *)
(* container; a rate is its increment (times are left out: within a        *)
(* scrape no two reads of a container's counter are at the same time).     *)
(* What a sample feeds is its families: the server's requests, the calls   *)
(* to a dependency, or both (the span metrics).                            *)
(*                                                                         *)
(* How a sample's name and labels decide what reads it, and the percentile *)
(* that is interpolated from a histogram's buckets, are operators without  *)
(* state at the end.                                                       *)
(***************************************************************************)
EXTENDS Integers, FiniteSets, FiniteSetsExt, Functions

CONSTANTS Containers,
          ServiceOf,      (* serviceIDFromLabels: a container's service id     *)
          Families,       (* the families of a container's counter             *)
          limit,          (* MaxScrapeConcurrency                              *)
          MaxRequests,    (* bound: requests to a container                    *)
          MaxRestarts     (* bound: restarts of containers                     *)

None == -1

VARIABLES
  running,    (* the containers docker shows, with their counters              *)
  requests,   (* history: all the requests to a container                      *)
  restarts,
  targets,    (* Collector.targets: the containers of the last discovery       *)
  waiting,    (* the targets this scrape has yet to visit                      *)
  read,       (* the visits under way: what each has read                      *)
  prev,       (* Normalizer.prev, by service id, or None                       *)
  counted     (* history: by family, the increments reported for a service     *)

vars == <<running, requests, restarts, targets, waiting, read, prev, counted>>

Ids == Range(ServiceOf)
FamilyNames == {"server", "client"}

Init ==
  /\ running = [c \in Containers |-> 0]
  /\ requests = [c \in Containers |-> 0]
  /\ restarts = 0
  /\ targets = {}
  /\ waiting = {}
  /\ read = << >>
  /\ prev = [i \in Ids |-> None]
  /\ counted = [i \in Ids |-> [f \in FamilyNames |-> 0]]

-------------------------------------------------------------------------------
(* Containers *)

Request(c) ==
  /\ c \in DOMAIN running
  /\ requests[c] < MaxRequests
  /\ running' = [running EXCEPT ![c] = @ + 1]
  /\ requests' = [requests EXCEPT ![c] = @ + 1]
  /\ UNCHANGED <<restarts, targets, waiting, read, prev, counted>>

Stop(c) ==
  /\ c \in DOMAIN running
  /\ restarts < MaxRestarts
  /\ restarts' = restarts + 1
  /\ running' = Restrict(running, DOMAIN running \ {c})
  /\ UNCHANGED <<requests, targets, waiting, read, prev, counted>>

Start(c) ==
  /\ c \notin DOMAIN running
  /\ running' = [x \in DOMAIN running \cup {c} |-> IF x = c THEN 0 ELSE running[x]]
  /\ UNCHANGED <<requests, restarts, targets, waiting, read, prev, counted>>

-------------------------------------------------------------------------------
(* Discovery.  A container whose inspection fails is left out; when docker *)
(* does not answer at all nothing changes.                                 *)
Discover ==
  /\ \E found \in SUBSET DOMAIN running : targets' = found
  /\ UNCHANGED <<running, requests, restarts, waiting, read, prev, counted>>

(* Scrapes.  The loop is one goroutine: a scrape begins after the one      *)
(* before has ended.                                                       *)
BeginScrape ==
  /\ waiting = {} /\ read = << >>
  /\ targets # {}
  /\ waiting' = targets
  /\ UNCHANGED <<running, requests, restarts, targets, read, prev, counted>>

(* One target's metrics are fetched.  One that does not answer is counted  *)
(* as an error and left.                                                   *)
Scrape(c) ==
  /\ c \in waiting
  /\ Cardinality(DOMAIN read) < limit
  /\ waiting' = waiting \ {c}
  /\ \/ /\ c \in DOMAIN running
        /\ read' = [x \in DOMAIN read \cup {c} |-> IF x = c THEN running[c] ELSE read[x]]
     \/ UNCHANGED read
  /\ UNCHANGED <<running, requests, restarts, targets, prev, counted>>

(* Slip: the first value seen stays the one rates are taken against. *)
Remember_First(before, value) == IF before = None THEN value ELSE before

Remember(before, value) == value

(* What a sample adds to its families.  A service seen for the first time, *)
(* or whose counter has gone down, has no rate.                            *)
counterRate(before, value) == IF before = None \/ value < before THEN 0 ELSE value - before

(* A sample of two families is read twice with the same time, and the      *)
(* second read has no rate: only the server's family gets it.              *)
Fed(c) == IF "server" \in Families[c] THEN {"server"} ELSE Families[c]

(* Build, under the normaliser's lock. *)
Build(c) ==
  /\ c \in DOMAIN read
  /\ LET i == ServiceOf[c] IN
     /\ prev' = [prev EXCEPT ![i] = Remember(@, read[c])]
     /\ counted' = [counted EXCEPT ![i] =
          [f \in FamilyNames |->
             IF f \in Fed(c) THEN @[f] + counterRate(prev[i], read[c]) ELSE @[f]]]
  /\ read' = Restrict(read, DOMAIN read \ {c})
  /\ UNCHANGED <<running, requests, restarts, targets, waiting>>

Next ==
  \/ \E c \in Containers : Request(c) \/ Stop(c) \/ Start(c) \/ Scrape(c) \/ Build(c)
  \/ Discover
  \/ BeginScrape

Spec == Init /\ [][Next]_vars

-------------------------------------------------------------------------------
(* How a sample is read: what it is taken for, by the name it has, and how *)
(* the latencies of a point come out of histograms, gauges and defaults.   *)
(*                                                                         *)
(* A name is the set of the telling words in it, and its suffix.  Rates    *)
(* and bounds are whole numbers; latencies are in hundredths of a          *)
(* millisecond; the bound of the last bucket is Inf.                       *)

Words == {"client", "outbound", "dependency", "spanmetrics_calls", "spanmetrics_duration",
          "duration", "latency", "requests"}
Suffixes == {"_bucket", "_sum", "_count", "_created", "_total", ""}

(* A name with the duration of spans has the word duration in it, and one  *)
(* with their calls ends in calls_total.                                   *)
Names == {n \in [words : SUBSET Words, suffix : Suffixes] :
            /\ "spanmetrics_duration" \in n.words => "duration" \in n.words
            /\ "spanmetrics_calls" \in n.words => "requests" \notin n.words}

Outward(n) == n.words \cap {"client", "outbound", "dependency"} # {}
HistogramPart(n) == n.suffix \in {"_bucket", "_sum", "_count"}

isServerRequestCounter(n) ==
  /\ n.suffix \notin {"_bucket", "_sum", "_created"} /\ ~Outward(n)
  /\ "requests" \in n.words /\ n.suffix = "_total"

isClientRequestCounter(n) ==
  /\ n.suffix \notin {"_bucket", "_sum", "_created"}
  /\ ("spanmetrics_calls" \in n.words \/ Outward(n)) /\ n.suffix = "_total"

(* Slip: histograms of calls to others are not told apart. *)
isServerLatencyHistogram_All(n) ==
  HistogramPart(n) /\ n.words \cap {"duration", "latency"} # {}

isServerLatencyHistogram(n) ==
  HistogramPart(n) /\ ~Outward(n) /\ n.words \cap {"duration", "latency"} # {}

isClientLatencyHistogram(n) ==
  HistogramPart(n) /\ ("spanmetrics_duration" \in n.words \/ Outward(n))

(* The readers of a sample in a scrape, each of which takes a rate. *)
Readers(n) ==
  {r \in {"server", "histogram", "client", "client histogram"} :
     CASE r = "server"           -> isServerRequestCounter(n)
       [] r = "histogram"        -> isServerLatencyHistogram(n)
       [] r = "client"           -> isClientRequestCounter(n)
       [] r = "client histogram" -> isClientLatencyHistogram(n)}

-------------------------------------------------------------------------------
(* Latencies *)

Inf == 1000000

(* Slip: what is below the bucket is not taken off its rank. *)
Share_Whole(rank, below, count, width) == (rank * width) \div (count - below)

Share(rank, below, count, width) == ((rank - below) * width) \div (count - below)

(* The rank is looked for in the buckets as they are, which need not be    *)
(* cumulative: each has the rate of the series that were seen before.  In  *)
(* the bucket found it lies proportionally between the bounds.             *)
histogramQuantile(q, buckets) ==
  LET bounds == DOMAIN buckets
      total == IF Inf \in bounds THEN buckets[Inf] ELSE Max({0} \cup {buckets[b] : b \in bounds})
      reached == {b \in bounds : 100 * buckets[b] >= q * total}
      bound == IF reached = {} THEN Inf ELSE Min(reached)
      prevBound == Max({0} \cup {b \in bounds : b < bound})
      prevCount == IF prevBound = 0 THEN 0 ELSE buckets[prevBound]
  IN  IF total = 0 THEN 0
      ELSE IF bound = Inf THEN 100 * prevBound
      ELSE 100 * prevBound + Share(q * total, 100 * prevCount, 100 * buckets[bound], 100 * (bound - prevBound))

(* The latencies of a point: the histogram's, or else a gauge's (0: there  *)
(* is none), or else made up from the mean.                                *)
Latency(mean, buckets, gauge, rate) ==
  LET Else(a, b) == IF a > 0 THEN a ELSE b
      m0 == Else(mean, gauge.mean)
      m  == IF m0 = 0 /\ rate > 0 THEN 10 ELSE m0
      p50 == Else(Else(histogramQuantile(50, buckets), gauge.p50), m)
      p95 == Else(Else(histogramQuantile(95, buckets), gauge.p95), (3 * m) \div 2)
      p99 == Else(Else(histogramQuantile(99, buckets), gauge.p99), (6 * p95) \div 5)
  IN  [mean |-> m, p50 |-> p50, p95 |-> p95, p99 |-> p99]

-------------------------------------------------------------------------------
(* Properties *)

(* For a service with one container the increments reported, over all      *)
(* families, never exceed the requests made to it, through restarts of the *)
(* container, failed scrapes and failed discoveries.  (Containers that     *)
(* share a service id share one entry of prev, and then they can exceed    *)
(* them by far.)                                                           *)
NeverOvercounts ==
  \A c \in Containers :
    (\A x \in Containers : ServiceOf[x] = ServiceOf[c] => x = c) =>
       counted[ServiceOf[c]]["server"] + counted[ServiceOf[c]]["client"] <= requests[c]

(* A sample has at most one reader, and the rate that a reader takes is    *)
(* never lost to one before; the durations of spans have two, and it is    *)
(* the second, the latency of calls, that comes off empty.                 *)
OneReader ==
  \A n \in Names :
    Cardinality(Readers(n)) > 1 =>
       Readers(n) = {"histogram", "client histogram"} /\ "spanmetrics_duration" \in n.words

(* Whatever rates the buckets have, without gauges the percentiles of a    *)
(* point are in order; those of a histogram lie within its finite bounds,  *)
(* and a share of the requests is at or below each of them: the rate of    *)
(* the bucket a percentile lies in reaches its rank.                       *)
LatencyInOrder(Bounds, Rates, Means) ==
  \A bs \in SUBSET (Bounds \cup {Inf}) : \A buckets \in [bs -> Rates] : \A mean \in Means :
    LET l == Latency(mean, buckets, [mean |-> 0, p50 |-> 0, p95 |-> 0, p99 |-> 0], 1)
        top == Max({0} \cup (bs \ {Inf}))
        h == histogramQuantile(99, buckets)
    IN  /\ l.p50 <= l.p95 /\ l.p95 <= l.p99
        /\ h <= 100 * top
        /\ \A q \in {50, 95, 99}, b \in bs \ {Inf} :
             100 * b < histogramQuantile(q, buckets) /\ Inf \in bs =>
                100 * buckets[b] < q * buckets[Inf]
===============================================================================
