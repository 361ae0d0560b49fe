---------------------------- MODULE MCObservation ----------------------------
(***************************************************************************)
(* The components of Observation and the pure parts, on small instances.   *)
(*                                                                         *)
(* They share no state that either of two would write while the other is   *)
(* between two steps (the windows and the tick meet in TelemetryStore, the *)
(* tick and the control requests in TickLoop).  So each is exercised       *)
(* alone: a behaviour has a part, and the others stay as they began.       *)
(***************************************************************************)
EXTENDS Observation

VARIABLE part

(* Two containers, one of them counting in two families; up to three requests
   each and one restart, with as many scrapes at a time as containers. *)
OwnService == [c \in Containers |-> c]
TwoFamilies == [c \in Containers |-> IF c = "web" THEN {"server", "client"} ELSE {"client"}]

(* A service and the one it calls: with four ticks there are two intervals of
   the simulation, and nodes that go stale and come back. *)
CallsDb == [s \in Services |-> {"db"}]

(* The pure parts beside the reading of samples: the windows made of points,
   and the overlays of a payload. *)
Numbers == INSTANCE ServiceWindow
  WITH NotFinite <- -1000000, maxReasonableRPS <- 50, maxReasonableLatencyMs <- 8000
Shown == INSTANCE Overlays WITH Threshold <- 85, TickSec <- 2, Horizon <- 8

(* Points with every kind of number in a window of one; and in longer ones,
   with and without traffic, connections, a queue to infer and calls. *)
Calls(rates) == {<<>>} \cup {<<[target |-> "db", rate |-> r]>> : r \in rates}
OnePoint == [rate : {-1000000, -1, 0, 7, 2000}, error : {-1000000, 50, 2000}, mean : {-1000000, 0, 40, 9000},
             p50 : {0, 20}, p95 : {0, 60}, p99 : {0}, conns : {-1, 0, 3}, queue : {0, 2},
             calls : Calls({-1000000, 5})]
ManyPoints == [rate : {0, 7}, error : {50}, mean : {0, 40, 9000}, p50 : {20}, p95 : {0}, p99 : {0},
               conns : {0, 3}, queue : {0}, calls : Calls({4})]

(* Services below, at and past every threshold the overlays compare with. *)
Shapes == [rho : {40, 63, 76, 80, 82, 85, 95, 100, 120}, trend : {-4, -1, 0, 1, 2, 4},
           hazard : {0}, reservoir : {0}, field : {-1, 30, 46, 50, 60},
           weights : {<<>>, <<80>>, <<0, 60, 90>>}, oscillation : {0}]
Runs == [saturated : {0, 50, 100}, stable : BOOLEAN, recovery : {-1, 0, 300, 900}]

-------------------------------------------------------------------------------
ofScrapes == <<containers, served, restarts, targets, waiting, read, prev, counted>>
ofIngests == <<arrays, pool, upload, uploads, stored>>
ofLimits == <<clock, requested, buckets, lastCleanup, passed>>
ofApi == <<req, count, ticking, done, auditBuf, auditHead, auditSize, logged>>
ofScenarios == <<tick, ScenarioMode, overlays, forceSimulationUntil, control, controls,
                 forcedBy, applied, peaked>>
ofTicks == <<cycle, pc, windows, observed, nodes, edges, skip, forced, prevTopo, runs, results,
             lastSim, overlayAge, resetRequested, forcedUntil, view, calm>>
ofAlerts == <<now, cooldownPeriod, cooldowns, due, held, fired>>

allVars == <<part, vars, ofScrapes, ofIngests, ofLimits, ofApi, ofScenarios, ofTicks, ofAlerts>>

(* Parts other than the scenarios have a mode that never changes. *)
InitAll ==
  /\ part \in {"window", "scraping", "ingest", "limits", "api", "scenarios", "tick", "alerts", "pure"}
  /\ Init /\ Scrapes!Init /\ Ingests!Init /\ Limits!Init /\ Api!Init /\ Scenarios!Init
  /\ Ticks!Init /\ Alerts!Init
  /\ part # "scenarios" => ScenarioMode = "on"

(* The steps of one part. *)
In(p) ==
  /\ part = p /\ UNCHANGED part
  /\ p # "window" => UNCHANGED vars
  /\ p # "scraping" => UNCHANGED ofScrapes
  /\ p # "ingest" => UNCHANGED ofIngests
  /\ p # "limits" => UNCHANGED ofLimits
  /\ p # "api" => UNCHANGED ofApi
  /\ p # "scenarios" => UNCHANGED ofScenarios
  /\ p # "tick" => UNCHANGED ofTicks
  /\ p # "alerts" => UNCHANGED ofAlerts

NextAll ==
  \/ In("window") /\ Next
  \/ In("scraping") /\ Scrapes!Next
  \/ In("ingest") /\ Ingests!Next
  \/ In("limits") /\ Limits!Next
  \/ In("api") /\ Api!Next
  \/ In("scenarios") /\ Scenarios!Next
  \/ In("tick") /\ Ticks!Next
  \/ In("alerts") /\ Alerts!Next

SpecAll == InitAll /\ [][NextAll]_allVars

-------------------------------------------------------------------------------
(* A sample has one reader, and the percentiles made of buckets are in     *)
(* order; a window can be worked with whatever numbers came in, and is     *)
(* called good only on enough recent points; a fuller service is never     *)
(* ranked behind a like one, the timelines agree with the predicted        *)
(* collapse, and a comparison brackets its runs.                           *)
NumbersTrue ==
  part = "pure" => /\ Scrapes!OneReader
                   /\ Scrapes!LatencyInOrder({10, 20, 50}, 0 .. 4, {0, 1000})
                   /\ Numbers!WindowUsable(OnePoint, {1})
                   /\ Numbers!WindowUsable(ManyPoints, {2, 3})
                   /\ Numbers!GoodMeansEnough(1 .. 60, {0, 500, 900, 1000}, 0 .. 6)
                   /\ Shown!RanksByRisk(Shapes, {0, 60}, {-10, 0, 20, 50})
                   /\ Shown!TimelinesAgree(Shapes)
                   /\ Shown!ComparisonBrackets(Runs)

(* The confidence of a window is between 0 and 1 ("composite signal        *)
(* quality [0,1]"), also when its sender's clock is ahead.                 *)
ConfidenceInRange ==
  part = "pure" => Numbers!ConfidenceInRange(1 .. 60, {0, 500, 900, 1000}, -12 .. 6)
==============================================================================
