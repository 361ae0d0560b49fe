----------------------------- MODULE TickPipeline -----------------------------
(***************************************************************************)
(* What one tick of the engine carries from the telemetry to the           *)
(* dashboard (internal/runtime/orchestrator.go tick, with the topology     *)
(* graph, the topology diffs and the simulation runner it drives): the     *)
(* windows, the graph built from them, the model bundles, the simulation   *)
(* submitted and the result taken up, and the payload that is broadcast.   *)
(*                                                                         *)
(* The telemetry, the runs of the simulation and the control requests go   *)
(* on between the stages.  What the models compute is left out; of the     *)
(* graph the nodes and edges are kept, with the age of a node in ticks and *)
(* the weight of an edge in three levels.  A run of the simulation ends    *)
(* before the next tick begins: its budget (45 ms) is far below the        *)
(* shortest interval (1 s).                                                *)
(***************************************************************************)
EXTENDS Integers, Sequences, FiniteSets, Functions

CONSTANTS Services,       (* services that send telemetry                     *)
          Deps,           (* the services each of them calls                  *)
          maxNodes,       (* cap of the graph                                 *)
          NodeStaleAge,   (* ticks after which an unseen node is dropped      *)
          simInterval,
          AsyncBuffer,    (* results the runner's channel holds               *)
          MaxTicks        (* bound: ticks in a behaviour                      *)

Nodes == Services \cup UNION {Deps[s] : s \in Services}
None == 0

VARIABLES
  tick,       (* tickCount                                                    *)
  pc,         (* stage of the tick                                            *)
  windows,    (* the services this tick's first query found windows of        *)
  observed,   (* observedWindows                                              *)
  nodes,      (* the graph's nodes: their ages                                *)
  edges,      (* the graph's edges: their weights, 2 being within snapshots   *)
  skip,       (* this tick's skipSim and skipPredDiff                         *)
  forced,     (* forcedSimulation                                             *)
  prevTopo,   (* the snapshot of the last diff                                *)
  running,    (* submissions whose run has not ended: their ticks             *)
  results,    (* the runner's channel                                         *)
  lastSim,    (* lastSimResult: the tick it was submitted in, or None         *)
  overlayAge, (* simOverlayAge                                                *)
  resetRequested,
  forcedUntil,
  view,       (* a client that has applied every diff so far                  *)
  calm        (* history: ticks since simulation was last forced or skipped,  *)
              (* counted to simInterval + 1                                   *)

vars == <<tick, pc, windows, observed, nodes, edges, skip, forced, prevTopo, running,
          results, lastSim, overlayAge, resetRequested, forcedUntil, view, calm>>

graph == <<nodes, edges>>
sim == <<running, results, lastSim, overlayAge>>
control == <<resetRequested, forcedUntil>>
output == <<prevTopo, view, calm>>

NoGraph == [nodes |-> {}, edges |-> {}]

Init ==
  /\ tick = 0
  /\ pc = "idle"
  /\ windows = {} /\ observed = {}
  /\ nodes = << >> /\ edges = << >>
  /\ skip = [sim |-> FALSE, diff |-> FALSE]
  /\ forced = FALSE
  /\ prevTopo = NoGraph
  /\ running = {}
  /\ results = <<>>
  /\ lastSim = None
  /\ overlayAge = 0
  /\ resetRequested = FALSE
  /\ forcedUntil = 0
  /\ view = NoGraph
  /\ calm = 0

-------------------------------------------------------------------------------
(* Around the tick *)

RequestSimulationReset ==
  /\ ~resetRequested
  /\ resetRequested' = TRUE
  /\ UNCHANGED <<tick, pc, windows, observed, graph, skip, forced, sim, forcedUntil, output>>

(* Counted from the last tick that has ended; zero takes the request back. *)
ForceSimulation(duration) ==
  /\ forcedUntil' = IF duration = 0 THEN 0
                    ELSE (IF pc = "idle" THEN tick ELSE tick - 1) + duration
  /\ forcedUntil' # forcedUntil
  /\ UNCHANGED <<tick, pc, windows, observed, graph, skip, forced, sim, resetRequested, output>>

(* A run sends its result, or drops it when the channel is full. *)
RunEnds(r) ==
  /\ r \in running
  /\ running' = running \ {r}
  /\ results' = IF Len(results) < AsyncBuffer THEN Append(results, r) ELSE results
  /\ UNCHANGED <<tick, pc, windows, observed, graph, skip, forced, lastSim, overlayAge,
                 control, output>>

-------------------------------------------------------------------------------
(* The stages *)

(* Prune and query, whatever has arrived and aged by then; the reset; is   *)
(* simulation forced?                                                      *)
CollectWindows ==
  /\ pc = "idle"
  /\ running = {}
  /\ tick < MaxTicks
  /\ tick' = tick + 1
  /\ windows' \in SUBSET Services
  /\ resetRequested' = FALSE
  /\ IF resetRequested THEN lastSim' = None /\ overlayAge' = 0 ELSE UNCHANGED <<lastSim, overlayAge>>
  /\ forced' = (forcedUntil > 0 /\ tick' <= forcedUntil)
  /\ pc' = "observe"
  /\ UNCHANGED <<observed, graph, skip, running, results, forcedUntil, output>>

(* Slip: the reduced windows replace the first ones also when there are none. *)
Requeried_Blindly == SUBSET Services

(* Few samples or pressure make the tick query the store again, with a     *)
(* shorter window: what it finds replaces the first windows unless it      *)
(* finds nothing.                                                          *)
Requeried == {windows} \cup ((SUBSET Services) \ {{}})

(* Graph.Update: nodes of the observed services, then those they call, as  *)
(* long as there is room.  Only the former are seen again each time.       *)
Admissible(seen, called) ==
  {new \in SUBSET ((seen \cup called) \ DOMAIN nodes) :
     /\ Cardinality(DOMAIN nodes) + Cardinality(new) <= maxNodes \/ new = {}
     /\ \A n \in (seen \cup called) \ (DOMAIN nodes \cup new) :
          /\ Cardinality(DOMAIN nodes \cup new) >= maxNodes
          /\ n \in seen => new \subseteq seen}

UpdateNodes(seen, called) ==
  \E new \in Admissible(seen, called) :
    LET aged == [n \in DOMAIN nodes \cup new |->
                   IF n \in seen \cup new THEN 0 ELSE nodes[n] + 1]
    IN  nodes' = Restrict(aged, {n \in DOMAIN aged : aged[n] <= NodeStaleAge})

(* An edge that is seen has the weight of its calls; one that is not       *)
(* decays, sooner or later to the next level, and is deleted below the     *)
(* least; the edges out of a node that is dropped go with it.              *)
UpdateEdges(calls, weight, falls) ==
  LET decayed == [e \in DOMAIN edges \cup calls |->
                    IF e \in calls THEN weight[e]
                    ELSE IF e \in falls THEN edges[e] - 1 ELSE edges[e]]
  IN  edges' = Restrict(decayed, {e \in DOMAIN decayed :
                  /\ e \in calls \/ decayed[e] > 0
                  /\ e[1] \in DOMAIN nodes => e[1] \in DOMAIN nodes'})

Snapshot == [nodes |-> DOMAIN nodes, edges |-> {e \in DOMAIN edges : edges[e] = 2}]

Observe ==
  /\ pc = "observe"
  /\ \E o \in Requeried :
       /\ observed' = o
       /\ \E calls \in SUBSET {e \in Services \X Nodes : e[1] \in o /\ e[2] \in Deps[e[1]]} :
            /\ UpdateNodes(o, {e[2] : e \in calls})
            /\ \E weight \in [calls -> {1, 2}], falls \in SUBSET (DOMAIN edges \ calls) :
                 UpdateEdges(calls, weight, falls)
  /\ pc' = "decide"
  /\ UNCHANGED <<tick, windows, skip, forced, sim, control, output>>

(* Slip: every tick submits. *)
SubmitDue_Always(t) == TRUE

SubmitDue(t) == t % simInterval = 0

(* Submit takes one result off the channel, the oldest, before the run     *)
(* that is to replace it begins.                                           *)
Submit ==
  /\ results' = IF results = <<>> THEN results ELSE Tail(results)
  /\ running' = running \cup {tick}

(* Modelling, optimisation and the directives; then the simulation, unless *)
(* lateness, pressure or staleness tell to skip it.                        *)
Simulate ==
  /\ pc = "decide"
  /\ \E late, strained, stale \in BOOLEAN :
       /\ stale => strained
       /\ skip' = [sim |-> ~forced /\ (late \/ stale), diff |-> ~forced /\ (late \/ strained)]
  /\ IF ~skip'.sim /\ (SubmitDue(tick) \/ forced)
     THEN Submit
     ELSE UNCHANGED <<running, results>>
  /\ pc' = "publish"
  /\ UNCHANGED <<tick, windows, observed, graph, forced, lastSim, overlayAge, control, output>>

(* Latest takes the first result of the channel, if there is one. *)
TakeUp ==
  IF results = <<>>
  THEN overlayAge' = overlayAge + 1 /\ UNCHANGED <<results, lastSim>>
  ELSE lastSim' = Head(results) /\ overlayAge' = 0 /\ results' = Tail(results)

(* ComputeTopologyDiff: in full from nothing, or when more than half of    *)
(* the nodes have changed.                                                 *)
Diff(prev, curr) ==
  LET added   == curr.nodes \ prev.nodes
      removed == prev.nodes \ curr.nodes
      full    == \/ prev.nodes = {}
                 \/ Cardinality(added) + Cardinality(removed) > Cardinality(curr.nodes) \div 2
  IN  [full |-> full,
       addedNodes |-> IF full THEN curr.nodes ELSE added,
       removedNodes |-> IF full THEN {} ELSE removed,
       addedEdges |-> IF full THEN curr.edges ELSE curr.edges \ prev.edges,
       removedEdges |-> IF full THEN {} ELSE prev.edges \ curr.edges]

NoDiff == [full |-> FALSE, addedNodes |-> {}, removedNodes |-> {},
           addedEdges |-> {}, removedEdges |-> {}]

Applied(g, diff) ==
  IF diff.full THEN [nodes |-> diff.addedNodes, edges |-> diff.addedEdges]
  ELSE [nodes |-> (g.nodes \ diff.removedNodes) \cup diff.addedNodes,
        edges |-> (g.edges \ diff.removedEdges) \cup diff.addedEdges]

(* Slip: the snapshot is remembered also when no diff is sent. *)
PrevTopo_Always == Snapshot

PrevTopo == IF skip.diff THEN prevTopo ELSE Snapshot

Publish ==
  /\ pc = "publish"
  /\ TakeUp
  /\ prevTopo' = PrevTopo
  /\ view' = Applied(view, IF skip.diff THEN NoDiff ELSE Diff(prevTopo, Snapshot))
  /\ calm' = IF forced \/ skip.sim THEN 0 ELSE IF calm <= simInterval THEN calm + 1 ELSE calm
  /\ pc' = "idle"
  /\ windows' = {} /\ observed' = {}
  /\ skip' = [sim |-> FALSE, diff |-> FALSE] /\ forced' = FALSE
  /\ UNCHANGED <<tick, graph, running, control>>

Next ==
  \/ RequestSimulationReset
  \/ \E duration \in {0, 2} : ForceSimulation(duration)
  \/ \E r \in running : RunEnds(r)
  \/ CollectWindows \/ Observe \/ Simulate \/ Publish

Spec == Init /\ [][Next]_vars

-------------------------------------------------------------------------------
(* Properties *)

(* "If we have windows at this point, we MUST have bundles": a tick that   *)
(* found windows never broadcasts without bundles, though it queries the   *)
(* store again meanwhile, and every service it shows a bundle of is in the *)
(* topology of the same payload, as long as the cap of the graph holds     *)
(* them all.                                                               *)
PayloadComplete ==
  pc = "publish" =>
    /\ windows # {} => observed # {}
    /\ Cardinality(Nodes) <= maxNodes => observed \subseteq Snapshot.nodes

(* A client that applies every diff has the graph of the last snapshot a   *)
(* diff was made of, whichever ticks send none: what changed in those is   *)
(* in the next one.                                                        *)
ClientKnowsGraph == view = prevTopo

(* When none of the ticks of an interval and one more has forced or        *)
(* skipped the simulation, the result shown is at most one interval old:   *)
(* submitting at intervals leaves the result of each run a tick in which   *)
(* it is taken up before the next submission throws it away.               *)
FreshOverlay == pc = "idle" /\ calm = simInterval + 1 => overlayAge <= simInterval
===============================================================================
