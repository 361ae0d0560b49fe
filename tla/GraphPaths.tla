------------------------------- MODULE GraphPaths -----------------------------
(***************************************************************************)
(* What is read off the service graph in a tick: its critical path         *)
(* (internal/topology/graph.go), the amplification path and the reach of a *)
(* service (internal/modelling/topology_sensitivity.go), and the depth of  *)
(* the callers above one (internal/modelling/network.go).                  *)
(*                                                                         *)
(* Both paths are found by relaxing the edges once for every node.  The    *)
(* edges are in a map of maps, so that the sources come in another order   *)
(* in each pass.  Weights are whole numbers up to Top, which stands for 1; *)
(* the logarithm of w is w - Top, at most 0 as in the code.  A service     *)
(* does not call itself.  An edge may lead to a node that has been pruned. *)
(***************************************************************************)
EXTENDS Integers, Sequences, FiniteSets, FiniteSetsExt, SequencesExt

CONSTANTS Ids,          (* services                                         *)
          Weights,      (* weights of edges, in 1 .. Top                    *)
          Top,
          ReachHops,    (* 4 in the code                                    *)
          DepthHops     (* 6 in the code                                    *)

VARIABLES
  kind,     (* the path looked for: "critical" or "amplification"           *)
  nodes,    (* the nodes of the graph                                       *)
  weight,   (* edge -> its weight; 0: no edge                               *)
  pass,     (* passes made                                                  *)
  todo,     (* sources left in this pass                                    *)
  dist, prev,
  known,    (* the keys of dist                                             *)
  found     (* the path and its weight, once found                          *)

vars == <<kind, nodes, weight, pass, todo, dist, prev, known, found>>

Pairs == {e \in Ids \X Ids : e[1] # e[2]}
Nothing == [path |-> <<>>, total |-> 0]
NotYet == [path |-> <<>>, total |-> -1]

Sources == {s \in Ids : \E t \in Ids : <<s, t>> \in Pairs /\ weight[<<s, t>>] > 0}

Init ==
  /\ kind \in {"critical", "amplification"}
  /\ nodes \in SUBSET Ids \ {{}}
  /\ weight \in [Pairs -> Weights \cup {0}]
  /\ \A s \in Sources : s \in nodes    (* a pruned node takes its edges along *)
  /\ pass = 0
  /\ todo = {}
  /\ dist = [i \in Ids |-> 0]
  /\ prev = [i \in Ids |-> "none"]
  /\ known = IF kind = "critical" THEN nodes ELSE {}
  /\ found = NotYet

(* What an edge adds to a path: its weight, or the logarithm of it. *)
Gain(e) == IF kind = "critical" THEN weight[e] ELSE weight[e] - Top

(* Slip: one pass is taken to be enough.                                   *)
Passes_One == 1

Passes == Cardinality(nodes)

BeginPass ==
  /\ found = NotYet /\ todo = {} /\ pass < Passes
  /\ pass' = pass + 1
  /\ todo' = Sources
  /\ UNCHANGED <<kind, nodes, weight, dist, prev, known, found>>

(* The edges of one source. *)
Relax(s) ==
  /\ s \in todo
  /\ todo' = todo \ {s}
  /\ LET better == {t \in Ids : /\ <<s, t>> \in Pairs /\ weight[<<s, t>>] > 0
                                /\ dist[s] + Gain(<<s, t>>) > dist[t]}
     IN  /\ dist' = [t \in Ids |-> IF t \in better THEN dist[s] + Gain(<<s, t>>) ELSE dist[t]]
         /\ prev' = [t \in Ids |-> IF t \in better THEN s ELSE prev[t]]
         /\ known' = known \cup better
  /\ UNCHANGED <<kind, nodes, weight, pass, found>>

(* The path is read back from its end until a node has no predecessor or   *)
(* has been met: back[n] is what is read in at most n steps.               *)
PathTo(end) ==
  LET back[n \in 0 .. Cardinality(Ids)] ==
        IF n = 0 THEN <<end>>
        ELSE LET path == back[n - 1]
                 p == prev[Head(path)]
             IN  IF p = "none" \/ p \in ToSet(path) THEN path ELSE <<p>> \o path
  IN  back[Cardinality(Ids)]

(* The farthest ends of paths; a map gives them in any order. *)
Ends == {i \in known : \A j \in known : dist[j] <= dist[i]}

Passed == found = NotYet /\ todo = {} /\ pass = Passes

(* When no node is farther than another the critical path is the one with  *)
(* the highest load (any, here), if one has a load.                        *)
FinishCritical ==
  /\ Passed /\ kind = "critical"
  /\ \E end \in Ends :
       IF dist[end] = 0
       THEN found' \in {Nothing, [path |-> <<end>>, total |-> 0]}
       ELSE found' = [path |-> PathTo(end), total |-> dist[end]]
  /\ UNCHANGED <<kind, nodes, weight, pass, todo, dist, prev, known>>

FinishAmplification ==
  /\ Passed /\ kind = "amplification"
  /\ IF known = {} THEN found' = Nothing
     ELSE \E end \in Ends : found' = [path |-> PathTo(end), total |-> dist[end]]
  /\ UNCHANGED <<kind, nodes, weight, pass, todo, dist, prev, known>>

Next == BeginPass \/ (\E s \in Ids : Relax(s)) \/ FinishCritical \/ FinishAmplification

Spec == Init /\ [][Next]_vars

-------------------------------------------------------------------------------
(* Reach and depth *)

Callees(i) == {t \in Ids : <<i, t>> \in Pairs /\ weight[<<i, t>>] > 0}
Callers(i) == {s \in Ids : <<s, i>> \in Pairs /\ weight[<<s, i>>] > 0}

(* Slip: the queue of a level takes in nodes that were met before, and     *)
(* the levels are not counted.                                             *)
reachCount_Deep(start) ==
  LET visited[n \in 0 .. Cardinality(Ids)] ==
        IF n = 0 THEN {start}
        ELSE visited[n - 1] \cup UNION {Callees(i) : i \in visited[n - 1]}
  IN  Cardinality(visited[Cardinality(Ids)]) - 1

(* reachCount: breadth first, the queue of each level being the nodes that *)
(* were met in it; start is not counted.                                   *)
reachCount(start) ==
  LET level[n \in 0 .. ReachHops] ==
        IF n = 0 THEN [visited |-> {start}, queue |-> {start}]
        ELSE LET l == level[n - 1]
                 next == UNION {Callees(i) : i \in l.queue} \ l.visited
             IN  [visited |-> l.visited \cup next, queue |-> next]
  IN  Cardinality(level[ReachHops].visited) - 1

Through(i) == MapThenSumSet(LAMBDA t : weight[<<i, t>>], Callees(i))
                + MapThenSumSet(LAMBDA s : weight[<<s, i>>], Callers(i))

(* ComputeTopologySensitivity: the weight through a service is measured    *)
(* against the most there is through one that calls.                       *)
IsKeystone(i) ==
  LET maxWeight == Max({Top} \cup {Through(s) : s \in Sources})
  IN  10 * Through(i) > 6 * maxWeight \/ reachCount(i) > Cardinality(nodes) \div 2

(* upstreamDepth: depth first, with the nodes on the way marked. *)
upstreamDepth(node) ==
  LET depth[n \in 0 .. DepthHops, i \in Ids, visited \in SUBSET Ids] ==
        IF n = DepthHops \/ i \in visited THEN n
        ELSE Max({n} \cup {depth[n + 1, s, visited \cup {i}] : s \in Callers(i)})
  IN  depth[0, node, {}]

-------------------------------------------------------------------------------
(* Properties *)

(* The simple paths of the graph, and their weights. *)
SimplePaths ==
  {p \in UNION {[1 .. n -> Ids] : n \in 1 .. Cardinality(Ids)} :
     /\ \A i, j \in DOMAIN p : i # j => p[i] # p[j]
     /\ \A i \in 1 .. Len(p) - 1 : weight[<<p[i], p[i + 1]>>] > 0}
WeightOf(p) == MapThenSumSet(LAMBDA i : weight[<<p[i], p[i + 1]>>], 1 .. Len(p) - 1)
Acyclic == \A p \in SimplePaths : Len(p) > 1 => weight[<<p[Len(p)], p[1]>>] = 0
Closed == \A s, t \in Ids : t \in Callees(s) => t \in nodes

(* Whatever order the sources come in, the critical path is a simple path  *)
(* of the graph, and its weight at least that of every simple path, unless *)
(* an edge leads to a node that was pruned; without cycles it is the       *)
(* heaviest path there is.                                                 *)
LongestFound ==
  found # NotYet /\ kind = "critical" =>
    /\ found.path \in SimplePaths \/ (found = Nothing /\ (Closed => Sources = {}))
    /\ Closed => \A p \in SimplePaths : WeightOf(p) <= found.total
    /\ Closed /\ Acyclic /\ found # Nothing => WeightOf(found.path) = found.total

(* The chains of distinct services that end at one, the last of which may  *)
(* be one of the chain: what the depth above a service measures.           *)
ChainLengths(i) ==
  {Len(p) - 1 : p \in {q \in SimplePaths : q[Len(q)] = i}}
    \cup {Len(p) : p \in {q \in SimplePaths : q[Len(q)] = i /\ Callers(q[1]) \cap ToSet(q) # {}}}

(* The reach of a service is the number of others within ReachHops calls   *)
(* of it, the depth above it the length of the longest chain of callers,   *)
(* at most DepthHops, however the graph is connected.  A service that as   *)
(* much passes through as through any, and at least a whole call for each  *)
(* request, is a keystone.                                                 *)
ReachAndDepth ==
  pass = 0 =>
    /\ \A i \in nodes : Through(i) >= Top /\ ~IsKeystone(i) =>
          \E j \in nodes \ {i} : Through(j) > Through(i)
    /\ \A i \in Ids :
      /\ reachCount(i) = Cardinality({j \in Ids \ {i} : \E p \in SimplePaths :
                            p[1] = i /\ p[Len(p)] = j /\ Len(p) - 1 <= ReachHops})
      /\ upstreamDepth(i) = Min({Max(ChainLengths(i)), DepthHops})

(* "MaxAmplificationPath: the service chain with the highest cumulative    *)
(* amplification potential": a graph with an edge has one.                 *)
AmplificationFound ==
  found # NotYet /\ kind = "amplification" /\ Sources # {} => found.path # <<>>
===============================================================================
