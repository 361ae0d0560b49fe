--------------------------- MODULE ExperienceBuffer ---------------------------
(***************************************************************************)
(* The prioritised replay buffer of the intelligence layer: slots, a tree  *)
(* of priorities kept in an array, and the indices by episode and regime.  *)
(* Priorities are whole multiples of the least one.                        *)
(***************************************************************************)
EXTENDS Integers, FiniteSets

CONSTANTS capacity, Priorities, Episodes,
          MaxAdds      (* bound: experiences added in a behaviour           *)

(* The least power of two that is not below the capacity. *)
base == CHOOSE b \in {2 ^ k : k \in 0 .. capacity} :
          /\ b >= capacity
          /\ \A c \in {2 ^ k : k \in 0 .. capacity} : c >= capacity => b <= c

Cells == 0 .. capacity - 1
Nodes == 1 .. 2 * base - 1

VARIABLES
  size,          (* experiences added, beyond the capacity too              *)
  data,          (* cell -> the experience it holds: episode, done          *)
  tree,          (* node -> the sum of the priorities below it              *)
  episodeSlots,  (* episode -> the cells that hold its experiences          *)
  held           (* history: cell -> the priority of what it holds          *)

vars == <<size, data, tree, episodeSlots, held>>

Init ==
  /\ size = 0
  /\ data = [c \in Cells |-> [episode |-> 0, done |-> FALSE]]
  /\ tree = [n \in Nodes |-> 0]
  /\ episodeSlots = [e \in Episodes \cup {0} |-> {}]
  /\ held = [c \in Cells |-> 0]

(* A full buffer gives up the next cell that ends an episode, if there is  *)
(* one, before the next cell in turn.                                      *)
nextInsertIndex ==
  LET turn(i) == (size + i) % capacity
      done == {i \in 0 .. capacity - 1 : data[turn(i)].done}
  IN  IF size < capacity THEN size
      ELSE IF done = {} THEN turn(0)
      ELSE turn(CHOOSE i \in done : \A j \in done : i <= j)

(* Slip: the way up stops below the root.                                  *)
updateTree_BelowRoot(cell, p) ==
  LET leaf == cell + base
      up[n \in Nodes] == IF n = leaf THEN p
                         ELSE IF n >= base \/ n = 1 THEN tree[n] ELSE up[2 * n] + up[2 * n + 1]
  IN  [n \in Nodes |-> IF \E k \in 0 .. base : leaf \div (2 ^ k) = n THEN up[n] ELSE tree[n]]

(* The leaf is set and every node above it added up anew. *)
updateTree(cell, p) ==
  LET leaf == cell + base
      up[n \in Nodes] == IF n = leaf THEN p
                         ELSE IF n >= base THEN tree[n] ELSE up[2 * n] + up[2 * n + 1]
  IN  [n \in Nodes |-> IF \E k \in 0 .. base : leaf \div (2 ^ k) = n THEN up[n] ELSE tree[n]]

(* The cell a draw v of 1 .. tree[1] falls to. *)
sampleTree(v) ==
  LET walk[n \in Nodes, w \in 0 .. v] ==
        IF n >= base THEN n - base
        ELSE IF w <= tree[2 * n] THEN walk[2 * n, w] ELSE walk[2 * n + 1, w - tree[2 * n]]
  IN  walk[1, v]

(* Add.  An experience of episode 0 is never taken out of its index. *)
Add(e, done, p) ==
  LET cell == nextInsertIndex
      old == data[cell].episode
      removed == IF old = 0 THEN episodeSlots ELSE [episodeSlots EXCEPT ![old] = @ \ {cell}]
  IN  /\ size < MaxAdds
      /\ data' = [data EXCEPT ![cell] = [episode |-> e, done |-> done]]
      /\ tree' = updateTree(cell, p)
      /\ episodeSlots' = [removed EXCEPT ![e] = @ \cup {cell}]
      /\ held' = [held EXCEPT ![cell] = p]
      /\ size' = size + 1

Next == \E e \in Episodes \cup {0}, done \in BOOLEAN, p \in Priorities : Add(e, done, p)

Spec == Init /\ [][Next]_vars

-------------------------------------------------------------------------------
(* Properties *)

(* However experiences overwrote each other, a draw falls to each cell as  *)
(* often as its experience's priority says, so that no draw falls to an    *)
(* empty cell or beyond the capacity, which need not be a power of two;    *)
(* and the index of an episode names exactly the cells that hold it.       *)
SamplesByPriority ==
  /\ \A c \in Cells : Cardinality({v \in 1 .. tree[1] : sampleTree(v) = c}) = held[c]
  /\ \A v \in 1 .. tree[1] : sampleTree(v) \in Cells
  /\ \A e \in Episodes : episodeSlots[e] = {c \in Cells : held[c] # 0 /\ data[c].episode = e}
===============================================================================
