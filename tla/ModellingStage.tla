----------------------------- MODULE ModellingStage ---------------------------
(***************************************************************************)
(* The modelling stage of a tick (internal/runtime/orchestrator.go with    *)
(* internal/modelling): the network field is advanced over the windows of  *)
(* the first query, then a pool of goroutines, one for each observed       *)
(* window and at most WorkerPoolSize at a time, runs the queue model and   *)
(* the signal filter.  Both keep a state per service across ticks, found   *)
(* under a lock and changed without one.  Guards around the stage fill in  *)
(* what is missing, and on the first tick make every model once more.      *)
(*                                                                         *)
(* Of the queue model's state the time it has accumulated over is kept, of *)
(* the filter's the number of observations.  A write to either is a read   *)
(* and a later assignment.                                                 *)
(***************************************************************************)
EXTENDS Integers, FiniteSets

CONSTANTS Services,
          WorkerPoolSize,
          MaxTicks      (* bound: ticks of a behaviour                      *)

VARIABLES
  tick,         (* ticks so far                                             *)
  pc,           (* "idle", "pool" or "guards"                               *)
  windows,      (* the windows of the first query                           *)
  observed,     (* observedWindows                                          *)
  todo,         (* observed services whose goroutine has not been started   *)
  worker,       (* service -> where its goroutine is, and what it has read  *)
  physics,      (* service -> runs of its queue model; -1: no state         *)
  filter,       (* service -> observations of its filter; -1: no state      *)
  bundles,      (* service -> the tick its bundle was made in; 0: none      *)
  present       (* history: service -> ticks it was observed in a row,      *)
                (* and whether the first tick was one of them               *)

vars == <<tick, pc, windows, observed, todo, worker, physics, filter, bundles, present>>

Off == [at |-> "off", read |-> 0]

Init ==
  /\ tick = 0
  /\ pc = "idle"
  /\ windows = {} /\ observed = {} /\ todo = {}
  /\ worker = [s \in Services |-> Off]
  /\ physics = [s \in Services |-> -1]
  /\ filter = [s \in Services |-> -1]
  /\ bundles = [s \in Services |-> 0]
  /\ present = [s \in Services |-> [ticks |-> 0, first |-> FALSE]]

(* A state is made when it is asked for, and used by whoever holds it. *)
Found(states, s) == IF states[s] = -1 THEN 0 ELSE states[s]

(* The field is given the queue model of every window of the first query;  *)
(* the model accumulates while it is at it.  The windows observed are      *)
(* these, or those of a shorter query made since.                          *)
PopulateNetworkField(ws, os) ==
  /\ pc = "idle"
  /\ tick < MaxTicks
  /\ ws # {} => os # {}
  /\ tick' = tick + 1
  /\ windows' = ws /\ observed' = os /\ todo' = os
  /\ physics' = [s \in Services |-> IF s \in ws THEN Found(physics, s) + 1 ELSE physics[s]]
  /\ bundles' = [s \in Services |-> 0]
  /\ present' = [s \in Services |->
       IF s \notin os THEN [ticks |-> 0, first |-> FALSE]
       ELSE [ticks |-> present[s].ticks + 1, first |-> tick' = 1 \/ present[s].first]]
  /\ pc' = "pool"
  /\ UNCHANGED <<worker, filter>>

(* The semaphore. *)
PlaceFree == Cardinality({s \in Services : worker[s].at # "off"}) < WorkerPoolSize

(* The goroutine finds the state of its service's queue model. *)
Start(s) ==
  /\ pc = "pool" /\ s \in todo
  /\ PlaceFree
  /\ todo' = todo \ {s}
  /\ physics' = [physics EXCEPT ![s] = Found(physics, s)]
  /\ worker' = [worker EXCEPT ![s] = [at |-> "queue", read |-> Found(physics, s)]]
  /\ UNCHANGED <<tick, pc, windows, observed, filter, bundles, present>>

RunQueueModel(s) ==
  /\ worker[s].at = "queue"
  /\ physics' = [physics EXCEPT ![s] = worker[s].read + 1]
  /\ filter' = [filter EXCEPT ![s] = Found(filter, s)]
  /\ worker' = [worker EXCEPT ![s] = [at |-> "signal", read |-> Found(filter, s)]]
  /\ UNCHANGED <<tick, pc, windows, observed, todo, bundles, present>>

Update(s) ==
  /\ worker[s].at = "signal"
  /\ filter' = [filter EXCEPT ![s] = worker[s].read + 1]
  /\ worker' = [worker EXCEPT ![s].at = "bundle"]
  /\ UNCHANGED <<tick, pc, windows, observed, todo, physics, bundles, present>>

(* The bundle is put down under the lock, and the place given back. *)
PutBundle(s) ==
  /\ worker[s].at = "bundle"
  /\ bundles' = [bundles EXCEPT ![s] = tick]
  /\ worker' = [worker EXCEPT ![s] = Off]
  /\ UNCHANGED <<tick, pc, windows, observed, todo, physics, filter, present>>

(* Slip: the states of services without a window stay. *)
Prune_Never(states) == states

Prune(states) == [s \in Services |-> IF s \in observed THEN states[s] ELSE -1]

Wait ==
  /\ pc = "pool"
  /\ todo = {} /\ \A s \in Services : worker[s].at = "off"
  /\ physics' = Prune(physics)
  /\ filter' = Prune(filter)
  /\ pc' = "guards"
  /\ UNCHANGED <<tick, windows, observed, todo, worker, bundles, present>>

(* On the first tick every model is made once more, for a broadcast ahead  *)
(* of the tick's own; then a bundle is made for each window without one.   *)
Guards ==
  /\ pc = "guards"
  /\ LET again == IF tick = 1 THEN observed ELSE {}
         missing == {s \in observed : bundles[s] = 0}
         Runs(s) == (IF s \in again THEN 1 ELSE 0) + (IF s \in missing THEN 1 ELSE 0)
     IN  /\ physics' = [s \in Services |-> physics[s] + Runs(s)]
         /\ filter' = [s \in Services |-> filter[s] + Runs(s)]
         /\ bundles' = [s \in Services |-> IF s \in missing THEN tick ELSE bundles[s]]
  /\ pc' = "idle"
  /\ UNCHANGED <<tick, windows, observed, todo, worker, present>>

Next ==
  \/ \E ws, os \in SUBSET Services : PopulateNetworkField(ws, os)
  \/ \E s \in Services : Start(s) \/ RunQueueModel(s) \/ Update(s) \/ PutBundle(s)
  \/ Wait \/ Guards

Spec == Init /\ [][Next]_vars

-------------------------------------------------------------------------------
(* Properties *)

(* After a tick every observed service has a bundle of this tick and a     *)
(* filter that has seen it once in each tick it was observed in since it   *)
(* last was not, and twice in the first tick of all: no update is lost to  *)
(* another goroutine, and a service that comes back starts anew.  The      *)
(* queue model has run once or twice a tick, since the field runs it too.  *)
(* No state is kept for a service that is gone.                            *)
ModelledOnce ==
  pc = "idle" =>
    \A s \in Services :
      LET p == present[s]
          seen == p.ticks + (IF p.first THEN 1 ELSE 0)
      IN  IF s \in observed
          THEN /\ bundles[s] = tick
               /\ filter[s] = seen
               /\ seen <= physics[s] /\ physics[s] <= seen + p.ticks + 1
          ELSE bundles[s] = 0 /\ filter[s] = -1 /\ physics[s] = -1
===============================================================================
