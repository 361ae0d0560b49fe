------------------------------ MODULE RateLimiter -----------------------------
(***************************************************************************)
(* The token buckets every API request has to pass (internal/security).    *)
(* The API has two limiters, one for ingest and one for the control plane  *)
(* and the dashboard, which share nothing; this is one of them.  A request *)
(* reads the clock before it gets the lock, so that requests are counted   *)
(* out of the order of their stamps, and any of them may sweep the buckets *)
(* of all clients.                                                         *)
(***************************************************************************)
EXTENDS Integers

CONSTANTS Requests,      (* requests in flight at a time                    *)
          Clients,
          Watched,       (* the client whose requests are counted           *)
          capacity,      (* tokens of a full bucket                         *)
          refillRate,    (* tokens per unit of time                         *)
          idleTimeout,   (* the age at which a sweep drops a bucket         *)
          SweepEvery,    (* the time between sweeps: a minute in the code   *)
          MaxDelay,      (* bound: how long a request waits for the lock    *)
          MaxClock       (* bound: when the clock stops                     *)

VARIABLES
  clock,
  waiting,      (* request -> its client and stamp, or none                 *)
  buckets,      (* client -> its bucket, or none                            *)
  lastCleanup,  (* the time of the last sweep                               *)
  passed        (* history: window of time -> requests let through whose    *)
                (* stamps lie in it                                         *)

vars == <<clock, waiting, buckets, lastCleanup, passed>>

(* From its first moment to its last. *)
Windows == {w \in (0 .. MaxClock) \X (0 .. MaxClock) : w[1] <= w[2]}

NoBucket  == [tokens |-> -1, lastSeen |-> -1]
NoRequest == [client |-> "none", stamp |-> 0]

Init ==
  /\ clock = 0
  /\ waiting = [r \in Requests |-> NoRequest]
  /\ buckets = [c \in Clients |-> NoBucket]
  /\ lastCleanup = 0
  /\ passed = [w \in Windows |-> 0]

(* AuthMiddleware asks the limiter of the route's class, by address, ahead *)
(* of the token: what is refused for its token has been paid for.  Allow   *)
(* reads the clock and waits for the lock.                                 *)
Arrive(r, c) ==
  /\ waiting[r] = NoRequest
  /\ waiting' = [waiting EXCEPT ![r] = [client |-> c, stamp |-> clock]]
  /\ UNCHANGED <<clock, buckets, lastCleanup, passed>>

(* Slip: an idle bucket fills beyond its capacity.                         *)
Refilled_Unbounded(b, now) == b.tokens + (now - b.lastSeen) * refillRate

(* A stamp before lastSeen takes tokens away again. *)
Refilled(b, now) ==
  LET tokens == b.tokens + (now - b.lastSeen) * refillRate
  IN  IF tokens > capacity THEN capacity ELSE tokens

Found(c, now) ==
  IF buckets[c] = NoBucket THEN [tokens |-> capacity, lastSeen |-> now] ELSE buckets[c]

SweepDue(now) == now - lastCleanup >= SweepEvery

(* Slip: a sweep drops every bucket that is not being used.                *)
gcIfNeeded_All(bs, now) ==
  IF ~SweepDue(now) THEN bs
  ELSE [c \in Clients |-> IF now > bs[c].lastSeen THEN NoBucket ELSE bs[c]]

(* A sweep is made at most once in SweepEvery. *)
gcIfNeeded(bs, now) ==
  IF ~SweepDue(now) THEN bs
  ELSE [c \in Clients |-> IF now - bs[c].lastSeen > idleTimeout THEN NoBucket ELSE bs[c]]

(* Allow, under the lock. *)
Allow(r) ==
  LET c == waiting[r].client
      now == waiting[r].stamp
      tokens == Refilled(Found(c, now), now)
      left == IF tokens < 1 THEN tokens ELSE tokens - 1
  IN  /\ waiting[r] # NoRequest
      /\ buckets' = gcIfNeeded([buckets EXCEPT ![c] = [tokens |-> left, lastSeen |-> now]], now)
      /\ lastCleanup' = IF SweepDue(now) THEN now ELSE lastCleanup
      /\ waiting' = [waiting EXCEPT ![r] = NoRequest]
      /\ passed' = IF tokens < 1 \/ c # Watched THEN passed
                   ELSE [w \in Windows |-> IF w[1] <= now /\ now <= w[2] THEN passed[w] + 1
                                          ELSE passed[w]]
      /\ UNCHANGED clock

Advance ==
  /\ clock < MaxClock
  /\ \A r \in Requests : waiting[r] # NoRequest => clock - waiting[r].stamp < MaxDelay
  /\ clock' = clock + 1
  /\ UNCHANGED <<waiting, buckets, lastCleanup, passed>>

Next ==
  \/ \E r \in Requests, c \in Clients : Arrive(r, c)
  \/ \E r \in Requests : Allow(r)
  \/ Advance

Spec == Init /\ [][Next]_vars

-------------------------------------------------------------------------------
(* Properties *)

(* In no window of time does a client get more requests through than a     *)
(* full bucket and what was refilled meanwhile, whatever the order in      *)
(* which stamped requests get the lock, and however often its bucket is    *)
(* swept and made anew, full.                                              *)
WindowBound ==
  \A w \in Windows : passed[w] <= capacity + refillRate * (w[2] - w[1])
===============================================================================
