------------------------------ MODULE ControlApi ------------------------------
(***************************************************************************)
(* A request to the HTTP API from its arrival to its answer: the chain of  *)
(* middleware (internal/api/server.go Handler, internal/security CORS and  *)
(* authentication), the handlers of the control plane, and the audit log,  *)
(* a ring buffer that all of them write.  Several requests are served at a *)
(* time, while ticks run.                                                  *)
(*                                                                         *)
(* What an operation does to the orchestrator is in the other modules      *)
(* (TickLoop, PhaseRuntime, ScenarioControl, TickPipeline); here it is one *)
(* call, remembered under the number of its request.  The ingest route is  *)
(* in Ingest, the control/ routes are in ScenarioControl, and the buckets  *)
(* of the rate limiter in RateLimiter.  The server has its orchestrator    *)
(* (cmd/loadequilibrium/main.go), so that no handler answers 503.          *)
(***************************************************************************)
EXTENDS Integers, Sequences, FiniteSets

CONSTANTS Handlers,      (* requests served at a time                       *)
          Routes,        (* routes asked for                                *)
          BufSize,       (* AuditBufSize                                    *)
          MaxRequests    (* bound: requests of a behaviour                  *)

Reads == {"snapshot", "audit"}
Audited == {"policy", "step", "sandbox"}
Writes == Audited \cup {"simulation", "rollout", "ack"}

VARIABLES req,       (* handler -> its request: where it is, and its answer    *)
          count,     (* requests so far                                        *)
          ticking,   (* a tick is in flight                                    *)
          done,      (* history: the calls on the orchestrator, as requests    *)
          buf, head, size,
          logged     (* history: everything ever put into the audit log        *)

auditLog == <<buf, head, size, logged>>
vars == <<req, count, ticking, done, auditLog>>

Free == [at |-> "free", n |-> 0, route |-> "none", method |-> "none", token |-> FALSE,
         body |-> "none", status |-> 0]

Init ==
  /\ req = [h \in Handlers |-> Free]
  /\ count = 0
  /\ ticking = FALSE
  /\ done = <<>>
  /\ buf = [i \in 0 .. BufSize - 1 |-> 0] /\ head = 0 /\ size = 0
  /\ logged = <<>>

Answer(h, status) == req' = [req EXCEPT ![h].at = "answered", ![h].status = status]
GoTo(h, at) == req' = [req EXCEPT ![h].at = at]

(* AuditLogger.Log: an event is the number of its request and what it says. *)
Log(e) ==
  /\ buf' = [buf EXCEPT ![head] = e]
  /\ head' = (head + 1) % BufSize
  /\ size' = IF size < BufSize THEN size + 1 ELSE size
  /\ logged' = Append(logged, e)

(* AuditLogger.Recent without the head: a mutant. *)
Recent_FromStart(n) ==
  LET k == IF n > size THEN size ELSE n
  IN [i \in 1 .. k |-> buf[(size - k + i - 1 + BufSize) % BufSize]]

(* AuditLogger.Recent: the last n events. *)
Recent(n) ==
  LET k == IF n > size THEN size ELSE n
  IN [i \in 1 .. k |-> buf[(head - k + i - 1 + BufSize) % BufSize]]

-----------------------------------------------------------------------------
(* A body is read on some routes; on two of them it may name what there is not. *)
Bodies(r) ==
  CASE r \in {"simulation", "ack"} -> {"good", "malformed", "unknown"}
    [] r \in {"policy", "sandbox", "rollout"} -> {"good", "malformed"}
    [] OTHER -> {"good"}

Arrive(h) ==
  /\ req[h].at = "free" /\ count < MaxRequests
  /\ \E r \in Routes, m \in {"GET", "POST", "OPTIONS"}, tok \in BOOLEAN :
       \E b \in Bodies(r) :
         req' = [req EXCEPT ![h] = [at |-> "cors", n |-> count + 1, route |-> r, method |-> m,
                                    token |-> tok, body |-> b, status |-> 0]]
  /\ count' = count + 1
  /\ UNCHANGED <<ticking, done, auditLog>>

(* A preflight ends at the CORS middleware. *)
CORSMiddleware(h) ==
  /\ req[h].at = "cors"
  /\ IF req[h].method = "OPTIONS" THEN Answer(h, 204) ELSE GoTo(h, "auth")
  /\ UNCHANGED <<count, ticking, done, auditLog>>

RouteClass(r) == IF r \in Writes THEN "control" ELSE IF r = "snapshot" THEN "dashboard" ELSE "open"

(* The rate limit, then the token; each verdict is logged.  Routes of no class pass. *)
AuthMiddleware(h) ==
  /\ req[h].at = "auth"
  /\ \/ /\ RouteClass(req[h].route) = "open"
        /\ GoTo(h, "handle")
        /\ UNCHANGED auditLog
     \/ /\ RouteClass(req[h].route) # "open"
        /\ \/ Answer(h, 429) /\ Log(<<req[h].n, "rate_limit">>)
           \/ ~req[h].token /\ Answer(h, 401) /\ Log(<<req[h].n, "auth_fail">>)
           \/ req[h].token /\ GoTo(h, "handle") /\ Log(<<req[h].n, "auth_ok">>)
  /\ UNCHANGED <<count, ticking, done>>

(* What a handler checks before it acts: 0 when nothing is wrong. *)
Refusal(r) ==
  IF r.method # (IF r.route \in Reads THEN "GET" ELSE "POST") THEN 405
  ELSE IF r.body = "malformed" THEN 400
  ELSE IF r.body = "unknown" THEN IF r.route = "ack" THEN 404 ELSE 400
  ELSE IF r.route = "step" /\ ticking THEN 409
  ELSE 0

Refuse(h) ==
  /\ req[h].at = "handle" /\ Refusal(req[h]) # 0
  /\ Answer(h, Refusal(req[h]))
  /\ UNCHANGED <<count, ticking, done, auditLog>>

handleRead(h) ==
  /\ req[h].at = "handle" /\ Refusal(req[h]) = 0 /\ req[h].route \in Reads
  /\ \/ Answer(h, 200)
     \/ req[h].route = "snapshot" /\ Answer(h, 204)
  /\ UNCHANGED <<count, ticking, done, auditLog>>

Status(r) == IF r \in {"sandbox", "simulation", "rollout"} THEN 202 ELSE 200

(* The call on the orchestrator.  A step keeps the tick in flight until it returns. *)
Perform(h) ==
  /\ req[h].at = "handle" /\ Refusal(req[h]) = 0 /\ req[h].route \in Writes
  /\ done' = Append(done, req[h].n)
  /\ IF req[h].route = "step" THEN ticking' = TRUE /\ GoTo(h, "step")
     ELSE /\ UNCHANGED ticking
          /\ IF req[h].route \in Audited THEN GoTo(h, "audit") ELSE Answer(h, Status(req[h].route))
  /\ UNCHANGED <<count, auditLog>>

StepReturns(h) ==
  /\ req[h].at = "step"
  /\ ticking' = FALSE
  /\ GoTo(h, "audit")
  /\ UNCHANGED <<count, done, auditLog>>

(* The action is logged before it is checked: a mutant. *)
AuditAction_Early(h) ==
  /\ req[h].at \in {"audit", "handle"} /\ req[h].route \in Audited
  /\ Log(<<req[h].n, "control_action">>)
  /\ Answer(h, Status(req[h].route))
  /\ UNCHANGED <<count, ticking, done>>

AuditAction(h) ==
  /\ req[h].at = "audit"
  /\ Log(<<req[h].n, "control_action">>)
  /\ Answer(h, Status(req[h].route))
  /\ UNCHANGED <<count, ticking, done>>

Leave(h) ==
  /\ req[h].at = "answered"
  /\ req' = [req EXCEPT ![h] = Free]
  /\ UNCHANGED <<count, ticking, done, auditLog>>

(* The ticks of the loop, which a step must not meet. *)
Tick == ticking' = ~ticking /\ (\A h \in Handlers : req[h].at # "step") /\ UNCHANGED <<req, count, done, auditLog>>

Next ==
  \/ \E h \in Handlers :
       \/ Arrive(h) \/ CORSMiddleware(h) \/ AuthMiddleware(h)
       \/ Refuse(h) \/ handleRead(h) \/ Perform(h) \/ StepReturns(h) \/ AuditAction(h)
       \/ Leave(h)
  \/ Tick

Spec == Init /\ [][Next]_vars

-----------------------------------------------------------------------------
Occurs(x, s) == \E i \in DOMAIN s : s[i] = x
LastOf(s, n) == SubSeq(s, Len(s) - n + 1, Len(s))

(***************************************************************************)
(* The answer tells what happened, whatever else is being served: a        *)
(* control request that is answered with success has made its call on the  *)
(* orchestrator, once, with its authentication and, on the audited routes, *)
(* the action in the audit log; one that is refused has made none and the  *)
(* log shows no action of it.                                              *)
(***************************************************************************)
AnswersHonest ==
  \A h \in Handlers : LET r == req[h] IN
    r.at = "answered" /\ r.route \in Writes =>
      LET calls == Cardinality({i \in DOMAIN done : done[i] = r.n})
      IN IF r.status \in {200, 202}
         THEN calls = 1 /\ Occurs(<<r.n, "auth_ok">>, logged)
                        /\ (r.route \in Audited => Occurs(<<r.n, "control_action">>, logged))
         ELSE calls = 0 /\ ~Occurs(<<r.n, "control_action">>, logged)

(***************************************************************************)
(* "Recent returns the last n audit events (newest last)" (security.go),   *)
(* for every n and every state of the ring.                                *)
(***************************************************************************)
RecentIsLast ==
  \A n \in 0 .. BufSize + 1 :
    LET k == IF n > Len(logged) THEN Len(logged) ELSE IF n > BufSize THEN BufSize ELSE n
    IN Recent(n) = LastOf(logged, k)

=============================================================================
