-------------------------- MODULE RequestPipeline --------------------------
(***************************************************************************)
(* The way of a request through the application: the dispatch of           *)
(* ObservabilityMiddleware (app/middleware.py), the session of get_db, the *)
(* plain `def` endpoint in a thread of the server's pool, the connection   *)
(* it takes from the engine's pool, and the way back.                      *)
(*                                                                         *)
(* Coroutines share one event loop.  dispatch counts a response with no    *)
(* await in between, but threads go on meanwhile: each increment of a      *)
(* counter is a step here, during which the loop does nothing else.  The   *)
(* counters themselves are added by RequestMetrics.                        *)
(***************************************************************************)
EXTENDS Naturals, FiniteSets

CONSTANTS
  Requests,    \* clients, each with one request at a time
  Tokens,      \* threads of the server's pool
  Capacity     \* db_pool_size + db_max_overflow

ASSUME PipelineAssumption ==
  /\ IsFiniteSet(Requests)
  /\ Tokens \in Nat \ {0}
  /\ Capacity \in Nat \ {0}

VARIABLES
  pc,          \* where each request is
  kind,        \* which sort of endpoint it is for
  status,      \* the class of the status it will be answered with
  holds,       \* its session holds a connection
  inUse        \* connections checked out of the engine's pool

pipelineVars == <<pc, kind, status, holds, inUse>>

\* "plain" endpoints use no database (/, /health, /metrics), "data" endpoints
\* depend on get_db, "probe" is /health with HEALTH_CHECK_DB, which opens and
\* closes its session itself, and "error" is /api/error.
Kinds == {"plain", "data", "probe", "error"}

UsesDatabase(r) == kind[r] \in {"data", "probe"}

Classes == {"2xx", "4xx", "5xx"}
NoStatus == "none"
Bad(class) == class \in {"4xx", "5xx"}   \* status_code >= 400

PipelinePcs == {"idle", "entered", "opened", "running", "querying", "ended",
                "closing", "answered", "counted", "left"}

\* The thread is given back when the event loop resumes the request.
Threads == {r \in Requests : pc[r] \in {"running", "querying", "ended"}}

\* Dispatch is not in the middle of counting a response.
LoopFree == \A r \in Requests : pc[r] \notin {"counted", "left"}

Holders == {r \in Requests : pc[r] \in {"querying", "ended", "closing"} /\ holds[r]}

PipelineTypeOK ==
  /\ pc \in [Requests -> PipelinePcs]
  /\ kind \in [Requests -> Kinds]
  /\ status \in [Requests -> Classes \cup {NoStatus}]
  /\ holds \in [Requests -> BOOLEAN]
  /\ inUse \in 0 .. Capacity

-----------------------------------------------------------------------------
PipelineInit ==
  /\ pc = [r \in Requests |-> "idle"]
  /\ kind = [r \in Requests |-> "plain"]
  /\ status = [r \in Requests |-> NoStatus]
  /\ holds = [r \in Requests |-> FALSE]
  /\ inUse = 0

Move(r, place) == pc' = [pc EXCEPT ![r] = place]

Answer(r, class, place) ==
  /\ status' = [status EXCEPT ![r] = class]
  /\ Move(r, place)

\* dispatch up to its await.
Arrive(r) ==
  /\ pc[r] = "idle"
  /\ LoopFree
  /\ \E k \in Kinds : kind' = [kind EXCEPT ![r] = k]
  /\ Move(r, "entered")
  /\ UNCHANGED <<status, holds, inUse>>

\* The dependencies, one after another in threads of the pool for a moment:
\* get_settings, and get_db up to its yield for a data endpoint.  Its session
\* takes no connection before the first statement.
SolveDependencies(r) ==
  /\ pc[r] = "entered"
  /\ LoopFree
  /\ Cardinality(Threads) < Tokens
  /\ Move(r, "opened")
  /\ UNCHANGED <<kind, status, holds, inUse>>

\* No endpoint is started, and no thread taken for one: no route matches, or,
\* the dependencies once solved, a parameter is not valid (404, 422).
Refuse(r) ==
  /\ LoopFree
  /\ kind[r] # "probe"
  /\ pc[r] \in (IF kind[r] = "data" THEN {"opened"} ELSE {"entered", "opened"})
  /\ Answer(r, "4xx", IF kind[r] = "data" THEN "closing" ELSE "answered")
  /\ UNCHANGED <<kind, holds, inUse>>

\* The endpoint itself gets a thread; one that has no dependency, at once.
StartEndpoint(r) ==
  /\ pc[r] \in (IF kind[r] = "data" THEN {"opened"} ELSE {"entered", "opened"})
  /\ LoopFree
  /\ Cardinality(Threads) < Tokens
  /\ Move(r, "running")
  /\ UNCHANGED <<kind, status, holds, inUse>>

\* A plain endpoint returns or refuses its parameter; /api/error raises what
\* nothing handles, or refuses its parameter.
EndPlain(r) ==
  /\ pc[r] = "running"
  /\ ~UsesDatabase(r)
  /\ \E class \in {IF kind[r] = "plain" THEN "2xx" ELSE "5xx", "4xx"} :
       Answer(r, class, "ended")
  /\ UNCHANGED <<kind, holds, inUse>>

\* A data endpoint refuses a parameter, or an operation fails before it has a
\* connection: the failure switch, or no connection can be opened.
EndEarly(r) ==
  /\ pc[r] = "running"
  /\ UsesDatabase(r)
  /\ \E class \in {"4xx", "5xx"} :
       /\ kind[r] = "probe" => class = "5xx"
       /\ Answer(r, class, "ended")
  /\ UNCHANGED <<kind, holds, inUse>>

\* The first statement of the session takes a connection of the pool ...
BugCheckout(r) ==   \* mutant: an engine whose overflow has no limit
  /\ pc[r] = "running"
  /\ UsesDatabase(r)
  /\ inUse' = inUse + 1
  /\ holds' = [holds EXCEPT ![r] = TRUE]
  /\ Move(r, "querying")
  /\ UNCHANGED <<kind, status>>

Checkout(r) ==
  /\ pc[r] = "running"
  /\ UsesDatabase(r)
  /\ inUse < Capacity
  /\ inUse' = inUse + 1
  /\ holds' = [holds EXCEPT ![r] = TRUE]
  /\ Move(r, "querying")
  /\ UNCHANGED <<kind, status>>

\* ... or waits db_timeout seconds for one, in vain: pool_timeout.
BugPoolTimesOut(r) == FALSE   \* mutant: an engine without pool_timeout

PoolTimesOut(r) ==
  /\ pc[r] = "running"
  /\ UsesDatabase(r)
  /\ inUse = Capacity
  /\ Answer(r, "5xx", "ended")
  /\ UNCHANGED <<kind, holds, inUse>>

\* The statement ends, well or not.  Its connection stays with the session.
EndQuery(r) ==
  /\ pc[r] = "querying"
  /\ kind[r] = "data"
  /\ \E class \in {"2xx", "5xx"} : Answer(r, class, "ended")
  /\ UNCHANGED <<kind, holds, inUse>>

\* The finally block of health closes the session in the endpoint's own thread.
EndProbe(r) ==
  /\ pc[r] = "querying"
  /\ kind[r] = "probe"
  /\ inUse' = inUse - 1
  /\ holds' = [holds EXCEPT ![r] = FALSE]
  /\ \E class \in {"2xx", "5xx"} : Answer(r, class, "ended")
  /\ kind' = kind

\* The event loop takes the result over.
Resume(r) ==
  /\ pc[r] = "ended"
  /\ LoopFree
  /\ Move(r, IF kind[r] = "data" THEN "closing" ELSE "answered")
  /\ UNCHANGED <<kind, status, holds, inUse>>

BugCloseSession(r) ==   \* mutant: get_db without its try/finally
  /\ pc[r] = "closing"
  /\ inUse' = IF holds[r] /\ ~Bad(status[r]) THEN inUse - 1 ELSE inUse
  /\ holds' = [holds EXCEPT ![r] = holds[r] /\ Bad(status[r])]
  /\ Move(r, "answered")
  /\ UNCHANGED <<kind, status>>

\* The finally block of get_db, on a result and on an exception alike, before
\* the response reaches dispatch, in a thread outside the pool's limiter.
CloseSession(r) ==
  /\ pc[r] = "closing"
  /\ inUse' = IF holds[r] THEN inUse - 1 ELSE inUse
  /\ holds' = [holds EXCEPT ![r] = FALSE]
  /\ Move(r, "answered")
  /\ UNCHANGED <<kind, status>>

\* dispatch after its await, in the except and in the else branch alike:
\* http_requests_total ...
CountTotal(r) ==
  /\ pc[r] = "answered"
  /\ LoopFree
  /\ Move(r, "counted")
  /\ UNCHANGED <<kind, status, holds, inUse>>

\* ... then http_request_errors_total ...
CountError(r) ==
  /\ pc[r] = "counted"
  /\ Move(r, "left")
  /\ UNCHANGED <<kind, status, holds, inUse>>

\* ... and the finally block, http_requests_in_progress.  What the request was
\* is forgotten.
Leave(r) ==
  /\ pc[r] = "left"
  /\ kind' = [kind EXCEPT ![r] = "plain"]
  /\ Answer(r, NoStatus, "idle")
  /\ UNCHANGED <<holds, inUse>>

\* What the thread of a running endpoint does.
EndpointStep(r) ==
  \/ EndPlain(r)
  \/ EndEarly(r)
  \/ Checkout(r)
  \/ PoolTimesOut(r)
  \/ EndQuery(r)
  \/ EndProbe(r)

PipelineNext ==
  \E r \in Requests : \/ Arrive(r)
                      \/ SolveDependencies(r)
                      \/ Refuse(r)
                      \/ StartEndpoint(r)
                      \/ EndpointStep(r)
                      \/ Resume(r)
                      \/ CloseSession(r)
                      \/ CountTotal(r)
                      \/ CountError(r)
                      \/ Leave(r)

\* What a request waits for in a queue served in order: a thread of the pool's
\* limiter, or its turn on the event loop.
QueuedStep(r) ==
  SolveDependencies(r) \/ StartEndpoint(r) \/ Resume(r) \/ CountTotal(r)

\* What a request does without waiting, or with a time-out: db_timeout bounds
\* the wait for a connection, statement_timeout the statement.
OwnStep(r) ==
  \/ EndPlain(r)
  \/ Checkout(r)
  \/ PoolTimesOut(r)
  \/ EndQuery(r)
  \/ EndProbe(r)
  \/ CloseSession(r)
  \/ CountError(r)
  \/ Leave(r)

\* Queues served in order are strongly fair.  The pool of connections promises
\* no order: a request at Checkout may be overtaken until it times out.
PipelineFairness ==
  \A r \in Requests : SF_pipelineVars(QueuedStep(r)) /\ WF_pipelineVars(OwnStep(r))

PipelineSpec == PipelineInit /\ [][PipelineNext]_pipelineVars

FairPipelineSpec == PipelineSpec /\ PipelineFairness

-----------------------------------------------------------------------------
(***************************************************************************)
(* No connection leaks: those out of the pool are exactly the ones of      *)
(* requests between their first statement and the close of their session,  *)
(* and a request that was answered or counted holds none.  (get_db.)       *)
(***************************************************************************)
ConnectionsAccounted ==
  /\ inUse = Cardinality(Holders)
  /\ \A r \in Requests : holds[r] => r \in Holders

(***************************************************************************)
(* Threads waiting for connections and connections waiting for threads     *)
(* never block each other for good: every request is answered, although a  *)
(* waiting one may be overtaken for a connection without end.              *)
(* (pool_timeout of get_engine; the close of get_db needs no pool thread.) *)
(***************************************************************************)
Answered == \A r \in Requests : pc[r] = "entered" ~> pc[r] = "idle"

Connection == INSTANCE Lease
                WITH Clients <- Requests, Limit <- Capacity,
                     held <- Holders, left <- Capacity - inUse

(***************************************************************************)
(* The engine's pool implements Lease: no request takes a second           *)
(* connection, none takes one beyond the capacity, and none is given back  *)
(* but by the request that took it, once.  (get_db, QueuePool.)            *)
(***************************************************************************)
ConnectionsAreLeased == Connection!LeaseSpec
=============================================================================
