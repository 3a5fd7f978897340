--------------------------- MODULE RequestMetrics ---------------------------
(***************************************************************************)
(* The Prometheus metrics of ObservabilityMiddleware (app/middleware.py),  *)
(* added to RequestPipeline.  The relations below are of the metrics in    *)
(* the process, in every state.                                            *)
(*                                                                         *)
(* A scrape is not such a state: /metrics runs generate_latest in a thread *)
(* of the pool, which reads one family after another while the event loop  *)
(* goes on.  It reads http_requests_total, then http_request_errors_total, *)
(* then http_requests_in_progress.  Of it the module keeps how many        *)
(* responses it has read whose error it would not find if it read on now.  *)
(*                                                                         *)
(* Counters only grow, and what is asked of them is how far apart they     *)
(* are: the model keeps those distances, so it needs no bound on the       *)
(* number of requests served.                                              *)
(***************************************************************************)
EXTENDS RequestPipeline, Integers

VARIABLES
  inProgress,   \* http_requests_in_progress
  outstanding,  \* requests received, less http_requests_total
  lag,          \* http_requests_total of statuses from 400 on, less
                \* http_request_errors_total
  missed        \* the same distance for a scrape that has read the first of
                \* the two, no less than 0

metrics == <<inProgress, outstanding, lag, missed>>
metricsVars == <<pipelineVars, metrics>>

InFlight == {r \in Requests : pc[r] # "idle"}
Uncounted == {r \in Requests : pc[r] \notin {"idle", "counted", "left"}}
HalfCounted == {r \in Requests : pc[r] = "counted" /\ Bad(status[r])}

MetricsTypeOK ==
  /\ PipelineTypeOK
  /\ inProgress \in 0 .. Cardinality(Requests)
  /\ outstanding \in 0 .. Cardinality(Requests)
  /\ lag \in Int /\ missed \in Int

-----------------------------------------------------------------------------
MetricsInit ==
  /\ PipelineInit
  /\ inProgress = 0 /\ outstanding = 0
  /\ lag = 0 /\ missed = 0

\* http_requests_in_progress.inc()
ArriveCounted(r) ==
  /\ Arrive(r)
  /\ inProgress' = inProgress + 1
  /\ outstanding' = outstanding + 1
  /\ UNCHANGED <<lag, missed>>

\* http_requests_total.labels(...).inc(), in both branches
BugTotalCounted(r) ==   \* mutant: the except branch leaves the total out
  LET unhandled == kind[r] = "error" /\ status[r] = "5xx" IN
  /\ CountTotal(r)
  /\ outstanding' = IF unhandled THEN outstanding ELSE outstanding - 1
  /\ lag' = IF Bad(status[r]) /\ ~unhandled THEN lag + 1 ELSE lag
  /\ UNCHANGED <<inProgress, missed>>

TotalCounted(r) ==
  /\ CountTotal(r)
  /\ outstanding' = outstanding - 1
  /\ lag' = IF Bad(status[r]) THEN lag + 1 ELSE lag
  /\ UNCHANGED <<inProgress, missed>>

\* http_request_errors_total.labels(...).inc(), for every exception and every
\* status of 400 or more
BugErrorCounted(r) ==   \* mutant: only statuses of 500 or more
  /\ CountError(r)
  /\ lag' = IF status[r] = "5xx" THEN lag - 1 ELSE lag
  /\ missed' = IF status[r] = "5xx" /\ missed > 0 THEN missed - 1 ELSE missed
  /\ UNCHANGED <<inProgress, outstanding>>

ErrorCounted(r) ==
  /\ CountError(r)
  /\ lag' = IF Bad(status[r]) THEN lag - 1 ELSE lag
  /\ missed' = IF Bad(status[r]) /\ missed > 0 THEN missed - 1 ELSE missed
  /\ UNCHANGED <<inProgress, outstanding>>

\* finally: http_requests_in_progress.dec()
BugLeaveCounted(r) ==   \* mutant: the except branch decrements as well
  /\ Leave(r)
  /\ inProgress' = inProgress - (IF kind[r] = "error" THEN 2 ELSE 1)
  /\ UNCHANGED <<outstanding, lag, missed>>

LeaveCounted(r) ==
  /\ Leave(r)
  /\ inProgress' = inProgress - 1
  /\ UNCHANGED <<outstanding, lag, missed>>

\* The steps that touch no metric of the middleware.
SilentStep(r) ==
  /\ \/ SolveDependencies(r)
     \/ Refuse(r)
     \/ StartEndpoint(r)
     \/ EndpointStep(r)
     \/ Resume(r)
     \/ CloseSession(r)
  /\ UNCHANGED metrics

\* GET /metrics, in its thread: generate_latest leaves the family
\* http_requests_total, with at most the responses there are by then.
ScrapeTotal(r) ==
  /\ pc[r] = "running" /\ kind[r] = "plain"
  /\ missed' = lag
  /\ UNCHANGED <<pipelineVars, inProgress, outstanding, lag>>

MetricsNext ==
  \E r \in Requests : \/ ArriveCounted(r)
                      \/ SilentStep(r)
                      \/ TotalCounted(r)
                      \/ ErrorCounted(r)
                      \/ LeaveCounted(r)
                      \/ ScrapeTotal(r)

MetricsSpec == MetricsInit /\ [][MetricsNext]_metricsVars

FairMetricsSpec == MetricsSpec /\ PipelineFairness

-----------------------------------------------------------------------------
(***************************************************************************)
(* Whatever way a request leaves (a response, an HTTPException, an         *)
(* exception nothing handles), in the process the gauge counts it until it *)
(* is gone, and the total once, before that.  A scrape promises less: it   *)
(* reads the two at different moments, and may find a request in both or   *)
(* in neither.  (ObservabilityMiddleware.dispatch.)                        *)
(***************************************************************************)
RequestsConserved ==
  /\ inProgress = Cardinality(InFlight)
  /\ outstanding = Cardinality(Uncounted)

(***************************************************************************)
(* The error ratio of the dashboards divides two counters incremented one  *)
(* after the other.  In the process they are never more than one response  *)
(* apart, however many requests are in flight.  A scrape reads the total   *)
(* first and the errors later, so it may show the errors ahead by any      *)
(* number, but it misses the error of at most one response it has shown.   *)
(* (dispatch counts without an await, for 4xx and 5xx, handled or not;     *)
(* generate_latest.)                                                       *)
(***************************************************************************)
ErrorsKeepUp ==
  /\ lag = Cardinality(HalfCounted)
  /\ lag <= 1
  /\ missed <= 1
=============================================================================
