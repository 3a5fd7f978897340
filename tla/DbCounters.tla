----------------------------- MODULE DbCounters -----------------------------
(***************************************************************************)
(* The Prometheus counters the database operations and the switch endpoint *)
(* keep, added to DbOperations.  Each counter is the sum over its labels;  *)
(* an increment is atomic (the client library locks each child), and the   *)
(* threads interleave between any two of them.  The relations below are of *)
(* the counters in the process, in every state and not only at rest.       *)
(*                                                                         *)
(* A scrape is not such a state: GET /metrics runs generate_latest in a    *)
(* thread of its own, which reads one family after another while the       *)
(* workers go on.  Of it the module keeps what it has read of the failed   *)
(* operations, which it comes to before db_errors_total.                   *)
(***************************************************************************)
EXTENDS DbOperations

CONSTANTS
  MaxOps,     \* bound: operations begun
  MaxArmings  \* bound: toggles that enable the simulation

ASSUME CountersAssumption ==
  /\ IsFiniteSet(Workers)
  /\ MaxOps \in Nat
  /\ MaxArmings \in Nat

VARIABLES
  successes,    \* db_queries_total{status="success"}
  errors,       \* db_queries_total{status="error"}
  dbErrors,     \* db_errors_total
  simFailures,  \* app_simulated_failures_total{scenario="database_failure"}
  armings,      \* app_simulated_failures_total{...="database_failure_armed"}
  scraped,      \* db_queries_total{status="error"} as a scrape has read it
  begun,        \* history: operations begun
  bornArmed     \* history: SIMULATE_DB_FAILURE was set at start

counters == <<successes, errors, dbErrors, simFailures, armings>>
countersVars == <<vars, counters, scraped, begun, bornArmed>>

CountersTypeOK ==
  /\ TypeOK
  /\ successes \in Nat /\ errors \in Nat /\ dbErrors \in Nat
  /\ simFailures \in Nat /\ armings \in Nat /\ scraped \in Nat
  /\ begun \in 0 .. MaxOps
  /\ bornArmed \in BOOLEAN

\* Operations before their entry in db_queries_total.
BeforeEntry == {"check", "armed", "delay", "raise", "query", "failed", "returned"}

Uncounted == {w \in Workers : wpc[w] \in BeforeEntry}

\* Operations between their entries in db_queries_total and db_errors_total.
HalfCounted == {w \in Workers : wpc[w] = "counted"}

\* Simulated failures raised, and not yet counted by their operation.
SimulatedRaised == {w \in Workers : wpc[w] = "failed" /\ simulated[w]}

-----------------------------------------------------------------------------
CountersInit ==
  /\ Init
  /\ successes = 0 /\ errors = 0 /\ dbErrors = 0
  /\ simFailures = 0 /\ armings = 0 /\ scraped = 0
  /\ begun = 0
  /\ bornArmed = switch.enabled

BeginOp(w) ==
  /\ begun < MaxOps
  /\ Begin(w)
  /\ begun' = begun + 1
  /\ UNCHANGED <<counters, scraped, bornArmed>>

\* app_simulated_failures_total.labels(scenario="database_failure").inc()
RaiseCounted(w) ==
  /\ RaiseSimulated(w)
  /\ simFailures' = simFailures + 1
  /\ UNCHANGED <<successes, errors, dbErrors, armings, scraped, begun,
                 bornArmed>>

\* observe_db_operation(operation, duration, "error")
BugObserveFailed(w) ==   \* mutant: simulated failures kept out of the metric
  /\ CountFailed(w)
  /\ errors' = IF simulated[w] THEN errors ELSE errors + 1
  /\ UNCHANGED <<successes, dbErrors, simFailures, armings, scraped, begun,
                 bornArmed>>

ObserveFailed(w) ==
  /\ CountFailed(w)
  /\ errors' = errors + 1
  /\ UNCHANGED <<successes, dbErrors, simFailures, armings, scraped, begun,
                 bornArmed>>

\* observe_db_error(operation, error_type)
BugObserveError(w) ==    \* mutant: the failed operation is counted again here
  /\ CountError(w)
  /\ dbErrors' = dbErrors + 1
  /\ errors' = errors + 1
  /\ UNCHANGED <<successes, simFailures, armings, scraped, begun,
                 bornArmed>>

ObserveError(w) ==
  /\ CountError(w)
  /\ dbErrors' = dbErrors + 1
  /\ UNCHANGED <<successes, errors, simFailures, armings, scraped, begun,
                 bornArmed>>

\* observe_db_operation(operation, duration, "success")
ObserveReturned(w) ==
  /\ CountReturned(w)
  /\ successes' = successes + 1
  /\ UNCHANGED <<errors, dbErrors, simFailures, armings, scraped, begun,
                 bornArmed>>

\* The steps of an operation that touch no counter.
SilentStep(w) ==
  /\ \/ CheckEnabled(w)
     \/ PickMode(w)
     \/ Delay(w)
     \/ QuerySucceeds(w)
     \/ QueryFails(w)
     \/ FinishFailed(w)
     \/ FinishReturned(w)
  /\ UNCHANGED <<counters, scraped, begun, bornArmed>>

\* toggle_db_failure, between set_db_failure and the response:
\* if enable: app_simulated_failures_total.labels("database_failure_armed")
BugArmingCounted(t) ==   \* mutant: counted when the request does NOT enable
  /\ ReadEnabled(t)
  /\ armings' = IF req[t].enable THEN armings ELSE armings + 1
  /\ UNCHANGED <<opVars, successes, errors, dbErrors, simFailures, scraped,
                 begun, bornArmed>>

ArmingCounted(t) ==
  /\ ReadEnabled(t)
  /\ armings' = IF req[t].enable THEN armings + 1 ELSE armings
  /\ UNCHANGED <<opVars, successes, errors, dbErrors, simFailures, scraped,
                 begun, bornArmed>>

\* MaxArmings bounds the armings: once so many are counted, no toggle that
\* enables is accepted.
AcceptBounded(t) ==
  /\ AcceptToggle(t)
  /\ req'[t].enable => armings < MaxArmings
  /\ UNCHANGED <<counters, scraped, begun, bornArmed>>

SilentToggle(t) ==
  /\ Reject(t) \/ WriteEnabled(t) \/ WriteMode(t) \/ SetGauge(t) \/ ReadMode(t)
  /\ UNCHANGED <<opVars, counters, scraped, begun, bornArmed>>

DatabaseStep ==
  /\ DatabaseChanges
  /\ UNCHANGED <<counters, scraped, begun, bornArmed>>

\* GET /metrics: generate_latest leaves the family db_queries_total, with at
\* most the failed operations there are by then, for the families after it.
ScrapeQueries ==
  /\ scraped' = errors
  /\ UNCHANGED <<vars, counters, begun, bornArmed>>

CountersNext ==
  \/ \E w \in Workers : \/ BeginOp(w)
                        \/ RaiseCounted(w)
                        \/ ObserveFailed(w)
                        \/ ObserveError(w)
                        \/ ObserveReturned(w)
                        \/ SilentStep(w)
  \/ \E t \in Togglers : AcceptBounded(t) \/ ArmingCounted(t) \/ SilentToggle(t)
  \/ DatabaseStep
  \/ ScrapeQueries

CountersSpec == CountersInit /\ [][CountersNext]_countersVars

-----------------------------------------------------------------------------
(***************************************************************************)
(* No operation is lost or counted twice: whatever the interleaving, the   *)
(* two statuses of db_queries_total add up to the operations begun, short  *)
(* of exactly those still before their entry.  (tracked_db_operation.)     *)
(***************************************************************************)
OperationsConserved ==
  successes + errors + Cardinality(Uncounted) = begun

(***************************************************************************)
(* In the process, db_errors_total never runs ahead of the failed          *)
(* operations of db_queries_total, and lags by exactly the threads between *)
(* the two increments.  A scrape reads db_queries_total first and          *)
(* db_errors_total later, so it may show the errors ahead by any number;   *)
(* but when it comes to them, it misses no more of the failed operations   *)
(* it has shown than there are threads between the increments.             *)
(* (tracked_db_operation, except branch; generate_latest.)                 *)
(***************************************************************************)
ErrorsAgree ==
  /\ errors = dbErrors + Cardinality(HalfCounted)
  /\ scraped <= dbErrors + Cardinality(HalfCounted)

(***************************************************************************)
(* Every simulated failure is also a failed database operation, counted    *)
(* or about to be, so the drill can never exceed the outage it simulates.  *)
(* (_maybe_fail raises inside tracked_db_operation; the counters in the    *)
(* process, not in a scrape, which reads app_simulated_failures_total last.) *)
(***************************************************************************)
SimulatedAreErrors == simFailures <= errors + Cardinality(SimulatedRaised)

(***************************************************************************)
(* A simulated failure is counted only after somebody armed the switch:    *)
(* the process started armed, an arming was counted, or one is still being *)
(* served and will be.  (toggle_db_failure counts after it writes.)        *)
(***************************************************************************)
ArmedBeforeFailing ==
  simFailures > 0 =>
    \/ bornArmed
    \/ armings > 0
    \/ \E t \in Togglers : tpc[t] \in Active /\ req[t].enable
=============================================================================
