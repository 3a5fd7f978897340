---------------------------- MODULE DbOperations ----------------------------
(***************************************************************************)
(* The instrumented database operations of app/database.py                 *)
(* (tracked_db_operation around _maybe_fail and the query), run by the     *)
(* server's threads while other threads toggle the failure switch.         *)
(*                                                                         *)
(* A thread's accesses to state it shares with others (the switch, the     *)
(* gauge db_up) are separate steps, since nothing locks them.  The         *)
(* counters are added by DbCounters.                                       *)
(***************************************************************************)
EXTENDS FailureSwitch, ErrorMapping

CONSTANTS
  Workers,    \* threads that run database operations
  Probers,    \* those of them whose requests never stop coming
  QueryTypes, \* the types of real errors a query may fail with
  FailureDelay  \* settings.db_failure_delay_seconds

ASSUME OperationsAssumption ==
  /\ Modes \subseteq SimulatedModes
  /\ Probers \subseteq Workers
  /\ QueryTypes \subseteq RealErrorTypes
  /\ FailureDelay \in Nat

VARIABLES
  dbUp,       \* the Prometheus gauge db_up
  healthy,    \* environment: every query succeeds
  wpc,        \* where each worker is in its tracked operation
  err,        \* the error type of its exception
  simulated,  \* whether _maybe_fail raised that exception
  expect      \* history: what the switch promised this operation

opVars == <<dbUp, healthy, wpc, err, simulated, expect>>
vars == <<switchVars, opVars>>

NoError == "none"

WorkerPcs == {"idle", "check", "armed", "delay", "raise", "query",
              "failed", "counted", "classified", "returned", "observed",
              "done"}

\* `expect` is Pass or a mode when no toggle overlapped the check.
Pass == "pass"
Unknown == "unknown"

OpTypeOK ==
  /\ dbUp \in {0, 1}
  /\ healthy \in BOOLEAN
  /\ wpc \in [Workers -> WorkerPcs]
  /\ err \in [Workers -> ErrorTypes \cup {NoError}]
  /\ simulated \in [Workers -> BOOLEAN]
  /\ expect \in [Workers -> Modes \cup {Pass, Unknown}]

TypeOK == SwitchTypeOK /\ OpTypeOK

-----------------------------------------------------------------------------
\* Requests are served only after start-up, whose own operations may have
\* raised db_up or not.
Init ==
  /\ SwitchInit
  /\ dbUp \in {0, 1}
  /\ healthy \in BOOLEAN
  /\ wpc = [w \in Workers |-> "idle"]
  /\ err = [w \in Workers |-> NoError]
  /\ simulated = [w \in Workers |-> FALSE]
  /\ expect = [w \in Workers |-> Unknown]

\* A request reaches its first database operation.
Begin(w) ==
  /\ wpc[w] \in {"idle", "done"}
  /\ wpc' = [wpc EXCEPT ![w] = "check"]
  /\ err' = [err EXCEPT ![w] = NoError]
  /\ simulated' = [simulated EXCEPT ![w] = FALSE]
  /\ expect' = [expect EXCEPT ![w] =
       IF ~Settled THEN Unknown
       ELSE IF switch.enabled THEN switch.mode ELSE Pass]
  /\ UNCHANGED <<switchVars, dbUp, healthy>>

\* _maybe_fail: if not _failure_state.enabled: return
CheckEnabled(w) ==
  /\ wpc[w] = "check"
  /\ wpc' = [wpc EXCEPT ![w] = IF switch.enabled THEN "armed" ELSE "query"]
  /\ UNCHANGED <<switchVars, dbUp, healthy, err, simulated, expect>>

\* _maybe_fail: mode = _failure_state.mode, a second unlocked read
BugPickMode(w) ==   \* mutant: the mode of the last request, not of the record
  /\ wpc[w] = "armed"
  /\ \E t \in Togglers : err' = [err EXCEPT ![w] = req[t].mode]
  /\ simulated' = [simulated EXCEPT ![w] = TRUE]
  /\ wpc' = [wpc EXCEPT ![w] = "raise"]
  /\ UNCHANGED <<switchVars, dbUp, healthy, expect>>

PickMode(w) ==
  /\ wpc[w] = "armed"
  /\ err' = [err EXCEPT ![w] = switch.mode]
  /\ simulated' = [simulated EXCEPT ![w] = TRUE]
  /\ wpc' = [wpc EXCEPT ![w] =
       IF switch.mode = "connection_timeout" /\ FailureDelay > 0
       THEN "delay" ELSE "raise"]
  /\ UNCHANGED <<switchVars, dbUp, healthy, expect>>

\* time.sleep(settings.db_failure_delay_seconds)
Delay(w) ==
  /\ wpc[w] = "delay"
  /\ wpc' = [wpc EXCEPT ![w] = "raise"]
  /\ UNCHANGED <<switchVars, dbUp, healthy, err, simulated, expect>>

\* db_up.set(0) and the raise of SimulatedDatabaseFailure
BugRaiseSimulated(w) ==   \* mutant: db_up left to the classifier
  /\ wpc[w] = "raise"
  /\ wpc' = [wpc EXCEPT ![w] = "failed"]
  /\ UNCHANGED <<switchVars, dbUp, healthy, err, simulated, expect>>

RaiseSimulated(w) ==
  /\ wpc[w] = "raise"
  /\ dbUp' = 0
  /\ wpc' = [wpc EXCEPT ![w] = "failed"]
  /\ UNCHANGED <<switchVars, healthy, err, simulated, expect>>

\* The body of the tracked operation: the statement on the real database.
QuerySucceeds(w) ==
  /\ wpc[w] = "query"
  /\ wpc' = [wpc EXCEPT ![w] = "returned"]
  /\ UNCHANGED <<switchVars, dbUp, healthy, err, simulated, expect>>

QueryFails(w) ==
  /\ wpc[w] = "query"
  /\ ~healthy
  /\ \E e \in QueryTypes : err' = [err EXCEPT ![w] = e]
  /\ wpc' = [wpc EXCEPT ![w] = "failed"]
  /\ UNCHANGED <<switchVars, dbUp, healthy, simulated, expect>>

\* The except branch of tracked_db_operation: observe_db_operation, then
\* observe_db_error, then the gauge, then the exception goes on.
CountFailed(w) ==
  /\ wpc[w] = "failed"
  /\ wpc' = [wpc EXCEPT ![w] = "counted"]
  /\ UNCHANGED <<switchVars, dbUp, healthy, err, simulated, expect>>

CountError(w) ==
  /\ wpc[w] = "counted"
  /\ wpc' = [wpc EXCEPT ![w] = "classified"]
  /\ UNCHANGED <<switchVars, dbUp, healthy, err, simulated, expect>>

BugFinishFailed(w) ==   \* mutant: other errors count as "reachable"
  /\ wpc[w] = "classified"
  /\ dbUp' = IF err[w] \in DownTypes THEN 0 ELSE 1
  /\ wpc' = [wpc EXCEPT ![w] = "done"]
  /\ UNCHANGED <<switchVars, healthy, err, simulated, expect>>

FinishFailed(w) ==
  /\ wpc[w] = "classified"
  /\ dbUp' = IF err[w] \in DownTypes THEN 0 ELSE dbUp
  /\ wpc' = [wpc EXCEPT ![w] = "done"]
  /\ UNCHANGED <<switchVars, healthy, err, simulated, expect>>

\* The else branch: observe_db_operation, then db_up.set(1).
CountReturned(w) ==
  /\ wpc[w] = "returned"
  /\ wpc' = [wpc EXCEPT ![w] = "observed"]
  /\ UNCHANGED <<switchVars, dbUp, healthy, err, simulated, expect>>

BugFinishReturned(w) ==   \* mutant: a success does not raise the gauge
  /\ wpc[w] = "observed"
  /\ wpc' = [wpc EXCEPT ![w] = "done"]
  /\ UNCHANGED <<switchVars, dbUp, healthy, err, simulated, expect>>

FinishReturned(w) ==
  /\ wpc[w] = "observed"
  /\ dbUp' = 1
  /\ wpc' = [wpc EXCEPT ![w] = "done"]
  /\ UNCHANGED <<switchVars, healthy, err, simulated, expect>>

\* A step of an operation after its beginning.
OperationStep(w) ==
  \/ CheckEnabled(w)
  \/ PickMode(w)
  \/ Delay(w)
  \/ RaiseSimulated(w)
  \/ QuerySucceeds(w)
  \/ QueryFails(w)
  \/ CountFailed(w)
  \/ CountError(w)
  \/ FinishFailed(w)
  \/ CountReturned(w)
  \/ FinishReturned(w)

\* A toggle is accepted: an operation still at its check may see any part of
\* it, so the switch promises that operation nothing any more.
AcceptToggle(t) ==
  /\ Accept(t)
  /\ expect' = [w \in Workers |->
       IF wpc[w] \in {"check", "armed"} THEN Unknown ELSE expect[w]]
  /\ UNCHANGED <<dbUp, healthy, wpc, err, simulated>>

OtherToggle(t) == (Reject(t) \/ ToggleStep(t)) /\ UNCHANGED opVars

\* The database breaks down or recovers.
DatabaseChanges == healthy' = ~healthy
                   /\ UNCHANGED <<switchVars, dbUp, wpc, err, simulated, expect>>

Next ==
  \/ \E w \in Workers : Begin(w) \/ OperationStep(w)
  \/ \E t \in Togglers : AcceptToggle(t) \/ OtherToggle(t)
  \/ DatabaseChanges

\* Threads run, a started operation ends (the pool, the connection and the
\* statement all have time-outs), and the probers keep sending requests.
Fairness ==
  /\ \A w \in Workers : WF_vars(OperationStep(w))
  /\ \A w \in Probers : WF_vars(Begin(w))
  /\ \A t \in Togglers : WF_vars(ToggleStep(t) /\ UNCHANGED opVars)

Spec == Init /\ [][Next]_vars

FairSpec == Spec /\ Fairness

-----------------------------------------------------------------------------
(***************************************************************************)
(* The switch is decisive: an operation whose check no toggle overlapped   *)
(* fails with the mode that was armed when it began, and an operation that *)
(* began with the switch off never fails by simulation, whatever toggles,  *)
(* races or other operations came before.  (_maybe_fail.)                  *)
(***************************************************************************)
SwitchIsDecisive ==
  \A w \in Workers :
    wpc[w] = "done" /\ expect[w] # Unknown =>
      /\ simulated[w] <=> expect[w] # Pass
      /\ simulated[w] => err[w] = expect[w]

\* What the system is in, for the reader of db_up: armed, with no operation
\* left that passed the check before; sound, with none left that will fail.
Blackout ==
  /\ Settled
  /\ switch.enabled
  /\ \A w \in Workers : wpc[w] \notin {"query", "returned", "observed"}

AllClear ==
  /\ Settled
  /\ ~switch.enabled
  /\ healthy
  /\ \A w \in Workers : wpc[w] \notin {"armed", "delay", "raise", "failed",
                                       "counted", "classified"}

Phase == IF Blackout THEN "dark" ELSE IF AllClear THEN "clear" ELSE "mixed"

Health == INSTANCE DbHealth WITH phase <- Phase, up <- dbUp

(***************************************************************************)
(* The operations implement DbHealth: once armed for good and rid of the   *)
(* operations that passed the check before, no thread can raise db_up, in  *)
(* whichever step of its own it is; once healthy, off and rid of those     *)
(* that will still fail, none can lower it.  (docs/failure-scenarios.md:   *)
(* with the switch armed db_up is 0; disarmed, the system recovers.)       *)
(***************************************************************************)
HealthRefined == Health!HealthSpec

(***************************************************************************)
(* Once the database is healthy and the switch is off for good, db_up goes *)
(* to 1 and stays there, although operations that began before may still   *)
(* fail late; once the switch is armed for good it goes to 0 and stays.    *)
(***************************************************************************)
Recovers == <>[](healthy /\ ~switch.enabled /\ Settled) => <>[](dbUp = 1)

GoesDark == <>[](switch.enabled /\ Settled) => <>[](dbUp = 0)

(***************************************************************************)
(* app/metrics.py: db_up is the "Result of the most recent database        *)
(* connectivity check (1 = reachable)."  Which failures mean that it was   *)
(* not reachable the code says itself: UNAVAILABLE_ERROR_TYPES of          *)
(* app/routes/_common.py, the "Failures that mean 'the dependency is       *)
(* down'".  So an operation that ended in one of them should leave db_up   *)
(* at 0.  With one worker the most recent check is the one that has just   *)
(* ended.                                                                  *)
(***************************************************************************)
DbUpShowsUnavailable ==
  \A w \in Workers :
    wpc[w] = "done" /\ err[w] \in UnavailableTypes => dbUp = 0
=============================================================================
