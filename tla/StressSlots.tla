---------------------------- MODULE StressSlots ----------------------------
(***************************************************************************)
(* The slots of one stress scenario: GET /api/cpu-stress, or GET           *)
(* /api/database with FailingWork = TRUE (app/routes/test_failures.py).    *)
(*                                                                         *)
(* Both handlers are coroutines of the one event loop: what a handler does *)
(* between two awaits is one step here.  The work itself runs in a thread  *)
(* of the pool that every plain `def` endpoint also uses, behind a limiter *)
(* of Tokens threads.  `free` is the BoundedSemaphore, `active` the gauge  *)
(* of runs in flight.                                                      *)
(***************************************************************************)
EXTENDS Naturals, FiniteSets

CONSTANTS
  Requests,     \* clients of the endpoint, each asking again and again
  Slots,        \* _CPU_STRESS_SLOTS or _DB_STRESS_SLOTS
  Tokens,       \* threads of the server's pool
  FailingWork,  \* the work may raise: TRUE for the database scenario
  MaxRuns       \* bound: runs admitted

ASSUME StressAssumption ==
  /\ IsFiniteSet(Requests)
  /\ Slots \in Nat \ {0}
  /\ Tokens \in Nat \ {0}
  /\ FailingWork \in BOOLEAN
  /\ MaxRuns \in Nat

VARIABLES
  pc,        \* where each request is
  free,      \* value of the semaphore
  active,    \* the gauge app_cpu_stress_active / app_db_stress_active
  others,    \* threads held by other endpoints
  runs,      \* app_cpu_stress_runs_total / app_db_stress_runs_total
  failed,    \* runs answered through db_http_exception
  admitted   \* history: runs that got a slot

stressVars == <<pc, free, active, others, runs, failed, admitted>>

StressPcs == {"idle", "waiting", "burning", "returned", "raised",
              "ok", "busy", "invalid", "error"}

\* A request holds a slot from its acquire to its finally block.
Holding == {"waiting", "burning", "returned", "raised"}
Answered == {"ok", "busy", "invalid", "error"}

Held == {r \in Requests : pc[r] \in Holding}
Burning == {r \in Requests : pc[r] = "burning"}

\* The pool's thread is given back when the event loop resumes the handler.
Threads == {r \in Requests : pc[r] \in {"burning", "returned", "raised"}}

StressTypeOK ==
  /\ pc \in [Requests -> StressPcs]
  /\ free \in 0 .. Slots
  /\ active \in Nat
  /\ others \in 0 .. Tokens
  /\ {runs, failed, admitted} \subseteq Nat

-----------------------------------------------------------------------------
StressInit ==
  /\ pc = [r \in Requests |-> "idle"]
  /\ free = Slots
  /\ active = 0
  /\ others = 0
  /\ runs = 0
  /\ failed = 0
  /\ admitted = 0

Asking(r) == pc[r] \in {"idle"} \cup Answered

\* duration <= 0, duration above the maximum, batch_size out of range: 400.
Refuse(r) ==
  /\ Asking(r)
  /\ pc' = [pc EXCEPT ![r] = "invalid"]
  /\ UNCHANGED <<free, active, others, runs, failed, admitted>>

\* semaphore.acquire(blocking=False) fails: 429.
Reject(r) ==
  /\ Asking(r)
  /\ free = 0
  /\ pc' = [pc EXCEPT ![r] = "busy"]
  /\ UNCHANGED <<free, active, others, runs, failed, admitted>>

BugAdmit(r) ==      \* mutant: the result of acquire is not looked at
  /\ Asking(r)
  /\ admitted < MaxRuns
  /\ free' = free - 1
  /\ active' = active + 1
  /\ admitted' = admitted + 1
  /\ pc' = [pc EXCEPT ![r] = "waiting"]
  /\ UNCHANGED <<others, runs, failed>>

\* The slot is taken, the gauge raised, and the work handed to the pool.
Admit(r) ==
  /\ Asking(r)
  /\ free > 0
  /\ admitted < MaxRuns
  /\ free' = free - 1
  /\ active' = active + 1
  /\ admitted' = admitted + 1
  /\ pc' = [pc EXCEPT ![r] = "waiting"]
  /\ UNCHANGED <<others, runs, failed>>

\* run_in_threadpool: a thread of the pool takes the work up ...
StartWork(r) ==
  /\ pc[r] = "waiting"
  /\ Cardinality(Threads) + others < Tokens
  /\ pc' = [pc EXCEPT ![r] = "burning"]
  /\ UNCHANGED <<free, active, others, runs, failed, admitted>>

BugEndWork(r) ==    \* mutant: the work needs a second thread of the pool
  /\ pc[r] = "burning"
  /\ Cardinality(Threads) + others < Tokens
  /\ \/ pc' = [pc EXCEPT ![r] = "returned"]
     \/ FailingWork /\ pc' = [pc EXCEPT ![r] = "raised"]
  /\ UNCHANGED <<free, active, others, runs, failed, admitted>>

\* ... and ends it: _burn_cpu stops at its deadline, run_db_stress too, or
\* with the exception of a batch.
EndWork(r) ==
  /\ pc[r] = "burning"
  /\ \/ pc' = [pc EXCEPT ![r] = "returned"]
     \/ FailingWork /\ pc' = [pc EXCEPT ![r] = "raised"]
  /\ UNCHANGED <<free, active, others, runs, failed, admitted>>

\* Back on the event loop: the finally block, then the counters of a run.
Complete(r) ==
  /\ pc[r] = "returned"
  /\ free' = free + 1
  /\ active' = active - 1
  /\ runs' = runs + 1
  /\ pc' = [pc EXCEPT ![r] = "ok"]
  /\ UNCHANGED <<others, failed, admitted>>

\* except: raise db_http_exception, and the same finally block.
BugFail(r) ==       \* mutant: the release is not in a finally block
  /\ pc[r] = "raised"
  /\ active' = active - 1
  /\ failed' = failed + 1
  /\ pc' = [pc EXCEPT ![r] = "error"]
  /\ UNCHANGED <<free, others, runs, admitted>>

BugFailCounted(r) ==  \* mutant: a failed run also counts as completed
  /\ pc[r] = "raised"
  /\ free' = free + 1
  /\ active' = active - 1
  /\ failed' = failed + 1
  /\ runs' = runs + 1
  /\ pc' = [pc EXCEPT ![r] = "error"]
  /\ UNCHANGED <<others, admitted>>

Fail(r) ==
  /\ pc[r] = "raised"
  /\ free' = free + 1
  /\ active' = active - 1
  /\ failed' = failed + 1
  /\ pc' = [pc EXCEPT ![r] = "error"]
  /\ UNCHANGED <<others, runs, admitted>>

\* Plain `def` endpoints take and give back threads of the same pool.
OtherTakes ==
  /\ Cardinality(Threads) + others < Tokens
  /\ others' = others + 1
  /\ UNCHANGED <<pc, free, active, runs, failed, admitted>>

OtherReturns ==
  /\ others > 0
  /\ others' = others - 1
  /\ UNCHANGED <<pc, free, active, runs, failed, admitted>>

StressNext ==
  \/ \E r \in Requests : \/ Refuse(r)
                         \/ Reject(r)
                         \/ Admit(r)
                         \/ StartWork(r)
                         \/ EndWork(r)
                         \/ Complete(r)
                         \/ Fail(r)
  \/ OtherTakes
  \/ OtherReturns

\* The event loop and the threads run.  The limiter queues its waiters in
\* order, so a waiting run is not overtaken for ever: strong fairness.
StressFairness ==
  /\ \A r \in Requests : /\ SF_stressVars(StartWork(r))
                         /\ WF_stressVars(EndWork(r))
                         /\ WF_stressVars(Complete(r))
                         /\ WF_stressVars(Fail(r))
  /\ WF_stressVars(OtherReturns)

StressSpec == StressInit /\ [][StressNext]_stressVars

FairStressSpec == StressSpec /\ StressFairness

-----------------------------------------------------------------------------
(***************************************************************************)
(* No slot leaks and none is invented: the semaphore and the gauge always  *)
(* account exactly for the runs in flight, on every way out of the handler.*)
(***************************************************************************)
SlotsAccounted ==
  /\ free + Cardinality(Held) = Slots
  /\ active = Cardinality(Held)

(***************************************************************************)
(* The runs that burn at one time never exceed the slots, nor, with the    *)
(* other endpoints, the threads of the pool: "at most one slot per CPU     *)
(* core".                                                                  *)
(***************************************************************************)
WorkBounded ==
  /\ Cardinality(Burning) <= Slots
  /\ Cardinality(Threads) + others <= Tokens

(***************************************************************************)
(* Every run admitted is still in flight, or was counted exactly once: as  *)
(* completed (runs_total) or as answered with a database error.            *)
(***************************************************************************)
RunsConserved == runs + failed + Cardinality(Held) = admitted

(***************************************************************************)
(* A run that holds a slot gives it back, even when every thread of the    *)
(* pool is taken by other endpoints again and again.                       *)
(***************************************************************************)
SlotsReturn == \A r \in Requests : pc[r] \in Holding ~> pc[r] \notin Holding

Slot == INSTANCE Lease
          WITH Clients <- Requests, Limit <- Slots, held <- Held, left <- free

(***************************************************************************)
(* The slots implement Lease: whatever the interleaving, a step admits or  *)
(* releases one request at most, admits none without a free slot, and the  *)
(* semaphore moves in the very step that changes who holds.                *)
(***************************************************************************)
SlotsAreLeased == Slot!LeaseSpec
=============================================================================
