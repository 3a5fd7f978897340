-------------------------- MODULE ConnectionBudget --------------------------
(***************************************************************************)
(* The connections of one PostgreSQL server, shared by the application's   *)
(* pool (get_engine of app/database.py) and the connection-exhaustion      *)
(* drill (infra/lambda/connection_exhaust_handler.py), which opens one     *)
(* connection per invocation and keeps it while it sleeps.                 *)
(*                                                                         *)
(* Invocations are alike, and so are requests: the model counts how many   *)
(* are at each place, so that TLC can run it with the deployed numbers.    *)
(***************************************************************************)
EXTENDS Naturals

CONSTANTS
  Concurrency,     \* reserved_concurrent_executions of the function
  PoolSize,        \* settings.db_pool_size
  MaxOverflow,     \* settings.db_max_overflow
  MaxConnections,  \* max_connections of the server
  MaxOrphans       \* bound: connections of killed invocations at a time

ASSUME BudgetAssumption ==
  /\ Concurrency \in Nat /\ PoolSize \in Nat /\ MaxOverflow \in Nat
  /\ MaxConnections \in Nat /\ MaxOrphans \in Nat

VARIABLES
  load,      \* environment: the drill is being driven
  dialing,   \* invocations in psycopg.connect
  querying,  \* invocations in their SELECT
  holding,   \* invocations asleep for HOLD_SECONDS
  orphans,   \* connections whose invocation was killed
  appOut,    \* connections checked out of the application's pool
  appIdle,   \* connections idle in it
  backends   \* connections the server counts

drill == <<load, dialing, querying, holding, orphans>>
app == <<appOut, appIdle>>
budgetVars == <<drill, app, backends>>

Capacity == PoolSize + MaxOverflow
Running == dialing + querying + holding
Full == backends = MaxConnections

BudgetTypeOK ==
  /\ load \in BOOLEAN
  /\ dialing \in Nat /\ querying \in Nat /\ holding \in Nat
  /\ Running <= Concurrency
  /\ orphans \in 0 .. MaxOrphans
  /\ appOut \in Nat /\ appOut + appIdle <= Capacity
  /\ appIdle \in 0 .. PoolSize
  /\ backends \in 0 .. MaxConnections

-----------------------------------------------------------------------------
BudgetInit ==
  /\ load = TRUE
  /\ dialing = 0 /\ querying = 0 /\ holding = 0 /\ orphans = 0
  /\ appOut = 0 /\ appIdle = 0
  /\ backends = 0

\* An invocation starts, unless the platform throttles it.
BugInvoke ==   \* mutant: no reserved concurrency
  /\ load
  /\ Running <= Concurrency
  /\ dialing' = dialing + 1
  /\ UNCHANGED <<load, querying, holding, orphans, app, backends>>

Invoke ==
  /\ load
  /\ Running < Concurrency
  /\ dialing' = dialing + 1
  /\ UNCHANGED <<load, querying, holding, orphans, app, backends>>

\* psycopg.connect returns a connection ...
Connect ==
  /\ dialing > 0
  /\ ~Full
  /\ dialing' = dialing - 1
  /\ querying' = querying + 1
  /\ backends' = backends + 1
  /\ UNCHANGED <<load, holding, orphans, app>>

\* ... or raises: the server is full or not reached in CONNECT_TIMEOUT.  The
\* invocation ends with conn still None.
ConnectFails ==
  /\ dialing > 0
  /\ dialing' = dialing - 1
  /\ UNCHANGED <<load, querying, holding, orphans, app, backends>>

QuerySucceeds ==
  /\ querying > 0
  /\ querying' = querying - 1
  /\ holding' = holding + 1
  /\ UNCHANGED <<load, dialing, orphans, app, backends>>

\* The SELECT raises; the finally block closes the connection.
BugQueryFails ==   \* mutant: the close only on the way of success
  /\ querying > 0
  /\ querying' = querying - 1
  /\ UNCHANGED <<load, dialing, holding, orphans, app, backends>>

QueryFails ==
  /\ querying > 0
  /\ querying' = querying - 1
  /\ backends' = backends - 1
  /\ UNCHANGED <<load, dialing, holding, orphans, app>>

\* The sleep is over: the response is returned, and finally closes.
BugRelease ==   \* mutant: the connection is kept for the next invocation
  /\ holding > 0
  /\ holding' = holding - 1
  /\ UNCHANGED <<load, dialing, querying, orphans, app, backends>>

Release ==
  /\ holding > 0
  /\ holding' = holding - 1
  /\ backends' = backends - 1
  /\ UNCHANGED <<load, dialing, querying, orphans, app>>

\* The platform kills an invocation that outlives its time-out: in the SELECT,
\* which has none of its own, or in the sleep, when the connect and the SELECT
\* were slow.  No finally block runs, and the server does not know yet.
Kill ==
  /\ orphans < MaxOrphans
  /\ \/ /\ querying > 0
        /\ querying' = querying - 1
        /\ holding' = holding
     \/ /\ holding > 0
        /\ holding' = holding - 1
        /\ querying' = querying
  /\ orphans' = orphans + 1
  /\ UNCHANGED <<load, dialing, app, backends>>

\* The server finds a client gone.
Reap ==
  /\ orphans > 0
  /\ orphans' = orphans - 1
  /\ backends' = backends - 1
  /\ UNCHANGED <<load, dialing, querying, holding, app>>

EndDrill == load /\ load' = FALSE
            /\ UNCHANGED <<dialing, querying, holding, orphans, app, backends>>

\* A request of the application takes an idle connection of the pool, or opens
\* one.  Beyond Capacity it waits; a full server refuses it (connection_limit).
AppTakesIdle ==
  /\ appIdle > 0
  /\ appIdle' = appIdle - 1
  /\ appOut' = appOut + 1
  /\ UNCHANGED <<drill, backends>>

AppConnects ==
  /\ appIdle = 0
  /\ appOut < Capacity
  /\ ~Full
  /\ appOut' = appOut + 1
  /\ backends' = backends + 1
  /\ UNCHANGED <<drill, appIdle>>

\* It gives it back: the pool keeps PoolSize of them and closes the others.
AppReturns ==
  /\ appOut > 0
  /\ appOut' = appOut - 1
  /\ \/ /\ appIdle < PoolSize
        /\ appIdle' = appIdle + 1
        /\ backends' = backends
     \/ /\ appIdle = PoolSize
        /\ appIdle' = appIdle
        /\ backends' = backends - 1
  /\ UNCHANGED drill

InvocationStep ==
  \/ Connect
  \/ ConnectFails
  \/ QuerySucceeds
  \/ QueryFails
  \/ Release
  \/ Kill

BudgetNext ==
  \/ Invoke
  \/ InvocationStep
  \/ Reap
  \/ EndDrill
  \/ AppTakesIdle
  \/ AppConnects
  \/ AppReturns

BudgetSpec == BudgetInit /\ [][BudgetNext]_budgetVars

\* CONNECT_TIMEOUT, HOLD_SECONDS and the time-out of the function end every
\* invocation, and the server finds dead clients.  Nobody need end the drill.
BudgetFairness == WF_budgetVars(InvocationStep) /\ WF_budgetVars(Reap)

FairBudgetSpec == BudgetSpec /\ BudgetFairness

-----------------------------------------------------------------------------
(***************************************************************************)
(* Every connection the server counts has an owner: an invocation, one     *)
(* that was killed, or the pool.  Nothing else leaks, whichever way the    *)
(* handler is left.  (lambda_handler, the finally block; QueuePool.)       *)
(***************************************************************************)
BackendsAccounted ==
  backends = querying + holding + orphans + appOut + appIdle

(***************************************************************************)
(* The budget: while the function's concurrency, the pool's capacity and   *)
(* the connections of killed invocations fit into max_connections, whoever *)
(* still may ask for a connection gets one: the drill cannot make the      *)
(* application or itself fail with "too many clients".                     *)
(***************************************************************************)
MayAsk == dialing > 0 \/ (appIdle = 0 /\ appOut < Capacity)

WithinBudget ==
  Concurrency + Capacity + orphans <= MaxConnections =>
    (MayAsk => ~Full)

(***************************************************************************)
(* Once the drill is over the server is left to the application for good,  *)
(* the connections of killed invocations included.                         *)
(***************************************************************************)
DrillPasses == ~load ~> [](backends = appOut + appIdle)
=============================================================================
