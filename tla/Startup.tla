------------------------------ MODULE Startup ------------------------------
(***************************************************************************)
(* Start-up of the application against a database that may be away: the    *)
(* lifespan of app/main.py, init_failure_state and init_database of        *)
(* app/database.py, crashes and restarts (docker restarts the container    *)
(* unless it was stopped), and what the data endpoints answer afterwards.  *)
(*                                                                         *)
(* A process serves no request before its lifespan yields, so nothing      *)
(* toggles its failure switch while it initialises the database.  Several  *)
(* processes may start at once against the same database.                  *)
(***************************************************************************)
EXTENDS Naturals

CONSTANTS
  Processes,  \* application processes that share the database
  AutoInit,   \* the values of settings.db_auto_init processes start with
  Seed,       \* settings.db_seed
  SeedUsers,  \* settings.db_seed_users
  StartArmed  \* the values of SIMULATE_DB_FAILURE a process may start with

ASSUME StartupAssumption ==
  /\ AutoInit \subseteq BOOLEAN
  /\ Seed \in BOOLEAN
  /\ SeedUsers \in Nat
  /\ StartArmed \subseteq BOOLEAN

VARIABLES
  up,        \* environment: the database is reachable
  tables,    \* the schema exists
  users,     \* committed rows of `users`; their orders commit with them
  pc,        \* where each process is in its life
  armed      \* its failure switch

database == <<tables, users>>
startupVars == <<up, database, pc, armed>>

Booting == {"inspect", "create", "seedCheck", "seedInsert"}

StartupTypeOK ==
  /\ up \in BOOLEAN /\ tables \in BOOLEAN
  /\ users \in Nat
  /\ pc \in [Processes -> Booting \cup {"down", "serving"}]
  /\ armed \in [Processes -> BOOLEAN]

-----------------------------------------------------------------------------
StartupInit ==
  /\ up \in BOOLEAN
  /\ tables = FALSE
  /\ users = 0
  /\ pc = [p \in Processes |-> "down"]
  /\ armed = [p \in Processes |-> FALSE]

GoTo(p, place) == pc' = [pc EXCEPT ![p] = place]

\* The lifespan begins: init_failure_state, and db_auto_init is tested.
Boot(p) ==
  /\ pc[p] = "down"
  /\ \E simulate \in StartArmed : armed' = [armed EXCEPT ![p] = simulate]
  /\ \E init \in AutoInit : GoTo(p, IF init THEN "inspect" ELSE "serving")
  /\ UNCHANGED <<up, database>>

\* init_database failed.  The exception is logged, and the app starts anyway.
BugInitFailed(p) ==   \* mutant: the exception leaves the lifespan
  GoTo(p, "aborted")

InitFailed(p) == GoTo(p, "serving")

\* A tracked operation of init_database fails: switch armed or database away.
OperationFails(p) ==
  /\ pc[p] \in Booting
  /\ armed[p] \/ ~up
  /\ InitFailed(p)
  /\ UNCHANGED <<up, database, armed>>

CanRun(p) == up /\ ~armed[p]

AfterSchema == IF Seed THEN "seedCheck" ELSE "serving"

\* create_all looks for the tables first ...
InspectSchema(p) ==
  /\ pc[p] = "inspect"
  /\ CanRun(p)
  /\ GoTo(p, IF tables THEN AfterSchema ELSE "create")
  /\ UNCHANGED <<up, database, armed>>

\* ... and creates them in one transaction, which fails if another process
\* was faster.
CreateSchema(p) ==
  /\ pc[p] = "create"
  /\ CanRun(p)
  /\ tables' = TRUE
  /\ IF tables THEN InitFailed(p) ELSE GoTo(p, AfterSchema)
  /\ UNCHANGED <<up, users, armed>>

\* seed_check: SELECT count(users.id)
SeedCheck(p) ==
  /\ pc[p] = "seedCheck"
  /\ CanRun(p)
  /\ GoTo(p, IF users > 0 THEN "serving" ELSE "seedInsert")
  /\ UNCHANGED <<up, database, armed>>

\* What the committed seed transaction leaves: the addresses it inserts are
\* the same in every process, and users.email is unique.
BugSeeded ==          \* mutant: users.email without its unique constraint
  users + SeedUsers

Seeded == IF users > 0 THEN users ELSE SeedUsers

\* seed_insert: users, flush, orders, one commit; a violation of the unique
\* constraint rolls all of it back.
SeedInsert(p) ==
  /\ pc[p] = "seedInsert"
  /\ CanRun(p)
  /\ users' = Seeded
  /\ IF users > 0 THEN InitFailed(p) ELSE GoTo(p, "serving")
  /\ UNCHANGED <<up, tables, armed>>

\* The database goes away after it committed and before it said so.
SeedUnacknowledged(p) ==
  /\ pc[p] = "seedInsert"
  /\ CanRun(p)
  /\ users = 0
  /\ users' = Seeded
  /\ up' = FALSE
  /\ InitFailed(p)
  /\ UNCHANGED <<tables, armed>>

\* What GET /api/users and GET /api/orders answer: a failure goes through
\* db_http_exception; a missing table is a dbapi_error, answered 500.
DataStatus(p) == IF ~CanRun(p) THEN 503
                 ELSE IF tables THEN 200 ELSE 500

\* POST /api/test/db-failure
Toggle(p) ==
  /\ pc[p] = "serving"
  /\ armed' = [armed EXCEPT ![p] = ~@]
  /\ UNCHANGED <<up, database, pc>>

\* The process dies anywhere, or is stopped; uncommitted work is lost.
Crash(p) ==
  /\ pc[p] # "down"
  /\ GoTo(p, "down")
  /\ armed' = [armed EXCEPT ![p] = FALSE]
  /\ UNCHANGED <<up, database>>

DatabaseChanges == up' = ~up /\ UNCHANGED <<database, pc, armed>>

InitStep(p) ==
  \/ OperationFails(p)
  \/ InspectSchema(p)
  \/ CreateSchema(p)
  \/ SeedCheck(p)
  \/ SeedInsert(p)
  \/ SeedUnacknowledged(p)

StartupNext ==
  \/ \E p \in Processes : \/ Boot(p)
                          \/ InitStep(p)
                          \/ Toggle(p)
                          \/ Crash(p)
  \/ DatabaseChanges

StartupSpec == StartupInit /\ [][StartupNext]_startupVars

\* A started initialisation goes on: connect_timeout, statement_timeout and
\* the failure delay bound each of its operations.
FairStartupSpec ==
  StartupSpec /\ \A p \in Processes : WF_startupVars(InitStep(p))

-----------------------------------------------------------------------------
(***************************************************************************)
(* init_database is "idempotent: safe to run on every container start": in *)
(* every interleaving of starting processes, crashes and outages the seed  *)
(* is there entirely or not at all, and only ever with its tables.         *)
(***************************************************************************)
SeedAllOrNothing == users \in {0, SeedUsers} /\ (users > 0 => tables)

(***************************************************************************)
(* A start against an unreachable database is not fatal: whatever fails,   *)
(* a process that booted comes to serve, unless it is killed.              *)
(***************************************************************************)
ServesEventually ==
  \A p \in Processes : pc[p] \in Booting ~> pc[p] \in {"serving", "down"}

(***************************************************************************)
(* README.md: the app started without its database "serves 503s from data  *)
(* endpoints until the database returns".  Hence a data endpoint answers   *)
(* 503 or, once the database is back, 200.                                 *)
(***************************************************************************)
OutageAnswers503 ==
  \A p \in Processes : pc[p] = "serving" => DataStatus(p) \in {200, 503}
=============================================================================
