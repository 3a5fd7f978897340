------------------------------ MODULE Lifespan ------------------------------
(***************************************************************************)
(* The whole life of a process: Startup, composed with the caches behind   *)
(* get_engine and get_session_factory of app/database.py, the task of      *)
(* app/traffic.py, and the shutdown half of the lifespan of app/main.py.   *)
(*                                                                         *)
(* functools.lru_cache does not lock while it computes: threads that miss  *)
(* at the same time each compute a value of their own, the first to finish *)
(* fills the cache, and every other one goes on with the value it has.     *)
(***************************************************************************)
EXTENDS Startup, FiniteSets

CONSTANTS
  ThreadsOf,  \* the server threads of each process
  Traffic,    \* those with settings.traffic_generator_enabled
  BadTarget   \* the generator's base URL may be one httpx refuses to parse

ASSUME LifespanAssumption ==
  /\ \A p \in Processes : IsFiniteSet(ThreadsOf[p])
  /\ Traffic \subseteq Processes
  /\ BadTarget \in BOOLEAN

\* Engines are numbered in the order a process builds them; 0 is none.
VARIABLES
  stage,    \* where each process is in its lifespan
  auto,     \* history: it called init_database
  built,    \* engines it has built
  cached,   \* the engine in the cache of get_engine
  factory,  \* the engine the cached session factory is bound to
  pools,    \* engines whose pool holds connections
  traffic,  \* its traffic task
  at,       \* where each of its threads is in a request
  engine    \* the engine that thread has in hand

caches == <<built, cached, factory, pools>>
threadVars == <<at, engine>>
lifeVars == <<stage, auto, traffic>>
lifespanVars == <<startupVars, lifeVars, caches, threadVars>>

Stages == {"starting", "open", "draining", "disposing", "stopped", "killed"}
Places == {"idle", "engine", "build", "bind", "query"}

LifespanTypeOK ==
  /\ StartupTypeOK
  /\ stage \in [Processes -> Stages]
  /\ auto \in [Processes -> BOOLEAN]
  /\ built \in [Processes -> Nat]
  /\ cached \in [Processes -> Nat]
  /\ factory \in [Processes -> Nat]
  /\ pools \in [Processes -> SUBSET Nat]
  /\ traffic \in [Processes -> {"off", "running", "dead"}]
  /\ \A p \in Processes : /\ at[p] \in [ThreadsOf[p] -> Places]
                          /\ engine[p] \in [ThreadsOf[p] -> Nat]

-----------------------------------------------------------------------------
Idle(p) == [t \in ThreadsOf[p] |-> "idle"]
NoEngine(p) == [t \in ThreadsOf[p] |-> 0]

LifespanInit ==
  /\ StartupInit
  /\ stage = [p \in Processes |-> "killed"]
  /\ auto = [p \in Processes |-> FALSE]
  /\ built = [p \in Processes |-> 0]
  /\ cached = [p \in Processes |-> 0]
  /\ factory = [p \in Processes |-> 0]
  /\ pools = [p \in Processes |-> {}]
  /\ traffic = [p \in Processes |-> "off"]
  /\ at = [p \in Processes |-> Idle(p)]
  /\ engine = [p \in Processes |-> NoEngine(p)]

\* A new memory: the caches with `first` as their engine, or with none.
Fresh(p, first) ==
  /\ built' = [built EXCEPT ![p] = first]
  /\ cached' = [cached EXCEPT ![p] = first]
  /\ factory' = [factory EXCEPT ![p] = 0]
  /\ pools' = [pools EXCEPT ![p] = {}]
  /\ traffic' = [traffic EXCEPT ![p] = "off"]
  /\ at' = [at EXCEPT ![p] = Idle(p)]
  /\ engine' = [engine EXCEPT ![p] = NoEngine(p)]

\* The lifespan starts; init_database calls get_engine before its first
\* operation, when no other thread runs.
BugStart(p) ==      \* mutant: init_database builds an engine of its own
  /\ Boot(p)
  /\ stage' = [stage EXCEPT ![p] = "starting"]
  /\ auto' = [auto EXCEPT ![p] = pc'[p] = "inspect"]
  /\ Fresh(p, 0)

Start(p) ==
  /\ Boot(p)
  /\ stage' = [stage EXCEPT ![p] = "starting"]
  /\ auto' = [auto EXCEPT ![p] = pc'[p] = "inspect"]
  /\ Fresh(p, IF auto'[p] THEN 1 ELSE 0)

\* init_database: an operation that reaches the database leaves a connection
\* in the pool; get_session_factory is called once the schema is there.
Initialise(p) ==
  /\ InitStep(p)
  /\ pools' = [pools EXCEPT ![p] = IF CanRun(p) THEN @ \cup {cached[p]} ELSE @]
  /\ factory' = [factory EXCEPT ![p] = IF pc'[p] = "seedCheck" THEN cached[p]
                                       ELSE @]
  /\ UNCHANGED <<lifeVars, built, cached, threadVars>>

\* The traffic task is created and the lifespan yields.
Ready(p) ==
  /\ pc[p] = "serving"
  /\ stage[p] = "starting"
  /\ stage' = [stage EXCEPT ![p] = "open"]
  /\ traffic' = [traffic EXCEPT ![p] = IF p \in Traffic THEN "running" ELSE "off"]
  /\ UNCHANGED <<startupVars, auto, caches, threadVars>>

\* Only httpx.HTTPError is caught: an InvalidURL ends the task.
TrafficDies(p) ==
  /\ BadTarget
  /\ traffic[p] = "running"
  /\ traffic' = [traffic EXCEPT ![p] = "dead"]
  /\ UNCHANGED <<startupVars, stage, auto, caches, threadVars>>

-----------------------------------------------------------------------------
Move(p, t, place, e) ==
  /\ at' = [at EXCEPT ![p][t] = place]
  /\ engine' = [engine EXCEPT ![p][t] = e]

\* get_db: the cache of get_session_factory is looked up ...
AskFactory(p, t) ==
  /\ stage[p] = "open"
  /\ at[p][t] = "idle"
  /\ IF factory[p] # 0 THEN Move(p, t, "query", factory[p])
                       ELSE Move(p, t, "engine", 0)
  /\ UNCHANGED <<startupVars, lifeVars, caches>>

\* ... on a miss the one of get_engine ...
AskEngine(p, t) ==
  /\ at[p][t] = "engine"
  /\ IF cached[p] # 0 THEN Move(p, t, "bind", cached[p])
                      ELSE Move(p, t, "build", 0)
  /\ UNCHANGED <<startupVars, lifeVars, caches>>

FillIn(cache, value) == IF cache = 0 THEN value ELSE cache

\* ... on a miss there an engine is built, and cached by the first to finish
BuildEngine(p, t) ==
  /\ at[p][t] = "build"
  /\ built' = [built EXCEPT ![p] = @ + 1]
  /\ cached' = [cached EXCEPT ![p] = FillIn(@, built'[p])]
  /\ Move(p, t, "bind", built'[p])
  /\ UNCHANGED <<startupVars, lifeVars, factory, pools>>

\* ... and a session factory is bound to the engine in hand.
BindFactory(p, t) ==
  /\ at[p][t] = "bind"
  /\ factory' = [factory EXCEPT ![p] = FillIn(@, engine[p][t])]
  /\ Move(p, t, "query", engine[p][t])
  /\ UNCHANGED <<startupVars, lifeVars, built, cached, pools>>

\* The session's statement takes a connection of its engine's pool, and the
\* request is answered.
BugQuery(p, t) ==   \* mutant: a failed statement clears the caches
  /\ at[p][t] = "query"
  /\ pools' = [pools EXCEPT ![p] = IF CanRun(p) THEN @ \cup {engine[p][t]}
                                   ELSE @]
  /\ cached' = [cached EXCEPT ![p] = IF CanRun(p) THEN @ ELSE 0]
  /\ factory' = [factory EXCEPT ![p] = IF CanRun(p) THEN @ ELSE 0]
  /\ Move(p, t, "idle", 0)
  /\ UNCHANGED <<startupVars, lifeVars, built>>

Query(p, t) ==
  /\ at[p][t] = "query"
  /\ pools' = [pools EXCEPT ![p] = IF CanRun(p) THEN @ \cup {engine[p][t]}
                                   ELSE @]
  /\ Move(p, t, "idle", 0)
  /\ UNCHANGED <<startupVars, lifeVars, built, cached, factory>>

RequestStep(p, t) ==
  \/ AskEngine(p, t)
  \/ BuildEngine(p, t)
  \/ BindFactory(p, t)
  \/ Query(p, t)

\* POST /api/test/db-failure, in a thread of its own
Switch(p, t) ==
  /\ stage[p] = "open"
  /\ at[p][t] = "idle"
  /\ Toggle(p)
  /\ UNCHANGED <<lifeVars, caches, threadVars>>

-----------------------------------------------------------------------------
\* SIGTERM: the server takes no more requests ...
Terminate(p) ==
  /\ stage[p] = "open"
  /\ stage' = [stage EXCEPT ![p] = "draining"]
  /\ UNCHANGED <<startupVars, auto, traffic, caches, threadVars>>

Drained(p) == stage[p] = "draining" /\ at[p] = Idle(p)

\* The process ends; what it leaves open can still be seen until it restarts.
Exit(p) ==
  /\ Crash(p)
  /\ stage' = [stage EXCEPT ![p] = "stopped"]

\* ... and resumes the lifespan when those in flight are answered: cancel()
\* and await of the traffic task, whose CancelledError is swallowed ...
BugCancelTraffic(p) ==   \* mutant: the task is awaited, not cancelled
  /\ Drained(p)
  /\ traffic[p] # "running"
  /\ traffic[p] # "dead"
  /\ stage' = [stage EXCEPT ![p] = "disposing"]
  /\ traffic' = [traffic EXCEPT ![p] = "off"]
  /\ UNCHANGED <<startupVars, auto, caches, threadVars>>

CancelTraffic(p) ==
  /\ Drained(p)
  /\ traffic[p] # "dead"
  /\ stage' = [stage EXCEPT ![p] = "disposing"]
  /\ traffic' = [traffic EXCEPT ![p] = "off"]
  /\ UNCHANGED <<startupVars, auto, caches, threadVars>>

\* ... or whose own exception leaves the lifespan ...
AwaitRaises(p) ==
  /\ Drained(p)
  /\ traffic[p] = "dead"
  /\ Exit(p)
  /\ UNCHANGED <<auto, traffic, caches, threadVars>>

\* ... then dispose_engine.
BugDispose(p) ==    \* mutant: it asks the other cache
  /\ stage[p] = "disposing"
  /\ Exit(p)
  /\ pools' = [pools EXCEPT ![p] = @ \ {factory[p]}]
  /\ UNCHANGED <<auto, traffic, built, cached, factory, threadVars>>

Dispose(p) ==
  /\ stage[p] = "disposing"
  /\ Exit(p)
  /\ pools' = [pools EXCEPT ![p] = @ \ {cached[p]}]
  /\ UNCHANGED <<auto, traffic, built, cached, factory, threadVars>>

ShutdownStep(p) == CancelTraffic(p) \/ AwaitRaises(p) \/ Dispose(p)

Die(p) ==
  /\ Crash(p)
  /\ stage' = [stage EXCEPT ![p] = "killed"]
  /\ auto' = [auto EXCEPT ![p] = FALSE]
  /\ Fresh(p, 0)

DatabaseGoes == DatabaseChanges /\ UNCHANGED <<lifeVars, caches, threadVars>>

LifespanNext ==
  \/ \E p \in Processes : \/ Start(p)
                          \/ Initialise(p)
                          \/ Ready(p)
                          \/ TrafficDies(p)
                          \/ \E t \in ThreadsOf[p] : \/ AskFactory(p, t)
                                                     \/ RequestStep(p, t)
                                                     \/ Switch(p, t)
                          \/ Terminate(p)
                          \/ ShutdownStep(p)
                          \/ Die(p)
  \/ DatabaseGoes

LifespanSpec == LifespanInit /\ [][LifespanNext]_lifespanVars

\* What a process has begun it goes on with: time-outs bound the database
\* operations, and nothing in the shutdown waits for another process.
LifespanFairness ==
  \A p \in Processes :
    /\ WF_lifespanVars(Initialise(p) \/ Ready(p) \/ ShutdownStep(p))
    /\ \A t \in ThreadsOf[p] : WF_lifespanVars(RequestStep(p, t))

FairLifespanSpec == LifespanSpec /\ LifespanFairness

-----------------------------------------------------------------------------
(***************************************************************************)
(* The caches of get_engine and get_session_factory agree, although no     *)
(* lock is held while either is filled: after init_database every session  *)
(* uses the engine that dispose_engine will dispose, so the pool_size of   *)
(* the settings bounds the process.  (Without it, two first requests may   *)
(* build two engines, and the two caches may keep different ones.)         *)
(***************************************************************************)
OneEngine ==
  \A p \in Processes : auto[p] =>
    /\ factory[p] \in {0, cached[p]}
    /\ pools[p] \subseteq {cached[p]}
    /\ \A t \in ThreadsOf[p] : engine[p][t] \in {0, cached[p]}

(***************************************************************************)
(* Without init_database the first requests race for the caches, and each  *)
(* may build an engine; but no thread ever builds a second one.  So the    *)
(* connections of a process stay within one pool for each server thread,   *)
(* whatever the load and however long it lives.                            *)
(***************************************************************************)
EnginesBounded ==
  \A p \in Processes :
    /\ built[p] <= IF auto[p] THEN 1 ELSE Cardinality(ThreadsOf[p])
    /\ pools[p] \subseteq 1 .. built[p]

(***************************************************************************)
(* dispose_engine: "Close pooled connections on shutdown."  A process that *)
(* called init_database and whose traffic task did not die leaves no       *)
(* connection behind, however the requests before interleaved.             *)
(***************************************************************************)
ShutdownCloses ==
  \A p \in Processes :
    stage[p] = "stopped" /\ traffic[p] # "dead" =>
      /\ cached[p] \notin pools[p]
      /\ auto[p] => pools[p] = {}

(***************************************************************************)
(* A process told to stop does: the requests in flight end, and neither a  *)
(* running traffic task nor a dead one keeps the lifespan from its end.    *)
(***************************************************************************)
ShutsDown ==
  \A p \in Processes :
    stage[p] = "draining" ~> stage[p] \in {"stopped", "killed"}
=============================================================================
