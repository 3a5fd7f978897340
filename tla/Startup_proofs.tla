--------------------------- MODULE Startup_proofs ---------------------------
(* Proofs about Startup and Lifespan for any number of processes, threads   *)
(* and seed rows.                                                           *)
EXTENDS Lifespan, Census

(***************************************************************************)
(* A process only looks at or inserts seed rows once the tables exist, and *)
(* nothing drops them: this is what carries the second conjunct of         *)
(* SeedAllOrNothing over a crash and a restart.                            *)
(***************************************************************************)
StartupIInv ==
  /\ StartupTypeOK
  /\ SeedAllOrNothing
  /\ \A p \in Processes : pc[p] \in {"seedCheck", "seedInsert"} => tables

LEMMA StartupInitInv == StartupInit => StartupIInv
<1>1. SUFFICES ASSUME StartupInit PROVE StartupIInv
  OBVIOUS
<1>2. up \in BOOLEAN /\ tables \in BOOLEAN
  BY <1>1, Zenon DEF StartupInit
<1>3. users \in Nat /\ users \in {0, SeedUsers} /\ ~(users > 0)
  BY <1>1 DEF StartupInit
<1>4. /\ pc \in [Processes -> Booting \cup {"down", "serving"}]
      /\ \A p \in Processes : pc[p] = "down"
  BY <1>1 DEF StartupInit
<1>5. armed \in [Processes -> BOOLEAN]
  BY <1>1 DEF StartupInit
<1> QED
  BY <1>2, <1>3, <1>4, <1>5
     DEF StartupIInv, StartupTypeOK, SeedAllOrNothing

LEMMA StartupNextInv == StartupIInv /\ [StartupNext]_startupVars => StartupIInv'
<1>1. SUFFICES ASSUME StartupIInv, [StartupNext]_startupVars
               PROVE  StartupIInv'
  OBVIOUS
<1> USE StartupAssumption
        DEF StartupIInv, StartupTypeOK, SeedAllOrNothing, Booting, GoTo,
            database
<1>2. ASSUME NEW p \in Processes, Boot(p) PROVE StartupIInv'
  BY <1>1, <1>2 DEF Boot
<1>3. ASSUME NEW p \in Processes, OperationFails(p) PROVE StartupIInv'
  BY <1>1, <1>3 DEF OperationFails, InitFailed
<1>4. ASSUME NEW p \in Processes, InspectSchema(p) PROVE StartupIInv'
  BY <1>1, <1>4 DEF InspectSchema, AfterSchema
<1>5. ASSUME NEW p \in Processes, CreateSchema(p) PROVE StartupIInv'
  BY <1>1, <1>5 DEF CreateSchema, AfterSchema, InitFailed
<1>6. ASSUME NEW p \in Processes, SeedCheck(p) PROVE StartupIInv'
  BY <1>1, <1>6 DEF SeedCheck
<1>7. ASSUME NEW p \in Processes, SeedInsert(p) PROVE StartupIInv'
  BY <1>1, <1>7 DEF SeedInsert, Seeded, InitFailed
<1>8. ASSUME NEW p \in Processes, SeedUnacknowledged(p) PROVE StartupIInv'
  BY <1>1, <1>8 DEF SeedUnacknowledged, Seeded, InitFailed
<1>10. ASSUME NEW p \in Processes, Toggle(p) PROVE StartupIInv'
  BY <1>1, <1>10 DEF Toggle
<1>11. ASSUME NEW p \in Processes, Crash(p) PROVE StartupIInv'
  BY <1>1, <1>11 DEF Crash
<1>12. CASE DatabaseChanges
  BY <1>1, <1>12 DEF DatabaseChanges
<1>13. CASE UNCHANGED startupVars
  BY <1>1, <1>13 DEF startupVars
<1> QED
  BY <1>1, <1>2, <1>3, <1>4, <1>5, <1>6, <1>7, <1>8, <1>10, <1>11, <1>12,
     <1>13 DEF StartupNext, InitStep

(***************************************************************************)
(* The seed is idempotent for any number of processes that start, crash    *)
(* and restart against the same database, whatever the outages between.    *)
(***************************************************************************)
THEOREM SeedIsIdempotent == StartupSpec => []SeedAllOrNothing
<1>1. StartupIInv => SeedAllOrNothing
  BY DEF StartupIInv
<1> QED
  BY <1>1, StartupInitInv, StartupNextInv, PTL DEF StartupSpec

-----------------------------------------------------------------------------
(* Lifespan adds to Startup and takes nothing away. *)
LEMMA LifespanStepsStartup ==
  [LifespanNext]_lifespanVars => [StartupNext]_startupVars
<1>1. SUFFICES ASSUME [LifespanNext]_lifespanVars
               PROVE  [StartupNext]_startupVars
  OBVIOUS
<1>2. ASSUME NEW p \in Processes, Start(p) \/ Initialise(p) \/ Die(p)
      PROVE  StartupNext
  BY <1>2 DEF Start, Initialise, Die, StartupNext
<1>3. ASSUME NEW p \in Processes, Ready(p) \/ TrafficDies(p) \/ Terminate(p)
      PROVE  UNCHANGED startupVars
  BY <1>3 DEF Ready, TrafficDies, Terminate
<1>4. ASSUME NEW p \in Processes, NEW t \in ThreadsOf[p],
             AskFactory(p, t) \/ RequestStep(p, t) \/ Switch(p, t)
      PROVE  [StartupNext]_startupVars
  BY <1>4 DEF AskFactory, RequestStep, AskEngine, BuildEngine, BindFactory,
              Query, Switch, StartupNext
<1>5. ASSUME NEW p \in Processes, ShutdownStep(p)
      PROVE  [StartupNext]_startupVars
  BY <1>5 DEF ShutdownStep, CancelTraffic, AwaitRaises, Dispose, Exit,
              StartupNext
<1>6. CASE DatabaseGoes
  BY <1>6 DEF DatabaseGoes, StartupNext
<1>7. CASE UNCHANGED lifespanVars
  BY <1>7 DEF lifespanVars
<1> QED
  BY <1>1, <1>2, <1>3, <1>4, <1>5, <1>6, <1>7 DEF LifespanNext

(***************************************************************************)
(* Every life of the processes is a behaviour of Startup: what is proved   *)
(* of the seed holds whatever requests, caches and shutdowns come between. *)
(***************************************************************************)
THEOREM StartupImplemented == LifespanSpec => StartupSpec
<1>1. LifespanInit => StartupInit
  BY DEF LifespanInit
<1> QED
  BY <1>1, LifespanStepsStartup, PTL DEF LifespanSpec, StartupSpec

-----------------------------------------------------------------------------
(***************************************************************************)
(* Once init_database was called no thread ever misses the cache of        *)
(* get_engine, so none builds an engine; and when the requests in flight   *)
(* have ended, no thread is left to put a connection back in a pool.       *)
(***************************************************************************)
Shared(p) ==
  auto[p] => /\ cached[p] # 0
             /\ factory[p] \in {0, cached[p]}
             /\ pools[p] \subseteq {cached[p]}
             /\ \A t \in ThreadsOf[p] : /\ engine[p][t] \in {0, cached[p]}
                                        /\ at[p][t] # "build"
                                        /\ at[p][t] \in {"bind", "query"} =>
                                             engine[p][t] # 0

Quiet(p) ==
  /\ stage[p] \in {"disposing", "stopped"} =>
       \A t \in ThreadsOf[p] : at[p][t] = "idle"
  /\ stage[p] = "stopped" => pc[p] = "down"

Closed(p) ==
  stage[p] = "stopped" /\ traffic[p] # "dead" =>
    /\ cached[p] \notin pools[p]
    /\ auto[p] => pools[p] = {}

LifeShape ==
  /\ stage \in [Processes -> Stages]
  /\ auto \in [Processes -> BOOLEAN]
  /\ built \in [Processes -> Nat]
  /\ DOMAIN cached = Processes
  /\ DOMAIN factory = Processes
  /\ DOMAIN pools = Processes
  /\ DOMAIN traffic = Processes
  /\ DOMAIN at = Processes
  /\ DOMAIN engine = Processes
  /\ \A p \in Processes : /\ DOMAIN at[p] = ThreadsOf[p]
                          /\ DOMAIN engine[p] = ThreadsOf[p]

LifeIInv ==
  /\ LifeShape
  /\ \A p \in Processes : Shared(p) /\ Quiet(p) /\ Closed(p)

LEMMA LifeInitInv == LifespanInit => LifeIInv
  BY DEF LifespanInit, StartupInit, LifeIInv, LifeShape, Shared, Quiet, Closed,
         Idle, NoEngine, Stages

\* What a step of process p leaves alone in another process.
Apart(q) ==
  /\ pc'[q] = pc[q] /\ stage'[q] = stage[q] /\ auto'[q] = auto[q]
  /\ cached'[q] = cached[q] /\ factory'[q] = factory[q]
  /\ pools'[q] = pools[q] /\ traffic'[q] = traffic[q]
  /\ at'[q] = at[q] /\ engine'[q] = engine[q]

LEMMA ApartKept ==
  ASSUME NEW q \in Processes, Shared(q), Quiet(q), Closed(q), Apart(q)
  PROVE  Shared(q)' /\ Quiet(q)' /\ Closed(q)'
  BY DEF Shared, Quiet, Closed, Apart

LEMMA InitStepAt ==
  ASSUME StartupTypeOK, NEW p \in Processes, InitStep(p)
  PROVE  /\ pc[p] \in Booting
         /\ \A q \in Processes : q # p => pc'[q] = pc[q]
  BY DEF StartupTypeOK, InitStep, OperationFails, InspectSchema, CreateSchema,
         SeedCheck, SeedInsert, SeedUnacknowledged, InitFailed, GoTo, Booting

\* A step of p is right when it is right for p and leaves the others apart.
LEMMA StepOfOne ==
  ASSUME LifeIInv, NEW p \in Processes, LifeShape',
         Shared(p)', Quiet(p)', Closed(p)',
         \A q \in Processes : q # p => Apart(q)
  PROVE  LifeIInv'
  BY ApartKept DEF LifeIInv

\* Start and Die leave a new memory behind.
LEMMA FreshInv ==
  ASSUME LifeIInv, StartupTypeOK, NEW p \in Processes, Start(p) \/ Die(p)
  PROVE  LifeIInv'
<1>1. \E e \in {0, 1} : Fresh(p, e) /\ (auto'[p] => e = 1)
  <2>1. CASE Start(p)
    BY <2>1 DEF Start
  <2>2. CASE Die(p)
    BY <2>2 DEF Die, LifeIInv, LifeShape
  <2> QED
    BY <2>1, <2>2
<1>2. PICK e \in {0, 1} : Fresh(p, e) /\ (auto'[p] => e = 1)
  BY <1>1
<1>3. /\ stage' \in [Processes -> Stages]
      /\ auto' \in [Processes -> BOOLEAN]
      /\ stage'[p] \notin {"disposing", "stopped"}
      /\ \A q \in Processes : q # p => /\ stage'[q] = stage[q]
                                       /\ auto'[q] = auto[q]
                                       /\ pc'[q] = pc[q]
  <2>1. /\ \E s \in Stages \ {"disposing", "stopped"} :
              stage' = [stage EXCEPT ![p] = s]
        /\ \E a \in BOOLEAN : auto' = [auto EXCEPT ![p] = a]
    <3>1. CASE Start(p)
      <4>1. (pc'[p] = "inspect") \in BOOLEAN
        OBVIOUS
      <4> QED
        BY <3>1, <4>1 DEF Start, Stages
    <3>2. CASE Die(p)
      BY <3>2 DEF Die, Stages
    <3> QED
      BY <3>1, <3>2
  <2>2. \E place : pc' = [pc EXCEPT ![p] = place]
    BY DEF Start, Die, Boot, Crash, GoTo
  <2>3. \A q \in Processes : q # p => pc'[q] = pc[q]
    BY <2>2 DEF StartupTypeOK
  <2> QED
    BY <2>1, <2>3 DEF LifeIInv, LifeShape
<1> USE DEF LifeIInv, LifeShape
<1>4. /\ built' \in [Processes -> Nat]
      /\ cached'[p] = e /\ factory'[p] = 0 /\ pools'[p] = {}
      /\ DOMAIN cached' = Processes /\ DOMAIN factory' = Processes
      /\ DOMAIN pools' = Processes /\ DOMAIN traffic' = Processes
  BY <1>2 DEF Fresh
<1>5. /\ DOMAIN at' = Processes /\ DOMAIN engine' = Processes
      /\ at'[p] = Idle(p) /\ engine'[p] = NoEngine(p)
      /\ \A q \in Processes : q # p => at'[q] = at[q] /\ engine'[q] = engine[q]
  BY <1>2 DEF Fresh
<1>6. LifeShape'
  BY <1>3, <1>4, <1>5 DEF Idle, NoEngine
<1>7. Shared(p)'
  BY <1>2, <1>4, <1>5 DEF Shared, Idle, NoEngine
<1>8. Quiet(p)' /\ Closed(p)'
  BY <1>3 DEF Quiet, Closed
<1>9. \A q \in Processes : q # p => Apart(q)
  BY <1>2, <1>3, <1>5 DEF Apart, Fresh
<1> QED
  BY <1>6, <1>7, <1>8, <1>9, StepOfOne

LEMMA InitialiseInv ==
  ASSUME LifeIInv, StartupTypeOK, NEW p \in Processes, Initialise(p)
  PROVE  LifeIInv'
<1>1. /\ pc[p] # "down"
      /\ \A q \in Processes : q # p => pc'[q] = pc[q]
  BY InitStepAt DEF Initialise, Booting
<1>2. LifeShape'
  BY DEF Initialise, LifeIInv, LifeShape, lifeVars, threadVars
<1>3. Shared(p)'
  BY DEF Initialise, LifeIInv, LifeShape, Shared, lifeVars, threadVars
<1>4. stage[p] # "stopped"
  BY <1>1 DEF LifeIInv, Quiet
<1>5. Quiet(p)' /\ Closed(p)'
  BY <1>4 DEF Initialise, LifeIInv, LifeShape, Quiet, Closed, lifeVars,
              threadVars
<1>6. \A q \in Processes : q # p => Apart(q)
  BY <1>1 DEF Apart, Initialise, LifeIInv, LifeShape, lifeVars, threadVars
<1> QED
  BY <1>2, <1>3, <1>5, <1>6, StepOfOne

\* The steps of the lifespan that move no cache.
LEMMA StageInv ==
  ASSUME LifeIInv, StartupTypeOK, NEW p \in Processes,
         Ready(p) \/ TrafficDies(p) \/ Terminate(p) \/ CancelTraffic(p)
  PROVE  LifeIInv'
<1> USE DEF LifeIInv, LifeShape
<1>1. UNCHANGED <<startupVars, auto, caches, threadVars>>
  BY DEF Ready, TrafficDies, Terminate, CancelTraffic
<1>2. /\ stage' \in [Processes -> Stages]
      /\ DOMAIN traffic' = Processes
      /\ stage'[p] # "stopped" \/ (stage' = stage /\ traffic'[p] = "dead")
      /\ \A q \in Processes : q # p => /\ stage'[q] = stage[q]
                                       /\ traffic'[q] = traffic[q]
  BY DEF Ready, TrafficDies, Terminate, CancelTraffic, Stages
<1>3. stage'[p] \in {"disposing", "stopped"} =>
        stage'[p] = stage[p] \/ Drained(p)
  BY DEF Ready, TrafficDies, Terminate, CancelTraffic
<1>4. LifeShape'
  BY <1>1, <1>2 DEF caches, threadVars
<1>5. Shared(p)'
  BY <1>1 DEF Shared, caches, threadVars
<1>6. Quiet(p)' /\ Closed(p)'
  BY <1>1, <1>2, <1>3 DEF Quiet, Closed, Drained, Idle, threadVars, caches,
                          startupVars
<1>7. \A q \in Processes : q # p => Apart(q)
  BY <1>1, <1>2 DEF Apart, caches, threadVars, startupVars
<1> QED
  BY <1>4, <1>5, <1>6, <1>7, StepOfOne

LEMMA RequestInv ==
  ASSUME LifeIInv, NEW p \in Processes, NEW t \in ThreadsOf[p],
         AskFactory(p, t) \/ RequestStep(p, t)
  PROVE  LifeIInv'
<1> USE DEF LifeIInv, LifeShape
<1>1. UNCHANGED <<startupVars, lifeVars>>
  BY DEF AskFactory, RequestStep, AskEngine, BuildEngine, BindFactory, Query
<1>2. PICK place \in Places : \E e : Move(p, t, place, e)
  BY DEF AskFactory, RequestStep, AskEngine, BuildEngine, BindFactory, Query,
         Places
<1>3. stage[p] \notin {"disposing", "stopped"}
  BY DEF AskFactory, RequestStep, AskEngine, BuildEngine, BindFactory, Query,
         Quiet
<1>4. /\ built' \in [Processes -> Nat]
      /\ DOMAIN cached' = Processes /\ DOMAIN factory' = Processes
      /\ DOMAIN pools' = Processes
      /\ \A q \in Processes : q # p => /\ cached'[q] = cached[q]
                                       /\ factory'[q] = factory[q]
                                       /\ pools'[q] = pools[q]
  BY DEF AskFactory, RequestStep, AskEngine, BuildEngine, BindFactory, Query,
         caches
<1>5. LifeShape'
  BY <1>1, <1>2, <1>4 DEF Move, lifeVars
<1>6. Shared(p)'
  <2>1. SUFFICES ASSUME auto[p] PROVE Shared(p)'
    BY <1>1 DEF Shared, lifeVars
  <2>2. CASE AskFactory(p, t)
    BY <2>1, <2>2 DEF Shared, AskFactory, Move, lifeVars, caches
  <2>3. CASE AskEngine(p, t)
    BY <2>1, <2>3 DEF Shared, AskEngine, Move, lifeVars, caches
  <2>4. CASE BuildEngine(p, t)
    BY <2>1, <2>4 DEF Shared, BuildEngine
  <2>5. CASE BindFactory(p, t)
    BY <2>1, <2>5 DEF Shared, BindFactory, Move, FillIn, lifeVars
  <2>6. CASE Query(p, t)
    <3>1. engine[p][t] = cached[p]
      BY <2>1, <2>6 DEF Shared, Query
    <3> QED
      BY <2>1, <2>6, <3>1 DEF Shared, Query, Move, lifeVars
  <2> QED
    BY <2>2, <2>3, <2>4, <2>5, <2>6 DEF RequestStep
<1>7. Quiet(p)' /\ Closed(p)'
  BY <1>1, <1>3 DEF Quiet, Closed, lifeVars
<1>8. \A q \in Processes : q # p => Apart(q)
  BY <1>1, <1>2, <1>4 DEF Apart, Move, lifeVars, startupVars
<1> QED
  BY <1>5, <1>6, <1>7, <1>8, StepOfOne

LEMMA SwitchInv ==
  ASSUME LifeIInv, NEW p \in Processes, NEW t \in ThreadsOf[p], Switch(p, t)
  PROVE  LifeIInv'
<1>1. UNCHANGED <<pc, lifeVars, caches, threadVars>>
  BY DEF Switch, Toggle
<1> QED
  BY <1>1 DEF LifeIInv, LifeShape, Shared, Quiet, Closed, lifeVars, caches,
              threadVars

\* The process ends, its engine disposed of or not.
LEMMA ExitInv ==
  ASSUME LifeIInv, StartupTypeOK, NEW p \in Processes,
         AwaitRaises(p) \/ Dispose(p)
  PROVE  LifeIInv'
<1> USE DEF LifeIInv, LifeShape
<1>1. /\ Exit(p)
      /\ UNCHANGED <<auto, traffic, built, cached, factory, threadVars>>
      /\ DOMAIN pools' = Processes
      /\ \A q \in Processes : q # p => pools'[q] = pools[q]
      /\ pools'[p] \subseteq pools[p]
  BY DEF AwaitRaises, Dispose, caches
<1>2. /\ stage' \in [Processes -> Stages]
      /\ stage'[p] = "stopped" /\ pc'[p] = "down"
      /\ \A q \in Processes : q # p => stage'[q] = stage[q] /\ pc'[q] = pc[q]
  BY <1>1 DEF Exit, Crash, GoTo, StartupTypeOK, Stages
<1>3. LifeShape'
  BY <1>1, <1>2 DEF threadVars
<1>4. Shared(p)'
  BY <1>1 DEF Shared, threadVars
<1>5. Quiet(p)'
  <2>1. \A u \in ThreadsOf[p] : at[p][u] = "idle"
    BY DEF AwaitRaises, Dispose, Drained, Idle, Quiet
  <2> QED
    BY <1>1, <1>2, <2>1 DEF Quiet, threadVars
<1>6. Closed(p)'
  BY <1>1 DEF Closed, AwaitRaises, Dispose, Shared
<1>7. \A q \in Processes : q # p => Apart(q)
  BY <1>1, <1>2 DEF Apart, threadVars
<1> QED
  BY <1>3, <1>4, <1>5, <1>6, <1>7, StepOfOne

LEMMA LifeNextInv ==
  LifeIInv /\ StartupTypeOK /\ [LifespanNext]_lifespanVars => LifeIInv'
<1>1. SUFFICES ASSUME LifeIInv, StartupTypeOK, [LifespanNext]_lifespanVars
               PROVE  LifeIInv'
  OBVIOUS
<1>2. CASE DatabaseGoes
  BY <1>1, <1>2 DEF DatabaseGoes, DatabaseChanges, LifeIInv, LifeShape, Shared,
                    Quiet, Closed, lifeVars, caches, threadVars
<1>3. CASE UNCHANGED lifespanVars
  BY <1>1, <1>3 DEF lifespanVars, startupVars, LifeIInv, LifeShape, Shared,
                    Quiet, Closed, lifeVars, caches, threadVars
<1> QED
  BY <1>1, <1>2, <1>3, FreshInv, InitialiseInv, StageInv, RequestInv, SwitchInv,
     ExitInv DEF LifespanNext, ShutdownStep

LEMMA LifeInvariant == LifespanSpec => []LifeIInv
<1>1. StartupIInv => StartupTypeOK
  BY DEF StartupIInv
<1>2. LifespanInit => StartupInit
  BY DEF LifespanInit
<1> QED
  BY <1>1, <1>2, LifeInitInv, LifeNextInv, StartupInitInv, StartupNextInv,
     LifespanStepsStartup, PTL DEF LifespanSpec

(***************************************************************************)
(* For any number of threads that make their first requests at once, a     *)
(* process that called init_database has one engine, in both caches and in *)
(* every session, although nothing locks the caches.                       *)
(***************************************************************************)
THEOREM SessionsShareEngine == LifespanSpec => []OneEngine
<1>1. LifeIInv => OneEngine
  BY DEF LifeIInv, Shared, OneEngine
<1> QED
  BY <1>1, LifeInvariant, PTL

(***************************************************************************)
(* An orderly shutdown closes what the process opened, whatever requests   *)
(* were in flight, unless the traffic task had died of an exception.       *)
(***************************************************************************)
THEOREM ShutdownDisposes == LifespanSpec => []ShutdownCloses
<1>1. LifeIInv => ShutdownCloses
  BY DEF LifeIInv, Closed, ShutdownCloses
<1> QED
  BY <1>1, LifeInvariant, PTL
-----------------------------------------------------------------------------
CacheTypes ==
  /\ built \in [Processes -> Nat]
  /\ cached \in [Processes -> Nat]
  /\ factory \in [Processes -> Nat]
  /\ pools \in [Processes -> SUBSET Nat]

ThreadTypes ==
  \A p \in Processes : /\ at[p] \in [ThreadsOf[p] -> Places]
                       /\ engine[p] \in [ThreadsOf[p] -> Nat]

TrafficTypes == traffic \in [Processes -> {"off", "running", "dead"}]

LEMMA MoveTyped ==
  ASSUME LifeShape, ThreadTypes, NEW p \in Processes, NEW t \in ThreadsOf[p],
         NEW place \in Places, NEW e \in Nat, Move(p, t, place, e)
  PROVE  ThreadTypes'
<1>1. /\ at'[p] = [at[p] EXCEPT ![t] = place]
      /\ engine'[p] = [engine[p] EXCEPT ![t] = e]
      /\ \A q \in Processes : q # p => at'[q] = at[q] /\ engine'[q] = engine[q]
  BY DEF Move, LifeShape
<1>2. at'[p] \in [ThreadsOf[p] -> Places] /\ engine'[p] \in [ThreadsOf[p] -> Nat]
  BY <1>1 DEF ThreadTypes
<1> QED
  BY <1>1, <1>2 DEF ThreadTypes

LEMMA FreshTyped ==
  ASSUME LifeShape, CacheTypes, ThreadTypes, TrafficTypes, NEW p \in Processes,
         NEW e \in Nat, Fresh(p, e)
  PROVE  CacheTypes' /\ ThreadTypes' /\ TrafficTypes'
<1>1. CacheTypes' /\ TrafficTypes'
  BY DEF Fresh, CacheTypes, TrafficTypes
<1>2. /\ at'[p] = Idle(p) /\ engine'[p] = NoEngine(p)
      /\ \A q \in Processes : q # p => at'[q] = at[q] /\ engine'[q] = engine[q]
  BY DEF Fresh, LifeShape
<1>3. ThreadTypes'
  BY <1>2 DEF ThreadTypes, Idle, NoEngine, Places
<1> QED
  BY <1>1, <1>3

LEMMA RequestTyped ==
  ASSUME LifeShape, CacheTypes, ThreadTypes, TrafficTypes, NEW p \in Processes,
         NEW t \in ThreadsOf[p], AskFactory(p, t) \/ RequestStep(p, t)
  PROVE  CacheTypes' /\ ThreadTypes' /\ TrafficTypes'
<1>1. built[p] \in Nat /\ cached[p] \in Nat /\ factory[p] \in Nat
      /\ engine[p][t] \in Nat
  BY DEF CacheTypes, ThreadTypes
<1>2. \E place \in Places : \E e \in Nat : Move(p, t, place, e)
  <2>1. CASE AskFactory(p, t)
    BY <1>1, <2>1 DEF AskFactory, Places
  <2>2. CASE AskEngine(p, t)
    BY <1>1, <2>2 DEF AskEngine, Places
  <2>3. CASE BuildEngine(p, t)
    BY <1>1, <2>3 DEF BuildEngine, Places, CacheTypes
  <2>4. CASE BindFactory(p, t)
    BY <1>1, <2>4 DEF BindFactory, Places
  <2>5. CASE Query(p, t)
    BY <1>1, <2>5 DEF Query, Places
  <2> QED
    BY <2>1, <2>2, <2>3, <2>4, <2>5 DEF RequestStep
<1>3. ThreadTypes'
  BY <1>2, MoveTyped
<1>4. CacheTypes'
  BY <1>1 DEF AskFactory, RequestStep, AskEngine, BuildEngine, BindFactory,
              Query, FillIn, caches, CacheTypes
<1>5. TrafficTypes'
  BY DEF AskFactory, RequestStep, AskEngine, BuildEngine, BindFactory, Query,
         lifeVars, TrafficTypes
<1> QED
  BY <1>3, <1>4, <1>5

LEMMA LifespanTypeInit == LifespanInit /\ StartupTypeOK => LifespanTypeOK
  BY DEF LifespanInit, LifespanTypeOK, Stages, Idle, NoEngine, Places

LEMMA LifespanTypeNext ==
  ASSUME LifespanTypeOK, LifeShape, LifeShape', StartupTypeOK',
         [LifespanNext]_lifespanVars
  PROVE  LifespanTypeOK'
<1>1. CacheTypes /\ ThreadTypes /\ TrafficTypes
  BY DEF LifespanTypeOK, CacheTypes, ThreadTypes, TrafficTypes
<1>2. SUFFICES CacheTypes' /\ ThreadTypes' /\ TrafficTypes'
  BY DEF LifespanTypeOK, CacheTypes, ThreadTypes, TrafficTypes, LifeShape
<1>3. ASSUME NEW p \in Processes, Start(p) \/ Die(p)
      PROVE  CacheTypes' /\ ThreadTypes' /\ TrafficTypes'
  <2>1. \E e \in Nat : Fresh(p, e)
    BY <1>3 DEF Start, Die
  <2> QED
    BY <1>1, <2>1, FreshTyped
<1>4. ASSUME NEW p \in Processes, Initialise(p)
      PROVE  CacheTypes' /\ ThreadTypes' /\ TrafficTypes'
  BY <1>1, <1>4 DEF Initialise, CacheTypes, ThreadTypes, TrafficTypes, lifeVars,
                    threadVars
<1>5. ASSUME NEW p \in Processes,
             Ready(p) \/ TrafficDies(p) \/ Terminate(p) \/ ShutdownStep(p)
      PROVE  CacheTypes' /\ ThreadTypes' /\ TrafficTypes'
  <2>1. UNCHANGED <<built, cached, factory, threadVars>>
    BY <1>5 DEF Ready, TrafficDies, Terminate, ShutdownStep, CancelTraffic,
                AwaitRaises, Dispose, caches
  <2>2. pools' = pools \/ \E e : pools' = [pools EXCEPT ![p] = @ \ {e}]
    BY <1>5 DEF Ready, TrafficDies, Terminate, ShutdownStep, CancelTraffic,
                AwaitRaises, Dispose, caches
  <2>3. CacheTypes' /\ ThreadTypes'
    BY <1>1, <2>1, <2>2 DEF CacheTypes, ThreadTypes, threadVars
  <2>4. TrafficTypes'
    BY <1>1, <1>5 DEF Ready, TrafficDies, Terminate, ShutdownStep,
                      CancelTraffic, AwaitRaises, Dispose, TrafficTypes
  <2> QED
    BY <2>3, <2>4
<1>6. ASSUME NEW p \in Processes, NEW t \in ThreadsOf[p],
             AskFactory(p, t) \/ RequestStep(p, t)
      PROVE  CacheTypes' /\ ThreadTypes' /\ TrafficTypes'
  BY <1>1, <1>6, RequestTyped
<1>7. CASE UNCHANGED <<lifeVars, caches, threadVars>>
  BY <1>1, <1>7 DEF CacheTypes, ThreadTypes, TrafficTypes, lifeVars, caches,
                    threadVars
<1>8. ASSUME NEW p \in Processes, NEW t \in ThreadsOf[p], Switch(p, t)
      PROVE  UNCHANGED <<lifeVars, caches, threadVars>>
  BY <1>8 DEF Switch
<1>9. DatabaseGoes \/ UNCHANGED lifespanVars =>
        UNCHANGED <<lifeVars, caches, threadVars>>
  BY DEF DatabaseGoes, lifespanVars
<1> QED
  BY <1>3, <1>4, <1>5, <1>6, <1>7, <1>8, <1>9 DEF LifespanNext

(***************************************************************************)
(* Type correctness of the whole lifespan, for any number of processes and *)
(* threads, through any crash and restart.                                 *)
(***************************************************************************)
THEOREM LifespanTyped == LifespanSpec => []LifespanTypeOK
<1>1. StartupIInv => StartupTypeOK
  BY DEF StartupIInv
<1>2. LifeIInv => LifeShape
  BY DEF LifeIInv
<1>3. LifespanTypeOK /\ LifeShape /\ LifeShape' /\ StartupTypeOK'
        /\ [LifespanNext]_lifespanVars => LifespanTypeOK'
  BY LifespanTypeNext
<1>4. LifespanSpec => []StartupIInv
  BY StartupImplemented, StartupInitInv, StartupNextInv, PTL DEF StartupSpec
<1> QED
  BY <1>1, <1>2, <1>3, <1>4, LifespanTypeInit, LifeInvariant, PTL
     DEF LifespanSpec

(***************************************************************************)
(* SeedIsIdempotent, carried over: the seed survives whatever requests and *)
(* shutdowns come between the starts.                                      *)
(***************************************************************************)
THEOREM SeedSurvivesLifespan == LifespanSpec => []SeedAllOrNothing
  BY StartupImplemented, SeedIsIdempotent, PTL
-----------------------------------------------------------------------------
(***************************************************************************)
(* Why the herd of first requests is bounded: an engine is only built by a *)
(* thread that found the cache empty, every such thread is still at its    *)
(* "build" until it has built, and from the first engine on no thread      *)
(* joins them.  So engines built and threads that will build are together  *)
(* no more than the threads.                                               *)
(***************************************************************************)
Builders(p) == At(at[p], ThreadsOf[p], {"build"})

Herd(p) ==
  /\ pc[p] \in Booting => auto[p]
  /\ auto[p] => built[p] = 1
  /\ cached[p] = 0 => built[p] = 0
  /\ ~auto[p] => built[p] + Cardinality(Builders(p)) <= Cardinality(ThreadsOf[p])
  /\ {cached[p], factory[p]} \subseteq 0 .. built[p]
  /\ pools[p] \subseteq 1 .. built[p]
  /\ \A t \in ThreadsOf[p] : /\ engine[p][t] \in 0 .. built[p]
                             /\ at[p][t] \in {"bind", "query"} =>
                                  engine[p][t] # 0

LEMMA HerdApart ==
  ASSUME NEW q \in Processes, Herd(q), Apart(q), built'[q] = built[q]
  PROVE  Herd(q)'
  BY DEF Herd, Apart, Builders

\* Nothing happens to the threads and the caches of p.
LEMMA HerdKept ==
  ASSUME NEW p \in Processes, Herd(p),
         auto'[p] = auto[p], built'[p] = built[p], cached'[p] = cached[p],
         factory'[p] = factory[p], at'[p] = at[p], engine'[p] = engine[p],
         pools'[p] \subseteq pools[p], pc'[p] \in Booting => pc[p] \in Booting
  PROVE  Herd(p)'
  BY DEF Herd, Builders

LEMMA BuildersCounted ==
  ASSUME NEW p \in Processes
  PROVE  /\ Cardinality(Builders(p)) \in Nat
         /\ Cardinality(Builders(p)) <= Cardinality(ThreadsOf[p])
         /\ Cardinality(Builders(p)') \in Nat
         /\ Cardinality(Builders(p)') <= Cardinality(ThreadsOf[p])
         /\ Cardinality(ThreadsOf[p]) \in Nat
  BY CensusType, LifespanAssumption, FS_CardinalityType DEF Builders

LEMMA HerdFresh ==
  ASSUME LifespanTypeOK, LifeShape, NEW p \in Processes, Start(p) \/ Die(p)
  PROVE  Herd(p)'
<1>1. PICK e \in {0, 1} : Fresh(p, e) /\ (auto'[p] <=> e = 1)
  <2>1. CASE Start(p)
    BY <2>1 DEF Start, LifeShape
  <2>2. CASE Die(p)
    BY <2>2 DEF Die, LifeShape
  <2> QED
    BY <2>1, <2>2
<1>2. /\ built'[p] = e /\ cached'[p] = e /\ factory'[p] = 0 /\ pools'[p] = {}
      /\ at'[p] = Idle(p) /\ engine'[p] = NoEngine(p)
  BY <1>1 DEF Fresh, LifeShape, LifespanTypeOK
<1>3. pc'[p] \in Booting => auto'[p]
  <2>1. CASE Start(p)
    BY <2>1 DEF Start, Boot, GoTo, Booting, LifespanTypeOK, StartupTypeOK,
                LifeShape
  <2>2. CASE Die(p)
    BY <2>2 DEF Die, Crash, GoTo, Booting, LifespanTypeOK, StartupTypeOK
  <2> QED
    BY <2>1, <2>2
<1>4. Builders(p)' = {}
  BY <1>2 DEF Builders, At, Idle
<1>5. Cardinality(Builders(p)') = 0
  BY <1>4, FS_EmptySet
<1> QED
  BY <1>1, <1>2, <1>3, <1>5, BuildersCounted DEF Herd, Idle, NoEngine

LEMMA HerdInitialise ==
  ASSUME LifespanTypeOK, LifeIInv, NEW p \in Processes, Herd(p), Initialise(p)
  PROVE  Herd(p)'
<1>1. auto[p] /\ cached[p] # 0
  BY InitStepAt DEF Initialise, Herd, LifespanTypeOK, LifeIInv, Shared
<1>2. UNCHANGED <<auto, built, cached, at, engine>>
  BY DEF Initialise, lifeVars, threadVars
<1>3. /\ factory'[p] \in {factory[p], cached[p]}
      /\ pools'[p] \subseteq pools[p] \cup {cached[p]}
  BY DEF Initialise, LifespanTypeOK
<1>4. cached[p] \in 1 .. built[p] /\ built[p] \in Nat
  BY <1>1 DEF Herd, LifespanTypeOK
<1> QED
  BY <1>1, <1>2, <1>3, <1>4 DEF Herd, Builders

LEMMA HerdStage ==
  ASSUME LifespanTypeOK, NEW p \in Processes, Herd(p),
         Ready(p) \/ TrafficDies(p) \/ Terminate(p) \/ ShutdownStep(p)
  PROVE  Herd(p)'
<1>1. UNCHANGED <<auto, built, cached, factory, at, engine>>
  BY DEF Ready, TrafficDies, Terminate, ShutdownStep, CancelTraffic,
         AwaitRaises, Dispose, caches, threadVars
<1>2. pools'[p] \subseteq pools[p]
  BY DEF Ready, TrafficDies, Terminate, ShutdownStep, CancelTraffic,
         AwaitRaises, Dispose, caches, LifespanTypeOK
<1>3. pc'[p] \in Booting => pc[p] \in Booting
  BY DEF Ready, TrafficDies, Terminate, ShutdownStep, CancelTraffic,
         AwaitRaises, Dispose, Exit, Crash, GoTo, startupVars, Booting,
         LifespanTypeOK, StartupTypeOK
<1> QED
  BY <1>1, <1>2, <1>3, HerdKept

LEMMA HerdRequest ==
  ASSUME LifespanTypeOK, LifeIInv, NEW p \in Processes, Herd(p),
         NEW t \in ThreadsOf[p], AskFactory(p, t) \/ RequestStep(p, t)
  PROVE  Herd(p)'
<1> DEFINE n == Cardinality(Builders(p))
           m == Cardinality(ThreadsOf[p])
<1>1. PICK place \in Places : \E e : Move(p, t, place, e)
  BY DEF AskFactory, RequestStep, AskEngine, BuildEngine, BindFactory, Query,
         Places
<1>2. PICK e : Move(p, t, place, e)
  BY <1>1
<1>3. /\ at'[p][t] = place /\ engine'[p][t] = e
      /\ \A u \in ThreadsOf[p] : u # t => /\ at'[p][u] = at[p][u]
                                          /\ engine'[p][u] = engine[p][u]
  BY <1>2 DEF Move, LifeIInv, LifeShape
<1>4. UNCHANGED <<pc, auto>>
  BY DEF AskFactory, RequestStep, AskEngine, BuildEngine, BindFactory, Query,
         startupVars, lifeVars
<1>5. n' = n + One(place = "build") - One(at[p][t] = "build")
  <2>1. /\ Builders(p) \ {t} = Builders(p)' \ {t}
        /\ t \in Builders(p)' <=> place = "build"
        /\ t \in Builders(p) <=> at[p][t] = "build"
    BY <1>3 DEF Builders, At
  <2>2. IsFiniteSet(Builders(p))
    BY CensusType, LifespanAssumption DEF Builders
  <2>3. Cardinality(Builders(p)') = Cardinality(Builders(p))
          + One(t \in Builders(p)') - One(t \in Builders(p))
    BY <2>1, <2>2, SetStep
  <2>4. /\ One(t \in Builders(p)') = One(place = "build")
        /\ One(t \in Builders(p)) = One(at[p][t] = "build")
    BY <2>1 DEF One
  <2> QED
    BY <2>3, <2>4
<1>6. n \in Nat /\ m \in Nat /\ n <= m /\ n' \in Nat /\ n' <= m
  BY BuildersCounted
<1>7. /\ built[p] \in Nat /\ cached[p] \in Nat /\ factory[p] \in Nat
      /\ pools[p] \subseteq Nat
      /\ \A u \in ThreadsOf[p] : engine[p][u] \in Nat
  BY DEF LifespanTypeOK
<1> HIDE DEF n, m
<1>8. /\ pc[p] \in Booting => auto[p]
      /\ auto[p] => built[p] = 1
      /\ cached[p] = 0 => built[p] = 0
      /\ ~auto[p] => built[p] + n <= m
  BY DEF Herd, n, m
<1>9. auto[p] => at[p][t] # "build"
  BY DEF LifeIInv, Shared
<1>10. /\ built'[p] \in Nat /\ built[p] <= built'[p]
       /\ auto[p] => built'[p] = 1
       /\ cached'[p] = 0 => built'[p] = 0
       /\ ~auto[p] => built'[p] + n' <= m
  <2>1. CASE BuildEngine(p, t)
    <3>1. at[p][t] = "build" /\ place = "bind" /\ built'[p] = built[p] + 1
      BY <1>2, <2>1, <1>3 DEF BuildEngine, Move, LifeIInv, LifeShape
    <3>2. cached'[p] # 0
      BY <1>7, <2>1, <3>1 DEF BuildEngine, FillIn, LifespanTypeOK
    <3>3. n' = n - 1
      BY <1>5, <1>6, <3>1 DEF One
    <3> QED
      BY <1>6, <1>7, <1>8, <1>9, <3>1, <3>2, <3>3
  <2>2. CASE AskEngine(p, t)
    <3>1. at[p][t] = "engine" /\ (place = "build" => cached[p] = 0)
      BY <1>3, <2>2 DEF AskEngine, Move, LifeIInv, LifeShape
    <3>2. built' = built /\ cached' = cached
      BY <2>2 DEF AskEngine, caches
    <3>3. place # "build" => n' = n
      BY <1>5, <1>6, <3>1 DEF One
    <3> QED
      BY <1>6, <1>7, <1>8, <3>1, <3>2, <3>3
  <2>3. CASE AskFactory(p, t) \/ BindFactory(p, t) \/ Query(p, t)
    <3>1. at[p][t] # "build" /\ place # "build"
      BY <1>3, <2>3 DEF AskFactory, BindFactory, Query, Move, LifeIInv, LifeShape
    <3>2. built' = built /\ cached' = cached
      BY <2>3 DEF AskFactory, BindFactory, Query, caches
    <3>3. n' = n
      BY <1>5, <1>6, <3>1 DEF One
    <3> QED
      BY <1>6, <1>7, <1>8, <3>2, <3>3
  <2> QED
    BY <2>1, <2>2, <2>3 DEF RequestStep
<1>11. /\ cached'[p] \in 0 .. built'[p] /\ factory'[p] \in 0 .. built'[p]
       /\ pools'[p] \subseteq 1 .. built'[p]
       /\ e \in 0 .. built'[p] /\ (place \in {"bind", "query"} => e # 0)
  <2>1. /\ cached[p] \in 0 .. built[p] /\ factory[p] \in 0 .. built[p]
        /\ pools[p] \subseteq 1 .. built[p]
        /\ engine[p][t] \in 0 .. built[p]
        /\ at[p][t] \in {"bind", "query"} => engine[p][t] # 0
    BY DEF Herd
  <2>2. CASE AskFactory(p, t)
    BY <1>3, <1>7, <2>1, <2>2 DEF AskFactory, Move, caches, LifeIInv, LifeShape
  <2>3. CASE AskEngine(p, t)
    BY <1>3, <1>7, <2>1, <2>3 DEF AskEngine, Move, caches, LifeIInv, LifeShape
  <2>4. CASE BuildEngine(p, t)
    <3>1. /\ built'[p] = built[p] + 1 /\ e = built[p] + 1
          /\ cached'[p] \in {cached[p], built[p] + 1}
          /\ UNCHANGED <<factory, pools>>
      BY <1>3, <1>7, <2>4 DEF BuildEngine, Move, FillIn, LifeIInv, LifeShape
    <3> QED
      BY <1>7, <2>1, <3>1
  <2>5. CASE BindFactory(p, t)
    <3>1. /\ e = engine[p][t] /\ at[p][t] = "bind"
          /\ factory'[p] \in {factory[p], engine[p][t]}
          /\ UNCHANGED <<built, cached, pools>>
      BY <1>3, <2>5 DEF BindFactory, Move, FillIn, LifeIInv, LifeShape
    <3> QED
      BY <1>7, <2>1, <3>1
  <2>6. CASE Query(p, t)
    <3>1. /\ e = 0 /\ place = "idle" /\ at[p][t] = "query"
          /\ pools'[p] \subseteq pools[p] \cup {engine[p][t]}
          /\ UNCHANGED <<built, cached, factory>>
      BY <1>3, <2>6 DEF Query, Move, LifeIInv, LifeShape
    <3> QED
      BY <1>7, <2>1, <3>1
  <2> QED
    BY <2>2, <2>3, <2>4, <2>5, <2>6 DEF RequestStep
<1>12. \A u \in ThreadsOf[p] :
          /\ engine'[p][u] \in 0 .. built'[p]
          /\ at'[p][u] \in {"bind", "query"} => engine'[p][u] # 0
  <2>1. \A u \in ThreadsOf[p] :
          /\ engine[p][u] \in 0 .. built[p]
          /\ at[p][u] \in {"bind", "query"} => engine[p][u] # 0
    BY DEF Herd
  <2> QED
    BY <1>3, <1>7, <1>10, <1>11, <2>1
<1> QED
  BY <1>4, <1>8, <1>10, <1>11, <1>12 DEF Herd, n, m

LEMMA OthersApart ==
  ASSUME LifespanTypeOK, LifeShape, NEW p \in Processes,
         \/ Start(p) \/ Die(p) \/ Initialise(p) \/ Ready(p) \/ TrafficDies(p)
         \/ Terminate(p) \/ ShutdownStep(p)
         \/ \E t \in ThreadsOf[p] : AskFactory(p, t) \/ RequestStep(p, t)
  PROVE  \A q \in Processes : q # p => Apart(q) /\ built'[q] = built[q]
<1> USE DEF LifeShape, LifespanTypeOK
<1>1. CASE Start(p) \/ Die(p)
  BY <1>1 DEF Start, Die, Boot, Crash, GoTo, Fresh, StartupTypeOK, Apart
<1>2. CASE Initialise(p)
  BY <1>2, InitStepAt DEF Initialise, lifeVars, threadVars, Apart
<1>3. CASE Ready(p) \/ TrafficDies(p) \/ Terminate(p)
  BY <1>3 DEF Ready, TrafficDies, Terminate, startupVars, lifeVars, caches,
              threadVars, Apart
<1>4. CASE ShutdownStep(p)
  BY <1>4 DEF ShutdownStep, CancelTraffic, AwaitRaises, Dispose, Exit, Crash,
              GoTo, StartupTypeOK, startupVars, caches, threadVars, Apart
<1>5. ASSUME NEW t \in ThreadsOf[p], AskFactory(p, t) \/ RequestStep(p, t)
      PROVE  \A q \in Processes : q # p => Apart(q) /\ built'[q] = built[q]
  BY <1>5 DEF AskFactory, RequestStep, AskEngine, BuildEngine, BindFactory,
              Query, Move, startupVars, lifeVars, caches, Apart
<1> QED
  BY <1>1, <1>2, <1>3, <1>4, <1>5

HerdIInv == \A p \in Processes : Herd(p)

LEMMA HerdInit == LifespanInit => HerdIInv
<1>1. SUFFICES ASSUME LifespanInit, NEW p \in Processes PROVE Herd(p)
  BY DEF HerdIInv
<1>2. Builders(p) = {}
  BY <1>1 DEF LifespanInit, Builders, At, Idle
<1>3. Cardinality(Builders(p)) = 0
  BY <1>2, FS_EmptySet
<1> QED
  BY <1>1, <1>3, BuildersCounted
     DEF LifespanInit, StartupInit, Booting, Herd, Idle, NoEngine

LEMMA HerdNext ==
  ASSUME LifespanTypeOK, LifeIInv, HerdIInv, [LifespanNext]_lifespanVars
  PROVE  HerdIInv'
<1>1. LifeShape
  BY DEF LifeIInv
<1>2. ASSUME NEW p \in Processes, Herd(p)',
             \A q \in Processes : q # p => Apart(q) /\ built'[q] = built[q]
      PROVE  HerdIInv'
  BY <1>2, HerdApart DEF HerdIInv
<1>3. ASSUME NEW p \in Processes,
             \/ Start(p) \/ Die(p) \/ Initialise(p) \/ Ready(p) \/ TrafficDies(p)
             \/ Terminate(p) \/ ShutdownStep(p)
             \/ \E t \in ThreadsOf[p] : AskFactory(p, t) \/ RequestStep(p, t)
      PROVE  HerdIInv'
  <2>1. Herd(p)
    BY DEF HerdIInv
  <2>2. Herd(p)'
    BY <1>1, <1>3, <2>1, HerdFresh, HerdInitialise, HerdStage, HerdRequest
  <2> QED
    BY <1>1, <1>2, <1>3, <2>2, OthersApart
<1>4. CASE UNCHANGED <<pc, auto, caches, threadVars>>
  BY <1>4 DEF HerdIInv, Herd, Builders, caches, threadVars
<1>5. ASSUME NEW p \in Processes, NEW t \in ThreadsOf[p], Switch(p, t)
      PROVE  UNCHANGED <<pc, auto, caches, threadVars>>
  BY <1>5 DEF Switch, Toggle, lifeVars
<1>6. DatabaseGoes \/ UNCHANGED lifespanVars =>
        UNCHANGED <<pc, auto, caches, threadVars>>
  BY DEF DatabaseGoes, DatabaseChanges, lifespanVars, startupVars, lifeVars
<1> QED
  BY <1>3, <1>4, <1>5, <1>6 DEF LifespanNext

(***************************************************************************)
(* However many requests race for the caches, a process builds no more     *)
(* engines than it has server threads, and one when it initialised.        *)
(***************************************************************************)
THEOREM HerdIsBounded == LifespanSpec => []EnginesBounded
<1>1. LifespanTypeOK /\ HerdIInv => EnginesBounded
  <2>1. SUFFICES ASSUME LifespanTypeOK, HerdIInv, NEW p \in Processes
                 PROVE  /\ built[p] <= IF auto[p] THEN 1
                                       ELSE Cardinality(ThreadsOf[p])
                        /\ pools[p] \subseteq 1 .. built[p]
    BY DEF EnginesBounded
  <2>2. built[p] \in Nat /\ Herd(p)
    BY <2>1 DEF LifespanTypeOK, HerdIInv
  <2> QED
    BY <2>2, BuildersCounted DEF Herd
<1>2. LifespanTypeOK /\ LifeIInv /\ HerdIInv /\ [LifespanNext]_lifespanVars
        => HerdIInv'
  BY HerdNext
<1> QED
  BY <1>1, <1>2, HerdInit, LifespanTyped, LifeInvariant, PTL DEF LifespanSpec
=============================================================================
