----------------------- MODULE RequestMetrics_proofs -----------------------
(***************************************************************************)
(* Proofs about RequestPipeline and RequestMetrics for any finite number   *)
(* of clients, any number of threads and any capacity of the pool of       *)
(* connections.  The counters are related to the requests through Census.  *)
(***************************************************************************)
EXTENDS RequestMetrics, Census

\* What a request does, whichever metric goes with it.
RequestStep(r) ==
  \/ Arrive(r) \/ Refuse(r) \/ SolveDependencies(r) \/ StartEndpoint(r)
  \/ EndpointStep(r) \/ Resume(r) \/ CloseSession(r)
  \/ CountTotal(r) \/ CountError(r) \/ Leave(r)

Counting == {"counted", "left"}

(***************************************************************************)
(* A session has a connection from its first statement to its close, the   *)
(* pool knows how many there are, and one dispatch at a time is counting.  *)
(***************************************************************************)
HoldsBetween ==
  \A r \in Requests :
    /\ holds[r] => \/ pc[r] = "querying"
                   \/ kind[r] = "data" /\ pc[r] \in {"ended", "closing"}
    /\ pc[r] = "querying" => holds[r]

OneCounts ==
  \A r, q \in Requests : pc[r] \in Counting /\ pc[q] \in Counting => r = q

PipelineIInv ==
  /\ PipelineTypeOK
  /\ HoldsBetween
  /\ OneCounts
  /\ inUse = Cardinality(Flagged(holds, Requests))

(* Every step of the pipeline is a step of one request ...                 *)
LEMMA PipelineSteps ==
  PipelineNext <=> \E r \in Requests : RequestStep(r)
BY DEF PipelineNext, RequestStep

(* ... and leaves the others where they are.                               *)
LEMMA StepFrame ==
  ASSUME PipelineTypeOK, NEW r \in Requests, RequestStep(r)
  PROVE  \A q \in Requests : q # r =>
           /\ pc'[q] = pc[q] /\ kind'[q] = kind[q]
           /\ status'[q] = status[q] /\ holds'[q] = holds[q]
BY DEF RequestStep, Arrive, Refuse, SolveDependencies, StartEndpoint, EndpointStep,
   EndPlain, EndEarly, Checkout, PoolTimesOut, EndQuery, EndProbe, Resume,
   CloseSession, CountTotal, CountError, Leave, Move, Answer, PipelineTypeOK

LEMMA PipelineInitInv == PipelineInit => PipelineIInv
<1>1. SUFFICES ASSUME PipelineInit PROVE PipelineIInv
  OBVIOUS
<1>2. PipelineTypeOK /\ HoldsBetween /\ OneCounts
  BY <1>1, PipelineAssumption
     DEF PipelineInit, PipelineTypeOK, HoldsBetween, OneCounts, Counting,
         PipelinePcs, Kinds, NoStatus
<1>3. Flagged(holds, Requests) = {}
  BY <1>1 DEF PipelineInit, Flagged
<1> QED
  BY <1>1, <1>2, <1>3, FS_EmptySet DEF PipelineInit, PipelineIInv

(* The types, but for the upper bound of inUse, which its guard keeps.     *)
LEMMA StepTypes ==
  ASSUME PipelineTypeOK, NEW r \in Requests, RequestStep(r)
  PROVE  /\ pc' \in [Requests -> PipelinePcs]
         /\ kind' \in [Requests -> Kinds]
         /\ status' \in [Requests -> Classes \cup {NoStatus}]
         /\ holds' \in [Requests -> BOOLEAN]
<1> USE DEF PipelineTypeOK
<1>1. pc' \in [Requests -> PipelinePcs]
  BY DEF RequestStep, Arrive, Refuse, SolveDependencies, StartEndpoint,
     EndpointStep, EndPlain, EndEarly, Checkout, PoolTimesOut, EndQuery,
     EndProbe, Resume, CloseSession, CountTotal, CountError, Leave, Move,
     Answer, PipelinePcs
<1>2. kind' \in [Requests -> Kinds]
  BY DEF RequestStep, Arrive, Refuse, SolveDependencies, StartEndpoint,
     EndpointStep, EndPlain, EndEarly, Checkout, PoolTimesOut, EndQuery,
     EndProbe, Resume, CloseSession, CountTotal, CountError, Leave, Kinds
<1>3. status' \in [Requests -> Classes \cup {NoStatus}]
  BY DEF RequestStep, Arrive, Refuse, SolveDependencies, StartEndpoint,
     EndpointStep, EndPlain, EndEarly, Checkout, PoolTimesOut, EndQuery,
     EndProbe, Resume, CloseSession, CountTotal, CountError, Leave, Answer,
     Classes
<1>4. holds' \in [Requests -> BOOLEAN]
  BY DEF RequestStep, Arrive, Refuse, SolveDependencies, StartEndpoint,
     EndpointStep, EndPlain, EndEarly, Checkout, PoolTimesOut, EndQuery,
     EndProbe, Resume, CloseSession, CountTotal, CountError, Leave
<1> QED
  BY <1>1, <1>2, <1>3, <1>4

(* What a step does to the pool is what it does to its request's session.  *)
LEMMA StepPool ==
  ASSUME PipelineTypeOK, HoldsBetween, NEW r \in Requests, RequestStep(r)
  PROVE  /\ inUse' = inUse + One(holds'[r]) - One(holds[r])
         /\ inUse' <= Capacity
         /\ holds'[r] => \/ pc'[r] = "querying"
                         \/ kind'[r] = "data" /\ pc'[r] \in {"ended", "closing"}
         /\ pc'[r] = "querying" => holds'[r]
<1> USE PipelineAssumption DEF PipelineTypeOK, HoldsBetween, One, Move, Answer
<1>1. CASE Arrive(r) \/ Refuse(r) \/ SolveDependencies(r) \/ StartEndpoint(r)
  BY <1>1 DEF Arrive, Refuse, SolveDependencies, StartEndpoint
<1>2. CASE EndPlain(r) \/ EndEarly(r) \/ PoolTimesOut(r)
  BY <1>2 DEF EndPlain, EndEarly, PoolTimesOut
<1>3. CASE Checkout(r)
  BY <1>3 DEF Checkout
<1>4. CASE EndQuery(r)
  BY <1>4 DEF EndQuery
<1>8. CASE EndProbe(r)
  <2>1. holds[r] /\ ~holds'[r] /\ inUse' = inUse - 1
    BY <1>8 DEF EndProbe
  <2>2. pc'[r] = "ended"
    BY <1>8 DEF EndProbe
  <2>3. One(holds'[r]) = 0 /\ One(holds[r]) = 1
    BY <2>1
  <2>4. inUse' = inUse + 0 - 1 /\ inUse' <= Capacity
    BY <2>1
  <2>5. inUse' = inUse + One(holds'[r]) - One(holds[r])
    BY <2>3, <2>4, Zenon
  <2>7. pc'[r] = "querying" => holds'[r]
    BY <2>2
  <2> QED
    BY <2>1, <2>4, <2>5, <2>7, Zenon
<1>5. CASE Resume(r)
  <2>1. UNCHANGED <<kind, holds, inUse>> /\ pc[r] = "ended"
    BY <1>5 DEF Resume
  <2>2. /\ pc'[r] \in {"closing", "answered"}
        /\ holds[r] => pc'[r] = "closing" /\ kind[r] = "data"
    BY <1>5 DEF Resume
  <2> QED
    BY <2>1, <2>2
<1>6. CASE CloseSession(r)
  BY <1>6 DEF CloseSession
<1>7. CASE CountTotal(r) \/ CountError(r) \/ Leave(r)
  BY <1>7 DEF CountTotal, CountError, Leave
<1> QED
  BY <1>1, <1>2, <1>3, <1>4, <1>5, <1>6, <1>7, <1>8 DEF RequestStep, EndpointStep

(* A response is counted by one dispatch at a time: the event loop is only *)
(* given back with the last increment.                                     *)
LEMMA StepOneCounts ==
  ASSUME PipelineTypeOK, OneCounts, NEW r \in Requests, RequestStep(r)
  PROVE  OneCounts'
<1>1. pc'[r] \in Counting => LoopFree \/ pc[r] \in Counting
  BY DEF RequestStep, Arrive, Refuse, SolveDependencies, StartEndpoint,
     EndpointStep, EndPlain, EndEarly, Checkout, PoolTimesOut, EndQuery,
     EndProbe, Resume, CloseSession, CountTotal, CountError, Leave, Move,
     Answer, PipelineTypeOK, Counting
<1>2. \A q \in Requests : q # r => pc'[q] = pc[q]
  BY StepFrame
<1> QED
  BY <1>1, <1>2 DEF OneCounts, LoopFree, Counting

LEMMA PipelineStepInv ==
  ASSUME PipelineIInv, NEW r \in Requests, RequestStep(r)
  PROVE  PipelineIInv'
<1> USE DEF PipelineIInv
<1>1. \A q \in Requests : q # r =>
        pc'[q] = pc[q] /\ kind'[q] = kind[q] /\ holds'[q] = holds[q]
  BY StepFrame
<1>2. /\ pc' \in [Requests -> PipelinePcs]
      /\ kind' \in [Requests -> Kinds]
      /\ status' \in [Requests -> Classes \cup {NoStatus}]
      /\ holds' \in [Requests -> BOOLEAN]
  BY StepTypes
<1>3. /\ inUse' = inUse + One(holds'[r]) - One(holds[r])
      /\ inUse' <= Capacity
      /\ holds'[r] => \/ pc'[r] = "querying"
                      \/ kind'[r] = "data" /\ pc'[r] \in {"ended", "closing"}
      /\ pc'[r] = "querying" => holds'[r]
  BY StepPool
<1>4. HoldsBetween'
  BY <1>1, <1>3 DEF HoldsBetween
<1>5. Cardinality(Flagged(holds', Requests)) =
        Cardinality(Flagged(holds, Requests)) + One(holds'[r]) - One(holds[r])
  <2>1. \A q \in Requests : q # r => holds'[q] = holds[q]
    BY <1>1
  <2>2. holds \in [Requests -> BOOLEAN]
    BY DEF PipelineTypeOK
  <2> QED
    BY <1>2, <2>1, <2>2, FlagStep, PipelineAssumption DEF PipelineAssumption
<1>7. inUse' = Cardinality(Flagged(holds', Requests))
  BY <1>3, <1>5, Zenon
<1>8. Cardinality(Flagged(holds', Requests)) \in Nat
  BY FlagType, PipelineAssumption DEF PipelineAssumption
<1>9. PipelineTypeOK'
  BY <1>2, <1>3, <1>7, <1>8, PipelineAssumption
     DEF PipelineTypeOK, PipelineAssumption
<1> QED
  BY <1>4, <1>7, <1>9, StepOneCounts

LEMMA PipelineNextInv ==
  PipelineIInv /\ [PipelineNext]_pipelineVars => PipelineIInv'
<1>1. SUFFICES ASSUME PipelineIInv, UNCHANGED pipelineVars PROVE PipelineIInv'
  BY PipelineSteps, PipelineStepInv
<1>2. UNCHANGED <<pc, kind, status, holds, inUse>>
  BY <1>1 DEF pipelineVars
<1> QED
  BY <1>1, <1>2
     DEF PipelineIInv, PipelineTypeOK, HoldsBetween, OneCounts, Flagged

(***************************************************************************)
(* The distances between the counters, in terms of flags.                  *)
(***************************************************************************)
Here == [r \in Requests |-> pc[r] # "idle"]
Waits == [r \in Requests |-> pc[r] \notin {"idle", "counted", "left"}]
Half == [r \in Requests |-> pc[r] = "counted" /\ Bad(status[r])]

MetricsIInv ==
  /\ PipelineIInv
  /\ inProgress = Cardinality(Flagged(Here, Requests))
  /\ outstanding = Cardinality(Flagged(Waits, Requests))
  /\ lag = Cardinality(Flagged(Half, Requests))
  /\ missed \in 0 .. lag

LEMMA FlagSets ==
  /\ InFlight = Flagged(Here, Requests)
  /\ Uncounted = Flagged(Waits, Requests)
  /\ HalfCounted = Flagged(Half, Requests)
BY DEF InFlight, Uncounted, HalfCounted, Flagged, Here, Waits, Half

LEMMA MetricsSteps ==
  ASSUME MetricsNext
  PROVE  \E r \in Requests :
           \/ /\ RequestStep(r)
              /\ ArriveCounted(r) \/ SilentStep(r) \/ TotalCounted(r)
                   \/ ErrorCounted(r) \/ LeaveCounted(r)
           \/ ScrapeTotal(r)
BY DEF MetricsNext, RequestStep, ArriveCounted, SilentStep, TotalCounted,
   ErrorCounted, LeaveCounted

LEMMA MetricsInitInv == MetricsInit => MetricsIInv
<1>1. SUFFICES ASSUME MetricsInit PROVE MetricsIInv
  OBVIOUS
<1>2. /\ Flagged(Here, Requests) = {}
      /\ Flagged(Waits, Requests) = {}
      /\ Flagged(Half, Requests) = {}
  BY <1>1 DEF MetricsInit, PipelineInit, Flagged, Here, Waits, Half
<1> QED
  BY <1>1, <1>2, PipelineInitInv, FS_EmptySet DEF MetricsInit, MetricsIInv

(* A scrape that goes on misses no more errors than the process itself.    *)
LEMMA StepMissed ==
  ASSUME missed \in 0 .. lag, lag \in Nat, lag' \in Nat, NEW r \in Requests,
         ArriveCounted(r) \/ SilentStep(r) \/ TotalCounted(r)
           \/ ErrorCounted(r) \/ LeaveCounted(r)
  PROVE  missed' \in 0 .. lag'
<1>1. CASE ArriveCounted(r) \/ SilentStep(r) \/ LeaveCounted(r)
  BY <1>1 DEF ArriveCounted, SilentStep, LeaveCounted, metrics
<1>2. CASE TotalCounted(r)
  BY <1>2 DEF TotalCounted
<1>3. CASE ErrorCounted(r)
  BY <1>3 DEF ErrorCounted
<1> QED
  BY <1>1, <1>2, <1>3

(* The flags of the request that moves say what each step must count.      *)
LEMMA StepMetrics ==
  ASSUME MetricsIInv, NEW r \in Requests, RequestStep(r),
         ArriveCounted(r) \/ SilentStep(r) \/ TotalCounted(r)
           \/ ErrorCounted(r) \/ LeaveCounted(r)
  PROVE  /\ inProgress' = inProgress + One(Here'[r]) - One(Here[r])
         /\ outstanding' = outstanding + One(Waits'[r]) - One(Waits[r])
         /\ lag' = lag + One(Half'[r]) - One(Half[r])
<1> DEFINE p == pc[r]
           n == pc'[r]
<1>1. /\ pc \in [Requests -> PipelinePcs] /\ pc' \in [Requests -> PipelinePcs]
      /\ status' \in [Requests -> Classes \cup {NoStatus}]
      /\ status \in [Requests -> Classes \cup {NoStatus}]
  BY StepTypes DEF MetricsIInv, PipelineIInv, PipelineTypeOK
<1>2. inProgress \in Int /\ outstanding \in Int /\ lag \in Int
  BY FlagType, PipelineAssumption DEF MetricsIInv, PipelineAssumption
<1> DEFINE waiting(place) == place \notin {"idle", "counted", "left"}
           half(place, class) == place = "counted" /\ Bad(class)
<1>3. SUFFICES /\ inProgress' = inProgress
                     + (IF n # "idle" THEN 1 ELSE 0) - (IF p # "idle" THEN 1 ELSE 0)
               /\ outstanding' = outstanding
                     + (IF waiting(n) THEN 1 ELSE 0) - (IF waiting(p) THEN 1 ELSE 0)
               /\ lag' = lag + (IF half(n, status'[r]) THEN 1 ELSE 0)
                            - (IF half(p, status[r]) THEN 1 ELSE 0)
  BY Zenon DEF Here, Waits, Half, One
<1>4. CASE ArriveCounted(r)
  <2>1. p = "idle" /\ n = "entered"
    BY <1>1, <1>4 DEF ArriveCounted, Arrive, Move
  <2> QED
    BY <1>2, <1>4, <2>1 DEF ArriveCounted
<1>5. CASE SilentStep(r)
  <2>1. /\ p \notin {"idle", "counted", "left"}
        /\ n \notin {"idle", "counted", "left"}
    BY <1>1, <1>5
       DEF SilentStep, Refuse, SolveDependencies, StartEndpoint, EndpointStep,
           EndPlain, EndEarly, Checkout, PoolTimesOut, EndQuery, EndProbe,
           Resume, CloseSession, Move, Answer
  <2> QED
    BY <1>2, <1>5, <2>1 DEF SilentStep, metrics
<1>6. CASE TotalCounted(r)
  <2>1. p = "answered" /\ n = "counted" /\ status' = status
    BY <1>1, <1>6 DEF TotalCounted, CountTotal, Move
  <2> QED
    BY <1>2, <1>6, <2>1 DEF TotalCounted
<1>7. CASE ErrorCounted(r)
  <2>1. p = "counted" /\ n = "left" /\ status' = status
    BY <1>1, <1>7 DEF ErrorCounted, CountError, Move
  <2> QED
    BY <1>2, <1>7, <2>1 DEF ErrorCounted
<1>8. CASE LeaveCounted(r)
  <2>1. p = "left" /\ n = "idle"
    BY <1>1, <1>8 DEF LeaveCounted, Leave, Move, Answer
  <2> QED
    BY <1>2, <1>8, <2>1 DEF LeaveCounted
<1> QED
  BY <1>4, <1>5, <1>6, <1>7, <1>8

LEMMA MetricsStepInv ==
  ASSUME MetricsIInv, NEW r \in Requests, RequestStep(r),
         ArriveCounted(r) \/ SilentStep(r) \/ TotalCounted(r)
           \/ ErrorCounted(r) \/ LeaveCounted(r)
  PROVE  MetricsIInv'
<1>1. PipelineIInv /\ PipelineIInv'
  BY PipelineStepInv DEF MetricsIInv
<1>2. \A q \in Requests : q # r => pc'[q] = pc[q] /\ status'[q] = status[q]
  BY <1>1, StepFrame DEF PipelineIInv
<1>3. \A q \in Requests : q # r =>
        /\ Here'[q] <=> Here[q]
        /\ Waits'[q] <=> Waits[q]
        /\ Half'[q] <=> Half[q]
  BY <1>2 DEF Here, Waits, Half
<1>4. IsFiniteSet(Requests)
  BY PipelineAssumption
<1>5. Cardinality(Flagged(Here', Requests)) =
        Cardinality(Flagged(Here, Requests)) + One(Here'[r]) - One(Here[r])
  BY <1>3, <1>4, FlagStep
<1>6. Cardinality(Flagged(Waits', Requests)) =
        Cardinality(Flagged(Waits, Requests)) + One(Waits'[r]) - One(Waits[r])
  BY <1>3, <1>4, FlagStep
<1>7. Cardinality(Flagged(Half', Requests)) =
        Cardinality(Flagged(Half, Requests)) + One(Half'[r]) - One(Half[r])
  BY <1>3, <1>4, FlagStep
<1>8. lag' = Cardinality(Flagged(Half', Requests))
  BY <1>7, StepMetrics, Zenon DEF MetricsIInv
<1>9. lag \in Nat /\ lag' \in Nat
  BY <1>4, <1>8, FlagType DEF MetricsIInv
<1>10. missed' \in 0 .. lag'
  BY <1>9, StepMissed DEF MetricsIInv
<1> QED
  BY <1>1, <1>5, <1>6, <1>8, <1>10, StepMetrics, Zenon DEF MetricsIInv

LEMMA MetricsNextInv == MetricsIInv /\ [MetricsNext]_metricsVars => MetricsIInv'
<1>1. SUFFICES ASSUME MetricsIInv,
                      UNCHANGED <<pipelineVars, inProgress, outstanding, lag>>,
                      missed' \in {missed, lag}
               PROVE  MetricsIInv'
  BY MetricsSteps, MetricsStepInv DEF metricsVars, metrics, ScrapeTotal
<1>2. /\ UNCHANGED pipelineVars
      /\ UNCHANGED <<pc, kind, status, inProgress, outstanding, lag>>
  BY <1>1 DEF pipelineVars
<1>3. Here' = Here /\ Waits' = Waits /\ Half' = Half
  BY <1>2 DEF Here, Waits, Half
<1>4. missed' \in 0 .. lag'
  <2>1. lag \in Nat
    BY <1>1, FlagType, PipelineAssumption DEF MetricsIInv, PipelineAssumption
  <2> QED
    BY <1>1, <1>2, <2>1 DEF MetricsIInv
<1>5. PipelineIInv'
  BY <1>1, <1>2, PipelineNextInv DEF MetricsIInv
<1> QED
  BY <1>1, <1>2, <1>3, <1>4, <1>5, Zenon DEF MetricsIInv

LEMMA MetricsInvariant == MetricsSpec => []MetricsIInv
BY MetricsInitInv, MetricsNextInv, PTL DEF MetricsSpec

(***************************************************************************)
(* The metrics only watch: with them the pipeline behaves as without, and  *)
(* the fairness that is assumed is that of the pipeline.                   *)
(***************************************************************************)
THEOREM PipelineImplemented == FairMetricsSpec => FairPipelineSpec
<1>1. MetricsInit => PipelineInit
  BY DEF MetricsInit
<1>2. [MetricsNext]_metricsVars => [PipelineNext]_pipelineVars
  BY MetricsSteps, PipelineSteps DEF metricsVars, ScrapeTotal
<1> QED
  BY <1>1, <1>2, PTL
     DEF FairMetricsSpec, MetricsSpec, FairPipelineSpec, PipelineSpec

(***************************************************************************)
(* The gauges stay within the number of clients, whatever they do.         *)
(***************************************************************************)
THEOREM MetricsTyped == MetricsSpec => []MetricsTypeOK
<1>1. MetricsIInv => MetricsTypeOK
  BY FlagType, PipelineAssumption
     DEF MetricsIInv, MetricsTypeOK, PipelineIInv, PipelineAssumption
<1> QED
  BY <1>1, MetricsInvariant, PTL

LEMMA HoldersFlagged ==
  ASSUME HoldsBetween
  PROVE  Holders = Flagged(holds, Requests)
  BY DEF HoldsBetween, Holders, Flagged

(***************************************************************************)
(* No connection leaks, for any number of clients, threads and connections *)
(* and on every way out of an endpoint.                                    *)
(***************************************************************************)
THEOREM NoConnectionLeaks == MetricsSpec => []ConnectionsAccounted
<1>1. ASSUME MetricsIInv PROVE ConnectionsAccounted
  <2>1. PipelineIInv
    BY <1>1 DEF MetricsIInv
  <2>2. Holders = Flagged(holds, Requests)
    BY <2>1, HoldersFlagged DEF PipelineIInv
  <2> QED
    BY <2>1, <2>2 DEF PipelineIInv, ConnectionsAccounted, Flagged
<1> QED
  BY <1>1, MetricsInvariant, PTL

(***************************************************************************)
(* The gauge of the process counts every request until it is gone and the  *)
(* total once, for any number of requests in flight.                       *)
(***************************************************************************)
THEOREM RequestsAreConserved == MetricsSpec => []RequestsConserved
<1>1. MetricsIInv => RequestsConserved
  BY FlagSets DEF MetricsIInv, RequestsConserved
<1> QED
  BY <1>1, MetricsInvariant, PTL

(***************************************************************************)
(* The two counters of the error ratio are never more than one response    *)
(* apart in the process: dispatch has no await between them, so one        *)
(* request at a time is half counted.  A scrape that has read the total    *)
(* therefore misses the error of one response at most.                     *)
(***************************************************************************)
THEOREM ErrorsDoKeepUp == MetricsSpec => []ErrorsKeepUp
<1>1. ASSUME MetricsIInv PROVE ErrorsKeepUp
  <2>1. lag = Cardinality(HalfCounted) /\ missed \in 0 .. lag
    BY <1>1, FlagSets DEF MetricsIInv
  <2>2. CASE HalfCounted = {}
    BY <2>1, <2>2, FS_EmptySet DEF ErrorsKeepUp
  <2>3. CASE HalfCounted # {}
    <3>1. PICK r : r \in HalfCounted
      BY <2>3
    <3>2. HalfCounted = {r}
      BY <1>1, <3>1
         DEF MetricsIInv, PipelineIInv, OneCounts, Counting, HalfCounted
    <3> QED
      BY <2>1, <3>2, FS_Singleton DEF ErrorsKeepUp
  <2> QED
    BY <2>2, <2>3
<1> QED
  BY <1>1, MetricsInvariant, PTL

(***************************************************************************)
(* The pool of connections is a lease: each step of the pipeline takes or  *)
(* gives back one connection at most, of the request whose step it is.     *)
(***************************************************************************)
THEOREM ConnectionsImplementLease == MetricsSpec => ConnectionsAreLeased
<1>1. MetricsInit => Connection!LeaseInit
  BY PipelineAssumption
     DEF MetricsInit, PipelineInit, Connection!LeaseInit, Holders
<1>2. ASSUME PipelineIInv, PipelineIInv', NEW r \in Requests, RequestStep(r)
      PROVE  [Connection!LeaseNext]_<<Holders, Capacity - inUse>>
  <2>1. /\ Holders = Flagged(holds, Requests)
        /\ Holders' = Flagged(holds, Requests)'
    BY <1>2, HoldersFlagged DEF PipelineIInv, HoldsBetween, Holders, Flagged
  <2>2. \A q \in Requests : q # r => holds'[q] = holds[q]
    BY <1>2, StepFrame DEF PipelineIInv
  <2>3. /\ inUse' = inUse + One(holds'[r]) - One(holds[r])
        /\ inUse \in 0 .. Capacity /\ inUse' \in 0 .. Capacity
        /\ Capacity \in Nat
    BY <1>2, StepPool, PipelineAssumption DEF PipelineIInv, PipelineTypeOK
  <2>4. holds \in [Requests -> BOOLEAN] /\ holds' \in [Requests -> BOOLEAN]
    BY <1>2 DEF PipelineIInv, PipelineTypeOK
  <2>5. CASE holds'[r] /\ ~holds[r]
    <3>1. r \notin Holders /\ Holders' = Holders \cup {r}
      BY <2>1, <2>2, <2>5 DEF Flagged
    <3>2. inUse' = inUse + 1
      BY <2>3, <2>5 DEF One
    <3> QED
      BY <2>3, <3>1, <3>2 DEF Connection!LeaseNext, Connection!Take
  <2>6. CASE ~holds'[r] /\ holds[r]
    <3>1. r \in Holders /\ Holders' = Holders \ {r}
      BY <2>1, <2>2, <2>6 DEF Flagged
    <3>2. inUse' = inUse - 1
      BY <2>3, <2>6 DEF One
    <3> QED
      BY <2>3, <3>1, <3>2 DEF Connection!LeaseNext, Connection!GiveBack
  <2>7. CASE holds'[r] <=> holds[r]
    <3>1. Holders' = Holders
      BY <2>1, <2>2, <2>7 DEF Flagged
    <3>2. inUse' = inUse
      BY <2>3, <2>7 DEF One
    <3> QED
      BY <3>1, <3>2
  <2> QED
    BY <2>5, <2>6, <2>7
<1>3. ASSUME MetricsIInv, MetricsIInv', [MetricsNext]_metricsVars
      PROVE  [Connection!LeaseNext]_<<Holders, Capacity - inUse>>
  <2>1. CASE UNCHANGED metricsVars
    BY <2>1 DEF metricsVars, pipelineVars, Holders
  <2>2. ASSUME NEW r \in Requests, ScrapeTotal(r)
        PROVE  UNCHANGED <<Holders, Capacity - inUse>>
    BY <2>2 DEF ScrapeTotal, pipelineVars, Holders
  <2> QED
    BY <1>2, <1>3, <2>1, <2>2, MetricsSteps DEF MetricsIInv
<1> QED
  BY <1>1, <1>3, MetricsInvariant, PTL
     DEF MetricsSpec, ConnectionsAreLeased, Connection!LeaseSpec,
         Connection!leaseVars

(***************************************************************************)
(* Endpoints never run on more threads than the server's limiter has,      *)
(* whatever waits for connections in them: only StartEndpoint adds one.    *)
(***************************************************************************)
InThread == {"running", "querying", "ended"}
Working == [r \in Requests |-> pc[r] \in InThread]

ThreadsBounded == Cardinality(Threads) <= Tokens

LEMMA ThreadsStep ==
  ASSUME PipelineTypeOK, ThreadsBounded, NEW r \in Requests, RequestStep(r)
  PROVE  ThreadsBounded'
<1>1. IsFiniteSet(Requests) /\ Tokens \in Nat
  BY PipelineAssumption
<1>2. /\ Threads = Flagged(Working, Requests)
      /\ Threads' = Flagged(Working', Requests)
  BY DEF Threads, Flagged, Working, InThread
<1>3. \A q \in Requests : q # r => (Working'[q] <=> Working[q])
  BY StepFrame DEF Working
<1>4. Cardinality(Threads') =
        Cardinality(Threads) + One(Working'[r]) - One(Working[r])
  BY <1>1, <1>2, <1>3, FlagStep
<1>5. Cardinality(Threads) \in Nat
  BY <1>1, <1>2, FlagType
<1>6. CASE StartEndpoint(r)
  BY <1>1, <1>4, <1>5, <1>6 DEF StartEndpoint, ThreadsBounded, One
<1>7. CASE ~StartEndpoint(r)
  <2>1. pc'[r] \in InThread => pc[r] \in InThread
    BY <1>7 DEF RequestStep, Arrive, Refuse, SolveDependencies, EndpointStep,
       EndPlain, EndEarly, Checkout, PoolTimesOut, EndQuery, EndProbe, Resume,
       CloseSession, CountTotal, CountError, Leave, Move, Answer, InThread,
       PipelineTypeOK
  <2>2. Working'[r] => Working[r]
    BY <2>1 DEF Working
  <2> QED
    BY <1>1, <1>4, <1>5, <2>2 DEF ThreadsBounded, One
<1> QED
  BY <1>6, <1>7

THEOREM EndpointsAreBounded == MetricsSpec => []ThreadsBounded
<1>1. MetricsInit => ThreadsBounded
  <2>1. MetricsInit => Threads = {}
    BY DEF MetricsInit, PipelineInit, Threads
  <2> QED
    BY <2>1, FS_EmptySet, PipelineAssumption DEF ThreadsBounded
<1>2. MetricsIInv /\ ThreadsBounded /\ [MetricsNext]_metricsVars
        => ThreadsBounded'
  <2>1. CASE UNCHANGED metricsVars
    BY <2>1 DEF metricsVars, pipelineVars, ThreadsBounded, Threads
  <2>2. ASSUME NEW r \in Requests, ScrapeTotal(r)
        PROVE  ThreadsBounded => ThreadsBounded'
    BY <2>2 DEF ScrapeTotal, pipelineVars, ThreadsBounded, Threads
  <2>3. CASE MetricsNext
    BY <2>2, <2>3, MetricsSteps, ThreadsStep DEF MetricsIInv, PipelineIInv
  <2> QED
    BY <2>1, <2>3
<1> QED
  BY <1>1, <1>2, MetricsInvariant, PTL DEF MetricsSpec
=============================================================================
