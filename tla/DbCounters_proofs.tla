------------------------- MODULE DbCounters_proofs -------------------------
(***************************************************************************)
(* Proofs about DbCounters: the counters of any number of workers agree in *)
(* every state of the process, and what a scrape reads of them one family  *)
(* after another stays within their distance.                              *)
(***************************************************************************)
EXTENDS DbCounters, DbOperations_proofs, Census

\* A worker's place, "marked" when it carries an uncounted simulated failure.
Tags(place, mark) ==
  [w \in Workers |-> IF place[w] = "failed" /\ mark[w] THEN "marked" ELSE "none"]

LEMMA TagsAreRaised ==
  ASSUME NEW place, NEW mark
  PROVE  {w \in Workers : place[w] = "failed" /\ mark[w]}
           = At(Tags(place, mark), Workers, {"marked"})
BY DEF Tags, At

(* CensusStep for the places of the workers.                               *)
LEMMA PlaceMoves ==
  ASSUME NEW P, NEW w \in Workers,
         \A v \in Workers : v # w => wpc'[v] = wpc[v]
  PROVE  Cardinality(At(wpc', Workers, P)) =
           Cardinality(At(wpc, Workers, P)) + One(wpc'[w] \in P) - One(wpc[w] \in P)
<1>1. IsFiniteSet(Workers)
  BY CountersAssumption
<1> QED
  BY <1>1, CensusStep

(* What a step of worker w does to the three counts of the specification.  *)
LEMMA WorkerMoves ==
  ASSUME NEW w \in Workers,
         \A v \in Workers : v # w => wpc'[v] = wpc[v],
         \A v \in Workers : v # w => simulated'[v] = simulated[v]
  PROVE  /\ Cardinality(Uncounted)' = Cardinality(Uncounted)
              + One(wpc'[w] \in BeforeEntry) - One(wpc[w] \in BeforeEntry)
         /\ Cardinality(HalfCounted)' = Cardinality(HalfCounted)
              + One(wpc'[w] \in {"counted"}) - One(wpc[w] \in {"counted"})
         /\ Cardinality(SimulatedRaised)' = Cardinality(SimulatedRaised)
              + One(wpc'[w] = "failed" /\ simulated'[w])
              - One(wpc[w] = "failed" /\ simulated[w])
<1>1. IsFiniteSet(Workers)
  BY CountersAssumption
<1>2. Cardinality(At(wpc', Workers, BeforeEntry)) =
        Cardinality(At(wpc, Workers, BeforeEntry))
          + One(wpc'[w] \in BeforeEntry) - One(wpc[w] \in BeforeEntry)
  BY PlaceMoves
<1>3. Cardinality(At(wpc', Workers, {"counted"})) =
        Cardinality(At(wpc, Workers, {"counted"}))
          + One(wpc'[w] \in {"counted"}) - One(wpc[w] \in {"counted"})
  BY PlaceMoves
<1>4. /\ Uncounted = At(wpc, Workers, BeforeEntry)
      /\ Uncounted' = At(wpc', Workers, BeforeEntry)
      /\ HalfCounted = At(wpc, Workers, {"counted"})
      /\ HalfCounted' = At(wpc', Workers, {"counted"})
  BY DEF Uncounted, HalfCounted, At
<1> DEFINE old == Tags(wpc, simulated)
           new == Tags(wpc', simulated')
<1>5. /\ \A v \in Workers : v # w => new[v] = old[v]
      /\ new[w] \in {"marked"} <=> wpc'[w] = "failed" /\ simulated'[w]
      /\ old[w] \in {"marked"} <=> wpc[w] = "failed" /\ simulated[w]
  BY DEF Tags
<1>6. /\ SimulatedRaised = At(old, Workers, {"marked"})
      /\ SimulatedRaised' = At(new, Workers, {"marked"})
  BY TagsAreRaised DEF SimulatedRaised
<1> HIDE DEF old, new
<1>7. Cardinality(At(new, Workers, {"marked"})) =
        Cardinality(At(old, Workers, {"marked"}))
          + One(new[w] \in {"marked"}) - One(old[w] \in {"marked"})
  BY <1>1, <1>5, CensusStep
<1>8. Cardinality(SimulatedRaised)' = Cardinality(SimulatedRaised)
        + One(wpc'[w] = "failed" /\ simulated'[w])
        - One(wpc[w] = "failed" /\ simulated[w])
  BY <1>5, <1>6, <1>7 DEF One
<1> QED
  BY <1>2, <1>3, <1>4, <1>8

LEMMA CountersCountsAreNat ==
  /\ Cardinality(Uncounted) \in Nat
  /\ Cardinality(HalfCounted) \in Nat
  /\ Cardinality(SimulatedRaised) \in Nat
<1>1. /\ Uncounted = At(wpc, Workers, BeforeEntry)
      /\ HalfCounted = At(wpc, Workers, {"counted"})
      /\ SimulatedRaised = At(Tags(wpc, simulated), Workers, {"marked"})
  BY TagsAreRaised DEF Uncounted, HalfCounted, SimulatedRaised, At
<1> QED
  BY <1>1, CensusType, CountersAssumption

LEMMA CountersCountsAreNatNext ==
  /\ Cardinality(Uncounted)' \in Nat
  /\ Cardinality(HalfCounted)' \in Nat
  /\ Cardinality(SimulatedRaised)' \in Nat
<1>1. /\ Uncounted' = At(wpc', Workers, BeforeEntry)
      /\ HalfCounted' = At(wpc', Workers, {"counted"})
      /\ SimulatedRaised' = At(Tags(wpc', simulated'), Workers, {"marked"})
  BY TagsAreRaised DEF Uncounted, HalfCounted, SimulatedRaised, At
<1> QED
  BY <1>1, CensusType, CountersAssumption

(* What the counters say, in terms of the three counts alone.              *)
Tally(u, h, s) ==
  /\ u \in Nat /\ h \in Nat /\ s \in Nat
  /\ successes \in Nat /\ errors \in Nat /\ dbErrors \in Nat
  /\ simFailures \in Nat /\ armings \in Nat /\ scraped \in Nat
  /\ begun \in 0 .. MaxOps
  /\ bornArmed \in BOOLEAN
  /\ successes + errors + u = begun
  /\ errors = dbErrors + h
  /\ scraped <= errors
  /\ simFailures <= errors + s

CountersAgree ==
  Tally(Cardinality(Uncounted), Cardinality(HalfCounted),
        Cardinality(SimulatedRaised))

\* Someone armed the switch, and was counted or will be.
ToBeCounted == {"enabled", "mode", "gauge", "readEnabled"}

ArmedBySomeone ==
  \/ bornArmed
  \/ armings > 0
  \/ \E t \in Togglers : tpc[t] \in ToBeCounted /\ req[t].enable

\* The armed switch, the operations that saw it armed, and what they left.
SeenArmed ==
  \/ switch.enabled
  \/ simFailures > 0
  \/ \E w \in Workers : wpc[w] \in {"armed", "delay", "raise"}

ArmingTraced == SeenArmed => ArmedBySomeone

CountersIInv == IInv /\ CountersAgree /\ ArmingTraced

LEMMA CountersInitInv == CountersInit => CountersIInv
<1>1. SUFFICES ASSUME CountersInit PROVE CountersIInv
  OBVIOUS
<1>2. IInv
  BY <1>1, InitInv DEF CountersInit
<1>3. \A w \in Workers : wpc[w] = "idle"
  BY <1>1 DEF CountersInit, Init
<1>4. Uncounted = {} /\ HalfCounted = {} /\ SimulatedRaised = {}
  BY <1>3 DEF Uncounted, HalfCounted, SimulatedRaised, BeforeEntry
<1>5. CountersAgree
  <2>1. switch.enabled \in BOOLEAN
    BY <1>2 DEF IInv, SwitchIInv, SwitchTypeOK
  <2>2. Cardinality({}) = 0
    BY FS_EmptySet
  <2> QED
    BY <1>1, <1>4, <2>1, <2>2, CountersAssumption
       DEF CountersInit, CountersAgree, Tally
<1>6. ArmingTraced
  BY <1>1, <1>3 DEF CountersInit, ArmingTraced, SeenArmed, ArmedBySomeone
<1> QED
  BY <1>2, <1>5, <1>6 DEF CountersIInv

(* A step of the counters is a step of the operations.                     *)
LEMMA CountersStep == [CountersNext]_countersVars => [Next]_vars
BY DEF CountersNext, countersVars, BeginOp, RaiseCounted, ObserveFailed,
   ObserveError, ObserveReturned, SilentStep, AcceptBounded, ArmingCounted,
   SilentToggle, DatabaseStep, ScrapeQueries, Next, OperationStep, OtherToggle, ToggleStep

(* The step of one worker: the counts before, and what it adds to them.    *)
LEMMA CountsMove ==
  ASSUME IInv, NEW w \in Workers, Begin(w) \/ OperationStep(w)
  PROVE  /\ Cardinality(Uncounted)' = Cardinality(Uncounted)
              + One(wpc'[w] \in BeforeEntry) - One(wpc[w] \in BeforeEntry)
         /\ Cardinality(HalfCounted)' = Cardinality(HalfCounted)
              + One(wpc'[w] \in {"counted"}) - One(wpc[w] \in {"counted"})
         /\ Cardinality(SimulatedRaised)' = Cardinality(SimulatedRaised)
              + One(wpc'[w] = "failed" /\ simulated'[w])
              - One(wpc[w] = "failed" /\ simulated[w])
<1>1. \A v \in Workers : v # w => wpc'[v] = wpc[v]
  BY DEF IInv, OpIInv, OpTypeOK, OperationStep, Begin, CheckEnabled, PickMode,
     Delay, RaiseSimulated, QuerySucceeds, QueryFails, CountFailed, CountError,
     FinishFailed, CountReturned, FinishReturned
<1>2. \A v \in Workers : v # w => simulated'[v] = simulated[v]
  BY DEF IInv, OpIInv, OpTypeOK, OperationStep, Begin, CheckEnabled, PickMode,
     Delay, RaiseSimulated, QuerySucceeds, QueryFails, CountFailed, CountError,
     FinishFailed, CountReturned, FinishReturned
<1> QED
  BY <1>1, <1>2, WorkerMoves

(* Every increment keeps the tally.                                        *)
LEMMA WorkerTally ==
  ASSUME CountersIInv, NEW w \in Workers,
         \/ BeginOp(w) \/ RaiseCounted(w) \/ ObserveFailed(w)
         \/ ObserveError(w) \/ ObserveReturned(w) \/ SilentStep(w)
  PROVE  CountersAgree'
<1> DEFINE u == Cardinality(Uncounted)
           h == Cardinality(HalfCounted)
           s == Cardinality(SimulatedRaised)
<1>1. Tally(u, h, s)
  BY DEF CountersIInv, CountersAgree
<1>2. u' \in Nat /\ h' \in Nat /\ s' \in Nat
  BY CountersCountsAreNatNext
<1>3. /\ u' = u + One(wpc'[w] \in BeforeEntry) - One(wpc[w] \in BeforeEntry)
      /\ h' = h + One(wpc'[w] \in {"counted"}) - One(wpc[w] \in {"counted"})
      /\ s' = s + One(wpc'[w] = "failed" /\ simulated'[w])
                - One(wpc[w] = "failed" /\ simulated[w])
  <2>1. IInv
    BY DEF CountersIInv
  <2>2. Begin(w) \/ OperationStep(w)
    BY DEF BeginOp, RaiseCounted, ObserveFailed, ObserveError, ObserveReturned,
       SilentStep, OperationStep
  <2> QED
    BY <2>1, <2>2, CountsMove
<1>4. OpTypeOK /\ Marked(w)
  BY DEF CountersIInv, IInv, OpIInv
<1>5. SUFFICES Tally(u, h, s)'
  BY DEF CountersAgree
<1> HIDE DEF u, h, s
<1>6. CASE BeginOp(w)
  <2>1. wpc'[w] = "check" /\ wpc[w] \in {"idle", "done"}
    BY <1>4, <1>6 DEF BeginOp, Begin, OpTypeOK
  <2>2. u' = u + 1 /\ h' = h /\ s' = s
    BY <1>1, <1>3, <2>1 DEF One, BeforeEntry, Tally
  <2>3. /\ begun < MaxOps /\ begun' = begun + 1
        /\ UNCHANGED <<successes, errors, dbErrors, simFailures, armings, scraped,
                       bornArmed>>
    BY <1>6 DEF BeginOp, counters
  <2> QED
    BY <1>1, <1>2, <2>2, <2>3, CountersAssumption DEF Tally
<1>7. CASE RaiseCounted(w)
  <2>1. wpc'[w] = "failed" /\ wpc[w] = "raise" /\ simulated'[w]
    BY <1>4, <1>7 DEF RaiseCounted, RaiseSimulated, OpTypeOK, Marked
  <2>2. u' = u /\ h' = h /\ s' = s + 1
    BY <1>1, <1>3, <2>1 DEF One, BeforeEntry, Tally
  <2> QED
    BY <1>1, <1>2, <1>7, <2>2 DEF RaiseCounted, Tally
<1>8. CASE ObserveFailed(w)
  <2>1. wpc'[w] = "counted" /\ wpc[w] = "failed"
    BY <1>4, <1>8 DEF ObserveFailed, CountFailed, OpTypeOK
  <2>2. u' = u - 1 /\ h' = h + 1
    BY <1>1, <1>3, <2>1 DEF One, BeforeEntry, Tally
  <2>3. CASE simulated[w]
    <3>1. s' = s - 1
      BY <1>1, <1>3, <2>1, <2>3 DEF One, Tally
    <3> QED
      BY <1>1, <1>2, <1>8, <2>2, <3>1 DEF ObserveFailed, Tally
  <2>4. CASE ~simulated[w]
    <3>1. s' = s
      BY <1>1, <1>3, <2>1, <2>4 DEF One, Tally
    <3> QED
      BY <1>1, <1>2, <1>8, <2>2, <3>1 DEF ObserveFailed, Tally
  <2> QED
    BY <2>3, <2>4
<1>9. CASE ObserveError(w)
  <2>1. wpc'[w] = "classified" /\ wpc[w] = "counted"
    BY <1>4, <1>9 DEF ObserveError, CountError, OpTypeOK
  <2>2. u' = u /\ h' = h - 1 /\ s' = s
    BY <1>1, <1>3, <2>1 DEF One, BeforeEntry, Tally
  <2> QED
    BY <1>1, <1>2, <1>9, <2>2 DEF ObserveError, Tally
<1>10. CASE ObserveReturned(w)
  <2>1. wpc'[w] = "observed" /\ wpc[w] = "returned"
    BY <1>4, <1>10 DEF ObserveReturned, CountReturned, OpTypeOK
  <2>2. u' = u - 1 /\ h' = h /\ s' = s
    BY <1>1, <1>3, <2>1 DEF One, BeforeEntry, Tally
  <2> QED
    BY <1>1, <1>2, <1>10, <2>2 DEF ObserveReturned, Tally
<1>11. CASE SilentStep(w)
  <2>1. /\ wpc[w] \in BeforeEntry <=> wpc'[w] \in BeforeEntry
        /\ wpc[w] # "counted" /\ wpc'[w] # "counted"
        /\ wpc[w] # "failed" /\ (wpc'[w] = "failed" => ~simulated'[w])
    BY <1>4, <1>11
       DEF SilentStep, CheckEnabled, PickMode, Delay, QuerySucceeds, QueryFails,
           FinishFailed, FinishReturned, OpTypeOK, Marked, BeforeEntry
  <2>2. u' = u /\ h' = h /\ s' = s
    BY <1>1, <1>3, <2>1 DEF One, Tally
  <2> QED
    BY <1>1, <1>11, <2>2 DEF SilentStep, counters, Tally
<1> QED
  BY <1>6, <1>7, <1>8, <1>9, <1>10, <1>11

(* The other actors leave the counts alone; an arming is counted once, and *)
(* a scrape finds no more errors than there are.                           *)
LEMMA OthersTally ==
  ASSUME CountersIInv, UNCHANGED <<wpc, simulated>>,
         UNCHANGED <<successes, errors, dbErrors, simFailures, begun, bornArmed>>,
         armings' \in Nat, scraped' \in {scraped, errors}
  PROVE  CountersAgree'
<1>1. UNCHANGED <<Uncounted, HalfCounted, SimulatedRaised>>
  BY DEF Uncounted, HalfCounted, SimulatedRaised
<1> QED
  BY <1>1 DEF CountersIInv, CountersAgree, Tally

(* What saw the switch armed is traced to an arming that is or will be     *)
(* counted: nothing but the toggle that writes the record arms it.         *)
LEMMA WorkerTraced ==
  ASSUME CountersIInv, NEW w \in Workers,
         \/ BeginOp(w) \/ RaiseCounted(w) \/ ObserveFailed(w)
         \/ ObserveError(w) \/ ObserveReturned(w) \/ SilentStep(w)
  PROVE  ArmingTraced'
<1>1. UNCHANGED <<switch, tpc, req, armings, bornArmed>>
  BY DEF BeginOp, RaiseCounted, ObserveFailed, ObserveError, ObserveReturned,
     SilentStep, Begin, CheckEnabled, PickMode, Delay, RaiseSimulated,
     QuerySucceeds, QueryFails, CountFailed, CountError, FinishFailed,
     CountReturned, FinishReturned, switchVars, counters
<1>2. ArmedBySomeone' = ArmedBySomeone
  BY <1>1 DEF ArmedBySomeone
<1>3. simFailures' = simFailures \/ (wpc[w] = "raise" /\ RaiseCounted(w))
  BY DEF BeginOp, RaiseCounted, ObserveFailed, ObserveError, ObserveReturned,
     SilentStep, RaiseSimulated, counters
<1>4. wpc'[w] \in {"armed", "delay", "raise"} =>
        switch.enabled \/ wpc[w] \in {"armed", "delay", "raise"}
  BY DEF CountersIInv, IInv, OpIInv, OpTypeOK,
     BeginOp, RaiseCounted, ObserveFailed, ObserveError, ObserveReturned,
     SilentStep, Begin, CheckEnabled, PickMode, Delay, RaiseSimulated,
     QuerySucceeds, QueryFails, CountFailed, CountError, FinishFailed,
     CountReturned, FinishReturned
<1>5. \A v \in Workers : v # w => wpc'[v] = wpc[v]
  BY DEF CountersIInv, IInv, OpIInv, OpTypeOK,
     BeginOp, RaiseCounted, ObserveFailed, ObserveError, ObserveReturned,
     SilentStep, Begin, CheckEnabled, PickMode, Delay, RaiseSimulated,
     QuerySucceeds, QueryFails, CountFailed, CountError, FinishFailed,
     CountReturned, FinishReturned
<1>6. SeenArmed' => SeenArmed
  BY <1>1, <1>3, <1>4, <1>5 DEF SeenArmed
<1> QED
  BY <1>2, <1>6 DEF CountersIInv, ArmingTraced

LEMMA TogglerTraced ==
  ASSUME CountersIInv, NEW t \in Togglers,
         AcceptBounded(t) \/ ArmingCounted(t) \/ SilentToggle(t)
  PROVE  ArmingTraced'
<1> DEFINE Traced(x) == tpc[x] \in ToBeCounted /\ req[x].enable
<1>1. UNCHANGED <<wpc, simFailures, bornArmed>>
  BY DEF AcceptBounded, ArmingCounted, SilentToggle, AcceptToggle, opVars, counters
<1>2. armings \in Nat
  BY DEF CountersIInv, CountersAgree, Tally
<1>3. /\ switch \in [enabled : BOOLEAN, mode : Modes]
      /\ tpc \in [Togglers -> Active \cup {"idle"}]
      /\ req \in [Togglers -> Requests]
  BY DEF CountersIInv, IInv, SwitchIInv, SwitchTypeOK
<1>4. \A x \in Togglers : x # t => (Traced(x)' <=> Traced(x))
  BY <1>3 DEF AcceptBounded, ArmingCounted, SilentToggle, AcceptToggle, Accept,
     Reject, WriteEnabled, WriteMode, SetGauge, ReadEnabled, ReadMode
<1>5. Traced(t) => Traced(t)' \/ armings' > 0
  <2>1. CASE ArmingCounted(t)
    BY <1>2, <2>1 DEF ArmingCounted
  <2>2. CASE AcceptBounded(t)
    <3>1. ~Traced(t)
      BY <2>2 DEF AcceptBounded, AcceptToggle, Accept, ToBeCounted
    <3> QED
      BY <3>1
  <2>3. CASE SilentToggle(t)
    <3>1. req'[t] = req[t] \/ tpc[t] = "idle"
      BY <2>3 DEF SilentToggle, Reject, WriteEnabled, WriteMode, SetGauge, ReadMode
    <3>2. tpc[t] \in ToBeCounted => tpc'[t] \in ToBeCounted
      BY <1>3, <2>3 DEF SilentToggle, Reject, WriteEnabled, WriteMode, SetGauge,
                        ReadMode, ToBeCounted
    <3> QED
      BY <3>1, <3>2 DEF ToBeCounted
  <2> QED
    BY <2>1, <2>2, <2>3
<1>6. armings > 0 => armings' > 0
  BY <1>2 DEF AcceptBounded, ArmingCounted, SilentToggle, counters
<1>7. ArmedBySomeone => ArmedBySomeone'
  BY <1>1, <1>4, <1>5, <1>6 DEF ArmedBySomeone
<1>8. switch'.enabled => switch.enabled \/ Traced(t)'
  BY <1>3 DEF AcceptBounded, ArmingCounted, SilentToggle, AcceptToggle,
     Accept, Reject, WriteEnabled, WriteMode, SetGauge, ReadEnabled, ReadMode,
     ToBeCounted
<1>9. Traced(t)' => ArmedBySomeone'
  BY DEF ArmedBySomeone
<1>10. SeenArmed' => SeenArmed \/ Traced(t)'
  BY <1>1, <1>8 DEF SeenArmed
<1> QED
  BY <1>7, <1>9, <1>10 DEF CountersIInv, ArmingTraced

LEMMA CountersNextInv ==
  CountersIInv /\ [CountersNext]_countersVars => CountersIInv'
<1>1. SUFFICES ASSUME CountersIInv, [CountersNext]_countersVars
               PROVE  CountersAgree' /\ ArmingTraced'
  BY CountersStep, NextInv DEF CountersIInv
<1>2. ASSUME NEW w \in Workers,
             \/ BeginOp(w) \/ RaiseCounted(w) \/ ObserveFailed(w)
             \/ ObserveError(w) \/ ObserveReturned(w) \/ SilentStep(w)
      PROVE  CountersAgree' /\ ArmingTraced'
  BY <1>1, <1>2, WorkerTally, WorkerTraced
<1>3. ASSUME NEW t \in Togglers,
             AcceptBounded(t) \/ ArmingCounted(t) \/ SilentToggle(t)
      PROVE  CountersAgree' /\ ArmingTraced'
  <2>1. armings \in Nat
    BY <1>1 DEF CountersIInv, CountersAgree, Tally
  <2>2. /\ UNCHANGED <<wpc, simulated>> /\ armings' \in Nat
        /\ UNCHANGED <<successes, errors, dbErrors, simFailures, begun, bornArmed>>
        /\ scraped' = scraped
    BY <1>3, <2>1 DEF AcceptBounded, ArmingCounted, SilentToggle, AcceptToggle,
       opVars, counters
  <2> QED
    BY <1>1, <1>3, <2>2, OthersTally, TogglerTraced
<1>4. CASE DatabaseStep \/ ScrapeQueries \/ UNCHANGED countersVars
  <2>1. UNCHANGED <<switch, tpc, req, wpc, simulated, successes, errors, dbErrors,
                    simFailures, armings, begun, bornArmed>>
    BY <1>4 DEF DatabaseStep, DatabaseChanges, ScrapeQueries, countersVars, vars,
       switchVars, opVars, counters
  <2>2. armings \in Nat
    BY <1>1 DEF CountersIInv, CountersAgree, Tally
  <2>3. scraped' \in {scraped, errors}
    BY <1>4 DEF DatabaseStep, ScrapeQueries, countersVars
  <2>4. CountersAgree'
    BY <1>1, <2>1, <2>2, <2>3, OthersTally
  <2>5. ArmingTraced'
    BY <1>1, <2>1 DEF CountersIInv, ArmingTraced, SeenArmed, ArmedBySomeone
  <2> QED
    BY <2>4, <2>5
<1> QED
  BY <1>1, <1>2, <1>3, <1>4 DEF CountersNext

LEMMA CountersInvariant == CountersSpec => []CountersIInv
BY CountersInitInv, CountersNextInv, PTL DEF CountersSpec

(***************************************************************************)
(* Type correctness of the switch, the operations and the counters.        *)
(***************************************************************************)
THEOREM CountersTypeCorrect == CountersSpec => []CountersTypeOK
<1>1. CountersIInv => CountersTypeOK
  BY DEF CountersIInv, IInv, SwitchIInv, OpIInv, TypeOK, CountersAgree, Tally,
         CountersTypeOK
<1> QED
  BY <1>1, CountersInvariant, PTL

(***************************************************************************)
(* For any number of threads no operation is lost or counted twice.        *)
(***************************************************************************)
THEOREM CountersConserved == CountersSpec => []OperationsConserved
<1>1. CountersIInv => OperationsConserved
  BY DEF CountersIInv, CountersAgree, Tally, OperationsConserved
<1> QED
  BY <1>1, CountersInvariant, PTL

(***************************************************************************)
(* In the process the two error counters differ by the threads between     *)
(* their increments, and by nothing else; a scrape that has read the       *)
(* failed operations comes to their errors with no more missing than that, *)
(* however many operations end between its two readings.                   *)
(***************************************************************************)
THEOREM ErrorsAreMatched == CountersSpec => []ErrorsAgree
<1>1. CountersIInv => ErrorsAgree
  BY DEF CountersIInv, CountersAgree, Tally, ErrorsAgree
<1> QED
  BY <1>1, CountersInvariant, PTL

(***************************************************************************)
(* The drill never exceeds the outage it simulates: every simulated        *)
(* failure is a failed operation.                                          *)
(***************************************************************************)
THEOREM SimulatedBounded == CountersSpec => []SimulatedAreErrors
<1>1. CountersIInv => SimulatedAreErrors
  BY DEF CountersIInv, CountersAgree, Tally, SimulatedAreErrors
<1> QED
  BY <1>1, CountersInvariant, PTL

(***************************************************************************)
(* No simulated failure without an arming that is counted or will be.      *)
(***************************************************************************)
THEOREM FailuresAreArmed == CountersSpec => []ArmedBeforeFailing
<1>1. CountersIInv => ArmedBeforeFailing
  <2>1. ToBeCounted \subseteq Active
    BY DEF ToBeCounted, Active
  <2> QED
    BY <2>1 DEF CountersIInv, ArmingTraced, SeenArmed, ArmedBySomeone,
                ArmedBeforeFailing
<1> QED
  BY <1>1, CountersInvariant, PTL

(***************************************************************************)
(* The counters only watch: with them the operations behave as without, so *)
(* what is proved of the switch and of db_up holds of the counted system.  *)
(***************************************************************************)
THEOREM OperationsImplemented == CountersSpec => Spec
<1>1. CountersInit => Init
  BY DEF CountersInit
<1> QED
  BY <1>1, CountersStep, PTL DEF CountersSpec, Spec

THEOREM CountedSystemKeepsPromises ==
  CountersSpec => /\ []SwitchIsDecisive
                  /\ []ArmedAnswers503
                  /\ []SettlesOnAsked
                  /\ HealthRefined
  BY OperationsImplemented, SwitchRefined, SwitchDecides, ArmedIsAnswered503,
     SwitchSettles, HealthImplemented, PTL
=============================================================================
