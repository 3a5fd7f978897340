------------------------- MODULE StressSlots_proofs -------------------------
(***************************************************************************)
(* Proofs about StressSlots for any number of requests, slots and threads. *)
(***************************************************************************)
EXTENDS StressSlots, Census

InThread == {"burning", "returned", "raised"}

ThreadsBounded == Cardinality(Threads) + others <= Tokens

StressIInv ==
  /\ StressTypeOK
  /\ SlotsAccounted
  /\ ThreadsBounded
  /\ RunsConserved

(* The sets of the specification are counts by place.                      *)
LEMMA SetsAreCensus ==
  /\ Held = At(pc, Requests, Holding)
  /\ Burning = At(pc, Requests, {"burning"})
  /\ Threads = At(pc, Requests, InThread)
BY DEF Held, Burning, Threads, At, InThread

LEMMA CountsAreNat ==
  /\ Cardinality(Held) \in Nat
  /\ Cardinality(Burning) \in Nat
  /\ Cardinality(Threads) \in Nat
  /\ Cardinality(Burning) <= Cardinality(Held)
<1>1. {"burning"} \subseteq Holding
  BY DEF Holding
<1> QED
  BY <1>1, SetsAreCensus, CensusType, CensusMonotonic, StressAssumption

LEMMA CountsAreNatNext ==
  Cardinality(Held)' \in Nat /\ Cardinality(Threads)' \in Nat
<1>1. Held' = At(pc', Requests, Holding) /\ Threads' = At(pc', Requests, InThread)
  BY DEF Held, Threads, At, InThread
<1> QED
  BY <1>1, CensusType, StressAssumption

LEMMA StressInitInv == StressInit => StressIInv
<1>1. SUFFICES ASSUME StressInit PROVE StressIInv
  OBVIOUS
<1>2. \A r \in Requests : pc[r] \notin Holding /\ pc[r] \notin InThread
  BY <1>1 DEF StressInit, Holding, InThread
<1>3. Cardinality(Held) = 0 /\ Cardinality(Threads) = 0
  BY <1>2, CensusEmpty, SetsAreCensus
<1> QED
  BY <1>1, <1>3, StressAssumption
     DEF StressInit, StressIInv, StressTypeOK, StressPcs, SlotsAccounted,
         ThreadsBounded, RunsConserved

(* CensusStep for the places of the requests.                              *)
LEMMA RequestMoves ==
  ASSUME NEW P, NEW r \in Requests,
         \A s \in Requests : s # r => pc'[s] = pc[s]
  PROVE  Cardinality(At(pc', Requests, P)) =
           Cardinality(At(pc, Requests, P)) + One(pc'[r] \in P) - One(pc[r] \in P)
<1>1. IsFiniteSet(Requests)
  BY StressAssumption
<1> QED
  BY <1>1, CensusStep

(* What the move of one request from `here` to `there` does to the counts. *)
LEMMA MoveCounts ==
  ASSUME StressTypeOK, NEW r \in Requests, NEW here, NEW there \in StressPcs,
         pc[r] = here, pc' = [pc EXCEPT ![r] = there]
  PROVE  /\ pc' \in [Requests -> StressPcs]
         /\ Cardinality(Held') =
              Cardinality(Held) + One(there \in Holding) - One(here \in Holding)
         /\ Cardinality(Threads') = Cardinality(Threads)
              + One(there \in InThread) - One(here \in InThread)
<1>1. /\ pc' \in [Requests -> StressPcs]
      /\ pc'[r] = there
      /\ \A s \in Requests : s # r => pc'[s] = pc[s]
  BY DEF StressTypeOK
<1>2. Held' = At(pc', Requests, Holding) /\ Threads' = At(pc', Requests, InThread)
  BY DEF Held, Threads, At, InThread
<1>3. /\ Cardinality(At(pc', Requests, Holding)) =
           Cardinality(At(pc, Requests, Holding))
             + One(pc'[r] \in Holding) - One(pc[r] \in Holding)
      /\ Cardinality(At(pc', Requests, InThread)) =
           Cardinality(At(pc, Requests, InThread))
             + One(pc'[r] \in InThread) - One(pc[r] \in InThread)
  BY <1>1, RequestMoves
<1> QED
  BY <1>1, <1>2, <1>3, SetsAreCensus

(* A request that stays on its side of a count leaves the count alone; one *)
(* that crosses changes it by one.                                         *)
LEMMA MoveSame ==
  ASSUME StressTypeOK, NEW r \in Requests, NEW here, NEW there \in StressPcs,
         pc[r] = here, pc' = [pc EXCEPT ![r] = there]
  PROVE  /\ pc' \in [Requests -> StressPcs]
         /\ (there \in Holding <=> here \in Holding) =>
              Cardinality(Held') = Cardinality(Held)
         /\ there \in Holding /\ here \notin Holding =>
              Cardinality(Held') = Cardinality(Held) + 1
         /\ there \notin Holding /\ here \in Holding =>
              Cardinality(Held') = Cardinality(Held) - 1
         /\ (there \in InThread <=> here \in InThread) =>
              Cardinality(Threads') = Cardinality(Threads)
         /\ there \in InThread /\ here \notin InThread =>
              Cardinality(Threads') = Cardinality(Threads) + 1
         /\ there \notin InThread /\ here \in InThread =>
              Cardinality(Threads') = Cardinality(Threads) - 1
<1> DEFINE h == Cardinality(Held)
           k == Cardinality(Threads)
<1>1. h \in Nat /\ k \in Nat
  BY CountsAreNat
<1>2. /\ pc' \in [Requests -> StressPcs]
      /\ Cardinality(Held') = h + One(there \in Holding) - One(here \in Holding)
      /\ Cardinality(Threads') =
           k + One(there \in InThread) - One(here \in InThread)
  BY MoveCounts
<1> HIDE DEF h, k
<1>3. /\ (there \in Holding <=> here \in Holding) => Cardinality(Held') = h
      /\ there \in Holding /\ here \notin Holding => Cardinality(Held') = h + 1
      /\ there \notin Holding /\ here \in Holding => Cardinality(Held') = h - 1
  BY <1>1, <1>2 DEF One
<1>4. /\ (there \in InThread <=> here \in InThread) => Cardinality(Threads') = k
      /\ there \in InThread /\ here \notin InThread =>
           Cardinality(Threads') = k + 1
      /\ there \notin InThread /\ here \in InThread =>
           Cardinality(Threads') = k - 1
  BY <1>1, <1>2 DEF One
<1> QED
  BY <1>2, <1>3, <1>4 DEF h, k

(* The invariant in terms of the two counts alone.                         *)
Accounts(h, k) ==
  /\ h \in Nat /\ k \in Nat
  /\ free \in 0 .. Slots /\ active \in Nat /\ others \in 0 .. Tokens
  /\ runs \in Nat /\ failed \in Nat /\ admitted \in Nat
  /\ free + h = Slots
  /\ active = h
  /\ k + others <= Tokens
  /\ runs + failed + h = admitted

LEMMA InvariantIsAccounts ==
  StressIInv <=> /\ pc \in [Requests -> StressPcs]
                 /\ Accounts(Cardinality(Held), Cardinality(Threads))
BY CountsAreNat
   DEF StressIInv, StressTypeOK, SlotsAccounted, ThreadsBounded, RunsConserved,
       Accounts

LEMMA InvariantIsAccountsNext ==
  StressIInv' <=> /\ pc' \in [Requests -> StressPcs]
                  /\ Accounts(Cardinality(Held), Cardinality(Threads))'
BY CountsAreNatNext
   DEF StressIInv, StressTypeOK, SlotsAccounted, ThreadsBounded, RunsConserved,
       Accounts

LEMMA StressNextInv == StressIInv /\ [StressNext]_stressVars => StressIInv'
<1> DEFINE h == Cardinality(Held)
           k == Cardinality(Threads)
<1>1. SUFFICES ASSUME StressIInv, [StressNext]_stressVars
               PROVE  pc' \in [Requests -> StressPcs] /\ Accounts(h, k)'
  BY InvariantIsAccountsNext
<1>2. StressTypeOK /\ Accounts(h, k)
  BY <1>1, InvariantIsAccounts DEF StressIInv
<1>3. ASSUME NEW r \in Requests, Refuse(r) \/ Reject(r)
      PROVE  pc' \in [Requests -> StressPcs] /\ Accounts(h, k)'
  <2>1. PICK there \in {"invalid", "busy"} : pc' = [pc EXCEPT ![r] = there]
    BY <1>3 DEF Refuse, Reject
  <2>2. pc[r] \in {"idle", "ok", "busy", "invalid", "error"}
    BY <1>3 DEF Refuse, Reject, Asking, Answered
  <2>3. /\ there \in StressPcs /\ there \notin Holding /\ there \notin InThread
        /\ pc[r] \notin Holding /\ pc[r] \notin InThread
    BY <2>1, <2>2 DEF StressPcs, Holding, InThread
  <2>4. pc' \in [Requests -> StressPcs] /\ h' = h /\ k' = k
    BY <1>2, <2>1, <2>3, MoveSame
  <2> QED
    BY <1>2, <1>3, <2>4 DEF Accounts, Refuse, Reject
<1>4. ASSUME NEW r \in Requests, Admit(r)
      PROVE  pc' \in [Requests -> StressPcs] /\ Accounts(h, k)'
  <2>1. pc[r] \notin Holding /\ pc[r] \notin InThread
    BY <1>4 DEF Admit, Asking, Answered, Holding, InThread
  <2>2. "waiting" \in StressPcs /\ "waiting" \in Holding /\ "waiting" \notin InThread
    BY DEF StressPcs, Holding, InThread
  <2>3. pc' = [pc EXCEPT ![r] = "waiting"]
    BY <1>4 DEF Admit
  <2>4. pc' \in [Requests -> StressPcs] /\ h' = h + 1 /\ k' = k
    BY <1>2, <2>1, <2>2, <2>3, MoveSame
  <2> QED
    BY <1>2, <1>4, <2>4, StressAssumption DEF Accounts, Admit
<1>5. ASSUME NEW r \in Requests, StartWork(r)
      PROVE  pc' \in [Requests -> StressPcs] /\ Accounts(h, k)'
  <2>1. "waiting" \in Holding /\ "waiting" \notin InThread
    BY DEF Holding, InThread
  <2>2. "burning" \in StressPcs /\ "burning" \in Holding /\ "burning" \in InThread
    BY DEF StressPcs, Holding, InThread
  <2>3. pc[r] = "waiting" /\ pc' = [pc EXCEPT ![r] = "burning"] /\ k + others < Tokens
    BY <1>5 DEF StartWork
  <2>4. pc' \in [Requests -> StressPcs] /\ h' = h /\ k' = k + 1
    BY <1>2, <2>1, <2>2, <2>3, MoveSame
  <2> QED
    BY <1>2, <1>5, <2>3, <2>4, StressAssumption DEF Accounts, StartWork
<1>6. ASSUME NEW r \in Requests, EndWork(r)
      PROVE  pc' \in [Requests -> StressPcs] /\ Accounts(h, k)'
  <2>1. PICK there \in {"returned", "raised"} : pc' = [pc EXCEPT ![r] = there]
    BY <1>6 DEF EndWork
  <2>2. pc[r] = "burning"
    BY <1>6 DEF EndWork
  <2>3. /\ there \in StressPcs /\ there \in Holding /\ there \in InThread
        /\ pc[r] \in Holding /\ pc[r] \in InThread
    BY <2>1, <2>2 DEF StressPcs, Holding, InThread
  <2>4. pc' \in [Requests -> StressPcs] /\ h' = h /\ k' = k
    BY <1>2, <2>1, <2>3, MoveSame
  <2> QED
    BY <1>2, <1>6, <2>4 DEF Accounts, EndWork
<1>7. ASSUME NEW r \in Requests, Complete(r) \/ Fail(r)
      PROVE  pc' \in [Requests -> StressPcs] /\ Accounts(h, k)'
  <2>1. PICK there \in {"ok", "error"} : pc' = [pc EXCEPT ![r] = there]
    BY <1>7 DEF Complete, Fail
  <2>2. pc[r] \in {"returned", "raised"}
    BY <1>7 DEF Complete, Fail
  <2>3. /\ there \in StressPcs /\ there \notin Holding /\ there \notin InThread
        /\ pc[r] \in Holding /\ pc[r] \in InThread
    BY <2>1, <2>2 DEF StressPcs, Holding, InThread
  <2>4. pc' \in [Requests -> StressPcs] /\ h' = h - 1 /\ k' = k - 1
    BY <1>2, <2>1, <2>3, MoveSame
  <2>5. h' \in Nat /\ k' \in Nat
    BY CountsAreNatNext
  <2> QED
    BY <1>2, <1>7, <2>4, <2>5, StressAssumption DEF Accounts, Complete, Fail
<1>8. CASE OtherTakes \/ OtherReturns \/ UNCHANGED stressVars
  <2>1. UNCHANGED <<pc, free, active, runs, failed, admitted>>
    BY <1>8 DEF OtherTakes, OtherReturns, stressVars
  <2>2. h' = h /\ k' = k
    BY <2>1 DEF Held, Threads
  <2>3. OtherTakes => k + others < Tokens
    BY DEF OtherTakes
  <2>4. pc' \in [Requests -> StressPcs]
    BY <1>2, <2>1 DEF StressTypeOK
  <2> QED
    BY <1>2, <1>8, <2>1, <2>2, <2>3, <2>4, StressAssumption
       DEF Accounts, OtherTakes, OtherReturns, stressVars
<1> QED
  BY <1>1, <1>3, <1>4, <1>5, <1>6, <1>7, <1>8 DEF StressNext

LEMMA StressInvariant == StressSpec => []StressIInv
BY StressInitInv, StressNextInv, PTL DEF StressSpec

(***************************************************************************)
(* Type correctness, for any number of clients: the semaphore stays        *)
(* between zero and its slots, so the BoundedSemaphore never raises.       *)
(***************************************************************************)
THEOREM StressTypeCorrect == StressSpec => []StressTypeOK
<1>1. StressIInv => StressTypeOK
  BY DEF StressIInv
<1> QED
  BY <1>1, StressInvariant, PTL

(***************************************************************************)
(* Slots never leak and are never released twice: for any number of        *)
(* clients, slots and threads the semaphore and the gauge account for the  *)
(* runs in flight, so the BoundedSemaphore never raises.                   *)
(***************************************************************************)
THEOREM SlotsNeverLeak == StressSpec => []SlotsAccounted
<1>1. StressIInv => SlotsAccounted
  BY DEF StressIInv
<1> QED
  BY <1>1, StressInvariant, PTL

(***************************************************************************)
(* The stress that runs at one time is bounded by the slots, whatever the  *)
(* size of the pool and the load of the other endpoints.                   *)
(***************************************************************************)
THEOREM StressIsBounded == StressSpec => []WorkBounded
<1>1. StressIInv => WorkBounded
  BY CountsAreNat, StressAssumption
     DEF StressIInv, StressTypeOK, SlotsAccounted, ThreadsBounded, WorkBounded
<1> QED
  BY <1>1, StressInvariant, PTL

(***************************************************************************)
(* Every admitted run ends in exactly one of the two counters.             *)
(***************************************************************************)
THEOREM RunsAreConserved == StressSpec => []RunsConserved
<1>1. StressIInv => RunsConserved
  BY DEF StressIInv
<1> QED
  BY <1>1, StressInvariant, PTL

(***************************************************************************)
(* The slots are a lease: each step admits or releases one request at most *)
(* and moves the semaphore with it.                                        *)
(***************************************************************************)
THEOREM SlotsImplementLease == StressSpec => SlotsAreLeased
<1>1. StressInit => Slot!LeaseInit
  BY DEF StressInit, Slot!LeaseInit, Held, Holding
<1>2. ASSUME StressIInv, StressIInv', [StressNext]_stressVars
      PROVE  [Slot!LeaseNext]_<<Held, free>>
  <2>1. /\ pc \in [Requests -> StressPcs]
        /\ free \in 0 .. Slots /\ free' \in 0 .. Slots /\ Slots \in Nat
    BY <1>2, StressAssumption DEF StressIInv, StressTypeOK
  <2>2. ASSUME NEW r \in Requests, Admit(r)
        PROVE  Slot!Take(r)
    <3>1. r \notin Held
      BY <2>2 DEF Admit, Asking, Answered, Held, Holding
    <3>2. Held' = Held \cup {r}
      BY <2>1, <2>2 DEF Admit, Held, Holding
    <3> QED
      BY <2>2, <3>1, <3>2 DEF Admit, Slot!Take
  <2>3. ASSUME NEW r \in Requests, Complete(r) \/ Fail(r)
        PROVE  Slot!GiveBack(r)
    <3>1. r \in Held /\ free' = free + 1
      BY <2>3 DEF Complete, Fail, Held, Holding
    <3>2. Held' = Held \ {r}
      BY <2>1, <2>3 DEF Complete, Fail, Held, Holding
    <3> QED
      BY <2>1, <3>1, <3>2 DEF Slot!GiveBack
  <2>4. ASSUME NEW r \in Requests,
               Refuse(r) \/ Reject(r) \/ StartWork(r) \/ EndWork(r)
        PROVE  UNCHANGED <<Held, free>>
    <3>1. \A q \in Requests : pc'[q] \in Holding <=> pc[q] \in Holding
      BY <2>1, <2>4 DEF Refuse, Reject, StartWork, EndWork, Asking, Answered,
                        Holding
    <3> QED
      BY <2>4, <3>1 DEF Refuse, Reject, StartWork, EndWork, Held
  <2>5. CASE OtherTakes \/ OtherReturns \/ UNCHANGED stressVars
    BY <2>5 DEF OtherTakes, OtherReturns, stressVars, Held
  <2> QED
    BY <1>2, <2>2, <2>3, <2>4, <2>5 DEF StressNext, Slot!LeaseNext
<1> QED
  BY <1>1, <1>2, StressInvariant, PTL
     DEF StressSpec, SlotsAreLeased, Slot!LeaseSpec, Slot!leaseVars
=============================================================================
