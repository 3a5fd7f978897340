----------------------- MODULE ConnectionBudget_proofs -----------------------
(***************************************************************************)
(* Proofs about ConnectionBudget for every concurrency, pool and server.   *)
(***************************************************************************)
EXTENDS ConnectionBudget, TLAPS

BudgetIInv == BudgetTypeOK /\ BackendsAccounted

LEMMA BudgetInitInv == BudgetInit => BudgetIInv
BY BudgetAssumption
   DEF BudgetInit, BudgetIInv, BudgetTypeOK, BackendsAccounted, Running, Capacity

LEMMA BudgetNextInv == BudgetIInv /\ [BudgetNext]_budgetVars => BudgetIInv'
<1>1. SUFFICES ASSUME BudgetIInv, [BudgetNext]_budgetVars PROVE BudgetIInv'
  OBVIOUS
<1> USE BudgetAssumption
        DEF BudgetIInv, BudgetTypeOK, BackendsAccounted, Running, Capacity,
            drill, app
<1>2. CASE Invoke
  BY <1>1, <1>2 DEF Invoke
<1>3. CASE Connect
  BY <1>1, <1>3 DEF Connect, Full
<1>4. CASE ConnectFails
  BY <1>1, <1>4 DEF ConnectFails
<1>5. CASE QuerySucceeds
  BY <1>1, <1>5 DEF QuerySucceeds
<1>6. CASE QueryFails
  BY <1>1, <1>6 DEF QueryFails
<1>7. CASE Release
  BY <1>1, <1>7 DEF Release
<1>8. CASE Kill
  BY <1>1, <1>8 DEF Kill
<1>9. CASE Reap
  BY <1>1, <1>9 DEF Reap
<1>10. CASE EndDrill
  BY <1>1, <1>10 DEF EndDrill
<1>11. CASE AppTakesIdle
  BY <1>1, <1>11 DEF AppTakesIdle
<1>12. CASE AppConnects
  BY <1>1, <1>12 DEF AppConnects, Full
<1>13. CASE AppReturns
  BY <1>1, <1>13 DEF AppReturns
<1>14. CASE UNCHANGED budgetVars
  BY <1>1, <1>14 DEF budgetVars
<1> QED
  BY <1>1, <1>2, <1>3, <1>4, <1>5, <1>6, <1>7, <1>8, <1>9, <1>10, <1>11,
     <1>12, <1>13, <1>14 DEF BudgetNext, InvocationStep

LEMMA BudgetInvariant == BudgetSpec => []BudgetIInv
BY BudgetInitInv, BudgetNextInv, PTL DEF BudgetSpec

(***************************************************************************)
(* Concurrency, pool and server limits hold, and no connection is without  *)
(* an owner, whatever the sizes.                                           *)
(***************************************************************************)
THEOREM BudgetTyped == BudgetSpec => []BudgetTypeOK
<1>1. BudgetIInv => BudgetTypeOK
  BY DEF BudgetIInv
<1> QED
  BY <1>1, BudgetInvariant, PTL

THEOREM ConnectionsHaveOwners == BudgetSpec => []BackendsAccounted
<1>1. BudgetIInv => BackendsAccounted
  BY DEF BudgetIInv
<1> QED
  BY <1>1, BudgetInvariant, PTL

(***************************************************************************)
(* Within the budget whoever still may ask for a connection gets one, for  *)
(* every concurrency, pool and server.                                     *)
(***************************************************************************)
THEOREM BudgetSuffices == BudgetSpec => []WithinBudget
<1>1. BudgetIInv => WithinBudget
  BY BudgetAssumption
     DEF BudgetIInv, BudgetTypeOK, BackendsAccounted, WithinBudget, MayAsk,
         Full, Running, Capacity
<1> QED
  BY <1>1, BudgetInvariant, PTL

(***************************************************************************)
(* A full server is the work of killed invocations: as long as the         *)
(* function's concurrency and the pool's capacity alone do not reach       *)
(* max_connections, it is full only while at least the difference is held  *)
(* by connections nobody closed (with the deployed numbers, 50 + 10        *)
(* against 87: 27 of them), however many such connections there may be.    *)
(***************************************************************************)
THEOREM FullOnlyWithOrphans ==
  BudgetSpec => [](Full => Concurrency + Capacity + orphans >= MaxConnections)
<1>1. BudgetIInv =>
        (Full => Concurrency + Capacity + orphans >= MaxConnections)
  BY BudgetAssumption
     DEF BudgetIInv, BudgetTypeOK, BackendsAccounted, Full, Running, Capacity
<1> QED
  BY <1>1, BudgetInvariant, PTL
=============================================================================
