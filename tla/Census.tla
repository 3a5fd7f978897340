------------------------------- MODULE Census -------------------------------
(***************************************************************************)
(* Counting the threads or requests that are at given places: what one     *)
(* step of one of them does to the count.                                  *)
(***************************************************************************)
EXTENDS Integers, FiniteSets, FiniteSetTheorems, TLAPS

\* The members of S that f puts in one of the places P.
At(f, S, P) == {y \in S : f[y] \in P}

One(b) == IF b THEN 1 ELSE 0

(* A count is a natural number, bounded by the number there is to count.   *)
LEMMA CensusType ==
  ASSUME NEW S, IsFiniteSet(S), NEW f, NEW P
  PROVE  /\ IsFiniteSet(At(f, S, P))
         /\ Cardinality(At(f, S, P)) \in Nat
         /\ Cardinality(At(f, S, P)) <= Cardinality(S)
<1>1. At(f, S, P) \in SUBSET S
  BY DEF At
<1> QED
  BY <1>1, FS_Subset, FS_CardinalityType

(* Nobody is there at the start.                                           *)
LEMMA CensusEmpty ==
  ASSUME NEW S, NEW f, NEW P, \A y \in S : f[y] \notin P
  PROVE  Cardinality(At(f, S, P)) = 0
<1>1. At(f, S, P) = {}
  BY DEF At
<1> QED
  BY <1>1, FS_EmptySet

(* More places, no smaller a count.                                        *)
LEMMA CensusMonotonic ==
  ASSUME NEW S, IsFiniteSet(S), NEW f, NEW P, NEW Q, P \subseteq Q
  PROVE  Cardinality(At(f, S, P)) <= Cardinality(At(f, S, Q))
<1>1. At(f, S, P) \in SUBSET At(f, S, Q)
  BY DEF At
<1> QED
  BY <1>1, CensusType, FS_Subset

(* Two sets that differ at most in x.                                      *)
LEMMA SetStep ==
  ASSUME NEW A, NEW B, NEW x, IsFiniteSet(A), A \ {x} = B \ {x}
  PROVE  Cardinality(B) = Cardinality(A) + One(x \in B) - One(x \in A)
<1>1. Cardinality(A) \in Nat
  BY FS_CardinalityType
<1>2. CASE x \in A <=> x \in B
  <2>1. A = B
    BY <1>2
  <2> QED
    BY <1>1, <2>1 DEF One
<1>3. CASE x \notin A /\ x \in B
  <2>1. B = A \cup {x}
    BY <1>3
  <2>2. Cardinality(B) = Cardinality(A) + 1
    BY <1>3, <2>1, FS_AddElement
  <2> QED
    BY <1>1, <1>3, <2>2 DEF One
<1>4. CASE x \in A /\ x \notin B
  <2>1. B = A \ {x}
    BY <1>4
  <2>2. Cardinality(B) = Cardinality(A) - 1
    BY <1>4, <2>1, FS_RemoveElement
  <2> QED
    BY <1>1, <1>4, <2>2 DEF One
<1> QED
  BY <1>2, <1>3, <1>4

(* One member moves: the count changes by where it leaves and arrives.     *)
LEMMA CensusStep ==
  ASSUME NEW S, IsFiniteSet(S), NEW f, NEW g, NEW P, NEW x \in S,
         \A y \in S : y # x => g[y] = f[y]
  PROVE  Cardinality(At(g, S, P)) =
           Cardinality(At(f, S, P)) + One(g[x] \in P) - One(f[x] \in P)
<1>1. /\ At(f, S, P) \ {x} = At(g, S, P) \ {x}
      /\ x \in At(f, S, P) <=> f[x] \in P
      /\ x \in At(g, S, P) <=> g[x] \in P
  BY DEF At
<1>2. /\ One(x \in At(f, S, P)) = One(f[x] \in P)
      /\ One(x \in At(g, S, P)) = One(g[x] \in P)
  BY <1>1 DEF One
<1> QED
  BY <1>1, <1>2, CensusType, SetStep

\* The members of S that satisfy the flag b, a function to the Booleans.
Flagged(b, S) == {y \in S : b[y]}

LEMMA FlagType ==
  ASSUME NEW S, IsFiniteSet(S), NEW b
  PROVE  /\ Cardinality(Flagged(b, S)) \in Nat
         /\ Cardinality(Flagged(b, S)) <= Cardinality(S)
<1>1. Flagged(b, S) \in SUBSET S
  BY DEF Flagged
<1> QED
  BY <1>1, FS_Subset, FS_CardinalityType

(* The flag of one member changes.                                         *)
LEMMA FlagStep ==
  ASSUME NEW S, IsFiniteSet(S), NEW b, NEW c, NEW x \in S,
         \A y \in S : y # x => (c[y] <=> b[y])
  PROVE  Cardinality(Flagged(c, S)) =
           Cardinality(Flagged(b, S)) + One(c[x]) - One(b[x])
<1>1. /\ Flagged(b, S) \ {x} = Flagged(c, S) \ {x}
      /\ x \in Flagged(b, S) <=> b[x]
      /\ x \in Flagged(c, S) <=> c[x]
      /\ Flagged(b, S) \in SUBSET S
  BY DEF Flagged
<1>2. /\ One(x \in Flagged(b, S)) = One(b[x])
      /\ One(x \in Flagged(c, S)) = One(c[x])
  BY <1>1 DEF One
<1>3. Cardinality(Flagged(c, S)) = Cardinality(Flagged(b, S))
        + One(x \in Flagged(c, S)) - One(x \in Flagged(b, S))
  BY <1>1, FS_Subset, SetStep
<1> QED
  BY <1>2, <1>3, Zenon
=============================================================================
