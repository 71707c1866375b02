-------------------------- MODULE InductionLemmas ---------------------------
(***************************************************************************)
(* Induction over naturals and finite sets, with the property as the set   *)
(* of what has it, and from it what the proofs about balances, pots and    *)
(* tables use of sums (SumFunctionOnSet of the module Functions).          *)
(***************************************************************************)
EXTENDS Integers, Functions, FiniteSetTheorems, WellFoundedInduction, TLAPS

Less == {ss \in Nat \X Nat : ss[1] < ss[2]}

(***************************************************************************)
(* A set of naturals that is not empty has a least element.                *)
(***************************************************************************)
LEMMA LeastNatural ==
  ASSUME NEW T, T \subseteq Nat, T # {}
  PROVE  \E n \in T : \A m \in T : n <= m
<1>1. OpToRel(<, Nat) = Less
  BY Zenon DEF OpToRel, Less
<1>2. IsWellFoundedOn(Less, Nat)
  BY <1>1, NatLessThanWellFounded, Zenon
<1>3. PICK n \in T : \A m \in T : <<m, n>> \notin Less
  BY Zenon, <1>2, WFMin
<1>4. ASSUME NEW m \in T
      PROVE  n <= m
  <2>1. m \in Nat /\ n \in Nat
    OBVIOUS
  <2>2. ~ (m < n)
    BY Zenon, <1>3, <2>1 DEF Less
  <2> QED
    BY <2>1, <2>2
<1> QED
  BY <1>4

(***************************************************************************)
(* A set of naturals with 0, and with the successor of each of its         *)
(* elements, has them all.                                                 *)
(***************************************************************************)
LEMMA NatInductive ==
  ASSUME NEW T, 0 \in T, \A n \in Nat : n \in T => n + 1 \in T
  PROVE  \A n \in Nat : n \in T
<1> DEFINE B == {n \in Nat : n \notin T}
<1> SUFFICES ASSUME B # {}
             PROVE  FALSE
  OBVIOUS
<1>1. B \subseteq Nat
  OBVIOUS
<1> HIDE DEF B
<1>2. PICK n \in B : \A m \in B : n <= m
  BY Zenon, <1>1, LeastNatural
<1> USE DEF B
<1>3. n \in Nat /\ n # 0
  OBVIOUS
<1>4. n - 1 \in Nat /\ n - 1 \notin B
  BY <1>2, <1>3
<1>5. (n - 1) + 1 \in T
  BY <1>4
<1> QED
  BY <1>3, <1>5

(***************************************************************************)
(* A set of subsets of a finite set that is not empty has a smallest one.  *)
(***************************************************************************)
LEMMA SmallestSet ==
  ASSUME NEW S, IsFiniteSet(S), NEW B, B \subseteq SUBSET S, B # {}
  PROVE  \E s \in B : \A t \in B : t \subseteq s => t = s
<1>1. IsWellFoundedOn(StrictSubsetOrdering(S), SUBSET S)
  BY Zenon, FS_StrictSubsetOrderingWellFounded, FS_FiniteSubsetsOfFinite
<1>2. PICK s \in B : \A t \in B : <<t, s>> \notin StrictSubsetOrdering(S)
  BY <1>1, WFMin
<1>3. ASSUME NEW t \in B, t \subseteq s
      PROVE  t = s
  <2>1. s \in SUBSET S /\ t \in SUBSET S
    OBVIOUS
  <2> QED
    BY Zenon, <1>2, <1>3, <2>1 DEF StrictSubsetOrdering
<1> QED
  BY <1>3

\* The element a fold takes next.
Pick(s) == CHOOSE x \in s : TRUE
Rest(s) == s \ {Pick(s)}

(***************************************************************************)
(* The element picked is one of the set's.                                 *)
(***************************************************************************)
LEMMA PickIn ==
  ASSUME NEW s, s # {}
  PROVE  Pick(s) \in s
BY DEF Pick

(***************************************************************************)
(* A set of subsets of a finite set with the empty one, and with each that *)
(* has its rest in it, has them all.                                       *)
(***************************************************************************)
LEMMA SubsetInductive ==
  ASSUME NEW S, IsFiniteSet(S), NEW T,
         {} \in T,
         \A s \in SUBSET S : s # {} /\ Rest(s) \in T => s \in T
  PROVE  \A s \in SUBSET S : s \in T
<1> DEFINE B == {s \in SUBSET S : s \notin T}
<1> SUFFICES ASSUME B # {}
             PROVE  FALSE
  OBVIOUS
<1>1. B \subseteq SUBSET S
  OBVIOUS
<1> HIDE DEF B
<1>2. PICK s \in B : \A t \in B : t \subseteq s => t = s
  BY <1>1, SmallestSet
<1> USE DEF B
<1>3. s # {}
  BY Zenon
<1>4. Pick(s) \in s
  BY <1>3, PickIn
<1>5. Rest(s) \in SUBSET S /\ Rest(s) \subseteq s /\ Rest(s) # s
  BY <1>4 DEF Rest
<1>6. Rest(s) \notin B
  BY <1>2, <1>5
<1> QED
  BY <1>3, <1>5, <1>6
-----------------------------------------------------------------------------
(***************************************************************************)
(* The function that SumFunctionOnSet chooses, made of the definitions it  *)
(* unfolds to: h gives for each set in D the sum of f over that set.       *)
(***************************************************************************)
IsSum(h, f, D) == h = [s \in D |-> IF s = {} THEN 0 ELSE f[Pick(s)] + h[Rest(s)]]
Partial(f, S) == CHOOSE h : IsSum(h, f, SUBSET S)

UpTo(S, n) == {s \in SUBSET S : Cardinality(s) <= n}

(***************************************************************************)
(* The sum over S is the last of the partial sums.                         *)
(***************************************************************************)
LEMMA SumIsPartial ==
  ASSUME NEW f, NEW S
  PROVE  SumFunctionOnSet(f, S) = Partial(f, S)[S]
BY DEF SumFunctionOnSet, FoldFunctionOnSet, MapThenFoldSet, Partial, IsSum, Pick, Rest

(***************************************************************************)
(* The partial sums exist: those over sets of n + 1 elements are defined   *)
(* from those over sets of n.                                              *)
(***************************************************************************)
LEMMA SumExists ==
  ASSUME NEW f, NEW S, IsFiniteSet(S)
  PROVE  IsSum(Partial(f, S), f, SUBSET S)
<1> DEFINE T == {n \in Nat : \E h : IsSum(h, f, UpTo(S, n))}
<1>1. \A s \in SUBSET S : IsFiniteSet(s) /\ Cardinality(s) \in Nat
  BY FS_Subset, FS_CardinalityType
<1>2. 0 \in T
  <2> DEFINE h == [s \in UpTo(S, 0) |-> 0]
  <2>1. \A s \in UpTo(S, 0) : s = {}
    BY <1>1, FS_EmptySet DEF UpTo
  <2>2. h = [s \in UpTo(S, 0) |-> IF s = {} THEN 0 ELSE f[Pick(s)] + h[Rest(s)]]
    BY <2>1
  <2> QED
    BY <2>2 DEF IsSum
<1>3. ASSUME NEW n \in Nat, n \in T
      PROVE  n + 1 \in T
  <2>1. PICK h : IsSum(h, f, UpTo(S, n))
    BY <1>3
  <2> DEFINE D == UpTo(S, n + 1)
             g == [s \in D |-> IF s = {} THEN 0 ELSE f[Pick(s)] + h[Rest(s)]]
  <2>2. ASSUME NEW s \in D, s # {}
        PROVE  Rest(s) \in UpTo(S, n)
    <3>1. Pick(s) \in s /\ s \in SUBSET S
      BY <2>2, PickIn DEF UpTo
    <3>2. Cardinality(Rest(s)) = Cardinality(s) - 1
      BY <1>1, <3>1, FS_RemoveElement DEF Rest
    <3>3. Cardinality(s) <= n + 1
      BY DEF UpTo
    <3>4. Rest(s) \in SUBSET S
      BY <3>1 DEF Rest
    <3> QED
      BY <1>1, <3>1, <3>2, <3>3, <3>4 DEF UpTo
  <2>3. ASSUME NEW s \in UpTo(S, n)
        PROVE  g[s] = h[s]
    <3>1. s \in D
      BY <1>1 DEF UpTo
    <3> QED
      BY <2>1, <3>1 DEF IsSum
  <2>4. g = [s \in D |-> IF s = {} THEN 0 ELSE f[Pick(s)] + g[Rest(s)]]
    BY Zenon, <2>2, <2>3
  <2>5. IsSum(g, f, D)
    BY Zenon, <2>4 DEF IsSum
  <2> QED
    BY <2>5
<1>4. Cardinality(S) \in Nat
  BY FS_CardinalityType
<1>5. Cardinality(S) \in T
  <2> HIDE DEF T
  <2> QED
    BY <1>2, <1>3, <1>4, NatInductive
<1>6. SUBSET S = UpTo(S, Cardinality(S))
  BY FS_Subset DEF UpTo
<1>7. \E h : IsSum(h, f, UpTo(S, Cardinality(S)))
  BY <1>5
<1>8. \E h : IsSum(h, f, SUBSET S)
  BY <1>6, <1>7, Zenon
<1> QED
  BY <1>8 DEF Partial

(***************************************************************************)
(* h sums f: nothing over the empty set, and over another set one of its   *)
(* elements and the rest.                                                  *)
(***************************************************************************)
Sums(h, f, S) ==
  /\ h[{}] = 0
  /\ \A s \in SUBSET S :
       s # {} => /\ Pick(s) \in s
                 /\ Rest(s) \in SUBSET S
                 /\ h[s] = f[Pick(s)] + h[Rest(s)]

(***************************************************************************)
(* The partial sums are taken apart.                                       *)
(***************************************************************************)
LEMMA PartialSums ==
  ASSUME NEW f, NEW S, IsFiniteSet(S)
  PROVE  Sums(Partial(f, S), f, S)
<1> DEFINE h == Partial(f, S)
<1>1. IsSum(h, f, SUBSET S)
  BY SumExists
<1>2. h = [s \in SUBSET S |-> IF s = {} THEN 0 ELSE f[Pick(s)] + h[Rest(s)]]
  BY <1>1, Zenon DEF IsSum
<1> HIDE DEF h
<1>3. h[{}] = 0
  BY <1>2
<1>4. ASSUME NEW s \in SUBSET S, s # {}
      PROVE  /\ Pick(s) \in s
             /\ Rest(s) \in SUBSET S
             /\ h[s] = f[Pick(s)] + h[Rest(s)]
  <2>1. h[s] = f[Pick(s)] + h[Rest(s)]
    BY <1>2, <1>4
  <2>2. Pick(s) \in s
    BY <1>4, PickIn
  <2> QED
    BY <2>1, <2>2 DEF Rest
<1> QED
  BY <1>3, <1>4 DEF h, Sums

(***************************************************************************)
(* Sums of integers are integers.                                          *)
(***************************************************************************)
LEMMA PartialType ==
  ASSUME NEW S, IsFiniteSet(S), NEW f, \A x \in S : f[x] \in Int
  PROVE  \A s \in SUBSET S : Partial(f, S)[s] \in Int
<1> DEFINE h == Partial(f, S)
           T == {s \in SUBSET S : h[s] \in Int}
<1>1. Sums(h, f, S)
  BY PartialSums
<1> HIDE DEF h
<1>2. {} \in T
  BY <1>1 DEF Sums
<1>3. ASSUME NEW s \in SUBSET S, s # {}, Rest(s) \in T
      PROVE  s \in T
  BY <1>1, <1>3 DEF Sums
<1>4. \A s \in SUBSET S : s \in T
  <2> HIDE DEF T
  <2> QED
    BY <1>2, <1>3, SubsetInductive
<1> QED
  BY <1>4 DEF h

(***************************************************************************)
(* When f and g differ at x alone, their sums differ by that over the sets *)
(* with x, and not over the others.                                        *)
(***************************************************************************)
LEMMA PartialChange ==
  ASSUME NEW S, IsFiniteSet(S), NEW f \in [S -> Int], NEW g \in [S -> Int], NEW x \in S,
         \A y \in S : y # x => g[y] = f[y]
  PROVE  \A s \in SUBSET S :
            Partial(g, S)[s] = Partial(f, S)[s] + (IF x \in s THEN g[x] - f[x] ELSE 0)
<1> DEFINE h == Partial(f, S)
           k == Partial(g, S)
           T == {s \in SUBSET S : k[s] = h[s] + (IF x \in s THEN g[x] - f[x] ELSE 0)}
<1>1. Sums(h, f, S)
  BY PartialSums
<1>2. Sums(k, g, S)
  BY PartialSums
<1>3. \A s \in SUBSET S : h[s] \in Int /\ k[s] \in Int
  BY PartialType
<1> HIDE DEF h, k
<1>4. {} \in T
  BY <1>1, <1>2 DEF Sums
<1>5. ASSUME NEW s \in SUBSET S, s # {}, Rest(s) \in T
      PROVE  s \in T
  <2>1. PICK y \in s : /\ Rest(s) = s \ {y}
                       /\ s \ {y} \in SUBSET S
                       /\ h[s] = f[y] + h[s \ {y}]
                       /\ k[s] = g[y] + k[s \ {y}]
    BY Zenon, <1>1, <1>2, <1>5 DEF Sums, Rest
  <2>2. k[s \ {y}] = h[s \ {y}] + (IF x \in s \ {y} THEN g[x] - f[x] ELSE 0)
    BY <1>5, <2>1
  <2>3. CASE x = y
    BY <1>3, <2>1, <2>2, <2>3
  <2>4. CASE x # y
    BY <1>3, <2>1, <2>2, <2>4
  <2> QED
    BY <2>3, <2>4
<1>6. \A s \in SUBSET S : s \in T
  <2> HIDE DEF T
  <2> QED
    BY <1>4, <1>5, SubsetInductive
<1> QED
  BY <1>6 DEF h, k

(***************************************************************************)
(* The sum of integers is an integer.                                      *)
(***************************************************************************)
LEMMA SumType ==
  ASSUME NEW S, IsFiniteSet(S), NEW f \in [S -> Int]
  PROVE  SumFunctionOnSet(f, S) \in Int
BY PartialType, SumIsPartial

(***************************************************************************)
(* A sum of zeros is 0.                                                    *)
(***************************************************************************)
LEMMA SumZero ==
  ASSUME NEW S, IsFiniteSet(S), NEW f, \A x \in S : f[x] = 0
  PROVE  SumFunctionOnSet(f, S) = 0
<1> DEFINE h == Partial(f, S)
           T == {s \in SUBSET S : h[s] = 0}
<1>1. Sums(h, f, S)
  BY PartialSums
<1> HIDE DEF h
<1>2. {} \in T
  BY <1>1 DEF Sums
<1>3. ASSUME NEW s \in SUBSET S, s # {}, Rest(s) \in T
      PROVE  s \in T
  BY <1>1, <1>3 DEF Sums
<1>4. \A s \in SUBSET S : s \in T
  <2> HIDE DEF T
  <2> QED
    BY <1>2, <1>3, SubsetInductive
<1>5. h[S] = 0
  BY <1>4
<1> QED
  BY <1>5, SumIsPartial DEF h

(***************************************************************************)
(* A sum moves by what one of its terms moves.                             *)
(***************************************************************************)
LEMMA SumChange ==
  ASSUME NEW S, IsFiniteSet(S), NEW f \in [S -> Int], NEW g \in [S -> Int], NEW x \in S,
         \A y \in S : y # x => g[y] = f[y]
  PROVE  SumFunctionOnSet(g, S) = SumFunctionOnSet(f, S) + g[x] - f[x]
<1>1. Partial(g, S)[S] = Partial(f, S)[S] + (IF x \in S THEN g[x] - f[x] ELSE 0)
  BY PartialChange
<1>2. Partial(f, S)[S] \in Int
  BY PartialType
<1>3. Partial(g, S)[S] = Partial(f, S)[S] + g[x] - f[x]
  BY <1>1, <1>2
<1> QED
  BY <1>3, SumIsPartial
=============================================================================
