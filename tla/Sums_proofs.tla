----------------------------- MODULE Sums_proofs -----------------------------
(***************************************************************************)
(* Lemmas about the sum of a function over a finite set, SumFunctionOnSet, *)
(* which the balances of the two escrow contracts are stated with: it is   *)
(* defined by choice and recursion over sets, and proved by descent to a   *)
(* smallest set that would not have the property.                          *)
(***************************************************************************)
EXTENDS Naturals, Functions, FiniteSetTheorems, TLAPS

\* A family of subsets of a finite set has a smallest member, which is what
\* the inductions over sets below descend to.
LEMMA Smallest ==
  ASSUME NEW S, IsFiniteSet(S), NEW B, B \subseteq SUBSET S, B # {}
  PROVE  \E T \in B : \A U \in B : U \subseteq T => U = T
<1> DEFINE R == StrictSubsetOrdering(S)
<1>1. FiniteSubsetsOf(S) = SUBSET S
  BY FS_FiniteSubsetsOfFinite
<1>2. IsWellFoundedOn(R, SUBSET S)
  BY <1>1, FS_StrictSubsetOrderingWellFounded
<1>3. \A T, U \in B : U \subseteq T /\ U # T => <<U, T>> \in R
  BY DEF StrictSubsetOrdering
<1> HIDE DEF R
<1>4. PICK T \in B : \A U \in B : <<U, T>> \notin R
  BY <1>2, WFMin
<1> QED
  BY <1>3, <1>4

-----------------------------------------------------------------------------
\* The element the fold takes next, and one step of the fold.
First(s) == CHOOSE x \in s : TRUE
Rest(s) == s \ {First(s)}

Folds(f, h, s) == IF s = {} THEN 0 ELSE f[First(s)] + h[Rest(s)]

IsFold(f, S, h) == h = [s \in SUBSET S |-> Folds(f, h, s)]

TheFold(f, S) == CHOOSE h : IsFold(f, S, h)

\* The sum of the community modules is the fold defined above.
LEMMA SumIsFold ==
  \A f, S : SumFunctionOnSet(f, S) = TheFold(f, S)[S]
  BY Zenon DEF SumFunctionOnSet, FoldFunctionOnSet, MapThenFoldSet, TheFold,
               IsFold, Folds, First, Rest

\* The fold takes an element out at each step.
LEMMA FirstRest ==
  \A s : s # {} => First(s) \in s /\ Rest(s) \subseteq s /\ Rest(s) # s
  BY DEF First, Rest

\* A fold's value on each subset of its set.
LEMMA FoldValue ==
  ASSUME NEW f, NEW S, NEW h, IsFold(f, S, h), NEW s \in SUBSET S
  PROVE  h[s] = Folds(f, h, s)
  BY DEF IsFold

\* Folds agree where both are defined.
LEMMA FoldsAgree ==
  ASSUME NEW f, NEW S, IsFiniteSet(S), NEW g, NEW h, NEW T \in SUBSET S,
         IsFold(f, S, g), IsFold(f, T, h)
  PROVE  \A s \in SUBSET T : g[s] = h[s]
<1> DEFINE B == {s \in SUBSET T : g[s] # h[s]}
<1>1. SUFFICES ASSUME B # {} PROVE FALSE
  OBVIOUS
<1>2. PICK s \in B : \A u \in B : u \subseteq s => u = s
  <2>1. IsFiniteSet(T)
    BY FS_Subset
  <2>2. B \subseteq SUBSET T
    OBVIOUS
  <2> HIDE DEF B
  <2> QED BY <1>1, <2>1, <2>2, Smallest
<1>3. g[s] = Folds(f, g, s) /\ h[s] = Folds(f, h, s)
  BY FoldValue
<1>4. s # {}
  BY <1>3 DEF Folds
<1>5. Rest(s) \subseteq s /\ Rest(s) # s
  BY <1>4, FirstRest
<1>6. g[Rest(s)] = h[Rest(s)]
  BY <1>2, <1>5
<1> QED
  BY <1>3, <1>6 DEF Folds

\* Every finite set has its fold.
LEMMA FoldExists ==
  ASSUME NEW f, NEW S, IsFiniteSet(S)
  PROVE  IsFold(f, S, TheFold(f, S))
<1> DEFINE Has(T) == \E h : IsFold(f, T, h)
           B == {T \in SUBSET S : ~Has(T)}
<1>1. SUFFICES ASSUME B # {} PROVE FALSE
  <2> SUFFICES Has(S)
    BY DEF TheFold
  <2> QED
    OBVIOUS
<1>2. PICK T \in B : \A U \in B : U \subseteq T => U = T
  <2>1. B \subseteq SUBSET S
    OBVIOUS
  <2> HIDE DEF B
  <2> QED BY <1>1, <2>1, Smallest
<1>3. ASSUME NEW U \in SUBSET T, U # T
      PROVE  IsFold(f, U, TheFold(f, U)) /\ IsFiniteSet(U)
  <2>1. Has(U)
    BY <1>2, <1>3
  <2>2. IsFiniteSet(U)
    BY FS_Subset
  <2> QED BY <2>1, <2>2 DEF TheFold
<1> DEFINE h == [s \in SUBSET T |->
                   IF s = {} THEN 0
                   ELSE f[First(s)] + TheFold(f, Rest(s))[Rest(s)]]
<1>4. ASSUME NEW s \in SUBSET T PROVE h[s] = Folds(f, h, s)
  <2>1. CASE s = {}
    BY <2>1 DEF Folds
  <2>2. CASE s # {}
    <3> DEFINE u == Rest(s)
    <3>1. u \in SUBSET T /\ u # T
      BY <2>2, FirstRest
    <3>2. h[u] = TheFold(f, u)[u]
      <4>1. TheFold(f, u)[u] = Folds(f, TheFold(f, u), u)
        BY <1>3, <3>1, FoldValue
      <4>2. CASE u = {}
        BY <3>1, <4>1, <4>2 DEF Folds
      <4>3. CASE u # {}
        <5> DEFINE v == Rest(u)
        <5>1. v \in SUBSET u /\ v # T
          BY <3>1, <4>3, FirstRest
        <5>2. TheFold(f, u)[v] = TheFold(f, v)[v]
          <6>1. IsFold(f, u, TheFold(f, u)) /\ IsFiniteSet(u)
            BY <1>3, <3>1
          <6>2. IsFold(f, v, TheFold(f, v))
            BY <1>3, <3>1, <5>1
          <6> HIDE DEF u, v
          <6> QED BY <5>1, <6>1, <6>2, FoldsAgree
        <5> QED BY <3>1, <4>1, <4>3, <5>2 DEF Folds
      <4> QED BY <4>2, <4>3
    <3> QED BY <2>2, <3>2 DEF Folds
  <2> QED BY <2>1, <2>2
<1>5. IsFold(f, T, h)
  <2>1. h = [s \in SUBSET T |-> h[s]]
    OBVIOUS
  <2> HIDE DEF h
  <2>2. [s \in SUBSET T |-> h[s]] = [s \in SUBSET T |-> Folds(f, h, s)]
    BY <1>4
  <2> QED BY <2>1, <2>2 DEF IsFold
<1> QED
  BY <1>2, <1>5

\* The recursion equation of a sum.
LEMMA SumStep ==
  ASSUME NEW f, NEW S, IsFiniteSet(S)
  PROVE  SumFunctionOnSet(f, S) =
           IF S = {} THEN 0
           ELSE f[First(S)] + SumFunctionOnSet(f, Rest(S))
<1> DEFINE h == TheFold(f, S)
<1>1. IsFold(f, S, h)
  BY FoldExists
<1>2. SumFunctionOnSet(f, S) = Folds(f, h, S)
  BY <1>1, FoldValue, SumIsFold
<1>3. ASSUME S # {} PROVE h[Rest(S)] = SumFunctionOnSet(f, Rest(S))
  <2> DEFINE T == Rest(S)
  <2>1. T \in SUBSET S
    BY <1>3, FirstRest
  <2>2. IsFiniteSet(T)
    BY <2>1, FS_Subset
  <2>3. IsFold(f, T, TheFold(f, T))
    BY <2>2, FoldExists
  <2>4. h[T] = TheFold(f, T)[T]
    <3> HIDE DEF h, T
    <3> QED BY <1>1, <2>1, <2>3, FoldsAgree
  <2> QED BY <2>4, SumIsFold
<1> QED
  BY <1>2, <1>3 DEF Folds

-----------------------------------------------------------------------------
(* Sums of natural numbers.                                                 *)

\* Nothing sums to zero.
LEMMA SumOfNone == \A f : SumFunctionOnSet(f, {}) = 0
  BY SumStep, FS_EmptySet

\* Natural numbers sum to a natural number.
LEMMA SumNat ==
  ASSUME NEW f, NEW S, IsFiniteSet(S), \A x \in S : f[x] \in Nat
  PROVE  SumFunctionOnSet(f, S) \in Nat
<1> DEFINE B == {T \in SUBSET S : SumFunctionOnSet(f, T) \notin Nat}
<1>1. SUFFICES ASSUME B # {} PROVE FALSE
  OBVIOUS
<1>2. PICK T \in B : \A U \in B : U \subseteq T => U = T
  <2>1. B \subseteq SUBSET S
    OBVIOUS
  <2> HIDE DEF B
  <2> QED BY <1>1, <2>1, Smallest
<1>3. IsFiniteSet(T)
  BY FS_Subset
<1>4. T # {}
  <2> SUFFICES ASSUME T = {} PROVE FALSE
    OBVIOUS
  <2> QED BY <1>2, SumOfNone
<1>5. SumFunctionOnSet(f, T) = f[First(T)] + SumFunctionOnSet(f, Rest(T))
  BY <1>3, <1>4, SumStep
<1>6. First(T) \in S /\ Rest(T) \subseteq T /\ Rest(T) # T
  BY <1>4, FirstRest
<1>7. SumFunctionOnSet(f, Rest(T)) \in Nat
  BY <1>2, <1>6
<1> QED
  BY <1>2, <1>5, <1>6, <1>7

\* Any element may be taken out first.
LEMMA SumRemove ==
  ASSUME NEW f, NEW S, IsFiniteSet(S), \A x \in S : f[x] \in Nat
  PROVE  \A x \in S :
           SumFunctionOnSet(f, S) = f[x] + SumFunctionOnSet(f, S \ {x})
<1> DEFINE Sum(T) == SumFunctionOnSet(f, T)
           Any(T) == \A x \in T : Sum(T) = f[x] + Sum(T \ {x})
           B == {T \in SUBSET S : ~Any(T)}
<1>1. SUFFICES ASSUME B # {} PROVE FALSE
  OBVIOUS
<1>2. PICK T \in B : \A U \in B : U \subseteq T => U = T
  <2>1. B \subseteq SUBSET S
    OBVIOUS
  <2> HIDE DEF B
  <2> QED BY <1>1, <2>1, Smallest
<1>3. \A U \in SUBSET T : IsFiniteSet(U) /\ Sum(U) \in Nat
  BY FS_Subset, SumNat
<1>4. \A U \in SUBSET T : U # T => Any(U)
  BY <1>2
<1>5. PICK x \in T : Sum(T) # f[x] + Sum(T \ {x})
  BY <1>2
<1> DEFINE y == First(T)
<1>6. Sum(T) = f[y] + Sum(T \ {y}) /\ y \in T
  BY <1>3, <1>5, SumStep, FirstRest DEF Rest
<1> HIDE DEF y
<1>7. x # y
  BY <1>5, <1>6
<1>8. Sum(T \ {y}) = f[x] + Sum((T \ {y}) \ {x})
  BY <1>4, <1>6, <1>7
<1>9. Sum(T \ {x}) = f[y] + Sum((T \ {x}) \ {y})
  BY <1>4, <1>6, <1>7
<1>10. Sum((T \ {y}) \ {x}) = Sum((T \ {x}) \ {y})
  <2>1. (T \ {y}) \ {x} = (T \ {x}) \ {y}
    OBVIOUS
  <2> QED BY <2>1
<1>11. f[x] \in Nat /\ f[y] \in Nat /\ Sum((T \ {x}) \ {y}) \in Nat
  BY <1>3, <1>6
<1>12. \A p, q, n \in Nat : p + (q + n) = q + (p + n)
  OBVIOUS
<1> QED
  BY ONLY <1>5, <1>6, <1>8, <1>9, <1>10, <1>11, <1>12

\* A sum is about the values on its set alone.
LEMMA SumSame ==
  ASSUME NEW f, NEW g, NEW S, IsFiniteSet(S), \A x \in S : f[x] = g[x]
  PROVE  SumFunctionOnSet(f, S) = SumFunctionOnSet(g, S)
<1> DEFINE B == {T \in SUBSET S : SumFunctionOnSet(f, T) # SumFunctionOnSet(g, T)}
<1>1. SUFFICES ASSUME B # {} PROVE FALSE
  OBVIOUS
<1>2. PICK T \in B : \A U \in B : U \subseteq T => U = T
  <2>1. B \subseteq SUBSET S
    OBVIOUS
  <2> HIDE DEF B
  <2> QED BY <1>1, <2>1, Smallest
<1>3. IsFiniteSet(T)
  BY FS_Subset
<1>4. T # {}
  <2> SUFFICES ASSUME T = {} PROVE FALSE
    OBVIOUS
  <2> QED BY <1>2, SumOfNone
<1>5. /\ SumFunctionOnSet(f, T) = f[First(T)] + SumFunctionOnSet(f, Rest(T))
      /\ SumFunctionOnSet(g, T) = g[First(T)] + SumFunctionOnSet(g, Rest(T))
  BY <1>3, <1>4, SumStep
<1>6. First(T) \in S /\ Rest(T) \subseteq T /\ Rest(T) # T
  BY <1>4, FirstRest
<1>7. SumFunctionOnSet(f, Rest(T)) = SumFunctionOnSet(g, Rest(T))
  BY <1>2, <1>6
<1> QED
  BY <1>2, <1>5, <1>6, <1>7

\* Changing one value changes the sum by as much; no value exceeds the sum.
LEMMA SumUpdate ==
  ASSUME NEW f, NEW g, NEW S, IsFiniteSet(S), NEW x \in S,
         \A y \in S : f[y] \in Nat /\ g[y] \in Nat,
         \A y \in S : y # x => f[y] = g[y]
  PROVE  /\ SumFunctionOnSet(g, S) = SumFunctionOnSet(f, S) - f[x] + g[x]
         /\ f[x] <= SumFunctionOnSet(f, S)
<1>1. /\ SumFunctionOnSet(f, S) = f[x] + SumFunctionOnSet(f, S \ {x})
      /\ SumFunctionOnSet(g, S) = g[x] + SumFunctionOnSet(g, S \ {x})
  BY SumRemove
<1>2. IsFiniteSet(S \ {x})
  BY FS_RemoveElement
<1>3. SumFunctionOnSet(f, S \ {x}) = SumFunctionOnSet(g, S \ {x})
  BY <1>2, SumSame
<1>4. SumFunctionOnSet(f, S \ {x}) \in Nat
  BY <1>2, SumNat
<1> QED
  BY <1>1, <1>3, <1>4

\* The sum of equal values.
LEMMA SumOfEquals ==
  ASSUME NEW f, NEW S, IsFiniteSet(S), NEW c \in Nat, \A x \in S : f[x] = c
  PROVE  SumFunctionOnSet(f, S) = c * Cardinality(S)
<1> DEFINE Is(T) == SumFunctionOnSet(f, T) = c * Cardinality(T)
           B == {T \in SUBSET S : ~Is(T)}
<1>1. SUFFICES ASSUME B # {} PROVE FALSE
  OBVIOUS
<1>2. PICK T \in B : \A U \in B : U \subseteq T => U = T
  <2>1. B \subseteq SUBSET S
    OBVIOUS
  <2> HIDE DEF B
  <2> QED BY <1>1, <2>1, Smallest
<1>3. IsFiniteSet(T)
  BY FS_Subset
<1>4. T # {}
  <2> SUFFICES ASSUME T = {} PROVE FALSE
    OBVIOUS
  <2>1. c * 0 = 0
    OBVIOUS
  <2> QED BY <1>2, <2>1, SumOfNone, FS_EmptySet
<1>5. SumFunctionOnSet(f, T) = f[First(T)] + SumFunctionOnSet(f, Rest(T))
  BY <1>3, <1>4, SumStep
<1>6. First(T) \in T /\ Rest(T) \subseteq T /\ Rest(T) # T
  BY <1>4, FirstRest
<1>7. SumFunctionOnSet(f, Rest(T)) = c * Cardinality(Rest(T))
  BY <1>2, <1>6
<1>8. /\ Cardinality(Rest(T)) = Cardinality(T) - 1
      /\ Cardinality(T) \in Nat
  BY <1>3, <1>6, FS_RemoveElement, FS_CardinalityType DEF Rest
<1>9. SumFunctionOnSet(f, T) = c + c * (Cardinality(T) - 1)
  BY <1>5, <1>6, <1>7, <1>8
<1>10. \A n \in Nat : c + c * (n - 1) = c * n
  OBVIOUS
<1> QED
  BY <1>2, <1>8, <1>9, <1>10
=============================================================================
