-------------------------- MODULE PublicPages_proofs --------------------------
(***************************************************************************)
(* The public pages: that whoever follows the cursors of the activity feed *)
(* sees what was there to see, for logs of any length; that the homepage's *)
(* strip knows of no row that is not there; and how long a suspended agent *)
(* may be ranked, for any lives of the copies and any number of runs.      *)
(***************************************************************************)
EXTENDS LiveFeed, Leaderboard, FiniteSetTheorems, SequenceTheorems,
        WellFoundedInduction, TLAPS

-----------------------------------------------------------------------------
(* Recursion over 0..n.  What the library says of recursive functions has   *)
(* an operator for a parameter; here the step is a function, and the        *)
(* inductions are descents to a least counterexample.                       *)

\* A nonempty set of natural numbers has a least element.
LEMMA LeastNumber ==
  ASSUME NEW B, B \subseteq Nat, B # {}
  PROVE  \E m \in B : \A k \in B : m <= k
<1>1. PICK m \in B : \A k \in B : ~(<<k, m>> \in OpToRel(<, Nat))
  BY NatLessThanWellFounded, WFMin
<1>2. \A k \in B : ~(k < m)
  BY <1>1 DEF OpToRel
<1> QED
  BY <1>2

\* What holds of 0 and is handed on from k - 1 to k holds up to n.
LEMMA Induction ==
  ASSUME NEW n \in Nat, NEW P, 0 \in P,
         \A k \in 1..n : k - 1 \in P => k \in P
  PROVE  0..n \subseteq P
<1> DEFINE B == {k \in 0..n : k \notin P}
<1>1. SUFFICES ASSUME B # {} PROVE FALSE
  OBVIOUS
<1>2. B \subseteq Nat
  OBVIOUS
<1> HIDE DEF B
<1>3. PICK m \in B : \A k \in B : m <= k
  BY <1>1, <1>2, LeastNumber
<1> USE DEF B
<1>4. m \in 1..n /\ m \notin P
  BY <1>3
<1>5. m - 1 \in P
  BY <1>3, <1>4
<1> QED
  BY <1>4, <1>5

\* f is b at 0, and at k what the k-th function of G makes of f[k - 1].
Iterates(f, n, b, G) ==
  f[0] = b /\ \A k \in 1..n : f[k] = G[k][f[k - 1]]

\* A function defined by its value at 0 and a step from k - 1 to k exists.
LEMMA Recursion ==
  ASSUME NEW n \in Nat, NEW X, NEW b \in X, NEW G \in [1..n -> [X -> X]]
  PROVE  \E f \in [0..n -> X] : Iterates(f, n, b, G)
<1> DEFINE P == {m \in 0..n : \E f \in [0..m -> X] : Iterates(f, m, b, G)}
<1>1. 0 \in P
  <2> DEFINE f == [k \in 0..0 |-> b]
  <2>1. f \in [0..0 -> X] /\ f[0] = b
    OBVIOUS
  <2> HIDE DEF f
  <2>2. Iterates(f, 0, b, G)
    BY <2>1 DEF Iterates
  <2>3. 0 \in 0..n
    OBVIOUS
  <2> QED
    BY <2>1, <2>2, <2>3
<1>2. ASSUME NEW m \in 1..n, m - 1 \in P PROVE m \in P
  <2>1. PICK f \in [0..m - 1 -> X] : Iterates(f, m - 1, b, G)
    BY <1>2
  <2> DEFINE g == [k \in 0..m |-> IF k < m THEN f[k] ELSE G[m][f[m - 1]]]
  <2>2. f[m - 1] \in X /\ G[m][f[m - 1]] \in X
    BY <2>1
  <2>3. g \in [0..m -> X]
    BY <2>2
  <2>4. g[m] = G[m][f[m - 1]] /\ \A k \in 0..m - 1 : g[k] = f[k]
    OBVIOUS
  <2> HIDE DEF g
  <2>5. ASSUME NEW k \in 1..m PROVE g[k] = G[k][g[k - 1]]
    <3>1. g[k - 1] = f[k - 1]
      BY <2>4
    <3>2. CASE k = m
      BY <2>4, <3>1, <3>2
    <3>3. CASE k < m
      BY <2>1, <2>4, <3>1, <3>3 DEF Iterates
    <3> QED
      BY <3>2, <3>3
  <2>6. Iterates(g, m, b, G)
    BY <2>1, <2>4, <2>5 DEF Iterates
  <2> QED
    BY <2>3, <2>6
<1>3. 0..n \subseteq P
  <2> HIDE DEF P
  <2> QED BY <1>1, <1>2, Induction
<1>4. n \in P
  BY <1>3
<1> QED
  BY <1>4

-----------------------------------------------------------------------------
(* What is kept of a sequence.                                              *)

\* The function Kept is defined with.
IsFirst(s, I, f) ==
  f = [k \in 0..Len(s) |->
         IF k = 0 THEN << >>
         ELSE IF k \in I THEN Append(f[k - 1], s[k]) ELSE f[k - 1]]

\* The recursive function of Kept exists, and its values are sequences.
LEMMA KeptByStep ==
  ASSUME NEW S, NEW s \in Seq(S), NEW I
  PROVE  \E f \in [0..Len(s) -> Seq(S)] :
           /\ Kept(s, I) = f[Len(s)]
           /\ f[0] = << >>
           /\ \A k \in 1..Len(s) :
                f[k] = IF k \in I THEN Append(f[k - 1], s[k]) ELSE f[k - 1]
<1> DEFINE n == Len(s)
           Step(k, t) == IF k \in I THEN Append(t, s[k]) ELSE t
           G == [k \in 1..n |-> [t \in Seq(S) |-> Step(k, t)]]
<1>1. n \in Nat /\ << >> \in Seq(S)
  OBVIOUS
<1>2. \A k \in 1..n, t \in Seq(S) : Step(k, t) \in Seq(S)
  OBVIOUS
<1>3. G \in [1..n -> [Seq(S) -> Seq(S)]]
  BY <1>2
<1>4. \A k \in 1..n, t \in Seq(S) : G[k][t] = Step(k, t)
  OBVIOUS
<1>5. PICK h \in [0..n -> Seq(S)] :
         h[0] = << >> /\ \A k \in 1..n : h[k] = G[k][h[k - 1]]
  <2> DEFINE X == Seq(S)
             b == << >>
  <2>1. n \in Nat /\ b \in X /\ G \in [1..n -> [X -> X]]
    BY <1>1, <1>3
  <2> HIDE DEF G, n, X, b
  <2>2. \E h \in [0..n -> X] : Iterates(h, n, b, G)
    BY <2>1, Recursion
  <2> QED
    BY <2>2 DEF X, b, Iterates
<1>6. \A k \in 1..n : h[k] = Step(k, h[k - 1])
  <2> HIDE DEF G, Step
  <2>1. \A k \in 1..n : h[k - 1] \in Seq(S)
    BY <1>1
  <2> QED
    BY <1>4, <1>5, <2>1
<1>7. IsFirst(s, I, h)
  <2>1. h = [k \in 0..n |-> IF k = 0 THEN << >> ELSE Step(k, h[k - 1])]
    <3> HIDE DEF Step, G
    <3>1. \A k \in 0..n : h[k] = IF k = 0 THEN << >> ELSE Step(k, h[k - 1])
      BY <1>1, <1>5, <1>6
    <3> QED
      BY <3>1
  <2> QED
    BY <2>1 DEF IsFirst
<1> DEFINE f == CHOOSE g : IsFirst(s, I, g)
<1>8. IsFirst(s, I, f)
  BY <1>7
<1>9. Kept(s, I) = f[n]
  BY Zenon DEF Kept, IsFirst
<1> HIDE DEF f, G
<1>10. \A k \in 0..n : f[k] = IF k = 0 THEN << >> ELSE Step(k, f[k - 1])
  BY <1>8 DEF IsFirst
<1>11. \A k \in 0..n : f[k] \in Seq(S)
  <2> DEFINE P == {k \in 0..n : f[k] \in Seq(S)}
  <2>1. 0 \in P
    <3>1. 0 \in 0..n /\ f[0] = << >>
      BY <1>1, <1>10
    <3> QED
      BY <1>1, <3>1
  <2>2. ASSUME NEW k \in 1..n, k - 1 \in P PROVE k \in P
    <3>1. f[k] = Step(k, f[k - 1]) /\ k \in 0..n
      BY <1>1, <1>10
    <3> HIDE DEF Step
    <3> QED
      BY <1>2, <2>2, <3>1
  <2>3. 0..n \subseteq P
    <3> HIDE DEF P, n
    <3> QED
      BY <1>1, <2>1, <2>2, Induction
  <2> QED
    BY <2>3
<1>12. f \in [0..n -> Seq(S)]
  BY <1>8, <1>11 DEF IsFirst
<1>13. \A k \in 1..n : f[k] = Step(k, f[k - 1])
  BY <1>1, <1>10
<1>14. f[0] = << >>
  BY <1>1, <1>10
<1> QED
  BY <1>9, <1>12, <1>13, <1>14

\* p names, in order and without leaving any out, the places in I that the
\* elements of t have in s.
Places(s, I, t, p) ==
  /\ p \in [1..Len(t) -> I]
  /\ \A i, j \in 1..Len(t) : i < j => p[i] < p[j]
  /\ \A k \in I : \E i \in 1..Len(t) : p[i] = k
  /\ \A i \in 1..Len(t) : t[i] = s[p[i]]

\* Kept keeps the elements at the given places, in their order.
LEMMA KeptPlaces ==
  ASSUME NEW S, NEW s \in Seq(S), NEW I \in SUBSET (1..Len(s))
  PROVE  Kept(s, I) \in Seq(S) /\ \E p : Places(s, I, Kept(s, I), p)
<1> DEFINE n == Len(s)
           Below(k) == I \cap (1..k)
<1>1. n \in Nat
  OBVIOUS
<1>2. PICK f \in [0..n -> Seq(S)] :
         /\ Kept(s, I) = f[n]
         /\ f[0] = << >>
         /\ \A k \in 1..n :
              f[k] = IF k \in I THEN Append(f[k - 1], s[k]) ELSE f[k - 1]
  BY KeptByStep, ZenonT(40)
<1> DEFINE P == {k \in 0..n : \E p : Places(s, Below(k), f[k], p)}
<1>3. 0 \in P
  <2> DEFINE p == [i \in 1..0 |-> i]
  <2>1. Below(0) = {} /\ f[0] = << >> /\ Len(f[0]) = 0
    BY <1>2
  <2>2. Places(s, Below(0), f[0], p)
    BY <2>1 DEF Places
  <2> HIDE DEF p
  <2> QED
    BY <1>1, <2>2
<1>4. ASSUME NEW k \in 1..n, k - 1 \in P PROVE k \in P
  <2>1. PICK p : Places(s, Below(k - 1), f[k - 1], p)
    BY <1>4
  <2>2. f[k - 1] \in Seq(S) /\ k \in 0..n /\ k \in Nat /\ k - 1 \in Nat
    BY <1>1, <1>2
  <2>3. CASE k \notin I
    <3>1. Below(k) = Below(k - 1)
      BY <2>2, <2>3
    <3>2. f[k] = f[k - 1]
      BY <1>2, <2>3
    <3> QED
      BY <2>1, <2>2, <3>1, <3>2
  <2>4. CASE k \in I
    <3> DEFINE t == f[k - 1]
               m == Len(t)
               u == Append(t, s[k])
               q == [i \in 1..m + 1 |-> IF i = m + 1 THEN k ELSE p[i]]
    <3>1. f[k] = u
      BY <1>2, <2>4
    <3>2. s[k] \in S
      OBVIOUS
    <3>3. m \in Nat /\ Len(u) = m + 1
      BY <2>2, <3>2
    <3>4. \A i \in 1..m : u[i] = t[i]
      BY <2>2, <3>2
    <3>5. u[m + 1] = s[k]
      BY <2>2, <3>2
    <3>6. /\ p \in [1..m -> Below(k - 1)]
          /\ \A i, j \in 1..m : i < j => p[i] < p[j]
          /\ \A x \in Below(k - 1) : \E i \in 1..m : p[i] = x
          /\ \A i \in 1..m : t[i] = s[p[i]]
      BY <2>1 DEF Places
    <3> HIDE DEF u, t, m
    <3>7. q \in [1..m + 1 -> Below(k)]
      BY <2>2, <2>4, <3>3, <3>6
    <3>8. q[m + 1] = k /\ \A i \in 1..m : q[i] = p[i]
      BY <3>3
    <3>9. \A i \in 1..m : p[i] \in Nat /\ p[i] < k
      BY <2>2, <3>6
    <3> HIDE DEF q
    <3>10. \A i, j \in 1..m + 1 : i < j => q[i] < q[j]
      <4> TAKE i, j \in 1..m + 1
      <4>1. CASE j = m + 1
        <5>1. i < j => i \in 1..m
          BY <3>3, <4>1
        <5> QED
          BY <3>8, <3>9, <4>1, <5>1
      <4>2. CASE j # m + 1
        <5>1. i < j => i \in 1..m /\ j \in 1..m
          BY <3>3, <4>2
        <5> QED
          BY <3>6, <3>8, <5>1
      <4> QED
        BY <4>1, <4>2
    <3>11. \A x \in Below(k) : \E i \in 1..m + 1 : q[i] = x
      <4> TAKE x \in Below(k)
      <4>1. CASE x = k
        BY <3>3, <3>8, <4>1
      <4>2. CASE x # k
        <5>1. x \in Below(k - 1)
          BY <2>2, <4>2
        <5>2. PICK i \in 1..m : p[i] = x
          BY <3>6, <5>1
        <5>3. i \in 1..m + 1 /\ q[i] = x
          BY <3>3, <3>8, <5>2
        <5> QED
          BY <5>3
      <4> QED
        BY <4>1, <4>2
    <3>12. \A i \in 1..m + 1 : u[i] = s[q[i]]
      BY <3>3, <3>4, <3>5, <3>6, <3>8
    <3>13. Places(s, Below(k), u, q)
      BY <3>3, <3>7, <3>10, <3>11, <3>12 DEF Places
    <3> QED
      BY <2>2, <3>1, <3>13
  <2> QED
    BY <2>3, <2>4
<1>5. n \in P
  <2> HIDE DEF P, n
  <2>1. 0..n \subseteq P
    BY <1>1, <1>3, <1>4, Induction
  <2> QED
    BY <1>1, <2>1
<1>6. Below(n) = I
  BY <1>1
<1>7. f[n] \in Seq(S)
  BY <1>1
<1> QED
  BY <1>2, <1>5, <1>6, <1>7

-----------------------------------------------------------------------------
(* The listing of a log of any length.                                      *)

\* An event of a log without bound, and such a log: in the order of its
\* times, every row with an id of its own.
Entry == [ms: Nat \ {0}, id: Nat, noise: BOOLEAN]

OrderedLog(l) ==
  /\ l \in Seq(Entry)
  /\ \A i, j \in 1..Len(l) : i <= j => l[i].ms <= l[j].ms
  /\ \A i, j \in 1..Len(l) : l[i].id = l[j].id => i = j

\* The newest first, every event once.
Newest(s) ==
  /\ s \in Seq(Entry)
  /\ \A i, j \in 1..Len(s) : i < j => s[i].ms >= s[j].ms /\ s[i].id # s[j].id

\* Row k is in the window of the first n rows, and no later alert hides it.
Listed(l, n, k) ==
  k \in 1..n /\ k > n - Window /\ (l[k].noise => \A j \in k + 1..n : ~l[j].noise)

\* The rows of the window, last first.
LEMMA FetchedRows ==
  ASSUME NEW l, OrderedLog(l), NEW n \in 0..Len(l)
  PROVE  \E m \in 0..n :
           /\ \A k \in 1..n : k > n - Window <=> k > n - m
           /\ Fetched(l, n) \in Seq(Entry)
           /\ Len(Fetched(l, n)) = m
           /\ \A i \in 1..m : Fetched(l, n)[i] = l[n - i + 1]
<1> DEFINE lo == IF n > Window THEN n - Window + 1 ELSE 1
           m == n - lo + 1
           sub == SubSeq(l, lo, n)
<1>1. Window \in Nat \ {0} /\ n \in Nat /\ n <= Len(l) /\ Len(l) \in Nat /\ l \in Seq(Entry)
  BY FeedAssumption DEF OrderedLog
<1>2. lo \in Nat \ {0} /\ m \in 0..n /\ \A k \in 1..n : k > n - Window <=> k > n - m
  BY <1>1
<1>3. \A i \in lo..n : l[i] \in Entry
  BY <1>1, <1>2
<1> HIDE DEF lo
<1>4. /\ sub \in Seq(Entry)
      /\ Len(sub) = m
      /\ \A i \in 1..m : sub[i] = l[lo + i - 1]
  BY <1>1, <1>2, <1>3, SubSeqProperties
<1>5. Fetched(l, n) = [i \in 1..m |-> sub[(m - i) + 1]]
  BY <1>4 DEF Fetched, Reverse, lo
<1>6. \A i \in 1..m : sub[(m - i) + 1] = l[n - i + 1]
  BY <1>1, <1>2, <1>4
<1>7. \A i \in 1..m : sub[(m - i) + 1] \in Entry
  <2>1. \A i \in 1..m : (m - i) + 1 \in 1..m
    BY <1>2
  <2> HIDE DEF sub, m
  <2> QED
    BY <1>4, <2>1
<1> HIDE DEF sub, m
<1>8. Fetched(l, n) \in Seq(Entry) /\ Len(Fetched(l, n)) = m
  BY <1>2, <1>5, <1>7
<1> QED
  BY <1>2, <1>5, <1>6, <1>8

\* What is listed of the first n rows (web4Graph.ts:507-535, 1127-1146,
\* productionData.ts:41-60).
LEMMA ListingIsNewest ==
  ASSUME NEW l, OrderedLog(l), NEW n \in 0..Len(l)
  PROVE  /\ Newest(Listing(l, n))
         /\ ToSet(Listing(l, n)) = {l[k] : k \in {x \in 1..n : Listed(l, n, x)}}
<1> DEFINE rows == Fetched(l, n)
           I == {i \in DOMAIN rows : rows[i].noise => \A j \in 1..i - 1 : ~rows[j].noise}
           L == Kept(rows, I)
<1>1. Listing(l, n) = L
  BY DEF Listing, Collapsed
<1>2. /\ n \in Nat /\ Window \in Nat /\ l \in Seq(Entry) /\ Len(l) \in Nat
      /\ \A i, j \in 1..Len(l) : i <= j => l[i].ms <= l[j].ms
      /\ \A i, j \in 1..Len(l) : l[i].id = l[j].id => i = j
  BY FeedAssumption DEF OrderedLog
<1>3. PICK m \in 0..n :
         /\ \A k \in 1..n : k > n - Window <=> k > n - m
         /\ rows \in Seq(Entry)
         /\ Len(rows) = m
         /\ \A i \in 1..m : rows[i] = l[n - i + 1]
  BY FetchedRows
<1>4. I \in SUBSET (1..m) /\ m \in Nat /\ DOMAIN rows = 1..m
  BY <1>2, <1>3
<1>5. L \in Seq(Entry) /\ \E p : Places(rows, I, L, p)
  <2> HIDE DEF I, rows
  <2> QED BY <1>3, <1>4, KeptPlaces
<1>6. PICK p : Places(rows, I, L, p)
  BY <1>5
<1>7. \A i \in 1..m : i \in I <=> Listed(l, n, n - i + 1)
  <2> TAKE i \in 1..m
  <2>1. n - i + 1 \in 1..n /\ n - i + 1 > n - Window
    <3>1. n - i + 1 \in 1..n /\ n - i + 1 > n - m
      BY <1>2, <1>4
    <3> QED
      BY <1>3, <3>1
  <2>2. ASSUME i \in I, l[n - i + 1].noise, NEW j \in (n - i + 1) + 1..n
        PROVE  ~l[j].noise
    <3>1. n - j + 1 \in 1..i - 1 /\ n - (n - j + 1) + 1 = j /\ n - j + 1 \in 1..m
      BY <1>2, <1>4
    <3>2. rows[i].noise /\ rows[n - j + 1] = l[j]
      BY <1>3, <2>2, <3>1
    <3> QED
      BY <2>2, <3>1, <3>2
  <2>3. ASSUME i \notin I
        PROVE  l[n - i + 1].noise /\ \E j \in (n - i + 1) + 1..n : l[j].noise
    <3>1. PICK k \in 1..i - 1 : rows[i].noise /\ rows[k].noise
      BY <1>4, <2>3
    <3>2. n - k + 1 \in (n - i + 1) + 1..n /\ k \in 1..m
      BY <1>2, <1>4
    <3>3. rows[k] = l[n - k + 1] /\ rows[i] = l[n - i + 1]
      BY <1>3, <3>2
    <3> QED
      BY <3>1, <3>2, <3>3
  <2> HIDE DEF I
  <2> QED
    BY <2>1, <2>2, <2>3 DEF Listed
<1> HIDE DEF I, L, rows
<1>8. /\ Len(L) \in Nat
      /\ \A i \in 1..Len(L) : p[i] \in I /\ p[i] \in 1..m /\ L[i] = rows[p[i]]
      /\ \A i, j \in 1..Len(L) : i < j => p[i] < p[j]
      /\ \A k \in I : \E i \in 1..Len(L) : p[i] = k
  <2>1. Len(L) \in Nat
    BY <1>5
  <2>2. \A i \in 1..Len(L) : p[i] \in I /\ L[i] = rows[p[i]]
    BY <1>6 DEF Places
  <2>3. \A i \in 1..Len(L) : p[i] \in 1..m
    BY <1>4, <2>2
  <2> QED
    BY <1>6, <2>1, <2>2, <2>3, Zenon DEF Places
<1>9. \A i \in 1..Len(L) : L[i] = l[n - p[i] + 1] /\ n - p[i] + 1 \in 1..n
  BY <1>2, <1>3, <1>4, <1>8, SMTT(30)
<1>10. Newest(L)
  <2>1. ASSUME NEW i \in 1..Len(L), NEW j \in 1..Len(L), i < j
        PROVE  L[i].ms >= L[j].ms /\ L[i].id # L[j].id
    <3> DEFINE u == n - p[i] + 1
               v == n - p[j] + 1
    <3>1. p[i] < p[j] /\ p[i] \in 1..m /\ p[j] \in 1..m
      BY <1>8, <2>1
    <3>2. u \in 1..Len(l) /\ v \in 1..Len(l) /\ v < u
      <4>1. u \in 1..n /\ v \in 1..n
        BY <1>9
      <4>2. n \in Nat /\ Len(l) \in Nat /\ n <= Len(l) /\ m \in Nat
        BY <1>2, <1>4
      <4>3. v < u
        BY <3>1, <4>2
      <4> HIDE DEF u, v
      <4> QED
        BY <4>1, <4>2, <4>3
    <3>3. L[i] = l[u] /\ L[j] = l[v]
      BY <1>9
    <3> HIDE DEF u, v
    <3>4. l[u] \in Entry /\ l[v] \in Entry
      BY <1>2, <3>2
    <3>5. l[v].ms <= l[u].ms /\ l[v].id # l[u].id
      BY <1>2, <3>2
    <3> QED
      BY <3>3, <3>4, <3>5 DEF Entry
  <2> QED
    BY <1>5, <2>1 DEF Newest
<1>11. ToSet(L) = {l[k] : k \in {x \in 1..n : Listed(l, n, x)}}
  <2>1. ASSUME NEW i \in 1..Len(L)
        PROVE  \E k \in 1..n : Listed(l, n, k) /\ L[i] = l[k]
    BY <1>7, <1>8, <1>9
  <2>2. ASSUME NEW k \in 1..n, Listed(l, n, k)
        PROVE  \E i \in 1..Len(L) : L[i] = l[k]
    <3>1. k > n - m /\ n - k + 1 \in 1..m /\ n - (n - k + 1) + 1 = k
      <4>1. k > n - m
        BY <1>3, <2>2 DEF Listed
      <4> QED
        BY <1>2, <1>4, <4>1
    <3>2. n - k + 1 \in I
      BY <1>7, <2>2, <3>1
    <3>3. PICK i \in 1..Len(L) : p[i] = n - k + 1
      BY <1>8, <3>2
    <3> QED
      BY <1>9, <3>1, <3>3
  <2>3. ToSet(L) = {L[i] : i \in 1..Len(L)}
    BY <1>5 DEF ToSet
  <2>4. ASSUME NEW e \in ToSet(L)
        PROVE  \E k \in {x \in 1..n : Listed(l, n, x)} : e = l[k]
    BY <2>1, <2>3
  <2>5. ASSUME NEW k \in {x \in 1..n : Listed(l, n, x)} PROVE l[k] \in ToSet(L)
    BY <2>2, <2>3
  <2> QED
    BY <2>4, <2>5
<1> QED
  BY <1>1, <1>10, <1>11

-----------------------------------------------------------------------------
(* One page.                                                                *)

\* A cursor: the time and the id of an event, or NoCursor.
Cursor == [ms: Nat, id: Nat]

\* A filter keeps the order.
LEMMA KeptIsNewest ==
  ASSUME NEW s, Newest(s), NEW I \in SUBSET (1..Len(s))
  PROVE  Newest(Kept(s, I)) /\ ToSet(Kept(s, I)) = {s[k] : k \in I}
<1> DEFINE t == Kept(s, I)
<1>1. s \in Seq(Entry)
  BY DEF Newest
<1>2. t \in Seq(Entry) /\ \E p : Places(s, I, t, p)
  BY <1>1, KeptPlaces
<1> HIDE DEF t
<1>3. PICK p : Places(s, I, t, p)
  BY <1>2
<1>4. Len(t) \in Nat /\ Len(s) \in Nat
  BY <1>1, <1>2
<1>5. \A i \in 1..Len(t) : p[i] \in I /\ p[i] \in 1..Len(s) /\ t[i] = s[p[i]]
  BY <1>3 DEF Places
<1>6. ASSUME NEW i \in 1..Len(t), NEW j \in 1..Len(t), i < j
      PROVE  t[i].ms >= t[j].ms /\ t[i].id # t[j].id
  <2>1. p[i] < p[j]
    BY <1>3, <1>6 DEF Places
  <2> QED
    BY <1>5, <2>1 DEF Newest
<1>7. \A k \in I : \E i \in 1..Len(t) : p[i] = k
  BY <1>3, Zenon DEF Places
<1>8. ToSet(t) = {t[i] : i \in 1..Len(t)}
  BY <1>2 DEF ToSet
<1>9. ToSet(t) = {s[k] : k \in I}
  <2>1. ASSUME NEW e \in ToSet(t) PROVE \E k \in I : e = s[k]
    BY <1>5, <1>8
  <2>2. ASSUME NEW k \in I PROVE s[k] \in ToSet(t)
    BY <1>5, <1>7, <1>8
  <2> QED
    BY <2>1, <2>2
<1>10. Newest(t)
  BY <1>2, <1>6 DEF Newest
<1> QED
  BY <1>9, <1>10 DEF t

\* A page holds each event at most once, none that is not before the cursor,
\* and leaves out only what the next cursor is not past (web4Graph.ts:569-596).
LEMMA PageFollowsCursor ==
  ASSUME NEW s, Newest(s), NEW c \in Cursor
  PROVE  LET p == Page(s, c) IN
         /\ p.items \in Seq(Entry) /\ p.next \in Cursor
         /\ \A i, j \in 1..Len(p.items) : p.items[i] = p.items[j] => i = j
         /\ \A e \in ToSet(p.items) :
              /\ e \in ToSet(s) /\ BeforeCursor(e, c)
              /\ p.next # NoCursor => e.ms >= p.next.ms
         /\ p.next # NoCursor =>
              \E e \in ToSet(s) :
                BeforeCursor(e, c) /\ p.next.ms = e.ms /\ p.next.id = e.id
         /\ \A e \in ToSet(s) \ ToSet(p.items) :
              BeforeCursor(e, c) =>
                p.next # NoCursor /\ e.ms <= p.next.ms /\ e.id # p.next.id
<1> DEFINE I == {i \in DOMAIN s : BeforeCursor(s[i], c)}
           older == Kept(s, I)
           n == Len(older)
           z == IF n > PageSize THEN PageSize ELSE n
           items == SubSeq(older, 1, z)
           next == IF n > PageSize
                   THEN [ms |-> older[PageSize].ms, id |-> older[PageSize].id]
                   ELSE NoCursor
<1>1. Page(s, c).items = items /\ Page(s, c).next = next
  BY DEF Page
<1>2. s \in Seq(Entry) /\ DOMAIN s = 1..Len(s) /\ I \in SUBSET (1..Len(s))
  BY DEF Newest
<1>3. Newest(older) /\ ToSet(older) = {s[k] : k \in I}
  <2> HIDE DEF I
  <2> QED BY <1>2, KeptIsNewest
<1>4. PageSize \in Nat \ {0}
  BY FeedAssumption
<1>5. ASSUME NEW e
      PROVE  e \in ToSet(older) <=> e \in ToSet(s) /\ BeforeCursor(e, c)
  <2>1. ToSet(s) = {s[k] : k \in 1..Len(s)}
    BY <1>2 DEF ToSet
  <2> HIDE DEF older
  <2> QED
    BY <1>2, <1>3, <2>1
<1> HIDE DEF I, older
<1>6. /\ older \in Seq(Entry) /\ n \in Nat
      /\ \A i, j \in 1..n : i < j => older[i].ms >= older[j].ms /\ older[i].id # older[j].id
  BY <1>3 DEF Newest
<1>7. z \in 0..n /\ \A i \in 1..z : older[i] \in Entry
  BY <1>4, <1>6
<1>8. /\ items \in Seq(Entry) /\ Len(items) = z
      /\ \A i \in 1..z : items[i] = older[i]
  <2> HIDE DEF n, z
  <2> QED BY <1>6, <1>7, SubSeqProperties
<1>9. ToSet(items) = {older[i] : i \in 1..z} /\ ToSet(older) = {older[i] : i \in 1..n}
  <2> HIDE DEF items, z
  <2>1. ToSet(items) = {items[i] : i \in 1..z}
    BY <1>8 DEF ToSet
  <2>2. ToSet(older) = {older[i] : i \in 1..n}
    BY <1>6 DEF ToSet
  <2> QED
    BY <1>8, <2>1, <2>2
<1> HIDE DEF items
<1>10. \A i, j \in 1..Len(items) : items[i] = items[j] => i = j
  <2> TAKE i, j \in 1..Len(items)
  <2>1. i \in 1..n /\ j \in 1..n /\ items[i] = older[i] /\ items[j] = older[j]
    BY <1>6, <1>7, <1>8
  <2>2. i < j \/ j < i => older[i].id # older[j].id
    BY <1>6, <2>1
  <2> QED
    BY <2>1, <2>2
<1>11. CASE n > PageSize
  <2>1. z = PageSize /\ PageSize \in 1..n
    BY <1>4, <1>6, <1>11
  <2> DEFINE last == older[PageSize]
  <2>2. last \in Entry /\ last \in ToSet(older)
    BY <1>6, <1>9, <2>1
  <2>3. next = [ms |-> last.ms, id |-> last.id]
    BY <1>11
  <2> HIDE DEF last, next
  <2>4. next \in Cursor /\ next.ms = last.ms /\ next.id = last.id /\ next # NoCursor
    BY <2>2, <2>3 DEF Entry, Cursor, NoCursor
  <2>5. ASSUME NEW e \in ToSet(items)
        PROVE  e \in ToSet(older) /\ e.ms >= last.ms
    <3>1. PICK i \in 1..z : e = older[i]
      BY <1>9
    <3>2. i \in 1..n /\ (i < PageSize \/ i = PageSize)
      BY <1>4, <1>6, <1>7, <2>1
    <3>3. e.ms >= last.ms
      BY <1>6, <2>1, <2>2, <3>1, <3>2 DEF last, Entry
    <3> QED
      BY <1>9, <3>1, <3>2, <3>3
  <2>6. ASSUME NEW e \in ToSet(older), e \notin ToSet(items)
        PROVE  e.ms <= last.ms /\ e.id # last.id
    <3>1. PICK i \in 1..n : e = older[i]
      BY <1>9
    <3>2. i > PageSize
      BY <1>9, <2>1, <2>6, <3>1
    <3>3. e \in Entry
      BY <1>6, <3>1
    <3> QED
      BY <1>6, <2>1, <2>2, <3>1, <3>2, <3>3 DEF last, Entry
  <2> QED
    BY <1>1, <1>5, <1>8, <1>10, <2>2, <2>4, <2>5, <2>6
<1>12. CASE ~(n > PageSize)
  <2>1. z = n /\ next = NoCursor
    BY <1>12
  <2>2. NoCursor \in Cursor
    BY DEF Cursor, NoCursor
  <2>3. ToSet(items) = ToSet(older)
    BY <1>9, <2>1
  <2> HIDE DEF next, z, n
  <2> QED
    BY <1>1, <1>5, <1>8, <1>10, <2>1, <2>2, <2>3
<1> QED
  BY <1>11, <1>12

-----------------------------------------------------------------------------
(* Following the cursors.                                                   *)

\* What a client knows that has read some pages, what it knows at first, and
\* what one more page of the listing s makes of that.
Progress == [seen: Seq(Entry), ends: SUBSET Cursor, next: Cursor, done: BOOLEAN]

Start == [seen |-> << >>, ends |-> {}, next |-> NoCursor, done |-> FALSE]

Onward(s, x) ==
  IF x.done THEN x
  ELSE [seen |-> x.seen \o Page(s, x.next).items,
        ends |-> x.ends \cup {x.next},
        next |-> Page(s, x.next).next,
        done |-> Page(s, x.next).next = NoCursor]

\* e stands at one place of t at most.
OnceIn(t, e) == \A i, j \in 1..Len(t) : t[i] = e /\ t[j] = e => i = j

\* e has been seen once at most, and not if the cursor is still ahead of it.
Tracked(x, e) ==
  /\ OnceIn(x.seen, e)
  /\ ~x.done /\ e \in ToSet(x.seen) => ~BeforeCursor(e, x.next)

\* e is seen or the cursor is still ahead of it, and seen in the end.
Followed(x, e) ==
  /\ ~x.done /\ e \notin ToSet(x.seen) => BeforeCursor(e, x.next)
  /\ x.done => e \in ToSet(x.seen)

\* The elements of a concatenation.
LEMMA ConcatElements ==
  ASSUME NEW S, NEW a \in Seq(S), NEW b \in Seq(S)
  PROVE  ToSet(a \o b) = ToSet(a) \cup ToSet(b)
<1>1. /\ a \o b \in Seq(S) /\ Len(a \o b) = Len(a) + Len(b)
      /\ Len(a) \in Nat /\ Len(b) \in Nat
      /\ \A i \in 1..Len(a) + Len(b) :
           (a \o b)[i] = IF i <= Len(a) THEN a[i] ELSE b[i - Len(a)]
  BY ConcatProperties
<1> DEFINE c == a \o b
           m == Len(a)
           n == Len(b)
<1>2. ToSet(c) = {c[i] : i \in 1..m + n} /\ ToSet(a) = {a[i] : i \in 1..m}
      /\ ToSet(b) = {b[i] : i \in 1..n}
  <2>1. DOMAIN c = 1..m + n /\ DOMAIN a = 1..m /\ DOMAIN b = 1..n
    BY <1>1
  <2> HIDE DEF c, m, n
  <2> QED
    BY <2>1 DEF ToSet
<1> HIDE DEF c, m, n
<1>3. m \in Nat /\ n \in Nat
      /\ \A i \in 1..m + n : c[i] = IF i <= m THEN a[i] ELSE b[i - m]
  BY <1>1 DEF c, m, n
<1>4. ASSUME NEW i \in 1..m + n PROVE c[i] \in ToSet(a) \cup ToSet(b)
  <2>1. CASE i <= m
    BY <1>2, <1>3, <2>1
  <2>2. CASE ~(i <= m)
    <3>1. i - m \in 1..n /\ c[i] = b[i - m]
      BY <1>3, <2>2
    <3> QED
      BY <1>2, <3>1
  <2> QED
    BY <2>1, <2>2
<1>5. ASSUME NEW i \in 1..m PROVE a[i] \in ToSet(c)
  <2>1. i \in 1..m + n /\ c[i] = a[i]
    BY <1>3
  <2> QED
    BY <1>2, <2>1
<1>6. ASSUME NEW i \in 1..n PROVE b[i] \in ToSet(c)
  <2>1. i + m \in 1..m + n /\ ~(i + m <= m) /\ (i + m) - m = i
    BY <1>3
  <2>2. c[i + m] = b[i]
    BY <1>3, <2>1
  <2> QED
    BY <1>2, <2>1, <2>2
<1>7. ToSet(c) = ToSet(a) \cup ToSet(b)
  BY <1>2, <1>4, <1>5, <1>6
<1> QED
  BY <1>7 DEF c

\* An element occurs once in a concatenation that occurs once in either part
\* and not in both.
LEMMA ConcatOnce ==
  ASSUME NEW S, NEW a \in Seq(S), NEW b \in Seq(S), NEW e,
         OnceIn(a, e), OnceIn(b, e),
         e \notin ToSet(a) \/ e \notin ToSet(b)
  PROVE  OnceIn(a \o b, e)
<1> DEFINE c == a \o b
           m == Len(a)
           n == Len(b)
<1>1. /\ Len(c) = m + n /\ m \in Nat /\ n \in Nat
      /\ \A i \in 1..m + n : c[i] = IF i <= m THEN a[i] ELSE b[i - m]
  BY ConcatProperties
<1>2. \A i \in 1..m : a[i] \in ToSet(a)
  BY DEF ToSet
<1>3. \A i \in 1..n : b[i] \in ToSet(b)
  BY DEF ToSet
<1> HIDE DEF c, m, n
<1> SUFFICES ASSUME NEW i \in 1..m + n, NEW j \in 1..m + n, c[i] = e, c[j] = e
             PROVE  i = j
  BY <1>1 DEF c, OnceIn
<1>4. \A k \in 1..m + n : k <= m \/ k - m \in 1..n
  BY <1>1
<1>5. \A k \in 1..m + n : c[k] = e =>
        \/ k \in 1..m /\ a[k] = e /\ e \in ToSet(a)
        \/ k - m \in 1..n /\ b[k - m] = e /\ e \in ToSet(b)
  BY <1>1, <1>2, <1>3, <1>4
<1>6. CASE e \notin ToSet(b)
  BY <1>5, <1>6 DEF m, OnceIn
<1>7. CASE e \notin ToSet(a)
  <2>1. i - m = j - m
    BY <1>5, <1>7 DEF n, OnceIn
  <2> QED
    BY <1>1, <2>1
<1> QED
  BY <1>6, <1>7

\* One more page leaves the client knowing something of the kind it did.
LEMMA OnwardType ==
  ASSUME NEW s, Newest(s), NEW x \in Progress
  PROVE  Onward(s, x) \in Progress
<1>1. x.next \in Cursor /\ x.seen \in Seq(Entry) /\ x.ends \in SUBSET Cursor
  BY DEF Progress
<1>2. Page(s, x.next).items \in Seq(Entry) /\ Page(s, x.next).next \in Cursor
  BY <1>1, PageFollowsCursor
<1>3. x.seen \o Page(s, x.next).items \in Seq(Entry)
  BY <1>1, <1>2, ConcatProperties
<1> QED
  BY <1>1, <1>2, <1>3 DEF Onward, Progress

\* One more page keeps track of an event, unless its cursor stops at another
\* event of the same millisecond.
LEMMA OnwardTracks ==
  ASSUME NEW s, Newest(s), NEW x \in Progress, NEW e \in Entry,
         ~Onward(s, x).done /\ Onward(s, x).next.ms = e.ms => Onward(s, x).next.id = e.id
  PROVE  /\ Tracked(x, e) => Tracked(Onward(s, x), e)
         /\ Followed(x, e) /\ e \in ToSet(s) => Followed(Onward(s, x), e)
<1>1. CASE x.done
  BY <1>1 DEF Onward
<1>2. CASE ~x.done
  <2> DEFINE y == Onward(s, x)
             c == x.next
             items == Page(s, c).items
             next == Page(s, c).next
  <2>1. /\ y.seen = x.seen \o items /\ y.next = next /\ y.done = (next = NoCursor)
        /\ y = [seen |-> x.seen \o items, ends |-> x.ends \cup {c},
                next |-> next, done |-> next = NoCursor]
    BY <1>2 DEF Onward
  <2>2. c \in Cursor /\ x.seen \in Seq(Entry) /\ x.ends \in SUBSET Cursor
    BY DEF Progress
  <2>3. /\ items \in Seq(Entry) /\ next \in Cursor
        /\ \A i, j \in 1..Len(items) : items[i] = items[j] => i = j
        /\ \A d \in ToSet(items) :
             /\ d \in ToSet(s) /\ BeforeCursor(d, c)
             /\ next # NoCursor => d.ms >= next.ms
        /\ next # NoCursor =>
             \E d \in ToSet(s) : BeforeCursor(d, c) /\ next.ms = d.ms /\ next.id = d.id
        /\ \A d \in ToSet(s) \ ToSet(items) :
             BeforeCursor(d, c) => next # NoCursor /\ d.ms <= next.ms /\ d.id # next.id
    BY <2>2, PageFollowsCursor
  <2> HIDE DEF items, next
  <2>4. next # NoCursor /\ next.ms = e.ms => next.id = e.id
    BY <2>1
  <2>6. ToSet(y.seen) = ToSet(x.seen) \cup ToSet(items)
    BY <2>1, <2>2, <2>3, ConcatElements
  <2>7. e.ms \in Nat /\ e.id \in Nat /\ c.ms \in Nat /\ c.id \in Nat
        /\ next.ms \in Nat /\ next.id \in Nat
    BY <2>2, <2>3 DEF Entry, Cursor
  <2> HIDE DEF y, c
  <2>8. ASSUME Tracked(x, e) PROVE Tracked(y, e)
    <3>1. e \in ToSet(x.seen) => ~BeforeCursor(e, c)
      BY <1>2, <2>8 DEF Tracked, c
    <3>2. OnceIn(y.seen, e)
      <4>1. OnceIn(x.seen, e)
        BY <2>8 DEF Tracked
      <4>2. OnceIn(items, e)
        BY <2>3 DEF OnceIn
      <4>3. e \notin ToSet(x.seen) \/ e \notin ToSet(items)
        BY <2>3, <3>1
      <4> QED
        BY <2>1, <2>2, <2>3, <4>1, <4>2, <4>3, ConcatOnce
    <3>3. ASSUME ~y.done, e \in ToSet(y.seen) PROVE ~BeforeCursor(e, next)
      <4>1. next # NoCursor
        BY <2>1, <3>3
      <4>2. CASE e \in ToSet(x.seen)
        <5>1. PICK d \in ToSet(s) :
                BeforeCursor(d, c) /\ next.ms = d.ms /\ next.id = d.id
          BY <2>3, <4>1
        <5>2. ~BeforeCursor(e, c)
          BY <3>1, <4>2
        <5> QED
          BY <2>7, <4>1, <5>1, <5>2 DEF BeforeCursor
      <4>3. CASE e \in ToSet(items)
        <5>1. e.ms >= next.ms
          BY <2>3, <4>1, <4>3
        <5> QED
          BY <2>4, <2>7, <4>1, <5>1 DEF BeforeCursor
      <4> QED
        BY <2>6, <3>3, <4>2, <4>3
    <3> QED
      BY <2>1, <3>2, <3>3 DEF Tracked
  <2>9. ASSUME Followed(x, e), e \in ToSet(s) PROVE Followed(y, e)
    <3>1. e \in ToSet(x.seen) \/ BeforeCursor(e, c)
      BY <1>2, <2>9 DEF Followed, c
    <3>2. ASSUME e \notin ToSet(y.seen) PROVE ~y.done /\ BeforeCursor(e, next)
      <4>1. BeforeCursor(e, c) /\ e \notin ToSet(items)
        BY <2>6, <3>1, <3>2
      <4>2. next # NoCursor /\ e.ms <= next.ms /\ e.id # next.id
        BY <2>3, <2>9, <4>1
      <4>3. e.ms < next.ms
        BY <2>4, <2>7, <4>2
      <4> QED
        BY <2>1, <4>2, <4>3 DEF BeforeCursor
    <3> QED
      BY <2>1, <3>2 DEF Followed
  <2> QED
    BY <2>8, <2>9 DEF y
<1> QED
  BY <1>1, <1>2

\* What pages are made of is in order too; and an event of the listing is in
\* it that matches, if the read does not fail.
LEMMA FeedOfIsNewest ==
  ASSUME NEW l, OrderedLog(l), NEW n \in 0..Len(l), NEW fails, NEW w
  PROVE  /\ Newest(FeedOf(l, n, fails, w))
         /\ \A e \in ToSet(Listing(l, n)) :
              ~fails /\ e.id \in w => e \in ToSet(FeedOf(l, n, fails, w))
<1> DEFINE s == Listing(l, IF fails THEN 0 ELSE n)
           I == {i \in DOMAIN s : s[i].id \in w}
<1>1. FeedOf(l, n, fails, w) = Kept(s, I)
  BY DEF FeedOf, Matching
<1>2. Newest(s)
  <2>1. (IF fails THEN 0 ELSE n) \in 0..Len(l)
    BY DEF OrderedLog
  <2> QED
    BY <2>1, ListingIsNewest
<1>3. ~fails => s = Listing(l, n)
  OBVIOUS
<1> HIDE DEF s
<1>4. DOMAIN s = 1..Len(s) /\ I \in SUBSET (1..Len(s)) /\ ToSet(s) = {s[i] : i \in 1..Len(s)}
  BY <1>2 DEF Newest, ToSet
<1>5. Newest(Kept(s, I)) /\ ToSet(Kept(s, I)) = {s[k] : k \in I}
  <2> HIDE DEF I
  <2> QED BY <1>2, <1>4, KeptIsNewest
<1>6. ASSUME NEW e \in ToSet(s), e.id \in w PROVE e \in ToSet(Kept(s, I))
  <2>1. PICK i \in 1..Len(s) : e = s[i]
    BY <1>4
  <2>2. i \in I
    BY <1>4, <1>6, <2>1
  <2> QED
    BY <1>5, <2>1, <2>2
<1> QED
  BY <1>1, <1>3, <1>5, <1>6

\* The function Reading is defined with.
IsReading(l, at, lost, wanted, r) ==
  r = [i \in 0..Len(at) |->
         IF i = 0 THEN [seen |-> << >>, ends |-> {}, next |-> NoCursor, done |-> FALSE]
         ELSE LET sofar == r[i - 1]
                  p == Page(FeedOf(l, at[i], i \in lost, wanted[i]), sofar.next)
              IN IF sofar.done THEN sofar
                 ELSE [seen |-> sofar.seen \o p.items,
                       ends |-> sofar.ends \cup {sofar.next},
                       next |-> p.next,
                       done |-> p.next = NoCursor]]

\* The recursive function of Reading exists, and goes on page by page.
LEMMA ReadingByStep ==
  ASSUME NEW l, OrderedLog(l), NEW at \in Seq(0..Len(l)), NEW lost, NEW wanted
  PROVE  \E f \in [0..Len(at) -> Progress] :
           /\ Reading(l, at, lost, wanted) = f[Len(at)]
           /\ f[0] = Start
           /\ \A k \in 1..Len(at) : f[k] = Onward(FeedOf(l, at[k], k \in lost, wanted[k]), f[k - 1])
<1> DEFINE n == Len(at)
           Step(k, x) == Onward(FeedOf(l, at[k], k \in lost, wanted[k]), x)
           G == [k \in 1..n |-> [x \in Progress |-> Step(k, x)]]
<1>1. n \in Nat /\ Start \in Progress
  BY DEF Start, Progress, NoCursor, Cursor
<1>2. \A k \in 1..n, x \in Progress : Step(k, x) \in Progress
  <2> TAKE k \in 1..n, x \in Progress
  <2>1. Newest(FeedOf(l, at[k], k \in lost, wanted[k]))
    BY FeedOfIsNewest
  <2> QED
    BY <2>1, OnwardType
<1>3. G \in [1..n -> [Progress -> Progress]]
  <2> HIDE DEF Step
  <2> QED BY <1>2
<1>4. \A k \in 1..n, x \in Progress : G[k][x] = Step(k, x)
  OBVIOUS
<1>5. PICK h \in [0..n -> Progress] : Iterates(h, n, Start, G)
  <2> HIDE DEF G, n
  <2> QED BY <1>1, <1>3, Recursion
<1>6. h[0] = Start /\ \A k \in 1..n : h[k] = Step(k, h[k - 1])
  <2> HIDE DEF G, Step
  <2>1. \A k \in 1..n : h[k - 1] \in Progress
    BY <1>1
  <2> QED
    BY <1>4, <1>5, <2>1 DEF Iterates
<1>7. IsReading(l, at, lost, wanted, h)
  <2>1. h = [k \in 0..n |-> IF k = 0 THEN Start ELSE Step(k, h[k - 1])]
    <3> HIDE DEF Step, G
    <3>1. \A k \in 0..n : h[k] = IF k = 0 THEN Start ELSE Step(k, h[k - 1])
      BY <1>1, <1>6
    <3> QED
      BY <3>1
  <2> QED
    BY <2>1, Zenon DEF IsReading, Start, Onward
<1> DEFINE f == CHOOSE g : IsReading(l, at, lost, wanted, g)
<1>8. IsReading(l, at, lost, wanted, f)
  BY <1>7
<1>9. Reading(l, at, lost, wanted) = f[n]
  BY Zenon DEF Reading, IsReading
<1> HIDE DEF f, G
<1>10. f = [k \in 0..n |-> IF k = 0 THEN Start ELSE Step(k, f[k - 1])]
  BY <1>8, Zenon DEF IsReading, Start, Onward
<1> HIDE DEF Step
<1>11. f[0] = Start /\ \A k \in 1..n : f[k] = Step(k, f[k - 1])
  <2> HIDE DEF n
  <2>1. \A k \in 0..n : f[k] = IF k = 0 THEN Start ELSE Step(k, f[k - 1])
    BY <1>10, Zenon
  <2>2. 0 \in 0..n /\ \A k \in 1..n : k \in 0..n /\ k # 0
    BY <1>1
  <2> QED
    BY <2>1, <2>2
<1>12. \A k \in 0..n : f[k] \in Progress
  <2> DEFINE P == {k \in 0..n : f[k] \in Progress}
  <2>1. 0 \in P
    BY <1>1, <1>11
  <2>2. ASSUME NEW k \in 1..n, k - 1 \in P PROVE k \in P
    BY <1>1, <1>2, <1>11, <2>2
  <2>3. 0..n \subseteq P
    <3> HIDE DEF P, n
    <3> QED BY <1>1, <2>1, <2>2, Induction
  <2> QED
    BY <2>3
<1>13. f \in [0..n -> Progress]
  BY <1>10, <1>12
<1> QED
  BY <1>9, <1>11, <1>13 DEF Step

\* e and a cursor the client has followed are of one millisecond, and the
\* cursor is not e.
Tied(x, e) == \E c \in x.ends : c.ms = e.ms /\ c.id # e.id

\* A client that follows the cursors to the end sees an event that no cursor
\* ties with once at most, and once if it was listed all the time.
LEMMA ReadingTracks ==
  ASSUME NEW l, OrderedLog(l), NEW at \in Seq(0..Len(l)), NEW lost, NEW wanted,
         Reading(l, at, lost, wanted).done, NEW e \in Entry, ~Tied(Reading(l, at, lost, wanted), e)
  PROVE  /\ Reading(l, at, lost, wanted) \in Progress
         /\ OnceIn(Reading(l, at, lost, wanted).seen, e)
         /\ (\A k \in 1..Len(at) : e \in ToSet(FeedOf(l, at[k], k \in lost, wanted[k])))
              => e \in ToSet(Reading(l, at, lost, wanted).seen)
<1> DEFINE n == Len(at)
           s(k) == FeedOf(l, at[k], k \in lost, wanted[k])
<1>1. PICK f \in [0..n -> Progress] :
         /\ Reading(l, at, lost, wanted) = f[n]
         /\ f[0] = Start
         /\ \A k \in 1..n : f[k] = Onward(s(k), f[k - 1])
  BY ReadingByStep
<1>2. n \in Nat /\ \A k \in 1..n : Newest(s(k))
  <2>1. n \in Nat /\ \A k \in 1..n : at[k] \in 0..Len(l)
    OBVIOUS
  <2>2. ASSUME NEW k \in 1..n PROVE Newest(s(k))
    <3>1. at[k] \in 0..Len(l)
      BY <2>1
    <3> QED
      BY <3>1, FeedOfIsNewest
  <2> QED
    BY <2>1, <2>2
<1>3. \A k \in 1..n : f[k - 1] \in Progress /\ k - 1 \in 0..n
  BY <1>2, SMTT(20)
<1> HIDE DEF s, n
<1>4. \A k \in 0..n : \A j \in 0..n : k <= j => f[k].ends \subseteq f[j].ends
  <2> TAKE k \in 0..n
  <2> DEFINE P == {j \in 0..n : k <= j => f[k].ends \subseteq f[j].ends}
  <2>1. 0 \in P
    BY <1>2
  <2>2. ASSUME NEW j \in 1..n, j - 1 \in P PROVE j \in P
    <3>1. f[j - 1].ends \subseteq f[j].ends
      <4>1. f[j] = Onward(s(j), f[j - 1])
        BY <1>1
      <4>2. \A x, p : x.ends \subseteq Onward(p, x).ends
        BY DEF Onward
      <4> QED
        BY <4>1, <4>2
    <3> QED
      BY <1>2, <2>2, <3>1
  <2>3. 0..n \subseteq P
    <3> HIDE DEF P
    <3> QED BY <1>2, <2>1, <2>2, Induction
  <2> QED
    BY <2>3
<1>5. ASSUME NEW k \in 1..n, ~f[k].done
      PROVE  f[k].next.ms = e.ms => f[k].next.id = e.id
  <2>1. k # n
    BY <1>1, <1>5
  <2>2. k + 1 \in 1..n /\ (k + 1) - 1 = k
    BY <1>2, <2>1
  <2>3. f[k].next \in f[k + 1].ends
    <3>1. f[k + 1] = Onward(s(k + 1), f[k])
      BY <1>1, <2>2
    <3>2. \A x, p : ~x.done => x.next \in Onward(p, x).ends
      BY DEF Onward
    <3> QED
      BY <1>5, <3>1, <3>2
  <2>4. f[k].next \in f[n].ends
    BY <1>2, <1>4, <2>2, <2>3
  <2> QED
    BY <1>1, <2>4 DEF Tied
<1>6. Tracked(Start, e) /\ Followed(Start, e)
  BY DEF Tracked, Followed, Start, BeforeCursor, OnceIn, ToSet
<1>7. ASSUME NEW k \in 1..n
      PROVE  /\ Tracked(f[k - 1], e) => Tracked(f[k], e)
             /\ Followed(f[k - 1], e) /\ e \in ToSet(s(k)) => Followed(f[k], e)
  <2>1. f[k] = Onward(s(k), f[k - 1]) /\ f[k - 1] \in Progress /\ Newest(s(k))
    BY <1>1, <1>2, <1>3
  <2>2. ~f[k].done /\ f[k].next.ms = e.ms => f[k].next.id = e.id
    BY <1>5
  <2> QED
    BY <2>1, <2>2, OnwardTracks
<1>8. \A k \in 0..n : Tracked(f[k], e)
  <2> DEFINE P == {k \in 0..n : Tracked(f[k], e)}
  <2>1. 0 \in P
    BY <1>1, <1>2, <1>6
  <2>2. ASSUME NEW k \in 1..n, k - 1 \in P PROVE k \in P
    BY <1>2, <1>7, <2>2
  <2>3. 0..n \subseteq P
    <3> HIDE DEF P
    <3> QED BY <1>2, <2>1, <2>2, Induction
  <2> QED
    BY <2>3
<1>9. ASSUME \A k \in 1..n : e \in ToSet(s(k)) PROVE \A k \in 0..n : Followed(f[k], e)
  <2> DEFINE P == {k \in 0..n : Followed(f[k], e)}
  <2>1. 0 \in P
    BY <1>1, <1>2, <1>6
  <2>2. ASSUME NEW k \in 1..n, k - 1 \in P PROVE k \in P
    BY <1>2, <1>7, <1>9, <2>2
  <2>3. 0..n \subseteq P
    <3> HIDE DEF P
    <3> QED BY <1>2, <2>1, <2>2, Induction
  <2> QED
    BY <2>3
<1>10. n \in 0..n
  BY <1>2
<1> QED
  BY <1>1, <1>8, <1>9, <1>10 DEF Tracked, Followed, s, n

\* What is seen is seen once if it stands at one place.
LEMMA SeenOnce ==
  ASSUME NEW S, NEW t \in Seq(S), NEW e \in ToSet(t), OnceIn(t, e)
  PROVE  TimesSeen(t, e) = 1
<1>1. PICK i \in 1..Len(t) : t[i] = e
  BY DEF ToSet
<1>2. {j \in DOMAIN t : t[j] = e} = {i}
  BY <1>1 DEF OnceIn
<1> QED
  BY <1>2, FS_Singleton DEF TimesSeen

\* What is listed now and later has been listed in between: an event only
\* leaves the window, or is hidden by an alert, for good.
LEMMA StaysListed ==
  ASSUME NEW l, OrderedLog(l), NEW i \in 0..Len(l), NEW j \in 0..Len(l), NEW k \in 0..Len(l),
         i <= j, j <= k, NEW e \in ToSet(Listing(l, i)) \cap ToSet(Listing(l, k))
  PROVE  e \in ToSet(Listing(l, j))
<1>1. PICK x \in 1..i : Listed(l, i, x) /\ e = l[x]
  BY ListingIsNewest
<1>2. PICK y \in 1..k : Listed(l, k, y) /\ e = l[y]
  BY ListingIsNewest
<1>3. Len(l) \in Nat /\ Window \in Nat
  BY FeedAssumption DEF OrderedLog
<1>4. x \in 1..Len(l) /\ y \in 1..Len(l)
  BY <1>1, <1>2, <1>3
<1>5. x = y
  BY <1>1, <1>2, <1>4 DEF OrderedLog
<1>6. x \in 1..j /\ x > j - Window
  BY <1>1, <1>2, <1>3, <1>5 DEF Listed
<1>7. ASSUME l[x].noise, NEW z \in x + 1..j PROVE ~l[z].noise
  <2>1. z \in x + 1..k
    BY <1>3, <1>6
  <2> QED
    BY <1>2, <1>5, <1>7, <2>1 DEF Listed
<1>8. Listed(l, j, x)
  BY <1>6, <1>7 DEF Listed
<1> QED
  BY <1>1, <1>6, <1>8, ListingIsNewest

\* PagesAreComplete for one log and the moments of one reading.
ReadingIsComplete(l, at, lost, wanted) ==
  LET r == Reading(l, at, lost, wanted) IN
  r.done =>
    /\ lost = {} =>
         \A e \in ToSet(Listing(l, at[1])) \cap ToSet(Listing(l, at[Len(at)])) :
           (\A k \in 1..Len(at) : e.id \in wanted[k]) =>
             TimesSeen(r.seen, e) = 1 \/ Tied(r, e)
    /\ \A e \in ToSet(r.seen) : TimesSeen(r.seen, e) = 1 \/ Tied(r, e)

\* Whatever the log, the lengths of the window and of a page, and however many
\* pages are read while events come in and the matching ones change: a client
\* that follows the cursors to the end sees no event twice, even if reads of
\* the log fail; and if none does, it sees each event once that was listed when
\* it began, still is and matched all the while.  Events of the same
\* millisecond as a cursor are excepted (web4Graph.ts:537-596, 1127-1158).
THEOREM AnyReadingIsComplete ==
  ASSUME NEW l, OrderedLog(l), NEW at \in Seq(0..Len(l)), at # << >>,
         NEW lost, NEW wanted,
         \A i, j \in 1..Len(at) : i <= j => at[i] <= at[j]
  PROVE  ReadingIsComplete(l, at, lost, wanted)
<1> DEFINE r == Reading(l, at, lost, wanted)
           n == Len(at)
<1>1. SUFFICES ASSUME r.done
               PROVE  /\ lost = {} =>
                           \A e \in ToSet(Listing(l, at[1])) \cap ToSet(Listing(l, at[n])) :
                             (\A k \in 1..n : e.id \in wanted[k]) =>
                               TimesSeen(r.seen, e) = 1 \/ Tied(r, e)
                      /\ \A e \in ToSet(r.seen) : TimesSeen(r.seen, e) = 1 \/ Tied(r, e)
  BY DEF ReadingIsComplete
<1>2. n \in Nat /\ n >= 1 /\ \A k \in 1..n : at[k] \in 0..Len(l)
  OBVIOUS
<1>3. ASSUME NEW e \in Entry, ~Tied(r, e)
      PROVE  /\ r \in Progress
             /\ OnceIn(r.seen, e)
             /\ (\A k \in 1..n : e \in ToSet(FeedOf(l, at[k], k \in lost, wanted[k]))) => e \in ToSet(r.seen)
  BY <1>1, <1>3, ReadingTracks
<1>4. r.seen \in Seq(Entry)
  <2>1. \E f \in [0..n -> Progress] : r = f[n]
    BY ReadingByStep
  <2> HIDE DEF r
  <2> QED
    BY <1>2, <2>1 DEF Progress
<1> HIDE DEF r
<1>5. ASSUME NEW e \in ToSet(r.seen) PROVE TimesSeen(r.seen, e) = 1 \/ Tied(r, e)
  <2>1. e \in Entry
    BY <1>4 DEF ToSet
  <2> QED
    BY <1>3, <1>4, <2>1, SeenOnce
<1>6. ASSUME lost = {},
             NEW e \in ToSet(Listing(l, at[1])) \cap ToSet(Listing(l, at[n])),
             \A k \in 1..n : e.id \in wanted[k], ~Tied(r, e)
      PROVE  TimesSeen(r.seen, e) = 1
  <2>1. e \in Entry
    <3>1. Listing(l, at[1]) \in Seq(Entry)
      BY <1>2, ListingIsNewest DEF Newest
    <3> QED
      BY <3>1 DEF ToSet
  <2>2. ASSUME NEW k \in 1..n PROVE e \in ToSet(FeedOf(l, at[k], k \in lost, wanted[k]))
    <3>1. 1 \in 1..n /\ n \in 1..n /\ at[1] <= at[k] /\ at[k] <= at[n]
      BY <1>2
    <3>2. e \in ToSet(Listing(l, at[k]))
      BY <1>2, <1>6, <3>1, StaysListed
    <3> QED
      BY <1>2, <1>6, <3>2, FeedOfIsNewest
  <2>3. e \in ToSet(r.seen)
    BY <1>3, <1>6, <2>1, <2>2
  <2> QED
    BY <1>3, <1>4, <1>6, <2>1, <2>3, SeenOnce
<1> QED
  BY <1>5, <1>6

\* The parts of Logs: orders of ids, times, places of alerts, and the log of
\* these.
Ids == {f \in [Upto(MaxEvents) -> Upto(MaxEvents)] : IsInjective(f)}

Times ==
  {f \in [Upto(MaxEvents) -> Upto(MaxEvents)] :
     f[1] = 1 /\ \A i \in 2..MaxEvents : f[i] - f[i - 1] \in {0, 1}}

Alerts == {s \in SUBSET Upto(MaxEvents) : Cardinality(s) \in {0, 2}}

Row(t, f, s, i) == [ms |-> t[i], id |-> f[i], noise |-> i \in s]

LogOf(t, f, s) == [i \in Upto(MaxEvents) |-> Row(t, f, s, i)]

\* A log is made of one of each.
LEMMA LogsByParts == Logs = {LogOf(t, f, s) : t \in Times, f \in Ids, s \in Alerts}
  BY SMT DEF Logs, Ids, Times, Alerts, LogOf, Row

\* The bounded logs and readings are such logs and readings.
LEMMA LogsAreOrdered ==
  ASSUME NEW l \in Logs
  PROVE  OrderedLog(l) /\ Len(l) = MaxEvents
<1>1. MaxEvents \in Nat \ {0}
  BY FeedAssumption
<1>2. PICK t \in Times, f \in Ids, s \in Alerts : l = LogOf(t, f, s)
  BY LogsByParts
<1> DEFINE D == 1..MaxEvents
<1>3. l = [i \in D |-> Row(t, f, s, i)]
  BY <1>2 DEF LogOf, Upto
<1>4. /\ t \in [D -> D] /\ f \in [D -> D]
      /\ \A i \in 2..MaxEvents : t[i] - t[i - 1] \in {0, 1}
      /\ IsInjective(f)
  BY DEF Times, Ids, Upto
<1>5. ASSUME NEW i \in D
      PROVE  /\ l[i] = Row(t, f, s, i) /\ Row(t, f, s, i) \in Entry
             /\ l[i].ms = t[i] /\ l[i].id = f[i]
             /\ t[i] \in Nat /\ f[i] \in Nat
  <2>1. l[i] = Row(t, f, s, i)
    BY <1>3
  <2>2. t[i] \in D /\ f[i] \in D
    BY <1>4, Zenon
  <2>3. t[i] \in Nat \ {0} /\ f[i] \in Nat
    BY <1>1, <2>2
  <2> QED
    BY <2>1, <2>3 DEF Entry, Row
<1>6. l \in [D -> Entry]
  BY <1>3, <1>5
<1>7. l \in Seq(Entry) /\ Len(l) = MaxEvents
  BY <1>1, <1>6
<1>8. \A i, j \in D : l[i].id = l[j].id => i = j
  BY <1>4, <1>5 DEF IsInjective
<1>9. \A i, j \in D : i <= j => t[i] <= t[j]
  <2> TAKE i \in D
  <2> DEFINE P == {j \in 0..MaxEvents : j >= i => t[i] <= t[j]}
  <2>1. 0 \in P
    BY <1>1
  <2>2. ASSUME NEW j \in 1..MaxEvents, j - 1 \in P PROVE j \in P
    <3>1. CASE j > i
      <4>1. j \in 2..MaxEvents /\ j - 1 \in D /\ j - 1 >= i
        BY <1>1, <3>1
      <4>2. t[j] - t[j - 1] \in {0, 1} /\ t[i] <= t[j - 1]
        BY <1>4, <2>2, <4>1
      <4>3. t[i] \in Nat /\ t[j] \in Nat /\ t[j - 1] \in Nat
        BY <1>5, <4>1
      <4>4. t[i] <= t[j]
        BY <4>2, <4>3
      <4> QED
        BY <4>4
    <3>2. CASE ~(j > i)
      BY <1>1, <1>5, <3>2
    <3> QED
      BY <3>1, <3>2
  <2>3. 0..MaxEvents \subseteq P
    <3> HIDE DEF P
    <3> QED BY <1>1, <2>1, <2>2, Induction
  <2> QED
    BY <1>1, <2>3
<1> QED
  BY <1>5, <1>7, <1>8, <1>9 DEF OrderedLog

\* The pages of every bounded log are complete, for every bound.
LEMMA BoundedReadings == PagesAreComplete
<1> SUFFICES ASSUME NEW l \in Logs, NEW at \in Moments, NEW lost \in Failures,
                    NEW wanted \in Filters
             PROVE  ReadingIsComplete(l, at, lost, wanted) /\ Len(at) = MaxEvents
  BY DEF PagesAreComplete, ReadingIsComplete, Tied, Upto
<1>1. MaxEvents \in Nat \ {0}
  BY FeedAssumption
<1>2. OrderedLog(l) /\ Len(l) = MaxEvents
  BY LogsAreOrdered
<1>3. /\ at \in [1..MaxEvents -> 1..MaxEvents]
      /\ \A i \in 2..MaxEvents : at[i - 1] <= at[i]
  BY DEF Moments, Upto
<1>4. Len(at) = MaxEvents /\ at \in Seq(0..Len(l)) /\ at # << >>
  <2>1. at \in [1..MaxEvents -> 0..Len(l)]
    BY <1>1, <1>2, <1>3
  <2> QED
    BY <1>1, <2>1
<1>5. \A i, j \in 1..MaxEvents : i <= j => at[i] <= at[j]
  <2> TAKE i \in 1..MaxEvents
  <2> DEFINE P == {j \in 0..MaxEvents : j >= i => at[i] <= at[j]}
  <2>1. 0 \in P
    BY <1>1
  <2>2. ASSUME NEW j \in 1..MaxEvents, j - 1 \in P PROVE j \in P
    <3>1. CASE j > i
      <4>1. j \in 2..MaxEvents /\ j - 1 \in 1..MaxEvents /\ j - 1 >= i
        BY <1>1, <3>1
      <4>2. at[j - 1] <= at[j] /\ at[i] <= at[j - 1]
        BY <1>3, <2>2, <4>1
      <4>3. at[i] \in Nat /\ at[j] \in Nat /\ at[j - 1] \in Nat
        BY <1>3, <4>1
      <4> QED
        BY <1>1, <4>2, <4>3
    <3>2. CASE ~(j > i)
      BY <1>1, <1>3, <3>2
    <3> QED
      BY <3>1, <3>2
  <2>3. 0..MaxEvents \subseteq P
    <3> HIDE DEF P
    <3> QED BY <1>1, <2>1, <2>2, Induction
  <2> QED
    BY <1>1, <2>3
<1> QED
  BY <1>2, <1>4, <1>5, AnyReadingIsComplete

-----------------------------------------------------------------------------
(* The strip.                                                               *)

\* The log is empty, and nothing has been read of it.
LEMMA FeedInitial == FeedInit => FeedTypeOK
<1> SUFFICES ASSUME FeedInit PROVE FeedTypeOK
  OBVIOUS
<1>1. log \in Seq(Event) /\ Len(log) = 0
  BY DEF FeedInit
<1>2. MaxEvents \in Nat /\ MaxTrouble \in Nat
  BY FeedAssumption, LiveFeedAssumption
<1>3. {told, channel, visible} \subseteq BOOLEAN
  BY DEF FeedInit
<1>4. 0 \in 0..Len(log) /\ Len(log) <= MaxEvents /\ 0 \in 0..MaxTrouble
  BY <1>1, <1>2
<1>5. /\ edge \in [at: {"none", "fresh", "stale"}, n: 0..Len(log)]
      /\ origin \in [at: {"idle", "reading", "answering"}, n: 0..Len(log)]
      /\ live \in [at: {"idle", "asked", "answered"}, got: 0..Len(log)]
  BY <1>4 DEF FeedInit
<1>6. shown \in 0..Len(log) /\ trouble \in 0..MaxTrouble
  BY <1>4 DEF FeedInit
<1> QED
  BY <1>1, <1>3, <1>4, <1>5, <1>6 DEF FeedTypeOK

\* The log only grows, and what a copy or an answer knows of it is handed on.
LEMMA FeedInductive == FeedTypeOK /\ [FeedNext]_feedVars => FeedTypeOK'
<1> SUFFICES ASSUME FeedTypeOK, [FeedNext]_feedVars PROVE FeedTypeOK'
  OBVIOUS
<1> USE FeedAssumption, LiveFeedAssumption DEF FeedTypeOK, Fine, Trouble, pvars
<1>1. ASSUME NEW noise \in BOOLEAN, Insert(noise) PROVE FeedTypeOK'
  <2> DEFINE e == [ms |-> Len(log) + 1, id |-> Len(log) + 1, noise |-> noise]
  <2>1. Len(log) \in Nat /\ Len(log) + 1 <= MaxEvents /\ MaxEvents \in Nat
    BY <1>1 DEF Insert
  <2>2. e \in Event
    BY <2>1 DEF Event, Upto
  <2>3. log' = Append(log, e)
    BY <1>1 DEF Insert
  <2> HIDE DEF e
  <2>4. log' \in Seq(Event) /\ Len(log') = Len(log) + 1
    BY <2>2, <2>3
  <2>5. 0..Len(log) \subseteq 0..Len(log')
    BY <2>1, <2>4
  <2> QED
    BY <1>1, <2>1, <2>4, <2>5 DEF Insert
<1>2. ASSUME EdgeAges PROVE FeedTypeOK'
  BY <1>2 DEF EdgeAges
<1>3. ASSUME EdgeServes PROVE FeedTypeOK'
  BY <1>3 DEF EdgeServes
<1>4. ASSUME EdgeForwards PROVE FeedTypeOK'
  BY <1>4 DEF EdgeForwards
<1>5. ASSUME RouteReads PROVE FeedTypeOK'
  BY <1>5 DEF RouteReads
<1>6. ASSUME RouteAnswers PROVE FeedTypeOK'
  BY <1>6 DEF RouteAnswers
<1>6a. ASSUME RouteReadsNothing PROVE FeedTypeOK'
  BY <1>6a DEF RouteReadsNothing
<1>7. ASSUME RouteFails PROVE FeedTypeOK'
  BY <1>7 DEF RouteFails
<1>8. ASSUME Poll PROVE FeedTypeOK'
  BY <1>8 DEF Poll, Refresh
<1>9. ASSUME Told PROVE FeedTypeOK'
  <2>1. live' = [at |-> "asked", got |-> 0] \/ live' = live
    BY <1>9 DEF Told, Refresh
  <2>2. live' \in [at: {"idle", "asked", "answered"}, got: 0..Len(log)]
    BY <2>1
  <2> QED
    BY <1>9, <2>2 DEF Told
<1>10. ASSUME Switch PROVE FeedTypeOK'
  BY <1>10 DEF Switch, Refresh
<1>11. ASSUME Connect PROVE FeedTypeOK'
  BY <1>11 DEF Connect
<1>12. ASSUME Apply PROVE FeedTypeOK'
  BY <1>12 DEF Apply
<1>13. ASSUME FetchFails PROVE FeedTypeOK'
  BY <1>13 DEF FetchFails
<1>14. CASE UNCHANGED feedVars
  BY <1>14 DEF feedVars
<1> QED
  BY <1>1, <1>2, <1>3, <1>4, <1>5, <1>6, <1>7, <1>8, <1>9, <1>10, <1>11, <1>12,
     <1>13, <1>14, <1>6a DEF FeedNext

\* However many events come in and whatever fails, neither the CDN's copy nor
\* the route nor the strip ever knows of a row that is not in the log
\* (LiveFeed.tsx:75-153, httpCache.ts:3-10).
THEOREM FeedTypes == FeedSpec => []FeedTypeOK
  BY FeedInitial, FeedInductive, PTL DEF FeedSpec

\* What the run checks of the pages, for every bound (web4Graph.ts:537-596).
THEOREM NothingIsMissed == FeedSpec => []PagesMissNothing
<1>1. PagesMissNothing
  BY BoundedReadings DEF PagesMissNothing
<1> QED
  BY <1>1, PTL

-----------------------------------------------------------------------------
(* The leaderboard.                                                         *)

\* Each ranking is bounded by what made it: one just computed by the age of
\* its run, Redis' copy by a run and its own age, a run's answer by Redis'
\* whole life on top of both, the CDN's copy by all of these and its own age.
RankingsAge ==
  /\ \A a \in redis.listed : suspendedFor[a] <= MaxRun + redis.age
  /\ \A w \in Runs, a \in Agents :
       a \in run[w].listed =>
         /\ run[w].at = "store" => suspendedFor[a] <= run[w].age
         /\ run[w].at = "answer" => suspendedFor[a] <= MaxRun + Ttl + run[w].age
  /\ \A a \in cdn.listed : suspendedFor[a] <= MaxRun + Ttl + MaxRun + cdn.age

BoardInv == TypeOK /\ RankingsAge

USE LeaderboardAssumption DEF NotSuspended, Servable, Horizon

\* The board starts empty.
LEMMA BoardInitial == Init => BoardInv
  BY DEF Init, BoardInv, TypeOK, RankingsAge, NoCopy, Copy, NoRun, Run

\* The reads and writes of the routes keep the invariant.
LEMMA BoardInductive == BoardInv /\ [Next]_vars => BoardInv'
<1> SUFFICES ASSUME BoardInv, [Next]_vars PROVE BoardInv'
  OBVIOUS
<1> USE DEF BoardInv, TypeOK, RankingsAge, Copy, Run
<1>1. ASSUME NEW w \in Runs, Visit(w) PROVE BoardInv'
  BY <1>1 DEF Visit, NoRun
<1>2. ASSUME NEW w \in Runs, Lookup(w) PROVE BoardInv'
  <2>1. CASE redis.age <= Ttl /\ run' = [run EXCEPT ![w].at = "answer", ![w].listed = redis.listed]
    BY <1>2, <2>1 DEF Lookup
  <2>2. CASE run' = [run EXCEPT ![w].at = "compute"]
    BY <1>2, <2>2 DEF Lookup
  <2> QED
    BY <1>2, <2>1, <2>2 DEF Lookup
<1>3. ASSUME NEW w \in Runs, Compute(w) PROVE BoardInv'
  <2> DEFINE listed == {a \in Agents : suspendedFor[a] = NotSuspended}
  <2>1. run' = [run EXCEPT ![w].at = "store", ![w].listed = listed]
        /\ run[w].at = "compute" /\ UNCHANGED <<suspendedFor, redis, cdn>>
    BY <1>3 DEF Compute
  <2>2. listed \in SUBSET Agents /\ \A a \in listed : suspendedFor[a] = -1
    OBVIOUS
  <2> HIDE DEF listed
  <2>3. run'[w].listed = listed /\ run'[w].at = "store" /\ run'[w].age = run[w].age
        /\ \A v \in Runs \ {w} : run'[v] = run[v]
    BY <2>1
  <2>4. TypeOK'
    BY <2>1, <2>2, ZenonT(40)
  <2>5. RankingsAge'
    BY <2>1, <2>2, <2>3
  <2> QED
    BY <2>4, <2>5
<1>4. ASSUME NEW w \in Runs, Store(w) PROVE BoardInv'
  BY <1>4 DEF Store
<1>5. ASSUME NEW w \in Runs, Answer(w) PROVE BoardInv'
  BY <1>5 DEF Answer, NoRun
<1>6. ASSUME NEW w \in Runs, Abort(w) PROVE BoardInv'
  BY <1>6 DEF Abort, NoRun
<1>7. ASSUME NEW a \in Agents, Suspend(a) PROVE BoardInv'
  BY <1>7 DEF Suspend
<1>8. ASSUME NEW a \in Agents, Unsuspend(a) PROVE BoardInv'
  BY <1>8 DEF Unsuspend
<1>9. CASE Tick
  <2> USE DEF Older, NoCopy, NoRun
  <2>1. suspendedFor' \in [Agents -> NotSuspended..Horizon + 1]
    BY <1>9 DEF Tick
  <2>2. \A a \in Agents : suspendedFor'[a] <= suspendedFor[a] + 1
                          /\ (suspendedFor[a] = -1 => suspendedFor'[a] = -1)
    BY <1>9 DEF Tick
  <2>3. redis' \in Copy(Ttl) /\ cdn' \in Copy(Servable)
    <3>1. ASSUME NEW life \in Nat, NEW copy \in Copy(life)
          PROVE Older(copy, life) \in Copy(life)
      <4>1. CASE copy.age >= life
        BY <4>1
      <4>2. CASE copy.age < life
        BY <4>2
      <4> QED
        BY <4>1, <4>2
    <3>2. Ttl \in Nat /\ Servable \in Nat
      OBVIOUS
    <3> QED
      BY <1>9, <3>1, <3>2 DEF Tick
  <2>4. run' \in [Runs -> Run]
    BY <1>9 DEF Tick
  <2>5. \A a \in redis'.listed : suspendedFor'[a] <= MaxRun + redis'.age
    BY <1>9, <2>2 DEF Tick
  <2>6. \A a \in cdn'.listed : suspendedFor'[a] <= MaxRun + Ttl + MaxRun + cdn'.age
    BY <1>9, <2>2 DEF Tick
  <2>7. ASSUME NEW w \in Runs, NEW a \in Agents, a \in run'[w].listed
        PROVE  /\ run'[w].at = "store" => suspendedFor'[a] <= run'[w].age
               /\ run'[w].at = "answer" => suspendedFor'[a] <= MaxRun + Ttl + run'[w].age
    <3>1. run[w] # NoRun /\ run'[w] = [run[w] EXCEPT !.age = @ + 1]
      BY <1>9, <2>7 DEF Tick
    <3>2. run'[w].at = run[w].at /\ run'[w].listed = run[w].listed
          /\ run'[w].age = run[w].age + 1 /\ run[w].age \in 0..MaxRun
      BY <3>1
    <3>3. suspendedFor[a] \in Int /\ suspendedFor'[a] \in Int
      BY <2>1
    <3> QED
      BY <2>2, <2>7, <3>2, <3>3
  <2>8. TypeOK'
    BY <2>1, <2>3, <2>4
  <2>9. RankingsAge'
    BY <2>5, <2>6, <2>7
  <2> QED
    BY <2>8, <2>9
<1>10. CASE UNCHANGED vars
  BY <1>10 DEF vars
<1> QED
  BY <1>1, <1>2, <1>3, <1>4, <1>5, <1>6, <1>7, <1>8, <1>9, <1>10 DEF Next

\* The invariant is stronger than the property.
LEMMA BoardSafe == BoardInv => SuspendedAgentsLeave
  BY DEF BoardInv, TypeOK, RankingsAge, Copy, Run, SuspendedAgentsLeave, Shown

\* The copies and the runs keep their shape (cache.ts:62-97).
THEOREM BoardTypes == Spec => []TypeOK
<1>1. BoardInv /\ [Next]_vars => BoardInv'
  BY BoardInductive
<1>2. BoardInv => TypeOK
  BY DEF BoardInv
<1> QED
  BY BoardInitial, <1>1, <1>2, PTL DEF Spec

\* A suspended agent is shown no longer than two runs and the lives of both
\* copies, whatever those are (leaderboard.ts:100-114, httpCache.ts:3).
THEOREM SuspensionShows == Spec => []SuspendedAgentsLeave
<1>1. BoardInv /\ [Next]_vars => BoardInv'
  BY BoardInductive
<1> QED
  BY BoardInitial, <1>1, BoardSafe, PTL DEF Spec

=============================================================================
