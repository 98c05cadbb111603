----------------------------- MODULE MeasureProofs -----------------------------
(***************************************************************************)
(* For any texts, words, questions, sizes, limits, times and events: what  *)
(* a search returns and in which order, what the gate promises and what    *)
(* the two reports of the paired difference say.                           *)
(***************************************************************************)
EXTENDS Measure, FiniteSetTheorems, WellFoundedInduction, TLAPS

-------------------------------------------------------------------------------
(* Ranks.  In a finite set in strict order R the elements have 0, 1, ...   *)
(* elements before them, which is what InOrder lists them by.              *)
IsOrder(S, R) ==
    /\ \A x \in S : <<x, x>> \notin R
    /\ \A x, y, z \in S : <<x, y>> \in R /\ <<y, z>> \in R => <<x, z>> \in R
    /\ \A x, y \in S : x = y \/ <<x, y>> \in R \/ <<y, x>> \in R

Below(S, R, x) == {y \in S : <<y, x>> \in R}
Rank(S, R, x)  == Cardinality(Below(S, R, x))

LEMMA UpTo ==
    ASSUME NEW n \in Nat
    PROVE  IsFiniteSet(1..n) /\ Cardinality(1..n) = n
BY FS_Interval

LEMMA RankRange ==
    ASSUME NEW S, IsFiniteSet(S), NEW R, IsOrder(S, R), NEW x \in S
    PROVE  /\ IsFiniteSet(Below(S, R, x)) /\ Rank(S, R, x) \in Nat
           /\ Cardinality(S) \in Nat /\ Rank(S, R, x) + 1 \in 1..Cardinality(S)
<1>1. Below(S, R, x) \in SUBSET S /\ Below(S, R, x) # S
  BY DEF Below, IsOrder
<1>2. IsFiniteSet(Below(S, R, x)) /\ Rank(S, R, x) <= Cardinality(S)
        /\ Rank(S, R, x) # Cardinality(S)
  BY <1>1, FS_Subset DEF Rank
<1>3. Rank(S, R, x) \in Nat /\ Cardinality(S) \in Nat
  BY <1>2, FS_CardinalityType DEF Rank
<1>4. QED
  BY <1>2, <1>3

LEMMA RankGrows ==
    ASSUME NEW S, IsFiniteSet(S), NEW R, IsOrder(S, R), NEW x \in S, NEW y \in S, <<x, y>> \in R
    PROVE  Rank(S, R, x) < Rank(S, R, y)
<1>1. Below(S, R, x) \in SUBSET Below(S, R, y) /\ Below(S, R, x) # Below(S, R, y)
  BY DEF Below, IsOrder
<1>2. Rank(S, R, x) \in Nat /\ Rank(S, R, y) \in Nat /\ IsFiniteSet(Below(S, R, y))
  BY RankRange
<1>3. Rank(S, R, x) <= Rank(S, R, y) /\ Rank(S, R, x) # Rank(S, R, y)
  BY <1>1, <1>2, FS_Subset DEF Rank
<1>4. QED
  BY <1>2, <1>3

LEMMA RankExists ==
    ASSUME NEW S, IsFiniteSet(S), NEW R, IsOrder(S, R), NEW k \in 1..Cardinality(S)
    PROVE  \E x \in S : Rank(S, R, x) = k - 1
<1> DEFINE f == [x \in S |-> Rank(S, R, x) + 1]
           n == Cardinality(S)
<1>1. n \in Nat
  BY FS_CardinalityType
<1>2. f \in [S -> 1..n]
  BY RankRange
<1>3. ASSUME NEW x \in S, NEW y \in S, x # y PROVE f[x] # f[y]
  <2>1. <<x, y>> \in R \/ <<y, x>> \in R
    BY <1>3 DEF IsOrder
  <2>2. Rank(S, R, x) < Rank(S, R, y) \/ Rank(S, R, y) < Rank(S, R, x)
    BY <2>1, RankGrows
  <2>3. Rank(S, R, x) \in Nat /\ Rank(S, R, y) \in Nat
    BY RankRange
  <2>4. QED
    BY <2>2, <2>3
<1>4. f \in Injection(S, 1..n)
  BY <1>2, <1>3, Zenon DEF Injection, IsInjective
<1>5. IsFiniteSet(1..n) /\ Cardinality(1..n) = n
  BY <1>1, UpTo
<1> HIDE DEF f
<1>6. f \in Surjection(S, 1..n)
  BY <1>4, <1>5, FS_Injection
<1>7. PICK x \in S : f[x] = k
  BY <1>6 DEF Surjection
<1>8. Rank(S, R, x) \in Nat /\ f[x] = Rank(S, R, x) + 1
  BY RankRange DEF f
<1>9. QED
  BY <1>7, <1>8

(* Whatever lists the elements of a set by their ranks lists all of them,  *)
(* once, in order.                                                         *)
Lists(s, S, R) ==
    /\ s \in [1..Cardinality(S) -> S] /\ Cardinality(S) \in Nat
    /\ \A x \in S : \E k \in 1..Cardinality(S) : s[k] = x
    /\ \A i, j \in 1..Cardinality(S) : s[i] = s[j] => i = j
    /\ \A i, j \in 1..Cardinality(S) : i < j <=> <<s[i], s[j]>> \in R

LEMMA RanksList ==
    ASSUME NEW S, IsFiniteSet(S), NEW R, IsOrder(S, R), NEW s \in [1..Cardinality(S) -> S],
           \A k \in 1..Cardinality(S) : Rank(S, R, s[k]) = k - 1
    PROVE  Lists(s, S, R)
<1> DEFINE n == Cardinality(S)
<1>1. n \in Nat
  BY FS_CardinalityType
<1>2. ASSUME NEW x \in S PROVE \E k \in 1..n : s[k] = x
  <2> DEFINE k == Rank(S, R, x) + 1
  <2>1. k \in 1..n /\ Rank(S, R, x) \in Nat
    BY RankRange
  <2>2. s[k] \in S /\ Rank(S, R, s[k]) = Rank(S, R, x)
    BY <2>1
  <2>3. ~(<<x, s[k]>> \in R) /\ ~(<<s[k], x>> \in R)
    BY <2>1, <2>2, RankGrows
  <2>4. s[k] = x
    BY <2>2, <2>3 DEF IsOrder
  <2>5. QED
    BY <2>1, <2>4
<1>3. ASSUME NEW i \in 1..n, NEW j \in 1..n PROVE i < j <=> <<s[i], s[j]>> \in R
  <2>1. s[i] \in S /\ s[j] \in S /\ Rank(S, R, s[i]) = i - 1 /\ Rank(S, R, s[j]) = j - 1
    OBVIOUS
  <2>2. <<s[i], s[j]>> \in R => i - 1 < j - 1
    BY <2>1, RankGrows
  <2>3. <<s[j], s[i]>> \in R => j - 1 < i - 1
    BY <2>1, RankGrows
  <2>4. s[i] = s[j] \/ <<s[i], s[j]>> \in R \/ <<s[j], s[i]>> \in R
    BY <2>1 DEF IsOrder
  <2>5. s[i] = s[j] => i - 1 = j - 1
    BY <2>1
  <2>6. QED
    BY <1>1, <2>2, <2>3, <2>4, <2>5
<1>4. \A i, j \in 1..n : s[i] = s[j] => i = j
  <2> SUFFICES ASSUME NEW i \in 1..n, NEW j \in 1..n, s[i] = s[j] PROVE i = j
    OBVIOUS
  <2>1. i - 1 = j - 1
    OBVIOUS
  <2>2. QED
    BY <1>1, <2>1
<1>5. QED
  BY <1>1, <1>2, <1>3, <1>4 DEF Lists


-------------------------------------------------------------------------------
(* Induction on the natural numbers, stated for a set.                     *)
LEMMA NatsIn ==
    ASSUME NEW S, 0 \in S, \A n \in Nat : n \in S => n + 1 \in S
    PROVE  Nat \subseteq S
<1> SUFFICES ASSUME Nat \ S # {} PROVE FALSE
  OBVIOUS
<1>1. PICK x \in Nat \ S : \A y \in Nat \ S : ~(<<y, x>> \in OpToRel(<, Nat))
  BY NatLessThanWellFounded, WFMin
<1>2. x \in Nat /\ x \notin S /\ x # 0
  BY <1>1, Zenon
<1>3. x - 1 \in Nat /\ x - 1 < x /\ (x - 1) + 1 = x
  BY <1>2
<1>4. <<x - 1, x>> \in OpToRel(<, Nat)
  BY <1>2, <1>3, Zenon DEF OpToRel
<1>5. x - 1 \in S
  BY <1>1, <1>3, <1>4, Zenon
<1>6. QED
  BY <1>2, <1>3, <1>5

(* A recursive function on 0..n, its steps within T, exists.               *)
Runs(f, n, base, step) == f = [k \in 0..n |-> IF k = 0 THEN base ELSE step[<<k, f[k - 1]>>]]

LEMMA RunExists ==
    ASSUME NEW T, NEW base \in T, NEW N \in Nat, NEW step,
           \A k \in 1..N, v \in T : step[<<k, v>>] \in T
    PROVE  \E f \in [0..N -> T] : Runs(f, N, base, step)
<1> DEFINE S == {n \in Nat : n <= N => \E f \in [0..n -> T] : Runs(f, n, base, step)}
<1>1. 0 \in S
  <2>1. Runs([k \in 0..0 |-> base], 0, base, step)
    BY DEF Runs
  <2>2. QED
    BY <2>1
<1>2. ASSUME NEW n \in Nat, n \in S PROVE n + 1 \in S
  <2> SUFFICES ASSUME n + 1 <= N
               PROVE  \E g \in [0..(n + 1) -> T] : Runs(g, n + 1, base, step)
    OBVIOUS
  <2>1. PICK f \in [0..n -> T] : Runs(f, n, base, step)
    BY <1>2
  <2> DEFINE final == step[<<n + 1, f[n]>>]
             g == [k \in 0..(n + 1) |-> IF k = n + 1 THEN final ELSE f[k]]
  <2>2. final \in T
    OBVIOUS
  <2> HIDE DEF final
  <2>3. g \in [0..(n + 1) -> T]
    BY <2>2
  <2>4. \A k \in 0..(n + 1) : g[k] = IF k = 0 THEN base ELSE step[<<k, g[k - 1]>>]
    <3> SUFFICES ASSUME NEW k \in 0..(n + 1)
                 PROVE  g[k] = IF k = 0 THEN base ELSE step[<<k, g[k - 1]>>]
      OBVIOUS
    <3>1. CASE k = n + 1
      <4>1. g[k] = final /\ k # 0 /\ k - 1 = n /\ n \in 0..(n + 1) /\ n # n + 1
        BY <3>1
      <4>2. g[k - 1] = f[n]
        BY <4>1
      <4>3. QED
        BY <3>1, <4>1, <4>2 DEF final
    <3>2. CASE k # n + 1
      <4>1. k \in 0..n /\ g[k] = f[k]
        BY <3>2
      <4>2. k # 0 => g[k - 1] = f[k - 1]
        BY <4>1
      <4>3. f[k] = IF k = 0 THEN base ELSE step[<<k, f[k - 1]>>]
        BY <2>1, <4>1 DEF Runs
      <4>4. QED
        BY <4>1, <4>2, <4>3
    <3>3. QED
      BY <3>1, <3>2
  <2>5. Runs(g, n + 1, base, step)
    BY <2>4 DEF Runs
  <2> HIDE DEF g
  <2>6. QED
    BY <2>3, <2>5
<1> HIDE DEF S
<1>3. N \in S
  BY <1>1, <1>2, NatsIn
<1>4. QED
  BY <1>3 DEF S

-------------------------------------------------------------------------------
(* The penalty of an age grows with it.                                    *)
Twofold(f, n) == f = [k \in 0..n |-> IF k = 0 THEN 1 ELSE 2 * f[k - 1]]

LEMMA TwofoldExists ==
    ASSUME NEW n \in Nat
    PROVE  \E f \in [0..n -> Nat] : Twofold(f, n)
<1> DEFINE step == [a \in Nat \X Nat |-> 2 * a[2]]
<1>1. \A k \in 1..n, v \in Nat : step[<<k, v>>] = 2 * v /\ step[<<k, v>>] \in Nat
  OBVIOUS
<1> HIDE DEF step
<1>2. PICK f \in [0..n -> Nat] : Runs(f, n, 1, step)
  BY <1>1, RunExists
<1>3. \A k \in 0..n : f[k] = IF k = 0 THEN 1 ELSE step[<<k, f[k - 1]>>]
  BY <1>2, Zenon DEF Runs
<1>4. \A k \in 0..n : k # 0 => step[<<k, f[k - 1]>>] = 2 * f[k - 1]
  BY <1>1
<1>5. \A k \in 0..n : f[k] = IF k = 0 THEN 1 ELSE 2 * f[k - 1]
  BY <1>3, <1>4
<1>6. Twofold(f, n)
  BY <1>5 DEF Twofold
<1>7. QED
  BY <1>6

LEMMA HalfLivesAre ==
    ASSUME NEW N \in Nat, NEW f, Twofold(f, N), NEW n \in 0..N
    PROVE  HalfLives(n) = f[n]
<1> DEFINE g == CHOOSE g : Twofold(g, n)
<1>1. Twofold(g, n)
  BY TwofoldExists
<1>2. HalfLives(n) = g[n]
  BY Zenon DEF HalfLives, Twofold
<1> HIDE DEF g
<1>3. /\ \A k \in 0..n : g[k] = IF k = 0 THEN 1 ELSE 2 * g[k - 1]
      /\ \A k \in 0..N : f[k] = IF k = 0 THEN 1 ELSE 2 * f[k - 1]
  BY <1>1, Zenon DEF Twofold
<1> DEFINE S == {k \in Nat : k <= n => f[k] = g[k]}
<1>4. 0 \in S
  BY <1>3
<1>5. ASSUME NEW k \in Nat, k \in S PROVE k + 1 \in S
  BY <1>3, <1>5
<1> HIDE DEF S
<1>6. n \in S
  BY <1>4, <1>5, NatsIn
<1>7. QED
  BY <1>2, <1>6 DEF S

LEMMA HalfLivesGrow ==
    ASSUME NEW m \in Nat, NEW n \in Nat, m <= n
    PROVE  /\ HalfLives(m) \in Nat \ {0} /\ HalfLives(n) \in Nat \ {0}
           /\ HalfLives(m) <= HalfLives(n)
<1>1. PICK f \in [0..n -> Nat] : Twofold(f, n)
  BY TwofoldExists
<1>2. \A k \in 0..n : f[k] = IF k = 0 THEN 1 ELSE 2 * f[k - 1]
  BY <1>1, Zenon DEF Twofold
<1>3. HalfLives(m) = f[m] /\ HalfLives(n) = f[n]
  BY <1>1, HalfLivesAre
<1> DEFINE S == {k \in Nat : k <= n => f[k] > 0}
           U == {k \in Nat : k <= n /\ m <= k => f[m] <= f[k]}
<1>4. 0 \in S /\ 0 \in U
  BY <1>2
<1>5. ASSUME NEW k \in Nat, k \in S PROVE k + 1 \in S
  BY <1>2, <1>5
<1>6. ASSUME NEW k \in Nat, k \in U PROVE k + 1 \in U
  <2> SUFFICES ASSUME k + 1 <= n, m <= k + 1 PROVE f[m] <= f[k + 1]
    OBVIOUS
  <2>1. CASE m = k + 1
    BY <2>1
  <2>2. CASE m <= k
    <3>1. f[m] <= f[k] /\ f[k + 1] = 2 * f[k] /\ f[k] \in Nat /\ f[m] \in Nat
      BY <1>2, <1>6, <2>2
    <3>2. QED
      BY <3>1
  <2>3. QED
    BY <2>1, <2>2
<1> HIDE DEF S, U
<1>7. m \in S /\ n \in S
  BY <1>4, <1>5, NatsIn
<1>8. n \in U
  BY <1>4, <1>6, NatsIn
<1>9. QED
  BY <1>3, <1>7, <1>8 DEF S, U

-------------------------------------------------------------------------------
(* Searches.                                                               *)
GoodDocs(ds) ==
    /\ DOMAIN ds \subseteq Text /\ IsFiniteSet(DOMAIN ds)
    /\ ds \in [DOMAIN ds -> Nat]

(* What a question speaks of is matched, by whatever index it is routed to.*)
LEMMA SpokenMatched ==
    ASSUME NEW q, NEW ds, GoodDocs(ds), NEW tri, NEW t \in DOMAIN ds, Speaks(q, t)
    PROVE  t \in Matched(q, ds, tri)
<1>1. CASE ~ContainsCjk(q)
  <2>1. RouteOf(q, ds, tri) = "fts" /\ WordsOf(q) \cap Whole[t] # {}
    BY <1>1 DEF RouteOf, Speaks
  <2>2. QED
    BY <2>1 DEF Matched, FtsMatch
<1>2. CASE ContainsCjk(q)
  <2>1. PICK w \in Sought(q) \cap Within[t] : Cjk[w] > 0
    BY <1>2 DEF Speaks
  <2>2. w \in Word /\ Cjk[w] \in Nat /\ Length[w] \in Nat /\ Cjk[w] <= Length[w]
    BY <2>1, RecallTextAssumption, WordAssumption DEF GoodDocs
  <2>3. t \in LikeMatch(q, ds)
    BY <2>1 DEF LikeMatch
  <2>4. CASE RouteOf(q, ds, tri) = "trigram"
    <3>1. TrigramFits(q)
      BY <1>2, <2>4 DEF RouteOf
    <3>2. Cjk[w] \notin 1..2 /\ Length[w] >= 3
      BY <2>1, <2>2, <3>1 DEF TrigramFits, AnyShortCjk
    <3>3. t \in TrigramMatch(q, ds)
      BY <2>1, <3>2 DEF TrigramMatch, Sought
    <3>4. QED
      BY <2>4, <3>3 DEF Matched
  <2>5. CASE RouteOf(q, ds, tri) = "like"
    BY <2>3, <2>5 DEF Matched
  <2>6. RouteOf(q, ds, tri) \in {"trigram", "like"}
    BY <1>2 DEF RouteOf
  <2>7. QED
    BY <2>4, <2>5, <2>6
<1>3. QED
  BY <1>1, <1>2

LEMMA MatchedDocs ==
    ASSUME NEW q, NEW ds, NEW tri
    PROVE  Matched(q, ds, tri) \subseteq DOMAIN ds
<1>1. RouteOf(q, ds, tri) \in {"fts", "trigram", "like"}
  BY DEF RouteOf
<1>2. QED
  BY <1>1 DEF Matched, FtsMatch, TrigramMatch, LikeMatch

LEMMA CutIs ==
    ASSUME NEW T, NEW s \in Seq(T), NEW n \in Nat
    PROVE  /\ Cut(s, n) \in Seq(T)
           /\ Len(Cut(s, n)) = IF Len(s) < n THEN Len(s) ELSE n
           /\ \A k \in 1..Len(Cut(s, n)) : Cut(s, n)[k] = s[k]
<1> DEFINE m == IF Len(s) < n THEN Len(s) ELSE n
<1>1. m \in Nat /\ m <= Len(s) /\ Len(s) \in Nat
  OBVIOUS
<1>2. Cut(s, n) = SubSeq(s, 1, m)
  BY DEF Cut
<1> HIDE DEF m
<1>3. /\ SubSeq(s, 1, m) \in Seq(T) /\ Len(SubSeq(s, 1, m)) = m
      /\ \A k \in 1..m : SubSeq(s, 1, m)[k] = s[k]
  BY <1>1
<1>4. QED
  BY <1>2, <1>3 DEF m

(* What is fetched: matching documents, each once, and all of them unless  *)
(* there are more than the pool takes.                                     *)
LEMMA FetchedIs ==
    ASSUME NEW q, NEW ds, NEW tri, NEW pool \in Nat,
           NEW f \in Fetches(q, ds, tri, pool), GoodDocs(ds)
    PROVE  /\ f \in Seq(DOMAIN ds)
           /\ \A i, j \in 1..Len(f) : f[i] = f[j] => i = j
           /\ Len(f) < pool => \A t \in Matched(q, ds, tri) : \E i \in 1..Len(f) : f[i] = t
<1> DEFINE M == Matched(q, ds, tri)
           n == Cardinality(M)
<1>1. IsFiniteSet(M) /\ M \subseteq DOMAIN ds /\ n \in Nat
  <2>1. M \in SUBSET DOMAIN ds
    BY MatchedDocs
  <2>2. IsFiniteSet(M)
    BY <2>1, FS_Subset DEF GoodDocs
  <2>3. QED
    BY <2>1, <2>2, FS_CardinalityType
<1>2. PICK s \in SetToSeqs(M) : f = Cut(s, pool)
  BY DEF Fetches
<1> HIDE DEF M
<1>3. s \in [1..n -> M] /\ \A i, j \in 1..n : i # j => s[i] # s[j]
  BY <1>2 DEF SetToSeqs
<1>4. \A t \in M : \E i \in 1..n : s[i] = t
  <2>1. s \in Injection(1..n, M)
    BY <1>3, Zenon DEF Injection, IsInjective
  <2>2. Cardinality(1..n) = n
    BY <1>1, UpTo
  <2>3. s \in Surjection(1..n, M)
    BY <1>1, <2>1, <2>2, FS_Injection
  <2>4. QED
    BY <2>3 DEF Surjection
<1> HIDE DEF n
<1>5. s \in Seq(M) /\ Len(s) = n
  BY <1>1, <1>3
<1>6. /\ f \in Seq(M) /\ Len(f) = IF n < pool THEN n ELSE pool
      /\ \A k \in 1..Len(f) : f[k] = s[k]
  BY <1>2, <1>5, CutIs
<1>7. f \in Seq(DOMAIN ds)
  BY <1>1, <1>6
<1>8. \A i, j \in 1..Len(f) : f[i] = f[j] => i = j
  BY <1>1, <1>3, <1>6
<1>9. Len(f) < pool => \A t \in M : \E i \in 1..Len(f) : f[i] = t
  BY <1>1, <1>4, <1>6
<1>10. QED
  BY <1>7, <1>8, <1>9 DEF M

(* Ranking anew lists the places of the rows in an order in which ages     *)
(* count and, where they do not, places.                                   *)
Ahead(rs, ds, t) ==
    {x \in (DOMAIN rs) \X (DOMAIN rs) :
        Better(x[1], x[2], rs, ds, t) \/ (x[1] < x[2] /\ ~Better(x[2], x[1], rs, ds, t))}

LEMMA AheadOrder ==
    ASSUME NEW ds, GoodDocs(ds), NEW t \in Nat, NEW rs \in Seq(DOMAIN ds)
    PROVE  /\ IsOrder(DOMAIN rs, Ahead(rs, ds, t))
           /\ \A i, j \in DOMAIN rs :
                 i < j /\ ds[rs[i]] >= ds[rs[j]] => <<i, j>> \in Ahead(rs, ds, t)
<1> DEFINE A(i) == Age(rs[i], ds, t)
           P(i) == Penalty(i, rs[i], ds, t)
<1>1. DOMAIN rs = 1..Len(rs) /\ Len(rs) \in Nat
  OBVIOUS
<1>2. \A i \in DOMAIN rs : rs[i] \in DOMAIN ds /\ ds[rs[i]] \in Nat /\ A(i) \in Nat
  BY DEF GoodDocs, Age
<1>3. \A i \in DOMAIN rs : P(i) \in Nat
  <2> SUFFICES ASSUME NEW i \in DOMAIN rs PROVE P(i) \in Nat
    OBVIOUS
  <2>1. HalfLives(A(i)) \in Nat
    BY <1>2, HalfLivesGrow
  <2>2. QED
    BY <1>1, <2>1 DEF Penalty
<1>4. \A i, j \in DOMAIN rs : Better(i, j, rs, ds, t) <=> P(i) < P(j)
  BY DEF Better
<1>5. \A i, j \in DOMAIN rs :
        <<i, j>> \in Ahead(rs, ds, t) <=> (P(i) < P(j) \/ (i < j /\ ~(P(j) < P(i))))
  BY <1>4 DEF Ahead
<1>6. ASSUME NEW i \in DOMAIN rs, NEW j \in DOMAIN rs, i < j, ds[rs[i]] >= ds[rs[j]]
      PROVE  P(i) < P(j)
  <2>1. A(i) <= A(j)
    BY <1>2, <1>6 DEF Age
  <2>2. A(i) \in Nat /\ A(j) \in Nat
    BY <1>2
  <2> DEFINE a == HalfLives(A(i))
             b == HalfLives(A(j))
  <2>3. a \in Nat \ {0} /\ b \in Nat \ {0} /\ a <= b
    BY <2>1, <2>2, HalfLivesGrow
  <2>4. P(i) = i * a /\ P(j) = j * b
    BY DEF Penalty
  <2> HIDE DEF a, b
  <2>5. i * a <= i * b /\ i * b < j * b
    BY <1>1, <1>6, <2>3
  <2>6. i * a \in Nat /\ i * b \in Nat /\ j * b \in Nat
    BY <1>1, <2>3
  <2>7. QED
    BY <2>4, <2>5, <2>6
<1> HIDE DEF A, P
<1>7. IsOrder(DOMAIN rs, Ahead(rs, ds, t))
  <2>1. \A i \in DOMAIN rs : <<i, i>> \notin Ahead(rs, ds, t)
    BY <1>1, <1>3, <1>5
  <2>2. ASSUME NEW i \in DOMAIN rs, NEW j \in DOMAIN rs, i # j
        PROVE  <<i, j>> \in Ahead(rs, ds, t) \/ <<j, i>> \in Ahead(rs, ds, t)
    <3>1. i \in Nat /\ j \in Nat /\ P(i) \in Nat /\ P(j) \in Nat
      BY <1>1, <1>3
    <3>2. P(i) < P(j) \/ P(j) < P(i) \/ (i < j /\ ~(P(j) < P(i))) \/ (j < i /\ ~(P(i) < P(j)))
      BY <2>2, <3>1
    <3>3. QED
      BY <1>5, <3>2
  <2>3. ASSUME NEW i \in DOMAIN rs, NEW j \in DOMAIN rs, NEW k \in DOMAIN rs,
               <<i, j>> \in Ahead(rs, ds, t), <<j, k>> \in Ahead(rs, ds, t)
        PROVE  <<i, k>> \in Ahead(rs, ds, t)
    BY <1>1, <1>3, <1>5, <2>3
  <2>4. QED
    BY <2>1, <2>2, <2>3 DEF IsOrder
<1>8. QED
  BY <1>5, <1>6, <1>7

LEMMA RerankedIs ==
    ASSUME NEW ds, GoodDocs(ds), NEW t \in Nat, NEW rs \in Seq(DOMAIN ds), NEW limit \in Nat
    PROVE  \E order :
              /\ Lists(order, DOMAIN rs, Ahead(rs, ds, t)) /\ Cardinality(DOMAIN rs) = Len(rs)
              /\ Reranked(rs, ds, t, limit) \in Seq(DOMAIN ds)
              /\ Len(Reranked(rs, ds, t, limit)) = IF Len(rs) < limit THEN Len(rs) ELSE limit
              /\ \A k \in 1..Len(Reranked(rs, ds, t, limit)) :
                    Reranked(rs, ds, t, limit)[k] = rs[order[k]]
<1> DEFINE D == DOMAIN rs
           R == Ahead(rs, ds, t)
           Before(i, j) == Better(i, j, rs, ds, t) \/ (i < j /\ ~Better(j, i, rs, ds, t))
           order == [k \in 1..Cardinality(D) |->
                       CHOOSE x \in D : Cardinality({y \in D : Before(y, x)}) = k - 1]
           all == [k \in DOMAIN order |-> rs[order[k]]]
<1>1. Reranked(rs, ds, t, limit) = Cut(all, limit)
  BY DEF Reranked, InOrder
<1>2. D = 1..Len(rs) /\ Len(rs) \in Nat /\ IsFiniteSet(D) /\ Cardinality(D) = Len(rs)
  <2>1. D = 1..Len(rs) /\ Len(rs) \in Nat
    OBVIOUS
  <2>2. IsFiniteSet(1..Len(rs)) /\ Cardinality(1..Len(rs)) = Len(rs)
    BY <2>1, UpTo
  <2>3. QED
    BY <2>1, <2>2
<1>3. IsOrder(D, R)
  BY AheadOrder
<1>4. \A x \in D : {y \in D : Before(y, x)} = Below(D, R, x)
  BY DEF Below, Ahead
<1> HIDE DEF Before
<1>5. \A k \in 1..Cardinality(D) : order[k] \in D /\ Rank(D, R, order[k]) = k - 1
  <2> SUFFICES ASSUME NEW k \in 1..Cardinality(D)
               PROVE  order[k] \in D /\ Rank(D, R, order[k]) = k - 1
    OBVIOUS
  <2>1. \E x \in D : Cardinality({y \in D : Before(y, x)}) = k - 1
    <3>1. PICK x \in D : Rank(D, R, x) = k - 1
      BY <1>2, <1>3, RankExists
    <3>2. QED
      BY <1>4, <3>1 DEF Rank
  <2>2. order[k] \in D /\ Cardinality({y \in D : Before(y, order[k])}) = k - 1
    BY <2>1
  <2>3. QED
    BY <1>4, <2>2 DEF Rank
<1> HIDE DEF R
<1>6. order \in [1..Cardinality(D) -> D]
  BY <1>5
<1> HIDE DEF order
<1>7. Lists(order, D, R)
  BY <1>2, <1>3, <1>5, <1>6, RanksList
<1>8. all \in Seq(DOMAIN ds) /\ Len(all) = Len(rs) /\ \A k \in 1..Len(rs) : all[k] = rs[order[k]]
  <2>1. \A k \in 1..Len(rs) : rs[order[k]] \in DOMAIN ds
    BY <1>2, <1>6
  <2>2. DOMAIN order = 1..Len(rs)
    BY <1>2, <1>6
  <2>3. QED
    BY <1>2, <2>1, <2>2
<1> HIDE DEF all
<1>9. /\ Reranked(rs, ds, t, limit) \in Seq(DOMAIN ds)
      /\ Len(Reranked(rs, ds, t, limit)) = IF Len(rs) < limit THEN Len(rs) ELSE limit
      /\ \A k \in 1..Len(Reranked(rs, ds, t, limit)) : Reranked(rs, ds, t, limit)[k] = all[k]
  BY <1>1, <1>8, CutIs
<1>10. \A k \in 1..Len(Reranked(rs, ds, t, limit)) : Reranked(rs, ds, t, limit)[k] = rs[order[k]]
  BY <1>2, <1>8, <1>9
<1>11. QED
  BY <1>2, <1>7, <1>9, <1>10 DEF R

(* What a search returns speaks of the query, up to the limit ...          *)
Answers(s, q, ds, t, limit) ==
    /\ s.query = q /\ s.rows \in Seq(DOMAIN ds) /\ s.hits = Reranked(s.rows, ds, t, limit)
    /\ \A i, j \in 1..Len(s.rows) : s.rows[i] = s.rows[j] => i = j
    /\ \A d \in DOMAIN ds : Speaks(q, d) => d \in ToSet(s.hits) \/ Len(s.hits) = limit

LEMMA SearchRecalls ==
    ASSUME NEW q, NEW ds, NEW tri, NEW t \in Nat, NEW limit \in Nat \ {0},
           NEW s \in Searches(q, ds, tri, t, limit), GoodDocs(ds)
    PROVE  Answers(s, q, ds, t, limit)
<1>1. PICK f \in Fetches(q, ds, tri, 4 * limit) :
         s = [query |-> q, route |-> RouteOf(q, ds, tri), rows |-> f,
              hits |-> Reranked(f, ds, t, limit)]
  BY DEF Searches
<1>2. s.query = q /\ s.rows = f /\ s.hits = Reranked(f, ds, t, limit)
  BY <1>1
<1>3. /\ f \in Seq(DOMAIN ds) /\ \A i, j \in 1..Len(f) : f[i] = f[j] => i = j
      /\ Len(f) < 4 * limit => \A d \in Matched(q, ds, tri) : \E i \in 1..Len(f) : f[i] = d
  <2> DEFINE pool == 4 * limit
  <2>1. pool \in Nat /\ f \in Fetches(q, ds, tri, pool)
    BY <1>1
  <2> HIDE DEF pool
  <2>2. /\ f \in Seq(DOMAIN ds) /\ \A i, j \in 1..Len(f) : f[i] = f[j] => i = j
        /\ Len(f) < pool => \A d \in Matched(q, ds, tri) : \E i \in 1..Len(f) : f[i] = d
    BY <2>1, FetchedIs
  <2>3. QED
    BY <2>2 DEF pool
<1> DEFINE hits == Reranked(f, ds, t, limit)
<1>4. PICK order : /\ Lists(order, DOMAIN f, Ahead(f, ds, t)) /\ Cardinality(DOMAIN f) = Len(f)
                   /\ hits \in Seq(DOMAIN ds)
                   /\ Len(hits) = IF Len(f) < limit THEN Len(f) ELSE limit
                   /\ \A k \in 1..Len(hits) : hits[k] = f[order[k]]
  <2>1. limit \in Nat /\ t \in Nat /\ GoodDocs(ds) /\ f \in Seq(DOMAIN ds)
    BY <1>3
  <2>2. QED
    BY <2>1, RerankedIs
<1> HIDE DEF hits
<1>5. ASSUME NEW d \in DOMAIN ds, Speaks(q, d), Len(hits) # limit PROVE d \in ToSet(hits)
  <2>1. Len(f) \in Nat /\ Len(f) < limit /\ Len(hits) = Len(f) /\ DOMAIN f = 1..Len(f)
    BY <1>3, <1>4, <1>5
  <2>2. d \in Matched(q, ds, tri)
    BY <1>5, SpokenMatched
  <2>3. PICK i \in 1..Len(f) : f[i] = d
    BY <1>3, <2>1, <2>2
  <2>4. PICK k \in 1..Len(f) : order[k] = i
    BY <1>4, <2>1, <2>3 DEF Lists
  <2>5. k \in DOMAIN hits /\ hits[k] = d
    BY <1>4, <2>1, <2>3, <2>4
  <2>6. QED
    BY <2>5 DEF ToSet
<1>6. QED
  BY <1>2, <1>3, <1>5 DEF hits, Answers

(* ... and keeps the order of those that are no older than what follows.   *)
LEMMA RerankKeeps ==
    ASSUME NEW ds, GoodDocs(ds), NEW t \in Nat, NEW limit \in Nat, NEW f \in Seq(DOMAIN ds),
           \A i, j \in 1..Len(f) : f[i] = f[j] => i = j,
           NEW hits, hits = Reranked(f, ds, t, limit),
           NEW i \in DOMAIN f, NEW j \in DOMAIN f, i < j, ds[f[i]] >= ds[f[j]], f[j] \in ToSet(hits)
    PROVE  f[i] \in ToSet(hits) /\ Position(hits, f[i]) < Position(hits, f[j])
<1>1. PICK order : /\ Lists(order, DOMAIN f, Ahead(f, ds, t)) /\ Cardinality(DOMAIN f) = Len(f)
                   /\ hits \in Seq(DOMAIN ds)
                   /\ Len(hits) = IF Len(f) < limit THEN Len(f) ELSE limit
                   /\ \A k \in 1..Len(hits) : hits[k] = f[order[k]]
  BY RerankedIs
<1>2. /\ DOMAIN f = 1..Len(f) /\ Len(f) \in Nat /\ Len(hits) \in Nat /\ Len(hits) <= Len(f)
      /\ DOMAIN hits = 1..Len(hits)
  BY <1>1
<1>3. <<i, j>> \in Ahead(f, ds, t)
  BY AheadOrder
<1>4. PICK a \in 1..Len(f) : order[a] = i
  BY <1>1 DEF Lists
<1>5. PICK b \in 1..Len(f) : order[b] = j
  BY <1>1 DEF Lists
<1>6. a < b
  BY <1>1, <1>3, <1>4, <1>5 DEF Lists
<1>7. ASSUME NEW k \in 1..Len(hits), NEW c \in 1..Len(f), hits[k] = f[order[c]] PROVE k = c
  <2>1. hits[k] = f[order[k]] /\ k \in 1..Len(f)
    BY <1>1, <1>2
  <2>2. order[k] \in 1..Len(f) /\ order[c] \in 1..Len(f)
    BY <1>1, <1>2, <2>1 DEF Lists
  <2>3. order[k] = order[c]
    BY <1>7, <2>1, <2>2
  <2>4. QED
    BY <1>1, <2>1, <2>3 DEF Lists
<1>8. b \in 1..Len(hits)
  <2>1. PICK k \in 1..Len(hits) : hits[k] = f[j]
    BY <1>2 DEF ToSet
  <2>2. QED
    BY <1>5, <1>7, <2>1
<1>9. a \in 1..Len(hits) /\ hits[a] = f[i] /\ hits[b] = f[j]
  BY <1>1, <1>2, <1>4, <1>5, <1>6, <1>8
<1>10. ASSUME NEW c \in 1..Len(f), c \in 1..Len(hits), NEW x, hits[c] = x, x = f[order[c]]
       PROVE  Position(hits, x) = c
  <2>1. \E k \in DOMAIN hits : hits[k] = x
    BY <1>2, <1>10
  <2>2. Position(hits, x) \in DOMAIN hits /\ hits[Position(hits, x)] = x
    BY <2>1 DEF Position
  <2>3. QED
    BY <1>2, <1>7, <1>10, <2>2
<1>11. Position(hits, f[i]) = a /\ Position(hits, f[j]) = b
  BY <1>4, <1>5, <1>8, <1>9, <1>10
<1>12. QED
  BY <1>2, <1>6, <1>9, <1>11 DEF ToSet

-------------------------------------------------------------------------------
(* What a replay works on: the store, and the last search of it.           *)
StoreInv ==
    /\ GoodDocs(docs) /\ now \in Nat
    /\ items \in Seq(Item) /\ at \in Nat
    /\ pc \in {"idle", "index", "search", "gate"}
    /\ pc \in {"index", "search"} => at \in 1..Len(items)
    /\ pc = "index" => last = NoSearch
    /\ last = NoSearch \/ \E it \in Item : last \in Searches(Question[it], docs, trigram, now, Limit)

LEMMA NoDocsGood == GoodDocs(NoDocs)
<1>1. DOMAIN NoDocs = {}
  BY DEF NoDocs
<1>2. QED
  BY <1>1, FS_EmptySet DEF GoodDocs, NoDocs

LEMMA IndexedGood ==
    ASSUME NEW ds, GoodDocs(ds), NEW t \in Text, NEW ts \in Nat
    PROVE  GoodDocs(Indexed(ds, t, ts))
<1>1. DOMAIN Indexed(ds, t, ts) = DOMAIN ds \cup {t}
  BY DEF Indexed
<1>2. IsFiniteSet(DOMAIN ds \cup {t})
  BY FS_AddElement DEF GoodDocs
<1>3. Indexed(ds, t, ts) \in [DOMAIN ds \cup {t} -> Nat]
  BY DEF GoodDocs, Indexed
<1>4. QED
  BY <1>1, <1>2, <1>3 DEF GoodDocs

LEMMA ItemsList ==
    ASSUME NEW S \in SUBSET Item, S # {}
    PROVE  SetToSeq(S) \in Seq(Item) /\ 1 \in 1..Len(SetToSeq(S))
<1> DEFINE n == Cardinality(S)
<1>1. IsFiniteSet(S) /\ n \in Nat
  BY ItemAssumption, FS_Subset, FS_CardinalityType
<1>2. n # 0
  BY <1>1, FS_EmptySet
<1>3. \E f \in [1..n -> S] : IsInjective(f)
  <2>1. PICK f : f \in Bijection(1..n, S)
    BY <1>1, FS_CardinalityType DEF ExistsBijection
  <2>2. QED
    BY <2>1, Zenon DEF Bijection, Injection
<1> HIDE DEF n
<1>4. SetToSeq(S) \in [1..n -> S]
  BY <1>3, Zenon DEF SetToSeq, n
<1>5. QED
  BY <1>1, <1>2, <1>4

LEMMA StoreStep ==
    ASSUME StoreInv, [Next]_vars
    PROVE  StoreInv'
<1>1. CASE Begin
  <2>1. PICK S \in (SUBSET Item) \ {{}} : items' = SetToSeq(S)
    BY <1>1 DEF Begin
  <2>2. items' \in Seq(Item) /\ 1 \in 1..Len(items')
    BY <2>1, ItemsList
  <2>3. GoodDocs(docs')
    BY <1>1, NoDocsGood DEF Begin, StoreInv
  <2>4. now' \in Nat
    BY <1>1, MeasureBounds DEF Begin
  <2>5. QED
    BY <1>1, <2>2, <2>3, <2>4 DEF Begin, StoreInv
<1>2. CASE IndexItem
  <2>1. items[at] \in Item /\ Knowledge[items[at]] \in Text /\ at \in 1..Len(items)
    BY <1>2, ItemAssumption DEF IndexItem, StoreInv
  <2>2. GoodDocs(docs')
    BY <1>2, <2>1, IndexedGood DEF IndexItem, StoreInv
  <2>3. at' \in 1..Len(items) /\ pc' \in {"index", "search"} /\ at' \in Nat
    BY <1>2, <2>1 DEF IndexItem, StoreInv
  <2>4. QED
    BY <1>2, <2>2, <2>3 DEF IndexItem, StoreInv
<1>3. CASE SearchItem
  <2>1. items[at] \in Item /\ at \in 1..Len(items)
    BY <1>3 DEF SearchItem, StoreInv
  <2>2. last' \in Searches(Question[items[at]], docs, trigram, now, Limit)
    BY <1>3 DEF SearchItem
  <2>3. /\ at' \in Nat /\ pc' \in {"search", "gate"} /\ (pc' = "search" => at' \in 1..Len(items))
        /\ UNCHANGED <<docs, trigram, now, items>>
    BY <1>3, <2>1 DEF SearchItem, StoreInv
  <2>4. QED
    BY <2>1, <2>2, <2>3 DEF StoreInv
<1>4. CASE Gate
  BY <1>4 DEF Gate, StoreInv
<1>5. CASE Record \/ UNCHANGED vars
  BY <1>5 DEF Record, vars, StoreInv
<1>6. QED
  BY <1>1, <1>2, <1>3, <1>4, <1>5 DEF Next

LEMMA StoreInit == Init => StoreInv
BY NoDocsGood DEF Init, StoreInv

(* Nothing is asked before there is a search.                              *)
LEMMA NoSearchSpeaks ==
    ASSUME NEW t PROVE ~Speaks(NoSearch.query, t)
<1>1. NoSearch.query.words = <<>> /\ NoSearch.query.gaps = 0
  BY DEF NoSearch, Asks
<1>2. WordsOf(NoSearch.query) = {}
  BY <1>1 DEF WordsOf, ToSet
<1>3. QED
  BY <1>1, <1>2 DEF Speaks, ContainsCjk

(* So much holds of the last search, when there was one.                   *)
LEMMA LastIs ==
    ASSUME StoreInv, last # NoSearch
    PROVE  /\ last.rows \in Seq(DOMAIN docs) /\ last.hits = Reranked(last.rows, docs, now, Limit)
           /\ \A k, m \in 1..Len(last.rows) : last.rows[k] = last.rows[m] => k = m
           /\ \A d \in DOMAIN docs :
                Speaks(last.query, d) => d \in ToSet(last.hits) \/ Len(last.hits) = Limit
<1>1. \E asked : last \in Searches(asked, docs, trigram, now, Limit)
  BY DEF StoreInv
<1>2. PICK asked : last \in Searches(asked, docs, trigram, now, Limit)
  BY <1>1
<1>3. GoodDocs(docs) /\ now \in Nat /\ Limit \in Nat \ {0} /\ Limit \in Nat
  BY SizeAssumption DEF StoreInv
<1>4. Answers(last, asked, docs, now, Limit)
  BY <1>2, <1>3, SearchRecalls
<1>5. QED
  BY <1>4 DEF Answers

(* What a question speaks of is returned, up to the limit, by every route, *)
(* with and without the trigram index, from whatever was indexed when.     *)
THEOREM RecalledAlways == Spec => []Recalled
<1>1. StoreInv => Recalled
  BY NoSearchSpeaks, LastIs DEF Recalled
<1>2. QED
  BY <1>1, StoreInit, StoreStep, PTL DEF Spec

(* Age is all that ranking anew looks at: whatever was ahead and is no     *)
(* older stays ahead, and in, for any ages and any relevance.              *)
THEOREM FresherFirstAlways == Spec => []FresherFirst
<1>1. StoreInv => FresherFirst
  <2> DEFINE rs == last.rows
             hits == last.hits
  <2> SUFFICES ASSUME StoreInv, NEW i \in DOMAIN rs, NEW j \in DOMAIN rs, i < j,
                      docs[rs[i]] >= docs[rs[j]], rs[j] \in ToSet(hits)
               PROVE  rs[i] \in ToSet(hits) /\ Position(hits, rs[i]) < Position(hits, rs[j])
    BY DEF FresherFirst
  <2>1. last # NoSearch
    <3>1. NoSearch.rows = <<>>
      BY DEF NoSearch
    <3>2. i \notin DOMAIN <<>>
      OBVIOUS
    <3>3. QED
      BY <3>1, <3>2
  <2>2. GoodDocs(docs) /\ now \in Nat /\ Limit \in Nat
    BY SizeAssumption DEF StoreInv
  <2>3. /\ rs \in Seq(DOMAIN docs) /\ hits = Reranked(rs, docs, now, Limit)
        /\ \A k, m \in 1..Len(rs) : rs[k] = rs[m] => k = m
    BY <2>1, LastIs
  <2> HIDE DEF rs, hits
  <2>4. QED
    BY <2>2, <2>3, RerankKeeps
<1>2. QED
  BY <1>1, StoreInit, StoreStep, PTL DEF Spec

-------------------------------------------------------------------------------
(* Medians.  Sorted lists a finite list of numbers, equal ones by their    *)
(* indices.                                                                *)
Upon(D, f) == {p \in D \X D : f[p[1]] < f[p[2]] \/ (f[p[1]] = f[p[2]] /\ p[1] < p[2])}

LEMMA SortedIs ==
    ASSUME NEW D \in SUBSET Int, NEW f \in [D -> Int], IsFiniteSet(D)
    PROVE  \E order :
              /\ Lists(order, D, Upon(D, f))
              /\ Sorted(f) = [k \in 1..Cardinality(D) |-> f[order[k]]]
<1> DEFINE R == Upon(D, f)
           Before(i, j) == f[i] < f[j] \/ (f[i] = f[j] /\ i < j)
           order == [k \in 1..Cardinality(D) |->
                       CHOOSE x \in D : Cardinality({y \in D : Before(y, x)}) = k - 1]
<1>1. Sorted(f) = [k \in DOMAIN order |-> f[order[k]]] /\ DOMAIN f = D
  BY DEF Sorted, InOrder
<1>2. \A i, j \in D : <<i, j>> \in R <=> Before(i, j)
  BY DEF Upon
<1>3. IsOrder(D, R)
  <2>1. \A i \in D : f[i] \in Int /\ i \in Int
    OBVIOUS
  <2>2. \A i \in D : ~Before(i, i)
    BY <2>1
  <2>3. \A i, j \in D : i = j \/ Before(i, j) \/ Before(j, i)
    BY <2>1
  <2>4. \A i, j, k \in D : Before(i, j) /\ Before(j, k) => Before(i, k)
    BY <2>1
  <2> HIDE DEF Before, R
  <2>5. QED
    BY <1>2, <2>2, <2>3, <2>4 DEF IsOrder
<1>4. \A x \in D : {y \in D : Before(y, x)} = Below(D, R, x)
  BY <1>2 DEF Below
<1> HIDE DEF Before, R
<1>5. \A k \in 1..Cardinality(D) : order[k] \in D /\ Rank(D, R, order[k]) = k - 1
  <2> SUFFICES ASSUME NEW k \in 1..Cardinality(D)
               PROVE  order[k] \in D /\ Rank(D, R, order[k]) = k - 1
    OBVIOUS
  <2>1. \E x \in D : Cardinality({y \in D : Before(y, x)}) = k - 1
    <3>1. PICK x \in D : Rank(D, R, x) = k - 1
      BY <1>3, RankExists
    <3>2. QED
      BY <1>4, <3>1 DEF Rank
  <2>2. order[k] \in D /\ Cardinality({y \in D : Before(y, order[k])}) = k - 1
    BY <2>1
  <2>3. QED
    BY <1>4, <2>2 DEF Rank
<1>6. order \in [1..Cardinality(D) -> D] /\ DOMAIN order = 1..Cardinality(D)
  BY <1>5
<1> HIDE DEF order
<1>7. Lists(order, D, R)
  BY <1>3, <1>5, <1>6, RanksList
<1>8. QED
  BY <1>1, <1>6, <1>7 DEF R

(* The members of a stretch of the list are as many as it is long.         *)
LEMMA StretchCounts ==
    ASSUME NEW D, NEW R, NEW order, NEW a \in Int, NEW b \in Int, NEW B \in SUBSET D,
           IsFiniteSet(D), Lists(order, D, R), a <= b + 1,
           \A k \in a..b : k \in 1..Cardinality(D) /\ order[k] \in B
    PROVE  Cardinality(B) \in Nat /\ Cardinality(B) >= b - a + 1
<1> DEFINE g == [k \in a..b |-> order[k]]
<1>1. IsFiniteSet(B) /\ Cardinality(B) \in Nat
  BY FS_Subset, FS_CardinalityType
<1>2. g \in [a..b -> B]
  OBVIOUS
<1>3. \A i, j \in a..b : g[i] = g[j] => i = j
  BY DEF Lists
<1> HIDE DEF g
<1>4. g \in Injection(a..b, B)
  BY <1>2, <1>3, Zenon DEF Injection, IsInjective
<1>5. Cardinality(a..b) <= Cardinality(B)
  BY <1>1, <1>4, FS_Injection
<1>6. Cardinality(a..b) = b - a + 1
  <2>1. Cardinality(a..b) = IF a > b THEN 0 ELSE b - a + 1
    BY FS_Interval
  <2>2. QED
    BY <2>1
<1>7. QED
  BY <1>1, <1>5, <1>6

(* At least half of the numbers are less than c when the median is, at     *)
(* least half are more than c when the median is, and the median of equal  *)
(* numbers is one of them.                                                 *)
LEMMA MedianHalves ==
    ASSUME NEW D \in SUBSET Int, NEW f \in [D -> Int], NEW c \in Int, NEW B \in SUBSET D,
           IsFiniteSet(D), D # {}
    PROVE  /\ Cardinality(D) \in Nat \ {0} /\ Len(Sorted(f)) = Cardinality(D)
           /\ Median2(f) < 2 * c /\ (\A k \in D : f[k] < c => k \in B)
                => 2 * Cardinality(B) >= Cardinality(D)
           /\ Median2(f) > 2 * c /\ (\A k \in D : f[k] > c => k \in B)
                => 2 * Cardinality(B) >= Cardinality(D)
           /\ (\A k \in D : f[k] = c) => Median2(f) = 2 * c
<1> DEFINE n == Cardinality(D)
           s == Sorted(f)
           mid == n \div 2
<1>1. n \in Nat \ {0}
  BY FS_CardinalityType, FS_EmptySet
<1>2. PICK order : Lists(order, D, Upon(D, f)) /\ s = [k \in 1..n |-> f[order[k]]]
  BY SortedIs
<1>3. /\ \A k \in 1..n : s[k] = f[order[k]] /\ order[k] \in D /\ s[k] \in Int
      /\ s \in Seq(Int) /\ Len(s) = n
  <2>1. \A k \in 1..n : s[k] = f[order[k]] /\ order[k] \in D /\ s[k] \in Int
    BY <1>2 DEF Lists
  <2>2. s = [k \in 1..n |-> s[k]] /\ n \in Nat
    BY <1>1, <1>2
  <2> HIDE DEF s, n
  <2>3. QED
    BY <2>1, <2>2
<1>4. ASSUME NEW i \in 1..n, NEW j \in 1..n, i <= j PROVE s[i] <= s[j]
  <2>1. CASE i = j
    BY <1>3, <2>1
  <2>2. CASE i < j
    <3>1. <<order[i], order[j]>> \in Upon(D, f)
      BY <1>2, <2>2 DEF Lists
    <3>2. f[order[i]] < f[order[j]] \/ f[order[i]] = f[order[j]]
      BY <3>1 DEF Upon
    <3>3. QED
      BY <1>3, <3>2
  <2>3. i = j \/ i < j
    BY <1>1, <1>4
  <2>4. QED
    BY <2>1, <2>2, <2>3
<1>5. Median2(f) = IF n % 2 = 1 THEN 2 * s[mid + 1] ELSE s[mid] + s[mid + 1]
  BY <1>3 DEF Median2, Middle2
<1> HIDE DEF s
<1>6. /\ mid \in Nat /\ n % 2 \in {0, 1} /\ n = 2 * mid + (n % 2)
      /\ n % 2 = 0 => mid \in 1..n
      /\ mid + 1 \in 1..n \/ n % 2 = 0
      /\ n % 2 = 0 => mid + 1 \in 1..n
  BY <1>1
<1> HIDE DEF n, mid
<1>7. mid + 1 \in 1..n /\ (n % 2 = 0 => s[mid] \in Int /\ s[mid] <= s[mid + 1]) /\ s[mid + 1] \in Int
  <2>1. mid + 1 \in 1..n
    BY <1>6
  <2>2. n % 2 = 0 => mid <= mid + 1
    BY <1>6
  <2>3. QED
    BY <1>3, <1>4, <1>6, <2>1, <2>2
<1>8. ASSUME Median2(f) < 2 * c, \A k \in D : f[k] < c => k \in B
      PROVE  2 * Cardinality(B) >= n
  <2> DEFINE h == IF n % 2 = 1 THEN mid + 1 ELSE mid
  <2>1. h \in 1..n /\ s[h] < c /\ 2 * h >= n /\ s[h] \in Int
    BY <1>1, <1>5, <1>6, <1>7, <1>8
  <2> HIDE DEF h
  <2>2. ASSUME NEW k \in 1..h PROVE k \in 1..n /\ order[k] \in B
    <3>1. k \in 1..n /\ s[k] <= s[h]
      BY <1>1, <1>4, <2>1
    <3>2. s[k] < c
      BY <1>3, <2>1, <3>1
    <3>3. QED
      BY <1>3, <1>8, <3>1, <3>2
  <2>3. 1 \in Int /\ h \in Int /\ 1 <= h + 1
    BY <2>1
  <2>4. Cardinality(B) \in Nat /\ Cardinality(B) >= h - 1 + 1
    BY <1>2, <2>2, <2>3, StretchCounts DEF n
  <2>5. QED
    BY <1>1, <2>1, <2>4
<1>9. ASSUME Median2(f) > 2 * c, \A k \in D : f[k] > c => k \in B
      PROVE  2 * Cardinality(B) >= n
  <2> DEFINE h == mid + 1
  <2>1. h \in 1..n /\ s[h] > c /\ 2 * (n - h + 1) >= n /\ s[h] \in Int
    BY <1>1, <1>5, <1>6, <1>7, <1>9
  <2> HIDE DEF h
  <2>2. ASSUME NEW k \in h..n PROVE k \in 1..n /\ order[k] \in B
    <3>1. k \in 1..n /\ s[h] <= s[k]
      BY <1>1, <1>4, <2>1
    <3>2. s[k] > c
      BY <1>3, <2>1, <3>1
    <3>3. QED
      BY <1>3, <1>9, <3>1, <3>2
  <2>3. h \in Int /\ n \in Int /\ h <= n + 1
    BY <1>1, <2>1
  <2>4. Cardinality(B) \in Nat /\ Cardinality(B) >= n - h + 1
    BY <1>2, <2>2, <2>3, StretchCounts DEF n
  <2>5. QED
    BY <1>1, <2>1, <2>4
<1>10. ASSUME \A k \in D : f[k] = c PROVE Median2(f) = 2 * c
  <2>1. s[mid + 1] = c /\ (n % 2 = 0 => s[mid] = c)
    BY <1>3, <1>6, <1>7, <1>10
  <2>2. QED
    BY <1>5, <1>6, <2>1
<1>11. QED
  BY <1>1, <1>3, <1>8, <1>9, <1>10 DEF n, s
-------------------------------------------------------------------------------
(* The rows of a replay, and what the gate made of them.                   *)
Row == [gold : BOOLEAN, baseline : {Tokens(ResidentChars)}, mem4 : Int]

RowsInv ==
    /\ rows \in Seq(Row)
    /\ pc = "index" => rows = <<>>
    /\ pc = "gate" => rows # <<>>
    /\ pc # "idle" => gate = NoGate
    /\ gate = NoGate \/ (rows # <<>> /\ gate = Judge(rows))

LEMMA TokensAre ==
    ASSUME NEW c \in Nat
    PROVE  Tokens(c) \in Nat
BY DEF Tokens

LEMMA SnippetsAre ==
    ASSUME NEW hits \in Seq(Text)
    PROVE  SnippetsOf(hits) \in Nat
<1> DEFINE n == Len(hits)
           step == [a \in (1..n) \X Nat |-> a[2] + SnippetChars[hits[a[1]]]]
           Sums(g) == g = [k \in 0..n |-> IF k = 0 THEN 0 ELSE g[k - 1] + SnippetChars[hits[k]]]
<1>1. n \in Nat /\ \A k \in 1..n : SnippetChars[hits[k]] \in Nat
  <2>1. n \in Nat /\ \A k \in 1..n : hits[k] \in Text
    OBVIOUS
  <2>2. \A u \in Text : SnippetChars[u] \in Nat
    <3>1. 0..240 \subseteq Nat
      OBVIOUS
    <3> HIDE DEF n, step
    <3>2. QED
      BY <3>1, SizeAssumption, Zenon
  <2>3. QED
    BY <2>1, <2>2
<1>2. \A k \in 1..n, v \in Nat : step[<<k, v>>] = v + SnippetChars[hits[k]] /\ step[<<k, v>>] \in Nat
  BY <1>1
<1> HIDE DEF step
<1>3. PICK f \in [0..n -> Nat] : Runs(f, n, 0, step)
  BY <1>1, <1>2, RunExists
<1>4. \A k \in 0..n : f[k] = IF k = 0 THEN 0 ELSE step[<<k, f[k - 1]>>]
  BY <1>3, Zenon DEF Runs
<1>5. \A k \in 0..n : k # 0 => step[<<k, f[k - 1]>>] = f[k - 1] + SnippetChars[hits[k]]
  BY <1>1, <1>2
<1>6. Sums(f)
  BY <1>4, <1>5
<1> DEFINE g == CHOOSE g : Sums(g)
<1>7. SnippetsOf(hits) = g[n]
  BY Zenon DEF SnippetsOf
<1>8. Sums(g)
  BY <1>6
<1> HIDE DEF g
<1>9. \A k \in 0..n : g[k] = IF k = 0 THEN 0 ELSE g[k - 1] + SnippetChars[hits[k]]
  BY <1>8
<1> DEFINE S == {k \in Nat : k <= n => g[k] \in Nat}
<1>10. 0 \in S
  BY <1>1, <1>9
<1>11. ASSUME NEW k \in Nat, k \in S PROVE k + 1 \in S
  BY <1>1, <1>9, <1>11
<1> HIDE DEF S
<1>12. n \in S
  BY <1>1, <1>10, <1>11, NatsIn
<1>13. QED
  BY <1>1, <1>7, <1>12 DEF S

LEMMA RowIs ==
    ASSUME NEW it, NEW hits \in Seq(Text)
    PROVE  RowOf(it, hits) \in Row
<1>1. SnippetsOf(hits) \in Nat /\ LegendChars \in Nat
  BY SnippetsAre, SizeAssumption
<1>2. Tokens(SnippetsOf(hits)) \in Nat /\ Tokens(LegendChars) \in Nat
  BY <1>1, TokensAre
<1>3. QED
  BY <1>2 DEF RowOf, Row

LEMMA RowsInit == Init => RowsInv
BY DEF Init, RowsInv

LEMMA RowsStep ==
    ASSUME StoreInv, RowsInv, [Next]_vars
    PROVE  RowsInv'
<1>1. CASE Begin
  BY <1>1 DEF Begin, RowsInv
<1>2. CASE IndexItem
  BY <1>2 DEF IndexItem, RowsInv
<1>3. CASE SearchItem
  <2>1. PICK s \in Searches(Question[items[at]], docs, trigram, now, Limit) :
           rows' = Append(rows, RowOf(items[at], s.hits))
    BY <1>3 DEF SearchItem
  <2>2. s.hits \in Seq(Text)
    <3>1. GoodDocs(docs) /\ now \in Nat /\ Limit \in Nat \ {0} /\ Limit \in Nat
      BY SizeAssumption DEF StoreInv
    <3>2. \E asked : s \in Searches(asked, docs, trigram, now, Limit)
      OBVIOUS
    <3>3. PICK asked : s \in Searches(asked, docs, trigram, now, Limit)
      BY <3>2
    <3>4. Answers(s, asked, docs, now, Limit)
      BY <3>1, <3>3, SearchRecalls
    <3>5. s.rows \in Seq(DOMAIN docs) /\ s.hits = Reranked(s.rows, docs, now, Limit)
      BY <3>4 DEF Answers
    <3>6. s.hits \in Seq(DOMAIN docs)
      BY <3>1, <3>5, RerankedIs
    <3>7. QED
      BY <3>1, <3>6 DEF GoodDocs
  <2>3. RowOf(items[at], s.hits) \in Row
    BY <2>2, RowIs
  <2>4. rows' \in Seq(Row) /\ rows' # <<>>
    BY <2>1, <2>3 DEF RowsInv
  <2>5. pc = "search" /\ pc' \in {"search", "gate"} /\ UNCHANGED gate
    BY <1>3 DEF SearchItem
  <2>6. QED
    BY <2>4, <2>5 DEF RowsInv
<1>4. CASE Gate
  BY <1>4 DEF Gate, RowsInv
<1>5. CASE Record \/ UNCHANGED vars
  BY <1>5 DEF Record, vars, RowsInv
<1>6. QED
  BY <1>1, <1>2, <1>3, <1>4, <1>5 DEF Next

(* SHIP means that something was found, that half of the questions cost    *)
(* less and that half of the sessions open with less: for any sizes, any   *)
(* questions and any corpus.                                               *)
THEOREM ShipMeansWinAlways == Spec => []ShipMeansWin
<1>1. RowsInv => ShipMeansWin
  <2> SUFFICES ASSUME RowsInv, Ships PROVE ShipMeansWin
    BY DEF ShipMeansWin
  <2>1. gate.recall /\ gate.tokens /\ gate.resident
    BY DEF Ships
  <2>2. rows # <<>> /\ gate = Judge(rows) /\ rows \in Seq(Row)
    BY <2>1 DEF RowsInv, NoGate
  <2> DEFINE D == DOMAIN rows
             costs == [k \in D |-> rows[k].mem4]
             bases == [k \in D |-> rows[k].baseline]
             c == Tokens(ResidentChars)
  <2>3. /\ D = 1..Len(rows) /\ Len(rows) \in Nat \ {0} /\ D \in SUBSET Int
        /\ D # {} /\ c \in Nat
        /\ \A k \in D : rows[k].gold \in BOOLEAN /\ rows[k].mem4 \in Int /\ rows[k].baseline = c
    <3>1. D = 1..Len(rows) /\ Len(rows) \in Nat \ {0} /\ \A k \in D : rows[k] \in Row
      BY <2>2
    <3>2. c \in Nat
      BY TokensAre, SizeAssumption
    <3>3. \A k \in D : rows[k].gold \in BOOLEAN /\ rows[k].mem4 \in Int /\ rows[k].baseline = c
      <4> SUFFICES ASSUME NEW k \in D
                   PROVE  rows[k].gold \in BOOLEAN /\ rows[k].mem4 \in Int /\ rows[k].baseline = c
        OBVIOUS
      <4>1. rows[k] \in Row
        BY <3>1
      <4>2. QED
        BY <4>1 DEF Row
    <3> HIDE DEF c, D
    <3>4. QED
      BY <3>1, <3>2, <3>3
  <2>4. IsFiniteSet(D) /\ Cardinality(D) = Len(rows)
    <3>1. IsFiniteSet(1..Len(rows)) /\ Cardinality(1..Len(rows)) = Len(rows)
      BY <2>3, UpTo
    <3>2. QED
      BY <2>3, <3>1
  <2>5. \E k \in D : rows[k].gold
    <3>1. 100 * Golds(rows) >= 30 * Len(rows)
      BY <2>1, <2>2 DEF Judge
    <3>2. SUFFICES ASSUME \A k \in D : ~rows[k].gold PROVE FALSE
      OBVIOUS
    <3>3. {k \in D : rows[k].gold} = {}
      BY <3>2
    <3>4. Golds(rows) = 0
      BY <3>3, FS_EmptySet DEF Golds
    <3>5. QED
      BY <2>3, <3>1, <3>4
  <2>6. Median2(costs) < Median2(bases)
    BY <2>1, <2>2 DEF Judge, Map
  <2>7. costs \in [D -> Int] /\ bases \in [D -> Int] /\ c \in Int
    BY <2>3
  <2>8. /\ \A k \in D : costs[k] = rows[k].mem4 /\ bases[k] = rows[k].baseline
        /\ \A k \in D : bases[k] = c
    BY <2>3
  <2> HIDE DEF costs, bases, c, D
  <2>9. Median2(bases) = 2 * c
    BY <2>3, <2>4, <2>7, <2>8, MedianHalves, ZenonT(40)
  <2>10. 2 * Cardinality({k \in D : rows[k].mem4 < rows[k].baseline}) >= Len(rows)
    <3> DEFINE B == {k \in D : rows[k].mem4 < rows[k].baseline}
    <3>1. Median2(costs) < 2 * c
      BY <2>6, <2>9
    <3>2. B \in SUBSET D /\ \A k \in D : costs[k] < c => k \in B
      BY <2>3, <2>8
    <3> HIDE DEF B
    <3>3. 2 * Cardinality(B) >= Cardinality(D)
      BY <2>3, <2>4, <2>7, <3>1, <3>2, MedianHalves
    <3>4. QED
      BY <2>4, <3>3 DEF B
  <2>11. 2 * Cardinality({k \in DOMAIN SessionChars :
                             Tokens(LegendChars) < Tokens(SessionChars[k])}) >= Len(SessionChars)
    <3> DEFINE E == DOMAIN SessionChars
               sizes == [k \in E |-> Tokens(SessionChars[k])]
               l == Tokens(LegendChars)
    <3>1. /\ E = 1..Len(SessionChars) /\ Len(SessionChars) \in Nat \ {0} /\ E # {}
          /\ E \in SUBSET Int /\ \A k \in E : SessionChars[k] \in Nat
      <4>1. SessionChars \in Seq(Nat) /\ SessionChars # <<>>
        BY SizeAssumption
      <4>2. E = 1..Len(SessionChars) /\ Len(SessionChars) \in Nat \ {0}
        BY <4>1
      <4>3. \A k \in E : SessionChars[k] \in Nat
        BY <4>1
      <4> HIDE DEF E
      <4>4. QED
        BY <4>2, <4>3
    <3>2. IsFiniteSet(E) /\ Cardinality(E) = Len(SessionChars)
      <4>1. IsFiniteSet(1..Len(SessionChars)) /\ Cardinality(1..Len(SessionChars)) = Len(SessionChars)
        BY <3>1, UpTo
      <4>2. QED
        BY <3>1, <4>1
    <3>3. sizes \in [E -> Int] /\ l \in Int
      <4>1. \A k \in E : Tokens(SessionChars[k]) \in Nat
        BY <3>1, TokensAre
      <4>2. l \in Nat
        BY TokensAre, SizeAssumption
      <4> HIDE DEF E, l
      <4>3. QED
        BY <4>1, <4>2
    <3>4. 2 * l < Median2(sizes)
      BY <2>1, <2>2 DEF Judge, Map
    <3>5. \A k \in E : sizes[k] = Tokens(SessionChars[k])
      OBVIOUS
    <3> HIDE DEF E, sizes, l
    <3>6. Median2(sizes) > 2 * l
      BY <3>4
    <3> DEFINE B == {k \in E : l < Tokens(SessionChars[k])}
    <3>7. B \in SUBSET E /\ \A k \in E : sizes[k] > l => k \in B
      BY <3>3, <3>5
    <3> HIDE DEF B
    <3>8. 2 * Cardinality(B) >= Cardinality(E)
      <4>1. E \in SUBSET Int /\ E # {} /\ IsFiniteSet(E)
        BY <3>1, <3>2
      <4>2. QED
        BY <3>3, <3>6, <3>7, <4>1, MedianHalves
    <3>9. QED
      BY <3>2, <3>8 DEF B, E, l
  <2>12. QED
    BY <2>5, <2>10, <2>11 DEF ShipMeansWin, D
<1>2. QED
  BY <1>1, StoreInit, StoreStep, RowsInit, RowsStep, PTL DEF Spec

-------------------------------------------------------------------------------
(* The two reports of the paired difference agree about any events, and a  *)
(* positive median means that half of the pairs were cheaper.              *)
THEOREM ReportsAgreeAlways == Spec => []ReportsAgree
<1> DEFINE EventsInv == events \in Seq(Event)
<1>1. Init => EventsInv
  BY DEF Init
<1>2. EventsInv /\ [Next]_vars => EventsInv'
  BY DEF Next, vars, Begin, IndexItem, SearchItem, Gate, Record
<1>3. EventsInv => ReportsAgree
  <2> SUFFICES ASSUME EventsInv PROVE ReportsAgree
    OBVIOUS
  <2> DEFINE D == {i \in DOMAIN events : Carries(events[i])}
             diffs == Diffs(events)
             s == Sorted(diffs)
  <2>1. /\ D \in SUBSET (1..Len(events)) /\ Len(events) \in Nat
        /\ \A k \in D : events[k].baseline \in Int /\ events[k].mem4 \in Int
    BY EventAssumption
  <2>2. diffs \in [D -> Int] /\ DOMAIN diffs = D
    BY <2>1 DEF Diffs
  <2>3. IsFiniteSet(D) /\ D \in SUBSET Int
    <3>1. IsFiniteSet(1..Len(events))
      BY <2>1, UpTo
    <3>2. IsFiniteSet(D)
      BY <2>1, <3>1, FS_Subset
    <3>3. QED
      BY <2>1, <3>2
  <2>4. /\ Paired(events).n = Cardinality(D)
        /\ Paired(events).median2 = IF diffs = <<>> THEN 0 ELSE Median2(diffs)
        /\ Paired(events).cheaper = Cardinality({k \in D : diffs[k] > 0})
    BY <2>2 DEF Paired
  <2>5. Summary(events) = IF s = <<>> THEN 0 ELSE Median2(diffs)
    BY DEF Summary, Median2, Middle2
  <2> HIDE DEF diffs, D
  <2>6. CASE D = {}
    <3>1. Cardinality(D) = 0
      BY <2>6, FS_EmptySet
    <3>2. diffs = <<>>
      BY <2>2, <2>6
    <3>3. PICK order : s = [k \in 1..0 |-> diffs[order[k]]]
      BY <2>2, <2>3, <3>1, SortedIs
    <3>4. s = <<>>
      BY <3>3
    <3>5. QED
      BY <2>4, <2>5, <3>2, <3>4 DEF ReportsAgree
  <2>7. CASE D # {}
    <3>1. diffs # <<>>
      BY <2>2, <2>7
    <3>2. /\ Len(s) = Cardinality(D) /\ Cardinality(D) \in Nat \ {0}
          /\ Median2(diffs) > 2 * 0 => 2 * Cardinality({k \in D : diffs[k] > 0}) >= Cardinality(D)
      <4> DEFINE B == {k \in D : diffs[k] > 0}
      <4>1. B \in SUBSET D /\ 0 \in Int /\ \A k \in D : diffs[k] > 0 => k \in B
        OBVIOUS
      <4> HIDE DEF B
      <4>2. /\ Len(Sorted(diffs)) = Cardinality(D) /\ Cardinality(D) \in Nat \ {0}
            /\ Median2(diffs) > 2 * 0 => 2 * Cardinality(B) >= Cardinality(D)
        BY <2>2, <2>3, <2>7, <4>1, MedianHalves
      <4>3. QED
        BY <4>2 DEF B
    <3> HIDE DEF s
    <3>3. s # <<>>
      BY <3>2
    <3>4. Paired(events).median2 = Median2(diffs) /\ Summary(events) = Median2(diffs)
      BY <2>4, <2>5, <3>1, <3>3
    <3>5. Paired(events).median2 > 0 => 2 * Paired(events).cheaper >= Paired(events).n
      BY <2>4, <3>2, <3>4
    <3>6. QED
      BY <3>4, <3>5 DEF ReportsAgree
  <2>8. QED
    BY <2>6, <2>7
<1>4. QED
  BY <1>1, <1>2, <1>3, PTL DEF Spec
===============================================================================
