---------------------------- MODULE UserMindProofs ----------------------------
(***************************************************************************)
(* For any turns, preferences, notes, marks, edits, runs, kills, restores  *)
(* and any number of processes: what is extracted, what the managed block  *)
(* is, and that what apply and restore do loses no note.                   *)
(***************************************************************************)
EXTENDS UserMind, FiniteSetTheorems, SequenceTheorems, WellFoundedInduction, TLAPS

-------------------------------------------------------------------------------
(* Ranks.  In a finite set in strict order R the elements have 0, 1, ...   *)
(* elements before them.                                                   *)
IsOrder(S, R) ==
    /\ \A x \in S : <<x, x>> \notin R
    /\ \A x, y, z \in S : <<x, y>> \in R /\ <<y, z>> \in R => <<x, z>> \in R
    /\ \A x, y \in S : x = y \/ <<x, y>> \in R \/ <<y, x>> \in R

Below(S, R, x) == {y \in S : <<y, x>> \in R}
Rank(S, R, x)  == Cardinality(Below(S, R, x))

LEMMA UpTo ==
    ASSUME NEW n \in Nat
    PROVE  IsFiniteSet(1..n) /\ Cardinality(1..n) = n
BY FS_Interval

LEMMA RankRange ==
    ASSUME NEW S, IsFiniteSet(S), NEW R, IsOrder(S, R), NEW x \in S
    PROVE  /\ IsFiniteSet(Below(S, R, x)) /\ Rank(S, R, x) \in Nat
           /\ Cardinality(S) \in Nat /\ Rank(S, R, x) + 1 \in 1..Cardinality(S)
<1>1. Below(S, R, x) \in SUBSET S /\ Below(S, R, x) # S
  BY DEF Below, IsOrder
<1>2. IsFiniteSet(Below(S, R, x)) /\ Rank(S, R, x) <= Cardinality(S)
        /\ Rank(S, R, x) # Cardinality(S)
  BY <1>1, FS_Subset DEF Rank
<1>3. Rank(S, R, x) \in Nat /\ Cardinality(S) \in Nat
  BY <1>2, FS_CardinalityType DEF Rank
<1>4. QED
  BY <1>2, <1>3

LEMMA RankGrows ==
    ASSUME NEW S, IsFiniteSet(S), NEW R, IsOrder(S, R), NEW x \in S, NEW y \in S, <<x, y>> \in R
    PROVE  Rank(S, R, x) < Rank(S, R, y)
<1>1. Below(S, R, x) \in SUBSET Below(S, R, y) /\ Below(S, R, x) # Below(S, R, y)
  BY DEF Below, IsOrder
<1>2. Rank(S, R, x) \in Nat /\ Rank(S, R, y) \in Nat /\ IsFiniteSet(Below(S, R, y))
  BY RankRange
<1>3. Rank(S, R, x) <= Rank(S, R, y) /\ Rank(S, R, x) # Rank(S, R, y)
  BY <1>1, <1>2, FS_Subset DEF Rank
<1>4. QED
  BY <1>2, <1>3

LEMMA RankExists ==
    ASSUME NEW S, IsFiniteSet(S), NEW R, IsOrder(S, R), NEW k \in 1..Cardinality(S)
    PROVE  \E x \in S : Rank(S, R, x) = k - 1
<1> DEFINE f == [x \in S |-> Rank(S, R, x) + 1]
           n == Cardinality(S)
<1>1. n \in Nat
  BY FS_CardinalityType
<1>2. f \in [S -> 1..n]
  BY RankRange
<1>3. ASSUME NEW x \in S, NEW y \in S, x # y PROVE f[x] # f[y]
  <2>1. <<x, y>> \in R \/ <<y, x>> \in R
    BY <1>3 DEF IsOrder
  <2>2. Rank(S, R, x) < Rank(S, R, y) \/ Rank(S, R, y) < Rank(S, R, x)
    BY <2>1, RankGrows
  <2>3. Rank(S, R, x) \in Nat /\ Rank(S, R, y) \in Nat
    BY RankRange
  <2>4. QED
    BY <2>2, <2>3
<1>4. f \in Injection(S, 1..n)
  BY <1>2, <1>3, Zenon DEF Injection, IsInjective
<1>5. IsFiniteSet(1..n) /\ Cardinality(1..n) = n
  BY <1>1, UpTo
<1> HIDE DEF f
<1>6. f \in Surjection(S, 1..n)
  BY <1>4, <1>5, FS_Injection
<1>7. PICK x \in S : f[x] = k
  BY <1>6 DEF Surjection
<1>8. Rank(S, R, x) \in Nat /\ f[x] = Rank(S, R, x) + 1
  BY RankRange DEF f
<1>9. QED
  BY <1>7, <1>8

-------------------------------------------------------------------------------
(* Induction on the natural numbers, stated for a set.                     *)
LEMMA NatsIn ==
    ASSUME NEW S, 0 \in S, \A n \in Nat : n \in S => n + 1 \in S
    PROVE  Nat \subseteq S
<1> SUFFICES ASSUME Nat \ S # {} PROVE FALSE
  OBVIOUS
<1>1. PICK x \in Nat \ S : \A y \in Nat \ S : ~(<<y, x>> \in OpToRel(<, Nat))
  BY NatLessThanWellFounded, WFMin
<1>2. x \in Nat /\ x \notin S /\ x # 0
  BY <1>1, Zenon
<1>3. x - 1 \in Nat /\ x - 1 < x /\ (x - 1) + 1 = x
  BY <1>2
<1>4. <<x - 1, x>> \in OpToRel(<, Nat)
  BY <1>2, <1>3, Zenon DEF OpToRel
<1>5. x - 1 \in S
  BY <1>1, <1>3, <1>4, Zenon
<1>6. QED
  BY <1>2, <1>3, <1>5

(* A recursive function on 0..n, its steps within T, exists.               *)
Runs(f, n, base, step) == f = [k \in 0..n |-> IF k = 0 THEN base ELSE step[<<k, f[k - 1]>>]]

LEMMA RunExists ==
    ASSUME NEW T, NEW base \in T, NEW N \in Nat, NEW step,
           \A k \in 1..N, v \in T : step[<<k, v>>] \in T
    PROVE  \E f \in [0..N -> T] : Runs(f, N, base, step)
<1> DEFINE S == {n \in Nat : n <= N => \E f \in [0..n -> T] : Runs(f, n, base, step)}
<1>1. 0 \in S
  <2>1. Runs([k \in 0..0 |-> base], 0, base, step)
    BY DEF Runs
  <2>2. QED
    BY <2>1
<1>2. ASSUME NEW n \in Nat, n \in S PROVE n + 1 \in S
  <2> SUFFICES ASSUME n + 1 <= N
               PROVE  \E g \in [0..(n + 1) -> T] : Runs(g, n + 1, base, step)
    OBVIOUS
  <2>1. PICK f \in [0..n -> T] : Runs(f, n, base, step)
    BY <1>2
  <2> DEFINE last == step[<<n + 1, f[n]>>]
             g == [k \in 0..(n + 1) |-> IF k = n + 1 THEN last ELSE f[k]]
  <2>2. last \in T
    OBVIOUS
  <2> HIDE DEF last
  <2>3. g \in [0..(n + 1) -> T]
    BY <2>2
  <2>4. \A k \in 0..(n + 1) : g[k] = IF k = 0 THEN base ELSE step[<<k, g[k - 1]>>]
    <3> SUFFICES ASSUME NEW k \in 0..(n + 1)
                 PROVE  g[k] = IF k = 0 THEN base ELSE step[<<k, g[k - 1]>>]
      OBVIOUS
    <3>1. CASE k = n + 1
      <4>1. g[k] = last /\ k # 0 /\ k - 1 = n /\ n \in 0..(n + 1) /\ n # n + 1
        BY <3>1
      <4>2. g[k - 1] = f[n]
        BY <4>1
      <4>3. QED
        BY <3>1, <4>1, <4>2 DEF last
    <3>2. CASE k # n + 1
      <4>1. k \in 0..n /\ g[k] = f[k]
        BY <3>2
      <4>2. k # 0 => g[k - 1] = f[k - 1]
        BY <4>1
      <4>3. f[k] = IF k = 0 THEN base ELSE step[<<k, f[k - 1]>>]
        BY <2>1, <4>1 DEF Runs
      <4>4. QED
        BY <4>1, <4>2, <4>3
    <3>3. QED
      BY <3>1, <3>2
  <2>5. Runs(g, n + 1, base, step)
    BY <2>4 DEF Runs
  <2> HIDE DEF g
  <2>6. QED
    BY <2>3, <2>5
<1> HIDE DEF S
<1>3. N \in S
  BY <1>1, <1>2, NatsIn
<1>4. QED
  BY <1>3 DEF S

-------------------------------------------------------------------------------
(* Extraction.  A turn that is as new as another, or newer, comes no later,*)
(* and one beyond the limit has as many others that are no older.          *)
TurnAt == [turn : Turn, ts : Time]
Docs   == Seq(TurnAt)

NoOlder(ds, i) == {j \in 1..Len(ds) \ {i} : ds[j].ts >= ds[i].ts}
Crowded(ds, i) == Cardinality(NoOlder(ds, i)) >= RecentLimit

LEMMA RecentIs ==
    ASSUME NEW ds \in Docs
    PROVE  /\ Recent(ds) \in Docs /\ Len(Recent(ds)) = Taken(ds)
           /\ \A i \in 1..Len(ds) : Crowded(ds, i) \/ \E r \in 1..Taken(ds) :
                /\ Recent(ds)[r] = ds[i]
                /\ \A m \in 1..r : \E j \in 1..Len(ds) :
                     Recent(ds)[m] = ds[j] /\ ds[j].ts >= ds[i].ts
<1> DEFINE n == Len(ds)
           c == Taken(ds)
           D == DOMAIN ds
           Newer(i, j) == ds[i].ts > ds[j].ts \/ (ds[i].ts = ds[j].ts /\ i > j)
           R == {p \in D \X D : Newer(p[1], p[2])}
           order == [k \in 1..n |-> CHOOSE i \in D : Cardinality({j \in D : Newer(j, i)}) = k - 1]
<1>1. n \in Nat /\ D = 1..n /\ \A i \in D : ds[i] \in TurnAt /\ ds[i].ts \in Int
  <2> HIDE DEF order, R, Newer
  <2>1. n \in Nat /\ D = 1..n /\ \A i \in D : ds[i] \in TurnAt
    BY DEF Docs
  <2>2. \A a \in TurnAt : a.ts \in Int
    BY DEF Time, TurnAt
  <2> HIDE DEF n, D
  <2>3. QED
    BY <2>1, <2>2
<1>2. IsFiniteSet(D) /\ Cardinality(D) = n
  <2>1. IsFiniteSet(1..n) /\ Cardinality(1..n) = n
    BY <1>1, UpTo
  <2>2. QED
    BY <1>1, <2>1
<1>c. c \in Nat /\ c <= n /\ (c < n => c = RecentLimit) /\ RecentLimit \in Nat
  <2>1. Len(ds) \in Nat
    BY DEF Docs
  <2> HIDE DEF order, R, Newer, D
  <2>2. QED
    BY <2>1, UserMindBounds DEF Taken
<1>3. Recent(ds) = [k \in 1..c |-> ds[order[k]]]
  <2>1. Recent(ds) = [k \in 1..c |->
                        ds[CHOOSE i \in D : Cardinality({j \in D : Newer(j, i)}) = k - 1]]
    BY Zenon DEF Recent, By
  <2>2. \A k \in 1..n : order[k] = CHOOSE i \in D : Cardinality({j \in D : Newer(j, i)}) = k - 1
    BY Zenon
  <2>3. \A k \in 1..c : k \in 1..n
    BY <1>1, <1>c
  <2> HIDE DEF order, c
  <2>4. QED
    BY <2>1, <2>2, <2>3, Zenon
<1>4. \A i, j \in D : <<i, j>> \in R <=> Newer(i, j)
  OBVIOUS
<1>5. IsOrder(D, R)
  <2>1. \A i \in D : i \in Int /\ ds[i].ts \in Int
    BY <1>1
  <2>2. \A i \in D : ~Newer(i, i)
    BY <2>1
  <2>3. \A i, j \in D : i = j \/ Newer(i, j) \/ Newer(j, i)
    BY <2>1
  <2>4. \A i, j, k \in D : Newer(i, j) /\ Newer(j, k) => Newer(i, k)
    BY <2>1
  <2> HIDE DEF Newer, R
  <2>5. QED
    BY <1>4, <2>2, <2>3, <2>4 DEF IsOrder
<1>6. \A i \in D : {j \in D : Newer(j, i)} = Below(D, R, i)
  BY <1>4 DEF Below
<1>7. \A i, j \in D : <<i, j>> \notin R => ds[j].ts >= ds[i].ts
  BY <1>1, <1>4
<1> HIDE DEF Newer, R, D
<1>8. \A k \in 1..n : order[k] \in D /\ Rank(D, R, order[k]) = k - 1
  <2> SUFFICES ASSUME NEW k \in 1..n PROVE order[k] \in D /\ Rank(D, R, order[k]) = k - 1
    OBVIOUS
  <2>1. \E i \in D : Cardinality({j \in D : Newer(j, i)}) = k - 1
    <3>1. PICK i \in D : Rank(D, R, i) = k - 1
      BY <1>2, <1>5, RankExists
    <3>2. QED
      BY <1>6, <3>1 DEF Rank
  <2>2. order[k] \in D /\ Cardinality({j \in D : Newer(j, order[k])}) = k - 1
    BY <2>1
  <2>3. QED
    BY <1>6, <2>2 DEF Rank
<1> HIDE DEF order, c
<1>9. Recent(ds) \in Docs /\ Len(Recent(ds)) = c /\ \A k \in 1..c : Recent(ds)[k] = ds[order[k]]
  <2>1. \A k \in 1..c : ds[order[k]] \in TurnAt
    BY <1>1, <1>c, <1>8
  <2>2. \A k \in 1..c : Recent(ds)[k] = ds[order[k]]
    BY <1>3
  <2>3. Recent(ds) = [k \in 1..c |-> Recent(ds)[k]]
    BY <1>3
  <2> HIDE DEF n
  <2>4. Recent(ds) \in Docs /\ Len(Recent(ds)) = c
    BY <1>c, <2>1, <2>2, <2>3 DEF Docs
  <2>5. QED
    BY <2>2, <2>4
<1>10. ASSUME NEW i \in D, Rank(D, R, i) + 1 <= c
       PROVE  \E r \in 1..c : /\ Recent(ds)[r] = ds[i]
                              /\ \A m \in 1..r : \E j \in D : Recent(ds)[m] = ds[j] /\ ds[j].ts >= ds[i].ts
  <2> DEFINE r == Rank(D, R, i) + 1
  <2>1. r \in 1..c /\ r \in 1..n /\ Rank(D, R, i) \in Nat
    BY <1>2, <1>5, <1>10, <1>c, RankRange
  <2>2. Rank(D, R, order[r]) = Rank(D, R, i) /\ order[r] \in D
    BY <1>8, <2>1
  <2>3. order[r] = i
    <3>1. <<i, order[r]>> \notin R /\ <<order[r], i>> \notin R
      BY <1>2, <1>5, <2>1, <2>2, RankGrows
    <3>2. QED
      BY <1>5, <2>2, <3>1 DEF IsOrder
  <2>4. ASSUME NEW m \in 1..r PROVE Recent(ds)[m] = ds[order[m]] /\ ds[order[m]].ts >= ds[i].ts /\ order[m] \in D
    <3>1. m \in 1..n /\ m \in 1..c
      BY <1>1, <1>c, <2>1
    <3>2. order[m] \in D /\ Rank(D, R, order[m]) = m - 1 /\ m - 1 <= Rank(D, R, i)
      BY <1>8, <2>1, <3>1
    <3>3. <<i, order[m]>> \notin R
      <4>1. ~(Rank(D, R, i) < Rank(D, R, order[m]))
        BY <2>1, <3>1, <3>2
      <4>2. QED
        BY <1>2, <1>5, <3>2, <4>1, RankGrows
    <3>4. QED
      BY <1>7, <1>9, <3>1, <3>2, <3>3
  <2>5. Recent(ds)[r] = ds[i]
    BY <1>9, <2>1, <2>3
  <2> HIDE DEF r
  <2>6. QED
    BY <2>1, <2>4, <2>5
<1>11. \A x : x \in D <=> x \in 1..n
  BY <1>1, Zenon
<1>12. ASSUME NEW i \in D, ~(Rank(D, R, i) + 1 <= c)
       PROVE  Crowded(ds, i)
  <2>1. Rank(D, R, i) \in Nat /\ Rank(D, R, i) + 1 \in 1..n /\ IsFiniteSet(Below(D, R, i))
    BY <1>2, <1>5, RankRange
  <2>2. Rank(D, R, i) >= RecentLimit
    BY <1>1, <1>c, <1>12, <2>1
  <2>3. Below(D, R, i) \subseteq NoOlder(ds, i)
    <3> SUFFICES ASSUME NEW j \in D, <<j, i>> \in R PROVE j \in NoOlder(ds, i)
      BY DEF Below
    <3>1. j # i /\ <<i, j>> \notin R
      BY <1>5 DEF IsOrder
    <3>2. ds[j].ts >= ds[i].ts
      BY <1>7, <3>1
    <3>3. j \in 1..Len(ds)
      BY <1>11 DEF n
    <3>4. QED
      BY <3>1, <3>2, <3>3 DEF NoOlder
  <2>4. IsFiniteSet(NoOlder(ds, i))
    <3>1. NoOlder(ds, i) \subseteq 1..n /\ IsFiniteSet(1..n)
      BY <1>1, UpTo DEF NoOlder, n
    <3>2. QED
      BY <3>1, FS_Subset
  <2>5. /\ Rank(D, R, i) <= Cardinality(NoOlder(ds, i))
        /\ Cardinality(NoOlder(ds, i)) \in Nat
    BY <2>3, <2>4, FS_Subset, FS_CardinalityType DEF Rank
  <2>6. QED
    BY <1>c, <2>1, <2>2, <2>5 DEF Crowded
<1>13. ASSUME NEW i \in 1..n, ~Crowded(ds, i)
       PROVE  \E r \in 1..c : /\ Recent(ds)[r] = ds[i]
                              /\ \A m \in 1..r : \E j \in 1..n : Recent(ds)[m] = ds[j] /\ ds[j].ts >= ds[i].ts
  <2>1. i \in D
    BY <1>11
  <2>2. Rank(D, R, i) + 1 <= c
    BY <1>12, <1>13, <2>1, Zenon
  <2>3. PICK r \in 1..c : /\ Recent(ds)[r] = ds[i]
                          /\ \A m \in 1..r : \E j \in D : Recent(ds)[m] = ds[j] /\ ds[j].ts >= ds[i].ts
    BY <1>10, <2>1, <2>2, Zenon
  <2>4. \A m \in 1..r : \E j \in 1..n : Recent(ds)[m] = ds[j] /\ ds[j].ts >= ds[i].ts
    BY <1>11, <2>3, Zenon
  <2>5. QED
    BY <2>3, <2>4, Zenon
<1>14. QED
  BY <1>9, <1>13, Zenon DEF c, n

(* What one statement, and what the statements of a text, add to what is   *)
(* extracted so far.                                                       *)
Grown(acc, res, said, n) ==
    /\ res \in Seq(Statement) /\ Len(acc) <= Len(res) /\ Len(res) <= MaxItems
    /\ \A k \in 1..Len(acc) : res[k] = acc[k]
    /\ \A k \in 1..Len(res) : k > Len(acc) => \E m \in 1..n : res[k] = said[m]
    /\ \A k \in 1..n : IsPreference[said[k]] =>
          Len(res) = MaxItems \/ \E m \in 1..Len(res) : Key[res[m]] = Key[said[k]]

GrownByOne(acc, res, s) ==
    /\ res \in Seq(Statement) /\ Len(acc) <= Len(res) /\ Len(res) <= MaxItems
    /\ \A k \in 1..Len(acc) : res[k] = acc[k]
    /\ \A k \in 1..Len(res) : k > Len(acc) => res[k] = s
    /\ IsPreference[s] =>
         Len(res) = MaxItems \/ \E m \in 1..Len(res) : Key[res[m]] = Key[s]

LEMMA ExtractIs ==
    ASSUME NEW acc \in Seq(Statement), NEW s \in Statement, Len(acc) <= MaxItems
    PROVE  GrownByOne(acc, Extract(acc, s), s)
<1> DEFINE res == Extract(acc, s)
           new == Append(acc, s)
<1>1. MaxItems \in Nat /\ Len(acc) \in Nat /\ DOMAIN acc = 1..Len(acc)
  BY UserMindBounds
<1>2. /\ new \in Seq(Statement) /\ Len(new) = Len(acc) + 1
      /\ \A k \in 1..Len(acc) : new[k] = acc[k]
      /\ new[Len(acc) + 1] = s
  BY AppendProperties
<1>3. CASE IsPreference[s] /\ Len(acc) < MaxItems /\ \A i \in DOMAIN acc : Key[acc[i]] # Key[s]
  <2>1. res = new
    BY <1>3 DEF Extract
  <2> HIDE DEF new, res
  <2>2. Len(acc) + 1 \in 1..Len(res) /\ Key[res[Len(acc) + 1]] = Key[s]
    BY <1>1, <1>2, <2>1
  <2>3. \A k \in 1..Len(res) : k > Len(acc) => k = Len(acc) + 1
    BY <1>1, <1>2, <2>1
  <2>4. QED
    BY <1>1, <1>2, <1>3, <2>1, <2>2, <2>3 DEF GrownByOne, res
<1>4. CASE ~(IsPreference[s] /\ Len(acc) < MaxItems /\ \A i \in DOMAIN acc : Key[acc[i]] # Key[s])
  <2>1. res = acc
    BY <1>4 DEF Extract
  <2>2. IsPreference[s] => Len(acc) = MaxItems \/ \E m \in 1..Len(acc) : Key[acc[m]] = Key[s]
    <3>1. IsPreference[s] => ~(Len(acc) < MaxItems) \/ \E i \in DOMAIN acc : Key[acc[i]] = Key[s]
      BY <1>4, Zenon
    <3>2. ~(Len(acc) < MaxItems) => Len(acc) = MaxItems
      <4>1. \A m, l \in Nat : l <= m /\ ~(l < m) => l = m
        OBVIOUS
      <4>2. QED
        BY <1>1, <4>1, Zenon
    <3>3. (\E i \in DOMAIN acc : Key[acc[i]] = Key[s])
            => \E m \in 1..Len(acc) : Key[acc[m]] = Key[s]
      BY <1>1, Zenon
    <3>4. QED
      BY <3>1, <3>2, <3>3, Zenon
  <2> HIDE DEF new, res
  <2>3. Len(acc) <= Len(acc) /\ \A k \in 1..Len(acc) : ~(k > Len(acc))
    BY <1>1
  <2>4. GrownByOne(acc, acc, s)
    BY <2>2, <2>3, Zenon DEF GrownByOne
  <2>5. QED
    BY <2>1, <2>4, Zenon DEF res
<1>5. QED
  BY <1>3, <1>4

LEMMA ExtractAllIs ==
    ASSUME NEW acc \in Seq(Statement), NEW said \in Seq(Statement), Len(acc) <= MaxItems
    PROVE  Grown(acc, ExtractAll(acc, said), said, Len(said))
<1> DEFINE T == {a \in Seq(Statement) : Len(a) <= MaxItems}
           n == Len(said)
           step == [a \in (1..n) \X T |-> Extract(a[2], said[a[1]])]
           All(g) == g = [k \in 0..n |-> IF k = 0 THEN acc ELSE Extract(g[k - 1], said[k])]
<1>1. n \in Nat /\ acc \in T /\ \A k \in 1..n : said[k] \in Statement
  OBVIOUS
<1>2. \A k \in 1..n, v \in T : step[<<k, v>>] = Extract(v, said[k]) /\ step[<<k, v>>] \in T
  <2>1. \A k \in 1..n, v \in T : Extract(v, said[k]) \in T
    BY <1>1, ExtractIs DEF GrownByOne
  <2> HIDE DEF T
  <2>2. QED
    BY <2>1
<1> HIDE DEF step, T
<1>3. PICK f \in [0..n -> T] : Runs(f, n, acc, step)
  BY <1>1, <1>2, RunExists
<1>4. f[0] = acc /\ \A k \in 1..n : f[k] = Extract(f[k - 1], said[k])
  <2>1. \A k \in 0..n : f[k] = IF k = 0 THEN acc ELSE step[<<k, f[k - 1]>>]
    BY <1>3, Zenon DEF Runs
  <2>2. 0 \in 0..n /\ \A k \in 1..n : k \in 0..n /\ k # 0 /\ k - 1 \in 0..n /\ f[k - 1] \in T
    BY <1>1
  <2>3. QED
    BY <1>2, <2>1, <2>2
<1>5. All(f)
  <2>1. \A k \in 0..n : f[k] = IF k = 0 THEN acc ELSE Extract(f[k - 1], said[k])
    BY <1>1, <1>4
  <2>2. QED
    BY <2>1
<1> DEFINE g == CHOOSE g : All(g)
<1>6. ExtractAll(acc, said) = g[n]
  BY Zenon DEF ExtractAll
<1>7. All(g)
  BY <1>5
<1> HIDE DEF g
<1>8. g[0] = acc /\ \A k \in 1..n : g[k] = Extract(g[k - 1], said[k])
  <2>1. \A k \in 0..n : g[k] = IF k = 0 THEN acc ELSE Extract(g[k - 1], said[k])
    BY <1>7
  <2>2. QED
    BY <1>1, <2>1
<1> DEFINE S == {k \in Nat : k <= n => Grown(acc, g[k], said, k)}
<1>9. 0 \in S
  BY <1>1, <1>8 DEF Grown
<1>10. ASSUME NEW k \in Nat, k \in S PROVE k + 1 \in S
  <2> SUFFICES ASSUME k + 1 <= n PROVE Grown(acc, g[k + 1], said, k + 1)
    OBVIOUS
  <2>1. Grown(acc, g[k], said, k)
    BY <1>1, <1>10
  <2> DEFINE a == g[k]
             b == g[k + 1]
  <2>2. b = Extract(a, said[k + 1]) /\ said[k + 1] \in Statement
    BY <1>1, <1>8
  <2>3. a \in Seq(Statement) /\ Len(a) <= MaxItems /\ Len(acc) <= Len(a)
    BY <2>1 DEF Grown
  <2> HIDE DEF a, b
  <2>4. /\ b \in Seq(Statement) /\ Len(a) <= Len(b) /\ Len(b) <= MaxItems
        /\ \A j \in 1..Len(a) : b[j] = a[j]
        /\ \A j \in 1..Len(b) : j > Len(a) => b[j] = said[k + 1]
        /\ IsPreference[said[k + 1]] =>
             Len(b) = MaxItems \/ \E m \in 1..Len(b) : Key[b[m]] = Key[said[k + 1]]
    <3>1. GrownByOne(a, b, said[k + 1])
      BY <2>2, <2>3, ExtractIs
    <3>2. QED
      BY <3>1 DEF GrownByOne
  <2>5. Len(acc) \in Nat /\ Len(a) \in Nat /\ Len(b) \in Nat /\ MaxItems \in Nat /\ Len(acc) <= Len(b)
    BY <2>3, <2>4, UserMindBounds
  <2>6. \A j \in 1..Len(acc) : b[j] = acc[j]
    BY <2>1, <2>3, <2>4, <2>5 DEF Grown, a
  <2>7. ASSUME NEW j \in 1..Len(b), j > Len(acc) PROVE \E m \in 1..(k + 1) : b[j] = said[m]
    <3>1. CASE j > Len(a)
      BY <2>4, <3>1
    <3>2. CASE j <= Len(a)
      <4>1. j \in 1..Len(a) /\ b[j] = a[j]
        BY <2>4, <2>5, <3>2
      <4>2. PICK m \in 1..k : a[j] = said[m]
        BY <2>1, <2>7, <4>1 DEF Grown, a
      <4>3. QED
        BY <4>1, <4>2
    <3>3. QED
      BY <2>5, <3>1, <3>2
  <2>8. ASSUME NEW j \in 1..(k + 1), IsPreference[said[j]]
        PROVE  Len(b) = MaxItems \/ \E m \in 1..Len(b) : Key[b[m]] = Key[said[j]]
    <3>1. CASE j = k + 1
      BY <2>4, <2>8, <3>1
    <3>2. CASE j \in 1..k
      <4>1. Len(a) = MaxItems \/ \E m \in 1..Len(a) : Key[a[m]] = Key[said[j]]
        BY <2>1, <2>8, <3>2 DEF Grown, a
      <4>2. ASSUME NEW m \in 1..Len(a), Key[a[m]] = Key[said[j]]
            PROVE  m \in 1..Len(b) /\ Key[b[m]] = Key[said[j]]
        BY <2>4, <2>5, <4>2
      <4>3. Len(a) = MaxItems => Len(b) = MaxItems
        BY <2>4, <2>5
      <4>4. QED
        BY <4>1, <4>2, <4>3
    <3>3. QED
      BY <3>1, <3>2
  <2>9. Grown(acc, b, said, k + 1)
    BY <2>4, <2>5, <2>6, <2>7, <2>8 DEF Grown
  <2>10. QED
    BY <2>9 DEF b
<1> HIDE DEF S
<1>11. n \in S
  BY <1>1, <1>9, <1>10, NatsIn
<1>12. QED
  BY <1>1, <1>6, <1>11 DEF S

(* The texts are gone through one after the other, the newest first.       *)
SaidBy(ds, k) == Says[Recent(ds)[k].turn]

LEMMA SaidIs ==
    ASSUME NEW ds \in Docs, NEW k \in 1..Taken(ds)
    PROVE  SaidBy(ds, k) \in Seq(Statement) /\ k \in 1..Len(Recent(ds))
<1>1. Recent(ds) \in Docs /\ Len(Recent(ds)) = Taken(ds)
  BY RecentIs
<1>2. k \in 1..Len(Recent(ds)) /\ Recent(ds)[k] \in TurnAt
  BY <1>1 DEF Docs
<1>3. Recent(ds)[k].turn \in Turn
  BY <1>2 DEF TurnAt
<1>4. QED
  BY <1>2, <1>3, StatementAssumption DEF SaidBy

LEMMA PreferencesRun ==
    ASSUME NEW ds \in Docs, NEW mirrored \in Seq(Statement)
    PROVE  \E f :
              /\ f[0] = <<>>
              /\ \A k \in 0..Taken(ds) : f[k] \in Seq(Statement) /\ Len(f[k]) <= MaxItems
              /\ \A k \in 1..Taken(ds) : Grown(f[k - 1], f[k], SaidBy(ds, k), Len(SaidBy(ds, k)))
              /\ Grown(f[Taken(ds)], Preferences(ds, mirrored), mirrored, Len(mirrored))
<1> DEFINE T == {a \in Seq(Statement) : Len(a) <= MaxItems}
           n == Len(Recent(ds))
           step == [a \in (1..n) \X T |-> ExtractAll(a[2], SaidBy(ds, a[1]))]
           All(g) == g = [k \in 0..n |-> IF k = 0 THEN <<>>
                                         ELSE ExtractAll(g[k - 1], Says[Recent(ds)[k].turn])]
<1>1. n = Taken(ds) /\ n \in Nat /\ <<>> \in T
  <2>1. n = Taken(ds)
    BY RecentIs
  <2>2. Taken(ds) \in Nat
    BY UserMindBounds DEF Docs, Taken
  <2>3. <<>> \in T
    BY UserMindBounds
  <2>4. QED
    BY <2>1, <2>2, <2>3
<1>2. \A k \in 1..n, v \in T : step[<<k, v>>] = ExtractAll(v, SaidBy(ds, k)) /\ step[<<k, v>>] \in T
  <2>1. \A k \in 1..n, v \in T : ExtractAll(v, SaidBy(ds, k)) \in T
    BY <1>1, SaidIs, ExtractAllIs DEF Grown
  <2> HIDE DEF T, n
  <2>2. QED
    BY <2>1
<1> HIDE DEF step, T, n
<1>3. PICK f \in [0..n -> T] : Runs(f, n, <<>>, step)
  BY <1>1, <1>2, RunExists
<1>4. All(f)
  <2>1. \A k \in 0..n : f[k] = IF k = 0 THEN <<>> ELSE step[<<k, f[k - 1]>>]
    BY <1>3, Zenon DEF Runs
  <2>2. \A k \in 0..n : k # 0 => k \in 1..n /\ k - 1 \in 0..n /\ f[k - 1] \in T
    BY <1>1
  <2>3. \A k \in 0..n : f[k] = IF k = 0 THEN <<>> ELSE ExtractAll(f[k - 1], SaidBy(ds, k))
    BY <1>2, <2>1, <2>2
  <2>4. \A k \in 0..n : SaidBy(ds, k) = Says[Recent(ds)[k].turn]
    BY DEF SaidBy
  <2>5. QED
    BY <2>3, <2>4
<1> DEFINE g == CHOOSE g : All(g)
<1>5. Preferences(ds, mirrored) = ExtractAll(g[n], mirrored)
  BY Zenon DEF Preferences, n
<1>6. All(g)
  BY <1>4
<1> HIDE DEF g
<1>7. g[0] = <<>> /\ \A k \in 1..n : g[k] = ExtractAll(g[k - 1], SaidBy(ds, k))
  <2>1. \A k \in 0..n : g[k] = IF k = 0 THEN <<>> ELSE ExtractAll(g[k - 1], SaidBy(ds, k))
    BY <1>6 DEF SaidBy
  <2>2. QED
    BY <1>1, <2>1
<1> DEFINE S == {k \in Nat : k <= n => g[k] \in T}
<1>8. 0 \in S
  BY <1>1, <1>7
<1>9. ASSUME NEW k \in Nat, k \in S PROVE k + 1 \in S
  <2> SUFFICES ASSUME k + 1 <= n PROVE g[k + 1] \in T
    OBVIOUS
  <2>1. g[k] \in T /\ k + 1 \in 1..n
    BY <1>1, <1>9
  <2>2. g[k + 1] = ExtractAll(g[k], SaidBy(ds, k + 1))
    BY <1>7, <2>1
  <2>3. SaidBy(ds, k + 1) \in Seq(Statement)
    BY <1>1, <2>1, SaidIs
  <2>4. QED
    BY <2>1, <2>2, <2>3, ExtractAllIs DEF Grown, T
<1> HIDE DEF S
<1>10. \A k \in 0..n : g[k] \in Seq(Statement) /\ Len(g[k]) <= MaxItems
  <2>1. Nat \subseteq S
    BY <1>8, <1>9, NatsIn
  <2>2. QED
    BY <1>1, <2>1 DEF S, T
<1>11. \A k \in 1..n : Grown(g[k - 1], g[k], SaidBy(ds, k), Len(SaidBy(ds, k)))
  <2> SUFFICES ASSUME NEW k \in 1..n
               PROVE  Grown(g[k - 1], g[k], SaidBy(ds, k), Len(SaidBy(ds, k)))
    OBVIOUS
  <2>1. k - 1 \in 0..n /\ g[k - 1] \in Seq(Statement) /\ Len(g[k - 1]) <= MaxItems
    BY <1>1, <1>10
  <2>2. g[k] = ExtractAll(g[k - 1], SaidBy(ds, k)) /\ SaidBy(ds, k) \in Seq(Statement)
    BY <1>1, <1>7, SaidIs
  <2>3. QED
    BY <2>1, <2>2, ExtractAllIs
<1>12. Grown(g[n], Preferences(ds, mirrored), mirrored, Len(mirrored))
  <2>1. g[n] \in Seq(Statement) /\ Len(g[n]) <= MaxItems
    BY <1>1, <1>10
  <2>2. QED
    BY <1>5, <2>1, ExtractAllIs
<1>13. QED
  BY <1>1, <1>7, <1>10, <1>11, <1>12

(* A preference that is left out is so because the list was full with what *)
(* turns as new as its own have said, or for the limit.                    *)
Newest(ds, items) ==
    \A i \in DOMAIN ds : \A x \in ToSet(Says[ds[i].turn]) :
        (IsPreference[x] /\ Key[x] \notin {Key[items[k]] : k \in DOMAIN items}) =>
            \/ Cardinality({j \in DOMAIN ds \ {i} : ds[j].ts >= ds[i].ts}) >= RecentLimit
            \/ /\ Len(items) = MaxItems
               /\ \A k \in DOMAIN items : \E j \in DOMAIN ds :
                    items[k] \in ToSet(Says[ds[j].turn]) /\ ds[j].ts >= ds[i].ts

LEMMA PreferencesNewest ==
    ASSUME NEW ds \in Docs, NEW mirrored \in Seq(Statement)
    PROVE  Newest(ds, Preferences(ds, mirrored))
<1> DEFINE items == Preferences(ds, mirrored)
           n == Taken(ds)
<1>1. PICK f :
        /\ f[0] = <<>>
        /\ \A k \in 0..n : f[k] \in Seq(Statement) /\ Len(f[k]) <= MaxItems
        /\ \A k \in 1..n : Grown(f[k - 1], f[k], SaidBy(ds, k), Len(SaidBy(ds, k)))
        /\ Grown(f[n], items, mirrored, Len(mirrored))
  BY PreferencesRun
<1> HIDE DEF items
<1>2. n \in Nat /\ DOMAIN ds = 1..Len(ds) /\ MaxItems \in Nat
  BY UserMindBounds DEF Docs, Taken
<1> HIDE DEF n
(* What a list has, the longer one has; a full one stays.                  *)
<1>3. ASSUME NEW r \in 0..n
      PROVE  \A k \in 1..Len(f[r]) : k \in 1..Len(items) /\ items[k] = f[r][k]
  <2> DEFINE Kept(b) == Len(f[r]) <= Len(b) /\ \A k \in 1..Len(f[r]) : b[k] = f[r][k]
             S == {m \in Nat : (r <= m /\ m <= n) => Kept(f[m])}
  <2>1. 0 \in S /\ Len(f[r]) \in Nat
    BY <1>1, <1>2
  <2>2. ASSUME NEW m \in Nat, m \in S PROVE m + 1 \in S
    <3> SUFFICES ASSUME r <= m + 1, m + 1 <= n PROVE Kept(f[m + 1])
      OBVIOUS
    <3>1. CASE r = m + 1
      BY <2>1, <3>1
    <3>2. CASE r <= m
      <4>1. m + 1 \in 1..n /\ (m + 1) - 1 = m /\ m \in 0..n /\ m + 1 \in 0..n
        BY <1>2
      <4>2. Grown(f[m], f[m + 1], SaidBy(ds, m + 1), Len(SaidBy(ds, m + 1)))
        BY <1>1, <4>1
      <4>3. Len(f[m]) <= Len(f[m + 1]) /\ \A k \in 1..Len(f[m]) : f[m + 1][k] = f[m][k]
        BY <4>2 DEF Grown
      <4>4. Len(f[m]) \in Nat /\ Len(f[m + 1]) \in Nat
        BY <1>1, <4>1
      <4>5. Kept(f[m])
        BY <1>2, <2>2, <3>2, <4>1
      <4>6. QED
        BY <2>1, <4>3, <4>4, <4>5
    <3>3. QED
      BY <1>2, <3>1, <3>2
  <2> HIDE DEF S
  <2>3. n \in S
    BY <1>2, <2>1, <2>2, NatsIn
  <2>4. Kept(f[n])
    BY <1>2, <2>3 DEF S
  <2>5. Len(f[n]) <= Len(items) /\ \A k \in 1..Len(f[n]) : items[k] = f[n][k]
    BY <1>1 DEF Grown
  <2>6. Len(f[n]) \in Nat /\ Len(items) \in Nat
    BY <1>1, <1>2 DEF Grown
  <2>7. QED
    BY <2>1, <2>4, <2>5, <2>6
(* What is in a list was said by one of the texts gone through.            *)
<1>4. ASSUME NEW r \in 0..n
      PROVE  \A k \in 1..Len(f[r]) : \E q \in 1..r : f[r][k] \in ToSet(SaidBy(ds, q))
  <2> DEFINE Said(m) == \A k \in 1..Len(f[m]) : \E q \in 1..m : f[m][k] \in ToSet(SaidBy(ds, q))
             S == {m \in Nat : m <= n => Said(m)}
  <2>1. 0 \in S
    BY <1>1
  <2>2. ASSUME NEW m \in Nat, m \in S PROVE m + 1 \in S
    <3> SUFFICES ASSUME m + 1 <= n, NEW k \in 1..Len(f[m + 1])
                 PROVE  \E q \in 1..(m + 1) : f[m + 1][k] \in ToSet(SaidBy(ds, q))
      OBVIOUS
    <3>1. m + 1 \in 1..n /\ (m + 1) - 1 = m /\ m \in 0..n /\ m + 1 \in 0..n /\ m <= n
      BY <1>2
    <3>2. Grown(f[m], f[m + 1], SaidBy(ds, m + 1), Len(SaidBy(ds, m + 1)))
      BY <1>1, <3>1
    <3>3. Len(f[m]) \in Nat /\ Len(f[m + 1]) \in Nat
      BY <1>1, <3>1
    <3>4. CASE k <= Len(f[m])
      <4>1. k \in 1..Len(f[m]) /\ f[m + 1][k] = f[m][k]
        BY <3>2, <3>3, <3>4 DEF Grown
      <4>2. PICK q \in 1..m : f[m][k] \in ToSet(SaidBy(ds, q))
        BY <2>2, <3>1, <4>1
      <4>3. QED
        BY <4>1, <4>2
    <3>5. CASE k > Len(f[m])
      <4>1. PICK j \in 1..Len(SaidBy(ds, m + 1)) : f[m + 1][k] = SaidBy(ds, m + 1)[j]
        BY <3>2, <3>5 DEF Grown
      <4>2. SaidBy(ds, m + 1) \in Seq(Statement)
        BY <3>1, SaidIs DEF n
      <4>3. f[m + 1][k] \in ToSet(SaidBy(ds, m + 1))
        BY <4>1, <4>2 DEF ToSet
      <4>4. QED
        BY <4>3
    <3>6. QED
      BY <3>3, <3>4, <3>5
  <2> HIDE DEF S
  <2>3. r \in S /\ r <= n
    BY <1>2, <2>1, <2>2, NatsIn
  <2>4. QED
    BY <2>3 DEF S
<1>5. SUFFICES ASSUME NEW i \in 1..Len(ds), NEW x \in ToSet(Says[ds[i].turn]), IsPreference[x],
                      Key[x] \notin {Key[items[k]] : k \in DOMAIN items}, ~Crowded(ds, i)
               PROVE  /\ Len(items) = MaxItems
                      /\ \A k \in DOMAIN items : \E j \in 1..Len(ds) :
                            items[k] \in ToSet(Says[ds[j].turn]) /\ ds[j].ts >= ds[i].ts
  BY <1>2 DEF Newest, items, Crowded, NoOlder
<1>6. PICK r \in 1..n :
         /\ Recent(ds)[r] = ds[i]
         /\ \A m \in 1..r : \E j \in 1..Len(ds) : Recent(ds)[m] = ds[j] /\ ds[j].ts >= ds[i].ts
  BY <1>5, RecentIs DEF n
<1>7. r \in 0..n /\ f[r] \in Seq(Statement) /\ Len(f[r]) \in Nat
  BY <1>1, <1>2
<1>8. items \in Seq(Statement) /\ Len(items) <= MaxItems /\ DOMAIN items = 1..Len(items) /\ Len(items) \in Nat
  BY <1>1 DEF Grown
<1>9. Len(f[r]) = MaxItems
  <2>1. SaidBy(ds, r) \in Seq(Statement) /\ x \in ToSet(SaidBy(ds, r))
    BY <1>5, <1>6, SaidIs DEF SaidBy, n
  <2>2. PICK m \in 1..Len(SaidBy(ds, r)) : x = SaidBy(ds, r)[m]
    BY <2>1 DEF ToSet
  <2>3. Grown(f[r - 1], f[r], SaidBy(ds, r), Len(SaidBy(ds, r)))
    BY <1>1
  <2>4. Len(f[r]) = MaxItems \/ \E q \in 1..Len(f[r]) : Key[f[r][q]] = Key[x]
    BY <1>5, <2>2, <2>3 DEF Grown
  <2>5. \A q \in 1..Len(f[r]) : Key[f[r][q]] # Key[x]
    <3>1. \A q \in 1..Len(f[r]) : q \in DOMAIN items /\ items[q] = f[r][q]
      BY <1>3, <1>7, <1>8
    <3>2. QED
      BY <1>5, <3>1
  <2>6. QED
    BY <2>4, <2>5
<1>10. Len(items) = MaxItems
  <2>1. MaxItems \in 1..Len(f[r])
    BY <1>9, UserMindBounds
  <2>2. MaxItems \in 1..Len(items)
    BY <1>3, <1>7, <2>1
  <2>3. Len(items) \in Int /\ MaxItems \in Int
    BY <1>2, <1>8
  <2>4. MaxItems <= Len(items) /\ Len(items) <= MaxItems
    BY <1>8, <2>2
  <2>5. \A a, b \in Int : a <= b /\ b <= a => a = b
    OBVIOUS
  <2>6. QED
    BY <2>3, <2>4, <2>5
<1>11. ASSUME NEW k \in DOMAIN items
       PROVE  \E j \in 1..Len(ds) : items[k] \in ToSet(Says[ds[j].turn]) /\ ds[j].ts >= ds[i].ts
  <2>1. k \in 1..Len(f[r]) /\ items[k] = f[r][k]
    BY <1>3, <1>7, <1>8, <1>9
  <2>2. PICK q \in 1..r : f[r][k] \in ToSet(SaidBy(ds, q))
    BY <1>4, <1>7, <2>1
  <2>3. PICK j \in 1..Len(ds) : Recent(ds)[q] = ds[j] /\ ds[j].ts >= ds[i].ts
    BY <1>6, <2>2
  <2>4. QED
    BY <2>1, <2>2, <2>3 DEF SaidBy
<1>12. QED
  BY <1>10, <1>11

-------------------------------------------------------------------------------
(* Splicing a summary into a text gives a text.                            *)
Scanned(T) == [out : Seq(T), open : BOOLEAN]
Unscanned  == [out |-> <<>>, open |-> FALSE]

LEMMA ScanType ==
    ASSUME NEW T, NEW text \in Seq(T), NEW s \in T, NEW k \in 1..Len(text), NEW a \in Scanned(T),
           BEGIN \in T, END \in T
    PROVE  Scan(a, k, text, s) \in Scanned(T)
<1>1. a.out \in Seq(T) /\ a.open \in BOOLEAN /\ text[k] \in T /\ Block(s) \in Seq(T)
  BY DEF Scanned, Block
<1>2. a.out \o Block(s) \in Seq(T) /\ Append(a.out, text[k]) \in Seq(T)
  BY <1>1
<1>3. /\ [a EXCEPT !.open = text[k] # END] \in Scanned(T)
      /\ [out |-> a.out \o Block(s), open |-> TRUE] \in Scanned(T)
      /\ [a EXCEPT !.out = Append(@, text[k])] \in Scanned(T)
  BY <1>2 DEF Scanned
<1>4. QED
  BY <1>3, Zenon DEF Scan

LEMMA ScanRun ==
    ASSUME NEW T, NEW text \in Seq(T), NEW s \in T, BEGIN \in T, END \in T
    PROVE  \E f \in [0..Len(text) -> Scanned(T)] :
              /\ f[0] = Unscanned /\ Replaced(text, s) = f[Len(text)].out
              /\ \A k \in 1..Len(text) : f[k] = Scan(f[k - 1], k, text, s)
<1> DEFINE n == Len(text)
           step == [a \in (1..n) \X Scanned(T) |-> Scan(a[2], a[1], text, s)]
           All(g) == g = [k \in 0..n |-> IF k = 0 THEN Unscanned ELSE Scan(g[k - 1], k, text, s)]
<1>1. n \in Nat /\ Unscanned \in Scanned(T)
  BY DEF Unscanned, Scanned
<1>2. \A k \in 1..n, v \in Scanned(T) :
         step[<<k, v>>] = Scan(v, k, text, s) /\ step[<<k, v>>] \in Scanned(T)
  BY ScanType
<1> HIDE DEF step, n
<1>3. PICK f \in [0..n -> Scanned(T)] : Runs(f, n, Unscanned, step)
  BY <1>1, <1>2, RunExists
<1>4. All(f)
  <2>1. \A k \in 0..n : f[k] = IF k = 0 THEN Unscanned ELSE step[<<k, f[k - 1]>>]
    BY <1>3, Zenon DEF Runs
  <2>2. \A k \in 0..n : k # 0 => k \in 1..n /\ k - 1 \in 0..n /\ f[k - 1] \in Scanned(T)
    BY <1>1
  <2>3. \A k \in 0..n : f[k] = IF k = 0 THEN Unscanned ELSE Scan(f[k - 1], k, text, s)
    BY <1>2, <2>1, <2>2
  <2>4. QED
    BY <2>3
<1> DEFINE g == CHOOSE g : All(g)
<1>5. Replaced(text, s) = g[n].out
  BY Zenon DEF Replaced, Unscanned, n
<1>6. All(g)
  BY <1>4
<1> HIDE DEF g
<1>7. g[0] = Unscanned /\ \A k \in 1..n : g[k] = Scan(g[k - 1], k, text, s)
  <2>1. \A k \in 0..n : g[k] = IF k = 0 THEN Unscanned ELSE Scan(g[k - 1], k, text, s)
    BY <1>6
  <2>2. QED
    BY <1>1, <2>1
<1> DEFINE S == {k \in Nat : k <= n => g[k] \in Scanned(T)}
<1>8. 0 \in S
  BY <1>1, <1>7
<1>9. ASSUME NEW k \in Nat, k \in S PROVE k + 1 \in S
  <2> SUFFICES ASSUME k + 1 <= n PROVE g[k + 1] \in Scanned(T)
    OBVIOUS
  <2>1. g[k] \in Scanned(T) /\ k + 1 \in 1..n /\ (k + 1) - 1 = k
    BY <1>1, <1>9
  <2>2. QED
    BY <1>7, <2>1, ScanType DEF n
<1> HIDE DEF S
<1>10. \A k \in 0..n : g[k] \in Scanned(T)
  <2>1. Nat \subseteq S
    BY <1>8, <1>9, NatsIn
  <2>2. QED
    BY <1>1, <2>1 DEF S
<1>11. g \in [0..n -> Scanned(T)]
  BY <1>6, <1>10
<1>12. QED
  BY <1>5, <1>7, <1>11 DEF n

LEMMA SpliceType ==
    ASSUME NEW T, NEW text \in Seq(T), NEW s \in T, BEGIN \in T, END \in T
    PROVE  Splice(text, s) \in Seq(T)
<1>1. Len(text) \in Nat /\ text \o Block(s) \in Seq(T)
  BY DEF Block
<1>2. PICK f \in [0..Len(text) -> Scanned(T)] : Replaced(text, s) = f[Len(text)].out
  BY ScanRun
<1>3. f[Len(text)] \in Scanned(T)
  BY <1>1
<1>4. Replaced(text, s) \in Seq(T)
  BY <1>2, <1>3 DEF Scanned
<1>5. QED
  BY <1>1, <1>4 DEF Splice

(* The parts that the memory tool and people leave of a text, with what    *)
(* they put in.                                                            *)
LEMMA EditTypes ==
    ASSUME NEW T, NEW text \in Seq(T), NEW x \in T, NEW i \in DOMAIN text, NEW j \in i..Len(text)
    PROVE  /\ Append(text, x) \in Seq(T)
           /\ SubSeq(text, 1, i - 1) \o SubSeq(text, j + 1, Len(text)) \in Seq(T)
           /\ RemoveAt(text, i) \in Seq(T)
           /\ InsertAt(text, i, x) \in Seq(T)
<1>1. \A a, b \in Nat : a >= 1 /\ b <= Len(text) => SubSeq(text, a, b) \in Seq(T)
  BY SubSeqProperties
<1>2. i \in 1..Len(text) /\ i - 1 \in Nat /\ i - 1 <= Len(text) /\ i + 1 \in Nat /\ i + 1 >= 1
      /\ j + 1 \in Nat /\ j + 1 >= 1 /\ Len(text) \in Nat
  OBVIOUS
<1>3. /\ SubSeq(text, 1, i - 1) \in Seq(T) /\ SubSeq(text, j + 1, Len(text)) \in Seq(T)
      /\ SubSeq(text, i + 1, Len(text)) \in Seq(T) /\ SubSeq(text, i, Len(text)) \in Seq(T)
  BY <1>1, <1>2
<1>4. <<x>> \in Seq(T)
  OBVIOUS
<1>5. QED
  BY <1>3, <1>4 DEF RemoveAt, InsertAt

-------------------------------------------------------------------------------
(* The type invariant.                                                     *)
Local == [summary : Piece, text : Seq(Piece), stamp : Time]

LEMMA PieceTypes ==
    /\ BEGIN \in Piece /\ END \in Piece /\ NoSummary \in Piece /\ NoLocal \in Local
    /\ \A n \in Note : NoteOf(n) \in Piece
<1>1. <<>> \in Seq(Statement) /\ <<>> \in Seq(Piece) /\ \A n \in Note : <<n>> \in Seq(Statement)
  BY StatementAssumption
<1>2. BEGIN \in Piece /\ END \in Piece /\ NoSummary \in Piece
  BY <1>1 DEF BEGIN, END, NoSummary, Summary, Piece
<1>3. \A n \in Note : NoteOf(n) \in Piece
  BY <1>1 DEF NoteOf, Piece
<1>4. 0 \in Time
  BY UserMindBounds DEF Time
<1>5. QED
  BY <1>1, <1>2, <1>3, <1>4 DEF NoLocal, Local

LEMMA PlansAre ==
    ASSUME NEW s \in Plans
    PROVE  \E ds \in {docs, <<>>}, said \in {mirror, <<>>} : s \in Summaries(Preferences(ds, said))
BY DEF Plans

LEMMA PlanTypes ==
    ASSUME docs \in Docs, mirror \in Seq(Note)
    PROVE  Plans \subseteq Piece
<1>1. mirror \in Seq(Statement) /\ <<>> \in Seq(Statement) /\ <<>> \in Docs
  <2>1. Seq(Note) \subseteq Seq(Statement)
    BY StatementAssumption, SeqMonotonic
  <2>2. QED
    BY <2>1 DEF Docs
<1> SUFFICES ASSUME NEW ds \in {docs, <<>>}, NEW said \in {mirror, <<>>}
             PROVE  Summaries(Preferences(ds, said)) \subseteq Piece
  <2>1. ASSUME NEW s \in Plans
        PROVE  \E ds \in {docs, <<>>}, said \in {mirror, <<>>} : s \in Summaries(Preferences(ds, said))
    BY PlansAre
  <2>2. QED
    BY <2>1, Zenon
<1> DEFINE items == Preferences(ds, said)
<1>2. items \in Seq(Statement)
  <2>1. ds \in Docs /\ said \in Seq(Statement)
    BY <1>1
  <2>2. QED
    BY <2>1, PreferencesRun DEF Grown
<1> HIDE DEF items
<1>3. Shown(items) \in Seq(Statement) /\ <<>> \in Seq(Statement)
  <2>1. MaxShown \in Nat
    BY UserMindBounds
  <2>2. QED
    BY <1>2, <2>1 DEF Shown
<1>4. Summary("heuristic", Shown(items)) \in Piece /\ Summary("llm", <<>>) \in Piece
  BY <1>3 DEF Summary, Piece
<1>5. QED
  BY <1>4, PieceTypes DEF Summaries, items

LEMMA TypeInit == Init => TypeOK
<1> SUFFICES ASSUME Init PROVE TypeOK
  OBVIOUS
<1>1. <<>> \in Seq(Piece) /\ <<>> \in Seq(Note) /\ <<>> \in Docs /\ Len(<<>>) = 0
  BY DEF Docs
<1>2. 0 \in Time /\ Cardinality({}) = 0
  BY UserMindBounds, FS_EmptySet DEF Time
<1>3. backups \in [Time -> SUBSET Seq(Piece)] /\ \A t \in Time : Cardinality(backups[t]) <= 1
  BY <1>2 DEF Init
<1>4. QED
  BY <1>1, <1>2, <1>3, PieceTypes, UserMindBounds DEF Init, TypeOK, Docs, TurnAt, Local

LEMMA OneBackup ==
    ASSUME TypeOK, NEW text \in Seq(Piece), backups' = [backups EXCEPT ![now] = {text}]
    PROVE  backups' \in [Time -> SUBSET Seq(Piece)] /\ \A t \in Time : Cardinality(backups'[t]) <= 1
<1>1. Cardinality({text}) = 1
  BY FS_Singleton
<1>2. QED
  BY <1>1 DEF TypeOK

LEMMA TypeStep ==
    ASSUME TypeOK, [Next]_vars
    PROVE  TypeOK'
<1>1. CASE UNCHANGED vars
  BY <1>1 DEF TypeOK, vars
<1>2. CASE IndexTurn
  <2>1. PICK t \in Turn, ts \in 0..now : docs' = Append(docs, [turn |-> t, ts |-> ts])
    BY <1>2 DEF IndexTurn
  <2>2. ts \in Time
    BY UserMindBounds DEF TypeOK, Time
  <2>3. [turn |-> t, ts |-> ts] \in TurnAt /\ docs \in Seq(TurnAt)
    BY <2>2 DEF TypeOK, TurnAt
  <2>4. docs' \in Seq(TurnAt)
    BY <2>1, <2>3, AppendProperties
  <2>5. QED
    BY <1>2, <2>4 DEF IndexTurn, TypeOK, TurnAt
<1>3. CASE Rebuild
  <2>1. docs' \in Seq(TurnAt)
    BY <1>3 DEF Rebuild
  <2>2. QED
    BY <1>3, <2>1 DEF Rebuild, TypeOK, TurnAt
<1>4. CASE Tick
  <2>1. now' \in Time
    BY <1>4, UserMindBounds DEF Tick, TypeOK, Time
  <2>2. QED
    BY <1>4, <2>1 DEF Tick, TypeOK
<1>5. CASE MemoryAdd \/ MemoryRemove \/ HandEdit
  <2>0. spoiled' \subseteq Misfortune
    BY <1>5 DEF TypeOK, MemoryAdd, MemoryRemove, HandEdit, SpoilWindow, Spoil, Misfortune
  <2>1. CASE MemoryAdd
    <3>1. PICK n \in Note : user' = Append(user, NoteOf(n)) /\ mirror' = Append(mirror, n)
                              /\ owed' = owed \cup {n}
      BY <2>1 DEF MemoryAdd
    <3>2. user' \in Seq(Piece)
      BY <3>1, PieceTypes, AppendProperties DEF TypeOK
    <3>3. mirror' \in Seq(Note) /\ Len(mirror') = notes + 1
      BY <3>1, AppendProperties DEF TypeOK
    <3>4. notes' = notes + 1 /\ notes' \in 0..MaxNotes
      BY <2>1, UserMindBounds DEF MemoryAdd, TypeOK
    <3>5. owed' \subseteq Note
      BY <3>1 DEF TypeOK
    <3>6. QED
      BY <2>0, <2>1, <3>2, <3>3, <3>4, <3>5 DEF MemoryAdd, TypeOK
  <2>2. CASE MemoryRemove
    <3>1. PICK i \in DOMAIN user : \E j \in i..Len(user) :
             user' = SubSeq(user, 1, i - 1) \o SubSeq(user, j + 1, Len(user))
      BY <2>2 DEF MemoryRemove
    <3>2. user' \in Seq(Piece)
      <4>1. PICK j \in i..Len(user) :
               user' = SubSeq(user, 1, i - 1) \o SubSeq(user, j + 1, Len(user))
        BY <3>1
      <4>2. user \in Seq(Piece) /\ BEGIN \in Piece
        BY PieceTypes DEF TypeOK
      <4>3. QED
        BY <4>1, <4>2, EditTypes
    <3>3. owed' \subseteq Note
      BY <2>2 DEF MemoryRemove, TypeOK
    <3>4. QED
      BY <2>0, <2>2, <3>2, <3>3 DEF MemoryRemove, TypeOK
  <2>3. CASE HandEdit
    <3>0. edits' \in 0..MaxEdits
      BY <2>3, UserMindBounds DEF HandEdit, TypeOK
    <3>1. \A i \in DOMAIN user : i \in i..Len(user)
      BY DEF TypeOK
    <3>2. \A i \in DOMAIN user : RemoveAt(user, i) \in Seq(Piece)
      BY <3>1, EditTypes, PieceTypes DEF TypeOK
    <3>3. \A i \in DOMAIN user, n \in Note : InsertAt(user, i, NoteOf(n)) \in Seq(Piece)
      BY <3>1, EditTypes, PieceTypes DEF TypeOK
    <3>4. user' \in Seq(Piece) /\ owed' \subseteq Note
      BY <2>3, <3>2, <3>3 DEF HandEdit, TypeOK
    <3>5. QED
      BY <2>0, <2>3, <3>0, <3>4 DEF HandEdit, TypeOK
  <2>4. QED
    BY <1>5, <2>1, <2>2, <2>3
<1>6. ASSUME NEW p \in Proc, MakePlan(p) \/ Read(p) \/ Restore(p) PROVE TypeOK'
  <2>1. runs' \in 0..MaxRuns
    BY <1>6, UserMindBounds DEF MakePlan, Read, Restore, TypeOK
  <2>2. pc' \in [Proc -> {"idle", "read", "backup", "replace", "restore"}]
    BY <1>6 DEF MakePlan, Read, Restore, Goto, TypeOK
  <2>3. loc \in [Proc -> Local]
    BY DEF TypeOK, Local
  <2>4. CASE MakePlan(p)
    <3>1. PICK s \in Plans : loc' = [loc EXCEPT ![p].summary = s]
      BY <2>4 DEF MakePlan
    <3>2. s \in Piece
      BY PlanTypes DEF TypeOK, Docs, TurnAt
    <3>3. loc' \in [Proc -> Local]
      BY <2>3, <3>1, <3>2 DEF Local
    <3>4. QED
      BY <2>1, <2>2, <2>4, <3>3 DEF MakePlan, TypeOK, Local
  <2>5. CASE Read(p)
    <3>1. loc' \in [Proc -> Local]
      BY <2>3, <2>5 DEF Read, Local, TypeOK
    <3>2. QED
      BY <2>1, <2>2, <2>5, <3>1 DEF Read, TypeOK, Local
  <2>6. CASE Restore(p)
    <3>0. PICK t \in Time : \E text \in backups[t] : loc' = [loc EXCEPT ![p].text = text]
      BY <2>6 DEF Restore
    <3>1. PICK text \in backups[t] : loc' = [loc EXCEPT ![p].text = text]
      BY <3>0
    <3>2. text \in Seq(Piece)
      BY <3>1 DEF TypeOK
    <3>3. loc' \in [Proc -> Local]
      BY <2>3, <3>1, <3>2 DEF Local
    <3>4. QED
      BY <2>1, <2>2, <2>6, <3>3 DEF Restore, TypeOK, Local
  <2>7. QED
    BY <1>6, <2>4, <2>5, <2>6
<1>7. ASSUME NEW p \in Proc, Backup(p) PROVE TypeOK'
  <2>1. loc \in [Proc -> Local] /\ loc[p].text \in Seq(Piece) /\ now \in Time
    BY DEF TypeOK, Local
  <2>2. backups' \in [Time -> SUBSET Seq(Piece)] /\ \A t \in Time : Cardinality(backups'[t]) <= 1
    BY <1>7, <2>1, OneBackup DEF Backup
  <2>3. loc' \in [Proc -> Local]
    BY <1>7, <2>1 DEF Backup, Local
  <2>4. pc' \in [Proc -> {"idle", "read", "backup", "replace", "restore"}]
    BY <1>7 DEF Backup, Goto, TypeOK
  <2>5. spoiled' \subseteq Misfortune
    BY <1>7 DEF Backup, Spoil, TypeOK, Misfortune
  <2>6. QED
    BY <1>7, <2>2, <2>3, <2>4, <2>5 DEF Backup, TypeOK, Local
<1>8. ASSUME NEW p \in Proc, Replace(p) \/ RestoreReplace(p) \/ Stop(p) PROVE TypeOK'
  <2>1. loc' = [loc EXCEPT ![p] = NoLocal] /\ pc' = [pc EXCEPT ![p] = "idle"]
    BY <1>8 DEF Replace, RestoreReplace, Stop, Return, Goto
  <2>2. loc \in [Proc -> Local] /\ loc[p] \in Local
    BY DEF TypeOK, Local
  <2>3. loc[p].summary \in Piece /\ loc[p].text \in Seq(Piece)
    BY <2>2 DEF Local
  <2>4. /\ loc' \in [Proc -> Local]
        /\ pc' \in [Proc -> {"idle", "read", "backup", "replace", "restore"}]
    BY <2>1, <2>2, PieceTypes DEF TypeOK
  <2>5. spoiled' \subseteq Misfortune
    BY <1>8 DEF Replace, RestoreReplace, Stop, SpoilWindow, Spoil, TypeOK, Misfortune
  <2>6. CASE Replace(p)
    <3>1. user' \in Seq(Piece)
      BY <2>3, <2>6, SpliceType, PieceTypes DEF Replace, TypeOK
    <3>2. QED
      BY <2>4, <2>5, <2>6, <3>1 DEF Replace, TypeOK, Local
  <2>7. CASE RestoreReplace(p)
    <3>1. owed' \subseteq Note
      BY <2>7 DEF RestoreReplace, Notes
    <3>2. QED
      BY <2>3, <2>4, <2>5, <2>7, <3>1 DEF RestoreReplace, TypeOK, Local
  <2>8. CASE Stop(p)
    <3>1. backups' \in [Time -> SUBSET Seq(Piece)] /\ \A t \in Time : Cardinality(backups'[t]) <= 1
      <4>1. <<>> \in Seq(Piece)
        OBVIOUS
      <4>2. CASE UNCHANGED backups
        BY <4>2 DEF TypeOK
      <4>3. CASE backups' = [backups EXCEPT ![now] = {<<>>}]
        BY <4>1, <4>3, OneBackup
      <4>4. QED
        BY <2>8, <4>2, <4>3 DEF Stop
    <3>2. QED
      BY <2>4, <2>5, <2>8, <3>1 DEF Stop, TypeOK, Local
  <2>9. QED
    BY <1>8, <2>6, <2>7, <2>8
<1>9. QED
  BY <1>1, <1>2, <1>3, <1>4, <1>5, <1>6, <1>7, <1>8 DEF Next

(* The types of all that is kept, for any turns, notes, runs and processes.*)
THEOREM UserMindTypeOK == Spec => []TypeOK
BY TypeInit, TypeStep, PTL DEF Spec

(* The newest count (NewestCount): for any turns, in any order of indexing,*)
(* any preferences and any limits.                                         *)
THEOREM NewestCountAlways == Spec => []NewestCount
<1>1. TypeOK => NewestCount
  <2> SUFFICES ASSUME TypeOK PROVE NewestCount
    OBVIOUS
  <2>1. docs \in Docs /\ mirror \in Seq(Statement)
    <3>1. Seq(Note) \subseteq Seq(Statement)
      BY StatementAssumption, SeqMonotonic
    <3>2. QED
      BY <3>1 DEF TypeOK, Docs, TurnAt
  <2>2. Newest(docs, Preferences(docs, mirror))
    BY <2>1, PreferencesNewest
  <2>3. QED
    BY <2>2, Zenon DEF NewestCount, Newest
<1>2. QED
  BY <1>1, TypeInit, TypeStep, PTL DEF Spec

-------------------------------------------------------------------------------
(* What the notes depend on: files and locals are sequences over something.*)
MadeOf(T) ==
    /\ BEGIN \in T /\ END \in T
    /\ user \in Seq(T)
    /\ backups \in [Time -> SUBSET Seq(T)]
    /\ now \in Time
    /\ pc \in [Proc -> {"idle", "read", "backup", "replace", "restore"}]
    /\ loc \in [Proc -> [summary : T, text : Seq(T), stamp : Time]]
    /\ owed \subseteq Note

LEMMA TypedMade ==
    ASSUME TypeOK
    PROVE  \E T : MadeOf(T)
BY PieceTypes DEF TypeOK, MadeOf

(* No operation of the memory tool or of a person takes a note out of a    *)
(* text, but the one that is meant.                                        *)
LEMMA NotesOf ==
    ASSUME NEW T, NEW text \in Seq(T), NEW n \in Note
    PROVE  n \in Notes(text) <=> \E i \in 1..Len(text) : text[i] = NoteOf(n)
BY DEF Notes

LEMMA AppendKeeps ==
    ASSUME NEW T, NEW text \in Seq(T), NEW x
    PROVE  /\ Notes(text) \subseteq Notes(Append(text, x))
           /\ \A n \in Note : x = NoteOf(n) => n \in Notes(Append(text, x))
<1> DEFINE new == Append(text, x)
           m == Len(text)
<1>1. m \in Nat /\ DOMAIN text = 1..m /\ DOMAIN new = 1..(m + 1)
  OBVIOUS
<1>2. \A i \in 1..m : new[i] = text[i]
  OBVIOUS
<1>3. new[m + 1] = x
  OBVIOUS
<1> HIDE DEF new, m
<1>4. QED
  BY <1>1, <1>2, <1>3 DEF Notes, new

LEMMA ConcatKeeps ==
    ASSUME NEW T, NEW a \in Seq(T), NEW b \in Seq(T)
    PROVE  Notes(a) \cup Notes(b) \subseteq Notes(a \o b)
<1>1. /\ a \o b \in Seq(T) /\ Len(a) \in Nat /\ Len(b) \in Nat
      /\ DOMAIN a = 1..Len(a) /\ DOMAIN b = 1..Len(b)
      /\ DOMAIN (a \o b) = 1..(Len(a) + Len(b))
      /\ \A i \in 1..(Len(a) + Len(b)) : (a \o b)[i] = IF i <= Len(a) THEN a[i] ELSE b[i - Len(a)]
  BY ConcatProperties
<1>2. ASSUME NEW n \in Note, NEW i \in DOMAIN a, a[i] = NoteOf(n) PROVE n \in Notes(a \o b)
  <2>1. i \in DOMAIN (a \o b) /\ (a \o b)[i] = NoteOf(n)
    BY <1>1, <1>2
  <2>2. QED
    BY <2>1 DEF Notes
<1>3. ASSUME NEW n \in Note, NEW i \in DOMAIN b, b[i] = NoteOf(n) PROVE n \in Notes(a \o b)
  <2> DEFINE k == Len(a) + i
  <2>1. k \in 1..(Len(a) + Len(b)) /\ ~(k <= Len(a)) /\ k - Len(a) = i
    BY <1>1
  <2> HIDE DEF k
  <2>2. k \in DOMAIN (a \o b) /\ (a \o b)[k] = NoteOf(n)
    BY <1>1, <1>3, <2>1
  <2>3. QED
    BY <2>2 DEF Notes
<1>4. QED
  BY <1>2, <1>3 DEF Notes

LEMMA PartKeeps ==
    ASSUME NEW T, NEW text \in Seq(T), NEW n \in Note, NEW k \in 1..Len(text), text[k] = NoteOf(n),
           NEW lo \in 1..k, NEW hi \in k..Len(text)
    PROVE  n \in Notes(SubSeq(text, lo, hi)) /\ SubSeq(text, lo, hi) \in Seq(T)
<1> DEFINE part == SubSeq(text, lo, hi)
<1>1. /\ part \in Seq(T) /\ Len(part) = (hi - lo) + 1
      /\ \A m \in 1..((hi - lo) + 1) : part[m] = text[(lo + m) - 1]
  OBVIOUS
<1> HIDE DEF part
<1> DEFINE m == (k - lo) + 1
<1>2. m \in 1..((hi - lo) + 1) /\ (lo + m) - 1 = k
  OBVIOUS
<1> HIDE DEF m
<1>3. m \in DOMAIN part /\ part[m] = NoteOf(n)
  BY <1>1, <1>2
<1>4. QED
  BY <1>1, <1>3 DEF Notes, part

(* What is left of a text without the stretch from i to j.                 *)
LEMMA CutKeeps ==
    ASSUME NEW T, NEW text \in Seq(T), NEW i \in 1..Len(text), NEW j \in i..Len(text), NEW n \in Note,
           NEW k \in 1..Len(text), text[k] = NoteOf(n), k \notin i..j
    PROVE  n \in Notes(SubSeq(text, 1, i - 1) \o SubSeq(text, j + 1, Len(text)))
<1> DEFINE a == SubSeq(text, 1, i - 1)
           b == SubSeq(text, j + 1, Len(text))
<1>1. a \in Seq(T) /\ b \in Seq(T)
  OBVIOUS
<1>2. n \in Notes(a) \/ n \in Notes(b)
  <2>1. CASE k < i
    <3>1. 1 \in 1..k /\ i - 1 \in k..Len(text)
      BY <2>1
    <3>2. QED
      BY <3>1, PartKeeps
  <2>2. CASE k > j
    <3>1. j + 1 \in 1..k /\ Len(text) \in k..Len(text)
      BY <2>2
    <3>2. QED
      BY <3>1, PartKeeps
  <2>3. QED
    BY <2>1, <2>2
<1> HIDE DEF a, b
<1>3. n \in Notes(a \o b)
  BY <1>1, <1>2, ConcatKeeps
<1>4. QED
  BY <1>3 DEF a, b

LEMMA InsertKeeps ==
    ASSUME NEW T, NEW text \in Seq(T), NEW i \in 1..Len(text), NEW x \in T
    PROVE  /\ Notes(text) \subseteq Notes(InsertAt(text, i, x))
           /\ \A n \in Note : x = NoteOf(n) => n \in Notes(InsertAt(text, i, x))
<1> DEFINE a == SubSeq(text, 1, i - 1)
           b == SubSeq(text, i, Len(text))
<1>1. InsertAt(text, i, x) = (a \o <<x>>) \o b
  BY DEF InsertAt
<1>2. a \in Seq(T) /\ b \in Seq(T) /\ <<x>> \in Seq(T)
  OBVIOUS
<1>3. ASSUME NEW n \in Note, NEW k \in 1..Len(text), text[k] = NoteOf(n)
      PROVE  n \in Notes(a) \/ n \in Notes(b)
  <2>1. CASE k < i
    <3>1. 1 \in 1..k /\ i - 1 \in k..Len(text)
      BY <2>1
    <3>2. QED
      BY <1>3, <3>1, PartKeeps
  <2>2. CASE k >= i
    <3>1. i \in 1..k /\ Len(text) \in k..Len(text)
      BY <2>2
    <3>2. QED
      BY <1>3, <3>1, PartKeeps
  <2>3. QED
    BY <2>1, <2>2
<1>4. \A n \in Note : x = NoteOf(n) => n \in Notes(<<x>>)
  BY DEF Notes
<1>5. DOMAIN text = 1..Len(text)
  OBVIOUS
<1> HIDE DEF a, b
<1>6. a \o <<x>> \in Seq(T)
  BY <1>2, ConcatProperties
<1>7. /\ Notes(a) \cup Notes(<<x>>) \subseteq Notes(a \o <<x>>)
      /\ Notes(a \o <<x>>) \cup Notes(b) \subseteq Notes((a \o <<x>>) \o b)
  BY <1>2, <1>6, ConcatKeeps
<1>8. QED
  BY <1>1, <1>3, <1>4, <1>5, <1>7 DEF Notes

-------------------------------------------------------------------------------
(* Where a note is that nobody has removed.                                *)
Found(n) == n \in Notes(user) \/ \E t \in Time : \E text \in backups[t] : n \in Notes(text)

LEMMA SpoiledGrows ==
    ASSUME [Next]_vars, spoiled' = {}
    PROVE  spoiled = {}
BY DEF Next, vars, IndexTurn, Rebuild, MemoryAdd, MemoryRemove, HandEdit, Tick, MakePlan, Read,
       Backup, Replace, Restore, RestoreReplace, Stop, SpoilWindow, Spoil

LEMMA NoteKind ==
    ASSUME NEW n
    PROVE  NoteOf(n).kind = "note" /\ NoteOf(n) # BEGIN /\ NoteOf(n) # END
<1>1. NoteOf(n).kind = "note" /\ BEGIN.kind = "BEGIN" /\ END.kind = "END"
  BY Zenon DEF NoteOf, BEGIN, END
<1>2. QED
  BY <1>1

(* The memory tool and people: whatever they do is done under no apply,    *)
(* and takes out the note that is meant at most.                           *)
LEMMA ToolKeeps ==
    ASSUME TypeOK, KeepInv, spoiled = {}, spoiled' = {}, MemoryAdd \/ MemoryRemove \/ HandEdit
    PROVE  (\A n \in owed' : Found(n)') /\ HeldIsUser'
<1>0. PICK T : MadeOf(T)
  BY TypedMade
<1>1. user \in Seq(T) /\ owed \subseteq Note /\ DOMAIN user = 1..Len(user)
  BY <1>0 DEF MadeOf
<1>2. \A p \in Proc : pc[p] \notin {"backup", "replace"}
  BY DEF MemoryAdd, MemoryRemove, HandEdit, SpoilWindow, Spoil
<1>3. UNCHANGED <<pc, loc, backups>>
  BY DEF MemoryAdd, MemoryRemove, HandEdit
<1>4. HeldIsUser'
  BY <1>2, <1>3 DEF HeldIsUser
<1>5. \A n \in owed : Found(n)
  BY DEF KeepInv, NotesKept, Found
<1>6. ASSUME NEW n \in owed, n \in Notes(user) => n \in Notes(user') PROVE Found(n)'
  BY <1>3, <1>5, <1>6 DEF Found
<1>7. CASE MemoryAdd
  <2>1. PICK m \in Note : user' = Append(user, NoteOf(m)) /\ owed' = owed \cup {m}
    BY <1>7 DEF MemoryAdd
  <2>2. Notes(user) \subseteq Notes(user') /\ m \in Notes(user')
    BY <1>1, <2>1, AppendKeeps
  <2>3. QED
    BY <1>4, <1>6, <2>1, <2>2 DEF Found
<1>8. CASE MemoryRemove
  <2>1. PICK i \in DOMAIN user : \E j \in i..Len(user) :
           /\ \A k \in (i + 1)..j : ~StartsEntry(user, k)
           /\ user' = SubSeq(user, 1, i - 1) \o SubSeq(user, j + 1, Len(user))
           /\ owed' = {n \in owed : NoteOf(n) # user[i]}
    BY <1>8 DEF MemoryRemove
  <2>2. PICK j \in i..Len(user) :
           /\ \A k \in (i + 1)..j : ~StartsEntry(user, k)
           /\ user' = SubSeq(user, 1, i - 1) \o SubSeq(user, j + 1, Len(user))
    BY <2>1
  <2>3. ASSUME NEW n \in owed', n \in Notes(user) PROVE n \in Notes(user')
    <3>1. n \in Note /\ NoteOf(n) # user[i]
      BY <1>1, <2>1
    <3>2. PICK k \in 1..Len(user) : user[k] = NoteOf(n)
      BY <1>1, <2>3 DEF Notes
    <3>3. user[k].kind = "note"
      BY <3>2, NoteKind
    <3>4. k \notin i..j
      <4>1. k # i
        BY <3>1, <3>2, Zenon
      <4>2. StartsEntry(user, k)
        BY <1>1, <3>2, <3>3, Zenon DEF StartsEntry
      <4>3. k \notin (i + 1)..j
        BY <2>2, <4>2, Zenon
      <4>4. i \in Nat /\ j \in Int /\ k \in Nat
        BY <1>1
      <4>5. QED
        BY <4>1, <4>3, <4>4
    <3>5. QED
      BY <1>1, <2>2, <3>1, <3>2, <3>4, CutKeeps
  <2>4. QED
    BY <1>4, <1>6, <2>1, <2>3
<1>9. CASE HandEdit
  <2>1. CASE \E i \in DOMAIN user : user[i] \in {BEGIN, END} /\ user' = RemoveAt(user, i) /\ UNCHANGED owed
    <3>1. PICK i \in 1..Len(user) : user[i] \in {BEGIN, END} /\ user' = RemoveAt(user, i)
      BY <1>1, <2>1
    <3>2. i \in i..Len(user) /\ user' = SubSeq(user, 1, i - 1) \o SubSeq(user, i + 1, Len(user))
      BY <3>1 DEF RemoveAt
    <3>3. ASSUME NEW n \in owed, n \in Notes(user) PROVE n \in Notes(user')
      <4>1. PICK k \in 1..Len(user) : user[k] = NoteOf(n)
        BY <1>1, <3>3 DEF Notes
      <4>2. k \notin i..i
        BY <3>1, <4>1, NoteKind
      <4>3. QED
        BY <1>1, <3>2, <4>1, <4>2, CutKeeps
    <3>4. QED
      BY <1>4, <1>6, <2>1, <3>3
  <2>2. CASE \E i \in DOMAIN user, n \in Note :
               user' = InsertAt(user, i, NoteOf(n)) /\ owed' = owed \cup {n}
    <3>1. PICK i \in 1..Len(user), m \in Note :
             user' = InsertAt(user, i, NoteOf(m)) /\ owed' = owed \cup {m}
      BY <1>1, <2>2
    <3> DEFINE U == T \cup {NoteOf(m)}
    <3>2. user \in Seq(U) /\ NoteOf(m) \in U
      <4>1. Seq(T) \subseteq Seq(U)
        BY SeqMonotonic
      <4>2. QED
        BY <1>1, <4>1
    <3> HIDE DEF U
    <3>3. Notes(user) \subseteq Notes(user') /\ m \in Notes(user')
      BY <3>1, <3>2, InsertKeeps
    <3>4. QED
      BY <1>4, <1>6, <3>1, <3>3 DEF Found
  <2>3. QED
    BY <1>9, <2>1, <2>2 DEF HandEdit
<1>10. QED
  BY <1>7, <1>8, <1>9

LEMMA KeepStep ==
    ASSUME TypeOK, KeepInv, [Next]_vars, spoiled' = {}
    PROVE  (\A n \in owed' : Found(n)') /\ HeldIsUser'
<1>0. PICK T : MadeOf(T)
  BY TypedMade
<1>1. spoiled = {}
  BY SpoiledGrows
<1>2. HeldIsUser /\ \A n \in owed : Found(n)
  BY <1>1 DEF KeepInv, NotesKept, Found
<1>3. CASE UNCHANGED vars
  BY <1>2, <1>3 DEF vars, HeldIsUser, Found
<1>4. CASE IndexTurn \/ Rebuild \/ Tick
  BY <1>2, <1>4 DEF IndexTurn, Rebuild, Tick, HeldIsUser, Found
<1>5. CASE MemoryAdd \/ MemoryRemove \/ HandEdit
  BY <1>1, <1>5, ToolKeeps
<1>6. ASSUME NEW p \in Proc, MakePlan(p) \/ Read(p) \/ Restore(p)
      PROVE  (\A n \in owed' : Found(n)') /\ HeldIsUser'
  <2>1. UNCHANGED <<user, backups, owed>>
    BY <1>6 DEF MakePlan, Read, Restore
  <2>2. \A n \in owed' : Found(n)'
    BY <1>2, <2>1 DEF Found
  <2>3. ASSUME NEW q \in Proc, q # p PROVE pc'[q] = pc[q] /\ loc'[q] = loc[q]
    BY <1>0, <1>6, <2>3 DEF MakePlan, Read, Restore, Goto, MadeOf
  <2>4. pc'[p] \in {"read", "backup", "restore"} /\ (pc'[p] = "backup" => loc'[p].text = user)
    BY <1>0, <1>6 DEF MakePlan, Read, Restore, Goto, MadeOf
  <2>5. HeldIsUser'
    BY <1>2, <2>1, <2>3, <2>4 DEF HeldIsUser
  <2>6. QED
    BY <2>2, <2>5
<1>7. ASSUME NEW p \in Proc, Backup(p)
      PROVE  (\A n \in owed' : Found(n)') /\ HeldIsUser'
  <2>1. /\ pc[p] = "backup" /\ loc[p].text = user /\ UNCHANGED <<user, owed>>
        /\ backups' = [backups EXCEPT ![now] = {user}]
        /\ backups[now] \in {{}, {user}}
    BY <1>1, <1>2, <1>7 DEF Backup, Spoil, HeldIsUser
  <2>2. now \in Time /\ \A t \in Time : backups[t] \subseteq backups'[t]
    BY <1>0, <2>1 DEF MadeOf
  <2>3. \A n \in owed' : Found(n)'
    BY <1>2, <2>1, <2>2 DEF Found
  <2>4. ASSUME NEW q \in Proc, q # p PROVE pc'[q] = pc[q] /\ loc'[q] = loc[q]
    BY <1>0, <1>7, <2>4 DEF Backup, Goto, MadeOf
  <2>5. pc'[p] = "replace" /\ loc'[p].text = user /\ loc'[p].stamp = now
    BY <1>0, <1>7, <2>1 DEF Backup, Goto, MadeOf
  <2>6. user \in backups'[now]
    BY <1>0, <2>1, <2>2 DEF MadeOf
  <2>7. \A q \in Proc : loc[q].stamp \in Time
    BY <1>0 DEF MadeOf
  <2>8. HeldIsUser'
    BY <1>2, <2>1, <2>2, <2>4, <2>5, <2>6, <2>7 DEF HeldIsUser
  <2>9. QED
    BY <2>3, <2>8
<1>8. ASSUME NEW p \in Proc, Replace(p) \/ RestoreReplace(p)
      PROVE  (\A n \in owed' : Found(n)') /\ HeldIsUser'
  <2>1. \A q \in Proc \ {p} : pc[q] \notin {"backup", "replace"}
    BY <1>8 DEF Replace, RestoreReplace, SpoilWindow, Spoil
  <2>2. pc' = [pc EXCEPT ![p] = "idle"] /\ UNCHANGED backups
    BY <1>8 DEF Replace, RestoreReplace, Return, Goto
  <2>3. HeldIsUser'
    BY <1>0, <2>1, <2>2 DEF HeldIsUser, MadeOf
  <2>4. CASE Replace(p)
    <3>1. user \in backups[loc[p].stamp] /\ loc[p].stamp \in Time /\ UNCHANGED owed
      BY <1>0, <1>2, <2>4 DEF Replace, HeldIsUser, MadeOf
    <3>2. \A n \in owed' : Found(n)'
      BY <1>2, <2>2, <3>1 DEF Found
    <3>3. QED
      BY <2>3, <3>2
  <2>5. CASE RestoreReplace(p)
    BY <2>3, <2>5 DEF RestoreReplace, Found
  <2>6. QED
    BY <1>8, <2>4, <2>5
<1>9. ASSUME NEW p \in Proc, Stop(p)
      PROVE  (\A n \in owed' : Found(n)') /\ HeldIsUser'
  <2>1. UNCHANGED <<user, owed>> /\ pc' = [pc EXCEPT ![p] = "idle"]
        /\ loc' = [loc EXCEPT ![p] = NoLocal]
    BY <1>9 DEF Stop, Return, Goto
  <2>2. \A t \in Time : backups[t] \subseteq backups'[t]
    <3>1. CASE UNCHANGED backups
      BY <3>1
    <3>2. CASE backups' = [backups EXCEPT ![now] = {<<>>}] /\ backups[now] \in {{}, {<<>>}}
      BY <1>0, <3>2 DEF MadeOf
    <3>3. QED
      BY <1>1, <1>9, <3>1, <3>2 DEF Stop, Spoil
  <2>3. \A n \in owed' : Found(n)'
    BY <1>2, <2>1, <2>2 DEF Found
  <2>4. \A q \in Proc : loc[q].stamp \in Time
    BY <1>0 DEF MadeOf
  <2>5. HeldIsUser'
    BY <1>0, <1>2, <2>1, <2>2, <2>4 DEF HeldIsUser, MadeOf
  <2>6. QED
    BY <2>3, <2>5
<1>10. QED
  BY <1>3, <1>4, <1>5, <1>6, <1>7, <1>8, <1>9 DEF Next

(* Backup first (NotesKept): no apply, restore, kill or hand-edited mark   *)
(* loses a note, for any number of them, any notes and any summaries.      *)
THEOREM NotesKeptAlways == Spec => []NotesKept
<1>1. Init => KeepInv
  BY DEF Init, KeepInv, NotesKept, HeldIsUser
<1>2. TypeOK /\ KeepInv /\ [Next]_vars => KeepInv'
  BY KeepStep DEF KeepInv, NotesKept, Found
<1>3. KeepInv => NotesKept
  BY DEF KeepInv, NotesKept
<1>4. QED
  BY <1>1, <1>2, <1>3, TypeInit, TypeStep, PTL DEF Spec


-------------------------------------------------------------------------------
(* Marks.  A text that is well formed grows piece by piece and block by    *)
(* block.                                                                  *)
Text == Seq(Piece)
Mark == {BEGIN, END}

Depth(text, k)  == Count(BEGIN, text, k) - Count(END, text, k)
Marked(text, d) == (\A k \in 0..Len(text) : Depth(text, k) \in {0, 1}) /\ Depth(text, Len(text)) = d

LEMMA Marks ==
    /\ BEGIN # END /\ BEGIN \in Piece /\ END \in Piece
    /\ \A x \in Piece : x.kind \in {"summary", "note"} => x \notin Mark
    /\ \A n \in Note : NoteOf(n) \in Piece /\ NoteOf(n).kind = "note" /\ NoteOf(n) \notin Mark
<1>1. BEGIN.kind = "BEGIN" /\ END.kind = "END" /\ \A n \in Note : NoteOf(n).kind = "note"
  BY DEF BEGIN, END, NoteOf
<1>2. QED
  BY <1>1, PieceTypes DEF Mark

LEMMA CountType ==
    ASSUME NEW x, NEW text, NEW k \in Nat
    PROVE  IsFiniteSet({i \in 1..k : text[i] = x}) /\ Count(x, text, k) \in Nat
<1>1. IsFiniteSet({i \in 1..k : text[i] = x})
  BY UpTo, FS_Subset
<1>2. QED
  BY <1>1, FS_CardinalityType DEF Count

LEMMA CountStep ==
    ASSUME NEW x, NEW text, NEW k \in Nat
    PROVE  /\ Count(x, text, 0) = 0
           /\ text[k + 1] = x => Count(x, text, k + 1) = Count(x, text, k) + 1
           /\ text[k + 1] # x => Count(x, text, k + 1) = Count(x, text, k)
<1> DEFINE At(m) == {i \in 1..m : text[i] = x}
<1>1. At(0) = {} /\ IsFiniteSet(At(k)) /\ k + 1 \notin At(k)
  BY CountType
<1>2. text[k + 1] = x => At(k + 1) = At(k) \cup {k + 1}
  OBVIOUS
<1>3. text[k + 1] # x => At(k + 1) = At(k)
  OBVIOUS
<1> HIDE DEF At
<1>4. Cardinality(At(k) \cup {k + 1}) = Cardinality(At(k)) + 1
  BY <1>1, FS_AddElement
<1>5. \A m : Count(x, text, m) = Cardinality(At(m))
  BY DEF Count, At
<1>6. QED
  BY <1>1, <1>2, <1>3, <1>4, <1>5, FS_EmptySet

LEMMA CountSame ==
    ASSUME NEW x, NEW a, NEW b, NEW k \in Nat, \A i \in 1..k : a[i] = b[i]
    PROVE  Count(x, a, k) = Count(x, b, k)
<1>1. {i \in 1..k : a[i] = x} = {i \in 1..k : b[i] = x}
  OBVIOUS
<1>2. QED
  BY <1>1 DEF Count

LEMMA WellFormedIs ==
    ASSUME NEW T, NEW text \in Seq(T)
    PROVE  WellFormed(text) <=> Marked(text, 0)
<1>1. Len(text) \in Nat /\ DOMAIN text = 1..Len(text)
  OBVIOUS
<1>2. \A k \in 0..Len(text) : Count(BEGIN, text, k) \in Nat /\ Count(END, text, k) \in Nat
  <2>1. \A k \in 0..Len(text) : k \in Nat
    BY <1>1
  <2>2. QED
    BY <2>1, CountType, Zenon
<1>3. Depth(text, 0) = 0
  BY CountStep, CountType DEF Depth
<1>4. \A k \in 0..Len(text) : k = 0 \/ k \in DOMAIN text
  BY <1>1
<1>5. (\A k \in 0..Len(text) : Depth(text, k) \in {0, 1})
        <=> \A k \in DOMAIN text : Count(BEGIN, text, k) - Count(END, text, k) \in {0, 1}
  BY <1>1, <1>3, <1>4 DEF Depth
<1>6. Depth(text, Len(text)) = 0 <=> Count(BEGIN, text, Len(text)) = Count(END, text, Len(text))
  BY <1>1, <1>2 DEF Depth
<1>7. QED
  BY <1>5, <1>6 DEF WellFormed, Marked

(* What is outside, as a run over the text.                                *)
OutsideStep(a, k, text) ==
    IF Count(BEGIN, text, k) = Count(END, text, k - 1) THEN Append(a, text[k]) ELSE a

LEMMA OutsideRun ==
    ASSUME NEW T, NEW text \in Seq(T)
    PROVE  \E f \in [0..Len(text) -> Seq(T)] :
              /\ f[0] = <<>> /\ Outside(text) = f[Len(text)]
              /\ \A k \in 1..Len(text) : f[k] = OutsideStep(f[k - 1], k, text)
<1> DEFINE n == Len(text)
           step == [a \in (1..n) \X Seq(T) |-> OutsideStep(a[2], a[1], text)]
           All(g) == g = [k \in 0..n |->
                            IF k = 0 THEN <<>>
                            ELSE IF Count(BEGIN, text, k) = Count(END, text, k - 1)
                                   THEN Append(g[k - 1], text[k]) ELSE g[k - 1]]
<1>1. n \in Nat /\ <<>> \in Seq(T) /\ \A k \in 1..n : text[k] \in T
  OBVIOUS
<1>2. \A k \in 1..n, v \in Seq(T) :
         /\ step[<<k, v>>] = OutsideStep(v, k, text) /\ step[<<k, v>>] \in Seq(T)
         /\ OutsideStep(v, k, text) \in Seq(T)
  <2>1. \A k \in 1..n, v \in Seq(T) : OutsideStep(v, k, text) \in Seq(T)
    BY <1>1 DEF OutsideStep
  <2>2. QED
    BY <2>1
<1> HIDE DEF step, n
<1>3. PICK f \in [0..n -> Seq(T)] : Runs(f, n, <<>>, step)
  BY <1>1, <1>2, RunExists
<1>4. All(f)
  <2>1. \A k \in 0..n : f[k] = IF k = 0 THEN <<>> ELSE step[<<k, f[k - 1]>>]
    BY <1>3, Zenon DEF Runs
  <2>2. \A k \in 0..n : k # 0 => k \in 1..n /\ k - 1 \in 0..n /\ f[k - 1] \in Seq(T)
    BY <1>1
  <2>3. \A k \in 0..n : f[k] = IF k = 0 THEN <<>> ELSE OutsideStep(f[k - 1], k, text)
    BY <1>2, <2>1, <2>2
  <2>4. QED
    BY <2>3 DEF OutsideStep
<1> DEFINE g == CHOOSE g : All(g)
<1>5. Outside(text) = g[n]
  BY Zenon DEF Outside, n
<1>6. All(g)
  BY <1>4
<1> HIDE DEF g
<1>7. g[0] = <<>> /\ \A k \in 1..n : g[k] = OutsideStep(g[k - 1], k, text)
  <2>1. \A k \in 0..n : g[k] = IF k = 0 THEN <<>> ELSE OutsideStep(g[k - 1], k, text)
    BY <1>6 DEF OutsideStep
  <2>2. QED
    BY <1>1, <2>1
<1> DEFINE S == {k \in Nat : k <= n => g[k] \in Seq(T)}
<1>8. 0 \in S
  BY <1>1, <1>7
<1>9. ASSUME NEW k \in Nat, k \in S PROVE k + 1 \in S
  <2> SUFFICES ASSUME k + 1 <= n PROVE g[k + 1] \in Seq(T)
    OBVIOUS
  <2>1. g[k] \in Seq(T) /\ k + 1 \in 1..n /\ (k + 1) - 1 = k
    BY <1>1, <1>9
  <2>2. QED
    BY <1>2, <1>7, <2>1
<1> HIDE DEF S
<1>10. \A k \in 0..n : g[k] \in Seq(T)
  <2>1. Nat \subseteq S
    BY <1>8, <1>9, NatsIn
  <2>2. QED
    BY <1>1, <2>1 DEF S
<1>11. g \in [0..n -> Seq(T)]
  BY <1>6, <1>10
<1>12. QED
  BY <1>5, <1>7, <1>11 DEF n

LEMMA OutsideAppend ==
    ASSUME NEW T, NEW text \in Seq(T), NEW x \in T
    PROVE  /\ Outside(text) \in Seq(T)
           /\ Outside(Append(text, x)) =
                IF Count(BEGIN, Append(text, x), Len(text) + 1) = Count(END, text, Len(text))
                  THEN Append(Outside(text), x) ELSE Outside(text)
<1> DEFINE n == Len(text)
           new == Append(text, x)
<1>1. n \in Nat /\ new \in Seq(T) /\ Len(new) = n + 1 /\ new[n + 1] = x
        /\ \A k \in 1..n : new[k] = text[k]
  OBVIOUS
<1> HIDE DEF new
<1>2. PICK f \in [0..n -> Seq(T)] :
         /\ f[0] = <<>> /\ Outside(text) = f[n]
         /\ \A k \in 1..n : f[k] = OutsideStep(f[k - 1], k, text)
  BY OutsideRun
<1>3. PICK g \in [0..(n + 1) -> Seq(T)] :
         /\ g[0] = <<>> /\ Outside(new) = g[n + 1]
         /\ \A k \in 1..(n + 1) : g[k] = OutsideStep(g[k - 1], k, new)
  BY <1>1, OutsideRun
<1> HIDE DEF n
<1>4. \A k \in 0..n : Count(BEGIN, new, k) = Count(BEGIN, text, k) /\ Count(END, new, k) = Count(END, text, k)
  <2> SUFFICES ASSUME NEW k \in 0..n
               PROVE  Count(BEGIN, new, k) = Count(BEGIN, text, k) /\ Count(END, new, k) = Count(END, text, k)
    OBVIOUS
  <2>1. k \in Nat /\ \A i \in 1..k : new[i] = text[i]
    BY <1>1
  <2>2. QED
    BY <2>1, CountSame
<1> DEFINE S == {k \in Nat : k <= n => g[k] = f[k]}
<1>5. 0 \in S
  BY <1>2, <1>3
<1>6. ASSUME NEW k \in Nat, k \in S PROVE k + 1 \in S
  <2> SUFFICES ASSUME k + 1 <= n PROVE g[k + 1] = f[k + 1]
    OBVIOUS
  <2>1. g[k] = f[k] /\ k + 1 \in 1..n /\ k + 1 \in 1..(n + 1) /\ (k + 1) - 1 = k /\ k \in 0..n /\ k + 1 \in 0..n
    BY <1>1, <1>6
  <2>2. OutsideStep(f[k], k + 1, new) = OutsideStep(f[k], k + 1, text)
    BY <1>1, <1>4, <2>1 DEF OutsideStep
  <2>3. QED
    BY <1>2, <1>3, <2>1, <2>2
<1> HIDE DEF S
<1>7. g[n] = f[n]
  <2>1. n \in S
    BY <1>1, <1>5, <1>6, NatsIn
  <2>2. QED
    BY <1>1, <2>1 DEF S
<1>8. Outside(new) = OutsideStep(f[n], n + 1, new)
  BY <1>1, <1>3, <1>7
<1>9. Count(END, new, n) = Count(END, text, n) /\ (n + 1) - 1 = n /\ f[n] \in Seq(T)
  BY <1>1, <1>4
<1>10. QED
  BY <1>1, <1>2, <1>8, <1>9 DEF OutsideStep, new, n

LEMMA MarkedAppend ==
    ASSUME NEW text \in Text, NEW x \in Piece, NEW d \in {0, 1}, Marked(text, d)
    PROVE  /\ (d = 0 /\ x = BEGIN) => Marked(Append(text, x), 1) /\ Outside(Append(text, x)) = Outside(text)
           /\ (d = 1 /\ x = END) => Marked(Append(text, x), 0) /\ Outside(Append(text, x)) = Outside(text)
           /\ x \notin Mark =>
                /\ Marked(Append(text, x), d)
                /\ Outside(Append(text, x)) = IF d = 0 THEN Append(Outside(text), x) ELSE Outside(text)
           /\ x = BEGIN => Count(BEGIN, Append(text, x), Len(text) + 1) = Count(BEGIN, text, Len(text)) + 1
           /\ x # BEGIN => Count(BEGIN, Append(text, x), Len(text) + 1) = Count(BEGIN, text, Len(text))
<1> DEFINE n == Len(text)
           new == Append(text, x)
<1>1. n \in Nat /\ new \in Text /\ Len(new) = n + 1 /\ new[n + 1] = x
        /\ \A k \in 1..n : new[k] = text[k]
  BY DEF Text
<1>2. Outside(new) = IF Count(BEGIN, new, n + 1) = Count(END, text, n)
                       THEN Append(Outside(text), x) ELSE Outside(text)
  BY OutsideAppend DEF Text
<1> HIDE DEF new
<1>3. Depth(text, n) = d /\ \A k \in 0..n : Depth(text, k) \in {0, 1}
  BY DEF Marked
<1> HIDE DEF n
<1>4. \A k \in 0..n : Count(BEGIN, new, k) = Count(BEGIN, text, k) /\ Count(END, new, k) = Count(END, text, k)
  <2> SUFFICES ASSUME NEW k \in 0..n
               PROVE  Count(BEGIN, new, k) = Count(BEGIN, text, k) /\ Count(END, new, k) = Count(END, text, k)
    OBVIOUS
  <2>1. k \in Nat /\ \A i \in 1..k : new[i] = text[i]
    BY <1>1
  <2>2. QED
    BY <2>1, CountSame
<1>5. Depth(new, n) = d /\ \A k \in 0..n : Depth(new, k) \in {0, 1}
  BY <1>1, <1>3, <1>4 DEF Depth
<1>6. Count(BEGIN, new, n) \in Nat /\ Count(END, new, n) \in Nat
        /\ Count(BEGIN, new, n) = Count(BEGIN, text, n) /\ Count(END, new, n) = Count(END, text, n)
  <2>1. n \in 0..n /\ n \in Nat
    BY <1>1
  <2>2. Count(BEGIN, new, n) \in Nat /\ Count(END, new, n) \in Nat
    BY <2>1, CountType, Zenon
  <2>3. QED
    BY <1>4, <2>1, <2>2
<1>7. /\ x = BEGIN => Count(BEGIN, new, n + 1) = Count(BEGIN, new, n) + 1
      /\ x # BEGIN => Count(BEGIN, new, n + 1) = Count(BEGIN, new, n)
      /\ x = END => Count(END, new, n + 1) = Count(END, new, n) + 1
      /\ x # END => Count(END, new, n + 1) = Count(END, new, n)
  BY <1>1, CountStep
<1>8. ASSUME NEW e \in {0, 1}, Depth(new, n + 1) = e PROVE Marked(new, e)
  <2>1. \A k \in 0..(n + 1) : k \in 0..n \/ k = n + 1
    BY <1>1
  <2>2. QED
    BY <1>1, <1>5, <1>8, <2>1 DEF Marked
<1>9. Count(BEGIN, new, n) - Count(END, new, n) = d
  BY <1>5 DEF Depth
<1>10. ASSUME d = 0, x = BEGIN PROVE Marked(new, 1) /\ Outside(new) = Outside(text)
  <2>1. Depth(new, n + 1) = 1
    BY <1>6, <1>7, <1>9, <1>10, Marks DEF Depth
  <2>2. QED
    BY <1>2, <1>6, <1>7, <1>8, <1>9, <1>10, <2>1
<1>11. ASSUME d = 1, x = END PROVE Marked(new, 0) /\ Outside(new) = Outside(text)
  <2>1. Depth(new, n + 1) = 0
    BY <1>6, <1>7, <1>9, <1>11, Marks DEF Depth
  <2>2. QED
    BY <1>2, <1>6, <1>7, <1>8, <1>9, <1>11, <2>1, Marks
<1>12. ASSUME x \notin Mark
       PROVE  Marked(new, d) /\ Outside(new) = IF d = 0 THEN Append(Outside(text), x) ELSE Outside(text)
  <2>1. Depth(new, n + 1) = d
    BY <1>6, <1>7, <1>9, <1>12 DEF Depth, Mark
  <2>2. QED
    BY <1>2, <1>6, <1>7, <1>8, <1>9, <1>12, <2>1 DEF Mark
<1>13. QED
  BY <1>6, <1>7, <1>10, <1>11, <1>12 DEF new, n

LEMMA BlockAppend ==
    ASSUME NEW text \in Text, NEW s \in Piece, s \notin Mark, Marked(text, 0)
    PROVE  /\ text \o Block(s) \in Text /\ Len(text \o Block(s)) = Len(text) + 3
           /\ Marked(text \o Block(s), 0) /\ Outside(text \o Block(s)) = Outside(text)
           /\ Count(BEGIN, text \o Block(s), Len(text) + 3) = Count(BEGIN, text, Len(text)) + 1
           /\ \A i \in 1..Len(text) : (text \o Block(s))[i] = text[i]
           /\ (text \o Block(s))[Len(text) + 1] = BEGIN /\ (text \o Block(s))[Len(text) + 2] = s
           /\ (text \o Block(s))[Len(text) + 3] = END
<1> DEFINE a == Append(text, BEGIN)
           b == Append(a, s)
           c == Append(b, END)
           n == Len(text)
<1>0. n \in Nat
  BY DEF Text
<1>1. a \in Text /\ Len(a) = n + 1 /\ a[n + 1] = BEGIN /\ \A i \in 1..n : a[i] = text[i]
  BY Marks DEF Text
<1>2. Marked(a, 1) /\ Outside(a) = Outside(text) /\ Count(BEGIN, a, n + 1) = Count(BEGIN, text, n) + 1
  BY Marks, MarkedAppend
<1> HIDE DEF a
<1>3. b \in Text /\ Len(b) = n + 2 /\ b[n + 2] = s /\ b[n + 1] = BEGIN /\ \A i \in 1..n : b[i] = text[i]
  <2>1. b \in Text /\ Len(b) = Len(a) + 1 /\ b[Len(a) + 1] = s /\ \A i \in 1..Len(a) : b[i] = a[i]
    BY <1>1 DEF Text
  <2> HIDE DEF b, n
  <2>2. QED
    BY <1>0, <1>1, <2>1
<1>4. Marked(b, 1) /\ Outside(b) = Outside(a) /\ Count(BEGIN, b, n + 2) = Count(BEGIN, a, n + 1)
  <2>1. s # BEGIN /\ (n + 1) + 1 = n + 2
    BY <1>0 DEF Mark
  <2> HIDE DEF n
  <2>2. QED
    BY <1>1, <1>2, <2>1, MarkedAppend
<1> HIDE DEF b
<1>5. c \in Text /\ Len(c) = n + 3 /\ c[n + 3] = END /\ c[n + 2] = s /\ c[n + 1] = BEGIN
        /\ \A i \in 1..n : c[i] = text[i]
  <2>1. c \in Text /\ Len(c) = Len(b) + 1 /\ c[Len(b) + 1] = END /\ \A i \in 1..Len(b) : c[i] = b[i]
    BY <1>3, Marks DEF Text
  <2> HIDE DEF c, n
  <2>2. QED
    BY <1>0, <1>3, <2>1
<1>6. Marked(c, 0) /\ Outside(c) = Outside(b) /\ Count(BEGIN, c, n + 3) = Count(BEGIN, b, n + 2)
  <2>1. (n + 2) + 1 = n + 3
    BY <1>0
  <2> HIDE DEF n
  <2>2. QED
    BY <1>3, <1>4, <2>1, Marks, MarkedAppend
<1> HIDE DEF c
<1>7. text \o Block(s) = c
  <2>1. Block(s) \in Text /\ Len(Block(s)) = 3 /\ Block(s)[1] = BEGIN /\ Block(s)[2] = s /\ Block(s)[3] = END
    BY Marks DEF Block, Text
  <2>2. /\ text \o Block(s) \in Text /\ Len(text \o Block(s)) = n + 3
        /\ \A i \in 1..(n + 3) : (text \o Block(s))[i] = IF i <= n THEN text[i] ELSE Block(s)[i - n]
    <3> HIDE DEF n
    <3>1. text \in Seq(Piece) /\ Block(s) \in Seq(Piece) /\ n = Len(text)
      BY <2>1 DEF Text, n
    <3>2. /\ text \o Block(s) \in Seq(Piece) /\ Len(text \o Block(s)) = n + Len(Block(s))
          /\ \A i \in 1..(n + Len(Block(s))) :
               (text \o Block(s))[i] = IF i <= n THEN text[i] ELSE Block(s)[i - n]
      BY <3>1, ConcatProperties
    <3>3. QED
      BY <2>1, <3>2 DEF Text
  <2> HIDE DEF n
  <2>3. \A i \in 1..(n + 3) : (text \o Block(s))[i] = c[i]
    <3> SUFFICES ASSUME NEW i \in 1..(n + 3) PROVE (text \o Block(s))[i] = c[i]
      OBVIOUS
    <3>1. i \in 1..n \/ i = n + 1 \/ i = n + 2 \/ i = n + 3
      BY <1>0
    <3>2. i \in 1..n => i <= n
      BY <1>0
    <3>3. i = n + 1 => ~(i <= n) /\ i - n = 1
      BY <1>0
    <3>4. i = n + 2 => ~(i <= n) /\ i - n = 2
      BY <1>0
    <3>5. i = n + 3 => ~(i <= n) /\ i - n = 3
      BY <1>0
    <3>6. QED
      BY <1>5, <2>1, <2>2, <3>1, <3>2, <3>3, <3>4, <3>5
  <2>4. QED
    BY <1>5, <2>2, <2>3, SeqEqual DEF Text
<1>8. QED
  BY <1>2, <1>4, <1>5, <1>6, <1>7

(* Splicing into a well-formed text, seen along the scan: what is put out  *)
(* is well formed, has the block wherever it has a BEGIN, has as many as   *)
(* the text so far, and has the same outside of them.                      *)
Prefix(text, k) == SubSeq(text, 1, k)

Filled(text, s) == \A i \in 1..Len(text) :
    text[i] = BEGIN => i + 2 \in 1..Len(text) /\ text[i + 1] = s /\ text[i + 2] = END

Along(a, text, k, s) ==
    /\ a.open = (Depth(text, k) = 1)
    /\ Marked(a.out, 0)
    /\ Outside(a.out) = Outside(Prefix(text, k))
    /\ Filled(a.out, s)
    /\ Count(BEGIN, a.out, Len(a.out)) = Count(BEGIN, text, k)

LEMMA PrefixIs ==
    ASSUME NEW T, NEW text \in Seq(T)
    PROVE  /\ Prefix(text, 0) = <<>> /\ Prefix(text, Len(text)) = text
           /\ \A k \in 0..Len(text) :
                /\ Prefix(text, k) \in Seq(T) /\ Len(Prefix(text, k)) = k
                /\ \A i \in 1..k : Prefix(text, k)[i] = text[i]
                /\ k < Len(text) => Prefix(text, k + 1) = Append(Prefix(text, k), text[k + 1])
<1>1. Len(text) \in Nat
  OBVIOUS
<1>2. ASSUME NEW k \in 0..Len(text)
      PROVE  /\ Prefix(text, k) \in Seq(T) /\ Len(Prefix(text, k)) = k
             /\ \A i \in 1..k : Prefix(text, k)[i] = text[i]
  BY DEF Prefix
<1>3. ASSUME NEW k \in 0..Len(text), k < Len(text)
      PROVE  Prefix(text, k + 1) = Append(Prefix(text, k), text[k + 1])
  <2> DEFINE a == Prefix(text, k)
             b == Prefix(text, k + 1)
             c == Append(a, text[k + 1])
  <2>1. k + 1 \in 0..Len(text) /\ k + 1 \in 1..Len(text) /\ k \in Nat
    BY <1>1, <1>3
  <2>2. a \in Seq(T) /\ Len(a) = k /\ \A i \in 1..k : a[i] = text[i]
    BY <1>2
  <2>3. b \in Seq(T) /\ Len(b) = k + 1 /\ \A i \in 1..(k + 1) : b[i] = text[i]
    BY <1>2, <2>1
  <2>4. text[k + 1] \in T
    BY <2>1
  <2> HIDE DEF a, b
  <2>5. c \in Seq(T) /\ Len(c) = k + 1 /\ c[k + 1] = text[k + 1] /\ \A i \in 1..k : c[i] = a[i]
    BY <2>2, <2>4
  <2> HIDE DEF c
  <2>6. \A i \in 1..(k + 1) : b[i] = c[i]
    <3>1. \A i \in 1..(k + 1) : i \in 1..k \/ i = k + 1
      BY <2>1
    <3>2. QED
      BY <2>2, <2>3, <2>5, <3>1
  <2>7. b = c
    BY <2>3, <2>5, <2>6, SeqEqual
  <2>8. QED
    BY <2>7 DEF a, b, c
<1>4. Prefix(text, 0) = <<>>
  <2>1. Prefix(text, 0) \in Seq(T) /\ Len(Prefix(text, 0)) = 0
    BY <1>1, <1>2
  <2>2. QED
    BY <2>1
<1>5. Prefix(text, Len(text)) = text
  <2>1. Len(text) \in 0..Len(text)
    BY <1>1
  <2>2. Prefix(text, Len(text)) \in Seq(T) /\ Len(Prefix(text, Len(text))) = Len(text)
          /\ \A i \in 1..Len(text) : Prefix(text, Len(text))[i] = text[i]
    BY <1>2, <2>1
  <2>3. QED
    BY <2>2, SeqEqual
<1>6. QED
  BY <1>2, <1>3, <1>4, <1>5

LEMMA PrefixMarked ==
    ASSUME NEW text \in Text, WellFormed(text), NEW k \in 0..Len(text)
    PROVE  Depth(text, k) \in {0, 1} /\ Marked(Prefix(text, k), Depth(text, k))
<1> DEFINE a == Prefix(text, k)
<1>1. Len(text) \in Nat /\ a \in Text /\ Len(a) = k /\ \A i \in 1..k : a[i] = text[i]
  BY PrefixIs DEF Text
<1>2. \A m \in 0..Len(text) : Depth(text, m) \in {0, 1}
  BY WellFormedIs DEF Marked, Text
<1> HIDE DEF a
<1>3. ASSUME NEW m \in 0..k PROVE Depth(a, m) = Depth(text, m)
  <2>1. m \in Nat /\ \A i \in 1..m : a[i] = text[i]
    BY <1>1
  <2>2. Count(BEGIN, a, m) = Count(BEGIN, text, m) /\ Count(END, a, m) = Count(END, text, m)
    BY <2>1, CountSame
  <2>3. QED
    BY <2>2 DEF Depth
<1>4. \A m \in 0..k : m \in 0..Len(text)
  BY <1>1
<1>5. k \in 0..k
  BY <1>1
<1>6. QED
  BY <1>1, <1>2, <1>3, <1>4, <1>5 DEF Marked, a

(* A BEGIN of a well-formed text has an END after it.                      *)
LEMMA EndAhead ==
    ASSUME NEW text \in Text, WellFormed(text), NEW k \in 1..Len(text), text[k] = BEGIN
    PROVE  \E j \in k..Len(text) : text[j] = END
<1> DEFINE n == Len(text)
<1> SUFFICES ASSUME \A j \in k..n : text[j] # END PROVE FALSE
  OBVIOUS
<1>1. n \in Nat /\ k - 1 \in Nat /\ k - 1 \in 0..n /\ (k - 1) + 1 = k /\ n \in 0..n /\ k \in 0..n
  BY DEF Text
<1>2. Marked(text, 0)
  BY WellFormedIs DEF Text
<1>3. Depth(text, n) = 0 /\ Depth(text, k - 1) \in {0, 1} /\ Depth(text, k) \in {0, 1}
  BY <1>1, <1>2 DEF Marked
<1> HIDE DEF n
<1>4. {i \in 1..n : text[i] = END} = {i \in 1..k : text[i] = END}
  BY <1>1
<1>5. Count(END, text, n) = Count(END, text, k)
  BY <1>4 DEF Count
<1>6. Count(BEGIN, text, k) = Count(BEGIN, text, k - 1) + 1 /\ Count(END, text, k) = Count(END, text, k - 1)
  BY <1>1, CountStep, Marks
<1>7. Count(BEGIN, text, k) <= Count(BEGIN, text, n)
  <2> DEFINE A == {i \in 1..k : text[i] = BEGIN}
             B == {i \in 1..n : text[i] = BEGIN}
  <2>1. A \in SUBSET B
    BY <1>1
  <2>2. IsFiniteSet(B)
    BY <1>1, CountType
  <2>3. Count(BEGIN, text, k) = Cardinality(A) /\ Count(BEGIN, text, n) = Cardinality(B)
    BY DEF Count
  <2> HIDE DEF A, B
  <2>4. QED
    BY <2>1, <2>2, <2>3, FS_Subset
<1>8. /\ Count(BEGIN, text, k) \in Nat /\ Count(END, text, k) \in Nat
      /\ Count(BEGIN, text, n) \in Nat /\ Count(END, text, n) \in Nat
      /\ Count(BEGIN, text, k - 1) \in Nat /\ Count(END, text, k - 1) \in Nat
  <2>1. k \in Nat
    OBVIOUS
  <2>2. QED
    BY <1>1, <2>1, CountType, Zenon
<1>9. QED
  BY <1>3, <1>5, <1>6, <1>7, <1>8 DEF Depth

LEMMA AlongStep ==
    ASSUME NEW text \in Text, WellFormed(text), NEW s \in Piece, s \notin Mark,
           NEW k \in Nat, k + 1 <= Len(text), NEW a \in Scanned(Piece), Along(a, text, k, s)
    PROVE  Along(Scan(a, k + 1, text, s), text, k + 1, s)
<1> DEFINE n == Len(text)
           x == text[k + 1]
           pre == Prefix(text, k)
           post == Prefix(text, k + 1)
           b == Scan(a, k + 1, text, s)
           m == Len(a.out)
<1>1. n \in Nat /\ k \in 0..n /\ k + 1 \in 0..n /\ k + 1 \in 1..n /\ k < n /\ x \in Piece
  BY DEF Text
<1>2. pre \in Text /\ Len(pre) = k /\ post = Append(pre, x)
  BY <1>1, PrefixIs DEF Text
<1>3. /\ Depth(text, k) \in {0, 1} /\ Depth(text, k + 1) \in {0, 1}
      /\ Marked(pre, Depth(text, k)) /\ Marked(post, Depth(text, k + 1))
  BY <1>1, PrefixMarked
<1>4. /\ Count(BEGIN, text, k) \in Nat /\ Count(END, text, k) \in Nat
      /\ x = BEGIN => Count(BEGIN, text, k + 1) = Count(BEGIN, text, k) + 1
      /\ x # BEGIN => Count(BEGIN, text, k + 1) = Count(BEGIN, text, k)
      /\ x = END => Count(END, text, k + 1) = Count(END, text, k) + 1
      /\ x # END => Count(END, text, k + 1) = Count(END, text, k)
  BY CountStep, CountType
<1>5. /\ x = BEGIN => Depth(text, k) = 0 /\ Depth(text, k + 1) = 1
      /\ x = END => Depth(text, k) = 1 /\ Depth(text, k + 1) = 0
      /\ x \notin Mark => Depth(text, k + 1) = Depth(text, k)
  BY <1>3, <1>4, Marks DEF Depth, Mark
<1>6. a.out \in Text /\ a.open \in BOOLEAN /\ m \in Nat
  BY DEF Scanned, Text
<1>7. /\ a.open = (Depth(text, k) = 1) /\ Marked(a.out, 0) /\ Outside(a.out) = Outside(pre)
      /\ Filled(a.out, s) /\ Count(BEGIN, a.out, m) = Count(BEGIN, text, k)
  BY DEF Along
<1> HIDE DEF x, pre, post, n, b, m
<1>8. CASE a.open
  <2>1. b = [a EXCEPT !.open = x # END]
    BY <1>8 DEF b, Scan, x
  <2>2. b.out = a.out /\ b.open = (x # END)
    BY <2>1 DEF Scanned
  <2>3. Depth(text, k) = 1 /\ x # BEGIN
    <3>1. Depth(text, k) = 1
      BY <1>7, <1>8, Zenon
    <3>2. QED
      BY <1>5, <3>1
  <2>4. b.open = (Depth(text, k + 1) = 1)
    BY <1>3, <1>5, <2>2, <2>3 DEF Mark
  <2>5. Outside(post) = Outside(pre)
    <3>1. CASE x = END
      BY <1>1, <1>2, <1>3, <2>3, <3>1, MarkedAppend
    <3>2. CASE x # END
      <4>1. x \notin Mark
        BY <2>3, <3>2 DEF Mark
      <4>2. QED
        BY <1>1, <1>2, <1>3, <2>3, <4>1, MarkedAppend
    <3>3. QED
      BY <3>1, <3>2
  <2>6. Count(BEGIN, text, k + 1) = Count(BEGIN, text, k)
    BY <1>4, <2>3
  <2>7. QED
    BY <1>7, <2>2, <2>4, <2>5, <2>6 DEF Along, b, m, post
<1>9. CASE ~a.open /\ x = BEGIN
  <2>1. \E j \in (k + 1)..Len(text) : text[j] = END
    BY <1>1, <1>9, EndAhead DEF x, n
  <2>2. b = [out |-> a.out \o Block(s), open |-> TRUE]
    BY <1>9, <2>1, Zenon DEF b, Scan, x
  <2> DEFINE out == a.out \o Block(s)
  <2>3. /\ out \in Text /\ Len(out) = m + 3 /\ Marked(out, 0) /\ Outside(out) = Outside(a.out)
        /\ Count(BEGIN, out, m + 3) = Count(BEGIN, a.out, m) + 1
        /\ \A i \in 1..m : out[i] = a.out[i]
        /\ out[m + 1] = BEGIN /\ out[m + 2] = s /\ out[m + 3] = END
    BY <1>6, <1>7, BlockAppend DEF m
  <2> HIDE DEF out
  <2>4. b.out = out /\ b.open = TRUE
    BY <2>2 DEF out
  <2>5. Outside(post) = Outside(pre)
    BY <1>1, <1>2, <1>3, <1>5, <1>9, MarkedAppend
  <2>6. Filled(out, s)
    <3> SUFFICES ASSUME NEW i \in 1..(m + 3), out[i] = BEGIN
                 PROVE  i + 2 \in 1..(m + 3) /\ out[i + 1] = s /\ out[i + 2] = END
      BY <2>3 DEF Filled
    <3>1. CASE i \in 1..m
      <4>1. i + 2 \in 1..m /\ a.out[i + 1] = s /\ a.out[i + 2] = END
        BY <1>7, <2>3, <3>1 DEF Filled, m
      <4>2. i + 1 \in 1..m /\ i + 2 \in 1..(m + 3)
        BY <1>6, <4>1
      <4>3. QED
        BY <2>3, <4>1, <4>2
    <3>2. CASE i = m + 1
      BY <1>6, <2>3, <3>2
    <3>3. CASE i = m + 2
      BY <2>3, <3>3 DEF Mark
    <3>4. CASE i = m + 3
      BY <2>3, <3>4, Marks
    <3>5. QED
      BY <1>6, <3>1, <3>2, <3>3, <3>4
  <2>7. QED
    BY <1>4, <1>5, <1>7, <1>9, <2>3, <2>4, <2>5, <2>6 DEF Along, b, post
<1>10. CASE ~a.open /\ x # BEGIN
  <2> DEFINE out == Append(a.out, x)
  <2>1. b = [a EXCEPT !.out = out]
    BY <1>10, Zenon DEF b, Scan, x
  <2>2. b.out = out /\ b.open = FALSE
    BY <1>6, <1>10, <2>1 DEF Scanned
  <2>3. Depth(text, k) = 0 /\ x \notin Mark
    BY <1>3, <1>5, <1>7, <1>10 DEF Mark
  <2>4. out \in Text /\ Len(out) = m + 1 /\ out[m + 1] = x /\ \A i \in 1..m : out[i] = a.out[i]
    BY <1>1, <1>6 DEF Text, m
  <2>5. Marked(out, 0) /\ Outside(out) = Append(Outside(a.out), x)
          /\ Count(BEGIN, out, m + 1) = Count(BEGIN, a.out, m)
    BY <1>1, <1>6, <1>7, <1>10, <2>3, MarkedAppend DEF m
  <2>6. Outside(post) = Append(Outside(pre), x)
    BY <1>1, <1>2, <1>3, <2>3, MarkedAppend
  <2> HIDE DEF out
  <2>7. Filled(out, s)
    <3> SUFFICES ASSUME NEW i \in 1..(m + 1), out[i] = BEGIN
                 PROVE  i + 2 \in 1..(m + 1) /\ out[i + 1] = s /\ out[i + 2] = END
      BY <2>4 DEF Filled
    <3>1. i # m + 1
      BY <1>10, <2>4
    <3>2. i \in 1..m
      BY <1>6, <3>1
    <3>3. i + 2 \in 1..m /\ a.out[i + 1] = s /\ a.out[i + 2] = END
      BY <1>7, <2>4, <3>2 DEF Filled, m
    <3>4. i + 1 \in 1..m /\ i + 2 \in 1..(m + 1)
      BY <1>6, <3>3
    <3>5. QED
      BY <2>4, <3>3, <3>4
  <2>8. QED
    BY <1>4, <1>5, <1>7, <1>10, <2>2, <2>3, <2>4, <2>5, <2>6, <2>7 DEF Along, b, post
<1>11. QED
  BY <1>6, <1>8, <1>9, <1>10 DEF b

LEMMA ReplacedIs ==
    ASSUME NEW text \in Text, WellFormed(text), NEW s \in Piece, s \notin Mark
    PROVE  /\ Replaced(text, s) \in Text /\ Marked(Replaced(text, s), 0)
           /\ Outside(Replaced(text, s)) = Outside(text) /\ Filled(Replaced(text, s), s)
           /\ Count(BEGIN, Replaced(text, s), Len(Replaced(text, s))) = Count(BEGIN, text, Len(text))
<1> DEFINE n == Len(text)
<1>1. n \in Nat /\ n \in 0..n
  BY DEF Text
<1>2. PICK f \in [0..n -> Scanned(Piece)] :
         /\ f[0] = Unscanned /\ Replaced(text, s) = f[n].out
         /\ \A k \in 1..n : f[k] = Scan(f[k - 1], k, text, s)
  BY ScanRun, Marks DEF Text
<1> HIDE DEF n
<1> DEFINE S == {k \in Nat : k <= n => Along(f[k], text, k, s)}
<1>3. 0 \in S
  <2>1. f[0].out = <<>> /\ f[0].open = FALSE /\ Len(<<>>) = 0
    BY <1>2 DEF Unscanned
  <2>2. Count(BEGIN, text, 0) = 0 /\ Count(END, text, 0) = 0 /\ Count(BEGIN, <<>>, 0) = 0
          /\ Count(END, <<>>, 0) = 0
    BY CountStep
  <2>3. Depth(text, 0) = 0 /\ Marked(<<>>, 0)
    BY <2>1, <2>2 DEF Depth, Marked
  <2>4. Prefix(text, 0) = <<>> /\ Filled(<<>>, s)
    BY PrefixIs DEF Text, Filled
  <2>5. f[0].open = (Depth(text, 0) = 1)
    <3>1. (Depth(text, 0) = 1) = FALSE
      BY <2>3
    <3>2. QED
      BY <2>1, <3>1, Zenon
  <2>6. Along(f[0], text, 0, s)
    BY <2>1, <2>2, <2>3, <2>4, <2>5 DEF Along
  <2>7. QED
    BY <2>6
<1>4. ASSUME NEW k \in Nat, k \in S PROVE k + 1 \in S
  <2> SUFFICES ASSUME k + 1 <= n PROVE Along(f[k + 1], text, k + 1, s)
    OBVIOUS
  <2>1. Along(f[k], text, k, s) /\ k + 1 \in 1..n /\ (k + 1) - 1 = k /\ k \in 0..n
    BY <1>1, <1>4
  <2>2. f[k + 1] = Scan(f[k], k + 1, text, s) /\ f[k] \in Scanned(Piece)
    BY <1>2, <2>1
  <2>3. QED
    BY <2>1, <2>2, AlongStep DEF n
<1> HIDE DEF S
<1>5. Along(f[n], text, n, s)
  <2>1. n \in S
    BY <1>1, <1>3, <1>4, NatsIn
  <2>2. QED
    BY <1>1, <2>1 DEF S
<1>6. f[n].out \in Text /\ Prefix(text, n) = text
  BY <1>1, PrefixIs DEF Scanned, Text, n
<1>7. QED
  BY <1>2, <1>5, <1>6 DEF Along, n

(* A text that has the block already, spliced, is the same.                *)
Copied(a, text, k) ==
    \E e \in 0..Len(text) :
        /\ a.out = Prefix(text, e)
        /\ ~a.open => e = k
        /\ a.open => \/ k \in 1..Len(text) /\ text[k] = BEGIN /\ e = k + 2
                     \/ k - 1 \in 1..Len(text) /\ text[k - 1] = BEGIN /\ text[k] # BEGIN /\ e = k + 1

LEMMA PrefixBlock ==
    ASSUME NEW text \in Text, NEW s \in Piece, NEW k \in Nat, k + 3 <= Len(text),
           text[k + 1] = BEGIN, text[k + 2] = s, text[k + 3] = END
    PROVE  Prefix(text, k) \o Block(s) = Prefix(text, k + 3)
<1> DEFINE a == Prefix(text, k)
           b == Prefix(text, k + 3)
           c == a \o Block(s)
<1>1. Len(text) \in Nat /\ k \in 0..Len(text) /\ k + 3 \in 0..Len(text)
  BY DEF Text
<1>2. a \in Seq(Piece) /\ Len(a) = k /\ \A i \in 1..k : a[i] = text[i]
  BY <1>1, PrefixIs DEF Text
<1>3. b \in Seq(Piece) /\ Len(b) = k + 3 /\ \A i \in 1..(k + 3) : b[i] = text[i]
  BY <1>1, PrefixIs DEF Text
<1>4. Block(s) \in Seq(Piece) /\ Len(Block(s)) = 3 /\ Block(s)[1] = BEGIN /\ Block(s)[2] = s
        /\ Block(s)[3] = END
  BY Marks DEF Block
<1> HIDE DEF a, b
<1>5. c \in Seq(Piece) /\ Len(c) = k + 3
        /\ \A i \in 1..(k + 3) : c[i] = IF i <= k THEN a[i] ELSE Block(s)[i - k]
  <2>1. /\ c \in Seq(Piece) /\ Len(c) = Len(a) + Len(Block(s))
        /\ \A i \in 1..(Len(a) + Len(Block(s))) : c[i] = IF i <= Len(a) THEN a[i] ELSE Block(s)[i - Len(a)]
    <3>1. a \in Seq(Piece) /\ Block(s) \in Seq(Piece)
      BY <1>2, <1>4
    <3>2. QED
      BY <3>1, ConcatProperties
  <2> HIDE DEF c
  <2>2. QED
    BY <1>2, <1>4, <2>1
<1> HIDE DEF c
<1>6. ASSUME NEW i \in 1..(k + 3) PROVE c[i] = b[i]
  <2>1. i \in 1..k \/ i = k + 1 \/ i = k + 2 \/ i = k + 3
    OBVIOUS
  <2>2. i \in 1..k => i <= k
    OBVIOUS
  <2>3. i = k + 1 => ~(i <= k) /\ i - k = 1
    OBVIOUS
  <2>4. i = k + 2 => ~(i <= k) /\ i - k = 2
    OBVIOUS
  <2>5. i = k + 3 => ~(i <= k) /\ i - k = 3
    OBVIOUS
  <2>6. QED
    BY <1>2, <1>3, <1>4, <1>5, <2>1, <2>2, <2>3, <2>4, <2>5
<1>7. c = b
  BY <1>3, <1>5, <1>6, SeqEqual
<1>8. QED
  BY <1>7 DEF a, b, c

LEMMA CopiedStep ==
    ASSUME NEW text \in Text, NEW s \in Piece, s \notin Mark, Filled(text, s),
           NEW k \in Nat, k + 1 <= Len(text), NEW a \in Scanned(Piece), Copied(a, text, k)
    PROVE  Copied(Scan(a, k + 1, text, s), text, k + 1)
<1> DEFINE n == Len(text)
           x == text[k + 1]
           b == Scan(a, k + 1, text, s)
<1>1. n \in Nat /\ k \in 0..n /\ k + 1 \in 0..n /\ k + 1 \in 1..n /\ k < n /\ x \in Piece
        /\ (k + 1) - 1 = k /\ (k + 1) + 1 = k + 2 /\ (k + 1) + 2 = k + 3
  BY DEF Text
<1>2. PICK e \in 0..n :
        /\ a.out = Prefix(text, e)
        /\ ~a.open => e = k
        /\ a.open => \/ k \in 1..n /\ text[k] = BEGIN /\ e = k + 2
                     \/ k - 1 \in 1..n /\ text[k - 1] = BEGIN /\ text[k] # BEGIN /\ e = k + 1
  BY DEF Copied
<1>3. \A i \in 1..n : text[i] = BEGIN => i + 2 \in 1..n /\ text[i + 1] = s /\ text[i + 2] = END
  BY DEF Filled
<1>4. a.open \in BOOLEAN
  BY DEF Scanned
<1>5. CASE a.open
  <2>1. b = [a EXCEPT !.open = x # END]
    BY <1>5 DEF b, Scan, x
  <2>2. b.out = a.out /\ b.open = (x # END)
    BY <2>1 DEF Scanned
  <2> HIDE DEF b
  <2>3. CASE k \in 1..n /\ text[k] = BEGIN /\ e = k + 2
    <3>1. x = s /\ x # BEGIN /\ x # END
      BY <1>3, <2>3 DEF Mark
    <3>2. b.open
      BY <2>2, <3>1
    <3> HIDE DEF x
    <3>3. /\ e \in 0..n /\ b.out = Prefix(text, e) /\ (k + 1) - 1 \in 1..n
          /\ text[(k + 1) - 1] = BEGIN /\ text[k + 1] # BEGIN /\ e = (k + 1) + 1
      BY <1>1, <1>2, <2>2, <2>3, <3>1 DEF x
    <3>4. QED
      BY <3>2, <3>3 DEF Copied, b, n
  <2>4. CASE k - 1 \in 1..n /\ text[k - 1] = BEGIN /\ e = k + 1
    <3>1. text[(k - 1) + 2] = END /\ (k - 1) + 2 = k + 1
      BY <1>3, <2>4
    <3>2. x = END
      BY <3>1
    <3>3. ~b.open
      BY <2>2, <3>2
    <3>4. e \in 0..n /\ b.out = Prefix(text, e) /\ e = k + 1
      BY <1>2, <2>2, <2>4
    <3>5. QED
      BY <3>3, <3>4 DEF Copied, b, n
  <2>5. QED
    BY <1>2, <1>5, <2>3, <2>4
<1>6. CASE ~a.open /\ x = BEGIN
  <2>1. k + 3 \in 1..n /\ text[k + 2] = s /\ text[k + 3] = END
    BY <1>1, <1>3, <1>6
  <2>2. \E j \in (k + 1)..Len(text) : text[j] = END
    BY <1>1, <2>1
  <2>3. b = [out |-> a.out \o Block(s), open |-> TRUE]
    BY <1>6, <2>2, Zenon DEF b, Scan, x
  <2>4. Prefix(text, k) \o Block(s) = Prefix(text, k + 3)
    BY <1>6, <2>1, PrefixBlock
  <2>5. b.out = Prefix(text, k + 3) /\ b.open = TRUE
    <3>1. e = k
      BY <1>2, <1>6, Zenon
    <3>2. b.out = a.out \o Block(s) /\ b.open = TRUE
      BY <2>3
    <3>3. QED
      BY <1>2, <2>4, <3>1, <3>2
  <2>6. k + 3 \in 0..n /\ k + 3 = (k + 1) + 2
    BY <2>1
  <2> HIDE DEF b, n
  <2>7. QED
    BY <1>1, <1>6, <2>5, <2>6 DEF Copied, b, n
<1>7. CASE ~a.open /\ x # BEGIN
  <2>1. b = [a EXCEPT !.out = Append(a.out, x)]
    BY <1>7, Zenon DEF b, Scan, x
  <2>2. b.out = Append(a.out, x) /\ b.open = FALSE
    BY <1>4, <1>7, <2>1 DEF Scanned
  <2>3. Prefix(text, k + 1) = Append(Prefix(text, k), x)
    BY <1>1, PrefixIs DEF Text
  <2> HIDE DEF b, n, x
  <2>4. b.out = Prefix(text, k + 1) /\ k + 1 \in 0..n
    BY <1>1, <1>2, <1>7, <2>2, <2>3
  <2>5. QED
    BY <2>2, <2>4 DEF Copied, b, n
<1>8. QED
  BY <1>4, <1>5, <1>6, <1>7

LEMMA FilledStays ==
    ASSUME NEW text \in Text, NEW s \in Piece, s \notin Mark, Filled(text, s)
    PROVE  Replaced(text, s) = text
<1> DEFINE n == Len(text)
<1>1. n \in Nat /\ n \in 0..n
  BY DEF Text
<1>2. PICK f \in [0..n -> Scanned(Piece)] :
         /\ f[0] = Unscanned /\ Replaced(text, s) = f[n].out
         /\ \A k \in 1..n : f[k] = Scan(f[k - 1], k, text, s)
  BY ScanRun, Marks DEF Text
<1> HIDE DEF n
<1> DEFINE S == {k \in Nat : k <= n => Copied(f[k], text, k)}
<1>3. 0 \in S
  <2>1. f[0].out = <<>> /\ f[0].open = FALSE
    BY <1>2 DEF Unscanned
  <2>2. Prefix(text, 0) = <<>> /\ 0 \in 0..n
    BY <1>1, PrefixIs DEF Text
  <2>3. QED
    BY <2>1, <2>2 DEF Copied, n
<1>4. ASSUME NEW k \in Nat, k \in S PROVE k + 1 \in S
  <2> SUFFICES ASSUME k + 1 <= n PROVE Copied(f[k + 1], text, k + 1)
    OBVIOUS
  <2>1. Copied(f[k], text, k) /\ k + 1 \in 1..n /\ (k + 1) - 1 = k /\ k \in 0..n
    BY <1>1, <1>4
  <2>2. f[k + 1] = Scan(f[k], k + 1, text, s) /\ f[k] \in Scanned(Piece)
    BY <1>2, <2>1
  <2>3. QED
    BY <2>1, <2>2, CopiedStep DEF n
<1> HIDE DEF S
<1>5. Copied(f[n], text, n)
  <2>1. n \in S
    BY <1>1, <1>3, <1>4, NatsIn
  <2>2. QED
    BY <1>1, <2>1 DEF S
<1>6. PICK e \in 0..n : f[n].out = Prefix(text, e) /\ (e = n \/ e = n + 1 \/ e = n + 2)
  <2>1. f[n] \in Scanned(Piece)
    BY <1>1, <1>2
  <2>2. f[n].open \in BOOLEAN
    BY <2>1 DEF Scanned
  <2>3. QED
    BY <1>5, <2>2 DEF Copied, n
<1>7. e = n
  BY <1>1, <1>6
<1>8. QED
  BY <1>2, <1>6, <1>7, PrefixIs DEF n, Text

(* What BlockManaged says of a text and a summary.                         *)
Managed(text, s) ==
    LET new == Splice(text, s)
    IN  WellFormed(new) /\ Outside(new) = Outside(text) /\ Splice(new, s) = new

LEMMA CountNone ==
    ASSUME NEW x, NEW text, NEW k \in Nat
    PROVE  Count(x, text, k) = 0 <=> \A i \in 1..k : text[i] # x
<1>1. IsFiniteSet({i \in 1..k : text[i] = x})
  BY CountType
<1>2. QED
  BY <1>1, FS_EmptySet DEF Count

LEMMA InText ==
    ASSUME NEW text \in Text, NEW x
    PROVE  x \in ToSet(text) <=> \E i \in 1..Len(text) : text[i] = x
BY DEF ToSet, Text

LEMMA SpliceManages ==
    ASSUME NEW text \in Text, WellFormed(text), NEW s \in Piece, s \notin Mark
    PROVE  /\ Splice(text, s) \in Text /\ Managed(text, s) /\ Filled(Splice(text, s), s)
           /\ BEGIN \in ToSet(text) =>
                Count(BEGIN, Splice(text, s), Len(Splice(text, s))) = Count(BEGIN, text, Len(text))
           /\ BEGIN \notin ToSet(text) => Count(BEGIN, Splice(text, s), Len(Splice(text, s))) = 1
<1> DEFINE n == Len(text)
           new == Splice(text, s)
<1>1. n \in Nat
  BY DEF Text
<1>2. SUFFICES /\ new \in Text /\ Marked(new, 0) /\ Outside(new) = Outside(text) /\ Filled(new, s)
               /\ \E i \in 1..Len(new) : new[i] = BEGIN
               /\ BEGIN \in ToSet(text) => Count(BEGIN, new, Len(new)) = Count(BEGIN, text, n)
               /\ BEGIN \notin ToSet(text) => Count(BEGIN, new, Len(new)) = 1
  <2> HIDE DEF new
  <2>1. BEGIN \in ToSet(new) /\ END \in ToSet(new)
    BY <1>2, InText DEF Filled
  <2>2. Splice(new, s) = new
    BY <1>2, <2>1, FilledStays DEF Splice
  <2>3. WellFormed(new)
    BY <1>2, WellFormedIs DEF Text
  <2>4. QED
    BY <1>2, <2>2, <2>3 DEF Managed, new
<1>3. CASE BEGIN \in ToSet(text)
  <2>1. PICK b \in 1..n : text[b] = BEGIN
    BY <1>3, InText
  <2>2. \E j \in b..n : text[j] = END
    BY <2>1, EndAhead
  <2>3. END \in ToSet(text)
    BY <1>1, <2>2, InText
  <2>4. new = Replaced(text, s)
    BY <1>3, <2>3 DEF Splice
  <2> HIDE DEF new, n
  <2>5. /\ new \in Text /\ Marked(new, 0) /\ Outside(new) = Outside(text) /\ Filled(new, s)
        /\ Count(BEGIN, new, Len(new)) = Count(BEGIN, text, n)
    BY <2>4, ReplacedIs DEF n
  <2>6. Count(BEGIN, text, n) # 0
    BY <1>1, <2>1, CountNone
  <2>7. Len(new) \in Nat
    BY <2>5 DEF Text
  <2>8. \E i \in 1..Len(new) : new[i] = BEGIN
    BY <2>5, <2>6, <2>7, CountNone
  <2>9. QED
    BY <1>3, <2>5, <2>8
<1>4. CASE BEGIN \notin ToSet(text)
  <2>1. new = text \o Block(s)
    BY <1>4 DEF Splice
  <2>2. \A i \in 1..n : text[i] # BEGIN
    BY <1>4, InText
  <2>3. Count(BEGIN, text, n) = 0
    BY <1>1, <2>2, CountNone
  <2>4. Marked(text, 0)
    BY WellFormedIs DEF Text
  <2> HIDE DEF new
  <2>5. /\ new \in Text /\ Len(new) = n + 3 /\ Marked(new, 0) /\ Outside(new) = Outside(text)
        /\ Count(BEGIN, new, n + 3) = Count(BEGIN, text, n) + 1
        /\ \A i \in 1..n : new[i] = text[i]
        /\ new[n + 1] = BEGIN /\ new[n + 2] = s /\ new[n + 3] = END
    BY <2>1, <2>4, BlockAppend
  <2> HIDE DEF n
  <2>6. ASSUME NEW i \in 1..(n + 3), new[i] = BEGIN
        PROVE  i + 2 \in 1..(n + 3) /\ new[i + 1] = s /\ new[i + 2] = END
    <3>1. i \in 1..n \/ i = n + 1 \/ i = n + 2 \/ i = n + 3
      BY <1>1
    <3>2. i = n + 1
      BY <2>2, <2>5, <2>6, <3>1, Marks DEF Mark
    <3>3. QED
      BY <1>1, <2>5, <3>2
  <2>7. Filled(new, s)
    BY <2>5, <2>6 DEF Filled
  <2>8. n + 1 \in 1..(n + 3)
    BY <1>1
  <2>9. QED
    BY <1>4, <2>3, <2>5, <2>7, <2>8
<1>5. QED
  BY <1>3, <1>4

-------------------------------------------------------------------------------
(* A text that no person has edited has no marks, or a BEGIN, a summary    *)
(* and an END after each other.                                            *)
BlockAt(text, b) ==
    /\ b + 2 \in 1..Len(text) /\ text[b + 1].kind = "summary"
    /\ \A i \in 1..Len(text) : (text[i] = BEGIN <=> i = b) /\ (text[i] = END <=> i = b + 2)

Placed(text) ==
    \/ \A i \in 1..Len(text) : text[i] \notin Mark
    \/ \E b \in 1..Len(text) : BlockAt(text, b)

LEMMA PlacedWell ==
    ASSUME NEW text \in Text, Placed(text)
    PROVE  WellFormed(text) /\ Count(BEGIN, text, Len(text)) <= 1
<1> DEFINE n == Len(text)
<1>1. n \in Nat
  BY DEF Text
<1>2. SUFFICES /\ \A k \in 0..n : Depth(text, k) \in {0, 1}
               /\ Depth(text, n) = 0 /\ Count(BEGIN, text, n) <= 1
  BY WellFormedIs DEF Marked, Text
<1>3. CASE \A i \in 1..n : text[i] \notin Mark
  <2>1. \A k \in 0..n : k \in Nat /\ \A i \in 1..k : i \in 1..n
    BY <1>1
  <2>2. \A k \in 0..n : Count(BEGIN, text, k) = 0 /\ Count(END, text, k) = 0
    <3> SUFFICES ASSUME NEW k \in 0..n PROVE Count(BEGIN, text, k) = 0 /\ Count(END, text, k) = 0
      OBVIOUS
    <3> HIDE DEF n
    <3>1. k \in Nat /\ \A i \in 1..k : text[i] # BEGIN /\ text[i] # END
      BY <1>3, <2>1 DEF Mark
    <3>2. QED
      BY <3>1, CountNone
  <2>3. n \in 0..n
    BY <1>1
  <2> HIDE DEF n
  <2>4. QED
    BY <2>2, <2>3 DEF Depth
<1>4. ASSUME NEW b \in 1..n, BlockAt(text, b)
      PROVE  /\ \A k \in 0..n : Depth(text, k) \in {0, 1}
             /\ Depth(text, n) = 0 /\ Count(BEGIN, text, n) <= 1
  <2>1. b + 2 \in 1..n /\ \A i \in 1..n : (text[i] = BEGIN <=> i = b) /\ (text[i] = END <=> i = b + 2)
    BY <1>4 DEF BlockAt
  <2>2. Cardinality({b}) = 1 /\ Cardinality({b + 2}) = 1 /\ Cardinality({}) = 0
    BY FS_Singleton, FS_EmptySet
  <2> HIDE DEF n
  <2>3. ASSUME NEW k \in 0..n
        PROVE  /\ Count(BEGIN, text, k) = IF b <= k THEN 1 ELSE 0
               /\ Count(END, text, k) = IF b + 2 <= k THEN 1 ELSE 0
    <3>1. {i \in 1..k : text[i] = BEGIN} = IF b <= k THEN {b} ELSE {}
      BY <1>1, <2>1
    <3>2. {i \in 1..k : text[i] = END} = IF b + 2 <= k THEN {b + 2} ELSE {}
      BY <1>1, <2>1
    <3>3. QED
      BY <2>2, <3>1, <3>2 DEF Count
  <2>4. ASSUME NEW k \in 0..n PROVE Depth(text, k) \in {0, 1}
    BY <1>1, <2>3 DEF Depth
  <2>5. n \in 0..n /\ b <= n /\ b + 2 <= n
    BY <1>1, <2>1
  <2>6. QED
    BY <2>3, <2>4, <2>5 DEF Depth
<1>5. QED
  BY <1>3, <1>4 DEF Placed

LEMMA AtMostOne ==
    ASSUME NEW S, IsFiniteSet(S), Cardinality(S) <= 1, NEW x \in S, NEW y \in S
    PROVE  x = y
<1> SUFFICES ASSUME x # y PROVE FALSE
  OBVIOUS
<1>1. IsFiniteSet({x}) /\ Cardinality({x}) = 1
  BY FS_Singleton
<1>2. Cardinality({x} \cup {y}) = 2
  BY <1>1, FS_AddElement
<1>3. {x} \cup {y} \in SUBSET S
  OBVIOUS
<1>4. Cardinality({x} \cup {y}) <= Cardinality(S)
  BY <1>3, FS_Subset
<1>5. Cardinality(S) \in Nat
  BY FS_CardinalityType
<1>6. QED
  BY <1>2, <1>4, <1>5

LEMMA WellPlaced ==
    ASSUME NEW text \in Text, NEW s \in Piece, s.kind = "summary", WellFormed(text), Filled(text, s),
           Count(BEGIN, text, Len(text)) <= 1
    PROVE  Placed(text)
<1> DEFINE n == Len(text)
<1>1. n \in Nat
  BY DEF Text
<1>2. Count(BEGIN, text, n) = Count(END, text, n) /\ Count(BEGIN, text, n) <= 1
  BY DEF WellFormed
<1>3. \A i \in 1..n : text[i] = BEGIN => i + 2 \in 1..n /\ text[i + 1] = s /\ text[i + 2] = END
  BY DEF Filled
<1> HIDE DEF n
<1>4. CASE \A i \in 1..n : text[i] # BEGIN
  <2>1. \A i \in 1..n : text[i] # END
    BY <1>1, <1>2, <1>4, CountNone
  <2>2. QED
    BY <1>4, <2>1 DEF Placed, Mark, n
<1>5. ASSUME NEW b \in 1..n, text[b] = BEGIN PROVE Placed(text)
  <2> DEFINE A == {i \in 1..n : text[i] = BEGIN}
             B == {i \in 1..n : text[i] = END}
  <2>1. IsFiniteSet(A) /\ IsFiniteSet(B)
    BY <1>1, CountType
  <2>2. Cardinality(A) <= 1 /\ Cardinality(B) <= 1
    BY <1>2 DEF Count
  <2>3. b + 2 \in 1..n /\ text[b + 1] = s /\ text[b + 2] = END
    BY <1>3, <1>5
  <2>4. b \in A /\ b + 2 \in B
    BY <1>5, <2>3
  <2>5. (\A i \in A : i = b) /\ \A i \in B : i = b + 2
    <3> HIDE DEF A, B
    <3>1. QED
      BY <2>1, <2>2, <2>4, AtMostOne
  <2>6. BlockAt(text, b)
    BY <1>5, <2>3, <2>5 DEF BlockAt, n
  <2>7. QED
    BY <2>6 DEF Placed, n
<1>6. QED
  BY <1>4, <1>5

LEMMA PlacedSplice ==
    ASSUME NEW text \in Text, Placed(text), NEW s \in Piece, s.kind = "summary"
    PROVE  Placed(Splice(text, s))
<1>1. WellFormed(text) /\ Count(BEGIN, text, Len(text)) <= 1 /\ s \notin Mark
  BY PlacedWell, Marks
<1>2. /\ Splice(text, s) \in Text /\ WellFormed(Splice(text, s)) /\ Filled(Splice(text, s), s)
      /\ Count(BEGIN, Splice(text, s), Len(Splice(text, s))) <= 1
  BY <1>1, SpliceManages DEF Managed
<1>3. QED
  BY <1>2, WellPlaced

LEMMA PlacedAppend ==
    ASSUME NEW text \in Text, Placed(text), NEW n \in Note
    PROVE  Placed(Append(text, NoteOf(n)))
<1> DEFINE m == Len(text)
           x == NoteOf(n)
           new == Append(text, x)
<1>1. x \in Piece /\ x # BEGIN /\ x # END
  BY Marks DEF Mark
<1> HIDE DEF x
<1>2. m \in Nat /\ Len(new) = m + 1 /\ new[m + 1] = x /\ \A i \in 1..m : new[i] = text[i]
  BY <1>1 DEF Text
<1>3. \A i \in 1..(m + 1) : i \in 1..m \/ i = m + 1
  BY <1>2
<1> HIDE DEF new, m
<1>4. CASE \A i \in 1..m : text[i] \notin Mark
  BY <1>1, <1>2, <1>3, <1>4 DEF Placed, Mark, new, x
<1>5. ASSUME NEW b \in 1..m, BlockAt(text, b) PROVE Placed(new)
  <2>1. /\ b + 2 \in 1..m /\ text[b + 1].kind = "summary"
        /\ \A i \in 1..m : (text[i] = BEGIN <=> i = b) /\ (text[i] = END <=> i = b + 2)
    BY <1>5 DEF BlockAt, m
  <2>2. b + 1 \in 1..m /\ b + 2 \in 1..(m + 1) /\ b \in 1..(m + 1) /\ b # m + 1 /\ b + 2 # m + 1
    BY <1>2, <2>1
  <2>3. BlockAt(new, b)
    BY <1>1, <1>2, <1>3, <2>1, <2>2 DEF BlockAt
  <2>4. QED
    BY <1>2, <2>2, <2>3 DEF Placed
<1>6. QED
  BY <1>4, <1>5 DEF Placed, m, new, x

(* What the memory tool removes begins and ends between entries: of a      *)
(* block, all or nothing.                                                  *)
LEMMA PlacedCut ==
    ASSUME NEW text \in Text, Placed(text), NEW i \in 1..Len(text), StartsEntry(text, i),
           NEW j \in i..Len(text), j = Len(text) \/ StartsEntry(text, j + 1)
    PROVE  Placed(SubSeq(text, 1, i - 1) \o SubSeq(text, j + 1, Len(text)))
<1> DEFINE n == Len(text)
           w == (j - i) + 1
           a == SubSeq(text, 1, i - 1)
           c == SubSeq(text, j + 1, n)
           new == a \o c
<1>1. /\ n \in Nat /\ w \in Nat /\ w >= 1 /\ n - w \in Nat /\ i \in 1..n /\ j \in 1..n
      /\ j = (i + w) - 1
  BY DEF Text
<1>2. /\ a \in Text /\ Len(a) = i - 1 /\ \A m \in 1..(i - 1) : a[m] = text[m]
      /\ c \in Text /\ Len(c) = n - j /\ \A m \in 1..(n - j) : c[m] = text[j + m]
  BY <1>1 DEF Text
<1> HIDE DEF a, c
<1>3. /\ new \in Text /\ Len(new) = Len(a) + Len(c)
      /\ \A m \in 1..(Len(a) + Len(c)) : new[m] = IF m <= Len(a) THEN a[m] ELSE c[m - Len(a)]
  BY <1>2, ConcatProperties DEF Text
<1> HIDE DEF new, n, w
<1>4. Len(new) = n - w
  BY <1>1, <1>2, <1>3
<1>5. ASSUME NEW m \in 1..(n - w)
      PROVE  /\ m < i => m \in 1..n /\ new[m] = text[m]
             /\ m >= i => m + w \in 1..n /\ m + w > j /\ new[m] = text[m + w]
  <2>1. m \in 1..(Len(a) + Len(c))
    BY <1>1, <1>2
  <2>2. CASE m < i
    <3>1. m <= Len(a) /\ m \in 1..(i - 1) /\ m \in 1..n
      BY <1>1, <1>2, <2>2
    <3>2. QED
      BY <1>2, <1>3, <2>1, <2>2, <3>1
  <2>3. CASE m >= i
    <3>1. ~(m <= Len(a)) /\ m - Len(a) \in 1..(n - j) /\ j + (m - Len(a)) = m + w
            /\ m + w \in 1..n /\ m + w > j
      BY <1>1, <1>2, <2>3
    <3>2. QED
      BY <1>2, <1>3, <2>1, <2>3, <3>1
  <2>4. QED
    BY <1>1, <2>2, <2>3
<1>6. CASE \A m \in 1..n : text[m] \notin Mark
  <2>1. ASSUME NEW m \in 1..(n - w) PROVE new[m] \notin Mark
    <3>1. m < i \/ m >= i
      BY <1>1
    <3>2. QED
      BY <1>5, <1>6, <3>1
  <2>2. Placed(new)
    BY <1>4, <2>1 DEF Placed
  <2>3. QED
    BY <2>2 DEF new, a, c, n
<1>7. ASSUME NEW b \in 1..n, BlockAt(text, b) PROVE Placed(new)
  <2>1. /\ b + 2 \in 1..n /\ text[b + 1].kind = "summary"
        /\ \A m \in 1..n : (text[m] = BEGIN <=> m = b) /\ (text[m] = END <=> m = b + 2)
    BY <1>7 DEF BlockAt, n
  <2>2. b + 1 \in 1..n /\ text[b] = BEGIN /\ text[b + 2] = END
    BY <1>1, <2>1
  <2>3. \A m \in 1..n : m # 1 /\ StartsEntry(text, m) => m # b /\ m # b + 1 /\ m # b + 2
    <3>1. \A m \in 1..n : m # 1 /\ StartsEntry(text, m) => text[m].kind = "note"
      BY DEF StartsEntry
    <3>2. BEGIN.kind # "note" /\ END.kind # "note"
      BY DEF BEGIN, END
    <3>3. QED
      BY <2>1, <2>2, <3>1, <3>2
  <2>4. CASE b < i
    <3>1. i # 1 /\ i \in 1..n
      BY <1>1, <2>4 DEF n
    <3>2. b + 2 < i
      BY <1>1, <2>1, <2>3, <2>4, <3>1
    <3>3. b \in 1..(n - w) /\ b + 1 \in 1..(n - w) /\ b + 2 \in 1..(n - w)
      BY <1>1, <3>1, <3>2
    <3>4. new[b + 1] = text[b + 1]
      BY <1>1, <1>5, <3>2, <3>3
    <3>5. ASSUME NEW m \in 1..(n - w)
          PROVE  (new[m] = BEGIN <=> m = b) /\ (new[m] = END <=> m = b + 2)
      <4>1. CASE m < i
        BY <1>5, <2>1, <4>1
      <4>2. CASE m >= i
        <5>1. m + w \in 1..n /\ new[m] = text[m + w] /\ m + w # b /\ m + w # b + 2 /\ m # b /\ m # b + 2
          BY <1>1, <1>5, <3>2, <4>2
        <5>2. QED
          BY <2>1, <5>1
      <4>3. QED
        BY <1>1, <4>1, <4>2
    <3>6. BlockAt(new, b)
      BY <1>4, <2>1, <3>3, <3>4, <3>5 DEF BlockAt
    <3>7. QED
      BY <1>4, <3>3, <3>6 DEF Placed
  <2>5. CASE b > j
    <3> DEFINE d == b - w
    <3>1. /\ d \in 1..(n - w) /\ d + 1 \in 1..(n - w) /\ d + 2 \in 1..(n - w)
          /\ d >= i /\ d + 1 >= i /\ (d + 1) + w = b + 1 /\ d + w = b
      BY <1>1, <2>1, <2>5
    <3> HIDE DEF d
    <3>2. new[d + 1] = text[b + 1]
      BY <1>5, <3>1
    <3>3. ASSUME NEW m \in 1..(n - w)
          PROVE  (new[m] = BEGIN <=> m = d) /\ (new[m] = END <=> m = d + 2)
      <4>1. CASE m < i
        <5>1. m \in 1..n /\ new[m] = text[m] /\ m # b /\ m # b + 2 /\ m # d /\ m # d + 2
          BY <1>1, <1>5, <2>5, <3>1, <4>1
        <5>2. QED
          BY <2>1, <5>1
      <4>2. CASE m >= i
        <5>1. m + w \in 1..n /\ new[m] = text[m + w] /\ (m + w = b <=> m = d) /\ (m + w = b + 2 <=> m = d + 2)
          BY <1>1, <1>5, <3>1, <4>2
        <5>2. QED
          BY <2>1, <5>1
      <4>3. QED
        BY <1>1, <4>1, <4>2
    <3>4. BlockAt(new, d)
      BY <1>4, <2>1, <3>1, <3>2, <3>3 DEF BlockAt
    <3>5. QED
      BY <1>4, <3>1, <3>4 DEF Placed
  <2>6. CASE i <= b /\ b <= j
    <3>1. b + 2 <= j
      <4>1. CASE j = n
        BY <2>1, <4>1
      <4>2. CASE j # n
        <5>1. j + 1 \in 1..n /\ j + 1 # 1 /\ StartsEntry(text, j + 1)
          BY <1>1, <4>2 DEF n
        <5>2. j + 1 # b + 1 /\ j + 1 # b + 2
          BY <2>3, <5>1
        <5>3. QED
          BY <1>1, <2>6, <5>2
      <4>3. QED
        BY <4>1, <4>2
    <3>2. ASSUME NEW m \in 1..(n - w) PROVE new[m] \notin Mark
      <4>1. CASE m < i
        <5>1. m \in 1..n /\ new[m] = text[m] /\ m # b /\ m # b + 2
          BY <1>1, <1>5, <2>6, <4>1
        <5>2. QED
          BY <2>1, <5>1 DEF Mark
      <4>2. CASE m >= i
        <5>1. m + w \in 1..n /\ new[m] = text[m + w] /\ m + w # b /\ m + w # b + 2
          BY <1>1, <1>5, <2>6, <3>1, <4>2
        <5>2. QED
          BY <2>1, <5>1 DEF Mark
      <4>3. QED
        BY <1>1, <4>1, <4>2
    <3>3. QED
      BY <1>4, <3>2 DEF Placed
  <2>7. QED
    BY <1>1, <2>4, <2>5, <2>6
<1>8. QED
  BY <1>6, <1>7 DEF Placed, new, a, c, n

-------------------------------------------------------------------------------
(* Until a person edits USER.md, all that is read, written, backed up and  *)
(* restored has its block placed; summaries are summaries.                 *)
BlockInv ==
    /\ \A p \in Proc : loc[p].summary.kind = "summary"
    /\ edits = 0 =>
         /\ Placed(user)
         /\ \A t \in Time : \A text \in backups[t] : Placed(text)
         /\ \A p \in Proc : Placed(loc[p].text)

LEMMA PlansAreSummaries == \A s \in Plans : s.kind = "summary"
<1>1. \A by, items : Summary(by, items).kind = "summary"
  BY DEF Summary
<1>2. SUFFICES ASSUME NEW s \in Plans PROVE s.kind = "summary"
  OBVIOUS
<1>3. PICK ds, said : s \in Summaries(Preferences(ds, said))
  BY PlansAre
<1>4. PICK by, items : s = Summary(by, items)
  BY <1>3, Zenon DEF Summaries, NoSummary
<1>5. QED
  BY <1>1, <1>4

LEMMA EmptyPlaced == Placed(<<>>) /\ NoLocal.summary.kind = "summary" /\ Placed(NoLocal.text)
<1>1. Placed(<<>>)
  BY DEF Placed
<1>2. QED
  BY <1>1 DEF NoLocal, NoSummary, Summary

LEMMA BlockInit == Init => BlockInv
BY EmptyPlaced DEF Init, BlockInv

LEMMA BlockStep ==
    ASSUME TypeOK, BlockInv, [Next]_vars
    PROVE  BlockInv'
<1>0. /\ user \in Text /\ loc \in [Proc -> Local] /\ now \in Time
      /\ backups \in [Time -> SUBSET Text] /\ edits \in Nat
      /\ \A p \in Proc : loc[p] \in Local /\ loc[p].text \in Text /\ loc[p].summary \in Piece
  BY UserMindBounds DEF TypeOK, Local, Text
<1>1. CASE UNCHANGED vars
  BY <1>1 DEF BlockInv, vars
<1>2. CASE IndexTurn \/ Rebuild \/ Tick
  BY <1>2 DEF IndexTurn, Rebuild, Tick, BlockInv
<1>3. CASE MemoryAdd
  <2>1. PICK n \in Note : user' = Append(user, NoteOf(n))
    BY <1>3 DEF MemoryAdd
  <2>2. Placed(user) => Placed(user')
    BY <1>0, <2>1, PlacedAppend
  <2>3. QED
    BY <1>3, <2>2 DEF MemoryAdd, BlockInv
<1>4. CASE MemoryRemove
  <2>1. PICK i \in DOMAIN user : StartsEntry(user, i) /\ \E j \in i..Len(user) :
           /\ j = Len(user) \/ StartsEntry(user, j + 1)
           /\ user' = SubSeq(user, 1, i - 1) \o SubSeq(user, j + 1, Len(user))
    BY <1>4 DEF MemoryRemove
  <2>2. PICK j \in i..Len(user) :
           /\ j = Len(user) \/ StartsEntry(user, j + 1)
           /\ user' = SubSeq(user, 1, i - 1) \o SubSeq(user, j + 1, Len(user))
    BY <2>1
  <2>3. i \in 1..Len(user)
    BY <1>0 DEF Text
  <2>4. Placed(user) => Placed(user')
    BY <1>0, <2>1, <2>2, <2>3, PlacedCut
  <2>5. QED
    BY <1>4, <2>4 DEF MemoryRemove, BlockInv
<1>5. CASE HandEdit
  <2>1. edits' # 0 /\ UNCHANGED loc
    BY <1>0, <1>5 DEF HandEdit
  <2>2. QED
    BY <2>1 DEF BlockInv
<1>6. ASSUME NEW p \in Proc, MakePlan(p) PROVE BlockInv'
  <2>1. PICK s \in Plans : loc' = [loc EXCEPT ![p].summary = s]
    BY <1>6 DEF MakePlan
  <2>2. \A q \in Proc : loc'[q].text = loc[q].text /\ loc'[q].summary.kind = "summary"
    BY <1>0, <2>1, PlansAreSummaries DEF BlockInv, Local
  <2>3. QED
    BY <1>6, <2>2 DEF MakePlan, BlockInv
<1>7. ASSUME NEW p \in Proc, Read(p) PROVE BlockInv'
  <2>1. \A q \in Proc : /\ loc'[q].summary = loc[q].summary
                        /\ loc'[q].text = IF q = p THEN user ELSE loc[q].text
    BY <1>0, <1>7 DEF Read, Local
  <2>2. QED
    BY <1>7, <2>1 DEF Read, BlockInv
<1>8. ASSUME NEW p \in Proc, Backup(p) PROVE BlockInv'
  <2>1. \A q \in Proc : loc'[q].summary = loc[q].summary /\ loc'[q].text = loc[q].text
    BY <1>0, <1>8 DEF Backup, Local
  <2>2. \A t \in Time : \A text \in backups'[t] : text \in backups[t] \/ text = loc[p].text
    BY <1>0, <1>8 DEF Backup
  <2>3. QED
    BY <1>8, <2>1, <2>2 DEF Backup, BlockInv
<1>9. ASSUME NEW p \in Proc, Restore(p) PROVE BlockInv'
  <2>1. PICK t \in Time : \E text \in backups[t] : loc' = [loc EXCEPT ![p].text = text]
    BY <1>9 DEF Restore
  <2>2. PICK text \in backups[t] : loc' = [loc EXCEPT ![p].text = text]
    BY <2>1
  <2>3. \A q \in Proc : /\ loc'[q].summary = loc[q].summary
                        /\ loc'[q].text = IF q = p THEN text ELSE loc[q].text
    BY <1>0, <2>2 DEF Local
  <2>4. QED
    BY <1>9, <2>3 DEF Restore, BlockInv
<1>10. ASSUME NEW p \in Proc, Replace(p) \/ RestoreReplace(p) \/ Stop(p) PROVE BlockInv'
  <2>1. loc' = [loc EXCEPT ![p] = NoLocal] /\ edits' = edits
    BY <1>10 DEF Replace, RestoreReplace, Stop, Return
  <2>2. \A q \in Proc : loc'[q] = IF q = p THEN NoLocal ELSE loc[q]
    BY <1>0, <2>1
  <2>3. /\ \A q \in Proc : loc'[q].summary.kind = "summary"
        /\ edits = 0 => \A q \in Proc : Placed(loc'[q].text)
    BY <2>2, EmptyPlaced DEF BlockInv
  <2>4. CASE Replace(p)
    <3>1. edits = 0 => Placed(Splice(loc[p].text, loc[p].summary))
      BY <1>0, PlacedSplice DEF BlockInv
    <3>2. QED
      BY <2>1, <2>3, <2>4, <3>1 DEF Replace, BlockInv
  <2>5. CASE RestoreReplace(p)
    BY <2>1, <2>3, <2>5 DEF RestoreReplace, BlockInv
  <2>6. CASE Stop(p)
    <3>1. \A t \in Time : \A text \in backups'[t] : text \in backups[t] \/ text = <<>>
      BY <1>0, <2>6 DEF Stop
    <3>2. user' = user
      BY <2>6 DEF Stop
    <3>3. QED
      BY <2>1, <2>3, <3>1, <3>2, EmptyPlaced DEF BlockInv
  <2>7. QED
    BY <1>10, <2>4, <2>5, <2>6
<1>11. QED
  BY <1>1, <1>2, <1>3, <1>4, <1>5, <1>6, <1>7, <1>8, <1>9, <1>10 DEF Next

(* The managed block (BlockManaged): for any notes, runs, kills, restores, *)
(* preferences and processes.                                              *)
THEOREM BlockManagedAlways == Spec => []BlockManaged
<1>1. TypeOK /\ BlockInv => BlockManaged
  <2> SUFFICES ASSUME TypeOK, BlockInv PROVE BlockManaged
    OBVIOUS
  <2>1. user \in Text /\ docs \in Docs /\ mirror \in Seq(Note)
    BY DEF TypeOK, Text, Docs, TurnAt
  <2>2. edits = 0 => WellFormed(user) /\ Count(BEGIN, user, Len(user)) <= 1
    BY <2>1, PlacedWell DEF BlockInv
  <2>3. \A s \in Plans : s \in Piece /\ s \notin Mark
    BY <2>1, PlanTypes, PlansAreSummaries, Marks
  <2>4. WellFormed(user) => \A s \in Plans : Managed(user, s)
    BY <2>1, <2>3, SpliceManages
  <2>5. QED
    BY <2>2, <2>4, Zenon DEF BlockManaged, Managed
<1>2. QED
  BY <1>1, TypeInit, TypeStep, BlockInit, BlockStep, PTL DEF Spec
===============================================================================
