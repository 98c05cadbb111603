----------------------------- MODULE RefineProofs -----------------------------
(***************************************************************************)
(* For any bodies, lengths and codes, any number of processes, any edits   *)
(* of the memory tool, refines, kills and restores: what the planner makes *)
(* of a text loses no body and is no longer than it, what apply and        *)
(* restore do keeps every entry, and every pointer an answer, with the     *)
(* exceptions that the properties name, and a refine that is skipped would *)
(* have extracted no inline code.                                          *)
(***************************************************************************)
EXTENDS Refine, FiniteSetTheorems, SequenceTheorems, WellFoundedInduction, TLAPS

-------------------------------------------------------------------------------
(* Induction on the natural numbers, stated for a set.                     *)
LEMMA NatsIn ==
    ASSUME NEW S, 0 \in S, \A n \in Nat : n \in S => n + 1 \in S
    PROVE  Nat \subseteq S
<1> SUFFICES ASSUME Nat \ S # {} PROVE FALSE
  OBVIOUS
<1>1. PICK x \in Nat \ S : \A y \in Nat \ S : ~(<<y, x>> \in OpToRel(<, Nat))
  BY NatLessThanWellFounded, WFMin
<1>2. x \in Nat /\ x \notin S /\ x # 0
  BY <1>1, Zenon
<1>3. x - 1 \in Nat /\ x - 1 < x /\ (x - 1) + 1 = x
  BY <1>2
<1>4. <<x - 1, x>> \in OpToRel(<, Nat)
  BY <1>2, <1>3, Zenon DEF OpToRel
<1>5. x - 1 \in S
  BY <1>1, <1>3, <1>4, Zenon
<1>6. QED
  BY <1>2, <1>3, <1>5

(* Flattening: the recursive function of its definition exists, and gives  *)
(* sequences over the same set.                                            *)
Joins(seqs, m, f) == f = [i \in 1..m |-> IF i = 1 THEN seqs[i] ELSE f[i - 1] \o seqs[i]]

LEMMA JoinsExists ==
    ASSUME NEW seqs, NEW n \in Nat
    PROVE  \E f : Joins(seqs, n, f)
<1> DEFINE S == {m \in Nat : \E f : Joins(seqs, m, f)}
<1>1. 0 \in S
  <2>1. Joins(seqs, 0, [i \in 1..0 |-> <<>>])
    BY DEF Joins
  <2>2. QED
    BY <2>1
<1>2. ASSUME NEW m \in Nat, m \in S PROVE m + 1 \in S
  <2>1. PICK f : Joins(seqs, m, f)
    BY <1>2
  <2> DEFINE g == [i \in 1..(m + 1) |->
                     IF i # m + 1 THEN f[i]
                     ELSE IF i = 1 THEN seqs[i] ELSE f[m] \o seqs[i]]
  <2>2. \A i \in 1..(m + 1) : g[i] = IF i = 1 THEN seqs[i] ELSE g[i - 1] \o seqs[i]
    <3> SUFFICES ASSUME NEW i \in 1..(m + 1)
                 PROVE  g[i] = IF i = 1 THEN seqs[i] ELSE g[i - 1] \o seqs[i]
      OBVIOUS
    <3>1. CASE i = m + 1
      <4>1. i # 1 => i - 1 = m /\ m \in 1..(m + 1) /\ m # m + 1
        BY <3>1
      <4>2. i # 1 => g[i - 1] = f[m]
        BY <4>1
      <4>3. QED
        BY <3>1, <4>2
    <3>2. CASE i # m + 1
      <4>1. i \in 1..m /\ g[i] = f[i] /\ (i # 1 => g[i - 1] = f[i - 1])
        BY <3>2
      <4>2. f[i] = IF i = 1 THEN seqs[i] ELSE f[i - 1] \o seqs[i]
        BY <2>1, <4>1 DEF Joins
      <4>3. QED
        BY <4>1, <4>2
    <3>3. QED
      BY <3>1, <3>2
  <2>3. Joins(seqs, m + 1, g)
    BY <2>2 DEF Joins
  <2> HIDE DEF g
  <2>4. QED
    BY <2>3
<1> HIDE DEF S
<1>3. Nat \subseteq S
  BY <1>1, <1>2, NatsIn
<1>4. QED
  BY <1>3 DEF S

(* The flattened prefixes, one after the other.                            *)
JoinedTo(seqs, T, F) ==
    /\ F \in [0..Len(seqs) -> Seq(T)]
    /\ F[0] = <<>>
    /\ \A i \in 1..Len(seqs) : F[i] = F[i - 1] \o seqs[i]
    /\ FlattenSeq(seqs) = F[Len(seqs)]

LEMMA FlattenPrefixes ==
    ASSUME NEW T, NEW seqs \in Seq(Seq(T))
    PROVE  \E F : JoinedTo(seqs, T, F)
<1>1. CASE seqs = <<>>
  <2> DEFINE F == [k \in 0..0 |-> <<>>]
  <2>1. JoinedTo(seqs, T, F)
    BY <1>1 DEF FlattenSeq, JoinedTo
  <2> HIDE DEF F
  <2>2. QED
    BY <2>1
<1>2. CASE seqs # <<>>
  <2> DEFINE J == CHOOSE f : f = [i \in 1..Len(seqs) |->
                                    IF i = 1 THEN seqs[i] ELSE f[i - 1] \o seqs[i]]
  <2>1. Len(seqs) \in Nat \ {0}
    BY <1>2
  <2>2. FlattenSeq(seqs) = J[Len(seqs)]
    BY <2>1, Zenon DEF FlattenSeq
  <2>3. Joins(seqs, Len(seqs), J)
    <3>1. \E f : f = [i \in 1..Len(seqs) |-> IF i = 1 THEN seqs[i] ELSE f[i - 1] \o seqs[i]]
      BY <2>1, JoinsExists, Zenon DEF Joins
    <3>2. QED
      BY <3>1, Zenon DEF Joins
  <2> HIDE DEF J
  <2>4. \A i \in 1..Len(seqs) : J[i] = IF i = 1 THEN seqs[i] ELSE J[i - 1] \o seqs[i]
    BY <2>3, Zenon DEF Joins
  <2> DEFINE S == {n \in Nat : n \in 1..Len(seqs) => J[n] \in Seq(T)}
  <2>5. 0 \in S
    OBVIOUS
  <2>6. ASSUME NEW n \in Nat, n \in S PROVE n + 1 \in S
    <3> SUFFICES ASSUME n + 1 \in 1..Len(seqs) PROVE J[n + 1] \in Seq(T)
      OBVIOUS
    <3>1. seqs[n + 1] \in Seq(T)
      OBVIOUS
    <3>2. CASE n = 0
      BY <2>4, <3>1, <3>2
    <3>3. CASE n # 0
      <4>1. J[n] \in Seq(T) /\ (n + 1) - 1 = n /\ n + 1 # 1
        BY <2>6, <3>3
      <4>2. J[n + 1] = J[n] \o seqs[n + 1]
        BY <2>4, <4>1
      <4>3. QED
        BY <3>1, <4>1, <4>2
    <3>4. QED
      BY <3>2, <3>3
  <2> HIDE DEF S
  <2>7. Nat \subseteq S
    BY <2>5, <2>6, NatsIn
  <2>8. \A i \in 1..Len(seqs) : J[i] \in Seq(T)
    BY <2>7 DEF S
  <2> DEFINE F == [k \in 0..Len(seqs) |-> IF k = 0 THEN <<>> ELSE J[k]]
  <2>9. F \in [0..Len(seqs) -> Seq(T)]
    <3>1. <<>> \in Seq(T)
      OBVIOUS
    <3>2. \A k \in 0..Len(seqs) : k # 0 => k \in 1..Len(seqs)
      OBVIOUS
    <3>3. QED
      BY <2>8, <3>1, <3>2
  <2>10. ASSUME NEW i \in 1..Len(seqs) PROVE F[i] = F[i - 1] \o seqs[i]
    <3>1. i # 0 /\ i \in 0..Len(seqs) /\ i - 1 \in 0..Len(seqs) /\ seqs[i] \in Seq(T)
      BY <2>1
    <3>2. F[i] = J[i]
      BY <3>1
    <3>3. CASE i = 1
      <4>1. F[i - 1] = <<>> /\ J[i] = seqs[i]
        BY <2>4, <3>1, <3>3
      <4>2. <<>> \o seqs[i] = seqs[i]
        BY <3>1
      <4>3. QED
        BY <3>2, <4>1, <4>2, Zenon
    <3>4. CASE i # 1
      <4>1. F[i - 1] = J[i - 1]
        BY <3>1, <3>4
      <4>2. J[i] = J[i - 1] \o seqs[i]
        BY <2>4, <3>4
      <4>3. QED
        BY <3>2, <4>1, <4>2
    <3>5. QED
      BY <3>3, <3>4
  <2>11. F[0] = <<>> /\ F[Len(seqs)] = J[Len(seqs)]
    BY <2>1
  <2> HIDE DEF F
  <2>12. QED
    BY <2>2, <2>9, <2>10, <2>11 DEF JoinedTo
<1>3. QED
  BY <1>1, <1>2

LEMMA FlattenType ==
    ASSUME NEW T, NEW seqs \in Seq(Seq(T))
    PROVE  FlattenSeq(seqs) \in Seq(T)
<1>1. PICK F : JoinedTo(seqs, T, F)
  BY FlattenPrefixes
<1>2. Len(seqs) \in 0..Len(seqs)
  OBVIOUS
<1>3. QED
  BY <1>1, <1>2 DEF JoinedTo

(* What is in a part is in the whole, and the other way round.             *)
LEMMA ConcatRange ==
    ASSUME NEW T, NEW s \in Seq(T), NEW t \in Seq(T)
    PROVE  ToSet(s \o t) = ToSet(s) \cup ToSet(t)
<1>1. /\ DOMAIN s = 1..Len(s) /\ DOMAIN t = 1..Len(t) /\ Len(s) \in Nat /\ Len(t) \in Nat
      /\ DOMAIN (s \o t) = 1..(Len(s) + Len(t))
  OBVIOUS
<1>2. \A i \in 1..(Len(s) + Len(t)) :
        (s \o t)[i] = IF i <= Len(s) THEN s[i] ELSE t[i - Len(s)]
  OBVIOUS
<1>3. \A x \in ToSet(s \o t) : x \in ToSet(s) \cup ToSet(t)
  <2> SUFFICES ASSUME NEW i \in 1..(Len(s) + Len(t))
               PROVE  (s \o t)[i] \in ToSet(s) \cup ToSet(t)
    BY <1>1, Zenon DEF ToSet
  <2>1. i \in 1..Len(s) \/ (i > Len(s) /\ i - Len(s) \in 1..Len(t))
    BY <1>1
  <2>2. QED
    BY <1>1, <1>2, <2>1 DEF ToSet
<1>4. \A x \in ToSet(s) : x \in ToSet(s \o t)
  <2> SUFFICES ASSUME NEW i \in 1..Len(s) PROVE s[i] \in ToSet(s \o t)
    BY <1>1, Zenon DEF ToSet
  <2>1. i \in 1..(Len(s) + Len(t)) /\ i <= Len(s)
    BY <1>1
  <2>2. QED
    BY <1>1, <1>2, <2>1 DEF ToSet
<1>5. \A x \in ToSet(t) : x \in ToSet(s \o t)
  <2> SUFFICES ASSUME NEW i \in 1..Len(t) PROVE t[i] \in ToSet(s \o t)
    BY <1>1, Zenon DEF ToSet
  <2>1. /\ Len(s) + i \in 1..(Len(s) + Len(t)) /\ ~(Len(s) + i <= Len(s))
        /\ (Len(s) + i) - Len(s) = i
    BY <1>1
  <2>2. (s \o t)[Len(s) + i] = t[i]
    BY <1>2, <2>1
  <2>3. QED
    BY <1>1, <2>1, <2>2 DEF ToSet
<1>6. QED
  BY <1>3, <1>4, <1>5

LEMMA FlattenRange ==
    ASSUME NEW T, NEW seqs \in Seq(Seq(T)), NEW x
    PROVE  x \in ToSet(FlattenSeq(seqs)) <=> \E i \in DOMAIN seqs : x \in ToSet(seqs[i])
<1>1. PICK F : JoinedTo(seqs, T, F)
  BY FlattenPrefixes
<1>2. Len(seqs) \in Nat /\ DOMAIN seqs = 1..Len(seqs)
  OBVIOUS
<1> DEFINE S == {n \in Nat : n <= Len(seqs) =>
                   (x \in ToSet(F[n]) <=> \E i \in 1..n : x \in ToSet(seqs[i]))}
<1>3. 0 \in S
  <2>1. F[0] = <<>> /\ ToSet(<<>>) = {}
    BY <1>1 DEF JoinedTo, ToSet
  <2>2. QED
    BY <2>1
<1>4. ASSUME NEW n \in Nat, n \in S PROVE n + 1 \in S
  <2> SUFFICES ASSUME n + 1 <= Len(seqs)
               PROVE  x \in ToSet(F[n + 1]) <=> \E i \in 1..(n + 1) : x \in ToSet(seqs[i])
    OBVIOUS
  <2>1. n \in 0..Len(seqs) /\ n + 1 \in 1..Len(seqs) /\ (n + 1) - 1 = n /\ n <= Len(seqs)
    BY <1>2
  <2>2. /\ F[n + 1] = F[(n + 1) - 1] \o seqs[n + 1]
        /\ F[n] \in Seq(T) /\ seqs[n + 1] \in Seq(T)
    <3>1. F[n + 1] = F[(n + 1) - 1] \o seqs[n + 1]
      BY <1>1, <2>1, Zenon DEF JoinedTo
    <3>2. F[n] \in Seq(T)
      BY <1>1, <2>1, Zenon DEF JoinedTo
    <3>3. seqs[n + 1] \in Seq(T)
      BY <2>1
    <3>4. QED
      BY <3>1, <3>2, <3>3, Zenon
  <2>3. ToSet(F[n + 1]) = ToSet(F[n]) \cup ToSet(seqs[n + 1])
    <3>1. F[n + 1] = F[n] \o seqs[n + 1]
      BY <2>1, <2>2, Zenon
    <3>2. F[n] \in Seq(T) /\ seqs[n + 1] \in Seq(T)
      BY <2>2, Zenon
    <3>3. ToSet(F[n] \o seqs[n + 1]) = ToSet(F[n]) \cup ToSet(seqs[n + 1])
      BY <3>2, ConcatRange, Zenon
    <3>4. QED
      BY <3>1, <3>3, Zenon
  <2>4. x \in ToSet(F[n]) <=> \E i \in 1..n : x \in ToSet(seqs[i])
    BY <1>4, <2>1
  <2>5. 1..(n + 1) = 1..n \cup {n + 1}
    OBVIOUS
  <2>6. QED
    BY <2>3, <2>4, <2>5, Zenon
<1> HIDE DEF S
<1>5. Nat \subseteq S
  BY <1>3, <1>4, NatsIn
<1>6. x \in ToSet(F[Len(seqs)]) <=> \E i \in 1..Len(seqs) : x \in ToSet(seqs[i])
  BY <1>2, <1>5 DEF S
<1>7. QED
  BY <1>1, <1>2, <1>6 DEF JoinedTo

(* Parts of at most one element each.                                      *)
LEMMA FlattenLength ==
    ASSUME NEW T, NEW seqs \in Seq(Seq(T)), \A i \in DOMAIN seqs : Len(seqs[i]) <= 1
    PROVE  Len(FlattenSeq(seqs)) <= Len(seqs)
<1>1. PICK F : JoinedTo(seqs, T, F)
  BY FlattenPrefixes
<1>2. Len(seqs) \in Nat /\ DOMAIN seqs = 1..Len(seqs)
  OBVIOUS
<1> DEFINE S == {n \in Nat : n <= Len(seqs) => Len(F[n]) <= n}
<1>3. 0 \in S
  BY <1>1 DEF JoinedTo
<1>4. ASSUME NEW n \in Nat, n \in S PROVE n + 1 \in S
  <2> SUFFICES ASSUME n + 1 <= Len(seqs) PROVE Len(F[n + 1]) <= n + 1
    OBVIOUS
  <2>1. n \in 0..Len(seqs) /\ n + 1 \in 1..Len(seqs) /\ (n + 1) - 1 = n /\ n <= Len(seqs)
    BY <1>2
  <2>2. /\ F[n + 1] = F[(n + 1) - 1] \o seqs[n + 1]
        /\ F[n] \in Seq(T) /\ seqs[n + 1] \in Seq(T)
    <3>1. F[n + 1] = F[(n + 1) - 1] \o seqs[n + 1]
      BY <1>1, <2>1, Zenon DEF JoinedTo
    <3>2. F[n] \in Seq(T)
      BY <1>1, <2>1, Zenon DEF JoinedTo
    <3>3. seqs[n + 1] \in Seq(T)
      BY <2>1
    <3>4. QED
      BY <3>1, <3>2, <3>3, Zenon
  <2>3. Len(F[n + 1]) = Len(F[n]) + Len(seqs[n + 1])
    <3>1. F[n + 1] = F[n] \o seqs[n + 1]
      BY <2>1, <2>2, Zenon
    <3>2. Len(F[n] \o seqs[n + 1]) = Len(F[n]) + Len(seqs[n + 1])
      BY <2>2
    <3>3. QED
      BY <3>1, <3>2, Zenon
  <2>4. Len(F[n]) <= n
    BY <1>4, <2>1
  <2>5. Len(seqs[n + 1]) <= 1
    BY <1>2, <2>1, Zenon
  <2>6. Len(F[n]) \in Nat /\ Len(seqs[n + 1]) \in Nat
    BY <2>2
  <2>7. \A k, l \in Nat : k <= n /\ l <= 1 => k + l <= n + 1
    OBVIOUS
  <2>8. QED
    BY <2>3, <2>4, <2>5, <2>6, <2>7, Zenon
<1> HIDE DEF S
<1>5. Nat \subseteq S
  BY <1>3, <1>4, NatsIn
<1>6. Len(F[Len(seqs)]) <= Len(seqs)
  BY <1>2, <1>5 DEF S
<1>7. QED
  BY <1>1, <1>6 DEF JoinedTo

(* One part more.                                                         *)
LEMMA FlattenAppend ==
    ASSUME NEW T, NEW seqs \in Seq(Seq(T)), NEW x \in Seq(T)
    PROVE  FlattenSeq(Append(seqs, x)) = FlattenSeq(seqs) \o x
<1> DEFINE more == Append(seqs, x)
           n == Len(seqs)
<1>1. /\ n \in Nat /\ more \in Seq(Seq(T)) /\ Len(more) = n + 1
      /\ more[n + 1] = x /\ \A i \in 1..n : more[i] = seqs[i]
  OBVIOUS
<1>2. PICK F : JoinedTo(seqs, T, F)
  BY FlattenPrefixes
<1> HIDE DEF more
<1>3. PICK G : JoinedTo(more, T, G)
  BY <1>1, FlattenPrefixes
<1> HIDE DEF n
<1>4. /\ F[0] = <<>> /\ \A i \in 1..n : F[i] = F[i - 1] \o seqs[i]
      /\ FlattenSeq(seqs) = F[n]
  BY <1>2 DEF JoinedTo, n
<1>5. /\ G[0] = <<>> /\ \A i \in 1..(n + 1) : G[i] = G[i - 1] \o more[i]
      /\ FlattenSeq(more) = G[n + 1]
  BY <1>1, <1>3 DEF JoinedTo
<1> DEFINE S == {k \in Nat : k <= n => G[k] = F[k]}
<1>6. 0 \in S
  BY <1>4, <1>5
<1>7. ASSUME NEW k \in Nat, k \in S PROVE k + 1 \in S
  <2> SUFFICES ASSUME k + 1 <= n PROVE G[k + 1] = F[k + 1]
    OBVIOUS
  <2>1. k + 1 \in 1..n /\ k + 1 \in 1..(n + 1) /\ (k + 1) - 1 = k /\ k <= n
    BY <1>1
  <2>2. G[k] = F[k] /\ more[k + 1] = seqs[k + 1]
    BY <1>1, <1>7, <2>1
  <2>3. G[k + 1] = G[(k + 1) - 1] \o more[k + 1] /\ F[k + 1] = F[(k + 1) - 1] \o seqs[k + 1]
    BY <1>4, <1>5, <2>1, Zenon
  <2>4. QED
    BY <2>1, <2>2, <2>3
<1> HIDE DEF S
<1>8. Nat \subseteq S
  BY <1>6, <1>7, NatsIn
<1>9. G[n] = F[n]
  <2>1. n \in Nat /\ n <= n
    BY <1>1
  <2>2. n \in S
    BY <1>8, <2>1, Zenon
  <2>3. QED
    BY <2>1, <2>2, Zenon DEF S
<1>10. n + 1 \in 1..(n + 1) /\ (n + 1) - 1 = n
  BY <1>1
<1>11. G[n + 1] = G[(n + 1) - 1] \o more[n + 1]
  BY <1>5, <1>10, Zenon
<1>12. QED
  BY <1>1, <1>4, <1>5, <1>9, <1>10, <1>11 DEF more

(* A recursive function on 0..n, its steps within T, exists.               *)
Runs(f, n, base, step) == f = [k \in 0..n |-> IF k = 0 THEN base ELSE step[<<k, f[k - 1]>>]]

LEMMA RunExists ==
    ASSUME NEW T, NEW base \in T, NEW N \in Nat, NEW step,
           \A k \in 1..N, v \in T : step[<<k, v>>] \in T
    PROVE  \E f \in [0..N -> T] : Runs(f, N, base, step)
<1> DEFINE S == {n \in Nat : n <= N => \E f \in [0..n -> T] : Runs(f, n, base, step)}
<1>1. 0 \in S
  <2>1. Runs([k \in 0..0 |-> base], 0, base, step)
    BY DEF Runs
  <2>2. QED
    BY <2>1
<1>2. ASSUME NEW n \in Nat, n \in S PROVE n + 1 \in S
  <2> SUFFICES ASSUME n + 1 <= N
               PROVE  \E g \in [0..(n + 1) -> T] : Runs(g, n + 1, base, step)
    OBVIOUS
  <2>1. PICK f \in [0..n -> T] : Runs(f, n, base, step)
    BY <1>2
  <2> DEFINE last == step[<<n + 1, f[n]>>]
             g == [k \in 0..(n + 1) |-> IF k = n + 1 THEN last ELSE f[k]]
  <2>2. last \in T
    OBVIOUS
  <2> HIDE DEF last
  <2>3. g \in [0..(n + 1) -> T]
    BY <2>2
  <2>4. \A k \in 0..(n + 1) : g[k] = IF k = 0 THEN base ELSE step[<<k, g[k - 1]>>]
    <3> SUFFICES ASSUME NEW k \in 0..(n + 1)
                 PROVE  g[k] = IF k = 0 THEN base ELSE step[<<k, g[k - 1]>>]
      OBVIOUS
    <3>1. CASE k = n + 1
      <4>1. g[k] = last /\ k # 0 /\ k - 1 = n /\ n \in 0..(n + 1) /\ n # n + 1
        BY <3>1
      <4>2. g[k - 1] = f[n]
        BY <4>1
      <4>3. QED
        BY <3>1, <4>1, <4>2 DEF last
    <3>2. CASE k # n + 1
      <4>1. k \in 0..n /\ g[k] = f[k]
        BY <3>2
      <4>2. k # 0 => g[k - 1] = f[k - 1]
        BY <4>1
      <4>3. f[k] = IF k = 0 THEN base ELSE step[<<k, f[k - 1]>>]
        BY <2>1, <4>1 DEF Runs
      <4>4. QED
        BY <4>1, <4>2, <4>3
    <3>3. QED
      BY <3>1, <3>2
  <2>5. Runs(g, n + 1, base, step)
    BY <2>4 DEF Runs
  <2> HIDE DEF g
  <2>6. QED
    BY <2>3, <2>5
<1> HIDE DEF S
<1>3. N \in S
  BY <1>1, <1>2, NatsIn
<1>4. QED
  BY <1>3 DEF S

-------------------------------------------------------------------------------
(* Totals of sizes.                                                        *)
Sums(f, sizes, n) ==
    /\ f \in [0..n -> Nat]
    /\ f[0] = 0 /\ Total(sizes) = f[n]
    /\ \A k \in 1..n : f[k] = f[k - 1] + sizes[k]

LEMMA TotalRun ==
    ASSUME NEW sizes \in Seq(Nat)
    PROVE  \E f : Sums(f, sizes, Len(sizes))
<1> DEFINE n == Len(sizes)
           step == [a \in (1..n) \X Nat |-> a[2] + sizes[a[1]]]
           All(g) == g = [k \in 0..n |-> IF k = 0 THEN 0 ELSE g[k - 1] + sizes[k]]
<1>1. n \in Nat /\ 0 \in Nat /\ \A k \in 1..n : sizes[k] \in Nat
  OBVIOUS
<1>2. \A k \in 1..n, v \in Nat : step[<<k, v>>] = v + sizes[k] /\ step[<<k, v>>] \in Nat
  BY <1>1
<1> HIDE DEF step, n
<1>3. PICK f \in [0..n -> Nat] : Runs(f, n, 0, step)
  BY <1>1, <1>2, RunExists
<1>4. All(f)
  <2>1. \A k \in 0..n : f[k] = IF k = 0 THEN 0 ELSE step[<<k, f[k - 1]>>]
    BY <1>3, Zenon DEF Runs
  <2>2. \A k \in 0..n : k # 0 => k \in 1..n /\ k - 1 \in 0..n /\ f[k - 1] \in Nat
    BY <1>1
  <2>3. \A k \in 0..n : f[k] = IF k = 0 THEN 0 ELSE f[k - 1] + sizes[k]
    BY <1>2, <2>1, <2>2
  <2>4. QED
    BY <2>3
<1> DEFINE g == CHOOSE g : All(g)
<1>5. Total(sizes) = g[n]
  BY Zenon DEF Total, n
<1>6. All(g)
  BY <1>4
<1> HIDE DEF g
<1>7. g[0] = 0 /\ \A k \in 1..n : g[k] = g[k - 1] + sizes[k]
  <2>1. \A k \in 0..n : g[k] = IF k = 0 THEN 0 ELSE g[k - 1] + sizes[k]
    BY <1>6
  <2>2. QED
    BY <1>1, <2>1
<1> DEFINE S == {k \in Nat : k <= n => g[k] \in Nat}
<1>8. 0 \in S
  BY <1>1, <1>7
<1>9. ASSUME NEW k \in Nat, k \in S PROVE k + 1 \in S
  <2> SUFFICES ASSUME k + 1 <= n PROVE g[k + 1] \in Nat
    OBVIOUS
  <2>1. g[k] \in Nat /\ k + 1 \in 1..n /\ (k + 1) - 1 = k
    BY <1>1, <1>9
  <2>2. g[k + 1] = g[k] + sizes[k + 1] /\ sizes[k + 1] \in Nat
    BY <1>1, <1>7, <2>1, Zenon
  <2>3. QED
    BY <2>1, <2>2
<1> HIDE DEF S
<1>10. \A k \in 0..n : g[k] \in Nat
  <2>1. Nat \subseteq S
    BY <1>8, <1>9, NatsIn
  <2>2. QED
    BY <1>1, <2>1 DEF S
<1>11. g \in [0..n -> Nat]
  BY <1>6, <1>10
<1>12. Sums(g, sizes, n)
  BY <1>5, <1>7, <1>11, Zenon DEF Sums
<1>13. QED
  BY <1>12, Zenon DEF n

LEMMA TotalType ==
    ASSUME NEW sizes \in Seq(Nat)
    PROVE  Total(sizes) \in Nat /\ (sizes = <<>> => Total(sizes) = 0)
<1>1. PICK f : Sums(f, sizes, Len(sizes))
  BY TotalRun
<1>2. Len(sizes) \in 0..Len(sizes) /\ (sizes = <<>> => Len(sizes) = 0)
  OBVIOUS
<1>3. QED
  BY <1>1, <1>2 DEF Sums

LEMMA TotalAppend ==
    ASSUME NEW sizes \in Seq(Nat), NEW x \in Nat
    PROVE  Total(Append(sizes, x)) = Total(sizes) + x
<1> DEFINE n == Len(sizes)
           more == Append(sizes, x)
<1>1. n \in Nat /\ more \in Seq(Nat) /\ Len(more) = n + 1 /\ more[n + 1] = x
        /\ \A k \in 1..n : more[k] = sizes[k]
  OBVIOUS
<1> HIDE DEF more
<1>2. PICK f : Sums(f, sizes, n)
  BY TotalRun
<1>3. PICK g : Sums(g, more, n + 1)
  BY <1>1, TotalRun, Zenon
<1> HIDE DEF n
<1> DEFINE S == {k \in Nat : k <= n => g[k] = f[k]}
<1>4. 0 \in S
  BY <1>2, <1>3 DEF Sums
<1>5. ASSUME NEW k \in Nat, k \in S PROVE k + 1 \in S
  <2> SUFFICES ASSUME k + 1 <= n PROVE g[k + 1] = f[k + 1]
    OBVIOUS
  <2>1. g[k] = f[k] /\ k + 1 \in 1..n /\ k + 1 \in 1..(n + 1) /\ (k + 1) - 1 = k
    BY <1>1, <1>5
  <2>2. f[k + 1] = f[k] + sizes[k + 1]
    BY <1>2, <2>1 DEF Sums
  <2>3. g[k + 1] = g[k] + more[k + 1] /\ more[k + 1] = sizes[k + 1]
    BY <1>1, <1>3, <2>1 DEF Sums
  <2>4. QED
    BY <2>1, <2>2, <2>3
<1> HIDE DEF S
<1>6. g[n] = f[n]
  <2>1. n \in S
    BY <1>1, <1>4, <1>5, NatsIn
  <2>2. QED
    BY <1>1, <2>1 DEF S
<1>7. n + 1 \in 1..(n + 1) /\ (n + 1) - 1 = n
  BY <1>1
<1>8. g[n + 1] = g[n] + more[n + 1]
  BY <1>3, <1>7 DEF Sums
<1>9. QED
  BY <1>1, <1>2, <1>3, <1>6, <1>8 DEF more, Sums

LEMMA JoinedOne ==
    ASSUME NEW x \in Nat, NEW delimiter \in Nat
    PROVE  Joined(<<x>>, delimiter) = x
<1>1. <<x>> = Append(<<>>, x) /\ <<>> \in Seq(Nat) /\ Len(<<x>>) = 1 /\ <<x>> # <<>>
  OBVIOUS
<1>2. Total(<<x>>) = 0 + x
  BY <1>1, TotalAppend, TotalType
<1>3. delimiter * (1 - 1) = 0
  OBVIOUS
<1>4. QED
  BY <1>1, <1>2, <1>3 DEF Joined

(* Of two sequences of one length the sizes are compared, or added, one by *)
(* one.                                                                    *)
LEMMA TotalSum ==
    ASSUME NEW a \in Seq(Nat), NEW b \in Seq(Nat), NEW c \in Seq(Nat),
           Len(a) = Len(c), Len(b) = Len(c), \A i \in 1..Len(c) : c[i] = a[i] + b[i]
    PROVE  Total(c) = Total(a) + Total(b)
<1> DEFINE n == Len(c)
<1>1. n \in Nat /\ n \in 0..n /\ Len(a) = n /\ Len(b) = n
        /\ \A i \in 1..n : a[i] \in Nat /\ b[i] \in Nat /\ c[i] = a[i] + b[i]
  OBVIOUS
<1>2. PICK f : Sums(f, a, n)
  BY <1>1, TotalRun, Zenon
<1>3. PICK g : Sums(g, b, n)
  BY <1>1, TotalRun, Zenon
<1>4. PICK h : Sums(h, c, n)
  BY TotalRun, Zenon
<1> HIDE DEF n
<1> DEFINE S == {k \in Nat : k <= n => h[k] = f[k] + g[k]}
<1>5. 0 \in S
  BY <1>2, <1>3, <1>4 DEF Sums
<1>6. ASSUME NEW k \in Nat, k \in S PROVE k + 1 \in S
  <2> SUFFICES ASSUME k + 1 <= n PROVE h[k + 1] = f[k + 1] + g[k + 1]
    OBVIOUS
  <2>1. h[k] = f[k] + g[k] /\ k + 1 \in 1..n /\ (k + 1) - 1 = k /\ k \in 0..n
    BY <1>1, <1>6
  <2>2. f[k] \in Nat /\ g[k] \in Nat /\ a[k + 1] \in Nat /\ b[k + 1] \in Nat
          /\ c[k + 1] = a[k + 1] + b[k + 1]
    BY <1>1, <1>2, <1>3, <2>1 DEF Sums
  <2>3. f[k + 1] = f[k] + a[k + 1] /\ g[k + 1] = g[k] + b[k + 1] /\ h[k + 1] = h[k] + c[k + 1]
    BY <1>2, <1>3, <1>4, <2>1 DEF Sums
  <2>4. QED
    BY <2>1, <2>2, <2>3, SMTT(30)
<1> HIDE DEF S
<1>7. h[n] = f[n] + g[n]
  <2>1. n \in S
    BY <1>1, <1>5, <1>6, NatsIn
  <2>2. QED
    BY <1>1, <2>1 DEF S
<1>8. QED
  BY <1>2, <1>3, <1>4, <1>7 DEF Sums

LEMMA TotalLess ==
    ASSUME NEW a \in Seq(Nat), NEW b \in Seq(Nat), Len(a) = Len(b),
           \A i \in 1..Len(b) : a[i] <= b[i]
    PROVE  Total(a) <= Total(b)
<1> DEFINE d == [i \in 1..Len(b) |-> b[i] - a[i]]
<1>1. \A i \in 1..Len(b) : a[i] \in Nat /\ b[i] \in Nat /\ a[i] <= b[i]
  OBVIOUS
<1>2. d \in Seq(Nat) /\ Len(d) = Len(b)
  BY <1>1
<1>3. \A i \in 1..Len(b) : b[i] = a[i] + d[i]
  BY <1>1
<1> HIDE DEF d
<1>4. Total(b) = Total(a) + Total(d)
  BY <1>2, <1>3, TotalSum
<1>5. Total(a) \in Nat /\ Total(b) \in Nat /\ Total(d) \in Nat
  BY <1>2, TotalType
<1>6. QED
  BY <1>4, <1>5

(* All sizes but one are 0.                                                *)
LEMMA TotalOnly ==
    ASSUME NEW a \in Seq(Nat), NEW r \in 1..Len(a), \A i \in 1..Len(a) : i # r => a[i] = 0
    PROVE  Total(a) = a[r]
<1> DEFINE n == Len(a)
<1>1. n \in Nat /\ n \in 0..n /\ \A i \in 1..n : a[i] \in Nat /\ (i # r => a[i] = 0)
  OBVIOUS
<1>2. PICK f : Sums(f, a, n)
  BY TotalRun
<1>3. r \in 1..n
  OBVIOUS
<1> HIDE DEF n
<1> DEFINE S == {k \in Nat : k <= n => f[k] = IF r <= k THEN a[r] ELSE 0}
<1>4. 0 \in S
  BY <1>2, <1>3 DEF Sums
<1>5. ASSUME NEW k \in Nat, k \in S PROVE k + 1 \in S
  <2> SUFFICES ASSUME k + 1 <= n PROVE f[k + 1] = IF r <= k + 1 THEN a[r] ELSE 0
    OBVIOUS
  <2>1. k + 1 \in 1..n /\ (k + 1) - 1 = k /\ k \in 0..n /\ f[k] = IF r <= k THEN a[r] ELSE 0
    BY <1>1, <1>5
  <2>2. f[k + 1] = f[k] + a[k + 1] /\ a[r] \in Nat
    BY <1>1, <1>2, <1>3, <2>1 DEF Sums
  <2>3. CASE r = k + 1
    BY <1>3, <2>1, <2>2, <2>3
  <2>4. CASE r # k + 1
    <3>1. a[k + 1] = 0 /\ (r <= k <=> r <= k + 1)
      BY <1>1, <1>3, <2>1, <2>4
    <3>2. QED
      BY <2>1, <2>2, <3>1
  <2>5. QED
    BY <2>3, <2>4
<1> HIDE DEF S
<1>6. f[n] = IF r <= n THEN a[r] ELSE 0
  <2>1. n \in S
    BY <1>1, <1>4, <1>5, NatsIn
  <2>2. QED
    BY <1>1, <2>1 DEF S
<1>7. QED
  BY <1>2, <1>3, <1>6 DEF Sums

(* Two of the sizes at most make the total.                                *)
LEMMA TotalHasTwo ==
    ASSUME NEW a \in Seq(Nat), NEW r \in 1..Len(a), NEW q \in 1..Len(a)
    PROVE  a[r] <= Total(a) /\ (r # q => a[r] + a[q] <= Total(a))
<1> DEFINE x == [i \in 1..Len(a) |-> IF i = r THEN a[r] ELSE 0]
           y == [i \in 1..Len(a) |-> IF i = q THEN a[q] ELSE 0]
           z == [i \in 1..Len(a) |-> x[i] + y[i]]
<1>1. Len(a) \in Nat /\ \A i \in 1..Len(a) : a[i] \in Nat
  OBVIOUS
<1>2. x \in Seq(Nat) /\ Len(x) = Len(a) /\ x[r] = a[r] /\ \A i \in 1..Len(a) : i # r => x[i] = 0
  BY <1>1
<1>3. y \in Seq(Nat) /\ Len(y) = Len(a) /\ y[q] = a[q] /\ \A i \in 1..Len(a) : i # q => y[i] = 0
  BY <1>1
<1>4. \A i \in 1..Len(a) : x[i] \in Nat /\ y[i] \in Nat
  BY <1>1
<1> HIDE DEF x, y
<1>5. z \in Seq(Nat) /\ Len(z) = Len(a) /\ \A i \in 1..Len(a) : z[i] = x[i] + y[i]
  BY <1>1, <1>4
<1> HIDE DEF z
<1>6. Total(x) = a[r] /\ Total(y) = a[q]
  BY <1>2, <1>3, TotalOnly
<1>7. Total(z) = a[r] + a[q]
  BY <1>2, <1>3, <1>5, <1>6, TotalSum
<1>8. \A i \in 1..Len(a) : x[i] <= a[i]
  BY <1>1, <1>2
<1>9. Total(x) <= Total(a)
  BY <1>2, <1>8, TotalLess
<1>10. ASSUME r # q PROVE Total(z) <= Total(a)
  <2>1. \A i \in 1..Len(a) : z[i] <= a[i]
    <3> SUFFICES ASSUME NEW i \in 1..Len(a) PROVE z[i] <= a[i]
      OBVIOUS
    <3>1. z[i] = x[i] + y[i] /\ a[i] \in Nat
      BY <1>1, <1>5
    <3>2. x[i] = IF i = r THEN a[i] ELSE 0
      BY <1>2
    <3>3. y[i] = IF i = q THEN a[i] ELSE 0
      BY <1>3
    <3>4. QED
      BY <1>10, <3>1, <3>2, <3>3
  <2>2. QED
    BY <1>5, <2>1, TotalLess
<1>11. QED
  BY <1>6, <1>7, <1>9, <1>10

(* Class by class: where no class of places has a larger total in new than *)
(* in old, new has none.                                                   *)
OfClass(sizes, rep, r) == [i \in 1..Len(sizes) |-> IF rep[i] = r THEN sizes[i] ELSE 0]

LEMMA OfClassIs ==
    ASSUME NEW sizes \in Seq(Nat), NEW rep, NEW r
    PROVE  /\ OfClass(sizes, rep, r) \in Seq(Nat) /\ Len(OfClass(sizes, rep, r)) = Len(sizes)
           /\ \A i \in 1..Len(sizes) : OfClass(sizes, rep, r)[i] = IF rep[i] = r THEN sizes[i] ELSE 0
BY DEF OfClass

LEMMA TotalSwap ==
    ASSUME NEW x \in Seq(Nat), NEW y \in Seq(Nat), NEW a \in Seq(Nat), NEW b \in Seq(Nat),
           NEW rest \in Seq(Nat),
           Len(y) = Len(x), Len(a) = Len(x), Len(b) = Len(x), Len(rest) = Len(x),
           \A i \in 1..Len(x) : x[i] = rest[i] + a[i] /\ y[i] = rest[i] + b[i],
           Total(b) <= Total(a)
    PROVE  Total(y) <= Total(x)
<1>1. Total(x) = Total(rest) + Total(a)
  BY TotalSum
<1>2. Total(y) = Total(rest) + Total(b)
  <2>1. Len(rest) = Len(y) /\ Len(b) = Len(y) /\ \A i \in 1..Len(y) : y[i] = rest[i] + b[i]
    OBVIOUS
  <2>2. QED
    BY <2>1, TotalSum, Zenon
<1>3. Total(a) \in Nat /\ Total(b) \in Nat /\ Total(rest) \in Nat
  BY TotalType
<1>4. QED
  BY <1>1, <1>2, <1>3

(* The places whose class is at most m are new, the others old.            *)
Mixed(old, new, rep, m) == [i \in 1..Len(new) |-> IF rep[i] <= m THEN new[i] ELSE old[i]]

LEMMA MixedStep ==
    ASSUME NEW old \in Seq(Nat), NEW new \in Seq(Nat), Len(old) = Len(new),
           NEW rep \in [1..Len(new) -> 1..Len(new)], NEW m \in Nat,
           Total(OfClass(new, rep, m + 1)) <= Total(OfClass(old, rep, m + 1))
    PROVE  Total(Mixed(old, new, rep, m + 1)) <= Total(Mixed(old, new, rep, m))
<1> DEFINE n == Len(new)
           r == m + 1
           a == OfClass(old, rep, r)
           b == OfClass(new, rep, r)
           x == Mixed(old, new, rep, m)
           y == Mixed(old, new, rep, m + 1)
           rest == [i \in 1..n |-> IF rep[i] = r THEN 0 ELSE IF rep[i] <= m THEN new[i] ELSE old[i]]
<1>1. n \in Nat /\ Len(old) = n
      /\ \A i \in 1..n : new[i] \in Nat /\ old[i] \in Nat /\ rep[i] \in 1..n
  <2>1. n \in Nat /\ Len(old) = n
    OBVIOUS
  <2>2. \A i \in 1..n : new[i] \in Nat
    OBVIOUS
  <2>3. \A i \in 1..n : old[i] \in Nat
    BY <2>1
  <2>4. \A i \in 1..n : rep[i] \in 1..n
    OBVIOUS
  <2>5. QED
    BY <2>1, <2>2, <2>3, <2>4, Zenon
<1>2. x \in Seq(Nat) /\ Len(x) = n
      /\ \A i \in 1..n : x[i] = IF rep[i] <= m THEN new[i] ELSE old[i]
  BY <1>1 DEF Mixed
<1>3. y \in Seq(Nat) /\ Len(y) = n
      /\ \A i \in 1..n : y[i] = IF rep[i] <= m + 1 THEN new[i] ELSE old[i]
  BY <1>1 DEF Mixed
<1>4. rest \in Seq(Nat) /\ Len(rest) = n
      /\ \A i \in 1..n : rest[i] = IF rep[i] = r THEN 0 ELSE IF rep[i] <= m THEN new[i] ELSE old[i]
  BY <1>1
<1>5. a \in Seq(Nat) /\ Len(a) = n /\ \A i \in 1..n : a[i] = IF rep[i] = r THEN old[i] ELSE 0
  BY <1>1 DEF OfClass
<1>6. b \in Seq(Nat) /\ Len(b) = n /\ \A i \in 1..n : b[i] = IF rep[i] = r THEN new[i] ELSE 0
  BY <1>1 DEF OfClass
<1>7. r = m + 1 /\ Total(b) <= Total(a)
  OBVIOUS
<1> HIDE DEF n, r, a, b, x, y, rest
<1>8. \A i \in 1..n : x[i] = rest[i] + a[i] /\ y[i] = rest[i] + b[i]
  <2> SUFFICES ASSUME NEW i \in 1..n PROVE x[i] = rest[i] + a[i] /\ y[i] = rest[i] + b[i]
    OBVIOUS
  <2>1. /\ new[i] \in Nat /\ old[i] \in Nat /\ rep[i] \in Nat
        /\ x[i] = IF rep[i] <= m THEN new[i] ELSE old[i]
        /\ y[i] = IF rep[i] <= m + 1 THEN new[i] ELSE old[i]
        /\ rest[i] = IF rep[i] = r THEN 0 ELSE IF rep[i] <= m THEN new[i] ELSE old[i]
        /\ a[i] = IF rep[i] = r THEN old[i] ELSE 0
        /\ b[i] = IF rep[i] = r THEN new[i] ELSE 0
    <3>1. rep[i] \in Nat
      BY <1>1
    <3>2. QED
      BY <1>1, <1>2, <1>3, <1>4, <1>5, <1>6, <3>1, Zenon
  <2>2. QED
    BY <1>7, <2>1
<1>9. Total(y) <= Total(x)
  BY <1>2, <1>3, <1>4, <1>5, <1>6, <1>7, <1>8, TotalSwap
<1>10. QED
  BY <1>9 DEF x, y

LEMMA TotalByClass ==
    ASSUME NEW old \in Seq(Nat), NEW new \in Seq(Nat), Len(old) = Len(new),
           NEW rep \in [1..Len(new) -> 1..Len(new)],
           \A r \in 1..Len(new) : Total(OfClass(new, rep, r)) <= Total(OfClass(old, rep, r))
    PROVE  Total(new) <= Total(old)
<1> DEFINE n == Len(new)
           At(m) == Total(Mixed(old, new, rep, m))
           S == {m \in Nat : m <= n => At(m) <= Total(old)}
<1>1. n \in Nat /\ Total(old) \in Nat
  BY TotalType
<1>2. Mixed(old, new, rep, 0) = old /\ Mixed(old, new, rep, n) = new
  BY DEF Mixed
<1>3. \A m \in Nat : At(m) \in Nat
  <2> SUFFICES ASSUME NEW m \in Nat PROVE At(m) \in Nat
    OBVIOUS
  <2>1. Mixed(old, new, rep, m) \in Seq(Nat)
    BY DEF Mixed
  <2>2. QED
    BY <2>1, TotalType
<1>4. 0 \in S
  BY <1>1, <1>2
<1>5. ASSUME NEW m \in Nat, m \in S PROVE m + 1 \in S
  <2> SUFFICES ASSUME m + 1 <= n PROVE At(m + 1) <= Total(old)
    OBVIOUS
  <2>1. m + 1 \in 1..Len(new) /\ At(m) <= Total(old)
    BY <1>1, <1>5
  <2>2. At(m + 1) <= At(m)
    BY <2>1, MixedStep
  <2>3. m + 1 \in Nat
    OBVIOUS
  <2> HIDE DEF At
  <2>4. At(m) \in Nat /\ At(m + 1) \in Nat
    BY <1>3, <2>3
  <2>5. QED
    BY <1>1, <2>1, <2>2, <2>4
<1> HIDE DEF S
<1>6. n \in S
  BY <1>1, <1>4, <1>5, NatsIn
<1>7. QED
  BY <1>1, <1>2, <1>6 DEF S

-------------------------------------------------------------------------------
(* What the planner makes of a text.                                       *)
Text == {t \in Seq(Entry) : Len(t) <= MaxEntries}

(* What is known of an entry, of either of its parts.                      *)
LEMMA EntryFacts ==
    /\ \A e \in Entry : /\ e.body \in Body /\ e.kind \in {"core", "coded", "pointer"}
                        /\ e.kind # "core" => e.code \in Code
                        /\ e.kind = "core" => e.code = NoCode
    /\ \A c \in Code, b \in Body : /\ Pointer(c, b) \in Entry
                                   /\ Pointer(c, b).kind = "pointer"
                                   /\ Pointer(c, b).code = c /\ Pointer(c, b).body = b
<1>1. ASSUME NEW e \in Entry
      PROVE  /\ e.body \in Body /\ e.kind \in {"core", "coded", "pointer"}
             /\ e.kind # "core" => e.code \in Code
             /\ e.kind = "core" => e.code = NoCode
  <2>1. CASE \E b \in Body : e = Core(b)
    BY <2>1 DEF Core
  <2>2. CASE \E c \in Code, b \in Body : e = Coded(c, b)
    BY <2>2 DEF Coded
  <2>3. CASE \E c \in Code, b \in Body : e = Pointer(c, b)
    BY <2>3 DEF Pointer
  <2>4. QED
    BY <2>1, <2>2, <2>3 DEF Entry
<1>2. ASSUME NEW c \in Code, NEW b \in Body
      PROVE  /\ Pointer(c, b) \in Entry
             /\ Pointer(c, b).kind = "pointer"
             /\ Pointer(c, b).code = c /\ Pointer(c, b).body = b
  <2>1. Pointer(c, b) \in Entry
    BY DEF Entry
  <2>2. QED
    BY <2>1 DEF Pointer
<1>3. QED
  BY <1>1, <1>2

LEMMA TextFacts ==
    ASSUME NEW text \in Text
    PROVE  /\ text \in Seq(Entry) /\ Len(text) \in Nat /\ Len(text) <= MaxEntries
           /\ DOMAIN text = 1..Len(text)
           /\ \A i \in 1..Len(text) : text[i] \in Entry
BY DEF Text

-------------------------------------------------------------------------------
(* _gen_code                                                               *)

(* The codes of a text are no more than its entries.                       *)
LEMMA CodesFinite ==
    ASSUME NEW text \in Text
    PROVE  LET used == CodesOf("coded", text) \cup CodesOf("pointer", text)
           IN  IsFiniteSet(used) /\ Cardinality(used) <= Len(text)
<1> DEFINE used == CodesOf("coded", text) \cup CodesOf("pointer", text)
           all  == {text[i].code : i \in 1..Len(text)}
<1>1. Len(text) \in Nat /\ DOMAIN text = 1..Len(text)
  BY TextFacts
<1>2. IsFiniteSet(1..Len(text)) /\ Cardinality(1..Len(text)) = Len(text)
  <2>1. 0 \in Int /\ 1 \in Int /\ Len(text) \in Int /\ (Len(text) - 1) + 1 = Len(text)
    BY <1>1
  <2>2. /\ IsFiniteSet(1..Len(text))
        /\ Cardinality(1..Len(text)) = IF 1 > Len(text) THEN 0 ELSE Len(text) - 1 + 1
    BY <2>1, FS_Interval
  <2>3. QED
    BY <1>1, <2>2
<1>3. IsFiniteSet(all) /\ Cardinality(all) <= Len(text)
  <2> DEFINE f == [i \in 1..Len(text) |-> text[i].code]
  <2>1. all = {f[i] : i \in 1..Len(text)}
    OBVIOUS
  <2>2. f \in Surjection(1..Len(text), all)
    BY DEF Surjection
  <2> HIDE DEF f, all
  <2>3. QED
    BY <1>2, <2>2, FS_Surjection
<1>4. used \subseteq all
  BY <1>1 DEF CodesOf
<1>5. IsFiniteSet(used) /\ Cardinality(used) <= Cardinality(all)
  BY <1>3, <1>4, FS_Subset
<1>6. Cardinality(used) \in Nat /\ Cardinality(all) \in Nat
  BY <1>3, <1>5, FS_CardinalityType
<1>7. QED
  BY <1>1, <1>3, <1>5, <1>6

(* The code that is generated is a suffixed base, and not in use.          *)
LEMMA GenCodeFresh ==
    ASSUME NEW b, NEW used, IsFiniteSet(used)
    PROVE  \E k \in 1..(Cardinality(used) + 1) :
               GenCode(b, used) = <<Base[b], k>> /\ <<Base[b], k>> \notin used
<1> DEFINE n == Cardinality(used)
           fresh == {k \in 1..(n + 1) : <<Base[b], k>> \notin used}
<1>1. n \in Nat
  BY FS_CardinalityType
<1>2. fresh # {}
  <2> SUFFICES ASSUME fresh = {} PROVE FALSE
    OBVIOUS
  <2> DEFINE f == [k \in 1..(n + 1) |-> <<Base[b], k>>]
  <2>1. f \in [1..(n + 1) -> used]
    OBVIOUS
  <2>2. \A x, y \in 1..(n + 1) : x # y => f[x] # f[y]
    OBVIOUS
  <2> HIDE DEF f
  <2>3. IsFiniteSet(1..(n + 1)) /\ Cardinality(1..(n + 1)) = n + 1
    <3>1. 1 \in Int /\ n + 1 \in Int /\ ~(1 > n + 1) /\ (n + 1) - 1 + 1 = n + 1
      BY <1>1
    <3>2. QED
      BY <3>1, FS_Interval
  <2>4. Cardinality(used) < Cardinality(1..(n + 1))
    BY <1>1, <2>3
  <2>5. \E x, y \in 1..(n + 1) : x # y /\ f[x] = f[y]
    <3> DEFINE suffixes == 1..(n + 1)
    <3>1. f \in [suffixes -> used] /\ IsFiniteSet(suffixes) /\ Cardinality(used) < Cardinality(suffixes)
      BY <2>1, <2>3, <2>4
    <3> HIDE DEF suffixes
    <3>2. \E x, y \in suffixes : x # y /\ f[x] = f[y]
      BY <3>1, FS_PigeonHole
    <3>3. QED
      BY <3>2 DEF suffixes
  <2>6. QED
    BY <2>2, <2>5
<1>3. PICK k \in fresh : \A j \in fresh : ~(<<j, k>> \in OpToRel(<, Nat))
  <2>1. fresh \subseteq Nat
    BY <1>1
  <2> HIDE DEF fresh
  <2>2. QED
    BY <1>2, <2>1, NatLessThanWellFounded, WFMin
<1>4. k \in 1..(n + 1) /\ <<Base[b], k>> \notin used
  OBVIOUS
<1>5. \A j \in 1..(k - 1) : <<Base[b], j>> \in used
  <2> SUFFICES ASSUME NEW j \in 1..(k - 1), <<Base[b], j>> \notin used PROVE FALSE
    OBVIOUS
  <2>1. j \in fresh /\ j \in Nat /\ k \in Nat /\ j < k
    BY <1>1, <1>4
  <2>2. <<j, k>> \in OpToRel(<, Nat)
    BY <2>1, Zenon DEF OpToRel
  <2>3. QED
    BY <1>3, <2>1, <2>2, Zenon
<1> DEFINE First(c) == c \notin used /\ \A j \in 1..(c[2] - 1) : <<Base[b], j>> \in used
           D == {<<Base[b], m>> : m \in 1..(n + 1)}
<1>6. First(<<Base[b], k>>) /\ <<Base[b], k>> \in D
  BY <1>4, <1>5
<1>7. GenCode(b, used) = CHOOSE c \in D : First(c)
  BY Zenon DEF GenCode
<1> HIDE DEF First
<1>8. GenCode(b, used) \in D /\ First(GenCode(b, used))
  BY <1>6, <1>7, Zenon
<1>9. QED
  BY <1>8 DEF First

-------------------------------------------------------------------------------
(* _select_core_promotions                                                 *)

Held(text) == CodesOf("coded", text) \cup CodesOf("pointer", text)

IsCore(b, text) == \E i \in DOMAIN text : text[i].kind = "core" /\ text[i].body = b

(* What is promoted is the body of a core entry, and gets a code of its    *)
(* own, that nothing in the text has.                                      *)
Promoted(out, used, text) ==
    /\ DOMAIN out \subseteq Body
    /\ \A b \in DOMAIN out : IsCore(b, text)
    /\ \A b \in DOMAIN out : /\ out[b] \in Code
                             /\ out[b] \in used /\ out[b] \notin Held(text)
                             /\ PointerChars(out[b], b) < Chars[b]
    /\ \A a, b \in DOMAIN out : out[a] = out[b] => a = b

Accumulated(acc, k, text) ==
    /\ Promoted(acc.out, acc.used, text)
    /\ IsFiniteSet(acc.used) /\ Cardinality(acc.used) <= Len(text) + k
    /\ Held(text) \subseteq acc.used

LEMMA PromoteKeeps ==
    ASSUME NEW text \in Text, NEW k \in 1..Len(text), NEW acc, NEW most, NEW at,
           at \subseteq {i \in DOMAIN text : text[i].kind = "core"}, Accumulated(acc, k - 1, text)
    PROVE  Accumulated(PromoteAt(at, acc, most, text), k, text)
<1> DEFINE i == CHOOSE x \in at : TRUE
           b == text[i].body
           c == GenCode(b, acc.used)
           out == [x \in DOMAIN acc.out \cup {b} |-> IF x = b THEN c ELSE acc.out[x]]
           used == acc.used \cup {c}
<1>1. IsFiniteSet(acc.used) /\ Cardinality(acc.used) \in Nat
      /\ Cardinality(acc.used) <= Len(text) + (k - 1) /\ Len(text) \in Nat
      /\ Len(text) <= MaxEntries /\ k <= Len(text) /\ k \in Nat
  BY FS_CardinalityType, TextFacts DEF Accumulated
<1>2. Accumulated(acc, k, text)
  <2>1. Cardinality(acc.used) <= Len(text) + k
    BY <1>1
  <2>2. QED
    BY <2>1 DEF Accumulated
<1>3. CASE at # {} /\ PointerChars(c, b) < Chars[b]
  <2>1. i \in 1..Len(text) /\ text[i].kind = "core"
    BY <1>3, TextFacts
  <2>2. b \in Body /\ IsCore(b, text)
    BY <2>1, TextFacts, EntryFacts DEF IsCore
  <2> HIDE DEF i, b
  <2>3. PICK n \in 1..(Cardinality(acc.used) + 1) : c = <<Base[b], n>> /\ <<Base[b], n>> \notin acc.used
    BY <1>1, GenCodeFresh
  <2>4. c \notin acc.used
    BY <2>3
  <2>5. n \in 1..(2 * MaxEntries)
    BY <1>1, RefineBounds
  <2>6. c \in Code
    BY <2>2, <2>3, <2>5, CodeAssumption
  <2> HIDE DEF c
  <2>7. IsFiniteSet(used) /\ Cardinality(used) <= Len(text) + k
    <3>1. IsFiniteSet(used) /\ Cardinality(used) = Cardinality(acc.used) + 1
      BY <1>1, <2>4, FS_AddElement
    <3>2. QED
      BY <1>1, <3>1
  <2>8. Held(text) \subseteq used
    BY DEF Accumulated
  <2>9. DOMAIN out = DOMAIN acc.out \cup {b} /\ DOMAIN out \subseteq Body
    BY <2>2 DEF Accumulated, Promoted
  <2>10. c \notin Held(text)
    BY <2>4 DEF Accumulated
  <2>11. \A x \in DOMAIN out : x # b => x \in DOMAIN acc.out /\ out[x] = acc.out[x]
    BY <2>9
  <2>12. out[b] = c
    BY <2>9
  <2>13. ASSUME NEW x \in DOMAIN out
         PROVE  /\ out[x] \in Code /\ out[x] \in used /\ out[x] \notin Held(text)
                /\ PointerChars(out[x], x) < Chars[x] /\ IsCore(x, text)
    <3>1. CASE x = b
      BY <1>3, <2>2, <2>6, <2>10, <2>12, <3>1
    <3>2. CASE x # b
      BY <2>11, <3>2 DEF Accumulated, Promoted
    <3>3. QED
      BY <3>1, <3>2
  <2>14. ASSUME NEW x \in DOMAIN out, NEW y \in DOMAIN out, out[x] = out[y] PROVE x = y
    <3>1. \A z \in DOMAIN out : z # b => out[z] \in acc.used
      BY <2>11 DEF Accumulated, Promoted
    <3>2. QED
      BY <2>4, <2>11, <2>12, <2>14, <3>1 DEF Accumulated, Promoted
  <2> HIDE DEF out, used
  <2>15. Promoted(out, used, text)
    BY <2>9, <2>13, <2>14 DEF Promoted
  <2>16. Accumulated([out |-> out, used |-> used], k, text)
    BY <2>7, <2>8, <2>15 DEF Accumulated
  <2>17. PromoteAt(at, acc, most, text) \in {acc, [out |-> out, used |-> used]}
    BY <1>3, Zenon DEF PromoteAt, Promote, out, used, c, b, i
  <2>18. QED
    BY <1>2, <2>16, <2>17
<1>4. CASE ~(at # {} /\ PointerChars(c, b) < Chars[b])
  <2>1. PromoteAt(at, acc, most, text) = acc
    BY <1>4, Zenon DEF PromoteAt, Promote
  <2>2. QED
    BY <1>2, <2>1
<1>5. QED
  BY <1>3, <1>4

(* The recursive function that promotes one candidate after the other.     *)
Accs(most, candidates, text, m, f) ==
    f = [k \in 0..m |->
           IF k = 0
             THEN [out |-> <<>>, used |-> CodesOf("coded", text) \cup CodesOf("pointer", text)]
             ELSE PromoteAt(AtPlace(k, candidates, text), f[k - 1], most, text)]

LEMMA AccsExists ==
    ASSUME NEW most, NEW candidates, NEW text, NEW n \in Nat
    PROVE  \E f : Accs(most, candidates, text, n, f)
<1> DEFINE S == {m \in Nat : \E f : Accs(most, candidates, text, m, f)}
           first == [out |-> <<>>, used |-> CodesOf("coded", text) \cup CodesOf("pointer", text)]
           step(k, acc) == PromoteAt(AtPlace(k, candidates, text), acc, most, text)
<1> HIDE DEF first, step
<1>0. ASSUME NEW m, NEW f
      PROVE  Accs(most, candidates, text, m, f)
               <=> f = [k \in 0..m |-> IF k = 0 THEN first ELSE step(k, f[k - 1])]
  BY Zenon DEF Accs, first, step
<1>1. 0 \in S
  <2> DEFINE f == [k \in 0..0 |-> first]
  <2>1. f = [k \in 0..0 |-> IF k = 0 THEN first ELSE step(k, f[k - 1])]
    OBVIOUS
  <2> HIDE DEF f
  <2>2. QED
    BY <1>0, <2>1
<1>2. ASSUME NEW m \in Nat, m \in S PROVE m + 1 \in S
  <2>1. PICK f : Accs(most, candidates, text, m, f)
    BY <1>2
  <2>2. f = [k \in 0..m |-> IF k = 0 THEN first ELSE step(k, f[k - 1])]
    BY <1>0, <2>1
  <2> DEFINE g == [k \in 0..(m + 1) |-> IF k # m + 1 THEN f[k] ELSE step(m + 1, f[m])]
  <2>3. ASSUME NEW k \in 0..(m + 1) PROVE g[k] = IF k = 0 THEN first ELSE step(k, g[k - 1])
    <3>1. CASE k = m + 1
      <4>1. k # 0 /\ k - 1 = m /\ m \in 0..(m + 1) /\ m # m + 1
        BY <3>1
      <4>2. g[k - 1] = f[m] /\ g[k] = step(m + 1, f[m])
        BY <3>1, <4>1
      <4>3. QED
        BY <3>1, <4>1, <4>2
    <3>2. CASE k # m + 1
      <4>1. k \in 0..m /\ g[k] = f[k] /\ (k # 0 => g[k - 1] = f[k - 1])
        BY <3>2
      <4>2. f[k] = IF k = 0 THEN first ELSE step(k, f[k - 1])
        BY <2>2, <4>1
      <4>3. QED
        BY <4>1, <4>2
    <3>3. QED
      BY <3>1, <3>2
  <2>4. g = [k \in 0..(m + 1) |-> IF k = 0 THEN first ELSE step(k, g[k - 1])]
    BY <2>3
  <2> HIDE DEF g
  <2>5. Accs(most, candidates, text, m + 1, g)
    BY <1>0, <2>4
  <2>6. QED
    BY <2>5
<1> HIDE DEF S
<1>3. Nat \subseteq S
  BY <1>1, <1>2, NatsIn
<1>4. QED
  BY <1>3 DEF S

LEMMA PromotionsFacts ==
    ASSUME NEW text \in Text
    PROVE  \E used : Promoted(Promotions(text), used, text)
<1> SUFFICES ASSUME NEW most, NEW gate
             PROVE  \E used : Promoted(PromoteUpTo(most, Candidates(text, gate), text), used, text)
  BY DEF Promotions
<1> DEFINE cs == Candidates(text, gate)
           acc == CHOOSE f : f = [k \in 0..Len(text) |->
                    IF k = 0
                      THEN [out |-> <<>>, used |-> CodesOf("coded", text) \cup CodesOf("pointer", text)]
                      ELSE PromoteAt(AtPlace(k, cs, text), f[k - 1], most, text)]
<1>1. Len(text) \in Nat /\ DOMAIN text = 1..Len(text)
  BY TextFacts
<1>2. cs \subseteq {i \in DOMAIN text : text[i].kind = "core"}
  BY DEF Candidates
<1> HIDE DEF cs
<1>3. PromoteUpTo(most, cs, text) = acc[Len(text)].out
  BY Zenon DEF PromoteUpTo
<1>4. acc = [k \in 0..Len(text) |->
               IF k = 0
                 THEN [out |-> <<>>, used |-> CodesOf("coded", text) \cup CodesOf("pointer", text)]
                 ELSE PromoteAt(AtPlace(k, cs, text), acc[k - 1], most, text)]
  <2>1. \E f : f = [k \in 0..Len(text) |->
               IF k = 0
                 THEN [out |-> <<>>, used |-> CodesOf("coded", text) \cup CodesOf("pointer", text)]
                 ELSE PromoteAt(AtPlace(k, cs, text), f[k - 1], most, text)]
    <3>1. PICK f : Accs(most, cs, text, Len(text), f)
      BY <1>1, AccsExists
    <3>2. QED
      BY <3>1, Zenon DEF Accs
  <2>2. QED
    BY <2>1, Zenon
<1> HIDE DEF acc
<1> DEFINE S == {k \in Nat : k <= Len(text) => Accumulated(acc[k], k, text)}
<1>5. 0 \in S
  <2>1. acc[0] = [out |-> <<>>, used |-> Held(text)]
    BY <1>1, <1>4 DEF Held
  <2>2. IsFiniteSet(Held(text)) /\ Cardinality(Held(text)) <= Len(text)
    BY CodesFinite DEF Held
  <2>3. Promoted(<<>>, Held(text), text)
    BY DEF Promoted
  <2>4. Cardinality(Held(text)) <= Len(text) + 0
    BY <1>1, <2>2
  <2>5. Accumulated(acc[0], 0, text)
    BY <2>1, <2>2, <2>3, <2>4 DEF Accumulated
  <2>6. QED
    BY <2>5
<1>6. ASSUME NEW k \in Nat, k \in S PROVE k + 1 \in S
  <2> SUFFICES ASSUME k + 1 <= Len(text) PROVE Accumulated(acc[k + 1], k + 1, text)
    OBVIOUS
  <2>1. k + 1 \in 1..Len(text) /\ k + 1 \in 0..Len(text) /\ k + 1 # 0 /\ (k + 1) - 1 = k /\ k <= Len(text)
    BY <1>1
  <2>2. acc[k + 1] = PromoteAt(AtPlace(k + 1, cs, text), acc[k], most, text)
    BY <1>4, <2>1
  <2>3. AtPlace(k + 1, cs, text) \subseteq {i \in DOMAIN text : text[i].kind = "core"}
    BY <1>2 DEF AtPlace
  <2>4. Accumulated(acc[k], (k + 1) - 1, text)
    BY <1>6, <2>1
  <2>5. QED
    BY <2>1, <2>2, <2>3, <2>4, PromoteKeeps
<1> HIDE DEF S
<1>7. Len(text) \in S
  BY <1>1, <1>5, <1>6, NatsIn
<1>8. Accumulated(acc[Len(text)], Len(text), text)
  BY <1>1, <1>7 DEF S
<1>9. QED
  BY <1>3, <1>8 DEF Accumulated, cs

-------------------------------------------------------------------------------
(* plan: the bodies of the codes that are extracted                        *)

LEMMA InlineBodiesFacts ==
    ASSUME NEW text \in Text, NEW c
    PROVE  /\ InlineBodies(c, text) \in Seq(Body)
           /\ \A b : b \in ToSet(InlineBodies(c, text)) <=>
                       \E i \in DOMAIN text : /\ text[i].kind = "coded" /\ text[i].code = c
                                              /\ text[i].body = b
<1> DEFINE parts == [i \in DOMAIN text |->
                       IF text[i].kind = "coded" /\ text[i].code = c THEN <<text[i].body>> ELSE <<>>]
<1>1. Len(text) \in Nat /\ DOMAIN text = 1..Len(text) /\ \A i \in 1..Len(text) : text[i].body \in Body
  BY TextFacts, EntryFacts
<1>2. \A i \in 1..Len(text) : parts[i] \in Seq(Body)
  BY <1>1
<1>3. parts \in Seq(Seq(Body))
  <2>1. parts = [i \in 1..Len(text) |-> parts[i]]
    BY <1>1
  <2> HIDE DEF parts
  <2>2. QED
    BY <1>1, <1>2, <2>1, IsASeq
<1>4. InlineBodies(c, text) = FlattenSeq(parts)
  BY Zenon DEF InlineBodies
<1>5. DOMAIN parts = DOMAIN text
  OBVIOUS
<1>6. ASSUME NEW b, NEW i \in DOMAIN text
      PROVE  b \in ToSet(parts[i]) <=> /\ text[i].kind = "coded" /\ text[i].code = c
                                       /\ text[i].body = b
  <2>1. ToSet(<<>>) = {} /\ ToSet(<<text[i].body>>) = {text[i].body}
    BY DEF ToSet
  <2>2. CASE text[i].kind = "coded" /\ text[i].code = c
    BY <2>1, <2>2
  <2>3. CASE ~(text[i].kind = "coded" /\ text[i].code = c)
    BY <2>1, <2>3
  <2>4. QED
    BY <2>2, <2>3
<1> HIDE DEF parts
<1>7. FlattenSeq(parts) \in Seq(Body)
  BY <1>3, FlattenType
<1>8. \A b : b \in ToSet(FlattenSeq(parts)) <=> \E i \in DOMAIN text : b \in ToSet(parts[i])
  BY <1>3, <1>5, FlattenRange
<1>9. QED
  BY <1>4, <1>6, <1>7, <1>8

(* Members, first of them, and length of a sequence.                       *)
LEMMA SeqFacts ==
    ASSUME NEW T, NEW s \in Seq(T)
    PROVE  /\ ToSet(s) \subseteq T
           /\ ToSet(s) # {} => s # <<>>
           /\ s # <<>> => Head(s) \in ToSet(s)
<1>1. DOMAIN s = 1..Len(s) /\ Len(s) \in Nat
  OBVIOUS
<1>2. s # <<>> => 1 \in DOMAIN s /\ Head(s) = s[1]
  OBVIOUS
<1>3. QED
  BY <1>1, <1>2 DEF ToSet

Extracted(sections, promoted, text) ==
    /\ DOMAIN sections \subseteq Code
    /\ \A c \in DOMAIN sections : sections[c] \in Seq(Body) /\ sections[c] # <<>>
    /\ \A b \in DOMAIN promoted : promoted[b] \in DOMAIN sections /\ sections[promoted[b]] = <<b>>
    /\ \A i \in DOMAIN text :
         text[i].kind = "coded" /\ text[i].code \in DOMAIN sections =>
             text[i].body \in ToSet(sections[text[i].code])

LEMMA SectionsFacts ==
    ASSUME NEW text \in Text, NEW promoted, NEW used, Promoted(promoted, used, text)
    PROVE  Extracted(PlanOf(promoted, text).sections, promoted, text)
<1> DEFINE codes == CodesOf("coded", text) \cup {promoted[b] : b \in DOMAIN promoted}
           bodies == [c \in codes |-> Bodies(c, promoted, text)]
           sections == Sections(bodies, text)
<1>1. PlanOf(promoted, text).sections = sections
  BY DEF PlanOf, PlanWith
<1>2. ASSUME NEW b \in DOMAIN promoted
      PROVE  /\ promoted[b] \in Code /\ promoted[b] \notin Held(text)
             /\ Bodies(promoted[b], promoted, text) = <<b>>
  <2>1. promoted[b] \in Code /\ promoted[b] \notin Held(text)
    BY DEF Promoted
  <2> DEFINE from == {x \in DOMAIN promoted : promoted[x] = promoted[b]}
  <2>2. from = {b}
    BY DEF Promoted
  <2>3. Bodies(promoted[b], promoted, text) =
          IF from # {} THEN <<CHOOSE x \in from : TRUE>> ELSE InlineBodies(promoted[b], text)
    BY Zenon DEF Bodies
  <2> HIDE DEF from
  <2>4. (CHOOSE x \in from : TRUE) = b
    BY <2>2
  <2>5. QED
    BY <2>1, <2>2, <2>3, <2>4
<1>3. ASSUME NEW c \in CodesOf("coded", text)
      PROVE  Bodies(c, promoted, text) = InlineBodies(c, text)
  <2> DEFINE from == {x \in DOMAIN promoted : promoted[x] = c}
  <2>1. from = {}
    BY DEF Promoted, Held
  <2>2. Bodies(c, promoted, text) =
          IF from # {} THEN <<CHOOSE x \in from : TRUE>> ELSE InlineBodies(c, text)
    BY Zenon DEF Bodies
  <2>3. QED
    BY <2>1, <2>2
<1>4. ASSUME NEW c \in CodesOf("coded", text)
      PROVE  c \in Code /\ InlineBodies(c, text) \in Seq(Body) /\ InlineBodies(c, text) # <<>>
  <2>1. PICK i \in DOMAIN text : text[i].kind = "coded" /\ text[i].code = c
    BY DEF CodesOf
  <2>2. text[i] \in Entry
    BY TextFacts
  <2>3. c \in Code
    BY <2>1, <2>2, EntryFacts
  <2>4. text[i].body \in ToSet(InlineBodies(c, text))
    BY <2>1, InlineBodiesFacts
  <2>5. InlineBodies(c, text) \in Seq(Body)
    BY InlineBodiesFacts
  <2>6. InlineBodies(c, text) # <<>>
    BY <2>4, <2>5, SeqFacts
  <2>7. QED
    BY <2>3, <2>5, <2>6
<1>5. ASSUME NEW c \in codes
      PROVE  c \in Code /\ bodies[c] \in Seq(Body) /\ bodies[c] # <<>>
  <2>1. CASE c \in CodesOf("coded", text)
    BY <1>3, <1>4, <2>1
  <2>2. CASE \E b \in DOMAIN promoted : c = promoted[b]
    <3>1. PICK b \in DOMAIN promoted : c = promoted[b]
      BY <2>2
    <3>2. b \in Body /\ bodies[c] = <<b>> /\ c \in Code
      BY <1>2, <3>1 DEF Promoted
    <3>3. <<b>> \in Seq(Body) /\ <<b>> # <<>>
      BY <3>2
    <3>4. QED
      BY <3>2, <3>3
  <2>3. QED
    BY <2>1, <2>2
<1>6. ASSUME NEW b \in DOMAIN promoted PROVE Worth(promoted[b], <<b>>)
  <2> DEFINE sizes == [k \in DOMAIN <<b>> |-> Chars[<<b>>[k]]]
  <2>1. b \in Body /\ Chars[b] \in Nat
    BY LengthAssumption DEF Promoted
  <2>2. sizes = <<Chars[b]>> /\ Head(<<b>>) = b
    OBVIOUS
  <2>3. Worth(promoted[b], <<b>>) <=> PointerChars(promoted[b], Head(<<b>>)) < Joined(sizes, 2)
    BY Zenon DEF Worth
  <2> HIDE DEF sizes
  <2>4. Joined(sizes, 2) = Chars[b]
    BY <2>1, <2>2, JoinedOne
  <2>5. PointerChars(promoted[b], b) < Chars[b]
    BY DEF Promoted
  <2>6. QED
    BY <2>2, <2>3, <2>4, <2>5
<1>7. /\ DOMAIN sections = {d \in codes : d \in CodesOf("pointer", text) \/ Worth(d, bodies[d])}
      /\ \A c \in DOMAIN sections : sections[c] = bodies[c]
  BY DEF Sections
<1>8. \A b \in DOMAIN promoted : promoted[b] \in codes /\ bodies[promoted[b]] = <<b>>
  BY <1>2
<1>9. \A c \in CodesOf("coded", text) : bodies[c] = InlineBodies(c, text)
  BY <1>3
<1> HIDE DEF sections, bodies, codes
<1>10. ASSUME NEW i \in DOMAIN text, text[i].kind = "coded", text[i].code \in DOMAIN sections
       PROVE  text[i].body \in ToSet(sections[text[i].code])
  <2>1. text[i].code \in CodesOf("coded", text)
    BY <1>10 DEF CodesOf
  <2>2. sections[text[i].code] = InlineBodies(text[i].code, text)
    BY <1>7, <1>9, <1>10, <2>1
  <2>3. QED
    BY <1>10, <2>2, InlineBodiesFacts
<1>11. \A b \in DOMAIN promoted : promoted[b] \in DOMAIN sections /\ sections[promoted[b]] = <<b>>
  BY <1>6, <1>7, <1>8
<1>12. /\ DOMAIN sections \subseteq Code
       /\ \A c \in DOMAIN sections : sections[c] \in Seq(Body) /\ sections[c] # <<>>
  BY <1>5, <1>7
<1>13. QED
  BY <1>1, <1>10, <1>11, <1>12 DEF Extracted

-------------------------------------------------------------------------------
(* plan: the rewritten text                                                *)

LEMMA SlotFacts ==
    ASSUME NEW e \in Entry, NEW promoted, NEW sections, DOMAIN sections \subseteq Code
    PROVE  LET slot == Slot(e, promoted, DOMAIN sections)
           IN  /\ e.kind = "core" /\ e.body \in DOMAIN promoted => slot = promoted[e.body]
               /\ e.kind = "core" /\ e.body \notin DOMAIN promoted => slot = NoCode
               /\ e.kind = "pointer" => slot = e.code
               /\ e.kind = "coded" /\ e.code \in DOMAIN sections => slot = e.code
               /\ e.kind = "coded" /\ e.code \notin DOMAIN sections => slot = NoCode
<1>1. e.kind \in {"core", "coded", "pointer"} /\ (e.kind = "core" => e.code = NoCode)
  BY EntryFacts
<1>2. NoCode \notin DOMAIN sections
  BY CodeAssumption
<1>3. QED
  BY <1>1, <1>2 DEF Slot

(* What the plan puts in the place of an entry.                            *)
Placed(slot, sections, text, i) ==
    IF slot[i] # NoCode /\ \E j \in 1..(i - 1) : slot[j] = slot[i] THEN <<>>
    ELSE IF slot[i] = NoCode \/ text[i].kind = "pointer" THEN <<text[i]>>
    ELSE <<Pointer(slot[i], Head(sections[slot[i]]))>>

(* The text has no more entries than before; an entry that is not in it    *)
(* any more went to a microfile, and the pointers in it were there or show *)
(* a body that goes to the microfile.                                      *)
Rewritten(text, next, sections) ==
    /\ next \in Text
    /\ \A i \in DOMAIN text :
         text[i].kind # "pointer" =>
             \/ text[i] \in ToSet(next)
             \/ \E c \in DOMAIN sections : text[i].body \in ToSet(sections[c])
    /\ \A e \in ToSet(next) :
         e.kind = "pointer" =>
             \/ e \in ToSet(text)
             \/ e.code \in DOMAIN sections /\ e.body \in ToSet(sections[e.code])

LEMMA CondenseFacts ==
    ASSUME NEW text \in Text, NEW promoted, NEW sections, Extracted(sections, promoted, text)
    PROVE  Rewritten(text, PlanWith(promoted, sections, text).condensed, sections)
<1> DEFINE slot == [i \in DOMAIN text |-> Slot(text[i], promoted, DOMAIN sections)]
           parts == [i \in DOMAIN text |-> Placed(slot, sections, text, i)]
<1>1. /\ Len(text) \in Nat /\ Len(text) <= MaxEntries /\ DOMAIN text = 1..Len(text)
      /\ \A i \in DOMAIN text : text[i] \in Entry /\ text[i] \in ToSet(text)
  BY TextFacts DEF ToSet
<1>2. PlanWith(promoted, sections, text).condensed = FlattenSeq(parts)
  <2>1. PlanWith(promoted, sections, text).condensed = Condense(slot, sections, text)
    BY DEF PlanWith
  <2> HIDE DEF slot
  <2>2. QED
    BY <2>1, Zenon DEF Condense, Placed
<1>3. ASSUME NEW i \in DOMAIN text
      PROVE  LET e == text[i]
             IN  /\ e.kind = "core" /\ e.body \in DOMAIN promoted => slot[i] = promoted[e.body]
                 /\ e.kind = "core" /\ e.body \notin DOMAIN promoted => slot[i] = NoCode
                 /\ e.kind = "pointer" => slot[i] = e.code
                 /\ e.kind = "coded" /\ e.code \in DOMAIN sections => slot[i] = e.code
                 /\ e.kind = "coded" /\ e.code \notin DOMAIN sections => slot[i] = NoCode
  <2>1. text[i] \in Entry /\ DOMAIN sections \subseteq Code
    BY <1>1 DEF Extracted
  <2>2. slot[i] = Slot(text[i], promoted, DOMAIN sections)
    OBVIOUS
  <2> HIDE DEF slot
  <2>3. QED
    BY <2>1, <2>2, SlotFacts, Zenon
<1> HIDE DEF slot
<1>4. ASSUME NEW i \in DOMAIN text, slot[i] # NoCode, text[i].kind # "pointer"
      PROVE  /\ slot[i] \in DOMAIN sections
             /\ text[i].body \in ToSet(sections[slot[i]])
             /\ slot[i] \in Code /\ Head(sections[slot[i]]) \in Body
             /\ Head(sections[slot[i]]) \in ToSet(sections[slot[i]])
  <2>1. text[i].kind \in {"core", "coded"}
    BY <1>1, <1>4, EntryFacts
  <2>2. slot[i] \in DOMAIN sections /\ text[i].body \in ToSet(sections[slot[i]])
    <3>1. CASE text[i].kind = "core"
      <4>1. text[i].body \in DOMAIN promoted /\ slot[i] = promoted[text[i].body]
        BY <1>3, <1>4, <3>1
      <4>2. sections[slot[i]] = <<text[i].body>> /\ slot[i] \in DOMAIN sections
        BY <4>1 DEF Extracted
      <4>3. ToSet(<<text[i].body>>) = {text[i].body}
        BY DEF ToSet
      <4>4. QED
        BY <4>2, <4>3
    <3>2. CASE text[i].kind = "coded"
      <4>1. text[i].code \in DOMAIN sections /\ slot[i] = text[i].code
        BY <1>3, <1>4, <3>2
      <4>2. QED
        BY <3>2, <4>1 DEF Extracted
    <3>3. QED
      BY <2>1, <3>1, <3>2
  <2>3. slot[i] \in Code /\ sections[slot[i]] \in Seq(Body) /\ sections[slot[i]] # <<>>
    BY <2>2 DEF Extracted
  <2>4. Head(sections[slot[i]]) \in ToSet(sections[slot[i]]) /\ ToSet(sections[slot[i]]) \subseteq Body
    BY <2>3, SeqFacts
  <2>5. QED
    BY <2>2, <2>3, <2>4
<1>5. ASSUME NEW i \in DOMAIN text
      PROVE  \/ /\ parts[i] = <<>> /\ slot[i] # NoCode
             \/ /\ parts[i] = <<text[i]>>
                /\ slot[i] = NoCode \/ text[i].kind = "pointer"
             \/ /\ parts[i] = <<Pointer(slot[i], Head(sections[slot[i]]))>>
                /\ slot[i] # NoCode /\ text[i].kind # "pointer"
  BY DEF Placed
<1>6. DOMAIN parts = DOMAIN text /\ parts = [i \in 1..Len(text) |-> parts[i]]
  BY <1>1
<1> HIDE DEF parts
<1>7. ASSUME NEW i \in DOMAIN text
      PROVE  /\ parts[i] \in Seq(Entry) /\ Len(parts[i]) <= 1
             /\ \A e : e \in ToSet(parts[i]) => parts[i] = <<e>>
  <2>1. parts[i] = <<>> \/ \E e \in Entry : parts[i] = <<e>>
    <3>1. slot[i] # NoCode /\ text[i].kind # "pointer" =>
            Pointer(slot[i], Head(sections[slot[i]])) \in Entry
      BY <1>4, EntryFacts
    <3>2. QED
      BY <1>1, <1>5, <3>1
  <2>2. <<>> \in Seq(Entry) /\ Len(<<>>) <= 1 /\ ToSet(<<>>) = {}
    BY DEF ToSet
  <2>3. \A e \in Entry : <<e>> \in Seq(Entry) /\ Len(<<e>>) <= 1 /\ ToSet(<<e>>) = {e}
    BY DEF ToSet
  <2>4. QED
    BY <2>1, <2>2, <2>3
<1>8. parts \in Seq(Seq(Entry)) /\ Len(parts) = Len(text)
  BY <1>1, <1>6, <1>7, IsASeq
<1>9. FlattenSeq(parts) \in Text
  <2>1. FlattenSeq(parts) \in Seq(Entry)
    BY <1>8, FlattenType
  <2>2. Len(FlattenSeq(parts)) <= Len(text)
    BY <1>6, <1>7, <1>8, FlattenLength
  <2>3. QED
    BY <1>1, <2>1, <2>2, RefineBounds DEF Text
<1>10. \A e : e \in ToSet(FlattenSeq(parts)) <=> \E i \in DOMAIN text : e \in ToSet(parts[i])
  BY <1>6, <1>8, FlattenRange
<1>11. ASSUME NEW i \in DOMAIN text, text[i].kind # "pointer"
       PROVE  \/ text[i] \in ToSet(FlattenSeq(parts))
              \/ \E c \in DOMAIN sections : text[i].body \in ToSet(sections[c])
  <2>1. CASE slot[i] = NoCode
    <3>1. parts[i] = <<text[i]>>
      BY <1>5, <2>1
    <3>2. text[i] \in ToSet(<<text[i]>>)
      BY DEF ToSet
    <3>3. QED
      BY <1>10, <3>1, <3>2
  <2>2. CASE slot[i] # NoCode
    BY <1>4, <1>11, <2>2
  <2>3. QED
    BY <2>1, <2>2
<1>12. ASSUME NEW e \in ToSet(FlattenSeq(parts)), e.kind = "pointer"
       PROVE  \/ e \in ToSet(text)
              \/ e.code \in DOMAIN sections /\ e.body \in ToSet(sections[e.code])
  <2>1. PICK i \in DOMAIN text : e \in ToSet(parts[i])
    BY <1>10
  <2>2. parts[i] = <<e>>
    BY <1>7, <2>1
  <2>3. CASE e = text[i]
    BY <1>1, <2>3
  <2>4. CASE e # text[i]
    <3>1. /\ e = Pointer(slot[i], Head(sections[slot[i]]))
          /\ slot[i] # NoCode /\ text[i].kind # "pointer"
      <4>1. <<e>> # <<>> /\ \A x : <<e>> = <<x>> => e = x
        OBVIOUS
      <4>2. QED
        BY <1>5, <2>2, <2>4, <4>1
    <3>2. e.code = slot[i] /\ e.body = Head(sections[slot[i]])
      BY <3>1 DEF Pointer
    <3>3. QED
      BY <1>4, <3>1, <3>2
  <2>5. QED
    BY <2>3, <2>4
<1>13. QED
  BY <1>2, <1>9, <1>11, <1>12 DEF Rewritten

(* All that the invariants need to know of a plan.                         *)
LEMMA PlanFacts ==
    ASSUME NEW text \in Text
    PROVE  /\ DOMAIN Plan(text).sections \subseteq Code
           /\ \A c \in DOMAIN Plan(text).sections : Plan(text).sections[c] \in Seq(Body)
           /\ Rewritten(text, Plan(text).condensed, Plan(text).sections)
<1> DEFINE promoted == Promotions(text)
           sections == PlanOf(promoted, text).sections
<1>1. PICK used : Promoted(promoted, used, text)
  BY PromotionsFacts
<1> HIDE DEF promoted
<1>2. Extracted(sections, promoted, text)
  BY <1>1, SectionsFacts
<1>3. PlanOf(promoted, text).condensed = PlanWith(promoted, sections, text).condensed
  BY DEF PlanOf, PlanWith
<1>4. Rewritten(text, PlanOf(promoted, text).condensed, sections)
  <2> HIDE DEF sections
  <2>1. QED
    BY <1>2, <1>3, CondenseFacts
<1>5. Plan(text).condensed = PlanOf(promoted, text).condensed /\ Plan(text).sections = sections
  BY DEF Plan, promoted
<1> HIDE DEF sections
<1>6. QED
  BY <1>2, <1>4, <1>5 DEF Extracted

-------------------------------------------------------------------------------
(* _merge_microfile                                                        *)

LEMMA MergeFacts ==
    ASSUME NEW existing \in Seq(Para), NEW bodies \in Seq(Body)
    PROVE  /\ Merge(existing, bodies) \in Seq(Para)
           /\ ToSet(existing) \subseteq ToSet(Merge(existing, bodies))
           /\ \A b \in ToSet(bodies) : ToSet(Paras[b]) \subseteq ToSet(Merge(existing, bodies))
<1> DEFINE seen(k) == {<<p>> : p \in ToSet(existing)} \cup {Paras[bodies[j]] : j \in 1..(k - 1)}
           parts == [k \in DOMAIN bodies |-> IF Paras[bodies[k]] \in seen(k) THEN <<>> ELSE Paras[bodies[k]]]
<1>1. Len(bodies) \in Nat /\ DOMAIN bodies = 1..Len(bodies)
  OBVIOUS
<1>2. \A k \in DOMAIN bodies : bodies[k] \in Body /\ Paras[bodies[k]] \in Seq(Para)
  BY ParasAssumption
<1>3. Merge(existing, bodies) = existing \o FlattenSeq(parts)
  BY Zenon DEF Merge
<1>4. parts \in Seq(Seq(Para))
  <2>1. \A k \in DOMAIN bodies : parts[k] \in Seq(Para)
    BY <1>2
  <2>2. parts = [k \in 1..Len(bodies) |-> parts[k]]
    BY <1>1
  <2> HIDE DEF parts
  <2>3. QED
    BY <1>1, <2>1, <2>2, IsASeq
<1>5. DOMAIN parts = DOMAIN bodies
  OBVIOUS
<1>6. ASSUME NEW k \in DOMAIN bodies, Paras[bodies[k]] \notin seen(k)
      PROVE  parts[k] = Paras[bodies[k]]
  BY <1>6
<1> HIDE DEF parts
<1>7. FlattenSeq(parts) \in Seq(Para)
  BY <1>4, FlattenType
<1>8. /\ Merge(existing, bodies) \in Seq(Para)
      /\ ToSet(Merge(existing, bodies)) = ToSet(existing) \cup ToSet(FlattenSeq(parts))
  BY <1>3, <1>7, ConcatRange
<1> DEFINE In(k) == ToSet(Paras[bodies[k]]) \subseteq ToSet(Merge(existing, bodies))
           S == {n \in Nat : \A k \in DOMAIN bodies : k <= n => In(k)}
<1>9. 0 \in S
  BY <1>1
<1>10. ASSUME NEW n \in Nat, n \in S PROVE n + 1 \in S
  <2> SUFFICES ASSUME NEW k \in DOMAIN bodies, k = n + 1 PROVE In(k)
    <3>1. \A k \in DOMAIN bodies : k <= n + 1 => k <= n \/ k = n + 1
      BY <1>1
    <3> HIDE DEF In
    <3>2. QED
      BY <1>10, <3>1
  <2>1. CASE Paras[bodies[k]] \notin seen(k)
    <3>1. \A p \in ToSet(Paras[bodies[k]]) : p \in ToSet(FlattenSeq(parts))
      BY <1>4, <1>5, <1>6, <2>1, FlattenRange
    <3>2. QED
      BY <1>8, <3>1
  <2>2. CASE \E p \in ToSet(existing) : Paras[bodies[k]] = <<p>>
    <3>1. PICK p \in ToSet(existing) : Paras[bodies[k]] = <<p>>
      BY <2>2
    <3>2. ToSet(<<p>>) = {p}
      BY DEF ToSet
    <3>3. QED
      BY <1>8, <3>1, <3>2
  <2>3. CASE \E j \in 1..(k - 1) : Paras[bodies[k]] = Paras[bodies[j]]
    <3>1. PICK j \in 1..(k - 1) : Paras[bodies[k]] = Paras[bodies[j]]
      BY <2>3
    <3>2. j \in DOMAIN bodies /\ j <= n
      BY <1>1
    <3>3. In(j)
      <4> HIDE DEF In
      <4>1. QED
        BY <1>10, <3>2
    <3>4. QED
      BY <3>1, <3>3
  <2>4. QED
    BY <2>1, <2>2, <2>3
<1>11. ASSUME NEW k \in DOMAIN bodies PROVE In(k)
  <2> HIDE DEF In
  <2>1. Nat \subseteq S
    <3> HIDE DEF S
    <3>1. QED
      BY <1>9, <1>10, NatsIn
  <2>2. k \in S /\ k <= k
    BY <1>1, <2>1
  <2>3. QED
    BY <2>2
<1>12. ASSUME NEW b \in ToSet(bodies)
       PROVE  ToSet(Paras[b]) \subseteq ToSet(Merge(existing, bodies))
  <2>1. PICK k \in DOMAIN bodies : b = bodies[k]
    BY DEF ToSet
  <2>2. QED
    BY <1>11, <2>1
<1>13. QED
  BY <1>8, <1>12

-------------------------------------------------------------------------------
(* Type correctness                                                        *)

AtMostOne(S) == \A x, y \in S : x = y

MergedFiles == UNION {[D -> Seq(Para)] : D \in SUBSET Code}

Local == [text : Text, next : Text, merged : MergedFiles, cur : Code \cup {NoCode},
          stamp : Time, auto : BOOLEAN, bare : BOOLEAN]

Types ==
    /\ memory \in Text
    /\ micro \in [Code -> SUBSET Seq(Para)] /\ \A c \in Code : AtMostOne(micro[c])
    /\ backups \in [Time -> SUBSET Text] /\ \A t \in Time : AtMostOne(backups[t])
    /\ mfBackups \in [Time -> [Code -> SUBSET Seq(Para)]]
    /\ hash \subseteq Text /\ AtMostOne(hash)
    /\ now \in Time
    /\ pc \in [Proc -> PC]
    /\ loc \in [Proc -> Local]
    /\ \A p \in Proc : pc[p] \in {"empty", "fill"} => loc[p].cur \in DOMAIN loc[p].merged
    /\ adds \in 0..MaxAdds /\ runs \in 0..MaxRuns
    /\ owed \subseteq Body
    /\ spoiled \subseteq Misfortune

(* The longer parts of the invariants, of one process each.                *)
Covers(f, b) == ToSet(Paras[b]) \subseteq ToSet(f)

Ahead(p) == pc[p] \in {"backup", "micro", "empty", "fill"}

(* While nothing else writes MEMORY.md, a refine stands before the text it *)
(* has read, the microfile it writes is empty, and its plan takes in what  *)
(* the microfiles have, if they could be read, and all that its rewritten  *)
(* MEMORY.md leaves out and it has not written yet.                        *)
TakesIn(p) ==
    \A c \in DOMAIN loc[p].merged : \A f \in micro[c] :
        ToSet(f) \subseteq ToSet(loc[p].merged[c])

Written(p, b) == \E c \in Code \ DOMAIN loc[p].merged : \E f \in micro[c] : Covers(f, b)
Planned(p, b) == \E c \in DOMAIN loc[p].merged : Covers(loc[p].merged[c], b)

Alone ==
    "overlap" \notin spoiled =>
        /\ \A p, q \in Proc : InWindow(p) /\ InWindow(q) => p = q
        /\ \A p \in Proc : InWindow(p) => loc[p].text = memory
        /\ \A p \in Proc : pc[p] = "fill" => micro[loc[p].cur] \subseteq {<<>>}
        /\ \A p \in Proc : Ahead(p) =>
             /\ "unread" \notin spoiled => TakesIn(p)
             /\ \A b \in Body : Inline(b, memory) =>
                  Inline(b, loc[p].next) \/ Written(p, b) \/ Planned(p, b)

(* What a microfile had before it was truncated is in its backup, or in    *)
(* what is about to be written.                                            *)
Rewriting(b) == \E p \in Proc : /\ pc[p] = "fill" /\ loc[p].bare
                                /\ Covers(loc[p].merged[loc[p].cur], b)

Safe(p) ==
    \A f \in micro[loc[p].cur] :
        IF loc[p].bare THEN ToSet(f) \subseteq ToSet(loc[p].merged[loc[p].cur])
                       ELSE f \in mfBackups[loc[p].stamp][loc[p].cur]

Lossless == spoiled \cap {"overlap", "clash", "bare", "blind"} = {}

Kept ==
    Lossless =>
        /\ \A p \in Proc : pc[p] = "empty" => Safe(p)
        /\ \A b \in owed : Inline(b, memory) \/ InMicro(b) \/ InBackup(b) \/ Rewriting(b)

(* The pointers of MEMORY.md, of every backup of it and of every text a    *)
(* process has read have an answer; those of a rewritten MEMORY.md have    *)
(* one in the plan.                                                        *)
Answered(e) ==
    \/ \E f \in micro[e.code] : Covers(f, e.body)
    \/ \E p \in Proc : /\ pc[p] = "fill" /\ loc[p].cur = e.code
                       /\ Covers(loc[p].merged[e.code], e.body)

AllAnswered(text) == \A i \in DOMAIN text : text[i].kind = "pointer" => Answered(text[i])

Answers ==
    spoiled \cap {"overlap", "cut", "unread"} = {} =>
        /\ AllAnswered(memory)
        /\ \A t \in Time : \A text \in backups[t] : AllAnswered(text)
        /\ \A p \in Proc : AllAnswered(loc[p].text)
        /\ \A p \in Proc : Ahead(p) =>
             \A i \in DOMAIN loc[p].next :
                 LET e == loc[p].next[i]
                 IN  e.kind = "pointer" =>
                       \/ Answered(e)
                       \/ e.code \in DOMAIN loc[p].merged /\ Covers(loc[p].merged[e.code], e.body)

LEMMA SmallFacts ==
    /\ <<>> \in Text /\ <<>> \in Seq(Entry) /\ <<>> \in Seq(Para)
    /\ <<>> \in MergedFiles /\ NoLocal \in Local
    /\ 0 \in Time /\ \A t \in Time : t < MaxTime => t + 1 \in Time
    /\ "idle" \in PC
<1>1. <<>> \in Text /\ <<>> \in Seq(Entry) /\ <<>> \in Seq(Para)
  BY RefineBounds DEF Text
<1>2. <<>> \in MergedFiles
  <2>1. <<>> \in [{} -> Seq(Para)]
    OBVIOUS
  <2>2. QED
    BY <2>1 DEF MergedFiles
<1>3. 0 \in Time /\ \A t \in Time : t < MaxTime => t + 1 \in Time
  BY RefineBounds DEF Time
<1>4. NoLocal \in Local
  BY <1>1, <1>2, <1>3 DEF NoLocal, Local
<1>5. QED
  BY <1>1, <1>2, <1>3, <1>4 DEF PC

LEMMA MergedFilesFacts ==
    ASSUME NEW m
    PROVE  m \in MergedFiles <=> DOMAIN m \subseteq Code /\ m \in [DOMAIN m -> Seq(Para)]
BY DEF MergedFiles

(* MEMORY.md after the memory tool has added or removed an entry.          *)
LEMMA EditFacts ==
    ASSUME NEW text \in Text
    PROVE  /\ \A e \in Entry : Len(text) < MaxEntries =>
                /\ Append(text, e) \in Text
                /\ \A i \in DOMAIN Append(text, e) :
                     Append(text, e)[i] = e \/ \E j \in DOMAIN text : Append(text, e)[i] = text[j]
                /\ \A j \in DOMAIN text : \E i \in DOMAIN Append(text, e) : Append(text, e)[i] = text[j]
                /\ \E i \in DOMAIN Append(text, e) : Append(text, e)[i] = e
           /\ \A k \in DOMAIN text :
                /\ RemoveAt(text, k) \in Text
                /\ \A i \in DOMAIN RemoveAt(text, k) :
                     \E j \in DOMAIN text : RemoveAt(text, k)[i] = text[j]
                /\ \A j \in DOMAIN text \ {k} :
                     \E i \in DOMAIN RemoveAt(text, k) : RemoveAt(text, k)[i] = text[j]
<1> USE RefineBounds
<1>1. Len(text) \in Nat /\ Len(text) <= MaxEntries /\ DOMAIN text = 1..Len(text) /\ text \in Seq(Entry)
  BY TextFacts
<1>2. ASSUME NEW e \in Entry, Len(text) < MaxEntries
      PROVE  /\ Append(text, e) \in Text
             /\ \A i \in DOMAIN Append(text, e) :
                  Append(text, e)[i] = e \/ \E j \in DOMAIN text : Append(text, e)[i] = text[j]
             /\ \A j \in DOMAIN text : \E i \in DOMAIN Append(text, e) : Append(text, e)[i] = text[j]
             /\ \E i \in DOMAIN Append(text, e) : Append(text, e)[i] = e
  <2> DEFINE s == Append(text, e)
  <2>1. s \in Seq(Entry) /\ Len(s) = Len(text) + 1 /\ DOMAIN s = 1..(Len(text) + 1)
    BY <1>1
  <2>2. s[Len(text) + 1] = e /\ \A i \in 1..Len(text) : s[i] = text[i]
    BY <1>1
  <2> HIDE DEF s
  <2>3. s \in Text
    BY <1>1, <1>2, <2>1 DEF Text
  <2>4. \A i \in 1..(Len(text) + 1) : i = Len(text) + 1 \/ i \in 1..Len(text)
    BY <1>1
  <2>5. Len(text) + 1 \in 1..(Len(text) + 1) /\ \A j \in 1..Len(text) : j \in 1..(Len(text) + 1)
    BY <1>1
  <2>6. QED
    BY <1>1, <2>1, <2>2, <2>3, <2>4, <2>5 DEF s
<1>3. ASSUME NEW k \in DOMAIN text
      PROVE  /\ RemoveAt(text, k) \in Text
             /\ \A i \in DOMAIN RemoveAt(text, k) :
                  \E j \in DOMAIN text : RemoveAt(text, k)[i] = text[j]
             /\ \A j \in DOMAIN text \ {k} :
                  \E i \in DOMAIN RemoveAt(text, k) : RemoveAt(text, k)[i] = text[j]
  <2> DEFINE n == Len(text)
             a == SubSeq(text, 1, k - 1)
             b == SubSeq(text, k + 1, n)
             s == RemoveAt(text, k)
  <2>1. k \in 1..n /\ n \in Nat /\ n <= MaxEntries
    BY <1>1
  <2>2. /\ a \in Seq(Entry) /\ Len(a) = k - 1
        /\ \A i \in 1..(k - 1) : a[i] = text[i]
    BY <1>1, <2>1, SubSeqProperties
  <2>3. /\ b \in Seq(Entry) /\ Len(b) = n - k
        /\ \A i \in 1..(n - k) : b[i] = text[k + i]
    <3>1. k + 1 \in 1..(n + 1) /\ n \in k..n
      BY <2>1
    <3>2. b \in Seq(Entry) /\ Len(b) = IF k + 1 <= n THEN n - (k + 1) + 1 ELSE 0
      BY <1>1, <2>1, SubSeqProperties
    <3>3. Len(b) = n - k
      BY <2>1, <3>2
    <3>4. \A i \in 1..(n - k) : b[i] = text[(k + 1) + i - 1]
      BY <1>1, <2>1, <3>3, SubSeqProperties
    <3>5. QED
      BY <2>1, <3>2, <3>3, <3>4
  <2>4. s = a \o b
    BY DEF RemoveAt
  <2> HIDE DEF a, b, s
  <2>5. s \in Seq(Entry) /\ Len(s) = n - 1 /\ DOMAIN s = 1..(n - 1)
    BY <2>1, <2>2, <2>3, <2>4
  <2>6. \A i \in 1..(n - 1) : s[i] = IF i <= k - 1 THEN a[i] ELSE b[i - (k - 1)]
    BY <2>1, <2>2, <2>3, <2>4
  <2>7. \A i \in 1..(n - 1) : s[i] = IF i <= k - 1 THEN text[i] ELSE text[i + 1]
    <3> SUFFICES ASSUME NEW i \in 1..(n - 1)
                 PROVE  s[i] = IF i <= k - 1 THEN text[i] ELSE text[i + 1]
      OBVIOUS
    <3>1. CASE i <= k - 1
      BY <2>1, <2>2, <2>6, <3>1
    <3>2. CASE ~(i <= k - 1)
      <4>1. i - (k - 1) \in 1..(n - k) /\ k + (i - (k - 1)) = i + 1
        BY <2>1, <3>2
      <4>2. QED
        BY <2>3, <2>6, <3>2, <4>1
    <3>3. QED
      BY <3>1, <3>2
  <2>8. s \in Text
    BY <2>1, <2>5 DEF Text
  <2>9. \A i \in 1..(n - 1) : i \in 1..n /\ i + 1 \in 1..n
    BY <2>1
  <2>10. ASSUME NEW j \in DOMAIN text \ {k} PROVE \E i \in DOMAIN s : s[i] = text[j]
    <3>1. j \in 1..n /\ j # k
      BY <1>1
    <3>2. CASE j < k
      <4>1. j \in 1..(n - 1) /\ j <= k - 1
        BY <2>1, <3>1, <3>2
      <4>2. QED
        BY <2>5, <2>7, <4>1
    <3>3. CASE ~(j < k)
      <4>1. j - 1 \in 1..(n - 1) /\ ~(j - 1 <= k - 1) /\ (j - 1) + 1 = j
        BY <2>1, <3>1, <3>3
      <4>2. s[j - 1] = text[j]
        BY <2>7, <4>1
      <4>3. QED
        BY <2>5, <4>1, <4>2
    <3>4. QED
      BY <3>2, <3>3
  <2>11. QED
    BY <1>1, <2>5, <2>7, <2>8, <2>9, <2>10 DEF s
<1>4. QED
  BY <1>2, <1>3

(* What is known of a process of a well-typed state.                       *)
LEMMA LocalFacts ==
    ASSUME Types, NEW p \in Proc
    PROVE  /\ loc[p] \in Local /\ loc[p].text \in Text /\ loc[p].next \in Text
           /\ loc[p].merged \in MergedFiles /\ loc[p].cur \in Code \cup {NoCode}
           /\ loc[p].stamp \in Time /\ loc[p].auto \in BOOLEAN /\ loc[p].bare \in BOOLEAN
           /\ DOMAIN loc[p].merged \subseteq Code
           /\ \A c \in DOMAIN loc[p].merged : loc[p].merged[c] \in Seq(Para)
           /\ pc[p] \in {"empty", "fill"} => /\ loc[p].cur \in DOMAIN loc[p].merged
                                             /\ loc[p].cur \in Code
<1>1. loc[p] \in Local
  BY DEF Types
<1>2. /\ loc[p].text \in Text /\ loc[p].next \in Text
      /\ loc[p].merged \in MergedFiles /\ loc[p].cur \in Code \cup {NoCode}
      /\ loc[p].stamp \in Time /\ loc[p].auto \in BOOLEAN /\ loc[p].bare \in BOOLEAN
  BY <1>1 DEF Local
<1>3. DOMAIN loc[p].merged \subseteq Code /\ loc[p].merged \in [DOMAIN loc[p].merged -> Seq(Para)]
  BY <1>2, MergedFilesFacts
<1>4. pc[p] \in {"empty", "fill"} => loc[p].cur \in DOMAIN loc[p].merged
  BY DEF Types
<1>5. QED
  BY <1>1, <1>2, <1>3, <1>4

LEMMA TypesInit == Init => Types
<1> SUFFICES ASSUME Init PROVE Types
  OBVIOUS
<1>1. pc = [p \in Proc |-> "idle"] /\ loc = [p \in Proc |-> NoLocal]
  BY DEF Init
<1>2. pc \in [Proc -> PC] /\ loc \in [Proc -> Local]
  BY <1>1, SmallFacts
<1>3. \A p \in Proc : pc[p] = "idle"
  BY <1>1
<1>4. adds \in 0..MaxAdds /\ runs \in 0..MaxRuns
  BY RefineBounds DEF Init
<1>5. memory \in Text /\ now \in Time
  BY SmallFacts DEF Init
<1>6. micro \in [Code -> SUBSET Seq(Para)] /\ \A c \in Code : AtMostOne(micro[c])
  BY DEF Init, AtMostOne
<1>7. backups \in [Time -> SUBSET Text] /\ \A t \in Time : AtMostOne(backups[t])
  BY DEF Init, AtMostOne
<1>8. mfBackups \in [Time -> [Code -> SUBSET Seq(Para)]]
  BY DEF Init
<1>9. hash \subseteq Text /\ AtMostOne(hash) /\ owed \subseteq Body /\ spoiled \subseteq Misfortune
  BY DEF Init, AtMostOne
<1>10. QED
  BY <1>2, <1>3, <1>4, <1>5, <1>6, <1>7, <1>8, <1>9 DEF Types

(* The parts of the type invariant that the control of a process is in.    *)
Control ==
    /\ pc \in [Proc -> PC]
    /\ loc \in [Proc -> Local]
    /\ \A p \in Proc : pc[p] \in {"empty", "fill"} => loc[p].cur \in DOMAIN loc[p].merged

LEMMA ControlStep ==
    ASSUME Types, NEW p \in Proc, NEW to \in PC, NEW l \in Local,
           pc' = [pc EXCEPT ![p] = to], loc' = [loc EXCEPT ![p] = l],
           to \in {"empty", "fill"} => l.cur \in DOMAIN l.merged
    PROVE  Control'
<1>1. pc \in [Proc -> PC] /\ loc \in [Proc -> Local]
  BY DEF Types
<1>2. pc' \in [Proc -> PC] /\ loc' \in [Proc -> Local]
  BY <1>1
<1>3. pc'[p] = to /\ loc'[p] = l
  BY <1>1
<1>4. \A q \in Proc : q # p => pc'[q] = pc[q] /\ loc'[q] = loc[q]
  BY <1>1
<1>5. \A q \in Proc : pc[q] \in {"empty", "fill"} => loc[q].cur \in DOMAIN loc[q].merged
  BY DEF Types
<1>6. ASSUME NEW q \in Proc, pc'[q] \in {"empty", "fill"} PROVE loc'[q].cur \in DOMAIN loc'[q].merged
  <2>1. CASE q = p
    BY <1>3, <1>6, <2>1
  <2>2. CASE q # p
    BY <1>4, <1>5, <1>6, <2>2
  <2>3. QED
    BY <2>1, <2>2
<1>7. QED
  BY <1>2, <1>6 DEF Control

LEMMA ControlFacts == Types => Control
BY DEF Types, Control

LEMMA ControlSame ==
    ASSUME Control, UNCHANGED <<pc, loc>>
    PROVE  Control'
BY DEF Control

(* A step that only moves a process.                                       *)
LEMMA Moves ==
    ASSUME Types, NEW p \in Proc, NEW to \in PC, Goto(p, to), loc' = loc,
           to \in {"empty", "fill"} => loc[p].cur \in DOMAIN loc[p].merged
    PROVE  Control'
<1>1. loc' = [loc EXCEPT ![p] = loc[p]]
  BY DEF Types
<1>2. QED
  BY <1>1, LocalFacts, ControlStep DEF Goto

LEMMA Returns ==
    ASSUME Types, NEW p \in Proc, Return(p)
    PROVE  Control'
<1>1. "idle" \in PC /\ NoLocal \in Local
  BY SmallFacts
<1>2. QED
  BY <1>1, ControlStep DEF Return, Goto

(* A step that only changes files and counters.                            *)
Files ==
    /\ memory \in Text
    /\ micro \in [Code -> SUBSET Seq(Para)] /\ \A c \in Code : AtMostOne(micro[c])
    /\ backups \in [Time -> SUBSET Text] /\ \A t \in Time : AtMostOne(backups[t])
    /\ mfBackups \in [Time -> [Code -> SUBSET Seq(Para)]]
    /\ hash \subseteq Text /\ AtMostOne(hash)
    /\ now \in Time
    /\ adds \in 0..MaxAdds /\ runs \in 0..MaxRuns
    /\ owed \subseteq Body
    /\ spoiled \subseteq Misfortune

LEMMA TypesParts == Types <=> Control /\ Files
BY DEF Types, Control, Files

LEMMA SpoilFacts ==
    ASSUME NEW kind \in Misfortune, NEW happened, Spoil(kind, happened), spoiled \subseteq Misfortune
    PROVE  spoiled' \subseteq Misfortune
BY DEF Spoil

LEMMA ContentsFacts ==
    ASSUME NEW file, file \subseteq Seq(Para)
    PROVE  /\ Contents(file) \in Seq(Para)
           /\ AtMostOne(file) => \A f \in file : f = Contents(file)
<1>1. CASE file = {}
  BY <1>1, SmallFacts, Zenon DEF Contents
<1>2. CASE file # {}
  <2>1. Contents(file) \in file
    BY <1>2, Zenon DEF Contents
  <2>2. QED
    BY <2>1 DEF AtMostOne
<1>3. QED
  BY <1>1, <1>2

(* What a plan merges, of the microfiles it can read.                      *)
LEMMA MergedFacts ==
    ASSUME Types, NEW text \in Text, NEW unread
    PROVE  LET sections == Plan(text).sections
               merged   == Merged(sections, unread)
           IN  /\ merged \in MergedFiles /\ DOMAIN merged = DOMAIN sections
               /\ \A c \in DOMAIN merged : \A b \in ToSet(sections[c]) : Covers(merged[c], b)
               /\ \A c \in DOMAIN merged \ unread : \A f \in micro[c] :
                    ToSet(f) \subseteq ToSet(merged[c])
<1> DEFINE sections == Plan(text).sections
           merged == Merged(sections, unread)
           read(c) == IF c \in unread THEN {} ELSE micro[c]
<1>1. DOMAIN sections \subseteq Code /\ \A c \in DOMAIN sections : sections[c] \in Seq(Body)
  BY PlanFacts
<1> HIDE DEF sections
<1>2. merged = [c \in DOMAIN sections |-> Merge(Contents(read(c)), sections[c])]
  BY DEF Merged
<1> HIDE DEF merged
<1>3. ASSUME NEW c \in DOMAIN sections
      PROVE  /\ merged[c] \in Seq(Para)
             /\ \A b \in ToSet(sections[c]) : Covers(merged[c], b)
             /\ c \notin unread => \A f \in micro[c] : ToSet(f) \subseteq ToSet(merged[c])
  <2>1. c \in Code /\ sections[c] \in Seq(Body) /\ merged[c] = Merge(Contents(read(c)), sections[c])
    BY <1>1, <1>2
  <2>2. micro[c] \subseteq Seq(Para) /\ AtMostOne(micro[c])
    BY <2>1 DEF Types
  <2>3. read(c) \subseteq Seq(Para) /\ AtMostOne(read(c))
    BY <2>2 DEF AtMostOne
  <2>4. c \notin unread => read(c) = micro[c]
    OBVIOUS
  <2> HIDE DEF read
  <2>5. Contents(read(c)) \in Seq(Para) /\ \A f \in read(c) : f = Contents(read(c))
    BY <2>3, ContentsFacts
  <2>6. QED
    BY <2>1, <2>4, <2>5, MergeFacts DEF Covers
<1>4. DOMAIN merged = DOMAIN sections /\ merged = [c \in DOMAIN merged |-> merged[c]]
  BY <1>2
<1>5. merged \in MergedFiles
  BY <1>1, <1>3, <1>4, MergedFilesFacts
<1>6. QED
  BY <1>3, <1>4, <1>5 DEF merged, sections

(* MakePlan, of the one plan there is.                                     *)
PlanMade(p, plan, unread) ==
    LET settled == plan.condensed = loc[p].text
        merged  == Merged(plan.sections, unread)
        next    == IF settled /\ loc[p].auto THEN loc[p].next ELSE plan.condensed
    IN  /\ pc[p] = "plan"
        /\ unread \subseteq DOMAIN plan.sections
        /\ loc' = [loc EXCEPT ![p].next = next, ![p].merged = merged]
        /\ Goto(p, IF settled THEN "save" ELSE "backup")
        /\ spoiled' = spoiled
             \cup {k \in {"unread"} : \E c \in unread : Forgets(c, merged[c])}
             \cup {k \in {"stale"} : settled /\ next # loc[p].text}

LEMMA MakePlanIs ==
    ASSUME NEW p \in Proc, MakePlan(p)
    PROVE  \E unread : PlanMade(p, Plan(loc[p].text), unread)
<1>1. \E plan \in {Plan(loc[p].text)} : \E unread : PlanMade(p, plan, unread)
  BY DEF MakePlan, PlanMade
<1> QED
  BY <1>1

(* BackupMicro, of one microfile.                                          *)
MicroBackedUp(p, c, failed) ==
    LET t    == loc[p].stamp
        m    == loc[p].merged[c]
        old  == IF failed THEN {<<>>} ELSE micro[c]
        same == old \subseteq {m}
    IN  /\ pc[p] = "micro" /\ c \in DOMAIN loc[p].merged /\ failed \in BOOLEAN
        /\ loc' = [loc EXCEPT ![p].cur = c, ![p].bare = failed \/ (same /\ micro[c] # {})]
        /\ mfBackups' = IF same THEN mfBackups ELSE [mfBackups EXCEPT ![t][c] = old]
        /\ spoiled' = spoiled
             \cup {k \in {"clash"} : ~same /\ mfBackups[t][c] \notin {{}, old}}
             \cup {k \in {"blind"} : failed /\ Forgets(c, m)}
        /\ Goto(p, "empty")

LEMMA BackupMicroIs ==
    ASSUME NEW p \in Proc, BackupMicro(p)
    PROVE  \E c, failed : MicroBackedUp(p, c, failed)
BY DEF BackupMicro, MicroBackedUp

LEMMA PlansChangeNoFile ==
    /\ \A p \in Proc : Persist(p) \/ Command(p) \/ Source(p) \/ MakePlan(p) \/ Restore(p) =>
         UNCHANGED <<memory, micro, backups, mfBackups, hash, now, adds, owed>>
    /\ \A p \in Proc : MakePlan(p) => runs' = runs
    /\ \A p \in Proc : BackupMicro(p) =>
         UNCHANGED <<memory, micro, backups, hash, now, adds, runs, owed>>
<1>1. \A p \in Proc : MakePlan(p) =>
        UNCHANGED <<memory, micro, backups, mfBackups, hash, now, adds, runs, owed>>
  BY Zenon DEF MakePlan
<1>2. \A p \in Proc : BackupMicro(p) =>
        UNCHANGED <<memory, micro, backups, hash, now, adds, runs, owed>>
  BY Zenon DEF BackupMicro
<1>3. \A p \in Proc : Persist(p) \/ Command(p) \/ Source(p) \/ Restore(p) =>
        UNCHANGED <<memory, micro, backups, mfBackups, hash, now, adds, owed>>
  BY Zenon DEF Persist, Command, Start, Source, Restore
<1>4. QED
  BY <1>1, <1>2, <1>3

LEMMA OthersWriteNo ==
    /\ Tick => UNCHANGED <<memory, backups>>
    /\ MemoryAdd \/ MemoryRemove => backups' = backups
    /\ \A p \in Proc : Replace(p) \/ RestoreReplace(p) => backups' = backups
    /\ \A p \in Proc : Backup(p) => memory' = memory
    /\ \A p \in Proc : EmptyMicro(p) \/ FillMicro(p) \/ Save(p) \/ RestoreSave(p) \/ Stop(p) =>
         UNCHANGED <<memory, backups>>
<1>1. Tick => UNCHANGED <<memory, backups>>
  BY Zenon DEF Tick
<1>2. MemoryAdd \/ MemoryRemove => backups' = backups
  BY Zenon DEF MemoryAdd, MemoryRemove
<1>3. \A p \in Proc : Replace(p) \/ RestoreReplace(p) => backups' = backups
  BY Zenon DEF Replace, RestoreReplace
<1>4. \A p \in Proc : Backup(p) => memory' = memory
  BY Zenon DEF Backup
<1>5. \A p \in Proc : EmptyMicro(p) \/ FillMicro(p) \/ Save(p) \/ RestoreSave(p) \/ Stop(p) =>
        UNCHANGED <<memory, backups>>
  BY Zenon DEF EmptyMicro, FillMicro, Save, RestoreSave, Stop
<1>6. QED
  BY <1>1, <1>2, <1>3, <1>4, <1>5

LEMMA TypesMemoryTool ==
    ASSUME Types, MemoryAdd \/ MemoryRemove \/ Tick
    PROVE  Types'
<1>1. Control /\ Files
  BY TypesParts
<1>2. Control'
  <2>1. UNCHANGED <<pc, loc>>
    BY DEF MemoryAdd, MemoryRemove, Tick
  <2>2. QED
    BY <1>1, <2>1, ControlSame
<1>3. "overlap" \in Misfortune
  BY DEF Misfortune
<1>4. CASE MemoryAdd
  <2>1. PICK e \in Learned : memory' = Append(memory, e) /\ owed' = owed \cup {e.body}
    BY <1>4 DEF MemoryAdd
  <2>2. e \in Entry /\ e.body \in Body
    BY <2>1, CodeAssumption, EntryFacts DEF Entry
  <2>3. memory' \in Text
    BY <1>1, <1>4, <2>1, <2>2, EditFacts DEF MemoryAdd, Files
  <2>4. adds' \in 0..MaxAdds
    BY <1>1, <1>4, RefineBounds DEF MemoryAdd, Files
  <2>5. owed' \subseteq Body
    BY <1>1, <2>1, <2>2 DEF Files
  <2>6. spoiled' \subseteq Misfortune
    BY <1>1, <1>3, <1>4, SpoilFacts DEF MemoryAdd, Files
  <2>7. UNCHANGED <<micro, backups, mfBackups, hash, now, runs>>
    BY <1>4 DEF MemoryAdd
  <2>8. Files'
    BY <1>1, <2>3, <2>4, <2>5, <2>6, <2>7 DEF Files
  <2>9. QED
    BY <1>2, <2>8 DEF Types, Control, Files
<1>5. CASE MemoryRemove
  <2>1. PICK i \in DOMAIN memory : memory' = RemoveAt(memory, i)
    BY <1>5 DEF MemoryRemove
  <2>2. memory' \in Text
    BY <1>1, <2>1, EditFacts DEF Files
  <2>3. owed' \subseteq Body
    BY <1>1, <1>5 DEF MemoryRemove, Files
  <2>4. spoiled' \subseteq Misfortune
    BY <1>1, <1>3, <1>5, SpoilFacts DEF MemoryRemove, Files
  <2>5. UNCHANGED <<micro, backups, mfBackups, hash, now, adds, runs>>
    BY <1>5 DEF MemoryRemove
  <2>6. Files'
    BY <1>1, <2>2, <2>3, <2>4, <2>5 DEF Files
  <2>7. QED
    BY <1>2, <2>6 DEF Types, Control, Files
<1>6. CASE Tick
  <2>1. now' \in Time
    BY <1>1, <1>6, SmallFacts DEF Tick, Files
  <2>2. UNCHANGED <<memory, micro, backups, mfBackups, hash, adds, runs, owed, spoiled>>
    BY <1>6 DEF Tick
  <2>3. Files'
    BY <1>1, <2>1, <2>2 DEF Files
  <2>4. QED
    BY <1>2, <2>3 DEF Types, Control, Files
<1>7. QED
  BY <1>4, <1>5, <1>6

(* The steps of a refine that change no file but the backups.              *)
LEMMA TypesReads ==
    ASSUME Types, NEW p \in Proc,
           Persist(p) \/ Command(p) \/ Source(p) \/ MakePlan(p) \/ Restore(p)
    PROVE  Types'
<1>1. Control /\ Files /\ loc \in [Proc -> Local] /\ loc[p] \in Local
  BY TypesParts, LocalFacts DEF Control
<1>2. "overlap" \in Misfortune /\ {"idle", "source", "plan", "save", "backup", "replace"} \subseteq PC
  BY DEF Misfortune, PC
<1>3. CASE Persist(p) \/ Command(p)
  <2>1. \E l \in Local : Start(p, l)
    <3>1. NoLocal \in Local /\ memory \in Text
      BY <1>1, SmallFacts DEF Files
    <3> DEFINE l == [NoLocal EXCEPT !.next = memory, !.auto = TRUE]
    <3>2. l \in Local
      BY <3>1 DEF Local
    <3>3. Persist(p) => Start(p, l)
      BY Zenon DEF Persist
    <3> HIDE DEF l
    <3>4. QED
      BY <1>3, <3>1, <3>2, <3>3 DEF Command
  <2>2. Control'
    <3>1. PICK l \in Local : Goto(p, "source") /\ loc' = [loc EXCEPT ![p] = l]
      BY <2>1 DEF Start
    <3>2. QED
      BY <1>2, <3>1, ControlStep DEF Goto
  <2>3. runs' \in 0..MaxRuns
    BY <1>1, <2>1, RefineBounds DEF Start, Files
  <2>4. Files'
    BY <1>1, <2>1, <2>3 DEF Start, Files
  <2>5. QED
    BY <2>2, <2>4 DEF Types, Control, Files
<1>4. CASE Source(p)
  <2>1. memory \in Text
    BY <1>1 DEF Files
  <2> DEFINE l == [loc[p] EXCEPT !.text = memory]
  <2>2. loc' = [loc EXCEPT ![p] = l] /\ pc' = [pc EXCEPT ![p] = "plan"]
    BY <1>4, Zenon DEF Source, Goto
  <2>3. l \in Local
    BY <1>1, <2>1 DEF Local
  <2> HIDE DEF l
  <2>4. Control'
    BY <1>2, <2>2, <2>3, ControlStep
  <2>5. spoiled' \subseteq Misfortune
    BY <1>1, <1>2, <1>4, SpoilFacts DEF Source, Files
  <2>6. Files'
    BY <1>1, <1>4, <2>5 DEF Source, Files
  <2>7. QED
    BY <2>4, <2>6 DEF Types, Control, Files
<1>5. CASE MakePlan(p)
  <2>1. loc[p].text \in Text /\ loc[p].next \in Text
    BY LocalFacts
  <2> DEFINE plan == Plan(loc[p].text)
  <2>2. PICK unread : PlanMade(p, plan, unread)
    BY <1>5, MakePlanIs
  <2> DEFINE m == Merged(plan.sections, unread)
             next == IF plan.condensed = loc[p].text /\ loc[p].auto
                       THEN loc[p].next ELSE plan.condensed
             l == [loc[p] EXCEPT !.next = next, !.merged = m]
             to == IF plan.condensed = loc[p].text THEN "save" ELSE "backup"
  <2>3. loc' = [loc EXCEPT ![p] = l] /\ pc' = [pc EXCEPT ![p] = to]
    BY <2>2 DEF PlanMade, Goto
  <2>4. plan.condensed \in Text /\ m \in MergedFiles
    BY <2>1, PlanFacts, MergedFacts DEF Rewritten
  <2> HIDE DEF plan
  <2>5. next \in Text
    BY <2>1, <2>4
  <2>6. spoiled' \subseteq spoiled \cup {"unread", "stale"}
    BY <2>2 DEF PlanMade
  <2> HIDE DEF next, m
  <2>7. l \in Local
    BY <1>1, <2>4, <2>5 DEF Local
  <2> HIDE DEF l
  <2>8. to \in {"save", "backup"}
    OBVIOUS
  <2> HIDE DEF to
  <2>9. Control'
    BY <1>2, <2>3, <2>7, <2>8, ControlStep
  <2>10. spoiled' \subseteq Misfortune
    BY <1>1, <2>6 DEF Files, Misfortune
  <2>11. UNCHANGED <<memory, micro, backups, mfBackups, hash, now, adds, runs, owed>>
    BY <1>5, PlansChangeNoFile
  <2>12. Files'
    BY <1>1, <2>10, <2>11 DEF Files
  <2>13. QED
    BY <2>9, <2>12 DEF Types, Control, Files
<1>6. CASE Restore(p)
  <2>0. PICK t \in Time : \E text \in backups[t] : loc' = [loc EXCEPT ![p].text = text]
    BY <1>6 DEF Restore
  <2>1. PICK text \in backups[t] : loc' = [loc EXCEPT ![p].text = text]
    BY <2>0
  <2>2. text \in Text
    BY <1>1 DEF Files
  <2> DEFINE l == [loc[p] EXCEPT !.text = text]
  <2>3. loc' = [loc EXCEPT ![p] = l] /\ pc' = [pc EXCEPT ![p] = "replace"]
    BY <1>6, <2>1 DEF Restore, Goto
  <2>4. l \in Local
    BY <1>1, <2>2 DEF Local
  <2> HIDE DEF l
  <2>5. Control'
    BY <1>2, <2>3, <2>4, ControlStep
  <2>6. runs' \in 0..MaxRuns
    BY <1>1, <1>6, RefineBounds DEF Restore, Files
  <2>7. Files'
    BY <1>1, <1>6, <2>6 DEF Restore, Files
  <2>8. QED
    BY <2>5, <2>7 DEF Types, Control, Files
<1>7. QED
  BY <1>3, <1>4, <1>5, <1>6

(* The steps that write backups and microfiles.                            *)
LEMMA TypesMicro ==
    ASSUME Types, NEW p \in Proc,
           Backup(p) \/ BackupMicro(p) \/ EmptyMicro(p) \/ FillMicro(p)
    PROVE  Types'
<1>1. Control /\ Files /\ loc \in [Proc -> Local] /\ loc[p] \in Local
  BY TypesParts, LocalFacts DEF Control
<1>2. "clash" \in Misfortune /\ {"micro", "empty", "fill"} \subseteq PC
  BY DEF Misfortune, PC
<1>3. CASE Backup(p)
  <2>1. now \in Time /\ loc[p].text \in Text /\ backups \in [Time -> SUBSET Text]
    BY <1>1, LocalFacts DEF Files
  <2> DEFINE l == [loc[p] EXCEPT !.stamp = now]
  <2>2. loc' = [loc EXCEPT ![p] = l] /\ pc' = [pc EXCEPT ![p] = "micro"]
    BY <1>3, Zenon DEF Backup, Goto
  <2>3. l \in Local
    BY <1>1, <2>1 DEF Local
  <2> HIDE DEF l
  <2>4. Control'
    BY <1>2, <2>2, <2>3, ControlStep
  <2>5. backups' = [backups EXCEPT ![now] = {loc[p].text}]
    BY <1>3 DEF Backup
  <2>6. backups' \in [Time -> SUBSET Text]
    BY <2>1, <2>5
  <2>7. \A t \in Time : AtMostOne(backups'[t])
    <3> SUFFICES ASSUME NEW t \in Time PROVE AtMostOne(backups'[t])
      OBVIOUS
    <3>1. backups'[t] = {loc[p].text} \/ backups'[t] = backups[t]
      BY <2>1, <2>5
    <3>2. AtMostOne({loc[p].text}) /\ AtMostOne(backups[t])
      BY <1>1 DEF AtMostOne, Files
    <3>3. QED
      BY <3>1, <3>2
  <2>8. spoiled' \subseteq Misfortune
    BY <1>1, <1>2, <1>3, SpoilFacts DEF Backup, Files
  <2>9. UNCHANGED <<memory, micro, mfBackups, hash, now, adds, runs, owed>>
    BY <1>3 DEF Backup
  <2>10. Files'
    BY <1>1, <2>6, <2>7, <2>8, <2>9 DEF Files
  <2>11. QED
    BY <2>4, <2>10 DEF Types, Control, Files
<1>4. CASE BackupMicro(p)
  <2>1. PICK c, failed : MicroBackedUp(p, c, failed)
    BY <1>4, BackupMicroIs
  <2> DEFINE old == IF failed THEN {<<>>} ELSE micro[c]
             flag == failed \/ (old \subseteq {loc[p].merged[c]} /\ micro[c] # {})
             l == [loc[p] EXCEPT !.cur = c, !.bare = flag]
  <2>2. c \in Code /\ loc[p].stamp \in Time /\ flag \in BOOLEAN /\ loc[p].merged \in MergedFiles
    BY <2>1, LocalFacts DEF MicroBackedUp
  <2>3. loc' = [loc EXCEPT ![p] = l] /\ pc' = [pc EXCEPT ![p] = "empty"]
    BY <2>1 DEF MicroBackedUp, Goto
  <2>4. old \subseteq Seq(Para)
    BY <1>1, <2>2, SmallFacts DEF Files
  <2>5. \/ mfBackups' = mfBackups
        \/ mfBackups' = [mfBackups EXCEPT ![loc[p].stamp][c] = old]
    BY <2>1 DEF MicroBackedUp
  <2>6. spoiled' \subseteq spoiled \cup {"clash", "blind"}
    BY <2>1 DEF MicroBackedUp
  <2> HIDE DEF flag, old
  <2>7. l \in Local
    BY <1>1, <2>2 DEF Local
  <2>8. l.cur = c /\ l.merged = loc[p].merged
    BY <1>1 DEF Local
  <2> HIDE DEF l
  <2>9. Control'
    <3>1. c \in DOMAIN loc[p].merged
      BY <2>1 DEF MicroBackedUp
    <3>2. QED
      BY <1>2, <2>3, <2>7, <2>8, <3>1, ControlStep
  <2>10. mfBackups' \in [Time -> [Code -> SUBSET Seq(Para)]]
    <3>1. mfBackups \in [Time -> [Code -> SUBSET Seq(Para)]]
      BY <1>1 DEF Files
    <3>2. [mfBackups[loc[p].stamp] EXCEPT ![c] = old] \in [Code -> SUBSET Seq(Para)]
      BY <2>2, <2>4, <3>1
    <3>3. [mfBackups EXCEPT ![loc[p].stamp][c] = old] \in [Time -> [Code -> SUBSET Seq(Para)]]
      BY <2>2, <3>1, <3>2
    <3>4. QED
      BY <2>5, <3>1, <3>3
  <2>11. spoiled' \subseteq Misfortune
    BY <1>1, <2>6 DEF Files, Misfortune
  <2>12. UNCHANGED <<memory, micro, backups, hash, now, adds, runs, owed>>
    BY <1>4 DEF BackupMicro
  <2>13. Files'
    BY <1>1, <2>10, <2>11, <2>12 DEF Files
  <2>14. QED
    BY <2>9, <2>13 DEF Types, Control, Files
<1>5. ASSUME NEW c \in Code, NEW f \in Seq(Para), micro' = [micro EXCEPT ![c] = {f}],
             UNCHANGED <<memory, backups, mfBackups, hash, now, adds, runs, owed, spoiled>>
      PROVE  Files'
  <2>1. micro' \in [Code -> SUBSET Seq(Para)]
    BY <1>1, <1>5 DEF Files
  <2>2. \A d \in Code : AtMostOne(micro'[d])
    <3> SUFFICES ASSUME NEW d \in Code PROVE AtMostOne(micro'[d])
      OBVIOUS
    <3>1. micro'[d] = {f} \/ micro'[d] = micro[d]
      BY <1>1, <1>5 DEF Files
    <3>2. AtMostOne({f}) /\ AtMostOne(micro[d])
      BY <1>1 DEF AtMostOne, Files
    <3>3. QED
      BY <3>1, <3>2
  <2>3. QED
    BY <1>1, <1>5, <2>1, <2>2 DEF Files
<1>6. CASE EmptyMicro(p)
  <2>1. pc[p] = "empty" /\ loc[p].cur \in Code /\ loc[p].cur \in DOMAIN loc[p].merged
    BY <1>6, LocalFacts DEF EmptyMicro
  <2>2. Control'
    BY <1>2, <1>6, <2>1, Moves DEF EmptyMicro
  <2>3. Files'
    BY <1>5, <1>6, <2>1, SmallFacts DEF EmptyMicro
  <2>4. QED
    BY <2>2, <2>3 DEF Types, Control, Files
<1>7. CASE FillMicro(p)
  <2> DEFINE c == loc[p].cur
             m == loc[p].merged
             rest == [d \in DOMAIN m \ {c} |-> m[d]]
             l == [loc[p] EXCEPT !.cur = NoCode, !.bare = FALSE, !.merged = rest]
  <2>1. pc[p] = "fill" /\ c \in Code /\ c \in DOMAIN m /\ m[c] \in Seq(Para)
    BY <1>7, LocalFacts DEF FillMicro
  <2>2. loc' = [loc EXCEPT ![p] = l] /\ pc' = [pc EXCEPT ![p] = "micro"]
    BY <1>7 DEF FillMicro, Goto
  <2>3. rest \in MergedFiles
    <3>1. DOMAIN m \subseteq Code /\ \A d \in DOMAIN m : m[d] \in Seq(Para)
      BY LocalFacts
    <3> HIDE DEF m, c
    <3>2. DOMAIN rest \subseteq Code /\ rest \in [DOMAIN rest -> Seq(Para)]
      BY <3>1
    <3> HIDE DEF rest
    <3>3. QED
      BY <3>2, MergedFilesFacts
  <2> HIDE DEF rest
  <2>4. l \in Local
    BY <1>1, <2>3 DEF Local
  <2> HIDE DEF l
  <2>5. Control'
    BY <1>2, <2>2, <2>4, ControlStep
  <2>6. Files'
    BY <1>5, <1>7, <2>1 DEF FillMicro
  <2>7. QED
    BY <2>5, <2>6 DEF Types, Control, Files
<1>8. QED
  BY <1>3, <1>4, <1>6, <1>7

(* The steps that replace MEMORY.md and the hash, and the end of a run.    *)
LEMMA TypesWrites ==
    ASSUME Types, NEW p \in Proc,
           Replace(p) \/ Save(p) \/ RestoreReplace(p) \/ RestoreSave(p) \/ Stop(p)
    PROVE  Types'
<1>1. Control /\ Files /\ loc[p].text \in Text /\ loc[p].next \in Text
  BY TypesParts, LocalFacts
<1>2. {"overlap", "cut", "bare"} \subseteq Misfortune /\ {"save", "clear"} \subseteq PC
  BY DEF Misfortune, PC
<1>3. \A t : AtMostOne({t}) /\ AtMostOne({})
  BY DEF AtMostOne
<1>4. CASE Replace(p)
  <2>1. Control'
    BY <1>2, <1>4, Moves DEF Replace
  <2>2. Files'
    BY <1>1, <1>4 DEF Replace, Files
  <2>3. QED
    BY <2>1, <2>2 DEF Types, Control, Files
<1>5. CASE Save(p)
  <2>1. Control'
    BY <1>5, Returns DEF Save
  <2>2. Files'
    BY <1>1, <1>3, <1>5 DEF Save, Files
  <2>3. QED
    BY <2>1, <2>2 DEF Types, Control, Files
<1>6. CASE RestoreReplace(p)
  <2>1. Control'
    BY <1>2, <1>6, Moves DEF RestoreReplace
  <2>2. spoiled' \subseteq Misfortune
    BY <1>1, <1>2, <1>6, SpoilFacts DEF RestoreReplace, Files
  <2>3. owed' \subseteq Body
    BY <1>1, <1>6 DEF RestoreReplace, Files
  <2>4. Files'
    BY <1>1, <1>6, <2>2, <2>3 DEF RestoreReplace, Files
  <2>5. QED
    BY <2>1, <2>4 DEF Types, Control, Files
<1>7. CASE RestoreSave(p)
  <2>1. Control'
    BY <1>7, Returns DEF RestoreSave
  <2>2. Files'
    BY <1>1, <1>3, <1>7 DEF RestoreSave, Files
  <2>3. QED
    BY <2>1, <2>2 DEF Types, Control, Files
<1>8. CASE Stop(p)
  <2>1. Control'
    BY <1>8, Returns DEF Stop
  <2>2. spoiled' \subseteq Misfortune
    BY <1>1, <1>2, <1>8 DEF Stop, Files
  <2>3. hash' = hash \/ hash' = {}
    BY <1>8 DEF Stop
  <2>4. Files'
    BY <1>1, <1>3, <1>8, <2>2, <2>3 DEF Stop, Files
  <2>5. QED
    BY <2>1, <2>4 DEF Types, Control, Files
<1>9. QED
  BY <1>4, <1>5, <1>6, <1>7, <1>8

LEMMA TypesNext == Types /\ [Next]_vars => Types'
<1> SUFFICES ASSUME Types, [Next]_vars PROVE Types'
  OBVIOUS
<1>1. CASE MemoryAdd \/ MemoryRemove \/ Tick
  BY <1>1, TypesMemoryTool
<1>2. ASSUME NEW p \in Proc,
             Persist(p) \/ Command(p) \/ Source(p) \/ MakePlan(p) \/ Restore(p)
      PROVE  Types'
  BY <1>2, TypesReads
<1>3. ASSUME NEW p \in Proc, Backup(p) \/ BackupMicro(p) \/ EmptyMicro(p) \/ FillMicro(p)
      PROVE  Types'
  BY <1>3, TypesMicro
<1>4. ASSUME NEW p \in Proc,
             Replace(p) \/ Save(p) \/ RestoreReplace(p) \/ RestoreSave(p) \/ Stop(p)
      PROVE  Types'
  BY <1>4, TypesWrites
<1>5. CASE UNCHANGED vars
  BY <1>5 DEF Types, vars
<1>6. QED
  BY <1>1, <1>2, <1>3, <1>4, <1>5 DEF Next

LEMMA AtMostOneFacts ==
    ASSUME NEW S, AtMostOne(S)
    PROVE  Cardinality(S) <= 1
<1>1. CASE S = {}
  BY <1>1, FS_EmptySet
<1>2. CASE S # {}
  <2>1. PICK x \in S : S = {x}
    BY <1>2 DEF AtMostOne
  <2>2. Cardinality({x}) = 1
    BY FS_Singleton
  <2>3. QED
    BY <2>1, <2>2
<1>3. QED
  BY <1>1, <1>2

LEMMA TypesTypeOK == Types => TypeOK
<1> SUFFICES ASSUME Types PROVE TypeOK
  OBVIOUS
<1>1. memory \in Seq(Entry) /\ Len(memory) <= MaxEntries /\ now \in Time /\ pc \in [Proc -> PC]
  BY DEF Types, Text
<1>2. \A c \in Code : micro[c] \subseteq Seq(Para) /\ Cardinality(micro[c]) <= 1
  BY AtMostOneFacts DEF Types
<1>3. \A t \in Time : backups[t] \subseteq Seq(Entry) /\ Cardinality(backups[t]) <= 1
  BY AtMostOneFacts DEF Types, Text
<1>4. \A t \in Time, c \in Code : mfBackups[t][c] \subseteq Seq(Para)
  BY DEF Types
<1>5. hash \subseteq Seq(Entry) /\ Cardinality(hash) <= 1
  BY AtMostOneFacts DEF Types, Text
<1>6. \A p \in Proc : /\ loc[p].text \in Seq(Entry) /\ loc[p].next \in Seq(Entry)
                      /\ loc[p].stamp \in Time
                      /\ DOMAIN loc[p].merged \subseteq Code
                      /\ loc[p].cur \in Code \cup {NoCode}
                      /\ loc[p].auto \in BOOLEAN /\ loc[p].bare \in BOOLEAN
  BY LocalFacts DEF Text
<1>7. adds \in 0..MaxAdds /\ runs \in 0..MaxRuns /\ owed \subseteq Body /\ spoiled \subseteq Misfortune
  BY DEF Types
<1>8. QED
  BY <1>1, <1>2, <1>3, <1>4, <1>5, <1>6, <1>7 DEF TypeOK

LEMMA TypesAlways == Spec => []Types
BY TypesInit, TypesNext, PTL DEF Spec

(* Whatever the bodies, the edits, the refines, the kills and the          *)
(* restores, files, locals and counters are of their types.                *)
THEOREM TypeOKAlways == Spec => []TypeOK
BY TypesAlways, TypesTypeOK, PTL

-------------------------------------------------------------------------------
(* What each step does to the processes                                    *)

OthersStay(p) == \A q \in Proc : q # p => pc'[q] = pc[q] /\ loc'[q] = loc[q]

LEMMA Others ==
    ASSUME Types, NEW p \in Proc, NEW to, NEW l,
           pc' = [pc EXCEPT ![p] = to], loc' = [loc EXCEPT ![p] = l]
    PROVE  OthersStay(p) /\ pc'[p] = to /\ loc'[p] = l
<1>1. pc \in [Proc -> PC] /\ loc \in [Proc -> Local]
  BY DEF Types
<1>2. pc'[p] = to /\ loc'[p] = l
  BY <1>1
<1>3. \A q \in Proc : q # p => pc'[q] = pc[q] /\ loc'[q] = loc[q]
  BY <1>1
<1>4. QED
  BY <1>2, <1>3 DEF OthersStay

LEMMA OthersGoto ==
    ASSUME Types, NEW p \in Proc, NEW to, Goto(p, to), loc' = loc
    PROVE  OthersStay(p) /\ pc'[p] = to /\ loc'[p] = loc[p]
<1>1. loc' = [loc EXCEPT ![p] = loc[p]]
  BY DEF Types
<1>2. QED
  BY <1>1, Others DEF Goto

LEMMA OthersReturn ==
    ASSUME Types, NEW p \in Proc, Return(p)
    PROVE  OthersStay(p) /\ pc'[p] = "idle" /\ loc'[p] = NoLocal
BY Others DEF Return, Goto

LEMMA SourceEffect ==
    ASSUME Types, NEW p \in Proc, Source(p)
    PROVE  /\ OthersStay(p) /\ pc[p] = "source" /\ pc'[p] = "plan"
           /\ loc'[p].text = memory
<1> DEFINE l == [loc[p] EXCEPT !.text = memory]
<1>1. loc' = [loc EXCEPT ![p] = l] /\ pc' = [pc EXCEPT ![p] = "plan"] /\ pc[p] = "source"
  BY Zenon DEF Source, Goto
<1>2. l.text = memory
  BY LocalFacts DEF Local
<1> HIDE DEF l
<1>3. QED
  BY <1>1, <1>2, Others

LEMMA MakePlanEffect ==
    ASSUME Types, NEW p \in Proc, MakePlan(p)
    PROVE  LET plan == Plan(loc[p].text)
           IN  /\ OthersStay(p) /\ pc[p] = "plan" /\ pc'[p] \in {"save", "backup"}
               /\ loc'[p].text = loc[p].text
               /\ pc'[p] = "backup" \/ "stale" \notin spoiled' => loc'[p].next = plan.condensed
               /\ DOMAIN loc'[p].merged = DOMAIN plan.sections
               /\ \A c \in DOMAIN plan.sections : \A b \in ToSet(plan.sections[c]) :
                    Covers(loc'[p].merged[c], b)
               /\ "unread" \notin spoiled' =>
                    \A c \in DOMAIN plan.sections : \A f \in micro[c] :
                        ToSet(f) \subseteq ToSet(loc'[p].merged[c])
<1> DEFINE plan == Plan(loc[p].text)
<1>1. PICK unread : PlanMade(p, plan, unread)
  BY MakePlanIs
<1> DEFINE m == Merged(plan.sections, unread)
           settled == plan.condensed = loc[p].text
           next == IF settled /\ loc[p].auto THEN loc[p].next ELSE plan.condensed
           l == [loc[p] EXCEPT !.next = next, !.merged = m]
           to == IF settled THEN "save" ELSE "backup"
<1>2. /\ loc' = [loc EXCEPT ![p] = l] /\ pc' = [pc EXCEPT ![p] = to] /\ pc[p] = "plan"
      /\ spoiled' = spoiled
           \cup {k \in {"unread"} : \E c \in unread : Forgets(c, m[c])}
           \cup {k \in {"stale"} : settled /\ next # loc[p].text}
  BY <1>1 DEF PlanMade, Goto
<1>3. /\ DOMAIN m = DOMAIN plan.sections
      /\ \A c \in DOMAIN m : \A b \in ToSet(plan.sections[c]) : Covers(m[c], b)
      /\ \A c \in DOMAIN m \ unread : \A f \in micro[c] : ToSet(f) \subseteq ToSet(m[c])
  BY LocalFacts, MergedFacts
<1> HIDE DEF plan, m
<1>4. to \in {"save", "backup"} /\ (to = "backup" => ~settled)
  OBVIOUS
<1>5. to = "backup" \/ "stale" \notin spoiled' => next = plan.condensed
  BY <1>2
<1>6. "unread" \notin spoiled' =>
        \A c \in DOMAIN m : \A f \in micro[c] : ToSet(f) \subseteq ToSet(m[c])
  BY <1>2, <1>3 DEF Forgets
<1> HIDE DEF next, to, settled
<1>7. l.text = loc[p].text /\ l.next = next /\ l.merged = m
  BY LocalFacts DEF Local
<1> HIDE DEF l
<1>8. OthersStay(p) /\ pc'[p] = to /\ loc'[p] = l
  BY <1>2, Others
<1>9. QED
  BY <1>2, <1>3, <1>4, <1>5, <1>6, <1>7, <1>8 DEF plan

LEMMA BackupEffect ==
    ASSUME Types, NEW p \in Proc, Backup(p)
    PROVE  /\ OthersStay(p) /\ pc[p] = "backup" /\ pc'[p] = "micro"
           /\ loc'[p].text = loc[p].text /\ loc'[p].next = loc[p].next
           /\ loc'[p].merged = loc[p].merged
<1> DEFINE l == [loc[p] EXCEPT !.stamp = now]
<1>1. loc' = [loc EXCEPT ![p] = l] /\ pc' = [pc EXCEPT ![p] = "micro"] /\ pc[p] = "backup"
  BY Zenon DEF Backup, Goto
<1>2. l.text = loc[p].text /\ l.next = loc[p].next /\ l.merged = loc[p].merged
  BY LocalFacts DEF Local
<1> HIDE DEF l
<1>3. OthersStay(p) /\ pc'[p] = "micro" /\ loc'[p] = l
  BY <1>1, Others
<1>4. QED
  BY <1>1, <1>2, <1>3

(* What a microfile is backed up with, and when it is not.                 *)
BackedUp(p, c, old) ==
    LET t == loc[p].stamp
    IN  /\ loc'[p].cur = c /\ c \in Code /\ c \in DOMAIN loc[p].merged
        /\ mfBackups' \in {mfBackups, [mfBackups EXCEPT ![t][c] = old]}
        /\ "clash" \notin spoiled' => mfBackups' = mfBackups \/ mfBackups[t][c] \in {{}, old}
        /\ loc'[p].bare /\ "blind" \notin spoiled' =>
             \A f \in micro[c] : ToSet(f) \subseteq ToSet(loc[p].merged[c])
        /\ ~loc'[p].bare => \/ micro[c] = {}
                            \/ mfBackups' = [mfBackups EXCEPT ![t][c] = micro[c]]

LEMMA BackupMicroEffect ==
    ASSUME Types, NEW p \in Proc, BackupMicro(p)
    PROVE  /\ OthersStay(p) /\ pc[p] = "micro" /\ pc'[p] = "empty"
           /\ loc'[p].text = loc[p].text /\ loc'[p].next = loc[p].next
           /\ loc'[p].merged = loc[p].merged /\ loc'[p].stamp = loc[p].stamp
           /\ spoiled \subseteq spoiled'
           /\ \E c, old : BackedUp(p, c, old)
<1>1. PICK c, failed : MicroBackedUp(p, c, failed)
  BY BackupMicroIs
<1> DEFINE t == loc[p].stamp
           m == loc[p].merged[c]
           old == IF failed THEN {<<>>} ELSE micro[c]
           same == old \subseteq {m}
           flag == failed \/ (same /\ micro[c] # {})
           l == [loc[p] EXCEPT !.cur = c, !.bare = flag]
<1>2. /\ loc' = [loc EXCEPT ![p] = l] /\ pc' = [pc EXCEPT ![p] = "empty"] /\ pc[p] = "micro"
      /\ c \in DOMAIN loc[p].merged /\ failed \in BOOLEAN
      /\ mfBackups' = IF same THEN mfBackups ELSE [mfBackups EXCEPT ![t][c] = old]
      /\ spoiled' = spoiled
           \cup {k \in {"clash"} : ~same /\ mfBackups[t][c] \notin {{}, old}}
           \cup {k \in {"blind"} : failed /\ Forgets(c, m)}
  BY <1>1 DEF MicroBackedUp, Goto
<1>3. flag /\ "blind" \notin spoiled' => \A f \in micro[c] : ToSet(f) \subseteq ToSet(m)
  <2>1. CASE failed
    BY <1>2, <2>1 DEF Forgets
  <2>2. CASE ~failed
    BY <2>2
  <2>3. QED
    BY <2>1, <2>2
<1>4. ~flag => micro[c] = {} \/ mfBackups' = [mfBackups EXCEPT ![t][c] = micro[c]]
  BY <1>2
<1>5. /\ mfBackups' \in {mfBackups, [mfBackups EXCEPT ![t][c] = old]}
      /\ "clash" \notin spoiled' => mfBackups' = mfBackups \/ mfBackups[t][c] \in {{}, old}
  BY <1>2
<1>6. spoiled \subseteq spoiled'
  BY <1>2
<1> HIDE DEF flag, old
<1>7. /\ l.text = loc[p].text /\ l.next = loc[p].next /\ l.merged = loc[p].merged
      /\ l.stamp = loc[p].stamp /\ l.cur = c /\ l.bare = flag
  BY LocalFacts DEF Local
<1> HIDE DEF l
<1>8. OthersStay(p) /\ pc'[p] = "empty" /\ loc'[p] = l
  BY <1>2, Others
<1>9. c \in Code
  BY <1>2, LocalFacts
<1>10. /\ loc'[p].text = loc[p].text /\ loc'[p].next = loc[p].next
       /\ loc'[p].merged = loc[p].merged /\ loc'[p].stamp = loc[p].stamp
       /\ loc'[p].cur = c /\ loc'[p].bare = flag
  BY <1>7, <1>8
<1>11. BackedUp(p, c, old)
  <2>1. loc'[p].cur = c /\ c \in Code /\ c \in DOMAIN loc[p].merged
    BY <1>2, <1>9, <1>10
  <2>2. loc'[p].bare /\ "blind" \notin spoiled' => \A f \in micro[c] : ToSet(f) \subseteq ToSet(m)
    BY <1>3, <1>10
  <2>3. ~loc'[p].bare => micro[c] = {} \/ mfBackups' = [mfBackups EXCEPT ![t][c] = micro[c]]
    BY <1>4, <1>10
  <2>4. QED
    BY <1>5, <2>1, <2>2, <2>3, Zenon DEF BackedUp
<1>12. QED
  BY <1>2, <1>6, <1>8, <1>10, <1>11

LEMMA FillMicroEffect ==
    ASSUME Types, NEW p \in Proc, FillMicro(p)
    PROVE  /\ OthersStay(p) /\ pc[p] = "fill" /\ pc'[p] = "micro"
           /\ loc'[p].text = loc[p].text /\ loc'[p].next = loc[p].next
           /\ loc[p].cur \in DOMAIN loc[p].merged /\ loc[p].cur \in Code
           /\ micro' = [micro EXCEPT ![loc[p].cur] = {loc[p].merged[loc[p].cur]}]
           /\ DOMAIN loc'[p].merged = DOMAIN loc[p].merged \ {loc[p].cur}
           /\ \A c \in DOMAIN loc'[p].merged : loc'[p].merged[c] = loc[p].merged[c]
<1> DEFINE m == loc[p].merged
           rest == [d \in DOMAIN m \ {loc[p].cur} |-> m[d]]
           l == [loc[p] EXCEPT !.cur = NoCode, !.bare = FALSE, !.merged = rest]
<1>1. loc' = [loc EXCEPT ![p] = l] /\ pc' = [pc EXCEPT ![p] = "micro"] /\ pc[p] = "fill"
  BY DEF FillMicro, Goto
<1>2. micro' = [micro EXCEPT ![loc[p].cur] = {loc[p].merged[loc[p].cur]}]
  BY DEF FillMicro
<1>3. DOMAIN rest = DOMAIN m \ {loc[p].cur} /\ \A d \in DOMAIN rest : rest[d] = m[d]
  OBVIOUS
<1> HIDE DEF rest
<1>4. l.text = loc[p].text /\ l.next = loc[p].next /\ l.merged = rest
  BY LocalFacts DEF Local
<1> HIDE DEF l
<1>5. OthersStay(p) /\ pc'[p] = "micro" /\ loc'[p] = l
  BY <1>1, Others
<1>6. loc[p].cur \in DOMAIN loc[p].merged /\ loc[p].cur \in Code
  BY <1>1, LocalFacts
<1>7. QED
  BY <1>1, <1>2, <1>3, <1>4, <1>5, <1>6

LEMMA RestoreEffect ==
    ASSUME Types, NEW p \in Proc, Restore(p)
    PROVE  /\ OthersStay(p) /\ pc[p] = "idle" /\ pc'[p] = "replace"
           /\ \E t \in Time : loc'[p].text \in backups[t]
<1>1. PICK t \in Time : \E text \in backups[t] : loc' = [loc EXCEPT ![p].text = text]
  BY DEF Restore
<1>2. PICK text \in backups[t] : loc' = [loc EXCEPT ![p].text = text]
  BY <1>1
<1> DEFINE l == [loc[p] EXCEPT !.text = text]
<1>3. loc' = [loc EXCEPT ![p] = l] /\ pc' = [pc EXCEPT ![p] = "replace"] /\ pc[p] = "idle"
  BY <1>2 DEF Restore, Goto
<1>4. l.text = text
  BY LocalFacts DEF Local
<1> HIDE DEF l
<1>5. OthersStay(p) /\ pc'[p] = "replace" /\ loc'[p] = l
  BY <1>3, Others
<1>6. QED
  BY <1>3, <1>4, <1>5

(* The steps that move a process and leave its locals, or that end it.     *)
LEMMA MoveEffects ==
    ASSUME Types, NEW p \in Proc
    PROVE  /\ Persist(p) \/ Command(p) =>
                OthersStay(p) /\ pc[p] = "idle" /\ pc'[p] = "source" /\ loc'[p].text = <<>>
           /\ EmptyMicro(p) =>
                OthersStay(p) /\ pc[p] = "empty" /\ pc'[p] = "fill" /\ loc'[p] = loc[p]
           /\ Replace(p) =>
                OthersStay(p) /\ pc[p] = "micro" /\ pc'[p] = "save" /\ loc'[p] = loc[p]
           /\ RestoreReplace(p) =>
                OthersStay(p) /\ pc[p] = "replace" /\ pc'[p] = "clear" /\ loc'[p] = loc[p]
           /\ Save(p) =>
                OthersStay(p) /\ pc[p] = "save" /\ pc'[p] = "idle" /\ loc'[p] = NoLocal
           /\ RestoreSave(p) =>
                OthersStay(p) /\ pc[p] = "clear" /\ pc'[p] = "idle" /\ loc'[p] = NoLocal
           /\ Stop(p) => OthersStay(p) /\ pc'[p] = "idle" /\ loc'[p] = NoLocal
<1>1. Persist(p) \/ Command(p) => \E l : Start(p, l) /\ l.text = <<>>
  <2> DEFINE l == [NoLocal EXCEPT !.next = memory, !.auto = TRUE]
  <2>1. l.text = <<>> /\ NoLocal.text = <<>>
    BY DEF NoLocal
  <2>2. Persist(p) => Start(p, l)
    BY Zenon DEF Persist
  <2> HIDE DEF l
  <2>3. QED
    BY <2>1, <2>2 DEF Command
<1>2. ASSUME NEW l, Start(p, l)
      PROVE  OthersStay(p) /\ pc[p] = "idle" /\ pc'[p] = "source" /\ loc'[p] = l
  BY <1>2, Others DEF Start, Goto
<1>3. EmptyMicro(p) => OthersStay(p) /\ pc[p] = "empty" /\ pc'[p] = "fill" /\ loc'[p] = loc[p]
  BY OthersGoto DEF EmptyMicro
<1>4. Replace(p) => OthersStay(p) /\ pc[p] = "micro" /\ pc'[p] = "save" /\ loc'[p] = loc[p]
  BY OthersGoto DEF Replace
<1>5. RestoreReplace(p) =>
        OthersStay(p) /\ pc[p] = "replace" /\ pc'[p] = "clear" /\ loc'[p] = loc[p]
  BY OthersGoto DEF RestoreReplace
<1>6. Save(p) => OthersStay(p) /\ pc[p] = "save" /\ pc'[p] = "idle" /\ loc'[p] = NoLocal
  BY OthersReturn DEF Save
<1>7. RestoreSave(p) => OthersStay(p) /\ pc[p] = "clear" /\ pc'[p] = "idle" /\ loc'[p] = NoLocal
  BY OthersReturn DEF RestoreSave
<1>8. Stop(p) => OthersStay(p) /\ pc'[p] = "idle" /\ loc'[p] = NoLocal
  BY OthersReturn DEF Stop
<1>9. QED
  BY <1>1, <1>2, <1>3, <1>4, <1>5, <1>6, <1>7, <1>8

(* Misfortunes are remembered.                                             *)
LEMMA SpoiledGrows == Types /\ Next => spoiled \subseteq spoiled'
<1> SUFFICES ASSUME Types, Next PROVE spoiled \subseteq spoiled'
  OBVIOUS
<1>1. CASE MemoryAdd \/ MemoryRemove \/ Tick
  BY <1>1 DEF MemoryAdd, MemoryRemove, Tick, Spoil
<1>2. ASSUME NEW p \in Proc, Persist(p) \/ Command(p) \/ Source(p) \/ MakePlan(p) \/ Backup(p)
      PROVE  spoiled \subseteq spoiled'
  <2>1. MakePlan(p) => spoiled \subseteq spoiled'
    BY MakePlanIs DEF PlanMade
  <2>2. QED
    BY <1>2, <2>1 DEF Persist, Command, Start, Source, Backup, Spoil
<1>3. ASSUME NEW p \in Proc, BackupMicro(p)
      PROVE  spoiled \subseteq spoiled'
  BY <1>3, BackupMicroEffect
<1>4. ASSUME NEW p \in Proc, EmptyMicro(p) \/ FillMicro(p) \/ Replace(p) \/ Save(p)
      PROVE  spoiled \subseteq spoiled'
  BY <1>4 DEF EmptyMicro, FillMicro, Replace, Save
<1>5. ASSUME NEW p \in Proc, Restore(p) \/ RestoreReplace(p) \/ RestoreSave(p) \/ Stop(p)
      PROVE  spoiled \subseteq spoiled'
  BY <1>5 DEF Restore, RestoreReplace, RestoreSave, Stop, Spoil
<1>6. QED
  BY <1>1, <1>2, <1>3, <1>4, <1>5 DEF Next

-------------------------------------------------------------------------------
(* A refine alone                                                          *)

LEMMA AheadInWindow ==
    /\ \A p : Ahead(p) => InWindow(p)
    /\ \A p : Ahead(p) => pc[p] \in {"backup", "micro", "empty", "fill"}
    /\ \A p : InWindow(p) => pc[p] = "plan" \/ Ahead(p)
    /\ \A p : pc[p] \notin {"plan", "backup", "micro", "empty", "fill"} => ~InWindow(p) /\ ~Ahead(p)
BY DEF Ahead, InWindow, Window

LEMMA AheadInWindowNext ==
    /\ \A p : Ahead(p)' => InWindow(p)'
    /\ \A p : Ahead(p)' => pc'[p] \in {"backup", "micro", "empty", "fill"}
    /\ \A p : InWindow(p)' => pc'[p] = "plan" \/ Ahead(p)'
    /\ \A p : pc'[p] \notin {"plan", "backup", "micro", "empty", "fill"} => ~InWindow(p)' /\ ~Ahead(p)'
BY DEF Ahead, InWindow, Window

LEMMA NoneInWindow ==
    ASSUME \A q \in Proc : ~InWindow(q)'
    PROVE  Alone'
<1>1. \A q \in Proc : ~Ahead(q)' /\ pc'[q] # "fill"
  BY AheadInWindowNext DEF InWindow, Window
<1>2. QED
  BY <1>1 DEF Alone

(* Nobody enters the window, and nothing that matters to who is in it      *)
(* changes.                                                                *)
LEMMA AloneStays ==
    ASSUME Alone, "overlap" \notin spoiled, memory' = memory, micro' = micro,
           spoiled \subseteq spoiled',
           \A q \in Proc : InWindow(q)' => InWindow(q) /\ loc'[q].text = loc[q].text,
           \A q \in Proc : pc'[q] = "fill" => pc[q] = "fill" /\ loc'[q].cur = loc[q].cur,
           \A q \in Proc : Ahead(q)' => /\ Ahead(q) /\ loc'[q].next = loc[q].next
                                        /\ loc'[q].merged = loc[q].merged
    PROVE  Alone'
<1>1. \A p, q \in Proc : InWindow(p)' /\ InWindow(q)' => p = q
  BY DEF Alone
<1>2. \A p \in Proc : InWindow(p)' => loc'[p].text = memory'
  BY DEF Alone
<1>3. \A p \in Proc : pc'[p] = "fill" => micro'[loc'[p].cur] \subseteq {<<>>}
  BY DEF Alone
<1>4. ASSUME NEW p \in Proc, Ahead(p)'
      PROVE  /\ "unread" \notin spoiled' => TakesIn(p)'
             /\ \A b \in Body : Inline(b, memory') =>
                  Inline(b, loc'[p].next) \/ Written(p, b)' \/ Planned(p, b)'
  <2>1. Ahead(p) /\ loc'[p].next = loc[p].next /\ loc'[p].merged = loc[p].merged
    BY <1>4
  <2>2. TakesIn(p) => TakesIn(p)'
    BY <2>1 DEF TakesIn
  <2>3. \A b \in Body : (Written(p, b) => Written(p, b)') /\ (Planned(p, b) => Planned(p, b)')
    BY <2>1 DEF Written, Planned
  <2>4. QED
    BY <2>1, <2>2, <2>3 DEF Alone
<1>5. QED
  BY <1>1, <1>2, <1>3, <1>4 DEF Alone

LEMMA AloneMakePlan ==
    ASSUME Types, Alone, "overlap" \notin spoiled, NEW p \in Proc, MakePlan(p)
    PROVE  Alone'
<1> DEFINE plan == Plan(loc[p].text)
<1>1. /\ OthersStay(p) /\ pc[p] = "plan" /\ pc'[p] \in {"save", "backup"}
      /\ loc'[p].text = loc[p].text
      /\ pc'[p] = "backup" => loc'[p].next = plan.condensed
      /\ DOMAIN loc'[p].merged = DOMAIN plan.sections
      /\ \A c \in DOMAIN plan.sections : \A b \in ToSet(plan.sections[c]) :
           Covers(loc'[p].merged[c], b)
      /\ "unread" \notin spoiled' =>
           \A c \in DOMAIN plan.sections : \A f \in micro[c] :
               ToSet(f) \subseteq ToSet(loc'[p].merged[c])
  BY MakePlanEffect
<1>2. loc[p].text = memory /\ memory \in Text /\ InWindow(p)
  BY <1>1 DEF Alone, InWindow, Window, Types
<1>3. \A q \in Proc : InWindow(q) => q = p
  BY <1>2 DEF Alone
<1>4. \A q \in Proc : InWindow(q)' => q = p
  BY <1>1, <1>3 DEF OthersStay, InWindow
<1>5. UNCHANGED <<memory, micro>>
  BY DEF MakePlan
<1>6. Rewritten(memory, plan.condensed, plan.sections)
  BY <1>2, PlanFacts
<1> HIDE DEF plan
<1>7. "unread" \notin spoiled' => TakesIn(p)'
  BY <1>1, <1>5 DEF TakesIn
<1>8. ASSUME NEW b \in Body, Inline(b, memory), Ahead(p)'
      PROVE  Inline(b, loc'[p].next) \/ Planned(p, b)'
  <2>1. PICK i \in DOMAIN memory : memory[i].kind # "pointer" /\ memory[i].body = b
    BY <1>8 DEF Inline
  <2>2. loc'[p].next = plan.condensed
    BY <1>1, <1>8, AheadInWindowNext
  <2>3. CASE memory[i] \in ToSet(plan.condensed)
    BY <2>1, <2>2, <2>3 DEF Inline, ToSet
  <2>4. CASE \E c \in DOMAIN plan.sections : memory[i].body \in ToSet(plan.sections[c])
    BY <1>1, <2>1, <2>4 DEF Planned
  <2>5. QED
    BY <1>6, <2>1, <2>3, <2>4 DEF Rewritten
<1>9. \A q \in Proc : Ahead(q)' => q = p
  BY <1>4, AheadInWindowNext
<1>10. \A q \in Proc : pc'[q] # "fill"
  BY <1>1, <1>4, AheadInWindowNext DEF InWindow, Window
<1>11. QED
  BY <1>1, <1>2, <1>4, <1>5, <1>7, <1>8, <1>9, <1>10 DEF Alone

(* The microfile that is rewritten, before and after.                      *)
LEMMA AloneRewrites ==
    ASSUME Types, Alone, "overlap" \notin spoiled, NEW p \in Proc,
           EmptyMicro(p) \/ FillMicro(p)
    PROVE  /\ Alone'
           /\ \A q \in Proc : InWindow(q) => q = p
           /\ loc[p].cur \in Code /\ loc[p].cur \in DOMAIN loc[p].merged
           /\ \A c \in Code : c # loc[p].cur => micro'[c] = micro[c]
           /\ "unread" \notin spoiled \/ FillMicro(p) =>
                \A f \in micro[loc[p].cur] : ToSet(f) \subseteq ToSet(loc[p].merged[loc[p].cur])
           /\ FillMicro(p) => micro'[loc[p].cur] = {loc[p].merged[loc[p].cur]}
<1> DEFINE cur == loc[p].cur
           m == loc[p].merged
<1>1. /\ OthersStay(p) /\ pc[p] \in {"empty", "fill"} /\ pc'[p] \in {"fill", "micro"}
      /\ loc'[p].text = loc[p].text /\ loc'[p].next = loc[p].next
      /\ DOMAIN loc'[p].merged \subseteq DOMAIN m
      /\ \A c \in DOMAIN loc'[p].merged : loc'[p].merged[c] = m[c]
  BY MoveEffects, FillMicroEffect
<1>2. cur \in DOMAIN m /\ cur \in Code
  BY <1>1, LocalFacts
<1>3. InWindow(p) /\ Ahead(p)
  BY <1>1 DEF InWindow, Window, Ahead
<1>4. \A q \in Proc : InWindow(q) => q = p
  BY <1>3 DEF Alone
<1>5. \A q \in Proc : InWindow(q)' => q = p
  BY <1>1, <1>4 DEF OthersStay, InWindow
<1>6. UNCHANGED <<memory, spoiled>> /\ loc[p].text = memory
  BY <1>3 DEF EmptyMicro, FillMicro, Alone
<1>7. "unread" \notin spoiled => \A c \in DOMAIN m : \A f \in micro[c] : ToSet(f) \subseteq ToSet(m[c])
  BY <1>3 DEF Alone, TakesIn
<1>8. micro \in [Code -> SUBSET Seq(Para)]
  BY DEF Types
<1>9. \/ EmptyMicro(p) /\ micro' = [micro EXCEPT ![cur] = {<<>>}] /\ loc'[p] = loc[p]
      \/ FillMicro(p) /\ pc[p] = "fill" /\ pc'[p] = "micro" /\ micro' = [micro EXCEPT ![cur] = {m[cur]}]
         /\ DOMAIN loc'[p].merged = DOMAIN m \ {cur}
  BY FillMicroEffect, MoveEffects DEF EmptyMicro
<1>10. FillMicro(p) => micro'[cur] = {m[cur]}
  BY <1>2, <1>8, FillMicroEffect
<1>11. \A c \in Code : c # cur => micro'[c] = micro[c]
  BY <1>2, <1>8, <1>9
<1>12. ToSet(<<>>) = {}
  BY DEF ToSet
<1>13. FillMicro(p) => \A f \in micro[cur] : ToSet(f) \subseteq ToSet(m[cur])
  <2>1. FillMicro(p) => pc[p] = "fill"
    BY DEF FillMicro
  <2>2. FillMicro(p) => micro[cur] \subseteq {<<>>}
    BY <2>1 DEF Alone
  <2>3. QED
    BY <1>12, <2>2
<1>14. "unread" \notin spoiled' => TakesIn(p)'
  <2> SUFFICES ASSUME "unread" \notin spoiled, NEW c \in DOMAIN loc'[p].merged, NEW f \in micro'[c]
               PROVE  ToSet(f) \subseteq ToSet(loc'[p].merged[c])
    BY <1>6 DEF TakesIn
  <2>1. c \in DOMAIN m /\ loc'[p].merged[c] = m[c] /\ c \in Code
    BY <1>1, LocalFacts
  <2>2. CASE c = cur
    <3>1. f = <<>>
      BY <1>2, <1>8, <1>9, <2>2
    <3>2. QED
      BY <1>12, <3>1
  <2>3. CASE c # cur
    BY <1>7, <1>11, <2>1, <2>3
  <2>4. QED
    BY <2>2, <2>3
<1>15. ASSUME NEW b \in Body, Inline(b, memory)
       PROVE  Inline(b, loc'[p].next) \/ Written(p, b)' \/ Planned(p, b)'
  <2>1. Inline(b, loc[p].next) \/ Written(p, b) \/ Planned(p, b)
    BY <1>3, <1>15 DEF Alone
  <2>2. CASE Inline(b, loc[p].next)
    BY <1>1, <2>2
  <2>3. CASE Planned(p, b)
    <3>1. PICK c \in DOMAIN m : Covers(m[c], b)
      BY <2>3 DEF Planned
    <3>2. CASE c \in DOMAIN loc'[p].merged
      BY <1>1, <3>1, <3>2 DEF Planned
    <3>3. CASE c \notin DOMAIN loc'[p].merged
      <4>1. FillMicro(p) /\ c = cur
        BY <1>9, <3>1, <3>3
      <4>2. m[cur] \in micro'[cur] /\ cur \in Code
        BY <1>2, <1>10, <4>1
      <4>3. QED
        BY <3>1, <3>3, <4>1, <4>2 DEF Written
    <3>4. QED
      BY <3>2, <3>3
  <2>4. CASE Written(p, b)
    <3>1. PICK c \in Code \ DOMAIN m : \E f \in micro[c] : Covers(f, b)
      BY <2>4 DEF Written
    <3>2. micro'[c] = micro[c] /\ c \notin DOMAIN loc'[p].merged
      BY <1>1, <1>2, <1>11, <3>1
    <3>3. QED
      BY <3>1, <3>2 DEF Written
  <2>5. QED
    BY <2>1, <2>2, <2>3, <2>4
<1>16. \A q \in Proc : Ahead(q)' => q = p
  BY <1>5, AheadInWindowNext
<1>17. \A q \in Proc : pc'[q] = "fill" => micro'[loc'[q].cur] \subseteq {<<>>}
  <2> SUFFICES ASSUME NEW q \in Proc, pc'[q] = "fill" PROVE micro'[loc'[q].cur] \subseteq {<<>>}
    OBVIOUS
  <2>1. q = p
    BY <1>5 DEF InWindow, Window
  <2>2. loc'[p].cur = cur /\ micro' = [micro EXCEPT ![cur] = {<<>>}]
    BY <1>9, <2>1
  <2>3. QED
    BY <1>2, <1>8, <2>1, <2>2
<1>18. Alone'
  BY <1>1, <1>5, <1>6, <1>14, <1>15, <1>16, <1>17 DEF Alone
<1>19. QED
  BY <1>2, <1>4, <1>7, <1>10, <1>11, <1>13, <1>18

LEMMA AloneNext == Types /\ Alone /\ Next => Alone'
<1> SUFFICES ASSUME Types, Alone, Next, "overlap" \notin spoiled' PROVE Alone'
  BY DEF Alone
<1>1. "overlap" \notin spoiled
  BY SpoiledGrows
<1>0. spoiled \subseteq spoiled'
  BY SpoiledGrows
<1>2. ASSUME MemoryAdd \/ MemoryRemove PROVE Alone'
  <2>1. \A q \in Proc : ~InWindow(q)
    BY <1>2 DEF MemoryAdd, MemoryRemove, Spoil
  <2>2. pc' = pc
    BY <1>2 DEF MemoryAdd, MemoryRemove
  <2>3. QED
    BY <2>1, <2>2, NoneInWindow DEF InWindow
<1>3. CASE Tick
  <2>1. UNCHANGED <<memory, micro, pc, loc>>
    BY <1>3 DEF Tick
  <2>2. \A q \in Proc : InWindow(q)' => InWindow(q) /\ loc'[q].text = loc[q].text
    BY <2>1 DEF InWindow
  <2>3. \A q \in Proc : Ahead(q)' => /\ Ahead(q) /\ loc'[q].next = loc[q].next
                                     /\ loc'[q].merged = loc[q].merged
    BY <2>1 DEF Ahead
  <2>4. \A q \in Proc : pc'[q] = "fill" => pc[q] = "fill" /\ loc'[q].cur = loc[q].cur
    BY <2>1
  <2>5. QED
    BY <1>0, <1>1, <2>1, <2>2, <2>3, <2>4, AloneStays
<1>4. ASSUME NEW p \in Proc, OthersStay(p), UNCHANGED <<memory, micro>>,
             \/ pc'[p] \notin {"plan", "backup", "micro", "empty", "fill"}
             \/ /\ Ahead(p) /\ loc'[p].text = loc[p].text /\ loc'[p].next = loc[p].next
                /\ loc'[p].merged = loc[p].merged /\ pc'[p] # "fill"
      PROVE  Alone'
  <2>1. ASSUME NEW q \in Proc, InWindow(q)'
        PROVE  InWindow(q) /\ loc'[q].text = loc[q].text
    BY <1>4, <2>1, AheadInWindow, AheadInWindowNext DEF OthersStay, InWindow
  <2>2. ASSUME NEW q \in Proc, Ahead(q)'
        PROVE  Ahead(q) /\ loc'[q].next = loc[q].next /\ loc'[q].merged = loc[q].merged
    BY <1>4, <2>2, AheadInWindowNext DEF OthersStay, Ahead
  <2>3. \A q \in Proc : pc'[q] = "fill" => pc[q] = "fill" /\ loc'[q].cur = loc[q].cur
    BY <1>4 DEF OthersStay
  <2>4. QED
    BY <1>0, <1>1, <1>4, <2>1, <2>2, <2>3, AloneStays
<1>5. ASSUME NEW p \in Proc, Persist(p) \/ Command(p) \/ Save(p) \/ Restore(p) \/ RestoreSave(p) \/ Stop(p)
      PROVE  Alone'
  <2>1. OthersStay(p) /\ pc'[p] \in {"source", "idle", "replace"}
    BY <1>5, MoveEffects, RestoreEffect
  <2>2. UNCHANGED <<memory, micro>>
    BY <1>5 DEF Persist, Command, Start, Save, Restore, RestoreSave, Stop
  <2>3. QED
    BY <1>4, <2>1, <2>2
<1>6. ASSUME NEW p \in Proc, Backup(p) \/ BackupMicro(p)
      PROVE  Alone'
  <2>1. /\ OthersStay(p) /\ pc[p] \in {"backup", "micro"} /\ loc'[p].text = loc[p].text
        /\ loc'[p].next = loc[p].next /\ loc'[p].merged = loc[p].merged /\ pc'[p] # "fill"
    BY <1>6, BackupEffect, BackupMicroEffect
  <2>2. UNCHANGED <<memory, micro>> /\ Ahead(p)
    BY <1>6, <2>1 DEF Backup, BackupMicro, Ahead
  <2>3. QED
    BY <1>4, <2>1, <2>2
<1>7. ASSUME NEW p \in Proc, Source(p) PROVE Alone'
  <2>1. OthersStay(p) /\ pc[p] = "source" /\ pc'[p] = "plan" /\ loc'[p].text = memory
    BY <1>7, SourceEffect
  <2>2. \A q \in Proc \ {p} : ~InWindow(q)
    BY <1>7 DEF Source, Spoil
  <2>3. \A q \in Proc : InWindow(q)' => q = p
    BY <2>1, <2>2 DEF OthersStay, InWindow
  <2>4. \A q \in Proc : ~Ahead(q)' /\ pc'[q] # "fill"
    BY <2>1, <2>3, AheadInWindowNext DEF InWindow, Window
  <2>5. memory' = memory
    BY <1>7 DEF Source
  <2>6. QED
    BY <2>1, <2>3, <2>4, <2>5 DEF Alone
<1>8. ASSUME NEW p \in Proc, MakePlan(p) PROVE Alone'
  BY <1>1, <1>8, AloneMakePlan
<1>9. ASSUME NEW p \in Proc, EmptyMicro(p) \/ FillMicro(p) PROVE Alone'
  BY <1>1, <1>9, AloneRewrites
<1>10. ASSUME NEW p \in Proc, Replace(p) PROVE Alone'
  <2>1. OthersStay(p) /\ pc[p] = "micro" /\ pc'[p] = "save"
    BY <1>10, MoveEffects
  <2>2. \A q \in Proc : InWindow(q) => q = p
    BY <1>1, <2>1 DEF Alone, InWindow, Window
  <2>3. \A q \in Proc : ~InWindow(q)'
    BY <2>1, <2>2, AheadInWindowNext DEF OthersStay, InWindow
  <2>4. QED
    BY <2>3, NoneInWindow
<1>11. ASSUME NEW p \in Proc, RestoreReplace(p) PROVE Alone'
  <2>1. OthersStay(p) /\ pc'[p] = "clear"
    BY <1>11, MoveEffects
  <2>2. \A q \in Proc : ~InWindow(q)
    BY <1>11 DEF RestoreReplace, Spoil
  <2>3. \A q \in Proc : ~InWindow(q)'
    BY <2>1, <2>2, AheadInWindowNext DEF OthersStay, InWindow
  <2>4. QED
    BY <2>3, NoneInWindow
<1>12. QED
  BY <1>2, <1>3, <1>5, <1>6, <1>7, <1>8, <1>9, <1>10, <1>11 DEF Next

-------------------------------------------------------------------------------
(* What is owed is kept                                                    *)

(* A step that rewrites no microfile.                                      *)
LEMMA KeptStays ==
    ASSUME Kept, Lossless,
           micro' = micro, mfBackups' = mfBackups,
           \A q \in Proc : pc[q] = "fill" /\ loc[q].bare => pc'[q] = "fill" /\ loc'[q] = loc[q],
           \A q \in Proc : pc'[q] = "empty" => pc[q] = "empty" /\ loc'[q] = loc[q],
           \A b \in owed' : \/ Inline(b, memory') \/ InMicro(b)
                            \/ b \in owed /\ ~Inline(b, memory)
    PROVE  Kept'
<1>1. ASSUME NEW q \in Proc, pc'[q] = "empty" PROVE Safe(q)'
  BY <1>1 DEF Kept, Safe
<1>2. ASSUME NEW b \in owed'
      PROVE  Inline(b, memory') \/ InMicro(b)' \/ InBackup(b)' \/ Rewriting(b)'
  <2>1. Inline(b, memory') \/ InMicro(b) \/ InBackup(b) \/ Rewriting(b)
    BY <1>2 DEF Kept
  <2>2. InMicro(b) => InMicro(b)'
    BY DEF InMicro
  <2>3. InBackup(b) => InBackup(b)'
    BY DEF InBackup
  <2>4. Rewriting(b) => Rewriting(b)'
    BY DEF Rewriting
  <2>5. QED
    BY <2>1, <2>2, <2>3, <2>4
<1>3. QED
  BY <1>1, <1>2 DEF Kept

(* So is a step of one process that leaves no microfile half written,      *)
(* unless its backup has it.                                               *)
LEMMA KeptStep ==
    ASSUME Kept, Lossless,
           micro' = micro, mfBackups' = mfBackups, NEW p \in Proc, OthersStay(p),
           ~(pc[p] = "fill" /\ loc[p].bare), pc'[p] # "empty",
           \A b \in owed' : \/ Inline(b, memory') \/ InMicro(b)
                            \/ b \in owed /\ ~Inline(b, memory)
    PROVE  Kept'
<1>1. \A q \in Proc : pc[q] = "fill" /\ loc[q].bare => pc'[q] = "fill" /\ loc'[q] = loc[q]
  BY DEF OthersStay
<1>2. \A q \in Proc : pc'[q] = "empty" => pc[q] = "empty" /\ loc'[q] = loc[q]
  BY DEF OthersStay
<1>3. QED
  BY <1>1, <1>2, KeptStays

LEMMA KeptMemoryTool ==
    ASSUME Types, Kept, Lossless,
           MemoryAdd \/ MemoryRemove \/ Tick
    PROVE  Kept'
<1>1. UNCHANGED <<micro, mfBackups, pc, loc>>
  BY DEF MemoryAdd, MemoryRemove, Tick
<1>2. memory \in Text
  BY DEF Types
<1>3. ASSUME NEW b \in owed'
      PROVE  Inline(b, memory') \/ (b \in owed /\ ~Inline(b, memory))
  <2>1. CASE MemoryAdd
    <3>1. PICK e \in Learned : memory' = Append(memory, e) /\ owed' = owed \cup {e.body}
      BY <2>1 DEF MemoryAdd
    <3>2. e \in Entry /\ e.kind # "pointer"
      <4>1. e \in {Core(x) : x \in Body} \cup {Coded(c, x) : c \in Code, x \in Body}
        BY CodeAssumption
      <4>2. e.kind # "pointer"
        BY <4>1 DEF Core, Coded
      <4>3. QED
        BY <4>1, <4>2 DEF Entry
    <3>3. Len(memory) < MaxEntries
      BY <2>1 DEF MemoryAdd
    <3>4. /\ \A j \in DOMAIN memory : \E i \in DOMAIN memory' : memory'[i] = memory[j]
          /\ \E i \in DOMAIN memory' : memory'[i] = e
      BY <1>2, <3>1, <3>2, <3>3, EditFacts
    <3>5. CASE b = e.body
      BY <3>2, <3>4, <3>5 DEF Inline
    <3>6. CASE b # e.body
      BY <1>3, <3>1, <3>4, <3>6 DEF Inline
    <3>7. QED
      BY <3>5, <3>6
  <2>2. CASE MemoryRemove
    <3>1. PICK k \in DOMAIN memory :
            /\ memory' = RemoveAt(memory, k)
            /\ owed' = IF memory[k].kind = "pointer" THEN owed ELSE owed \ {memory[k].body}
      BY <2>2 DEF MemoryRemove
    <3>2. \A j \in DOMAIN memory \ {k} : \E i \in DOMAIN memory' : memory'[i] = memory[j]
      BY <1>2, <3>1, EditFacts
    <3>3. b \in owed /\ (memory[k].kind # "pointer" => b # memory[k].body)
      BY <1>3, <3>1
    <3>4. QED
      BY <3>2, <3>3 DEF Inline
  <2>3. CASE Tick
    BY <1>3, <2>3 DEF Tick
  <2>4. QED
    BY <2>1, <2>2, <2>3
<1>4. QED
  BY <1>1, <1>3, KeptStays

LEMMA KeptBackupMicro ==
    ASSUME Types, Alone, Kept, Lossless, Lossless', NEW p \in Proc, BackupMicro(p)
    PROVE  Kept'
<1> DEFINE t == loc[p].stamp
<1>1. PICK c, old : BackedUp(p, c, old)
  BY BackupMicroEffect
<1>2. /\ OthersStay(p) /\ pc[p] = "micro" /\ pc'[p] = "empty"
      /\ loc'[p].cur = c /\ loc'[p].stamp = t /\ loc'[p].merged = loc[p].merged
  BY <1>1, BackupMicroEffect DEF BackedUp
<1>3. /\ c \in Code
      /\ mfBackups' \in {mfBackups, [mfBackups EXCEPT ![t][c] = old]}
      /\ mfBackups' = mfBackups \/ mfBackups[t][c] \in {{}, old}
      /\ loc'[p].bare => \A f \in micro[c] : ToSet(f) \subseteq ToSet(loc[p].merged[c])
      /\ ~loc'[p].bare => micro[c] = {} \/ mfBackups' = [mfBackups EXCEPT ![t][c] = micro[c]]
  <2>1. "clash" \notin spoiled' /\ "blind" \notin spoiled'
    BY DEF Lossless
  <2>2. QED
    BY <1>1, <2>1, Zenon DEF BackedUp
<1>4. UNCHANGED <<memory, micro, owed>>
  BY DEF BackupMicro
<1>5. t \in Time /\ mfBackups \in [Time -> [Code -> SUBSET Seq(Para)]]
  BY LocalFacts DEF Types
<1> HIDE DEF t
<1>6. \A s \in Time, d \in Code : mfBackups[s][d] \subseteq mfBackups'[s][d]
  <2>1. CASE mfBackups' = mfBackups
    BY <2>1
  <2>2. CASE mfBackups' # mfBackups
    <3>1. mfBackups' = [mfBackups EXCEPT ![t][c] = old] /\ mfBackups[t][c] \in {{}, old}
      BY <1>3, <2>2
    <3>2. ASSUME NEW s \in Time, NEW d \in Code
          PROVE  mfBackups'[s][d] = IF s = t /\ d = c THEN old ELSE mfBackups[s][d]
      BY <1>5, <1>3, <3>1
    <3>3. mfBackups[t][c] \subseteq old
      BY <3>1
    <3>4. QED
      BY <3>2, <3>3
  <2>3. QED
    BY <2>1, <2>2
<1>7. ~loc'[p].bare => micro[c] \subseteq mfBackups'[t][c]
  BY <1>5, <1>3
<1>8. ASSUME NEW q \in Proc, pc'[q] = "empty" PROVE Safe(q)'
  <2>1. q = p
    <3>1. InWindow(p)
      BY <1>2 DEF InWindow, Window
    <3>2. q # p => InWindow(q)
      BY <1>2, <1>8 DEF InWindow, Window, OthersStay
    <3>3. QED
      BY <3>1, <3>2 DEF Alone, Lossless
  <2>2. QED
    BY <1>2, <1>4, <1>7, <1>3, <2>1 DEF Safe
<1>9. ASSUME NEW b \in owed'
      PROVE  Inline(b, memory') \/ InMicro(b)' \/ InBackup(b)' \/ Rewriting(b)'
  <2>1. Inline(b, memory) \/ InMicro(b) \/ InBackup(b) \/ Rewriting(b)
    BY <1>4, <1>9 DEF Kept
  <2>2. InMicro(b) => InMicro(b)'
    BY <1>4 DEF InMicro
  <2>3. InBackup(b) => InBackup(b)'
    BY <1>6 DEF InBackup
  <2>4. Rewriting(b) => Rewriting(b)'
    BY <1>2 DEF Rewriting, OthersStay
  <2>5. QED
    BY <1>4, <2>1, <2>2, <2>3, <2>4
<1>10. QED
  BY <1>8, <1>9 DEF Kept

LEMMA KeptRewrites ==
    ASSUME Types, Alone, Kept, Lossless, NEW p \in Proc, EmptyMicro(p) \/ FillMicro(p)
    PROVE  Kept'
<1> DEFINE cur == loc[p].cur
           m == loc[p].merged
<1>1. /\ \A q \in Proc : InWindow(q) => q = p
      /\ cur \in Code
      /\ \A c \in Code : c # cur => micro'[c] = micro[c]
      /\ FillMicro(p) => \A f \in micro[cur] : ToSet(f) \subseteq ToSet(m[cur])
      /\ FillMicro(p) => micro'[cur] = {m[cur]}
  <2>1. "overlap" \notin spoiled
    BY DEF Lossless
  <2>2. QED
    BY <2>1, AloneRewrites
<1>2. OthersStay(p) /\ pc'[p] # "empty"
  BY MoveEffects, FillMicroEffect
<1>3. UNCHANGED <<memory, mfBackups, owed>>
  BY DEF EmptyMicro, FillMicro
<1>4. ASSUME NEW q \in Proc, pc'[q] = "empty" PROVE FALSE
  BY <1>1, <1>2, <1>4 DEF OthersStay, InWindow, Window
<1>5. ASSUME NEW b \in owed'
      PROVE  Inline(b, memory') \/ InMicro(b)' \/ InBackup(b)' \/ Rewriting(b)'
  <2>1. Inline(b, memory) \/ InMicro(b) \/ InBackup(b) \/ Rewriting(b)
    BY <1>3, <1>5 DEF Kept
  <2>2. InBackup(b) => InBackup(b)'
    BY <1>3 DEF InBackup
  <2>3. CASE \E c \in Code : c # cur /\ \E f \in micro[c] : Covers(f, b)
    BY <1>1, <2>3 DEF InMicro, Covers
  <2>4. CASE EmptyMicro(p)
    <3>1. pc[p] = "empty" /\ pc'[p] = "fill" /\ loc'[p] = loc[p]
      BY <2>4, MoveEffects
    <3>2. ~Rewriting(b)
      BY <1>1, <3>1 DEF Rewriting, InWindow, Window
    <3>3. CASE \E f \in micro[cur] : Covers(f, b)
      <4>0. Safe(p) /\ loc[p].stamp \in Time
        BY <3>1, LocalFacts DEF Kept
      <4>1. CASE loc[p].bare
        <5>1. Covers(m[cur], b)
          BY <3>3, <4>0, <4>1 DEF Covers, Safe
        <5>2. Rewriting(b)'
          BY <3>1, <4>1, <5>1 DEF Rewriting, Covers
        <5>3. QED
          BY <5>2
      <4>2. CASE ~loc[p].bare
        <5>1. micro[cur] \subseteq mfBackups[loc[p].stamp][cur]
          BY <4>0, <4>2 DEF Safe
        <5>2. InBackup(b)
          BY <1>1, <3>3, <4>0, <5>1 DEF InBackup, Covers
        <5>3. QED
          BY <2>2, <5>2
      <4>3. QED
        BY <4>1, <4>2
    <3>4. InMicro(b) => \/ \E c \in Code : c # cur /\ \E f \in micro[c] : Covers(f, b)
                        \/ \E f \in micro[cur] : Covers(f, b)
      BY DEF InMicro, Covers
    <3>5. QED
      BY <1>3, <2>1, <2>2, <2>3, <3>2, <3>3, <3>4
  <2>5. CASE FillMicro(p)
    <3>1. Covers(m[cur], b) => InMicro(b)'
      <4>1. m[cur] \in micro'[cur]
        BY <1>1, <2>5
      <4>2. QED
        BY <1>1, <4>1 DEF InMicro, Covers
    <3>2. Rewriting(b) => Covers(m[cur], b)
      BY <1>1 DEF Rewriting, InWindow, Window
    <3>3. InMicro(b) => \/ \E c \in Code : c # cur /\ \E f \in micro[c] : Covers(f, b)
                        \/ Covers(m[cur], b)
      BY <1>1, <2>5 DEF InMicro, Covers
    <3>4. QED
      BY <1>3, <2>1, <2>2, <2>3, <3>1, <3>2, <3>3
  <2>6. QED
    BY <2>4, <2>5
<1>6. QED
  BY <1>4, <1>5 DEF Kept

LEMMA KeptNext == Types /\ Alone /\ Kept /\ Next => Kept'
<1> SUFFICES ASSUME Types, Alone, Kept, Next, Lossless'
             PROVE  Kept'
  BY DEF Kept
<1>1. Lossless /\ "overlap" \notin spoiled
  BY SpoiledGrows DEF Lossless
<1>2. CASE MemoryAdd \/ MemoryRemove \/ Tick
  BY <1>1, <1>2, KeptMemoryTool
<1>3. ASSUME NEW p \in Proc, BackupMicro(p) PROVE Kept'
  BY <1>1, <1>3, KeptBackupMicro
<1>4. ASSUME NEW p \in Proc, EmptyMicro(p) \/ FillMicro(p) PROVE Kept'
  BY <1>1, <1>4, KeptRewrites
<1>5. ASSUME NEW p \in Proc,
             \/ Persist(p) \/ Command(p) \/ Source(p) \/ MakePlan(p) \/ Backup(p)
             \/ Save(p) \/ Restore(p) \/ RestoreSave(p)
      PROVE  Kept'
  <2>1. OthersStay(p) /\ pc[p] # "fill" /\ pc'[p] # "empty"
    BY <1>5, MoveEffects, SourceEffect, MakePlanEffect, BackupEffect, RestoreEffect
  <2>2. UNCHANGED <<memory, micro, mfBackups, owed>>
    BY <1>5 DEF Persist, Command, Start, Source, MakePlan, Backup, Save, Restore, RestoreSave
  <2>3. \A b \in owed' : Inline(b, memory') \/ InMicro(b) \/ (b \in owed /\ ~Inline(b, memory))
    BY <2>2
  <2>4. QED
    BY <1>1, <2>1, <2>2, <2>3, KeptStep
<1>6. ASSUME NEW p \in Proc, Stop(p) PROVE Kept'
  <2>1. OthersStay(p) /\ pc'[p] # "empty"
    BY <1>6, MoveEffects
  <2>2. ~(pc[p] = "fill" /\ loc[p].bare)
    <3>1. "bare" \notin spoiled'
      BY DEF Lossless
    <3>2. QED
      BY <1>6, <3>1 DEF Stop
  <2>3. UNCHANGED <<memory, micro, mfBackups, owed>>
    BY <1>6 DEF Stop
  <2>4. \A b \in owed' : Inline(b, memory') \/ InMicro(b) \/ (b \in owed /\ ~Inline(b, memory))
    BY <2>3
  <2>5. QED
    BY <1>1, <2>1, <2>2, <2>3, <2>4, KeptStep
<1>7. ASSUME NEW p \in Proc, Replace(p) PROVE Kept'
  <2>1. OthersStay(p) /\ pc[p] = "micro" /\ pc'[p] = "save"
    BY <1>7, MoveEffects
  <2>2. UNCHANGED <<micro, mfBackups, owed>> /\ memory' = loc[p].next /\ DOMAIN loc[p].merged = {}
    BY <1>7 DEF Replace
  <2>3. owed \subseteq Body /\ Ahead(p)
    BY <2>1 DEF Types, Ahead
  <2>4. \A b \in owed' : Inline(b, memory') \/ InMicro(b) \/ (b \in owed /\ ~Inline(b, memory))
    <3>1. \A b : Written(p, b) => InMicro(b)
      BY DEF Written, InMicro, Covers
    <3>2. \A b : ~Planned(p, b)
      BY <2>2 DEF Planned
    <3>3. QED
      BY <1>1, <2>2, <2>3, <3>1, <3>2 DEF Alone
  <2>5. QED
    BY <1>1, <2>1, <2>2, <2>4, KeptStep
<1>8. ASSUME NEW p \in Proc, RestoreReplace(p) PROVE Kept'
  <2>1. OthersStay(p) /\ pc[p] = "replace" /\ pc'[p] = "clear"
    BY <1>8, MoveEffects
  <2>2. /\ UNCHANGED <<micro, mfBackups>> /\ memory' = loc[p].text
        /\ owed' = {b \in owed : Inline(b, loc[p].text) \/ InMicro(b)}
    BY <1>8 DEF RestoreReplace
  <2>3. \A b \in owed' : Inline(b, memory') \/ InMicro(b) \/ (b \in owed /\ ~Inline(b, memory))
    BY <2>2
  <2>4. QED
    BY <1>1, <2>1, <2>2, <2>3, KeptStep
<1>9. QED
  BY <1>2, <1>3, <1>4, <1>5, <1>6, <1>7, <1>8 DEF Next

LEMMA AloneInit == Init => Alone /\ Kept /\ Answers
<1> SUFFICES ASSUME Init PROVE Alone /\ Kept /\ Answers
  OBVIOUS
<1>1. \A p \in Proc : pc[p] = "idle" /\ loc[p].text = <<>>
  BY DEF Init, NoLocal
<1>2. Alone
  BY <1>1, AheadInWindow DEF Alone
<1>3. Kept
  BY <1>1 DEF Init, Kept
<1>4. Answers
  BY <1>1, AheadInWindow DEF Init, Answers, AllAnswered
<1>5. QED
  BY <1>2, <1>3, <1>4

LEMMA SafeAlways == Spec => [](Types /\ Alone /\ Kept)
<1>1. Init => Types /\ Alone /\ Kept
  BY TypesInit, AloneInit
<1>2. Types /\ Alone /\ Kept /\ [Next]_vars => (Types /\ Alone /\ Kept)'
  <2> SUFFICES ASSUME Types, Alone, Kept, [Next]_vars PROVE (Types /\ Alone /\ Kept)'
    OBVIOUS
  <2>1. Types'
    BY TypesNext
  <2>2. CASE Next
    BY <2>1, <2>2, AloneNext, KeptNext
  <2>3. CASE UNCHANGED vars
    BY <2>1, <2>3 DEF vars, Alone, Kept, Lossless, Safe, TakesIn, Written, Planned, Ahead, InWindow,
                      InMicro, InBackup, Rewriting
  <2>4. QED
    BY <2>2, <2>3
<1>3. QED
  BY <1>1, <1>2, PTL DEF Spec

(* An existing microfile is merged into and backed up (refine.py:21-22),   *)
(* for any number of processes and of runs, kills, failed reads and        *)
(* restores: as long as no run reads or writes MEMORY.md under another's   *)
(* hands, no backup is written over a different one, and no microfile is   *)
(* rewritten that could not be read to be merged and backed up, or cut     *)
(* that was not backed up, what the memory tool wrote and did not take     *)
(* back is somewhere.                                                      *)
THEOREM EntriesKeptAlways == Spec => []EntriesKept
<1>1. Types /\ Kept => EntriesKept
  <2> SUFFICES ASSUME Types, Kept, Lossless, NEW b \in owed
               PROVE  Inline(b, memory) \/ InMicro(b) \/ InBackup(b) \/ InHand(b)
    BY DEF EntriesKept, Lossless
  <2>1. Rewriting(b) => InHand(b)
    BY DEF Rewriting, InHand, Covers
  <2>2. QED
    BY <2>1 DEF Kept
<1>2. QED
  BY <1>1, SafeAlways, PTL

-------------------------------------------------------------------------------
(* Pointers answer                                                         *)

LEMMA AnsweredStays ==
    ASSUME Types, Alone, Next, NEW e, e.code \in Code, Answered(e),
           spoiled' \cap {"overlap", "cut", "unread"} = {}
    PROVE  Answered(e)'
<1>1. "overlap" \notin spoiled /\ "unread" \notin spoiled
  BY SpoiledGrows
<1>2. ASSUME UNCHANGED micro,
             \A q \in Proc : pc[q] = "fill" => pc'[q] = "fill" /\ loc'[q] = loc[q]
      PROVE  Answered(e)'
  BY <1>2 DEF Answered
<1>3. CASE MemoryAdd \/ MemoryRemove \/ Tick
  BY <1>2, <1>3 DEF MemoryAdd, MemoryRemove, Tick
<1>4. ASSUME NEW p \in Proc, OthersStay(p), pc[p] # "fill", UNCHANGED micro
      PROVE  Answered(e)'
  BY <1>2, <1>4 DEF OthersStay
<1>5. ASSUME NEW p \in Proc,
             \/ Persist(p) \/ Command(p) \/ Source(p) \/ MakePlan(p) \/ Backup(p) \/ BackupMicro(p)
             \/ Replace(p) \/ Save(p) \/ Restore(p) \/ RestoreReplace(p) \/ RestoreSave(p)
      PROVE  Answered(e)'
  <2>1. OthersStay(p) /\ pc[p] # "fill"
    BY <1>5, MoveEffects, SourceEffect, MakePlanEffect, BackupEffect, BackupMicroEffect, RestoreEffect
  <2>2. UNCHANGED micro
    BY <1>5 DEF Persist, Command, Start, Source, MakePlan, Backup, BackupMicro, Replace, Save,
                Restore, RestoreReplace, RestoreSave
  <2>3. QED
    BY <1>4, <2>1, <2>2
<1>6. ASSUME NEW p \in Proc, Stop(p) PROVE Answered(e)'
  <2>1. pc[p] # "fill"
    <3>1. "cut" \notin spoiled'
      OBVIOUS
    <3>2. QED
      BY <1>6, <3>1 DEF Stop
  <2>2. OthersStay(p) /\ UNCHANGED micro
    BY <1>6, MoveEffects DEF Stop
  <2>3. QED
    BY <1>4, <2>1, <2>2
<1>7. ASSUME NEW p \in Proc, EmptyMicro(p) \/ FillMicro(p) PROVE Answered(e)'
  <2> DEFINE cur == loc[p].cur
             m == loc[p].merged
  <2>1. /\ \A q \in Proc : InWindow(q) => q = p
        /\ cur \in Code
        /\ \A c \in Code : c # cur => micro'[c] = micro[c]
        /\ \A f \in micro[cur] : ToSet(f) \subseteq ToSet(m[cur])
        /\ FillMicro(p) => micro'[cur] = {m[cur]}
    BY <1>1, <1>7, AloneRewrites
  <2>2. \A q \in Proc : pc[q] = "fill" => q = p
    BY <2>1 DEF InWindow, Window
  <2>3. CASE e.code # cur
    <3>1. \E f \in micro[e.code] : Covers(f, e.body)
      BY <2>2, <2>3 DEF Answered
    <3>2. QED
      BY <2>1, <2>3, <3>1 DEF Answered
  <2>4. CASE e.code = cur
    <3>1. Covers(m[cur], e.body)
      BY <2>1, <2>2, <2>4 DEF Answered, Covers
    <3>2. CASE FillMicro(p)
      <4>1. m[cur] \in micro'[e.code]
        BY <2>1, <2>4, <3>2
      <4>2. QED
        BY <3>1, <4>1 DEF Answered
    <3>3. CASE EmptyMicro(p)
      <4>1. pc'[p] = "fill" /\ loc'[p] = loc[p]
        BY <3>3, MoveEffects
      <4>2. QED
        BY <2>4, <3>1, <4>1 DEF Answered
    <3>4. QED
      BY <1>7, <3>2, <3>3
  <2>5. QED
    BY <2>3, <2>4
<1>8. QED
  BY <1>3, <1>5, <1>6, <1>7 DEF Next

LEMMA EachStays ==
    ASSUME Types, Alone, Next, spoiled' \cap {"overlap", "cut", "unread"} = {}
    PROVE  \A e \in Entry : e.kind = "pointer" /\ Answered(e) => Answered(e)'
BY AnsweredStays, EntryFacts

LEMMA AnswersMemory ==
    ASSUME Types, Alone, Answers, Next, spoiled' \cap {"overlap", "cut", "unread"} = {}
    PROVE  AllAnswered(memory)'
<1> SUFFICES ASSUME NEW i \in DOMAIN memory', NEW e, e = memory'[i], e.kind = "pointer"
             PROVE  Answered(e)'
  BY DEF AllAnswered, Answered
<1>1. spoiled \cap {"overlap", "cut", "unread"} = {}
  BY SpoiledGrows
<1>2. memory \in Text /\ memory' \in Text
  BY TypesNext DEF Types
<1>3. e \in Entry
  BY <1>2, TextFacts
<1>4. ASSUME NEW j \in DOMAIN memory, e = memory[j] PROVE Answered(e)
  BY <1>1, <1>4 DEF Answers, AllAnswered
<1>5. Answered(e)
  <2>1. CASE UNCHANGED memory
    BY <1>4, <2>1
  <2>2. CASE MemoryAdd
    <3>1. PICK x \in Learned : memory' = Append(memory, x)
      BY <2>2 DEF MemoryAdd
    <3>2. x \in Entry /\ x.kind # "pointer"
      <4>1. x \in {Core(b) : b \in Body} \cup {Coded(c, b) : c \in Code, b \in Body}
        BY CodeAssumption
      <4>2. x.kind # "pointer"
        BY <4>1 DEF Core, Coded
      <4>3. QED
        BY <4>1, <4>2 DEF Entry
    <3>3. Len(memory) < MaxEntries
      BY <2>2 DEF MemoryAdd
    <3>4. \A k \in DOMAIN memory' : memory'[k] = x \/ \E j \in DOMAIN memory : memory'[k] = memory[j]
      BY <1>2, <3>1, <3>2, <3>3, EditFacts
    <3>5. QED
      BY <1>4, <3>2, <3>4
  <2>3. CASE MemoryRemove
    <3>1. PICK k \in DOMAIN memory : memory' = RemoveAt(memory, k)
      BY <2>3 DEF MemoryRemove
    <3>2. \A n \in DOMAIN memory' : \E j \in DOMAIN memory : memory'[n] = memory[j]
      BY <1>2, <3>1, EditFacts
    <3>3. QED
      BY <1>4, <3>2
  <2>4. ASSUME NEW p \in Proc, Replace(p) PROVE Answered(e)
    <3>1. memory' = loc[p].next /\ DOMAIN loc[p].merged = {} /\ Ahead(p)
      BY <2>4 DEF Replace, Ahead
    <3>2. QED
      BY <1>1, <3>1 DEF Answers
  <2>5. ASSUME NEW p \in Proc, RestoreReplace(p) PROVE Answered(e)
    <3>1. memory' = loc[p].text
      BY <2>5 DEF RestoreReplace
    <3>2. QED
      BY <1>1, <3>1 DEF Answers, AllAnswered
  <2>6. UNCHANGED memory \/ MemoryAdd \/ MemoryRemove
        \/ \E p \in Proc : Replace(p) \/ RestoreReplace(p)
    BY PlansChangeNoFile, OthersWriteNo, Zenon DEF Next
  <2>7. QED
    BY <2>1, <2>2, <2>3, <2>4, <2>5, <2>6
<1>6. QED
  BY <1>3, <1>5, EachStays

LEMMA AnswersBackups ==
    ASSUME Types, Alone, Answers, Next, spoiled' \cap {"overlap", "cut", "unread"} = {}, NEW t \in Time
    PROVE  (\A text \in backups[t] : AllAnswered(text))'
<1> SUFFICES ASSUME NEW text \in backups'[t], NEW i \in DOMAIN text, text[i].kind = "pointer"
             PROVE  Answered(text[i])'
  BY DEF AllAnswered
<1> DEFINE e == text[i]
<1>1. spoiled \cap {"overlap", "cut", "unread"} = {}
  BY SpoiledGrows
<1>2. e \in Entry
  <2>1. text \in Text
    BY TypesNext DEF Types
  <2>2. QED
    BY <2>1, TextFacts
<1>3. text \in backups[t] \/ \E p \in Proc : text = loc[p].text
  <2>1. ASSUME NEW p \in Proc, Backup(p) PROVE text \in backups[t] \/ text = loc[p].text
    <3>1. backups' = [backups EXCEPT ![now] = {loc[p].text}] /\ backups \in [Time -> SUBSET Text]
      BY <2>1 DEF Backup, Types
    <3>2. backups'[t] \in {backups[t], {loc[p].text}}
      BY <3>1
    <3>3. QED
      BY <3>2
  <2>2. UNCHANGED backups \/ \E p \in Proc : Backup(p)
    BY PlansChangeNoFile, OthersWriteNo, Zenon DEF Next
  <2>3. QED
    BY <2>1, <2>2
<1>4. Answered(e)
  BY <1>1, <1>3 DEF Answers, AllAnswered
<1> HIDE DEF e
<1>5. e.kind = "pointer"
  BY DEF e
<1>6. Answered(e)'
  BY <1>2, <1>4, <1>5, EachStays
<1>7. QED
  BY <1>6 DEF e

LEMMA AnswersTexts ==
    ASSUME Types, Alone, Answers, Next, spoiled' \cap {"overlap", "cut", "unread"} = {}, NEW q \in Proc
    PROVE  AllAnswered(loc[q].text)'
<1> SUFFICES ASSUME NEW text, text = loc'[q].text, NEW i \in DOMAIN text, NEW e, e = text[i],
                    e.kind = "pointer"
             PROVE  Answered(e)'
  BY DEF AllAnswered, Answered
<1>1. spoiled \cap {"overlap", "cut", "unread"} = {}
  BY SpoiledGrows
<1>2. e \in Entry
  <2>1. Types'
    BY TypesNext
  <2>2. text \in Text
    BY <2>1 DEF Types, Local
  <2>3. QED
    BY <2>2, TextFacts
<1>3. \/ text = loc[q].text \/ text = memory
      \/ \E t \in Time : text \in backups[t]
  <2>1. DOMAIN <<>> = {}
    OBVIOUS
  <2>2. NoLocal.text = <<>>
    BY DEF NoLocal
  <2>3. ASSUME MemoryAdd \/ MemoryRemove \/ Tick PROVE text = loc[q].text
    BY <2>3 DEF MemoryAdd, MemoryRemove, Tick
  <2>4. ASSUME NEW p \in Proc, OthersStay(p), loc'[p].text = loc[p].text PROVE text = loc[q].text
    BY <2>4 DEF OthersStay
  <2>5. ASSUME NEW p \in Proc,
               \/ MakePlan(p) \/ Backup(p) \/ BackupMicro(p) \/ EmptyMicro(p)
               \/ FillMicro(p) \/ Replace(p) \/ RestoreReplace(p)
        PROVE  text = loc[q].text
    <3>1. OthersStay(p) /\ loc'[p].text = loc[p].text
      BY <2>5, MoveEffects, MakePlanEffect, BackupEffect, BackupMicroEffect, FillMicroEffect
    <3>2. QED
      BY <2>4, <3>1
  <2>6. ASSUME NEW p \in Proc,
               Persist(p) \/ Command(p) \/ Save(p) \/ RestoreSave(p) \/ Stop(p)
        PROVE  text = loc[q].text
    <3>1. OthersStay(p) /\ loc'[p].text = <<>>
      BY <2>2, <2>6, MoveEffects
    <3>2. CASE q = p
      BY <2>1, <3>1, <3>2
    <3>3. CASE q # p
      BY <3>1, <3>3 DEF OthersStay
    <3>4. QED
      BY <3>2, <3>3
  <2>7. ASSUME NEW p \in Proc, Source(p) PROVE text = loc[q].text \/ text = memory
    BY <2>7, SourceEffect DEF OthersStay
  <2>8. ASSUME NEW p \in Proc, Restore(p)
        PROVE  text = loc[q].text \/ \E t \in Time : text \in backups[t]
    BY <2>8, RestoreEffect DEF OthersStay
  <2>9. QED
    BY <2>3, <2>5, <2>6, <2>7, <2>8 DEF Next
<1>4. Answered(e)
  BY <1>1, <1>3 DEF Answers, AllAnswered
<1>5. QED
  BY <1>2, <1>4, EachStays

LEMMA AnswersMakePlan ==
    ASSUME Types, Alone, Answers, spoiled \cap {"overlap", "cut", "unread"} = {},
           NEW p \in Proc, MakePlan(p), pc'[p] = "backup",
           NEW i \in DOMAIN loc'[p].next, NEW e, e = loc'[p].next[i],
           e.kind = "pointer"
    PROVE  \/ Answered(e)
           \/ e.code \in DOMAIN loc'[p].merged /\ Covers(loc'[p].merged[e.code], e.body)
<1> DEFINE plan == Plan(loc[p].text)
<1>1. /\ loc'[p].next = plan.condensed
      /\ DOMAIN loc'[p].merged = DOMAIN plan.sections
      /\ \A c \in DOMAIN plan.sections : \A b \in ToSet(plan.sections[c]) :
           Covers(loc'[p].merged[c], b)
  BY MakePlanEffect
<1>2. loc[p].text \in Text
  BY LocalFacts
<1>3. Rewritten(loc[p].text, plan.condensed, plan.sections)
  BY <1>2, PlanFacts
<1> HIDE DEF plan
<1>5. e \in ToSet(plan.condensed)
  BY <1>1 DEF ToSet
<1>6. CASE e \in ToSet(loc[p].text)
  <2>1. PICK j \in DOMAIN loc[p].text : e = loc[p].text[j]
    BY <1>6 DEF ToSet
  <2>2. QED
    BY <2>1 DEF Answers, AllAnswered
<1>7. CASE e.code \in DOMAIN plan.sections /\ e.body \in ToSet(plan.sections[e.code])
  BY <1>1, <1>7
<1>8. QED
  BY <1>3, <1>5, <1>6, <1>7 DEF Rewritten

LEMMA AnswersAhead ==
    ASSUME Types, Alone, Answers, Next, spoiled' \cap {"overlap", "cut", "unread"} = {},
           NEW q \in Proc, Ahead(q)', NEW i \in DOMAIN loc'[q].next, NEW e, e = loc'[q].next[i],
           e.kind = "pointer"
    PROVE  \/ Answered(e)'
           \/ e.code \in DOMAIN loc'[q].merged /\ Covers(loc'[q].merged[e.code], e.body)
<1>1. spoiled \cap {"overlap", "cut", "unread"} = {} /\ "overlap" \notin spoiled
  BY SpoiledGrows
<1>2. e \in Entry
  <2>1. Types'
    BY TypesNext
  <2>2. loc'[q].next \in Text
    BY <2>1 DEF Types, Local
  <2>3. QED
    BY <2>2, TextFacts
<1>3. Answered(e) => Answered(e)'
  BY <1>2, EachStays
<1>4. ASSUME Ahead(q), loc'[q].next = loc[q].next,
             \/ Answered(e)'
             \/ e.code \notin DOMAIN loc[q].merged
             \/ e.code \in DOMAIN loc'[q].merged /\ loc'[q].merged[e.code] = loc[q].merged[e.code]
      PROVE  \/ Answered(e)'
             \/ e.code \in DOMAIN loc'[q].merged /\ Covers(loc'[q].merged[e.code], e.body)
  <2>1. \/ Answered(e)
        \/ e.code \in DOMAIN loc[q].merged /\ Covers(loc[q].merged[e.code], e.body)
    BY <1>1, <1>4 DEF Answers
  <2>2. QED
    BY <1>3, <1>4, <2>1
<1>5. ASSUME pc'[q] = pc[q], loc'[q] = loc[q]
      PROVE  \/ Answered(e)'
             \/ e.code \in DOMAIN loc'[q].merged /\ Covers(loc'[q].merged[e.code], e.body)
  <2>1. Ahead(q)
    BY <1>5 DEF Ahead
  <2>2. QED
    BY <1>4, <1>5, <2>1
<1>6. CASE MemoryAdd \/ MemoryRemove \/ Tick
  BY <1>5, <1>6 DEF MemoryAdd, MemoryRemove, Tick
<1>7. ASSUME NEW p \in Proc, OthersStay(p), q # p
      PROVE  \/ Answered(e)'
             \/ e.code \in DOMAIN loc'[q].merged /\ Covers(loc'[q].merged[e.code], e.body)
  BY <1>5, <1>7 DEF OthersStay
<1>8. ASSUME NEW p \in Proc, MakePlan(p)
      PROVE  \/ Answered(e)'
             \/ e.code \in DOMAIN loc'[q].merged /\ Covers(loc'[q].merged[e.code], e.body)
  <2>1. CASE q = p
    <3>0. pc'[q] = "backup"
      BY <1>8, <2>1, MakePlanEffect, AheadInWindowNext
    <3>1. \/ Answered(e)
          \/ e.code \in DOMAIN loc'[q].merged /\ Covers(loc'[q].merged[e.code], e.body)
      BY <1>1, <1>8, <2>1, <3>0, AnswersMakePlan
    <3>2. QED
      BY <1>3, <3>1
  <2>2. CASE q # p
    BY <1>7, <1>8, <2>2, MakePlanEffect
  <2>3. QED
    BY <2>1, <2>2
<1>9. ASSUME NEW p \in Proc, Backup(p) \/ BackupMicro(p) \/ EmptyMicro(p)
      PROVE  \/ Answered(e)'
             \/ e.code \in DOMAIN loc'[q].merged /\ Covers(loc'[q].merged[e.code], e.body)
  <2>1. /\ OthersStay(p) /\ pc[p] \in {"backup", "micro", "empty"}
        /\ loc'[p].next = loc[p].next /\ loc'[p].merged = loc[p].merged
    BY <1>9, BackupEffect, BackupMicroEffect, MoveEffects
  <2>2. CASE q = p
    <3>1. Ahead(q)
      BY <2>1, <2>2 DEF Ahead
    <3>2. QED
      BY <1>4, <2>1, <2>2, <3>1
  <2>3. CASE q # p
    BY <1>7, <2>1, <2>3
  <2>4. QED
    BY <2>2, <2>3
<1>10. ASSUME NEW p \in Proc, FillMicro(p)
       PROVE  \/ Answered(e)'
              \/ e.code \in DOMAIN loc'[q].merged /\ Covers(loc'[q].merged[e.code], e.body)
  <2> DEFINE cur == loc[p].cur
  <2>1. /\ OthersStay(p) /\ pc[p] = "fill" /\ loc'[p].next = loc[p].next
        /\ cur \in Code
        /\ micro' = [micro EXCEPT ![cur] = {loc[p].merged[cur]}]
        /\ DOMAIN loc'[p].merged = DOMAIN loc[p].merged \ {cur}
        /\ \A c \in DOMAIN loc'[p].merged : loc'[p].merged[c] = loc[p].merged[c]
    BY <1>10, FillMicroEffect
  <2> HIDE DEF cur
  <2>2. CASE q = p
    <3>1. Ahead(q)
      BY <2>1, <2>2 DEF Ahead
    <3>2. CASE e.code = cur
      <4>1. \/ Answered(e)
            \/ e.code \in DOMAIN loc[q].merged /\ Covers(loc[q].merged[e.code], e.body)
        BY <1>1, <2>1, <2>2, <3>1 DEF Answers
      <4>2. loc[p].merged[cur] \in micro'[cur]
        BY <2>1 DEF Types
      <4>3. Covers(loc[q].merged[e.code], e.body) => Answered(e)'
        BY <2>2, <3>2, <4>2 DEF Answered
      <4>4. QED
        BY <1>3, <4>1, <4>3
    <3>3. CASE e.code # cur
      <4>1. e.code \in DOMAIN loc[q].merged =>
              e.code \in DOMAIN loc'[q].merged /\ loc'[q].merged[e.code] = loc[q].merged[e.code]
        BY <2>1, <2>2, <3>3
      <4>2. QED
        BY <1>4, <2>1, <2>2, <3>1, <4>1
    <3>4. QED
      BY <3>2, <3>3
  <2>3. CASE q # p
    BY <1>7, <2>1, <2>3
  <2>4. QED
    BY <2>2, <2>3
<1>11. ASSUME NEW p \in Proc,
              \/ Persist(p) \/ Command(p) \/ Source(p) \/ Replace(p) \/ Save(p)
              \/ Restore(p) \/ RestoreReplace(p) \/ RestoreSave(p) \/ Stop(p)
       PROVE  \/ Answered(e)'
              \/ e.code \in DOMAIN loc'[q].merged /\ Covers(loc'[q].merged[e.code], e.body)
  <2>1. OthersStay(p) /\ pc'[p] \notin {"backup", "micro", "empty", "fill"}
    BY <1>11, MoveEffects, SourceEffect, RestoreEffect
  <2>2. q # p
    BY <2>1, AheadInWindowNext
  <2>3. QED
    BY <1>7, <2>1, <2>2
<1>12. QED
  BY <1>6, <1>8, <1>9, <1>10, <1>11 DEF Next

LEMMA AnswersNext == Types /\ Alone /\ Answers /\ Next => Answers'
<1> SUFFICES ASSUME Types, Alone, Answers, Next, spoiled' \cap {"overlap", "cut", "unread"} = {}
             PROVE  Answers'
  BY DEF Answers
<1>1. AllAnswered(memory)'
  BY AnswersMemory
<1>2. \A t \in Time : (\A text \in backups[t] : AllAnswered(text))'
  BY AnswersBackups
<1>3. \A q \in Proc : AllAnswered(loc[q].text)'
  BY AnswersTexts
<1>4. ASSUME NEW q \in Proc, Ahead(q)', NEW i \in DOMAIN loc'[q].next
      PROVE  (LET e == loc[q].next[i]
              IN  e.kind = "pointer" =>
                    \/ Answered(e)
                    \/ e.code \in DOMAIN loc[q].merged /\ Covers(loc[q].merged[e.code], e.body))'
  <2> SUFFICES ASSUME NEW e, e = loc'[q].next[i], e.kind = "pointer"
               PROVE  \/ Answered(e)'
                      \/ e.code \in DOMAIN loc'[q].merged /\ Covers(loc'[q].merged[e.code], e.body)
    BY DEF Answered
  <2>1. QED
    BY <1>4, AnswersAhead
<1>5. QED
  BY <1>1, <1>2, <1>3, <1>4 DEF Answers

(* A pointer answers (refine.py:473-490 before 492-496), for any number of *)
(* processes and of runs and restores, as long as no run reads or writes   *)
(* MEMORY.md under another's hands, no microfile is cut and none is        *)
(* rewritten that could not be read.                                       *)
THEOREM PointersAnswerAlways == Spec => []PointersAnswer
<1>1. Types /\ Alone /\ Answers /\ [Next]_vars => Answers'
  <2> SUFFICES ASSUME Types, Alone, Answers, [Next]_vars PROVE Answers'
    OBVIOUS
  <2>1. CASE Next
    BY <2>1, AnswersNext
  <2>2. CASE UNCHANGED vars
    BY <2>2 DEF vars, Answers, AllAnswered, Answered, Ahead
  <2>3. QED
    BY <2>1, <2>2
<1>2. Init => Answers
  BY AloneInit
<1>3. Types /\ Answers => PointersAnswer
  <2> SUFFICES ASSUME Answers, spoiled \cap {"overlap", "cut", "unread"} = {}, NEW i \in DOMAIN memory,
                      memory[i].kind = "pointer"
               PROVE  \/ Writing(memory[i].code)
                      \/ \E f \in micro[memory[i].code] : ToSet(Paras[memory[i].body]) \subseteq ToSet(f)
    BY DEF PointersAnswer
  <2>1. Answered(memory[i])
    BY DEF Answers, AllAnswered
  <2>2. QED
    BY <2>1 DEF Answered, Writing, Covers
<1>4. QED
  BY <1>1, <1>2, <1>3, SafeAlways, PTL DEF Spec

-------------------------------------------------------------------------------
(* A rewritten text is settled: a refine of it extracts no inline code     *)

(* What one entry adds to the bodies of a code.                            *)
BodyOf(c, e) == IF e.kind = "coded" /\ e.code = c THEN <<e.body>> ELSE <<>>

LEMMA InlineBodiesType ==
    ASSUME NEW text \in Seq(Entry), NEW c
    PROVE  InlineBodies(c, text) \in Seq(Body)
<1> DEFINE parts == [i \in DOMAIN text |-> BodyOf(c, text[i])]
<1>1. Len(text) \in Nat /\ DOMAIN text = 1..Len(text) /\ \A i \in 1..Len(text) : text[i] \in Entry
  OBVIOUS
<1>2. ASSUME NEW i \in 1..Len(text) PROVE parts[i] \in Seq(Body)
  <2>1. text[i].body \in Body
    BY <1>1, EntryFacts
  <2>2. <<text[i].body>> \in Seq(Body) /\ <<>> \in Seq(Body)
    BY <2>1
  <2>3. QED
    BY <1>1, <2>2 DEF BodyOf
<1>3. parts = [i \in 1..Len(text) |-> parts[i]] /\ InlineBodies(c, text) = FlattenSeq(parts)
  <2>1. InlineBodies(c, text) = FlattenSeq(parts)
    BY Zenon DEF InlineBodies, BodyOf
  <2>2. QED
    BY <1>1, <2>1
<1> HIDE DEF parts
<1>4. parts \in Seq(Seq(Body))
  BY <1>1, <1>2, <1>3, IsASeq
<1>5. QED
  BY <1>3, <1>4, FlattenType

LEMMA InlineBodiesAppend ==
    ASSUME NEW text \in Seq(Entry), NEW e \in Entry, NEW c
    PROVE  InlineBodies(c, Append(text, e)) = InlineBodies(c, text) \o BodyOf(c, e)
<1> DEFINE parts == [i \in DOMAIN text |-> BodyOf(c, text[i])]
           more == [i \in DOMAIN Append(text, e) |-> BodyOf(c, Append(text, e)[i])]
<1>1. ASSUME NEW x \in Entry PROVE BodyOf(c, x) \in Seq(Body)
  <2>1. x.body \in Body
    BY EntryFacts
  <2>2. <<x.body>> \in Seq(Body) /\ <<>> \in Seq(Body)
    BY <2>1
  <2>3. QED
    BY <2>2 DEF BodyOf
<1>2. /\ Len(text) \in Nat /\ DOMAIN text = 1..Len(text) /\ \A i \in 1..Len(text) : text[i] \in Entry
      /\ Len(Append(text, e)) = Len(text) + 1 /\ DOMAIN Append(text, e) = 1..(Len(text) + 1)
      /\ Append(text, e)[Len(text) + 1] = e
      /\ \A i \in 1..Len(text) : Append(text, e)[i] = text[i]
  OBVIOUS
<1>3. parts = [i \in 1..Len(text) |-> parts[i]] /\ \A i \in 1..Len(text) : parts[i] \in Seq(Body)
  BY <1>1, <1>2
<1>4. \A i \in 1..Len(text) : more[i] = parts[i]
  BY <1>2
<1>5. more = [i \in 1..(Len(text) + 1) |-> more[i]] /\ more[Len(text) + 1] = BodyOf(c, e)
  BY <1>2
<1>6. InlineBodies(c, text) = FlattenSeq(parts) /\ InlineBodies(c, Append(text, e)) = FlattenSeq(more)
  BY Zenon DEF InlineBodies, BodyOf
<1>7. BodyOf(c, e) \in Seq(Body)
  BY <1>1
<1> HIDE DEF parts, more
<1>8. parts \in Seq(Seq(Body)) /\ Len(parts) = Len(text)
  BY <1>2, <1>3, IsASeq
<1>9. more = Append(parts, BodyOf(c, e))
  <2> DEFINE added == Append(parts, BodyOf(c, e))
             u == BodyOf(c, e)
  <2>1. /\ added \in Seq(Seq(Body)) /\ Len(added) = Len(text) + 1
        /\ added[Len(text) + 1] = u
        /\ \A i \in 1..Len(text) : added[i] = parts[i]
    <3> HIDE DEF u
    <3>1. u \in Seq(Body)
      BY <1>7 DEF u
    <3> DEFINE K == Seq(Body)
    <3>2. parts \in Seq(K) /\ u \in K
      BY <1>8, <3>1
    <3> HIDE DEF K
    <3>3. /\ added \in Seq(K) /\ Len(added) = Len(parts) + 1
          /\ \A i \in 1..Len(parts) : added[i] = parts[i]
          /\ added[Len(parts) + 1] = u
      <4>1. added = Append(parts, u)
        BY DEF u
      <4> HIDE DEF added
      <4>2. QED
        BY <3>2, <4>1, AppendProperties, ZenonT(40)
    <3>4. QED
      BY <1>8, <3>3, Zenon DEF K
  <2> HIDE DEF added, u
  <2>2. added = [i \in 1..(Len(text) + 1) |-> added[i]]
    BY <1>2, <2>1
  <2>3. \A i \in 1..(Len(text) + 1) : i \in 1..Len(text) \/ i = Len(text) + 1
    BY <1>2
  <2>4. \A i \in 1..(Len(text) + 1) : more[i] = added[i]
    BY <1>4, <1>5, <2>1, <2>3 DEF u
  <2>5. QED
    BY <1>5, <2>2, <2>4 DEF added
<1>10. QED
  BY <1>6, <1>7, <1>8, <1>9, FlattenAppend

(* What the plan puts in the places of the entries, with regard to the     *)
(* inline codes that are not extracted.                                    *)
Stays(part, e, sections) ==
    part = <<e>> /\ (e.kind = "coded" => e.code \notin DOMAIN sections)

Goes(part, e, sections) ==
    /\ part = <<>> \/ \E c \in Code, b \in Body : part = <<Pointer(c, b)>>
    /\ e.kind = "coded" => e.code \in DOMAIN sections

CondensedFrom(parts, text, sections) ==
    /\ Len(parts) = Len(text)
    /\ \A i \in DOMAIN text : \/ Stays(parts[i], text[i], sections)
                             \/ Goes(parts[i], text[i], sections)

Slots(promoted, sections, text) == [i \in DOMAIN text |-> Slot(text[i], promoted, DOMAIN sections)]

LEMMA CondensedParts ==
    ASSUME NEW text \in Text, NEW promoted, NEW sections, Extracted(sections, promoted, text)
    PROVE  \E parts \in Seq(Seq(Entry)) :
             /\ PlanWith(promoted, sections, text).condensed = FlattenSeq(parts)
             /\ CondensedFrom(parts, text, sections)
             /\ \A i \in DOMAIN text :
                    parts[i] = Placed(Slots(promoted, sections, text), sections, text, i)
<1> DEFINE slot == [i \in DOMAIN text |-> Slot(text[i], promoted, DOMAIN sections)]
           parts == [i \in DOMAIN text |-> Placed(slot, sections, text, i)]
<1>1. /\ Len(text) \in Nat /\ DOMAIN text = 1..Len(text)
      /\ \A i \in DOMAIN text : text[i] \in Entry
      /\ DOMAIN sections \subseteq Code
  BY TextFacts DEF Extracted
<1>2. PlanWith(promoted, sections, text).condensed = FlattenSeq(parts)
  <2>1. PlanWith(promoted, sections, text).condensed = Condense(slot, sections, text)
    BY DEF PlanWith
  <2> HIDE DEF slot
  <2>2. QED
    BY <2>1, Zenon DEF Condense, Placed
<1>3. ASSUME NEW i \in DOMAIN text
      PROVE  LET e == text[i]
             IN  /\ e.kind = "core" /\ e.body \in DOMAIN promoted => slot[i] = promoted[e.body]
                 /\ e.kind = "core" /\ e.body \notin DOMAIN promoted => slot[i] = NoCode
                 /\ e.kind = "pointer" => slot[i] = e.code
                 /\ e.kind = "coded" /\ e.code \in DOMAIN sections => slot[i] = e.code
                 /\ e.kind = "coded" /\ e.code \notin DOMAIN sections => slot[i] = NoCode
  <2>1. slot[i] = Slot(text[i], promoted, DOMAIN sections)
    OBVIOUS
  <2> HIDE DEF slot
  <2>2. QED
    BY <1>1, <2>1, SlotFacts, Zenon
<1>4. DOMAIN parts = DOMAIN text /\ parts = [i \in 1..Len(text) |-> parts[i]]
      /\ \A i \in DOMAIN text : parts[i] = Placed(slot, sections, text, i)
  BY <1>1
<1> HIDE DEF slot, parts
<1>5. ASSUME NEW i \in DOMAIN text
      PROVE  /\ parts[i] \in Seq(Entry)
             /\ \/ Stays(parts[i], text[i], sections)
                \/ Goes(parts[i], text[i], sections)
  <2>1. text[i] \in Entry /\ text[i].kind \in {"core", "coded", "pointer"} /\ NoCode \notin Code
        /\ (text[i].kind # "core" => text[i].code \in Code)
    BY <1>1, EntryFacts, CodeAssumption
  <2>2. \A e \in Entry : <<e>> \in Seq(Entry)
    OBVIOUS
  <2>3. CASE slot[i] # NoCode /\ \E j \in 1..(i - 1) : slot[j] = slot[i]
    <3>1. parts[i] = <<>>
      BY <1>4, <2>3, Zenon DEF Placed
    <3>2. <<>> \in Seq(Entry)
      OBVIOUS
    <3>3. QED
      BY <1>3, <2>1, <2>3, <3>1, <3>2 DEF Goes
  <2>4. CASE ~(slot[i] # NoCode /\ \E j \in 1..(i - 1) : slot[j] = slot[i])
             /\ (slot[i] = NoCode \/ text[i].kind = "pointer")
    <3>1. parts[i] = <<text[i]>>
      BY <1>4, <2>4 DEF Placed
    <3>2. text[i].kind = "coded" => text[i].code \notin DOMAIN sections
      BY <1>3, <2>1, <2>4
    <3>3. QED
      BY <2>1, <2>2, <3>1, <3>2 DEF Stays
  <2>5. CASE slot[i] # NoCode /\ text[i].kind # "pointer" /\ ~\E j \in 1..(i - 1) : slot[j] = slot[i]
    <3>1. parts[i] = <<Pointer(slot[i], Head(sections[slot[i]]))>>
      BY <1>4, <2>5 DEF Placed
    <3>2. slot[i] \in DOMAIN sections
      BY <1>3, <2>1, <2>5 DEF Extracted
    <3>3. sections[slot[i]] \in Seq(Body) /\ sections[slot[i]] # <<>> /\ slot[i] \in Code
      BY <3>2 DEF Extracted
    <3>4. Head(sections[slot[i]]) \in Body
      BY <3>3
    <3>5. Pointer(slot[i], Head(sections[slot[i]])) \in Entry
      BY <3>3, <3>4, EntryFacts
    <3>6. text[i].kind = "coded" => text[i].code \in DOMAIN sections
      BY <1>3, <2>5
    <3>7. QED
      BY <2>2, <3>1, <3>3, <3>4, <3>5, <3>6 DEF Goes
  <2>6. QED
    BY <2>3, <2>4, <2>5
<1>6. parts \in Seq(Seq(Entry)) /\ Len(parts) = Len(text)
  BY <1>1, <1>4, <1>5, IsASeq
<1>7. \A i \in DOMAIN text :
         parts[i] = Placed(Slots(promoted, sections, text), sections, text, i)
  BY <1>4, Zenon DEF slot, Slots
<1>8. CondensedFrom(parts, text, sections)
  BY <1>5, <1>6 DEF CondensedFrom
<1>9. QED
  BY <1>2, <1>6, <1>7, <1>8, Zenon

(* An inline code that is not extracted keeps its bodies, in their order.  *)
LEMMA InlineBodiesStay ==
    ASSUME NEW text \in Text, NEW promoted, NEW sections, Extracted(sections, promoted, text),
           NEW c, c \notin DOMAIN sections
    PROVE  InlineBodies(c, PlanWith(promoted, sections, text).condensed) = InlineBodies(c, text)
<1> DEFINE n == Len(text)
           upTo(k) == SubSeq(text, 1, k)
<1>1. /\ n \in Nat /\ DOMAIN text = 1..n /\ \A i \in 1..n : text[i] \in Entry
      /\ text \in Seq(Entry)
  BY TextFacts
<1>2. PICK parts \in Seq(Seq(Entry)) :
             /\ PlanWith(promoted, sections, text).condensed = FlattenSeq(parts)
             /\ CondensedFrom(parts, text, sections)
  BY CondensedParts
<1>3. PICK F : JoinedTo(parts, Entry, F)
  BY FlattenPrefixes
<1>4. /\ F \in [0..n -> Seq(Entry)] /\ F[0] = <<>>
      /\ \A i \in 1..n : F[i] = F[i - 1] \o parts[i]
      /\ FlattenSeq(parts) = F[n]
  BY <1>2, <1>3 DEF JoinedTo, CondensedFrom
<1>5. /\ upTo(0) = <<>> /\ upTo(n) = text
      /\ \A k \in 0..n : upTo(k) \in Seq(Entry)
      /\ \A k \in 1..n : upTo(k) = Append(upTo(k - 1), text[k])
  BY <1>1
<1> HIDE DEF upTo, n
<1> DEFINE S == {k \in Nat : k <= n => InlineBodies(c, F[k]) = InlineBodies(c, upTo(k))}
<1>6. 0 \in S
  BY <1>4, <1>5
<1>7. ASSUME NEW k \in Nat, k \in S PROVE k + 1 \in S
  <2> SUFFICES ASSUME k + 1 <= n PROVE InlineBodies(c, F[k + 1]) = InlineBodies(c, upTo(k + 1))
    OBVIOUS
  <2>1. k + 1 \in 1..n /\ k \in 0..n /\ (k + 1) - 1 = k /\ k <= n
    BY <1>1
  <2> DEFINE e == text[k + 1]
             f == F[k]
             u == upTo(k)
  <2>2. /\ e \in Entry /\ f \in Seq(Entry) /\ u \in Seq(Entry)
        /\ upTo(k + 1) = Append(u, e)
        /\ InlineBodies(c, f) = InlineBodies(c, u)
    BY <1>1, <1>4, <1>5, <1>7, <2>1
  <2>3. F[k + 1] = f \o parts[k + 1]
    BY <1>4, <2>1
  <2>4. Stays(parts[k + 1], e, sections) \/ Goes(parts[k + 1], e, sections)
    BY <1>1, <1>2, <2>1 DEF CondensedFrom
  <2> HIDE DEF e, f, u
  <2>5. InlineBodies(c, upTo(k + 1)) = InlineBodies(c, u) \o BodyOf(c, e)
    BY <2>2, InlineBodiesAppend
  <2>6. \A x \in Entry : f \o <<x>> = Append(f, x)
    BY <2>2
  <2>7. CASE Stays(parts[k + 1], e, sections)
    <3>1. F[k + 1] = Append(f, e)
      BY <2>2, <2>3, <2>6, <2>7 DEF Stays
    <3>2. InlineBodies(c, F[k + 1]) = InlineBodies(c, f) \o BodyOf(c, e)
      BY <2>2, <3>1, InlineBodiesAppend
    <3>3. QED
      BY <2>2, <2>5, <3>2
  <2>8. CASE Goes(parts[k + 1], e, sections)
    <3>1. BodyOf(c, e) = <<>>
      BY <2>8 DEF Goes, BodyOf
    <3>2. \A s \in Seq(Body) : s \o <<>> = s
      OBVIOUS
    <3>3. InlineBodies(c, f) \in Seq(Body) /\ InlineBodies(c, u) \in Seq(Body)
      BY <2>2, InlineBodiesType
    <3>4. CASE parts[k + 1] = <<>>
      <4>1. F[k + 1] = f
        BY <2>2, <2>3, <3>4
      <4>2. QED
        BY <2>2, <2>5, <3>1, <3>2, <3>3, <4>1
    <3>5. CASE \E d \in Code, b \in Body : parts[k + 1] = <<Pointer(d, b)>>
      <4>1. PICK d \in Code, b \in Body : parts[k + 1] = <<Pointer(d, b)>>
        BY <3>5
      <4>2. Pointer(d, b) \in Entry /\ BodyOf(c, Pointer(d, b)) = <<>>
        BY EntryFacts DEF BodyOf
      <4>3. F[k + 1] = Append(f, Pointer(d, b))
        BY <2>3, <2>6, <4>1, <4>2
      <4>4. InlineBodies(c, F[k + 1]) = InlineBodies(c, f) \o <<>>
        BY <2>2, <4>2, <4>3, InlineBodiesAppend, ZenonT(40)
      <4>5. QED
        BY <2>2, <2>5, <3>1, <3>2, <3>3, <4>4
    <3>6. QED
      BY <2>8, <3>4, <3>5 DEF Goes
  <2>9. QED
    BY <2>4, <2>7, <2>8
<1> HIDE DEF S
<1>8. Nat \subseteq S
  BY <1>6, <1>7, NatsIn
<1>9. InlineBodies(c, F[n]) = InlineBodies(c, upTo(n))
  <2>1. n \in Nat /\ n <= n
    BY <1>1
  <2>2. n \in S
    BY <1>8, <2>1, Zenon
  <2>3. QED
    BY <2>1, <2>2, Zenon DEF S
<1>10. QED
  BY <1>2, <1>4, <1>5, <1>9

(* The first place of a slot.                                              *)
First(slot, c, j) == slot[j] = c /\ \A k \in 1..(j - 1) : slot[k] # c

LEMMA FirstExists ==
    ASSUME NEW slot, NEW n \in Nat, NEW i \in 1..n, NEW c, slot[i] = c
    PROVE  \E j \in 1..n : First(slot, c, j)
<1> DEFINE S == {m \in Nat : \A k \in 1..n : k <= m => slot[k] # c}
<1> SUFFICES ASSUME \A j \in 1..n : ~First(slot, c, j) PROVE FALSE
  OBVIOUS
<1>1. 0 \in S
  OBVIOUS
<1>2. ASSUME NEW m \in Nat, m \in S PROVE m + 1 \in S
  <2>1. \A k \in 1..n : k <= m => slot[k] # c
    BY <1>2
  <2>2. m + 1 \in 1..n => slot[m + 1] # c
    <3> SUFFICES ASSUME m + 1 \in 1..n, slot[m + 1] = c PROVE FALSE
      OBVIOUS
    <3>1. \A k \in 1..((m + 1) - 1) : slot[k] # c
      BY <2>1
    <3>2. First(slot, c, m + 1)
      BY <3>1 DEF First
    <3>3. QED
      BY <3>2
  <2>3. \A k \in 1..n : k <= m + 1 => k <= m \/ k = m + 1
    OBVIOUS
  <2>4. QED
    BY <2>1, <2>2, <2>3
<1> HIDE DEF S
<1>3. n \in S
  BY <1>1, <1>2, NatsIn
<1>4. i <= n
  OBVIOUS
<1>5. QED
  BY <1>3, <1>4 DEF S

(* A text without a pointer is one that the plan has left as it was: it    *)
(* had nothing to extract.                                                 *)
LEMMA NoPointerNoChange ==
    ASSUME NEW text \in Text, CodesOf("pointer", Plan(text).condensed) = {}
    PROVE  Plan(text).condensed = text /\ DOMAIN Plan(text).sections = {}
<1> DEFINE promoted == Promotions(text)
           sections == PlanOf(promoted, text).sections
           next == Plan(text).condensed
           slot == Slots(promoted, sections, text)
           n == Len(text)
           upTo(k) == SubSeq(text, 1, k)
<1>1. PICK used : Promoted(promoted, used, text)
  BY PromotionsFacts
<1>2. /\ Plan(text).sections = sections
      /\ next = PlanWith(promoted, sections, text).condensed
  BY DEF Plan, PlanOf, PlanWith
<1>3. \A c \in DOMAIN sections :
        c \in CodesOf("coded", text) \/ \E b \in DOMAIN promoted : c = promoted[b]
  BY DEF PlanOf, PlanWith, Sections
<1> HIDE DEF promoted
<1>4. Extracted(sections, promoted, text)
  BY <1>1, SectionsFacts
<1> HIDE DEF sections, next
<1>5. PICK parts \in Seq(Seq(Entry)) :
        /\ next = FlattenSeq(parts)
        /\ CondensedFrom(parts, text, sections)
        /\ \A i \in DOMAIN text : parts[i] = Placed(slot, sections, text, i)
  BY <1>2, <1>4, CondensedParts
<1>6. /\ n \in Nat /\ DOMAIN text = 1..n /\ \A i \in 1..n : text[i] \in Entry
      /\ text \in Seq(Entry) /\ DOMAIN sections \subseteq Code
      /\ DOMAIN parts = 1..n /\ Len(parts) = n
  BY <1>4, <1>5, TextFacts DEF Extracted, CondensedFrom
<1>7. \A e \in ToSet(next) : e.kind # "pointer"
  BY DEF CodesOf, ToSet, next
<1>8. ASSUME NEW i \in 1..n
      PROVE  LET e == text[i]
             IN  /\ e.kind = "core" /\ e.body \in DOMAIN promoted => slot[i] = promoted[e.body]
                 /\ e.kind = "coded" /\ e.code \in DOMAIN sections => slot[i] = e.code
  <2>1. slot[i] = Slot(text[i], promoted, DOMAIN sections) /\ text[i] \in Entry
    BY <1>6 DEF Slots
  <2> HIDE DEF slot
  <2>2. QED
    BY <1>6, <2>1, SlotFacts, Zenon
<1> HIDE DEF slot
<1>9. ASSUME NEW i \in 1..n PROVE slot[i] = NoCode
  <2> SUFFICES ASSUME slot[i] # NoCode PROVE FALSE
    OBVIOUS
  <2> DEFINE c == slot[i]
  <2>1. slot[i] = c /\ c # NoCode
    OBVIOUS
  <2> HIDE DEF c
  <2>2. PICK j \in 1..n : First(slot, c, j)
    BY <1>6, <2>1, FirstExists
  <2>3. slot[j] # NoCode /\ ~\E k \in 1..(j - 1) : slot[k] = slot[j]
    BY <2>1, <2>2 DEF First
  <2>4. \E e : parts[j] = <<e>> /\ e.kind = "pointer"
    <3>1. parts[j] = Placed(slot, sections, text, j)
      BY <1>5, <1>6
    <3>2. CASE text[j].kind = "pointer"
      <4>1. parts[j] = <<text[j]>>
        BY <2>3, <3>1, <3>2, Zenon DEF Placed
      <4>2. QED
        BY <3>2, <4>1
    <3>3. CASE text[j].kind # "pointer"
      <4>1. parts[j] = <<Pointer(slot[j], Head(sections[slot[j]]))>>
        BY <2>3, <3>1, <3>3, Zenon DEF Placed
      <4>2. Pointer(slot[j], Head(sections[slot[j]])).kind = "pointer"
        BY DEF Pointer
      <4>3. QED
        BY <4>1, <4>2
    <3>4. QED
      BY <3>2, <3>3
  <2>5. PICK e : parts[j] = <<e>> /\ e.kind = "pointer"
    BY <2>4
  <2>6. e \in ToSet(parts[j])
    BY <2>5 DEF ToSet
  <2>7. e \in ToSet(next)
    BY <1>5, <1>6, <2>6, FlattenRange
  <2>8. QED
    BY <1>7, <2>5, <2>7
<1>10. \A i \in 1..n : parts[i] = <<text[i]>>
  BY <1>5, <1>6, <1>9, Zenon DEF Placed
<1>11. DOMAIN sections = {}
  <2> SUFFICES ASSUME NEW c \in DOMAIN sections PROVE FALSE
    OBVIOUS
  <2>1. c # NoCode
    BY <1>6, CodeAssumption
  <2>2. CASE c \in CodesOf("coded", text)
    <3>1. PICK i \in 1..n : text[i].kind = "coded" /\ text[i].code = c
      BY <1>6, <2>2 DEF CodesOf
    <3>2. QED
      BY <1>8, <1>9, <2>1, <3>1
  <2>3. CASE \E b \in DOMAIN promoted : c = promoted[b]
    <3>1. PICK b \in DOMAIN promoted : c = promoted[b]
      BY <2>3
    <3>2. PICK i \in 1..n : text[i].kind = "core" /\ text[i].body = b
      BY <1>1, <1>6, <3>1 DEF Promoted, IsCore
    <3>3. QED
      BY <1>8, <1>9, <2>1, <3>1, <3>2
  <2>4. QED
    BY <1>3, <2>2, <2>3
<1>12. PICK F : JoinedTo(parts, Entry, F)
  BY FlattenPrefixes
<1>13. /\ F \in [0..n -> Seq(Entry)] /\ F[0] = <<>>
       /\ \A i \in 1..n : F[i] = F[i - 1] \o parts[i]
       /\ FlattenSeq(parts) = F[n]
  BY <1>6, <1>12 DEF JoinedTo
<1>14. /\ upTo(0) = <<>> /\ upTo(n) = text
       /\ \A k \in 0..n : upTo(k) \in Seq(Entry)
       /\ \A k \in 1..n : upTo(k) = Append(upTo(k - 1), text[k])
  BY <1>6
<1> HIDE DEF upTo, n
<1> DEFINE S == {k \in Nat : k <= n => F[k] = upTo(k)}
<1>15. 0 \in S
  BY <1>13, <1>14
<1>16. ASSUME NEW k \in Nat, k \in S PROVE k + 1 \in S
  <2> SUFFICES ASSUME k + 1 <= n PROVE F[k + 1] = upTo(k + 1)
    OBVIOUS
  <2>1. k + 1 \in 1..n /\ k \in 0..n /\ (k + 1) - 1 = k /\ k <= n
    BY <1>6
  <2>2. F[k] = upTo(k) /\ upTo(k) \in Seq(Entry) /\ text[k + 1] \in Entry
    BY <1>6, <1>14, <1>16, <2>1
  <2>3. F[k + 1] = F[k] \o <<text[k + 1]>>
    BY <1>10, <1>13, <2>1
  <2>4. F[k] \o <<text[k + 1]>> = Append(F[k], text[k + 1])
    BY <2>2
  <2>5. QED
    BY <1>14, <2>1, <2>2, <2>3, <2>4
<1> HIDE DEF S
<1>17. n \in S
  BY <1>6, <1>15, <1>16, NatsIn
<1>18. next = text
  BY <1>5, <1>6, <1>13, <1>14, <1>17 DEF S
<1>19. QED
  BY <1>2, <1>11, <1>18 DEF next

(* What a refine of the text would extract: no inline code, and nothing at *)
(* all where there is no pointer.                                          *)
Settled(text) ==
    LET left == DOMAIN Plan(text).sections
    IN  /\ left \cap CodesOf("coded", text) = {}
        /\ left # {} => CodesOf("pointer", text) # {}

(* Which inline codes a plan extracts.                                     *)
LEMMA InlineCodesExtracted ==
    ASSUME NEW text \in Text, NEW c \in CodesOf("coded", text)
    PROVE  /\ c \in DOMAIN Plan(text).sections <=>
                 c \in CodesOf("pointer", text) \/ Worth(c, InlineBodies(c, text))
           /\ c \in DOMAIN Plan(text).sections =>
                 Plan(text).sections[c] = InlineBodies(c, text)
<1> DEFINE promoted == Promotions(text)
           codes == CodesOf("coded", text) \cup {promoted[b] : b \in DOMAIN promoted}
           bodies == [d \in codes |-> Bodies(d, promoted, text)]
<1>1. PICK used : Promoted(promoted, used, text)
  BY PromotionsFacts
<1>2. Plan(text).sections = Sections(bodies, text)
  BY DEF Plan, PlanOf, PlanWith
<1> HIDE DEF promoted
<1>3. Bodies(c, promoted, text) = InlineBodies(c, text)
  <2> DEFINE from == {x \in DOMAIN promoted : promoted[x] = c}
  <2>1. from = {}
    BY <1>1 DEF Promoted, Held
  <2>2. Bodies(c, promoted, text) =
          IF from # {} THEN <<CHOOSE x \in from : TRUE>> ELSE InlineBodies(c, text)
    BY Zenon DEF Bodies
  <2>3. QED
    BY <2>1, <2>2
<1>4. c \in DOMAIN bodies /\ bodies[c] = InlineBodies(c, text)
  BY <1>3
<1> HIDE DEF bodies
<1>5. DOMAIN Sections(bodies, text) =
        {d \in DOMAIN bodies : d \in CodesOf("pointer", text) \/ Worth(d, bodies[d])}
  BY DEF Sections
<1>6. \A d \in DOMAIN Sections(bodies, text) : Sections(bodies, text)[d] = bodies[d]
  BY DEF Sections
<1>7. QED
  BY <1>2, <1>4, <1>5, <1>6

LEMMA PlanSettles ==
    ASSUME NEW text \in Text
    PROVE  Settled(Plan(text).condensed)
<1> DEFINE promoted == Promotions(text)
           sections == PlanOf(promoted, text).sections
           next == Plan(text).condensed
<1>1. PICK used : Promoted(promoted, used, text)
  BY PromotionsFacts
<1>2. /\ Plan(text).sections = sections
      /\ next = PlanWith(promoted, sections, text).condensed
  BY DEF Plan, PlanOf, PlanWith
<1> HIDE DEF promoted
<1>3. Extracted(sections, promoted, text)
  BY <1>1, SectionsFacts
<1> HIDE DEF sections, next
<1>4. next \in Text /\ Rewritten(text, next, sections)
  BY <1>2, <1>3, CondenseFacts DEF Rewritten
<1>0. DOMAIN Plan(next).sections # {} => CodesOf("pointer", next) # {}
  <2> SUFFICES ASSUME CodesOf("pointer", next) = {} PROVE DOMAIN Plan(next).sections = {}
    OBVIOUS
  <2>1. next = text /\ DOMAIN Plan(text).sections = {}
    BY NoPointerNoChange DEF next
  <2>2. QED
    BY <2>1
<1> SUFFICES ASSUME NEW c \in CodesOf("coded", next), c \in DOMAIN Plan(next).sections
             PROVE  FALSE
  BY <1>0 DEF Settled, next
<1>5. c \in CodesOf("coded", text) /\ c \notin DOMAIN sections
  <2>1. PICK j \in DOMAIN next : next[j].kind = "coded" /\ next[j].code = c
    BY DEF CodesOf
  <2>2. PICK parts \in Seq(Seq(Entry)) : next = FlattenSeq(parts) /\ CondensedFrom(parts, text, sections)
    BY <1>2, <1>3, CondensedParts
  <2>3. next[j] \in ToSet(FlattenSeq(parts))
    BY <2>2 DEF ToSet
  <2>4. PICK i \in DOMAIN parts : next[j] \in ToSet(parts[i])
    BY <2>3, FlattenRange
  <2>5. i \in DOMAIN text /\ (Stays(parts[i], text[i], sections) \/ Goes(parts[i], text[i], sections))
    <3>1. DOMAIN parts = 1..Len(parts) /\ DOMAIN text = 1..Len(text)
      BY TextFacts
    <3>2. QED
      BY <2>2, <3>1 DEF CondensedFrom
  <2>6. ToSet(<<>>) = {} /\ \A x : ToSet(<<x>>) = {x}
    BY DEF ToSet
  <2>7. ~Goes(parts[i], text[i], sections)
    BY <2>1, <2>4, <2>6, EntryFacts DEF Goes
  <2>8. next[j] = text[i] /\ (text[i].kind = "coded" => text[i].code \notin DOMAIN sections)
    BY <2>4, <2>5, <2>6, <2>7 DEF Stays
  <2>9. QED
    BY <2>1, <2>5, <2>8 DEF CodesOf
<1>6. c \notin CodesOf("pointer", text) /\ ~Worth(c, InlineBodies(c, text))
  BY <1>2, <1>5, InlineCodesExtracted
<1>7. InlineBodies(c, next) = InlineBodies(c, text)
  BY <1>2, <1>3, <1>5, InlineBodiesStay
<1>8. c \in CodesOf("pointer", next)
  BY <1>4, <1>6, <1>7, InlineCodesExtracted
<1>9. PICK j \in DOMAIN next : next[j].kind = "pointer" /\ next[j].code = c
  BY <1>8 DEF CodesOf
<1>10. next[j] \in ToSet(next)
  BY DEF ToSet
<1>11. next[j] \in ToSet(text) \/ c \in DOMAIN sections
  BY <1>4, <1>9, <1>10 DEF Rewritten
<1>12. next[j] \in ToSet(text) => c \in CodesOf("pointer", text)
  BY <1>9 DEF ToSet, CodesOf
<1>13. QED
  BY <1>5, <1>6, <1>11, <1>12

(* The hash file, and whatever a process may yet write to it, is the hash  *)
(* of a settled text.                                                      *)
SavesSettled ==
    "stale" \notin spoiled =>
        /\ \A text \in hash : Settled(text)
        /\ \A p \in Proc : Ahead(p) \/ pc[p] = "save" => Settled(loc[p].next)

LEMMA SavesSettledNext == Types /\ SavesSettled /\ Next => SavesSettled'
<1> SUFFICES ASSUME Types, SavesSettled, Next, "stale" \notin spoiled' PROVE SavesSettled'
  BY DEF SavesSettled
<1>0. "stale" \notin spoiled
  BY SpoiledGrows
<1>1. ASSUME UNCHANGED <<hash, pc, loc>> PROVE SavesSettled'
  BY <1>0, <1>1 DEF SavesSettled, Ahead
<1>2. ASSUME NEW p \in Proc, OthersStay(p), \A text \in hash' : Settled(text),
             Ahead(p)' \/ pc'[p] = "save" => Settled(loc'[p].next)
      PROVE  SavesSettled'
  <2>1. ASSUME NEW q \in Proc, Ahead(q)' \/ pc'[q] = "save" PROVE Settled(loc'[q].next)
    <3>1. CASE q = p
      BY <1>2, <2>1, <3>1
    <3>2. CASE q # p
      BY <1>0, <1>2, <2>1, <3>2 DEF OthersStay, SavesSettled, Ahead
    <3>3. QED
      BY <3>1, <3>2
  <2>2. QED
    BY <1>2, <2>1 DEF SavesSettled
<1>3. CASE MemoryAdd \/ MemoryRemove \/ Tick
  <2>1. UNCHANGED <<hash, pc, loc>>
    BY <1>3 DEF MemoryAdd, MemoryRemove, Tick
  <2>2. QED
    BY <1>1, <2>1
<1>4. ASSUME NEW p \in Proc, Persist(p) \/ Command(p) \/ Source(p) \/ Restore(p) \/ RestoreReplace(p)
      PROVE  SavesSettled'
  <2>1. OthersStay(p) /\ pc'[p] \in {"source", "plan", "replace", "clear"}
    BY <1>4, MoveEffects, SourceEffect, RestoreEffect
  <2>2. hash' = hash
    BY <1>4, PlansChangeNoFile DEF RestoreReplace
  <2>3. QED
    BY <1>0, <1>2, <2>1, <2>2 DEF Ahead, SavesSettled
<1>5. ASSUME NEW p \in Proc, MakePlan(p) PROVE SavesSettled'
  <2>1. OthersStay(p) /\ loc'[p].next = Plan(loc[p].text).condensed
    BY <1>5, MakePlanEffect, Zenon
  <2>2. Settled(loc'[p].next)
    BY <2>1, LocalFacts, PlanSettles
  <2>3. hash' = hash
    BY <1>5, PlansChangeNoFile
  <2>4. QED
    BY <1>0, <1>2, <2>1, <2>2, <2>3 DEF SavesSettled
<1>6. ASSUME NEW p \in Proc, Backup(p) \/ BackupMicro(p) \/ EmptyMicro(p) \/ FillMicro(p) \/ Replace(p)
      PROVE  SavesSettled'
  <2>1. OthersStay(p) /\ pc[p] \in {"backup", "micro", "empty", "fill"} /\ loc'[p].next = loc[p].next
    BY <1>6, BackupEffect, BackupMicroEffect, FillMicroEffect, MoveEffects
  <2>2. hash' = hash
    BY <1>6, PlansChangeNoFile DEF Backup, EmptyMicro, FillMicro, Replace
  <2>3. Settled(loc[p].next)
    BY <1>0, <2>1 DEF SavesSettled, Ahead
  <2>4. QED
    BY <1>0, <1>2, <2>1, <2>2, <2>3 DEF SavesSettled
<1>7. ASSUME NEW p \in Proc, Save(p) PROVE SavesSettled'
  <2>1. OthersStay(p) /\ pc[p] = "save" /\ pc'[p] = "idle"
    BY <1>7, MoveEffects
  <2>2. hash' = {loc[p].next} /\ Settled(loc[p].next)
    BY <1>0, <1>7, <2>1 DEF Save, SavesSettled
  <2>3. QED
    BY <1>2, <2>1, <2>2 DEF Ahead
<1>8. ASSUME NEW p \in Proc, RestoreSave(p) \/ Stop(p) PROVE SavesSettled'
  <2>1. OthersStay(p) /\ pc'[p] = "idle"
    BY <1>8, MoveEffects
  <2>2. hash' \subseteq hash
    BY <1>8 DEF RestoreSave, Stop
  <2>3. QED
    BY <1>0, <1>2, <2>1, <2>2 DEF Ahead, SavesSettled
<1>9. QED
  BY <1>3, <1>4, <1>5, <1>6, <1>7, <1>8 DEF Next

(* The short circuit of apply_if_changed (refine.py:523-537), for any      *)
(* bodies and codes, through races, kills and restores: a MEMORY.md with   *)
(* the saved hash has no inline entry with a code that a refine would      *)
(* extract, and is a rewritten one if there is anything left to extract,   *)
(* which are core entries past the number that one run promotes.  Excepted *)
(* is a hash taken of MEMORY.md before the edit that was planned.          *)
THEOREM SkipSoundAlways == Spec => []SkipSound
<1>1. Init => SavesSettled
  <2> SUFFICES ASSUME Init PROVE SavesSettled
    OBVIOUS
  <2>1. hash = {} /\ \A p \in Proc : pc[p] = "idle"
    BY DEF Init
  <2>2. QED
    BY <2>1 DEF SavesSettled, Ahead
<1>2. Types /\ SavesSettled /\ [Next]_vars => SavesSettled'
  <2> SUFFICES ASSUME Types, SavesSettled, [Next]_vars PROVE SavesSettled'
    OBVIOUS
  <2>1. CASE UNCHANGED vars
    BY <2>1 DEF vars, SavesSettled, Ahead
  <2>2. QED
    BY <2>1, SavesSettledNext
<1>3. SavesSettled => SkipSound
  <2> SUFFICES ASSUME SavesSettled, hash = {memory}, "stale" \notin spoiled
               PROVE  Settled(memory)
    BY Zenon DEF SkipSound, Settled
  <2>1. QED
    BY DEF SavesSettled
<1>4. QED
  BY <1>1, <1>2, <1>3, TypesAlways, PTL DEF Spec

-------------------------------------------------------------------------------
(* A rewritten text is no longer                                           *)

LEMMA LengthFacts ==
    /\ \A c : CodeChars(c) \in Nat
    /\ \A b \in Body : /\ Chars[b] \in Nat
                       /\ SummaryChars(b) \in Nat /\ SummaryChars(b) <= Chars[b]
    /\ \A c, b : b \in Body => PointerChars(c, b) \in Nat
<1>1. ASSUME NEW c PROVE CodeChars(c) \in Nat
  BY LengthAssumption DEF CodeChars
<1>2. ASSUME NEW b \in Body
      PROVE  Chars[b] \in Nat /\ SummaryChars(b) \in Nat /\ SummaryChars(b) <= Chars[b]
  <2>1. Chars[b] \in Nat /\ Line[b] \in 0..Chars[b]
    BY LengthAssumption
  <2>2. SummaryChars(b) = IF Line[b] > 80 THEN 80 ELSE Line[b]
    BY DEF SummaryChars
  <2>3. QED
    BY <2>1, <2>2
<1>3. ASSUME NEW c, NEW b \in Body PROVE PointerChars(c, b) \in Nat
  BY <1>1, <1>2 DEF PointerChars
<1>4. QED
  BY <1>1, <1>2, <1>3

LEMMA EntryLength ==
    ASSUME NEW e \in Entry
    PROVE  /\ EntryChars(e) \in Nat
           /\ e.kind = "core" => EntryChars(e) = Chars[e.body]
           /\ e.kind = "coded" => EntryChars(e) = 2 + CodeChars(e.code) + Chars[e.body]
           /\ e.kind = "pointer" => EntryChars(e) = PointerChars(e.code, e.body)
<1>1. e.body \in Body /\ e.kind \in {"core", "coded", "pointer"}
  BY EntryFacts
<1>2. "core" # "coded" /\ "core" # "pointer" /\ "coded" # "pointer"
  OBVIOUS
<1>3. e.kind = "core" => EntryChars(e) = Chars[e.body]
  BY <1>2, Zenon DEF EntryChars
<1>4. e.kind = "coded" => EntryChars(e) = 2 + CodeChars(e.code) + Chars[e.body]
  BY <1>2, Zenon DEF EntryChars
<1>5. e.kind = "pointer" => EntryChars(e) = PointerChars(e.code, e.body)
  BY <1>2, Zenon DEF EntryChars
<1>6. Chars[e.body] \in Nat /\ CodeChars(e.code) \in Nat /\ PointerChars(e.code, e.body) \in Nat
  BY <1>1, LengthFacts
<1>7. QED
  BY <1>1, <1>3, <1>4, <1>5, <1>6

Sizes(text) == [i \in DOMAIN text |-> EntryChars(text[i])]

LEMMA SizesIs ==
    ASSUME NEW text \in Seq(Entry)
    PROVE  /\ Sizes(text) \in Seq(Nat) /\ Len(Sizes(text)) = Len(text)
           /\ \A i \in 1..Len(text) : Sizes(text)[i] = EntryChars(text[i])
<1>1. Len(text) \in Nat /\ DOMAIN text = 1..Len(text) /\ \A i \in 1..Len(text) : text[i] \in Entry
  OBVIOUS
<1>2. \A i \in 1..Len(text) : EntryChars(text[i]) \in Nat
  BY <1>1, EntryLength
<1>3. QED
  BY <1>1, <1>2 DEF Sizes

LEMMA SizesAppend ==
    ASSUME NEW text \in Seq(Entry), NEW e \in Entry
    PROVE  Sizes(Append(text, e)) = Append(Sizes(text), EntryChars(e))
<1> DEFINE more == Append(text, e)
           s == Sizes(text)
           x == EntryChars(e)
<1>1. /\ Len(text) \in Nat /\ more \in Seq(Entry) /\ Len(more) = Len(text) + 1
      /\ more[Len(text) + 1] = e /\ \A i \in 1..Len(text) : more[i] = text[i]
  OBVIOUS
<1>2. s \in Seq(Nat) /\ Len(s) = Len(text) /\ \A i \in 1..Len(text) : s[i] = EntryChars(text[i])
  BY SizesIs
<1>3. x \in Nat
  BY EntryLength
<1> HIDE DEF more
<1>4. /\ Sizes(more) \in Seq(Nat) /\ Len(Sizes(more)) = Len(text) + 1
      /\ \A i \in 1..(Len(text) + 1) : Sizes(more)[i] = EntryChars(more[i])
  BY <1>1, SizesIs
<1> HIDE DEF s, x
<1>5. /\ Append(s, x) \in Seq(Nat) /\ Len(Append(s, x)) = Len(text) + 1
      /\ Append(s, x)[Len(text) + 1] = x /\ \A i \in 1..Len(text) : Append(s, x)[i] = s[i]
  BY <1>2, <1>3
<1>6. \A i \in 1..(Len(text) + 1) : Sizes(more)[i] = Append(s, x)[i]
  <2> SUFFICES ASSUME NEW i \in 1..(Len(text) + 1) PROVE Sizes(more)[i] = Append(s, x)[i]
    OBVIOUS
  <2>1. i \in 1..Len(text) \/ i = Len(text) + 1
    BY <1>1
  <2>2. Sizes(more)[i] = EntryChars(more[i])
    BY <1>4
  <2>3. CASE i \in 1..Len(text)
    BY <1>1, <1>2, <1>5, <2>2, <2>3, Zenon
  <2>4. CASE i = Len(text) + 1
    BY <1>1, <1>5, <2>2, <2>4 DEF x
  <2>5. QED
    BY <2>1, <2>3, <2>4
<1>7. Sizes(more) = Append(s, x)
  BY <1>4, <1>5, <1>6, SeqEqual
<1>8. QED
  BY <1>7 DEF more, s, x

(* The sizes of the flattened parts, of at most one entry each.            *)
PartSize(part) == IF part = <<>> THEN 0 ELSE EntryChars(part[1])

LEMMA OnePart ==
    ASSUME NEW T, NEW part \in Seq(T), Len(part) <= 1, part # <<>>
    PROVE  part[1] \in T /\ part = <<part[1]>>
<1>1. Len(part) \in Nat /\ Len(part) # 0
  OBVIOUS
<1>2. Len(part) = 1
  BY <1>1
<1>3. part[1] \in T
  BY <1>2
<1>4. part = <<part[1]>>
  BY <1>2
<1>5. QED
  BY <1>3, <1>4

LEMMA FlattenTotal ==
    ASSUME NEW parts \in Seq(Seq(Entry)), \A i \in DOMAIN parts : Len(parts[i]) <= 1,
           NEW new \in Seq(Nat), Len(new) = Len(parts),
           \A i \in 1..Len(parts) : new[i] = PartSize(parts[i])
    PROVE  Total(Sizes(FlattenSeq(parts))) = Total(new)
<1> DEFINE n == Len(parts)
<1>1. n \in Nat /\ DOMAIN parts = 1..n /\ \A i \in 1..n : parts[i] \in Seq(Entry)
  OBVIOUS
<1>2. PICK F : JoinedTo(parts, Entry, F)
  BY FlattenPrefixes
<1>3. /\ F \in [0..n -> Seq(Entry)] /\ F[0] = <<>>
      /\ \A i \in 1..n : F[i] = F[i - 1] \o parts[i]
      /\ FlattenSeq(parts) = F[n]
  BY <1>2, Zenon DEF JoinedTo
<1>4. PICK g : Sums(g, new, n)
  BY TotalRun
<1> DEFINE S == {k \in Nat : k <= n => Total(Sizes(F[k])) = g[k]}
<1>5. 0 \in S
  <2>1. Sizes(<<>>) = <<>>
    <3>1. <<>> \in Seq(Entry) /\ Len(<<>>) = 0
      OBVIOUS
    <3>2. Sizes(<<>>) \in Seq(Nat) /\ Len(Sizes(<<>>)) = 0
      BY <3>1, SizesIs
    <3>3. QED
      BY <3>2
  <2>2. Total(<<>>) = 0
    <3>1. <<>> \in Seq(Nat)
      OBVIOUS
    <3>2. QED
      BY <3>1, TotalType
  <2>3. g[0] = 0
    BY <1>4 DEF Sums
  <2>4. QED
    BY <1>3, <2>1, <2>2, <2>3
<1>6. ASSUME NEW k \in Nat, k \in S PROVE k + 1 \in S
  <2> SUFFICES ASSUME k + 1 <= n PROVE Total(Sizes(F[k + 1])) = g[k + 1]
    OBVIOUS
  <2> DEFINE f == F[k]
             part == parts[k + 1]
  <2>1. k \in 0..n /\ k + 1 \in 1..n /\ (k + 1) - 1 = k
    BY <1>1
  <2>2. Total(Sizes(f)) = g[k]
    BY <1>1, <1>6, <2>1
  <2>3. f \in Seq(Entry) /\ part \in Seq(Entry) /\ Len(part) <= 1
    BY <1>1, <1>3, <2>1
  <2>4. F[k + 1] = f \o part
    BY <1>3, <2>1
  <2>5. g[k + 1] = g[k] + PartSize(part)
    BY <1>4, <2>1 DEF Sums
  <2>6. g[k] \in Nat
    BY <1>4, <2>1 DEF Sums
  <2> HIDE DEF f, part
  <2>7. CASE part = <<>>
    <3>1. F[k + 1] = f /\ PartSize(part) = 0
      BY <2>3, <2>4, <2>7 DEF PartSize
    <3>2. QED
      BY <2>2, <2>5, <2>6, <3>1
  <2>8. CASE part # <<>>
    <3> DEFINE e == part[1]
    <3>1. e \in Entry /\ part = <<e>>
      BY <2>3, <2>8, OnePart, Zenon
    <3>2. PartSize(part) = EntryChars(e)
      BY <2>8 DEF PartSize
    <3> HIDE DEF e
    <3>3. F[k + 1] = Append(f, e)
      BY <2>3, <2>4, <3>1
    <3>4. Sizes(F[k + 1]) = Append(Sizes(f), EntryChars(e))
      BY <2>3, <3>1, <3>3, SizesAppend
    <3>5. Sizes(f) \in Seq(Nat) /\ EntryChars(e) \in Nat
      BY <2>3, <3>1, SizesIs, EntryLength
    <3>6. Total(Sizes(F[k + 1])) = Total(Sizes(f)) + EntryChars(e)
      BY <3>4, <3>5, TotalAppend
    <3>7. QED
      BY <2>2, <2>5, <3>2, <3>6
  <2>9. QED
    BY <2>7, <2>8
<1> HIDE DEF S
<1>7. n \in S
  BY <1>1, <1>5, <1>6, NatsIn
<1>8. Total(new) = g[n] /\ n <= n
  BY <1>1, <1>4 DEF Sums
<1>9. QED
  BY <1>3, <1>7, <1>8 DEF S

(* What the entries of an inline code take is no less than its bodies,     *)
(* joined.                                                                 *)
BodyChars(bodies) == [k \in DOMAIN bodies |-> Chars[bodies[k]]]
CodedSize(c, e)   == IF e.kind = "coded" /\ e.code = c THEN EntryChars(e) ELSE 0
Length(bodies)    == Total(BodyChars(bodies)) + 2 * Len(bodies)

LEMMA LengthType ==
    ASSUME NEW bodies \in Seq(Body)
    PROVE  /\ BodyChars(bodies) \in Seq(Nat) /\ Len(BodyChars(bodies)) = Len(bodies)
           /\ Length(bodies) \in Nat
<1>1. /\ Len(bodies) \in Nat /\ DOMAIN bodies = 1..Len(bodies)
      /\ \A k \in 1..Len(bodies) : bodies[k] \in Body
  OBVIOUS
<1>2. \A k \in 1..Len(bodies) : Chars[bodies[k]] \in Nat
  BY <1>1, LengthFacts
<1>3. BodyChars(bodies) \in Seq(Nat) /\ Len(BodyChars(bodies)) = Len(bodies)
  BY <1>1, <1>2 DEF BodyChars
<1>4. Total(BodyChars(bodies)) \in Nat
  BY <1>3, TotalType
<1>5. QED
  BY <1>1, <1>3, <1>4 DEF Length

LEMMA LengthAppend ==
    ASSUME NEW bodies \in Seq(Body), NEW b \in Body
    PROVE  Length(Append(bodies, b)) = Length(bodies) + Chars[b] + 2
<1> DEFINE more == Append(bodies, b)
           s == BodyChars(bodies)
<1>1. /\ Len(bodies) \in Nat /\ more \in Seq(Body) /\ Len(more) = Len(bodies) + 1
      /\ DOMAIN more = 1..(Len(bodies) + 1) /\ DOMAIN bodies = 1..Len(bodies)
      /\ more[Len(bodies) + 1] = b /\ \A k \in 1..Len(bodies) : more[k] = bodies[k]
  OBVIOUS
<1>2. s \in Seq(Nat) /\ Len(s) = Len(bodies) /\ \A k \in 1..Len(bodies) : s[k] = Chars[bodies[k]]
  <2>1. s \in Seq(Nat) /\ Len(s) = Len(bodies)
    BY LengthType
  <2>2. \A k \in 1..Len(bodies) : s[k] = Chars[bodies[k]]
    BY <1>1 DEF BodyChars
  <2>3. QED
    BY <2>1, <2>2
<1>3. Chars[b] \in Nat
  BY LengthFacts
<1> HIDE DEF more, s
<1>4. /\ BodyChars(more) \in Seq(Nat) /\ Len(BodyChars(more)) = Len(bodies) + 1
      /\ \A k \in 1..(Len(bodies) + 1) : BodyChars(more)[k] = Chars[more[k]]
  <2>1. BodyChars(more) \in Seq(Nat) /\ Len(BodyChars(more)) = Len(bodies) + 1
    BY <1>1, LengthType
  <2>2. \A k \in 1..(Len(bodies) + 1) : BodyChars(more)[k] = Chars[more[k]]
    BY <1>1 DEF BodyChars
  <2>3. QED
    BY <2>1, <2>2
<1>5. BodyChars(more) = Append(s, Chars[b])
  <2> DEFINE x == Chars[b]
  <2>1. x \in Nat /\ Chars[more[Len(bodies) + 1]] = x
    BY <1>1, <1>3
  <2> HIDE DEF x
  <2>2. /\ Append(s, x) \in Seq(Nat) /\ Len(Append(s, x)) = Len(bodies) + 1
        /\ Append(s, x)[Len(bodies) + 1] = x /\ \A k \in 1..Len(bodies) : Append(s, x)[k] = s[k]
    BY <1>2, <2>1
  <2>3. \A k \in 1..(Len(bodies) + 1) : BodyChars(more)[k] = Append(s, x)[k]
    <3> SUFFICES ASSUME NEW k \in 1..(Len(bodies) + 1) PROVE BodyChars(more)[k] = Append(s, x)[k]
      OBVIOUS
    <3>1. k \in 1..Len(bodies) \/ k = Len(bodies) + 1
      BY <1>1
    <3>2. QED
      BY <1>1, <1>2, <1>4, <2>1, <2>2, <3>1, Zenon
  <2>4. BodyChars(more) = Append(s, x)
    BY <1>4, <2>2, <2>3, SeqEqual
  <2>5. QED
    BY <2>4 DEF x
<1>6. Total(BodyChars(more)) = Total(s) + Chars[b]
  BY <1>2, <1>3, <1>5, TotalAppend
<1>7. Total(s) \in Nat
  BY <1>2, TotalType
<1>8. Length(more) = Total(BodyChars(more)) + 2 * (Len(bodies) + 1)
      /\ Length(bodies) = Total(s) + 2 * Len(bodies)
  BY <1>1 DEF Length, s
<1>9. Length(more) = Length(bodies) + Chars[b] + 2
  BY <1>1, <1>3, <1>6, <1>7, <1>8
<1>10. QED
  BY <1>9 DEF more

LEMMA CodedTotal ==
    ASSUME NEW text \in Seq(Entry), NEW c,
           NEW coded \in Seq(Nat), Len(coded) = Len(text),
           \A i \in 1..Len(text) : coded[i] = CodedSize(c, text[i])
    PROVE  Length(InlineBodies(c, text)) <= Total(coded)
<1> DEFINE n == Len(text)
           upTo(k) == SubSeq(text, 1, k)
           at(k) == InlineBodies(c, upTo(k))
<1>1. n \in Nat /\ \A i \in 1..n : text[i] \in Entry
  OBVIOUS
<1>2. PICK g : Sums(g, coded, n)
  BY TotalRun
<1>3. /\ upTo(0) = <<>> /\ upTo(n) = text
      /\ \A k \in 0..n : upTo(k) \in Seq(Entry)
      /\ \A k \in 1..n : upTo(k) = Append(upTo(k - 1), text[k])
  BY <1>1
<1> HIDE DEF upTo
<1>4. at(0) = <<>>
  <2>1. InlineBodies(c, <<>>) = <<>>
    <3>1. DOMAIN <<>> = {} /\ <<>> \in Seq(Entry)
      OBVIOUS
    <3> DEFINE parts == [i \in DOMAIN <<>> |->
                  IF <<>>[i].kind = "coded" /\ <<>>[i].code = c THEN <<<<>>[i].body>> ELSE <<>>]
    <3>2. InlineBodies(c, <<>>) = FlattenSeq(parts)
      BY Zenon DEF InlineBodies
    <3>3. parts = <<>>
      BY <3>1
    <3>4. FlattenSeq(<<>>) = <<>>
      BY DEF FlattenSeq
    <3>5. QED
      BY <3>2, <3>3, <3>4, Zenon
  <2>2. QED
    BY <1>3, <2>1
<1> DEFINE S == {k \in Nat : k <= n => Length(at(k)) <= g[k]}
<1>5. 0 \in S
  <2>1. <<>> \in Seq(Body) /\ <<>> \in Seq(Nat) /\ Len(<<>>) = 0
    OBVIOUS
  <2>2. BodyChars(<<>>) \in Seq(Nat) /\ Len(BodyChars(<<>>)) = 0
    BY <2>1, LengthType
  <2>3. BodyChars(<<>>) = <<>>
    BY <2>2
  <2>4. Total(BodyChars(<<>>)) = 0
    BY <2>1, <2>3, TotalType
  <2>5. Length(<<>>) = 0
    BY <2>1, <2>4 DEF Length
  <2>6. g[0] = 0
    BY <1>2 DEF Sums
  <2>7. QED
    BY <1>4, <2>5, <2>6
<1>6. ASSUME NEW k \in Nat, k \in S PROVE k + 1 \in S
  <2> SUFFICES ASSUME k + 1 <= n PROVE Length(at(k + 1)) <= g[k + 1]
    OBVIOUS
  <2> DEFINE e == text[k + 1]
             u == upTo(k)
             bodies == InlineBodies(c, u)
  <2>1. k \in 0..n /\ k + 1 \in 1..n /\ (k + 1) - 1 = k
    BY <1>1
  <2>2. Length(bodies) <= g[k]
    BY <1>1, <1>6, <2>1
  <2>3. e \in Entry /\ u \in Seq(Entry) /\ upTo(k + 1) = Append(u, e)
    BY <1>1, <1>3, <2>1
  <2>4. g[k + 1] = g[k] + CodedSize(c, e) /\ g[k] \in Nat
    BY <1>2, <2>1 DEF Sums
  <2> HIDE DEF e, u
  <2>5. at(k + 1) = bodies \o BodyOf(c, e)
    BY <2>3, InlineBodiesAppend
  <2>6. bodies \in Seq(Body)
    BY <2>3, InlineBodiesType
  <2>7. Length(bodies) \in Nat
    BY <2>6, LengthType
  <2> HIDE DEF bodies, at
  <2>8. CASE e.kind = "coded" /\ e.code = c
    <3>1. BodyOf(c, e) = <<e.body>> /\ CodedSize(c, e) = EntryChars(e)
      BY <2>8 DEF BodyOf, CodedSize
    <3>2. e.body \in Body
      BY <2>3, EntryFacts
    <3>3. at(k + 1) = Append(bodies, e.body)
      BY <2>5, <2>6, <3>1, <3>2
    <3>4. Length(at(k + 1)) = Length(bodies) + Chars[e.body] + 2
      BY <2>6, <3>2, <3>3, LengthAppend
    <3>5. EntryChars(e) = 2 + CodeChars(e.code) + Chars[e.body]
      BY <2>3, <2>8, EntryLength
    <3>6. CodeChars(e.code) \in Nat /\ Chars[e.body] \in Nat
      BY <3>2, LengthFacts
    <3>7. QED
      BY <2>2, <2>4, <2>7, <3>1, <3>4, <3>5, <3>6, SMTT(30)
  <2>9. CASE ~(e.kind = "coded" /\ e.code = c)
    <3>1. BodyOf(c, e) = <<>> /\ CodedSize(c, e) = 0
      BY <2>9 DEF BodyOf, CodedSize
    <3>2. at(k + 1) = bodies
      BY <2>5, <2>6, <3>1
    <3>3. QED
      BY <2>2, <2>4, <3>1, <3>2
  <2>10. QED
    BY <2>8, <2>9
<1> HIDE DEF S, at
<1>7. n \in S
  BY <1>1, <1>5, <1>6, NatsIn
<1>8. Total(coded) = g[n] /\ n <= n
  BY <1>1, <1>2 DEF Sums
<1>9. Length(at(n)) <= g[n]
  BY <1>7, <1>8 DEF S
<1>10. QED
  BY <1>3, <1>8, <1>9 DEF at

(* The first place of a code.                                              *)
FirstOf(slot, n, c)   == CHOOSE j \in 1..n : First(slot, c, j)
RepOf(slot, n)        == [i \in 1..n |-> IF slot[i] = NoCode THEN i ELSE FirstOf(slot, n, slot[i])]

LEMMA RepFacts ==
    ASSUME NEW slot, NEW n \in Nat
    PROVE  /\ RepOf(slot, n) \in [1..n -> 1..n]
           /\ \A i, r \in 1..n : RepOf(slot, n)[i] = r /\ i # r =>
                 slot[i] # NoCode /\ r \in 1..(i - 1) /\ slot[r] = slot[i]
           /\ \A i, r \in 1..n : slot[i] = slot[r] /\ slot[r] # NoCode =>
                 RepOf(slot, n)[i] = RepOf(slot, n)[r]
<1> DEFINE rep == RepOf(slot, n)
<1>1. \A i \in 1..n : rep[i] = IF slot[i] = NoCode THEN i ELSE FirstOf(slot, n, slot[i])
  BY DEF RepOf
<1>2. ASSUME NEW i \in 1..n
      PROVE  FirstOf(slot, n, slot[i]) \in 1..n /\ First(slot, slot[i], FirstOf(slot, n, slot[i]))
  <2> DEFINE c == slot[i]
  <2>1. slot[i] = c
    OBVIOUS
  <2> HIDE DEF c
  <2>2. \E j \in 1..n : First(slot, c, j)
    BY <2>1, FirstExists
  <2>3. FirstOf(slot, n, c) \in 1..n /\ First(slot, c, FirstOf(slot, n, c))
    BY <2>2, Zenon DEF FirstOf
  <2>4. QED
    BY <2>3 DEF c
<1>3. rep = [i \in 1..n |-> rep[i]]
  BY DEF RepOf
<1> HIDE DEF rep
<1>4. \A i \in 1..n : rep[i] \in 1..n
  BY <1>1, <1>2
<1>5. rep \in [1..n -> 1..n]
  BY <1>3, <1>4
<1>6. ASSUME NEW i \in 1..n, NEW r \in 1..n, rep[i] = r, i # r
      PROVE  slot[i] # NoCode /\ r \in 1..(i - 1) /\ slot[r] = slot[i]
  <2>1. slot[i] # NoCode /\ r = FirstOf(slot, n, slot[i])
    BY <1>1, <1>6
  <2>2. First(slot, slot[i], r)
    BY <1>2, <2>1
  <2>3. slot[r] = slot[i] /\ \A k \in 1..(r - 1) : slot[k] # slot[i]
    BY <2>2, Zenon DEF First
  <2>4. i \notin 1..(r - 1)
    BY <2>3
  <2>5. r \in 1..(i - 1)
    BY <1>6, <2>4
  <2>6. QED
    BY <2>1, <2>3, <2>5
<1>7. ASSUME NEW i \in 1..n, NEW r \in 1..n, slot[i] = slot[r], slot[r] # NoCode
      PROVE  rep[i] = rep[r]
  <2>1. rep[i] = FirstOf(slot, n, slot[i]) /\ rep[r] = FirstOf(slot, n, slot[r])
    BY <1>1, <1>7, Zenon
  <2>2. QED
    BY <1>7, <2>1, Zenon
<1>8. QED
  BY <1>5, <1>6, <1>7 DEF rep

LEMMA WorthIs ==
    ASSUME NEW bodies \in Seq(Body), bodies # <<>>, NEW c, Worth(c, bodies)
    PROVE  PointerChars(c, Head(bodies)) < Length(bodies)
<1> DEFINE s == BodyChars(bodies)
           p == PointerChars(c, Head(bodies))
<1>1. s \in Seq(Nat) /\ Len(s) = Len(bodies) /\ Len(bodies) \in Nat
  BY LengthType
<1>2. Total(s) \in Nat
  BY <1>1, TotalType
<1>3. p < Joined(s, 2)
  BY Zenon DEF Worth, BodyChars
<1>4. Length(bodies) = Total(s) + 2 * Len(bodies)
  BY DEF Length
<1>5. Joined(s, 2) = Total(s) + (IF s = <<>> THEN 0 ELSE 2 * (Len(s) - 1))
  BY Zenon DEF Joined
<1>6. p \in Nat
  <2>1. Head(bodies) \in Body
    OBVIOUS
  <2>2. QED
    BY <2>1, LengthFacts
<1> HIDE DEF s, p
<1>7. QED
  BY <1>1, <1>2, <1>3, <1>4, <1>5, <1>6 DEF p

(* The inline codes that are extracted.                                    *)
SoundSections(sections, text) ==
    \A c \in CodesOf("coded", text) :
        c \in DOMAIN sections =>
            /\ sections[c] = InlineBodies(c, text)
            /\ c \in CodesOf("pointer", text) \/ Worth(c, InlineBodies(c, text))

(* A pointer is no longer than the inline entries it stands for, and the   *)
(* pointer of the same code if there is one.                               *)
LEMMA PointerShorter ==
    ASSUME NEW text \in Text, NEW sections, SoundSections(sections, text),
           NEW c \in CodesOf("coded", text), c \in DOMAIN sections,
           NEW class \in Seq(Nat), Len(class) = Len(text),
           \A i \in 1..Len(text) :
               text[i].kind # "core" /\ text[i].code = c => class[i] = EntryChars(text[i])
    PROVE  PointerChars(c, Head(sections[c])) <= Total(class)
<1> DEFINE n == Len(text)
           bodies == InlineBodies(c, text)
           first == Head(bodies)
<1>1. /\ n \in Nat /\ DOMAIN text = 1..n /\ \A i \in 1..n : text[i] \in Entry
      /\ text \in Seq(Entry)
  BY TextFacts
<1>2. sections[c] = bodies /\ (c \in CodesOf("pointer", text) \/ Worth(c, bodies))
  BY DEF SoundSections
<1>3. bodies \in Seq(Body) /\ bodies # <<>>
      /\ \A b : b \in ToSet(bodies) <=>
            \E i \in DOMAIN text : text[i].kind = "coded" /\ text[i].code = c /\ text[i].body = b
  <2>1. bodies \in Seq(Body)
        /\ \A b : b \in ToSet(bodies) <=>
            \E i \in DOMAIN text : text[i].kind = "coded" /\ text[i].code = c /\ text[i].body = b
    BY InlineBodiesFacts
  <2>2. \E i \in DOMAIN text : text[i].kind = "coded" /\ text[i].code = c
    BY DEF CodesOf
  <2> HIDE DEF bodies
  <2>3. ToSet(bodies) # {}
    BY <2>1, <2>2
  <2>4. QED
    BY <2>1, <2>3, SeqFacts
<1> HIDE DEF bodies
<1>4. first \in ToSet(bodies) /\ first \in Body
  BY <1>3, SeqFacts
<1> HIDE DEF first
<1>5. PICK h \in 1..n : text[h].kind = "coded" /\ text[h].code = c /\ text[h].body = first
  BY <1>1, <1>3, <1>4
<1>6. \A i \in 1..n : text[i].kind \in {"coded", "pointer"} /\ text[i].code = c =>
          class[i] = EntryChars(text[i])
  OBVIOUS
<1>7. class[h] = 2 + CodeChars(c) + Chars[first]
  BY <1>1, <1>5, <1>6, EntryLength
<1>8. /\ CodeChars(c) \in Nat /\ Chars[first] \in Nat /\ SummaryChars(first) \in Nat
      /\ SummaryChars(first) <= Chars[first]
      /\ PointerChars(c, first) = 23 + 2 * CodeChars(c) + SummaryChars(first)
      /\ Total(class) \in Nat
  BY <1>4, LengthFacts, TotalType DEF PointerChars
<1>9. CASE c \in CodesOf("pointer", text)
  <2>1. PICK q \in 1..n : text[q].kind = "pointer" /\ text[q].code = c
    BY <1>1, <1>9 DEF CodesOf
  <2>2. text[q].body \in Body /\ class[q] = PointerChars(c, text[q].body)
    BY <1>1, <1>6, <2>1, EntryFacts, EntryLength
  <2>3. /\ SummaryChars(text[q].body) \in Nat
        /\ class[q] = 23 + 2 * CodeChars(c) + SummaryChars(text[q].body)
    BY <2>2, LengthFacts DEF PointerChars
  <2>4. h # q
    BY <1>5, <2>1
  <2>5. class[h] + class[q] <= Total(class)
    BY <2>4, TotalHasTwo
  <2>6. PointerChars(c, first) <= class[h] + class[q]
    BY <1>7, <1>8, <2>3, SMTT(30)
  <2>7. class[h] \in Nat /\ class[q] \in Nat
    BY <1>7, <1>8, <2>3, SMTT(30)
  <2>8. PointerChars(c, first) <= Total(class)
    BY <1>8, <2>5, <2>6, <2>7
  <2>9. QED
    BY <1>2, <2>8 DEF first
<1>10. CASE Worth(c, bodies)
  <2> DEFINE coded == [i \in 1..n |-> CodedSize(c, text[i])]
  <2>1. \A i \in 1..n : CodedSize(c, text[i]) \in Nat /\ CodedSize(c, text[i]) <= class[i]
    <3> SUFFICES ASSUME NEW i \in 1..n
                 PROVE  CodedSize(c, text[i]) \in Nat /\ CodedSize(c, text[i]) <= class[i]
      OBVIOUS
    <3>1. EntryChars(text[i]) \in Nat /\ class[i] \in Nat
      BY <1>1, EntryLength
    <3>2. text[i].kind = "coded" /\ text[i].code = c => class[i] = EntryChars(text[i])
      BY <1>6
    <3>3. QED
      BY <3>1, <3>2 DEF CodedSize
  <2>2. coded \in Seq(Nat) /\ Len(coded) = n /\ \A i \in 1..n : coded[i] = CodedSize(c, text[i])
    BY <1>1, <2>1
  <2> HIDE DEF coded
  <2>3. Length(bodies) <= Total(coded)
    BY <1>1, <2>2, CodedTotal DEF bodies
  <2>4. Total(coded) <= Total(class)
    BY <2>1, <2>2, TotalLess
  <2>5. PointerChars(c, first) < Length(bodies)
    BY <1>3, <1>10, WorthIs DEF first
  <2>6. Length(bodies) \in Nat /\ Total(coded) \in Nat /\ PointerChars(c, first) \in Nat
    BY <1>3, <1>4, <2>2, LengthType, TotalType, LengthFacts
  <2>7. PointerChars(c, first) <= Total(class)
    BY <1>8, <2>3, <2>4, <2>5, <2>6
  <2>8. QED
    BY <1>2, <2>7 DEF first
<1>11. QED
  BY <1>2, <1>9, <1>10

(* What takes the place of the first entry of a code is no longer than all *)
(* the entries of that code.                                               *)
LEMMA ClassShorter ==
    ASSUME NEW text \in Text, NEW promoted, NEW used, Promoted(promoted, used, text),
           NEW sections, Extracted(sections, promoted, text), SoundSections(sections, text),
           NEW slot, slot = [i \in DOMAIN text |-> Slot(text[i], promoted, DOMAIN sections)],
           NEW r \in 1..Len(text), RepOf(slot, Len(text))[r] = r,
           NEW class, class = OfClass(Sizes(text), RepOf(slot, Len(text)), r)
    PROVE  PartSize(Placed(slot, sections, text, r)) <= Total(class)
<1> DEFINE n == Len(text)
           old == Sizes(text)
           rep == RepOf(slot, Len(text))
           e == text[r]
           part == Placed(slot, sections, text, r)
<1>1. /\ n \in Nat /\ DOMAIN text = 1..n /\ \A i \in 1..n : text[i] \in Entry
      /\ text \in Seq(Entry) /\ DOMAIN sections \subseteq Code
  BY TextFacts DEF Extracted
<1>2. old \in Seq(Nat) /\ Len(old) = n /\ \A i \in 1..n : old[i] = EntryChars(text[i])
  BY <1>1, SizesIs
<1>3. \A i \in 1..n : slot[i] = slot[r] /\ slot[r] # NoCode => rep[i] = r
  BY <1>1, RepFacts
<1>4. rep[r] = r /\ r \in 1..n
  OBVIOUS
<1>5. ASSUME NEW i \in 1..n
      PROVE  LET x == text[i]
             IN  /\ x.kind = "core" /\ x.body \in DOMAIN promoted => slot[i] = promoted[x.body]
                 /\ x.kind = "core" /\ x.body \notin DOMAIN promoted => slot[i] = NoCode
                 /\ x.kind = "pointer" => slot[i] = x.code
                 /\ x.kind = "coded" /\ x.code \in DOMAIN sections => slot[i] = x.code
                 /\ x.kind = "coded" /\ x.code \notin DOMAIN sections => slot[i] = NoCode
  <2>1. slot[i] = Slot(text[i], promoted, DOMAIN sections) /\ text[i] \in Entry
    BY <1>1
  <2>2. QED
    BY <1>1, <2>1, SlotFacts, Zenon
<1> HIDE DEF old, rep
<1>6. /\ class \in Seq(Nat) /\ Len(class) = n
      /\ \A i \in 1..n : rep[i] = r => class[i] = EntryChars(text[i])
  <2>1. class = OfClass(old, rep, r)
    BY DEF old, rep
  <2>2. /\ OfClass(old, rep, r) \in Seq(Nat) /\ Len(OfClass(old, rep, r)) = Len(old)
        /\ \A i \in 1..Len(old) : OfClass(old, rep, r)[i] = IF rep[i] = r THEN old[i] ELSE 0
    BY <1>2, OfClassIs
  <2>3. QED
    BY <1>2, <2>1, <2>2
<1>7. e \in Entry /\ e.kind \in {"core", "coded", "pointer"} /\ EntryChars(e) \in Nat
  BY <1>1, EntryFacts, EntryLength
<1>8. EntryChars(e) <= Total(class) /\ Total(class) \in Nat
  <2>1. class[r] = EntryChars(e) /\ r \in 1..Len(class)
    BY <1>4, <1>6
  <2>2. QED
    BY <1>6, <2>1, TotalHasTwo, TotalType
<1>9. CASE slot[r] # NoCode /\ \E j \in 1..(r - 1) : slot[j] = slot[r]
  <2>1. part = <<>>
    BY <1>9, Zenon DEF Placed
  <2>2. PartSize(part) = 0
    BY <2>1 DEF PartSize
  <2>3. QED
    BY <1>8, <2>2
<1>10. CASE /\ ~(slot[r] # NoCode /\ \E j \in 1..(r - 1) : slot[j] = slot[r])
            /\ slot[r] = NoCode \/ e.kind = "pointer"
  <2>1. part = <<e>>
    BY <1>10, Zenon DEF Placed
  <2>2. PartSize(part) = EntryChars(e)
    BY <2>1 DEF PartSize
  <2>3. QED
    BY <1>8, <2>2
<1>11. CASE /\ ~(slot[r] # NoCode /\ \E j \in 1..(r - 1) : slot[j] = slot[r])
            /\ slot[r] # NoCode /\ e.kind # "pointer"
  <2> DEFINE c == slot[r]
             b == Head(sections[c])
             p == Pointer(c, b)
  <2>1. part = <<p>>
    BY <1>11, Zenon DEF Placed
  <2>2. PartSize(part) = EntryChars(p)
    <3> HIDE DEF p, part
    <3>1. QED
      BY <2>1 DEF PartSize
  <2>3. CASE e.kind = "core"
    <3>1. e.body \in DOMAIN promoted /\ c = promoted[e.body]
      BY <1>4, <1>5, <1>11, <2>3
    <3>2. c \in DOMAIN sections /\ sections[c] = <<e.body>> /\ c \in Code
      BY <1>1, <3>1 DEF Extracted
    <3>3. b = e.body /\ e.body \in Body
      BY <1>7, <3>2, EntryFacts
    <3>4. EntryChars(p) = PointerChars(c, e.body)
      BY <3>2, <3>3, EntryFacts, EntryLength
    <3>5. PointerChars(c, e.body) < Chars[e.body]
      BY <3>1 DEF Promoted
    <3>6. EntryChars(e) = Chars[e.body]
      BY <1>7, <2>3, EntryLength
    <3>7. PointerChars(c, e.body) \in Nat
      BY <3>3, LengthFacts
    <3> HIDE DEF e, part, p, c
    <3>8. PartSize(part) <= Total(class)
      BY <1>7, <1>8, <2>2, <3>4, <3>5, <3>6, <3>7
    <3>9. QED
      BY <3>8 DEF part
  <2>4. CASE e.kind = "coded"
    <3>1. e.code \in DOMAIN sections /\ c = e.code
      BY <1>4, <1>5, <1>11, <2>4
    <3>2. c \in CodesOf("coded", text)
      BY <1>1, <1>4, <2>4, <3>1 DEF CodesOf
    <3>3. ASSUME NEW i \in 1..n, text[i].kind # "core", text[i].code = c
          PROVE  class[i] = EntryChars(text[i])
      <4>1. text[i].kind \in {"coded", "pointer"}
        BY <1>1, <3>3, EntryFacts
      <4>2. slot[i] = c
        BY <1>5, <3>1, <3>3, <4>1
      <4>3. rep[i] = r
        BY <1>3, <1>11, <4>2
      <4>4. QED
        BY <1>6, <4>3
    <3>4. c \in DOMAIN sections
      BY <3>1
    <3> HIDE DEF c
    <3>5. PointerChars(c, b) <= Total(class)
      BY <1>6, <3>2, <3>3, <3>4, PointerShorter
    <3>6. c \in Code /\ b \in Body
      <4>1. sections[c] \in Seq(Body) /\ sections[c] # <<>>
        BY <3>4 DEF Extracted
      <4>2. QED
        BY <1>1, <3>4, <4>1
    <3> HIDE DEF b
    <3>7. EntryChars(p) = PointerChars(c, b)
      BY <3>6, EntryFacts, EntryLength
    <3> HIDE DEF e, part, p
    <3>8. QED
      BY <2>2, <3>5, <3>7 DEF part
  <2>5. QED
    BY <1>7, <1>11, <2>3, <2>4
<1>12. QED
  BY <1>9, <1>10, <1>11

LEMMA CondensedShorter ==
    ASSUME NEW text \in Text, NEW promoted, NEW used, Promoted(promoted, used, text),
           NEW sections, Extracted(sections, promoted, text), SoundSections(sections, text),
           NEW next, next = PlanWith(promoted, sections, text).condensed
    PROVE  TextChars(next) <= TextChars(text)
<1> DEFINE slot == Slots(promoted, sections, text)
           n == Len(text)
           old == Sizes(text)
           rep == RepOf(slot, n)
<1>1. /\ n \in Nat /\ DOMAIN text = 1..n /\ \A i \in 1..n : text[i] \in Entry
      /\ text \in Seq(Entry)
  BY TextFacts
<1>2. PICK parts \in Seq(Seq(Entry)) :
         /\ next = FlattenSeq(parts)
         /\ CondensedFrom(parts, text, sections)
         /\ \A i \in DOMAIN text : parts[i] = Placed(slot, sections, text, i)
  BY CondensedParts
<1> HIDE DEF slot
<1>3. Len(parts) = n /\ DOMAIN parts = 1..n /\ \A i \in 1..n : parts[i] \in Seq(Entry)
  BY <1>1, <1>2 DEF CondensedFrom
<1>4. \A i \in 1..n : Len(parts[i]) <= 1
  <2> SUFFICES ASSUME NEW i \in 1..n PROVE Len(parts[i]) <= 1
    OBVIOUS
  <2>1. parts[i] = <<>> \/ \E e : parts[i] = <<e>>
    BY <1>1, <1>2 DEF CondensedFrom, Stays, Goes
  <2>2. Len(<<>>) <= 1 /\ \A e : Len(<<e>>) <= 1
    OBVIOUS
  <2>3. QED
    BY <2>1, <2>2, Zenon
<1> DEFINE new == [i \in 1..n |-> PartSize(parts[i])]
<1>5. /\ new \in Seq(Nat) /\ Len(new) = n /\ \A i \in 1..n : new[i] = PartSize(parts[i])
  <2>1. ASSUME NEW i \in 1..n PROVE PartSize(parts[i]) \in Nat
    <3> DEFINE part == parts[i]
    <3>1. part \in Seq(Entry) /\ Len(part) <= 1
      BY <1>3, <1>4
    <3> HIDE DEF part
    <3>2. part # <<>> => part[1] \in Entry
      BY <3>1, OnePart
    <3>3. PartSize(part) \in Nat
      BY <3>2, EntryLength DEF PartSize
    <3>4. QED
      BY <3>3 DEF part
  <2>2. QED
    BY <1>1, <2>1
<1> HIDE DEF new
<1>6. old \in Seq(Nat) /\ Len(old) = n
  BY <1>1, SizesIs
<1>7. /\ rep \in [1..n -> 1..n]
      /\ \A i, r \in 1..n : rep[i] = r /\ i # r =>
            slot[i] # NoCode /\ r \in 1..(i - 1) /\ slot[r] = slot[i]
  BY <1>1, RepFacts
<1> HIDE DEF old
<1>8. ASSUME NEW r \in 1..n PROVE Total(OfClass(new, rep, r)) <= Total(OfClass(old, rep, r))
  <2> DEFINE a == OfClass(old, rep, r)
             b == OfClass(new, rep, r)
  <2>1. a \in Seq(Nat) /\ Len(a) = n
    BY <1>6, OfClassIs
  <2>2. b \in Seq(Nat) /\ Len(b) = n /\ \A i \in 1..n : b[i] = IF rep[i] = r THEN new[i] ELSE 0
    BY <1>5, OfClassIs
  <2> HIDE DEF b
  <2>3. ASSUME NEW i \in 1..n, i # r PROVE b[i] = 0
    <3>1. CASE rep[i] = r
      <4>1. slot[i] # NoCode /\ r \in 1..(i - 1) /\ slot[r] = slot[i]
        BY <1>7, <2>3, <3>1
      <4>2. Placed(slot, sections, text, i) = <<>>
        BY <4>1, Zenon DEF Placed
      <4>3. PartSize(parts[i]) = 0
        BY <1>1, <1>2, <4>2 DEF PartSize
      <4>4. QED
        BY <1>5, <2>2, <4>3
    <3>2. CASE rep[i] # r
      BY <2>2, <3>2
    <3>3. QED
      BY <3>1, <3>2
  <2>4. Total(b) = b[r]
    BY <2>2, <2>3, TotalOnly
  <2>5. Total(a) \in Nat
    BY <2>1, TotalType
  <2>6. CASE rep[r] # r
    <3>1. b[r] = 0
      BY <2>2, <2>6
    <3> HIDE DEF a
    <3>2. Total(b) <= Total(a)
      BY <2>4, <2>5, <3>1
    <3>3. QED
      BY <3>2 DEF a, b
  <2>7. CASE rep[r] = r
    <3>1. b[r] = PartSize(Placed(slot, sections, text, r))
      BY <1>1, <1>2, <1>5, <2>2, <2>7
    <3>2. slot = [i \in DOMAIN text |-> Slot(text[i], promoted, DOMAIN sections)]
      BY DEF slot, Slots
    <3>3. a = OfClass(Sizes(text), RepOf(slot, Len(text)), r)
      BY DEF old
    <3>4. r \in 1..Len(text) /\ RepOf(slot, Len(text))[r] = r
      BY <2>7
    <3> HIDE DEF a, n, rep
    <3>5. PartSize(Placed(slot, sections, text, r)) <= Total(a)
      BY <3>2, <3>3, <3>4, ClassShorter
    <3>6. Total(b) <= Total(a)
      BY <2>4, <3>1, <3>5
    <3>7. QED
      BY <3>6 DEF a, b
  <2>8. QED
    BY <2>6, <2>7
<1> HIDE DEF rep
<1>9. Total(new) <= Total(old)
  BY <1>5, <1>6, <1>7, <1>8, TotalByClass
<1>10. next \in Seq(Entry) /\ Len(next) <= n
  <2>1. next \in Seq(Entry)
    BY <1>2, FlattenType
  <2>2. Len(next) <= n
    BY <1>2, <1>3, <1>4, FlattenLength
  <2>3. QED
    BY <2>1, <2>2
<1>11. Total(Sizes(next)) = Total(new)
  BY <1>2, <1>3, <1>4, <1>5, FlattenTotal
<1>12. /\ TextChars(next) = Joined(Sizes(next), 3) /\ TextChars(text) = Joined(old, 3)
       /\ Sizes(next) \in Seq(Nat) /\ Len(Sizes(next)) = Len(next)
  <2>1. TextChars(next) = Joined(Sizes(next), 3) /\ TextChars(text) = Joined(old, 3)
    BY Zenon DEF TextChars, Sizes, old
  <2>2. QED
    BY <1>10, <2>1, SizesIs
<1> DEFINE s == Sizes(next)
<1>13. /\ Joined(s, 3) = Total(s) + (IF s = <<>> THEN 0 ELSE 3 * (Len(s) - 1))
       /\ Joined(old, 3) = Total(old) + (IF old = <<>> THEN 0 ELSE 3 * (Len(old) - 1))
  BY Zenon DEF Joined
<1>14. /\ Total(s) \in Nat /\ Total(old) \in Nat /\ s \in Seq(Nat) /\ Len(s) <= Len(old)
       /\ Total(s) <= Total(old)
  BY <1>6, <1>9, <1>10, <1>11, <1>12, TotalType
<1> HIDE DEF s, n
<1>15. Joined(s, 3) <= Joined(old, 3)
  <2>1. CASE s = <<>>
    <3>1. Joined(s, 3) = Total(s)
      BY <1>13, <1>14, <2>1
    <3>2. Joined(old, 3) >= Total(old)
      <4>1. CASE old = <<>>
        BY <1>13, <1>14, <4>1
      <4>2. CASE old # <<>>
        <5>1. Len(old) \in Nat /\ Len(old) >= 1
          BY <1>6, <4>2
        <5>2. QED
          BY <1>13, <1>14, <4>2, <5>1
      <4>3. QED
        BY <4>1, <4>2
    <3>3. Joined(old, 3) \in Int
      <4>1. Len(old) \in Nat
        BY <1>6
      <4>2. QED
        BY <1>13, <1>14, <4>1
    <3>4. QED
      BY <1>14, <3>1, <3>2, <3>3
  <2>2. CASE s # <<>>
    <3>1. Len(s) \in Nat /\ Len(s) >= 1 /\ Len(old) \in Nat
      BY <1>6, <1>14, <2>2
    <3>2. old # <<>>
      BY <1>14, <3>1
    <3>3. QED
      BY <1>13, <1>14, <2>2, <3>1, <3>2
  <2>3. QED
    BY <2>1, <2>2
<1>16. QED
  BY <1>12, <1>15 DEF s

LEMMA PlanShorter ==
    ASSUME NEW text \in Text
    PROVE  TextChars(Plan(text).condensed) <= TextChars(text)
<1> DEFINE promoted == Promotions(text)
           sections == PlanOf(promoted, text).sections
           next == Plan(text).condensed
<1>1. PICK used : Promoted(promoted, used, text)
  BY PromotionsFacts
<1>2. /\ Plan(text).sections = sections
      /\ next = PlanWith(promoted, sections, text).condensed
  BY DEF Plan, PlanOf, PlanWith
<1> HIDE DEF promoted
<1>3. Extracted(sections, promoted, text)
  BY <1>1, SectionsFacts
<1> HIDE DEF sections, next
<1>4. SoundSections(sections, text)
  BY <1>2, InlineCodesExtracted DEF SoundSections
<1>5. TextChars(next) <= TextChars(text)
  BY <1>1, <1>2, <1>3, <1>4, CondensedShorter
<1>6. QED
  BY <1>5 DEF next

(* No refine makes the hot zone longer (refine.py:225-226), for any        *)
(* bodies, lengths, codes and limits: every code shows one entry, and it   *)
(* is no longer than the entries it stands for.                            *)
THEOREM NeverLongerAlways == Spec => []NeverLonger
<1>1. Types => NeverLonger
  <2> SUFFICES ASSUME Types PROVE NeverLonger
    OBVIOUS
  <2>1. memory \in Text
    BY TypesParts DEF Files
  <2>2. QED
    BY <2>1, PlanShorter DEF NeverLonger
<1>2. QED
  BY <1>1, TypesAlways, PTL

===============================================================================
