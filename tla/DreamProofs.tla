------------------------------ MODULE DreamProofs ------------------------------
(***************************************************************************)
(* For every set of processes, every alphabet of entries and every choice  *)
(* of thresholds and times: the types of the consolidation, the mutual     *)
(* exclusion its lock gives while nobody is robbed of it, and that nothing *)
(* mirrored is lost while no other writer meets a compaction, and what a   *)
(* compaction makes of a log.  For one process: that it counts exactly,    *)
(* never meets its own compaction, and with its archive implements the     *)
(* store MirrorPromise describes.                                          *)
(***************************************************************************)
EXTENDS Dream, SequenceTheorems, FiniteSetTheorems, WellFoundedInduction, TLAPS

(* Induction on the natural numbers, stated for a set: a set of numbers    *)
(* that holds 0 and is closed under successor holds them all.              *)
LEMMA SetInduction ==
    ASSUME NEW S, 0 \in S, \A n \in Nat : n \in S => n + 1 \in S
    PROVE  Nat \subseteq S
<1> SUFFICES ASSUME Nat \ S # {} PROVE FALSE
  OBVIOUS
<1>1. PICK x \in Nat \ S : \A y \in Nat \ S : ~(<<y, x>> \in OpToRel(<, Nat))
  BY NatLessThanWellFounded, WFMin
<1>2. x \in Nat /\ x \notin S
  BY <1>1, Zenon
<1>3. 0 \in S
  OBVIOUS
<1>4. x - 1 \in Nat /\ x - 1 < x /\ (x - 1) + 1 = x
  BY <1>2, <1>3
<1>5. <<x - 1, x>> \in OpToRel(<, Nat)
  BY <1>2, <1>4, Zenon DEF OpToRel
<1>6. x - 1 \in S
  BY <1>1, <1>4, <1>5, Zenon
<1>7. QED
  BY <1>2, <1>4, <1>6

(* One more entry keeps a dict a sequence of entries.                      *)
LEMMA InsertType ==
    ASSUME NEW d \in Seq(Entry), NEW e \in Entry
    PROVE  Insert(d, e) \in Seq(Entry)
<1>1. CASE BodyOf[e] \in Bodies(d)
  <2>1. Insert(d, e) = [i \in 1..Len(d) |-> IF BodyOf[d[i]] = BodyOf[e] THEN e ELSE d[i]]
    BY <1>1 DEF Insert
  <2>2. QED
    BY <2>1, IsASeq
<1>2. CASE BodyOf[e] \notin Bodies(d)
  BY <1>2 DEF Insert
<1>3. QED
  BY <1>1, <1>2

(* The dicts the loop over the blocks goes through exist and are sequences *)
(* of entries.                                                             *)
LEMMA DictAfterDef ==
    ASSUME NEW log \in Seq(Entry)
    PROVE  DictAfter(log) = [n \in 0..Len(log) |->
               IF n = 0 THEN <<>> ELSE Insert(DictAfter(log)[n - 1], log[n])]
<1> DEFINE IsDict(m, f) == f = [n \in 0..m |-> IF n = 0 THEN <<>> ELSE Insert(f[n - 1], log[n])]
           S == {m \in Nat : \E f : IsDict(m, f)}
<1>1. 0 \in S
  <2>1. IsDict(0, [n \in 0..0 |-> <<>>])
    OBVIOUS
  <2>2. QED
    BY <2>1
<1>2. ASSUME NEW m \in Nat, m \in S PROVE m + 1 \in S
  <2>1. PICK f : IsDict(m, f)
    BY <1>2
  <2> DEFINE g == [n \in 0..(m + 1) |-> IF n = m + 1 THEN Insert(f[m], log[m + 1]) ELSE f[n]]
  <2>2. \A n \in 0..(m + 1) : g[n] = IF n = 0 THEN <<>> ELSE Insert(g[n - 1], log[n])
    <3> SUFFICES ASSUME NEW n \in 0..(m + 1)
                 PROVE  g[n] = IF n = 0 THEN <<>> ELSE Insert(g[n - 1], log[n])
      OBVIOUS
    <3>1. CASE n = m + 1
      BY <3>1
    <3>2. CASE n # m + 1
      <4>1. n \in 0..m /\ g[n] = f[n] /\ (n # 0 => g[n - 1] = f[n - 1])
        BY <3>2
      <4>2. f[n] = IF n = 0 THEN <<>> ELSE Insert(f[n - 1], log[n])
        BY <2>1, <4>1
      <4>3. QED
        BY <4>1, <4>2
    <3>3. QED
      BY <3>1, <3>2
  <2>3. IsDict(m + 1, g)
    BY <2>2
  <2> HIDE DEF g, IsDict
  <2>4. \E f2 : IsDict(m + 1, f2)
    BY <2>3
  <2>5. m + 1 \in Nat
    OBVIOUS
  <2>6. QED
    BY <2>4, <2>5
<1>3. Len(log) \in S
  <2> HIDE DEF S
  <2>1. Nat \subseteq S
    BY <1>1, <1>2, SetInduction
  <2>2. QED
    BY <2>1
<1>4. PICK f : IsDict(Len(log), f)
  BY <1>3
<1>5. QED
  BY <1>4 DEF DictAfter

LEMMA DedupType ==
    ASSUME NEW log \in Seq(Entry)
    PROVE  Dedup(log) \in Seq(Entry)
<1> DEFINE S == {n \in Nat : n <= Len(log) => DictAfter(log)[n] \in Seq(Entry)}
<1>1. 0 \in S
  BY DictAfterDef
<1>2. ASSUME NEW n \in Nat, n \in S PROVE n + 1 \in S
  <2> SUFFICES ASSUME n + 1 <= Len(log) PROVE DictAfter(log)[n + 1] \in Seq(Entry)
    OBVIOUS
  <2>1. DictAfter(log)[n + 1] = Insert(DictAfter(log)[n], log[n + 1])
    BY DictAfterDef
  <2>2. DictAfter(log)[n] \in Seq(Entry) /\ log[n + 1] \in Entry
    BY <1>2
  <2>3. QED
    BY <2>1, <2>2, InsertType
<1> HIDE DEF S
<1>3. Nat \subseteq S
  BY <1>1, <1>2, SetInduction
<1>4. QED
  BY <1>3 DEF S, Dedup

-------------------------------------------------------------------------------
BodyVals == {BodyOf[e] : e \in Entry}

(* The numbers the ages are bounded by, and the markers the code builds.   *)
LEMMA Bounds ==
    /\ Threshold \in Nat /\ Threshold # 0 /\ Staleness \in Nat
    /\ LockStale \in Nat /\ MaxDelay \in Nat
    /\ LockCap \in Nat /\ Old \in Nat /\ Old = MaxDelay + 1
    /\ 0 \in 0..LockCap /\ 0 \in 0..MaxDelay /\ 0 \in 0..Old
    /\ MaxLog \in Nat /\ MaxCrashes \in Nat /\ MaxRaises \in Nat
BY TriggerAssumption, TimeAssumption, BoundAssumption DEF LockCap, Old

LEMMA OlderType ==
    ASSUME NEW cap \in Nat, NEW n \in 0..cap
    PROVE  Older(n, cap) \in 0..cap
BY DEF Older

LEMMA StateFacts ==
    /\ Fresh \in State
    /\ NoLocal \in Local
    /\ \A s \in State : Signalled(s) \in State
<1>1. Fresh \in State
  BY Bounds DEF Fresh, State
<1>2. NoLocal \in Local
  BY <1>1, Bounds DEF NoLocal, Local
<1>3. ASSUME NEW s \in State PROVE Signalled(s) \in State
  <2>1. Older(s.sig, Threshold) \in 0..Threshold
    BY Bounds, OlderType DEF State
  <2>2. (IF s.sig = 0 THEN 0 ELSE s.age) \in 0..Staleness
    BY Bounds DEF State
  <2>3. QED
    BY <2>1, <2>2 DEF Signalled, State
<1>4. QED
  BY <1>1, <1>2, <1>3

LEMMA BodiesType ==
    ASSUME NEW log \in Seq(Entry) PROVE Bodies(log) \subseteq BodyVals
BY DEF Bodies, BodyVals

(* What is mirrored at once is a log of its own, and adds its bodies.      *)
LEMMA TextsType == Texts \subseteq Seq(Entry)
<1>1. ASSUME NEW e \in Entry PROVE <<e>> \in Seq(Entry)
  OBVIOUS
<1>2. ASSUME NEW e \in Entry, NEW f \in Entry PROVE <<e, f>> \in Seq(Entry)
  OBVIOUS
<1> DEFINE whole == {f \in Entry : BodyOf[f] # NoBody}
<1>3. whole \subseteq Entry
  OBVIOUS
<1> HIDE DEF whole
<1>4. {<<e>> : e \in whole} \subseteq Seq(Entry)
  BY <1>1, <1>3
<1>5. {<<e, f>> : e \in whole, f \in Entry} \subseteq Seq(Entry)
  BY <1>2, <1>3
<1>6. Texts = {<<e>> : e \in whole} \cup {<<e, f>> : e \in whole, f \in Entry}
  BY DEF Texts, whole
<1>7. QED
  BY <1>4, <1>5, <1>6

LEMMA AppendedBodies ==
    ASSUME NEW log \in Seq(Entry), NEW text \in Seq(Entry)
    PROVE  /\ log \o text \in Seq(Entry)
           /\ Bodies(log \o text) = Bodies(log) \cup Bodies(text)
<1> DEFINE new == log \o text
<1>1. /\ DOMAIN log = 1..Len(log) /\ Len(log) \in Nat
      /\ DOMAIN text = 1..Len(text) /\ Len(text) \in Nat
  OBVIOUS
<1>2. /\ new \in Seq(Entry) /\ DOMAIN new = 1..(Len(log) + Len(text))
      /\ \A i \in 1..Len(log) : new[i] = log[i]
      /\ \A i \in 1..Len(text) : new[Len(log) + i] = text[i]
  OBVIOUS
<1> HIDE DEF new
<1>3. ASSUME NEW i \in DOMAIN log PROVE i \in DOMAIN new /\ BodyOf[new[i]] = BodyOf[log[i]]
  BY <1>1, <1>2
<1>4. ASSUME NEW i \in DOMAIN text
      PROVE  Len(log) + i \in DOMAIN new /\ BodyOf[new[Len(log) + i]] = BodyOf[text[i]]
  BY <1>1, <1>2
<1>5. ASSUME NEW i \in DOMAIN new
      PROVE  \/ \E j \in DOMAIN log : BodyOf[new[i]] = BodyOf[log[j]]
             \/ \E j \in DOMAIN text : BodyOf[new[i]] = BodyOf[text[j]]
  <2>1. i \in DOMAIN log \/ (i - Len(log) \in DOMAIN text /\ Len(log) + (i - Len(log)) = i)
    BY <1>1, <1>2
  <2>2. QED
    BY <1>3, <1>4, <2>1
<1>6. Bodies(new) = Bodies(log) \cup Bodies(text)
  BY <1>3, <1>4, <1>5 DEF Bodies
<1>7. QED
  BY <1>2, <1>6 DEF new

(* Each part of the types of the locals, for the steps that change one.    *)
LEMMA LocalParts ==
    ASSUME NEW l \in Local
    PROVE  /\ l.st \in State /\ l.raw \in Seq(Entry)
           /\ l.age \in 0..MaxDelay /\ l.then \in {"load", "idle"}
           /\ \A s \in State : [l EXCEPT !.st = s] \in Local
           /\ \A r \in Seq(Entry) : [l EXCEPT !.raw = r] \in Local
           /\ [l EXCEPT !.then = "load"] \in Local
BY DEF Local

(* The control and the locals of a step that moves p and may drop its      *)
(* locals or replace them by others of the type.                           *)
LEMMA GotoType ==
    ASSUME TypeOK, NEW p \in Proc, NEW l \in PC, Goto(p, l)
    PROVE  pc' \in [Proc -> PC]
BY DEF Goto, TypeOK

LEMMA ReturnType ==
    ASSUME TypeOK, NEW p \in Proc, Return(p)
    PROVE  pc' \in [Proc -> PC] /\ loc' \in [Proc -> Local]
<1>1. "idle" \in PC
  BY DEF PC
<1>2. QED
  BY <1>1, StateFacts DEF Return, Goto, TypeOK

(* The host's calls and the steps that record a signal.                    *)
LEMMA RecordingType ==
    ASSUME TypeOK, NEW p \in Proc,
           \/ OnMemoryWrite(p) \/ SyncTurn(p) \/ Boundary(p)
           \/ RecordLoad(p) \/ RecordMisread(p) \/ RecordTruncate(p) \/ RecordSave(p)
    PROVE  TypeOK'
<1> USE StateFacts
<1>1. {"rload", "load", "rempty", "rfill", "idle"} \subseteq PC
  BY DEF PC, Timed
<1>2. loc[p] \in Local
  BY DEF TypeOK
<1>3. CASE OnMemoryWrite(p)
  <2>1. PICK text \in Texts : mirror' = mirror \o text /\ logged' = logged \cup Bodies(text)
    BY <1>3 DEF OnMemoryWrite
  <2>2. mirror' \in Seq(Entry) /\ logged' \subseteq {BodyOf[x] : x \in Entry}
    <3>1. text \in Seq(Entry) /\ mirror \in Seq(Entry)
      BY TextsType DEF TypeOK
    <3>2. Bodies(text) \subseteq BodyVals /\ logged \subseteq BodyVals
      BY <3>1, BodiesType DEF TypeOK, BodyVals
    <3>3. QED
      BY <2>1, <3>1, <3>2, AppendedBodies DEF BodyVals
  <2>3. loc' \in [Proc -> Local]
    BY <1>2, <1>3, LocalParts DEF OnMemoryWrite, TypeOK, Local
  <2>4. pc' \in [Proc -> PC]
    BY <1>1, <1>3, GotoType DEF OnMemoryWrite
  <2>5. interfered' \in BOOLEAN
    BY <1>3 DEF OnMemoryWrite
  <2>6. QED
    BY <1>3, <2>2, <2>3, <2>4, <2>5 DEF OnMemoryWrite, TypeOK
<1>4. CASE SyncTurn(p)
  BY <1>1, <1>4, GotoType DEF SyncTurn, TypeOK, history
<1>5. CASE Boundary(p)
  BY <1>1, <1>5, GotoType DEF Boundary, TypeOK, history
<1>6. CASE RecordLoad(p)
  <2>1. loc' \in [Proc -> Local]
    BY <1>2, <1>6, LocalParts DEF RecordLoad, TypeOK, Local
  <2>2. pc' \in [Proc -> PC]
    BY <1>1, <1>6, GotoType DEF RecordLoad
  <2>3. QED
    BY <1>6, <2>1, <2>2 DEF RecordLoad, TypeOK, history
<1>7. CASE RecordTruncate(p)
  BY <1>1, <1>7, GotoType DEF RecordTruncate, TypeOK, history
<1>8. CASE RecordSave(p)
  <2>1. state' \in State /\ loc[p].then \in PC
    BY <1>1, <1>2, <1>8, LocalParts DEF RecordSave
  <2>2. pc' \in [Proc -> PC] /\ loc' \in [Proc -> Local]
    BY <1>8, <2>1, GotoType DEF RecordSave, TypeOK
  <2>3. owed' \in 0..Threshold
    BY <1>8, Bounds, OlderType DEF RecordSave, TypeOK
  <2>4. QED
    BY <1>8, <2>1, <2>2, <2>3 DEF RecordSave, TypeOK
<1>9. CASE RecordMisread(p)
  <2>1. loc' \in [Proc -> Local]
    BY <1>2, <1>9, LocalParts DEF RecordMisread, TypeOK, Local
  <2>2. pc' \in [Proc -> PC] /\ raises' \in 0..MaxRaises
    BY <1>1, <1>9, GotoType, Bounds DEF RecordMisread, TypeOK
  <2>3. QED
    BY <1>9, <2>1, <2>2 DEF RecordMisread, TypeOK
<1>10. QED
  BY <1>3, <1>4, <1>5, <1>6, <1>7, <1>8, <1>9

(* The decision to run and the lock.                                       *)
LEMMA LockingType ==
    ASSUME TypeOK, NEW p \in Proc,
           Load(p) \/ TryLock(p) \/ Stat(p) \/ Steal(p) \/ Create(p) \/ Release(p)
    PROVE  TypeOK'
<1>1. {"lock", "idle", "read", "stat", "steal", "create"} \subseteq PC
  BY DEF PC, Timed, Section
<1>2. {NoLock, 0} \subseteq {NoLock} \cup 0..LockCap
  BY Bounds
<1>3. CASE Load(p)
  BY <1>1, <1>3, GotoType DEF Load, TypeOK, history
<1>4. CASE TryLock(p)
  BY <1>1, <1>2, <1>4, GotoType DEF TryLock, TypeOK, history
<1>5. CASE Stat(p)
  BY <1>1, <1>5, GotoType, ReturnType DEF Stat, TypeOK, history
<1>6. CASE Steal(p)
  <2>1. pc' \in [Proc -> PC] /\ loc' \in [Proc -> Local]
    BY <1>1, <1>6, GotoType, ReturnType DEF Steal, TypeOK
  <2>2. lock' \in {NoLock} \cup 0..LockCap /\ robbed' \in BOOLEAN
    BY <1>2, <1>6 DEF Steal, TypeOK
  <2>3. QED
    BY <1>6, <2>1, <2>2 DEF Steal, TypeOK
<1>7. CASE Create(p)
  <2>1. pc' \in [Proc -> PC] /\ loc' \in [Proc -> Local]
    BY <1>1, <1>7, GotoType, ReturnType DEF Create, TypeOK
  <2>2. QED
    BY <1>2, <1>7, <2>1 DEF Create, TypeOK, history
<1>8. CASE Release(p)
  BY <1>2, <1>8, ReturnType DEF Release, TypeOK, history
<1>9. QED
  BY <1>3, <1>4, <1>5, <1>6, <1>7, <1>8

(* The consolidation itself, and the ways it ends early.                   *)
LEMMA ConsolidationType ==
    ASSUME TypeOK, NEW p \in Proc,
           \/ Read(p) \/ ReadFails(p) \/ Archive(p) \/ Empty(p) \/ Fill(p) \/ Save(p)
           \/ Raise(p) \/ Crash(p)
    PROVE  TypeOK'
<1>1. {"idle", "archive", "empty", "fill", "save", "skip", "release"} \subseteq PC
  BY DEF PC, Timed, Section
<1>2. loc[p] \in Local /\ mirror \in Seq(Entry) /\ <<>> \in Seq(Entry)
  BY DEF TypeOK
<1>3. ASSUME NEW r \in Seq(Entry), loc' = [loc EXCEPT ![p].raw = r]
      PROVE  loc' \in [Proc -> Local]
  BY <1>2, <1>3, LocalParts DEF TypeOK, Local
<1>4. CASE Read(p)
  <2>1. pc' \in [Proc -> PC]
    BY <1>1, <1>4, GotoType DEF Read
  <2>2. loc' \in [Proc -> Local]
    BY <1>2, <1>3, <1>4 DEF Read, TypeOK
  <2>3. QED
    BY <1>4, <2>1, <2>2 DEF Read, TypeOK, history
<1>5. CASE Archive(p)
  <2>1. Bodies(loc[p].raw) \subseteq BodyVals
    BY <1>2, BodiesType, LocalParts
  <2>2. archive' \in [0..Old -> SUBSET {BodyOf[e] : e \in Entry}]
    BY <1>5, <2>1 DEF Archive, TypeOK, BodyVals
  <2>3. pc' \in [Proc -> PC] /\ interfered' \in BOOLEAN
    BY <1>1, <1>5, GotoType DEF Archive
  <2>4. QED
    BY <1>5, <2>2, <2>3 DEF Archive, TypeOK
<1>6. CASE Empty(p)
  <2>1. pc' \in [Proc -> PC] /\ interfered' \in BOOLEAN
    BY <1>1, <1>6, GotoType DEF Empty
  <2>2. QED
    BY <1>2, <1>6, <2>1 DEF Empty, TypeOK
<1>7. CASE Fill(p)
  <2>1. mirror' \in Seq(Entry)
    BY <1>2, <1>7, DedupType, LocalParts DEF Fill
  <2>2. loc' \in [Proc -> Local]
    BY <1>2, <1>3, <1>7 DEF Fill
  <2>3. pc' \in [Proc -> PC] /\ interfered' \in BOOLEAN
    BY <1>1, <1>7, GotoType DEF Fill
  <2>4. QED
    BY <1>7, <2>1, <2>2, <2>3 DEF Fill, TypeOK
<1>8. CASE Save(p)
  <2>1. pc' \in [Proc -> PC] /\ state' \in State
    BY <1>1, <1>8, GotoType, StateFacts DEF Save
  <2>2. owed' \in 0..Threshold
    BY <1>8, Bounds DEF Save, TypeOK
  <2>3. QED
    BY <1>8, <2>1, <2>2 DEF Save, TypeOK
<1>9. CASE Raise(p)
  <2>1. pc' \in [Proc -> PC] /\ raises' \in 0..MaxRaises
    BY <1>1, <1>9, GotoType, Bounds DEF Raise, TypeOK
  <2>2. loc' \in [Proc -> Local]
    BY <1>2, <1>3, <1>9 DEF Raise
  <2>3. QED
    BY <1>9, <2>1, <2>2 DEF Raise, TypeOK
<1>10. CASE Crash(p)
  <2>1. pc' \in [Proc -> PC] /\ loc' \in [Proc -> Local]
    BY <1>10, ReturnType DEF Crash
  <2>2. crashes' \in 0..MaxCrashes /\ torn' \in BOOLEAN
    BY <1>10, Bounds DEF Crash, TypeOK
  <2>3. QED
    BY <1>10, <2>1, <2>2 DEF Crash, TypeOK
<1>11. CASE ReadFails(p)
  <2>1. pc' \in [Proc -> PC] /\ raises' \in 0..MaxRaises
    BY <1>1, <1>11, GotoType, Bounds DEF ReadFails, TypeOK
  <2>2. QED
    BY <1>11, <2>1 DEF ReadFails, TypeOK
<1>12. QED
  BY <1>4, <1>5, <1>6, <1>7, <1>8, <1>9, <1>10, <1>11

(* Time: ages grow inside their bounds, and the archives keep their texts. *)
LEMMA TickType ==
    ASSUME TypeOK, Tick
    PROVE  TypeOK'
<1>1. ASSUME NEW s \in State
      PROVE  [s EXCEPT !.age = IF s.sig = 0 THEN @ ELSE Older(@, Staleness)] \in State
  <2>1. Older(s.age, Staleness) \in 0..Staleness
    BY Bounds, OlderType DEF State
  <2>2. QED
    BY <2>1 DEF State
<1>2. state' \in State
  BY <1>1 DEF Tick, TypeOK
<1>3. lock' \in {NoLock} \cup 0..LockCap
  BY Bounds, OlderType DEF Tick, TypeOK
<1>4. archive' \in [0..Old -> SUBSET {BodyOf[e] : e \in Entry}]
  <2> DEFINE A(a) == (IF a = 0 THEN {} ELSE archive[a - 1])
                       \cup (IF a = Old THEN archive[Old] ELSE {})
  <2>1. ASSUME NEW a \in 0..Old PROVE A(a) \subseteq {BodyOf[e] : e \in Entry}
    <3>1. a # 0 => a - 1 \in 0..Old
      BY Bounds
    <3>2. Old \in 0..Old
      BY Bounds
    <3>3. QED
      BY <3>1, <3>2 DEF TypeOK
  <2>2. archive' = [a \in 0..Old |-> A(a)]
    BY DEF Tick
  <2> HIDE DEF A
  <2>3. QED
    BY <2>1, <2>2
<1>5. loc' \in [Proc -> Local]
  <2> DEFINE L(p) == [loc[p] EXCEPT
                        !.age = IF pc[p] \in Timed THEN @ + 1 ELSE @,
                        !.st.age = IF loc[p].st.sig = 0 THEN @ ELSE Older(@, Staleness)]
  <2>1. ASSUME NEW p \in Proc PROVE L(p) \in Local
    <3>1. loc[p] \in Local /\ (pc[p] \in Timed => loc[p].age < MaxDelay)
      BY DEF TypeOK, Tick
    <3>2. loc[p].age \in 0..MaxDelay /\ loc[p].st \in State
      BY <3>1, LocalParts
    <3>3. (IF pc[p] \in Timed THEN loc[p].age + 1 ELSE loc[p].age) \in 0..MaxDelay
      BY <3>1, <3>2, Bounds
    <3>4. [loc[p].st EXCEPT !.age = IF loc[p].st.sig = 0 THEN @ ELSE Older(@, Staleness)] \in State
      BY <1>1, <3>2
    <3>5. QED
      BY <3>1, <3>2, <3>3, <3>4 DEF Local
  <2>2. loc' = [p \in Proc |-> L(p)]
    BY DEF Tick
  <2> HIDE DEF L
  <2>3. QED
    BY <2>1, <2>2
<1>6. QED
  BY <1>2, <1>3, <1>4, <1>5 DEF Tick, TypeOK, history

(* Type correctness (TypeOK), for the files, the ages in them and in the   *)
(* lock, and what every call has in hand.                                  *)
THEOREM TypeCorrect == Spec => []TypeOK
<1>1. Init => TypeOK
  <2> SUFFICES ASSUME Init PROVE TypeOK
    OBVIOUS
  <2>1. "idle" \in PC
    BY DEF PC
  <2>2. state \in State /\ loc \in [Proc -> Local] /\ pc \in [Proc -> PC]
    BY <2>1, StateFacts DEF Init
  <2>3. crashes \in 0..MaxCrashes /\ raises \in 0..MaxRaises /\ owed \in 0..Threshold
    BY Bounds DEF Init
  <2>4. mirror \in Seq(Entry) /\ lock \in {NoLock} \cup 0..LockCap
    BY DEF Init
  <2>5. archive \in [0..Old -> SUBSET {BodyOf[e] : e \in Entry}]
    BY DEF Init
  <2>6. QED
    BY <2>2, <2>3, <2>4, <2>5 DEF Init, TypeOK
<1>2. TypeOK /\ [Next]_vars => TypeOK'
  <2> SUFFICES ASSUME TypeOK, [Next]_vars PROVE TypeOK'
    OBVIOUS
  <2>1. ASSUME NEW p \in Proc, OnMemoryWrite(p) \/ SyncTurn(p) \/ Boundary(p) PROVE TypeOK'
    BY <2>1, RecordingType
  <2>2. ASSUME NEW p \in Proc, Step(p) PROVE TypeOK'
    BY <2>2, RecordingType, LockingType, ConsolidationType DEF Step
  <2>3. ASSUME NEW p \in Proc, RecordMisread(p) \/ ReadFails(p) \/ Raise(p) \/ Crash(p)
        PROVE  TypeOK'
    BY <2>3, RecordingType, ConsolidationType
  <2>4. CASE Tick
    BY <2>4, TickType
  <2>5. CASE UNCHANGED vars
    BY <2>5 DEF vars, TypeOK
  <2>6. QED
    BY <2>1, <2>2, <2>3, <2>4, <2>5 DEF Next
<1>3. QED
  BY <1>1, <1>2, PTL DEF Spec

-------------------------------------------------------------------------------
(* Mutual exclusion.  As it stands it is inductive: a lock is taken only   *)
(* when there is none, and then nobody is in the section; a thief that     *)
(* finds somebody there is on record.                                      *)
LEMMA ExclusionInit == Init => MutualExclusion
BY DEF Init, MutualExclusion, InSection, Section

LEMMA ExclusionStep ==
    ASSUME TypeOK, MutualExclusion, [Next]_vars
    PROVE  MutualExclusion'
<1>1. ASSUME NEW p \in Proc,
             \/ OnMemoryWrite(p) \/ SyncTurn(p) \/ Boundary(p) \/ RecordLoad(p) \/ RecordMisread(p)
             \/ RecordTruncate(p) \/ RecordSave(p) \/ Load(p) \/ Stat(p)
      PROVE  MutualExclusion'
  <2>1. UNCHANGED <<lock, robbed>> /\ pc[p] \notin Section
    BY <1>1 DEF OnMemoryWrite, SyncTurn, Boundary, RecordLoad, RecordMisread, RecordTruncate,
                RecordSave, Load, Stat, Section, history
  <2>2. PICK l \in PC \ Section : pc' = [pc EXCEPT ![p] = l]
    <3>1. {"rload", "load", "rempty", "rfill", "idle", "lock", "steal"} \subseteq PC \ Section
      BY DEF PC, Timed, Section
    <3>2. loc[p].then \in {"load", "idle"}
      BY LocalParts DEF TypeOK
    <3>3. QED
      BY <1>1, <3>1, <3>2 DEF OnMemoryWrite, SyncTurn, Boundary, RecordLoad, RecordMisread,
                              RecordTruncate, RecordSave, Load, Stat, Goto, Return
  <2>3. QED
    BY <2>1, <2>2 DEF MutualExclusion, InSection, TypeOK
<1>2. ASSUME NEW p \in Proc, TryLock(p) \/ Create(p) PROVE MutualExclusion'
  <2>1. robbed' = robbed
    BY <1>2 DEF TryLock, Create, history
  <2>2. CASE lock = NoLock
    <3>1. lock' = 0 /\ pc' = [pc EXCEPT ![p] = "read"]
      BY <1>2, <2>2 DEF TryLock, Create, Goto
    <3>2. 0 # NoLock
      BY DEF NoLock
    <3>3. QED
      BY <2>1, <2>2, <3>1, <3>2 DEF MutualExclusion, InSection, TypeOK
  <2>3. CASE lock # NoLock
    <3>1. lock' = lock /\ \E l \in {"stat", "idle"} : pc' = [pc EXCEPT ![p] = l]
      BY <1>2, <2>3 DEF TryLock, Create, Goto, Return
    <3>2. QED
      BY <2>1, <3>1 DEF MutualExclusion, InSection, TypeOK, Section
  <2>4. QED
    BY <2>2, <2>3
<1>3. ASSUME NEW p \in Proc, Steal(p) PROVE MutualExclusion'
  <2>1. \E l \in {"create", "idle"} : pc' = [pc EXCEPT ![p] = l]
    BY <1>3 DEF Steal, Goto, Return
  <2>2. CASE lock = NoLock
    BY <1>3, <2>1, <2>2 DEF Steal, MutualExclusion, InSection, TypeOK, Section
  <2>3. CASE lock # NoLock
    <3>1. robbed' = (robbed \/ \E q \in Proc : pc[q] \in Section)
      BY <1>3, <2>3 DEF Steal
    <3>2. QED
      BY <2>1, <3>1 DEF MutualExclusion, InSection, TypeOK, Section
  <2>4. QED
    BY <2>2, <2>3
<1>4. ASSUME NEW p \in Proc,
             \/ Read(p) \/ ReadFails(p) \/ Archive(p) \/ Empty(p) \/ Fill(p) \/ Save(p)
             \/ Raise(p)
      PROVE  MutualExclusion'
  <2>1. UNCHANGED <<lock, robbed>> /\ pc[p] \in Section
    BY <1>4 DEF Read, ReadFails, Archive, Empty, Fill, Save, Raise, Section, history
  <2>2. PICK l : pc' = [pc EXCEPT ![p] = l]
    BY <1>4 DEF Read, ReadFails, Archive, Empty, Fill, Save, Raise, Goto
  <2>3. QED
    BY <2>1, <2>2 DEF MutualExclusion, InSection, TypeOK
<1>5. ASSUME NEW p \in Proc, Release(p) PROVE MutualExclusion'
  <2>1. robbed' = robbed /\ pc[p] \in Section /\ pc' = [pc EXCEPT ![p] = "idle"]
    BY <1>5 DEF Release, Return, Goto, Section, history
  <2>2. QED
    BY <2>1 DEF MutualExclusion, InSection, TypeOK, Section
<1>6. ASSUME NEW p \in Proc, Crash(p) PROVE MutualExclusion'
  <2>1. UNCHANGED <<lock, robbed>> /\ pc' = [pc EXCEPT ![p] = "idle"]
    BY <1>6 DEF Crash, Return, Goto
  <2>2. QED
    BY <2>1 DEF MutualExclusion, InSection, TypeOK, Section
<1>7. CASE Tick
  <2>1. UNCHANGED <<pc, robbed>>
    BY <1>7 DEF Tick, history
  <2>2. lock # NoLock => lock' # NoLock
    <3>1. lock # NoLock => lock \in 0..LockCap /\ lock' = Older(lock, LockCap)
      BY <1>7 DEF Tick, TypeOK
    <3>2. lock # NoLock => lock' \in 0..LockCap
      BY <3>1, Bounds, OlderType
    <3>3. NoLock \notin 0..LockCap
      BY Bounds DEF NoLock
    <3>4. QED
      BY <3>2, <3>3
  <2>3. QED
    BY <2>1, <2>2 DEF MutualExclusion, InSection
<1>8. CASE UNCHANGED vars
  BY <1>8 DEF vars, MutualExclusion, InSection
<1>9. QED
  BY <1>1, <1>2, <1>3, <1>4, <1>5, <1>6, <1>7, <1>8 DEF Next, Step

(* Until a live holder is robbed of its lock, at most one process at a     *)
(* time consolidates, whatever crashes and raises (MutualExclusion).       *)
THEOREM MutualExclusionAlways == Spec => []MutualExclusion
<1>1. Init => MutualExclusion
  BY ExclusionInit
<1>2. TypeOK /\ MutualExclusion /\ [Next]_vars => MutualExclusion'
  BY ExclusionStep
<1>3. QED
  BY <1>1, <1>2, TypeCorrect, PTL DEF Spec

-------------------------------------------------------------------------------
(* Nothing is lost.  KeepInv is inductive: each step that touches the      *)
(* mirror or an archive either keeps what the compactions under way have   *)
(* in hand in step with the files or is on record as an interference.      *)
LEMMA KeepInit == Init => KeepInv
BY DEF Init, KeepInv, HandsMatch

(* A step that leaves the files alone and takes p to a label where it has  *)
(* nothing in hand to answer for.                                          *)
LEMMA KeepQuietly ==
    ASSUME TypeOK, KeepInv, NEW p \in Proc, NEW l,
           UNCHANGED <<mirror, archive, logged, interfered>>,
           pc' = [pc EXCEPT ![p] = l], l \notin Holding,
           \A q \in Proc \ {p} : loc'[q] = loc[q]
    PROVE  KeepInv'
<1>1. Known' = Known /\ Archived' = Archived
  BY DEF Known, Archived, Bodies
<1>2. \A q \in Proc \ {p} : pc'[q] = pc[q] /\ loc'[q] = loc[q]
  BY DEF TypeOK
<1>3. pc'[p] \notin {"archive", "empty", "fill"}
  BY DEF TypeOK, Holding
<1>4. HandsMatch => HandsMatch'
  BY <1>1, <1>2, <1>3 DEF HandsMatch, Bodies
<1>5. QED
  BY <1>1, <1>4 DEF KeepInv

(* Every archived text stays archived as the stamps age.                   *)
LEMMA ArchivedAges ==
    ASSUME TypeOK, Tick
    PROVE  Archived \subseteq Archived'
<1> SUFFICES ASSUME NEW a \in 0..Old, NEW b \in archive[a] PROVE b \in Archived'
  BY DEF Archived
<1>1. archive' = [c \in 0..Old |-> (IF c = 0 THEN {} ELSE archive[c - 1])
                                     \cup (IF c = Old THEN archive[Old] ELSE {})]
  BY DEF Tick
<1>2. CASE a = Old
  <2>1. Old \in 0..Old
    BY Bounds
  <2>2. b \in archive'[Old]
    BY <1>1, <1>2, <2>1
  <2>3. QED
    BY <2>1, <2>2 DEF Archived
<1>3. CASE a # Old
  <2>1. a + 1 \in 0..Old /\ a + 1 # 0 /\ (a + 1) - 1 = a
    BY <1>3, Bounds
  <2>2. b \in archive'[a + 1]
    BY <1>1, <2>1
  <2>3. QED
    BY <2>1, <2>2 DEF Archived
<1>4. QED
  BY <1>2, <1>3

LEMMA KeepStep ==
    ASSUME TypeOK, KeepInv, [Next]_vars
    PROVE  KeepInv'
<1>1. ASSUME NEW p \in Proc, OnMemoryWrite(p) PROVE KeepInv'
  <2> SUFFICES ASSUME ~interfered' PROVE logged' \subseteq Known' /\ HandsMatch'
    BY DEF KeepInv
  <2>1. ~interfered /\ \A q \in Proc : pc[q] \notin Holding
    BY <1>1 DEF OnMemoryWrite
  <2>2. PICK text \in Texts : mirror' = mirror \o text /\ logged' = logged \cup Bodies(text)
    BY <1>1 DEF OnMemoryWrite
  <2>3. archive' = archive /\ pc' = [pc EXCEPT ![p] = "rload"]
    BY <1>1 DEF OnMemoryWrite, Goto
  <2>4. Bodies(mirror)' = Bodies(mirror) \cup Bodies(text)
    <3>1. mirror \in Seq(Entry) /\ text \in Seq(Entry)
      BY TextsType DEF TypeOK
    <3>2. Bodies(mirror)' = Bodies(mirror \o text)
      BY <2>2 DEF Bodies
    <3>3. QED
      BY <3>1, <3>2, AppendedBodies
  <2>5. logged' \subseteq Known'
    BY <2>1, <2>2, <2>3, <2>4 DEF KeepInv, Known, Archived
  <2>6. \A q \in Proc : pc'[q] \notin Holding
    BY <2>1, <2>3 DEF TypeOK, Holding
  <2>7. HandsMatch'
    BY <2>6 DEF HandsMatch, Holding
  <2>8. QED
    BY <2>5, <2>7
<1>2. ASSUME NEW p \in Proc,
             \/ SyncTurn(p) \/ Boundary(p) \/ RecordLoad(p) \/ RecordMisread(p)
             \/ RecordTruncate(p) \/ RecordSave(p) \/ Load(p) \/ TryLock(p) \/ Stat(p)
             \/ Steal(p) \/ Create(p) \/ ReadFails(p) \/ Save(p) \/ Release(p) \/ Raise(p)
             \/ Crash(p)
      PROVE  KeepInv'
  <2>1. UNCHANGED <<mirror, archive, logged, interfered>>
    BY <1>2 DEF SyncTurn, Boundary, RecordLoad, RecordMisread, RecordTruncate, RecordSave, Load,
                TryLock, Stat, Steal, Create, ReadFails, Save, Release, Raise, Crash, history
  <2>2. \A q \in Proc \ {p} : loc'[q] = loc[q]
    BY <1>2 DEF SyncTurn, Boundary, RecordLoad, RecordMisread, RecordTruncate, RecordSave, Load,
                TryLock, Stat, Steal, Create, ReadFails, Save, Release, Raise, Crash, Return,
                history, TypeOK
  <2>3. PICK l : pc' = [pc EXCEPT ![p] = l] /\ l \notin Holding
    <3>1. loc[p].then \in {"load", "idle"}
      BY LocalParts DEF TypeOK
    <3>2. QED
      BY <1>2, <3>1 DEF SyncTurn, Boundary, RecordLoad, RecordMisread, RecordTruncate, RecordSave,
           Load, TryLock, Stat, Steal, Create, ReadFails, Save, Release, Raise, Crash, Return,
           Goto, Holding
  <2>4. QED
    BY <2>1, <2>2, <2>3, KeepQuietly
<1>3. ASSUME NEW p \in Proc, Read(p) PROVE KeepInv'
  <2>1. UNCHANGED <<mirror, archive, logged, interfered>>
    BY <1>3 DEF Read, history
  <2>2. CASE Minimal(mirror)
    <3>1. pc' = [pc EXCEPT ![p] = "save"] /\ loc' = loc /\ "save" \notin Holding
      BY <1>3, <2>2 DEF Read, Goto, Holding
    <3>2. QED
      BY <2>1, <3>1, KeepQuietly
  <2>3. CASE ~Minimal(mirror)
    <3>1. pc' = [pc EXCEPT ![p] = "archive"] /\ loc' = [loc EXCEPT ![p].raw = mirror]
      BY <1>3, <2>3 DEF Read, Goto
    <3>2. Known' = Known /\ Archived' = Archived
      BY <2>1 DEF Known, Archived, Bodies
    <3>3. pc'[p] = "archive" /\ loc'[p].raw = mirror
      BY <3>1 DEF TypeOK, Local
    <3>4. \A q \in Proc \ {p} : pc'[q] = pc[q] /\ loc'[q] = loc[q]
      BY <3>1 DEF TypeOK
    <3>5. HandsMatch => HandsMatch'
      BY <2>1, <3>2, <3>3, <3>4 DEF HandsMatch, Bodies
    <3>6. QED
      BY <2>1, <3>2, <3>5 DEF KeepInv
  <2>4. QED
    BY <2>2, <2>3
<1>4. ASSUME NEW p \in Proc, Archive(p) PROVE KeepInv'
  <2> SUFFICES ASSUME ~interfered' PROVE logged' \subseteq Known' /\ HandsMatch'
    BY DEF KeepInv
  <2> DEFINE a == loc[p].age
             b == Bodies(loc[p].raw)
  <2>1. /\ archive' = [archive EXCEPT ![a] = b]
        /\ interfered' = (interfered \/ ~(archive[a] \subseteq b))
        /\ pc' = [pc EXCEPT ![p] = "empty"]
        /\ UNCHANGED <<mirror, loc, logged>>
    BY <1>4 DEF Archive, Goto
  <2>2. ~interfered /\ archive[a] \subseteq b
    BY <2>1
  <2>3. a \in 0..Old
    <3>1. a \in 0..MaxDelay
      BY LocalParts DEF TypeOK
    <3>2. QED
      BY <3>1, Bounds
  <2>4. archive'[a] = b /\ \A c \in 0..Old : c # a => archive'[c] = archive[c]
    BY <2>1, <2>3 DEF TypeOK
  <2>5. Archived \subseteq Archived' /\ b \subseteq Archived'
    <3> HIDE DEF a, b
    <3>1. \A c \in 0..Old : archive[c] \subseteq archive'[c]
      BY <2>2, <2>4
    <3>2. QED
      BY <2>3, <2>4, <3>1 DEF Archived
  <2>6. logged' \subseteq Known'
    BY <2>1, <2>2, <2>5 DEF KeepInv, Known, Bodies
  <2>7. HandsMatch
    BY <2>2 DEF KeepInv
  <2>8. pc[p] = "archive"
    BY <1>4 DEF Archive
  <2>9. HandsMatch'
    <3>1. \A q \in Proc \ {p} : pc'[q] = pc[q]
      BY <2>1 DEF TypeOK
    <3>2. Bodies(loc[p].raw)' \subseteq Archived' /\ loc'[p].raw = mirror'
      BY <2>1, <2>5, <2>7, <2>8 DEF HandsMatch, Bodies
    <3>3. pc'[p] = "empty"
      BY <2>1 DEF TypeOK
    <3>4. QED
      BY <2>1, <2>5, <2>7, <3>1, <3>2, <3>3 DEF HandsMatch, Bodies
  <2>10. QED
    BY <2>6, <2>9
<1>5. ASSUME NEW p \in Proc, Empty(p) PROVE KeepInv'
  <2> SUFFICES ASSUME ~interfered' PROVE logged' \subseteq Known' /\ HandsMatch'
    BY DEF KeepInv
  <2>1. /\ mirror' = <<>> /\ pc' = [pc EXCEPT ![p] = "fill"] /\ pc[p] = "empty"
        /\ UNCHANGED <<archive, loc, logged>>
    BY <1>5 DEF Empty, Goto
  <2>2. ~interfered /\ \A q \in Proc \ {p} : pc[q] \notin Holding
    BY <1>5 DEF Empty
  <2>3. Bodies(mirror) \subseteq Archived /\ logged \subseteq Known
    BY <2>1, <2>2 DEF KeepInv, HandsMatch
  <2>4. Archived' = Archived
    BY <2>1 DEF Archived
  <2>5. logged' \subseteq Known'
    BY <2>1, <2>3, <2>4 DEF Known
  <2>6. \A q \in Proc \ {p} : pc'[q] \notin Holding
    BY <2>1, <2>2 DEF TypeOK
  <2>7. pc'[p] = "fill" /\ Bodies(loc[p].raw)' \subseteq Archived'
    BY <2>1, <2>2, <2>4 DEF KeepInv, HandsMatch, Bodies, TypeOK
  <2>8. HandsMatch'
    BY <2>1, <2>6, <2>7 DEF HandsMatch, Holding
  <2>9. QED
    BY <2>5, <2>8
<1>6. ASSUME NEW p \in Proc, Fill(p) PROVE KeepInv'
  <2> SUFFICES ASSUME ~interfered' PROVE logged' \subseteq Known' /\ HandsMatch'
    BY DEF KeepInv
  <2>1. /\ pc' = [pc EXCEPT ![p] = "save"] /\ pc[p] = "fill"
        /\ UNCHANGED <<archive, logged>>
    BY <1>6 DEF Fill, Goto
  <2>2. ~interfered /\ \A q \in Proc \ {p} : pc[q] \notin Holding
    BY <1>6 DEF Fill
  <2>3. mirror = <<>> /\ logged \subseteq Known
    BY <2>1, <2>2 DEF KeepInv, HandsMatch
  <2>4. Bodies(mirror) = {}
    BY <2>3 DEF Bodies
  <2>5. logged' \subseteq Known'
    BY <2>1, <2>3, <2>4 DEF Known, Archived
  <2>6. \A q \in Proc : pc'[q] \notin Holding
    BY <2>1, <2>2 DEF TypeOK, Holding
  <2>7. HandsMatch'
    BY <2>6 DEF HandsMatch, Holding
  <2>8. QED
    BY <2>5, <2>7
<1>7. CASE Tick
  <2>1. UNCHANGED <<mirror, pc, logged, interfered>> /\ Archived \subseteq Archived'
    BY <1>7, ArchivedAges DEF Tick, history
  <2>2. \A p \in Proc : loc'[p].raw = loc[p].raw
    BY <1>7 DEF Tick, TypeOK, Local
  <2>3. HandsMatch => HandsMatch'
    BY <2>1, <2>2 DEF HandsMatch, Bodies
  <2>4. logged \subseteq Known => logged' \subseteq Known'
    BY <2>1 DEF Known, Bodies
  <2>5. QED
    BY <2>1, <2>3, <2>4 DEF KeepInv
<1>8. CASE UNCHANGED vars
  <2>1. UNCHANGED <<mirror, archive, logged, interfered, pc, loc>>
    BY <1>8 DEF vars
  <2>2. Known' = Known /\ Archived' = Archived
    BY <2>1 DEF Known, Archived, Bodies
  <2>3. HandsMatch => HandsMatch'
    BY <2>1, <2>2 DEF HandsMatch, Bodies
  <2>4. QED
    BY <2>1, <2>2, <2>3 DEF KeepInv
<1>9. QED
  BY <1>1, <1>2, <1>3, <1>4, <1>5, <1>6, <1>7, <1>8 DEF Next, Step

(* As long as no other writer meets a compaction, every text ever mirrored *)
(* is in the mirror or in an archive, at every crash and failing write     *)
(* (BodiesKept).                                                           *)
THEOREM BodiesKeptAlways == Spec => []BodiesKept
<1>1. Init => KeepInv
  BY KeepInit
<1>2. TypeOK /\ KeepInv /\ [Next]_vars => KeepInv'
  BY KeepStep
<1>3. KeepInv => BodiesKept
  BY DEF KeepInv, BodiesKept
<1>4. QED
  BY <1>1, <1>2, <1>3, TypeCorrect, PTL DEF Spec

-------------------------------------------------------------------------------
(* A prompt holder keeps its lock.  Without a crash a lock is its holder's *)
(* and no older than the holder's call, which is too young to be stale for *)
(* a `now` that was read in the past.                                      *)
Prompt == crashes = 0 /\ MaxDelay <= LockStale
NoThief == \A p \in Proc : pc[p] # "steal"

LEMMA PromptInvDef == PromptInv <=> (Prompt => (~robbed /\ LockHeld /\ NoThief))
BY DEF PromptInv, Prompt, NoThief

LEMMA PromptInit == Init => PromptInv
BY DEF Init, PromptInv, LockHeld

(* A lock that stays with a holder that stays.                             *)
LEMMA LockStays ==
    ASSUME TypeOK, LockHeld, lock' = lock, NEW p \in Proc, NEW l,
           pc' = [pc EXCEPT ![p] = l], pc[p] \in Section => l \in Section,
           \A q \in Proc : pc[q] \in Section => loc'[q].age = loc[q].age
    PROVE  LockHeld'
<1> SUFFICES ASSUME lock # NoLock
             PROVE  \E q \in Proc : pc'[q] \in Section /\ lock <= loc'[q].age
  BY DEF LockHeld, InSection
<1>1. PICK q \in Proc : pc[q] \in Section /\ lock <= loc[q].age
  BY DEF LockHeld, InSection
<1>2. pc'[q] \in Section
  BY <1>1 DEF TypeOK
<1>3. loc'[q].age = loc[q].age
  BY <1>1
<1>4. QED
  BY <1>1, <1>2, <1>3

LEMMA NotStale ==
    ASSUME TypeOK, Prompt, LockHeld, NEW p \in Proc
    PROVE  ~LockIsStale(p)
<1> SUFFICES ASSUME lock # NoLock PROVE ~(lock - loc[p].age > LockStale)
  BY DEF LockIsStale
<1>1. PICK q \in Proc : lock <= loc[q].age
  BY DEF LockHeld
<1>2. loc[p].age \in 0..MaxDelay /\ loc[q].age \in 0..MaxDelay
  BY LocalParts DEF TypeOK
<1>3. lock \in 0..LockCap
  BY DEF TypeOK
<1>4. lock \in Nat /\ MaxDelay <= LockStale /\ LockStale \in Nat /\ MaxDelay \in Nat
  BY <1>3, Bounds DEF Prompt
<1>5. QED
  BY <1>1, <1>2, <1>4

LEMMA PromptStep ==
    ASSUME TypeOK, PromptInv, [Next]_vars
    PROVE  PromptInv'
<1> SUFFICES ASSUME Prompt' PROVE (~robbed /\ LockHeld /\ NoThief)'
  BY PromptInvDef DEF PromptInv, Prompt, NoThief
<1>1. ASSUME Prompt PROVE ~robbed /\ LockHeld /\ NoThief
  BY <1>1, PromptInvDef
<1>2. ASSUME NEW p \in Proc,
             \/ OnMemoryWrite(p) \/ SyncTurn(p) \/ Boundary(p) \/ RecordLoad(p) \/ RecordMisread(p)
             \/ RecordTruncate(p) \/ RecordSave(p) \/ Load(p)
             \/ Read(p) \/ ReadFails(p) \/ Archive(p) \/ Empty(p) \/ Fill(p) \/ Save(p)
             \/ Raise(p)
      PROVE  (~robbed /\ LockHeld /\ NoThief)'
  <2>1. UNCHANGED <<lock, crashes, robbed>>
    BY <1>2 DEF OnMemoryWrite, SyncTurn, Boundary, RecordLoad, RecordMisread, RecordTruncate,
                RecordSave, Load, Read, ReadFails, Archive, Empty, Fill, Save, Raise, history
  <2>2. ~robbed /\ LockHeld /\ NoThief
    BY <1>1, <2>1 DEF Prompt
  <2>3. PICK l : /\ pc' = [pc EXCEPT ![p] = l] /\ l # "steal"
                 /\ pc[p] \in Section => l \in Section
    <3>1. loc[p].then \in {"load", "idle"}
      BY LocalParts DEF TypeOK
    <3>2. QED
      BY <1>2, <3>1 DEF OnMemoryWrite, SyncTurn, Boundary, RecordLoad, RecordMisread,
           RecordTruncate, RecordSave, Load, Read, ReadFails, Archive, Empty, Fill, Save, Raise,
           Goto, Section
  <2>4. \A q \in Proc : pc[q] \in Section => loc'[q].age = loc[q].age
    <3>1. CASE \/ OnMemoryWrite(p) \/ SyncTurn(p) \/ Boundary(p) \/ RecordLoad(p)
               \/ RecordMisread(p) \/ RecordTruncate(p) \/ RecordSave(p) \/ Load(p)
      <4>1. pc[p] \notin Section /\ \A q \in Proc \ {p} : loc'[q] = loc[q]
        BY <3>1 DEF OnMemoryWrite, SyncTurn, Boundary, RecordLoad, RecordMisread, RecordTruncate,
                    RecordSave, Load, Section, TypeOK
      <4>2. QED
        BY <4>1
    <3>2. CASE \/ Read(p) \/ ReadFails(p) \/ Archive(p) \/ Empty(p) \/ Fill(p) \/ Save(p)
               \/ Raise(p)
      <4>1. loc' = loc \/ \E r : loc' = [loc EXCEPT ![p].raw = r]
        BY <3>2 DEF Read, ReadFails, Archive, Empty, Fill, Save, Raise
      <4>2. CASE loc' = loc
        BY <4>2
      <4>3. ASSUME NEW r, loc' = [loc EXCEPT ![p].raw = r]
            PROVE  \A q \in Proc : loc'[q].age = loc[q].age
        <5>1. loc[p] \in Local /\ loc \in [Proc -> Local]
          BY DEF TypeOK
        <5>2. loc'[p].age = loc[p].age
          BY <4>3, <5>1 DEF Local
        <5>3. \A q \in Proc \ {p} : loc'[q] = loc[q]
          BY <4>3, <5>1
        <5>4. QED
          BY <5>2, <5>3
      <4>4. QED
        BY <4>1, <4>2, <4>3
    <3>3. QED
      BY <1>2, <3>1, <3>2
  <2>5. LockHeld'
    BY <2>1, <2>2, <2>3, <2>4, LockStays
  <2>6. NoThief'
    BY <2>2, <2>3 DEF NoThief, TypeOK
  <2>7. QED
    BY <2>1, <2>2, <2>5, <2>6
<1>3. ASSUME NEW p \in Proc, TryLock(p) \/ Create(p)
      PROVE  (~robbed /\ LockHeld /\ NoThief)'
  <2>1. UNCHANGED <<crashes, robbed>> /\ pc[p] \notin Section
    BY <1>3 DEF TryLock, Create, history, Section
  <2>2. ~robbed /\ LockHeld /\ NoThief
    BY <1>1, <2>1 DEF Prompt
  <2>3. CASE lock = NoLock
    <3>1. lock' = 0 /\ pc' = [pc EXCEPT ![p] = "read"] /\ loc' = loc
      BY <1>3, <2>3 DEF TryLock, Create, Goto
    <3>2. pc'[p] \in Section /\ loc[p].age \in 0..MaxDelay
      BY <3>1, LocalParts DEF TypeOK, Section
    <3>3. 0 <= loc'[p].age
      BY <3>1, <3>2
    <3>4. LockHeld'
      BY <3>1, <3>2, <3>3 DEF LockHeld, InSection
    <3>5. NoThief'
      BY <2>2, <3>1 DEF NoThief, TypeOK
    <3>6. QED
      BY <2>1, <2>2, <3>4, <3>5
  <2>4. CASE lock # NoLock
    <3>1. /\ lock' = lock
          /\ \E l \in {"stat", "idle"} : pc' = [pc EXCEPT ![p] = l]
          /\ \A q \in Proc \ {p} : loc'[q] = loc[q]
      BY <1>3, <2>4 DEF TryLock, Create, Goto, Return, TypeOK
    <3>2. LockHeld'
      BY <2>1, <2>2, <3>1, LockStays
    <3>3. NoThief'
      BY <2>2, <3>1 DEF NoThief, TypeOK
    <3>4. QED
      BY <2>1, <2>2, <3>2, <3>3
  <2>5. QED
    BY <2>3, <2>4
<1>4. ASSUME NEW p \in Proc, Stat(p)
      PROVE  (~robbed /\ LockHeld /\ NoThief)'
  <2>1. UNCHANGED <<lock, crashes, robbed>> /\ pc[p] \notin Section
    BY <1>4 DEF Stat, history, Section
  <2>2. Prompt /\ ~robbed /\ LockHeld /\ NoThief
    BY <1>1, <2>1 DEF Prompt
  <2>3. Return(p)
    BY <1>4, <2>2, NotStale DEF Stat
  <2>4. pc' = [pc EXCEPT ![p] = "idle"] /\ \A q \in Proc \ {p} : loc'[q] = loc[q]
    BY <2>3 DEF Return, Goto, TypeOK
  <2>5. LockHeld'
    BY <2>1, <2>2, <2>4, LockStays
  <2>6. NoThief'
    BY <2>2, <2>4 DEF NoThief, TypeOK
  <2>7. QED
    BY <2>1, <2>2, <2>5, <2>6
<1>5. ASSUME NEW p \in Proc, Steal(p)
      PROVE  (~robbed /\ LockHeld /\ NoThief)'
  <2>1. crashes' = crashes /\ pc[p] = "steal"
    BY <1>5 DEF Steal
  <2>2. NoThief
    BY <1>1, <2>1 DEF Prompt
  <2>3. QED
    BY <2>1, <2>2 DEF NoThief
<1>6. ASSUME NEW p \in Proc, Release(p)
      PROVE  (~robbed /\ LockHeld /\ NoThief)'
  <2>1. /\ UNCHANGED <<crashes, robbed>> /\ lock' = NoLock
        /\ pc' = [pc EXCEPT ![p] = "idle"]
    BY <1>6 DEF Release, Return, Goto, history
  <2>2. ~robbed /\ NoThief
    BY <1>1, <2>1 DEF Prompt
  <2>3. QED
    BY <2>1, <2>2 DEF LockHeld, NoThief, TypeOK
<1>7. ASSUME NEW p \in Proc, Crash(p)
      PROVE  (~robbed /\ LockHeld /\ NoThief)'
  <2>1. crashes' = crashes + 1 /\ crashes \in Nat
    BY <1>7, Bounds DEF Crash, TypeOK
  <2>2. QED
    BY <2>1 DEF Prompt
<1>8. CASE Tick
  <2>1. UNCHANGED <<pc, crashes, robbed>>
    BY <1>8 DEF Tick, history
  <2>2. ~robbed /\ LockHeld /\ NoThief
    BY <1>1, <2>1 DEF Prompt
  <2>3. LockHeld'
    <3> SUFFICES ASSUME lock' # NoLock
                 PROVE  \E q \in Proc : pc'[q] \in Section /\ lock' <= loc'[q].age
      BY DEF LockHeld, InSection
    <3>1. lock # NoLock /\ lock' = Older(lock, LockCap)
      BY <1>8 DEF Tick
    <3>2. PICK q \in Proc : pc[q] \in Section /\ lock <= loc[q].age
      BY <2>2, <3>1 DEF LockHeld, InSection
    <3>3. loc'[q].age = loc[q].age + 1
      BY <1>8, <3>2 DEF Tick, Timed, TypeOK, Local
    <3>4. lock \in Nat /\ loc[q].age \in Nat
      <4>1. lock \in 0..LockCap
        BY <3>1 DEF TypeOK
      <4>2. loc[q].age \in 0..MaxDelay
        BY LocalParts DEF TypeOK
      <4>3. QED
        BY <4>1, <4>2
    <3>5. lock' <= lock + 1
      BY <3>1, <3>4 DEF Older
    <3>6. lock' \in Nat
      BY <3>1, <3>4 DEF Older
    <3>7. lock' <= loc'[q].age
      BY <3>2, <3>3, <3>4, <3>5, <3>6
    <3>8. QED
      BY <2>1, <3>2, <3>7
  <2>4. QED
    BY <2>1, <2>2, <2>3 DEF NoThief
<1>9. CASE UNCHANGED vars
  BY <1>1, <1>9 DEF vars, Prompt, LockHeld, InSection, NoThief
<1>10. QED
  BY <1>2, <1>3, <1>4, <1>5, <1>6, <1>7, <1>8, <1>9 DEF Next, Step

(* When no run crashes and none takes longer than LOCK_STALE_SECONDS, no   *)
(* live holder is robbed of its lock (PromptHoldersKeepTheLock).           *)
THEOREM PromptAlways == Spec => []PromptHoldersKeepTheLock
<1>1. Init => PromptInv
  BY PromptInit
<1>2. TypeOK /\ PromptInv /\ [Next]_vars => PromptInv'
  BY PromptStep
<1>3. PromptInv => PromptHoldersKeepTheLock
  BY DEF PromptInv, PromptHoldersKeepTheLock
<1>4. QED
  BY <1>1, <1>2, <1>3, TypeCorrect, PTL DEF Spec

-------------------------------------------------------------------------------
(* One process counts exactly                                              *)

LEMMA TheProcess ==
    ASSUME Cardinality(Proc) = 1
    PROVE  \E p : Proc = {p}
BY ProcAssumption, FS_Singleton

(* What a step does to the marker, with one process.                       *)
LEMMA CountStep ==
    ASSUME TypeOK, CountInv, [Next]_vars
    PROVE  CountInv'
<1> SUFFICES ASSUME Cardinality(Proc) = 1, ~torn', ~misread', NEW q \in Proc
             PROVE  /\ pc'[q] # "skip"
                    /\ pc'[q] # "rfill" => state'.sig = owed'
                    /\ pc'[q] \in {"rempty", "rfill"} => loc'[q].st.sig = Older(owed', Threshold)
  BY DEF CountInv
<1>1. Proc = {q}
  BY TheProcess
<1>2. pc \in [Proc -> PC] /\ loc \in [Proc -> Local] /\ loc[q] \in Local
  BY DEF TypeOK
<1>3. ASSUME ~torn, ~misread
      PROVE  /\ pc[q] # "skip"
             /\ pc[q] # "rfill" => state.sig = owed
             /\ pc[q] \in {"rempty", "rfill"} => loc[q].st.sig = Older(owed, Threshold)
  BY <1>3 DEF CountInv
<1>4. CASE \/ OnMemoryWrite(q) \/ SyncTurn(q) \/ Boundary(q) \/ Load(q) \/ TryLock(q) \/ Stat(q)
           \/ Steal(q) \/ Create(q) \/ Read(q) \/ Archive(q) \/ Empty(q) \/ Fill(q) \/ Release(q)
           \/ Raise(q)
  <2>1. UNCHANGED <<state, owed, torn, misread>>
    BY <1>4 DEF OnMemoryWrite, SyncTurn, Boundary, Load, TryLock, Stat, Steal, Create, Read,
                Archive, Empty, Fill, Release, Raise, history
  <2>2. pc[q] # "rfill"
    BY <1>4 DEF OnMemoryWrite, SyncTurn, Boundary, Load, TryLock, Stat, Steal, Create, Read,
                Archive, Empty, Fill, Release, Raise, Section
  <2>3. pc'[q] \notin {"rempty", "rfill", "skip"}
    BY <1>2, <1>4 DEF OnMemoryWrite, SyncTurn, Boundary, Load, TryLock, Stat, Steal, Create,
                Read, Archive, Empty, Fill, Release, Raise, Return, Goto
  <2>4. QED
    BY <1>3, <2>1, <2>2, <2>3
<1>5. CASE RecordLoad(q)
  <2>1. /\ UNCHANGED <<state, owed, torn, misread>> /\ pc[q] = "rload" /\ pc'[q] = "rempty"
        /\ loc'[q].st = Signalled(state)
    BY <1>2, <1>5 DEF RecordLoad, Goto, history, Local
  <2>2. loc'[q].st.sig = Older(state.sig, Threshold)
    BY <2>1 DEF Signalled
  <2>3. QED
    BY <1>3, <2>1, <2>2
<1>6. CASE RecordTruncate(q)
  <2>1. /\ UNCHANGED <<owed, torn, misread, loc>> /\ pc[q] = "rempty" /\ pc'[q] = "rfill"
    BY <1>2, <1>6 DEF RecordTruncate, Goto, history
  <2>2. QED
    BY <1>3, <2>1
<1>7. CASE RecordSave(q)
  <2>1. /\ pc[q] = "rfill" /\ pc'[q] \in {"load", "idle"} /\ UNCHANGED <<torn, misread>>
        /\ state' = loc[q].st /\ owed' = Older(owed, Threshold)
    <3>1. loc[q].then \in {"load", "idle"}
      BY <1>2, LocalParts
    <3>2. QED
      BY <1>2, <1>7, <3>1 DEF RecordSave, Goto
  <2>2. QED
    BY <1>3, <2>1
<1>8. CASE Save(q)
  <2>1. UNCHANGED <<torn, misread>>
    BY <1>8 DEF Save
  <2>2. state' = Fresh /\ owed' = 0 /\ pc'[q] = "release"
    BY <1>2, <1>3, <1>8, <2>1 DEF Save, Goto
  <2>3. QED
    BY <2>2 DEF Fresh
<1>9. CASE Crash(q)
  <2>1. /\ UNCHANGED <<state, owed, misread>> /\ torn' = (torn \/ pc[q] = "rfill") /\ pc'[q] = "idle"
    BY <1>2, <1>9 DEF Crash, Return, Goto
  <2>2. QED
    BY <1>3, <2>1
<1>10. CASE Tick
  <2>1. UNCHANGED <<pc, owed, torn, misread>> /\ state'.sig = state.sig
    BY <1>10 DEF Tick, history, TypeOK, State
  <2>2. loc'[q].st.sig = loc[q].st.sig
    BY <1>2, <1>10 DEF Tick, Local, State
  <2>3. QED
    BY <1>3, <2>1, <2>2
<1>11. CASE UNCHANGED vars
  BY <1>3, <1>11 DEF vars
<1>12. ~RecordMisread(q) /\ ~ReadFails(q)
  BY DEF RecordMisread, ReadFails
<1>13. QED
  BY <1>1, <1>4, <1>5, <1>6, <1>7, <1>8, <1>9, <1>10, <1>11, <1>12 DEF Next, Step

(* Between the calls of a process that is alone, never tore its marker and *)
(* could read its files, the marker counts exactly the signals since the   *)
(* last consolidation, for any threshold, whatever was skipped, killed or  *)
(* raised (CountExactAlone).                                               *)
THEOREM CountExactAloneAlways == Spec => []CountExactAlone
<1>1. Init => CountInv
  BY DEF Init, CountInv, Fresh
<1>2. TypeOK /\ CountInv /\ [Next]_vars => CountInv'
  BY CountStep
<1>3. CountInv => CountExactAlone
  <2> SUFFICES ASSUME CountInv, Cardinality(Proc) = 1, AllIdle, ~torn, ~misread
               PROVE  state.sig = owed
    BY DEF CountExactAlone
  <2>1. PICK p : Proc = {p}
    BY TheProcess
  <2>2. QED
    BY <2>1 DEF CountInv, AllIdle
<1>4. QED
  BY <1>1, <1>2, <1>3, TypeCorrect, PTL DEF Spec

-------------------------------------------------------------------------------
(* What a compaction keeps                                                 *)

LEMMA InsertBodies ==
    ASSUME NEW d \in Seq(Entry), NEW e \in Entry
    PROVE  Bodies(Insert(d, e)) = Bodies(d) \cup ({BodyOf[e]} \ {NoBody})
<1>1. CASE BodyOf[e] \in Bodies(d)
  <2> DEFINE new == [i \in DOMAIN d |-> IF BodyOf[d[i]] = BodyOf[e] THEN e ELSE d[i]]
  <2>1. Insert(d, e) = new
    BY <1>1 DEF Insert
  <2>2. DOMAIN new = DOMAIN d /\ \A i \in DOMAIN d : BodyOf[new[i]] = BodyOf[d[i]]
    OBVIOUS
  <2> HIDE DEF new
  <2>3. Bodies(new) = Bodies(d)
    BY <2>2 DEF Bodies
  <2>4. QED
    BY <1>1, <2>1, <2>3
<1>2. CASE BodyOf[e] \notin Bodies(d) /\ BodyOf[e] = NoBody
  BY <1>2 DEF Insert
<1>3. CASE BodyOf[e] \notin Bodies(d) /\ BodyOf[e] # NoBody
  <2>1. Insert(d, e) = d \o <<e>>
    BY <1>3 DEF Insert
  <2>2. Bodies(d \o <<e>>) = Bodies(d) \cup Bodies(<<e>>)
    <3>1. <<e>> \in Seq(Entry)
      OBVIOUS
    <3>2. QED
      BY <3>1, AppendedBodies, Zenon
  <2>3. Bodies(<<e>>) = {BodyOf[e]} \ {NoBody}
    BY DEF Bodies
  <2>4. QED
    BY <2>1, <2>2, <2>3
<1>4. QED
  BY <1>1, <1>2, <1>3

LEMMA DedupBodies ==
    ASSUME NEW log \in Seq(Entry)
    PROVE  Bodies(Dedup(log)) = Bodies(log)
<1> DEFINE f == DictAfter(log)
           seen(n) == {BodyOf[log[i]] : i \in 1..n} \ {NoBody}
           S == {n \in Nat : n <= Len(log) => f[n] \in Seq(Entry) /\ Bodies(f[n]) = seen(n)}
<1>1. Len(log) \in Nat /\ DOMAIN log = 1..Len(log) /\ \A i \in 1..Len(log) : log[i] \in Entry
  OBVIOUS
<1>2. f = [n \in 0..Len(log) |-> IF n = 0 THEN <<>> ELSE Insert(f[n - 1], log[n])]
  BY DictAfterDef, Zenon
<1> HIDE DEF f
<1>3. 0 \in S
  <2>1. f[0] = <<>>
    BY <1>1, <1>2
  <2>2. Bodies(<<>>) = {} /\ seen(0) = {}
    BY DEF Bodies
  <2>3. f[0] \in Seq(Entry) /\ Bodies(f[0]) = seen(0)
    BY <2>1, <2>2
  <2> HIDE DEF seen
  <2>4. QED
    BY <2>3
<1>4. ASSUME NEW n \in Nat, n \in S PROVE n + 1 \in S
  <2> SUFFICES ASSUME n + 1 <= Len(log)
               PROVE  f[n + 1] \in Seq(Entry) /\ Bodies(f[n + 1]) = seen(n + 1)
    OBVIOUS
  <2>1. n + 1 \in 0..Len(log) /\ n + 1 # 0 /\ (n + 1) - 1 = n /\ n + 1 \in 1..Len(log)
    BY <1>1
  <2>2. f[n + 1] = Insert(f[n], log[n + 1])
    BY <1>2, <2>1
  <2>3. f[n] \in Seq(Entry) /\ Bodies(f[n]) = seen(n) /\ log[n + 1] \in Entry
    BY <1>1, <1>4, <2>1
  <2>4. f[n + 1] \in Seq(Entry)
    BY <2>2, <2>3, InsertType
  <2>5. Bodies(f[n + 1]) = seen(n) \cup ({BodyOf[log[n + 1]]} \ {NoBody})
    BY <2>2, <2>3, InsertBodies
  <2>6. 1..(n + 1) = 1..n \cup {n + 1}
    OBVIOUS
  <2>7. seen(n + 1) = seen(n) \cup ({BodyOf[log[n + 1]]} \ {NoBody})
    BY <2>6
  <2>8. QED
    BY <2>4, <2>5, <2>7
<1> HIDE DEF S
<1>5. Nat \subseteq S
  BY <1>3, <1>4, SetInduction
<1>6. Bodies(f[Len(log)]) = seen(Len(log))
  <2>1. Len(log) \in S
    BY <1>1, <1>5
  <2> HIDE DEF seen
  <2>2. QED
    BY <1>1, <2>1 DEF S
<1>7. seen(Len(log)) = Bodies(log)
  BY <1>1 DEF Bodies
<1>8. Dedup(log) = f[Len(log)]
  BY DEF Dedup, f
<1>9. QED
  BY <1>6, <1>7, <1>8

-------------------------------------------------------------------------------
(* One process never meets its own compaction.  AloneInv, with what the    *)
(* compaction has in hand (KeepInv), is inductive.                         *)
LEMMA OneGoes ==
    ASSUME TypeOK, NEW q \in Proc, NEW l, Goto(q, l)
    PROVE  pc'[q] = l
BY DEF Goto, TypeOK

LEMMA OneReturns ==
    ASSUME TypeOK, NEW q \in Proc, Return(q)
    PROVE  pc'[q] = "idle" /\ loc'[q].age = 0
BY DEF Return, Goto, TypeOK, NoLocal

(* What is lost is lost in the text or in an archive; with both kept, no   *)
(* more is.                                                                *)
Text(p) == IF pc[p] \in {"empty", "fill"} THEN loc[p].raw ELSE mirror

LEMMA LostDef ==
    ASSUME NEW p \in Proc
    PROVE  Lost(p) = {a \in 0..MaxDelay : ~(archive[a] \subseteq Bodies(Text(p)))}
BY DEF Lost, Text

LEMMA NoMoreLost ==
    ASSUME NEW p \in Proc, archive' = archive, Bodies(Text(p)) \subseteq Bodies(Text(p))'
    PROVE  Lost(p)' \subseteq Lost(p)
BY DEF Lost, Text

(* The host's calls, the marker, and what is done without the lock.        *)
LEMMA AloneOutside ==
    ASSUME TypeOK, NEW q \in Proc, Proc = {q}, AloneAt(q),
           \/ OnMemoryWrite(q) \/ SyncTurn(q) \/ Boundary(q) \/ RecordLoad(q)
           \/ RecordTruncate(q) \/ RecordSave(q) \/ Load(q)
    PROVE  AloneAt(q)' /\ interfered' = interfered
<1>1. UNCHANGED <<archive, lock>>
  BY DEF OnMemoryWrite, SyncTurn, Boundary, RecordLoad, RecordTruncate, RecordSave, Load
<1>2. pc[q] \in {"idle", "rload", "rempty", "rfill", "load"}
  BY DEF OnMemoryWrite, SyncTurn, Boundary, RecordLoad, RecordTruncate, RecordSave, Load
<1>3. loc[q] \in Local /\ loc \in [Proc -> Local] /\ loc[q].then \in {"load", "idle"}
  BY LocalParts DEF TypeOK
<1>4. pc'[q] \in {"idle", "rload", "rempty", "rfill", "load", "lock"}
  BY <1>3, OneGoes DEF OnMemoryWrite, SyncTurn, Boundary, RecordLoad, RecordTruncate,
                       RecordSave, Load
<1>5. loc[q].age = 0
  BY <1>2 DEF AloneAt, Timed, Section
<1>6. loc'[q].age = 0
  BY <1>3, <1>5 DEF OnMemoryWrite, SyncTurn, Boundary, RecordLoad, RecordTruncate,
                    RecordSave, Load, Local, NoLocal
<1>7. interfered' = interfered
  <2>1. CASE OnMemoryWrite(q)
    BY <1>2, <2>1 DEF OnMemoryWrite, Holding, TypeOK
  <2>2. CASE ~OnMemoryWrite(q)
    BY <2>2 DEF SyncTurn, Boundary, RecordLoad, RecordTruncate, RecordSave, Load, history
  <2>3. QED
    BY <2>1, <2>2
<1>8. Bodies(mirror) \subseteq Bodies(mirror')
  <2>1. CASE OnMemoryWrite(q)
    <3>1. PICK text \in Texts : mirror' = mirror \o text
      BY <2>1 DEF OnMemoryWrite
    <3>2. mirror \in Seq(Entry) /\ text \in Seq(Entry)
      BY TextsType DEF TypeOK
    <3>3. QED
      BY <3>1, <3>2, AppendedBodies
  <2>2. CASE ~OnMemoryWrite(q)
    BY <2>2 DEF SyncTurn, Boundary, RecordLoad, RecordTruncate, RecordSave, Load
  <2>3. QED
    BY <2>1, <2>2
<1>9. Lost(q)' \subseteq Lost(q)
  <2>1. Text(q) = mirror /\ Text(q)' = mirror'
    BY <1>2, <1>4 DEF Text
  <2>2. Bodies(Text(q)) \subseteq Bodies(Text(q))'
    BY <1>8, <2>1 DEF Bodies
  <2>3. QED
    BY <1>1, <2>2, NoMoreLost
<1>10. ~InSection(q) /\ ~InSection(q)' /\ pc'[q] # "steal" /\ LockedOut(q)' = LockedOut(q)
  BY <1>1, <1>2, <1>4 DEF InSection, Section, LockedOut
<1>11. AloneAt(q)'
  <2>1. \A a \in 0..MaxDelay : ~(a < 0)
    OBVIOUS
  <2>2. \A a \in Lost(q)' : /\ LockedOut(q)' => lock' <= a
                            /\ ~LockedOut(q)' => 0 < a
    BY <1>1, <1>5, <1>9, <1>10 DEF AloneAt
  <2>3. QED
    BY <1>6, <1>10, <2>1, <2>2 DEF AloneAt
<1>12. QED
  BY <1>7, <1>11

(* The lock is taken, found taken, or stolen because it is older than any  *)
(* archive of the killed run could be younger than it.                     *)
LEMMA AloneLocking ==
    ASSUME TypeOK, NEW q \in Proc, Proc = {q}, AloneAt(q),
           TryLock(q) \/ Stat(q) \/ Steal(q) \/ Create(q) \/ Release(q)
    PROVE  AloneAt(q)' /\ interfered' = interfered
<1>1. archive' = archive /\ mirror' = mirror /\ interfered' = interfered
  BY DEF TryLock, Stat, Steal, Create, Release, history
<1>2. pc[q] \in {"lock", "stat", "steal", "create", "release"}
  BY DEF TryLock, Stat, Steal, Create, Release
<1>3. pc'[q] \in {"read", "stat", "steal", "create", "idle"}
  BY OneGoes, OneReturns DEF TryLock, Stat, Steal, Create, Release
<1>4. loc[q].age \in 0..MaxDelay /\ lock \in {NoLock} \cup 0..LockCap /\ NoLock = -1
  BY LocalParts DEF TypeOK, NoLock
<1>5. Lost(q)' \subseteq Lost(q)
  <2>1. Text(q) = mirror /\ Text(q)' = mirror'
    BY <1>2, <1>3 DEF Text
  <2>2. Bodies(Text(q)) \subseteq Bodies(Text(q))'
    BY <1>1, <2>1 DEF Bodies
  <2>3. QED
    BY <1>1, <2>2, NoMoreLost
<1>6. \A a \in Lost(q) : /\ a \in 0..MaxDelay
                         /\ LockedOut(q) => lock <= a
                         /\ (~LockedOut(q) \/ pc[q] = "steal") => loc[q].age < a
  BY DEF AloneAt, Lost
<1>7. LockedOut(q) <=> (lock # NoLock /\ pc[q] # "release")
  BY <1>2 DEF LockedOut, InSection, Section
<1>8. LockedOut(q)' <=> (lock' # NoLock /\ pc'[q] # "read")
  BY <1>3 DEF LockedOut, InSection, Section
<1>9. InSection(q)' <=> pc'[q] = "read"
  BY <1>3 DEF InSection, Section
<1>10. loc'[q].age = loc[q].age \/ loc'[q].age = 0
  BY OneReturns DEF TryLock, Stat, Steal, Create, Release
<1>11. \A a \in 0..MaxDelay : a < loc'[q].age => archive'[a] = {}
  BY <1>1, <1>4, <1>10 DEF AloneAt
<1>12. pc'[q] \notin Timed => loc'[q].age = 0
  <2>1. pc'[q] \notin Timed => pc'[q] = "idle"
    BY <1>3 DEF Timed, Section
  <2>2. pc'[q] = "idle" => Return(q)
    BY OneGoes DEF TryLock, Stat, Steal, Create, Release
  <2>3. QED
    BY <2>1, <2>2, OneReturns
<1>13. CASE pc'[q] = "read"
  <2>1. lock = NoLock /\ lock' = 0 /\ loc' = loc /\ pc[q] # "release"
    BY <1>13, OneGoes, OneReturns DEF TryLock, Stat, Steal, Create, Release
  <2>2. \A a \in Lost(q)' : loc'[q].age < a
    BY <1>5, <1>6, <1>7, <2>1
  <2>3. lock' # NoLock /\ lock' <= loc'[q].age
    BY <1>4, <2>1
  <2>4. QED
    BY <1>1, <1>8, <1>11, <1>12, <1>13, <2>2, <2>3 DEF AloneAt
<1>14. CASE pc'[q] # "read" /\ lock' = NoLock
  <2>1. \A a \in Lost(q) : loc[q].age < a
    <3>1. lock = NoLock \/ pc[q] \in {"release", "steal"}
      BY <1>14 DEF TryLock, Stat, Steal, Create, Release
    <3>2. QED
      BY <1>6, <1>7, <3>1
  <2>2. \A a \in Lost(q)' : loc'[q].age < a
    BY <1>4, <1>5, <1>6, <1>10, <2>1
  <2>3. QED
    BY <1>1, <1>8, <1>9, <1>11, <1>12, <1>14, <2>2 DEF AloneAt
<1>15. CASE pc'[q] # "read" /\ lock' # NoLock
  <2>1. lock' = lock /\ pc[q] # "release" /\ lock # NoLock
    BY <1>15, OneGoes DEF TryLock, Stat, Steal, Create, Release
  <2>2. \A a \in Lost(q)' : lock' <= a
    BY <1>5, <1>6, <1>7, <2>1
  <2>3. pc'[q] = "steal" => loc'[q].age < lock
    <3>1. pc'[q] = "steal" => LockIsStale(q) /\ loc' = loc
      BY <2>1, OneGoes, OneReturns DEF TryLock, Stat, Steal, Create, Release
    <3>2. LockIsStale(q) => loc[q].age < lock
      BY <1>4, Bounds DEF LockIsStale
    <3>3. QED
      BY <3>1, <3>2
  <2>4. pc'[q] = "steal" => \A a \in Lost(q)' : loc'[q].age < a
    <3>1. loc'[q].age \in 0..MaxDelay /\ \A a \in Lost(q)' : a \in 0..MaxDelay
      BY <1>4, <1>5, <1>6, <1>10, Bounds
    <3>2. lock \in Int
      BY <1>4, Bounds
    <3>3. QED
      BY <2>1, <2>2, <2>3, <3>1, <3>2, Bounds
  <2>5. QED
    BY <1>1, <1>8, <1>9, <1>11, <1>12, <1>15, <2>2, <2>4 DEF AloneAt
<1>16. QED
  BY <1>1, <1>13, <1>14, <1>15

(* The consolidation: the archive of its own stamp has nothing the mirror  *)
(* lacks, and a dead run's stamp is no younger than the lock it leaves.    *)
LEMMA AloneInside ==
    ASSUME TypeOK, NEW q \in Proc, Proc = {q}, AloneAt(q), HandsMatch,
           Read(q) \/ Archive(q) \/ Empty(q) \/ Fill(q) \/ Save(q)
    PROVE  AloneAt(q)' /\ interfered' = interfered
<1>1. pc[q] \in {"read", "archive", "empty", "fill", "save", "skip"} /\ lock' = lock
  BY DEF Read, Archive, Empty, Fill, Save
<1>2. pc'[q] \in {"archive", "empty", "fill", "save", "release"}
  BY OneGoes DEF Read, Archive, Empty, Fill, Save
<1>3. InSection(q) /\ InSection(q)' /\ pc'[q] \in Timed
  BY <1>1, <1>2 DEF InSection, Section, Timed
<1>4. loc[q] \in Local /\ loc \in [Proc -> Local] /\ mirror \in Seq(Entry)
      /\ loc[q].age \in 0..MaxDelay /\ loc[q].raw \in Seq(Entry)
  BY LocalParts DEF TypeOK
<1>5. loc'[q].age = loc[q].age
  BY <1>4 DEF Read, Archive, Empty, Fill, Save, Local
<1>6. \A a \in Lost(q) : loc[q].age < a
  BY <1>3 DEF AloneAt, LockedOut
<1>7. pc[q] = "archive" => loc[q].raw = mirror
  BY DEF HandsMatch
<1>8. interfered' = interfered
  <2>1. CASE Archive(q)
    <3>1. loc[q].age \notin Lost(q)
      BY <1>4, <1>6
    <3>2. archive[loc[q].age] \subseteq Bodies(loc[q].raw)
      <4>1. pc[q] = "archive" /\ Text(q) = mirror
        BY <2>1 DEF Archive, Text
      <4>2. archive[loc[q].age] \subseteq Bodies(mirror)
        BY <1>4, <3>1, <4>1, LostDef
      <4>3. QED
        BY <1>7, <4>1, <4>2
    <3>3. QED
      BY <2>1, <3>2 DEF Archive, TypeOK
  <2>2. CASE Empty(q) \/ Fill(q)
    BY <2>2 DEF Empty, Fill, TypeOK
  <2>3. CASE Read(q) \/ Save(q)
    BY <2>3 DEF Read, Save, history
  <2>4. QED
    BY <2>1, <2>2, <2>3
<1>9. Bodies(Text(q))' = Bodies(Text(q))
  <2>1. CASE Read(q) \/ Save(q)
    <3>1. Text(q) = mirror /\ Text(q)' = mirror
      BY <2>1, OneGoes DEF Read, Save, Text
    <3>2. QED
      BY <3>1 DEF Bodies
  <2>2. CASE Archive(q)
    <3>1. Text(q) = mirror /\ Text(q)' = loc[q].raw /\ loc[q].raw = mirror
      BY <1>7, <2>2, OneGoes DEF Archive, Text
    <3>2. QED
      BY <3>1 DEF Bodies
  <2>3. CASE Empty(q)
    <3>1. Text(q) = loc[q].raw /\ Text(q)' = loc[q].raw
      BY <2>3, OneGoes DEF Empty, Text
    <3>2. QED
      BY <3>1 DEF Bodies
  <2>4. CASE Fill(q)
    <3>1. Text(q) = loc[q].raw /\ Text(q)' = Dedup(loc[q].raw)
      BY <2>4, OneGoes DEF Fill, Text
    <3>2. Bodies(Dedup(loc[q].raw)) = Bodies(loc[q].raw)
      BY <1>4, DedupBodies
    <3>3. Bodies(Text(q))' = Bodies(Dedup(loc[q].raw))
      BY <3>1 DEF Bodies
    <3>4. QED
      BY <3>1, <3>2, <3>3
  <2>5. QED
    BY <2>1, <2>2, <2>3, <2>4
<1>10. Lost(q)' \subseteq Lost(q) /\ \A a \in 0..MaxDelay : a < loc[q].age => archive'[a] = archive[a]
  <2>1. CASE ~Archive(q)
    <3>1. archive' = archive
      BY <2>1 DEF Read, Empty, Fill, Save
    <3>2. Lost(q)' \subseteq Lost(q)
      BY <1>9, <3>1, NoMoreLost
    <3>3. QED
      BY <3>1, <3>2
  <2>2. CASE Archive(q)
    <3>1. archive' = [archive EXCEPT ![loc[q].age] = Bodies(loc[q].raw)]
      BY <2>2 DEF Archive
    <3>2. \A a \in 0..MaxDelay : a # loc[q].age => archive'[a] = archive[a]
      BY <3>1 DEF TypeOK
    <3>3. loc[q].age \in 0..Old
      BY <1>4, Bounds
    <3>4. archive'[loc[q].age] = Bodies(loc[q].raw)
      BY <3>1, <3>3 DEF TypeOK
    <3>5. Bodies(Text(q))' = Bodies(loc[q].raw) /\ Bodies(Text(q)) = Bodies(loc[q].raw)
      <4>1. Text(q) = mirror /\ loc[q].raw = mirror
        BY <1>7, <2>2 DEF Archive, Text
      <4>2. QED
        BY <1>9, <4>1
    <3>6. Lost(q)' = {a \in 0..MaxDelay : ~(archive'[a] \subseteq Bodies(Text(q))')}
      BY DEF Lost, Text
    <3>7. Lost(q)' \subseteq Lost(q)
      BY <3>2, <3>4, <3>5, <3>6, LostDef
    <3>8. QED
      BY <1>4, <3>2, <3>7
  <2>3. QED
    BY <2>1, <2>2
<1>11. AloneAt(q)'
  <2>1. lock' # NoLock /\ lock' <= loc'[q].age
    BY <1>1, <1>3, <1>5 DEF AloneAt
  <2>2. \A a \in 0..MaxDelay : a < loc'[q].age => archive'[a] = {}
    BY <1>5, <1>10 DEF AloneAt
  <2>3. \A a \in Lost(q)' : loc'[q].age < a
    BY <1>5, <1>6, <1>10
  <2>4. ~LockedOut(q)'
    BY <1>3 DEF LockedOut
  <2>5. QED
    BY <1>3, <2>1, <2>2, <2>3, <2>4 DEF AloneAt
<1>12. QED
  BY <1>8, <1>11

(* A killed consolidation leaves its lock behind, and no archive that is   *)
(* younger than it.                                                        *)
LEMMA AloneKilled ==
    ASSUME TypeOK, NEW q \in Proc, Proc = {q}, AloneAt(q), Crash(q)
    PROVE  AloneAt(q)' /\ interfered' = interfered
<1>1. UNCHANGED <<archive, mirror, lock, interfered>> /\ pc'[q] = "idle" /\ loc'[q].age = 0
  BY OneReturns DEF Crash
<1>2. loc[q].age \in 0..MaxDelay /\ lock \in {NoLock} \cup 0..LockCap /\ NoLock = -1
  BY LocalParts DEF TypeOK, NoLock
<1>3. ~InSection(q)' /\ (LockedOut(q)' <=> lock # NoLock) /\ pc'[q] # "steal"
  BY <1>1 DEF InSection, Section, LockedOut
<1>4. Lost(q)' = {a \in 0..MaxDelay : ~(archive[a] \subseteq Bodies(mirror))}
  BY <1>1 DEF Lost, Bodies
<1>5. \A a \in Lost(q)' : (lock # NoLock => lock <= a) /\ (lock = NoLock => 0 < a)
  <2>1. CASE InSection(q)
    <3>1. lock # NoLock /\ lock <= loc[q].age
      BY <2>1 DEF AloneAt
    <3>2. \A a \in Lost(q)' : a \in 0..MaxDelay /\ ~(a < loc[q].age)
      BY <1>4 DEF AloneAt
    <3>3. QED
      BY <1>2, <3>1, <3>2, Bounds
  <2>2. CASE ~InSection(q)
    <3>1. Text(q) = mirror
      BY <2>2 DEF InSection, Section, Text
    <3>2. Lost(q)' = Lost(q)
      BY <1>4, <3>1, LostDef
    <3>3. LockedOut(q) <=> lock # NoLock
      BY <2>2 DEF LockedOut
    <3>4. \A a \in Lost(q) : (lock # NoLock => lock <= a) /\ (lock = NoLock => loc[q].age < a)
      BY <3>3 DEF AloneAt
    <3>5. \A a \in Lost(q) : a \in 0..MaxDelay
      BY DEF Lost
    <3>6. QED
      BY <1>2, <3>2, <3>4, <3>5, Bounds
  <2>3. QED
    BY <2>1, <2>2
<1>6. \A a \in 0..MaxDelay : ~(a < 0)
  OBVIOUS
<1>7. AloneAt(q)'
  BY <1>1, <1>3, <1>5, <1>6 DEF AloneAt
<1>8. QED
  BY <1>1, <1>7

(* Stamps, the lock and the call under way age together.                   *)
LEMMA AloneAges ==
    ASSUME TypeOK, NEW q \in Proc, Proc = {q}, AloneAt(q), Tick
    PROVE  AloneAt(q)' /\ interfered' = interfered
<1>1. UNCHANGED <<mirror, pc, interfered>>
  BY DEF Tick, history
<1>2. loc[q] \in Local /\ loc[q].age \in 0..MaxDelay /\ lock \in {NoLock} \cup 0..LockCap
      /\ NoLock = -1
  BY LocalParts DEF TypeOK, NoLock
<1>3. loc'[q].raw = loc[q].raw /\ loc'[q].age = IF pc[q] \in Timed THEN loc[q].age + 1 ELSE loc[q].age
  BY <1>2 DEF Tick, Local, State
<1>4. (lock' = NoLock <=> lock = NoLock) /\ (lock # NoLock => lock' <= lock + 1)
  <2>1. CASE lock = NoLock
    BY <2>1 DEF Tick
  <2>2. CASE lock # NoLock
    BY <1>2, <2>2, Bounds DEF Tick, Older
  <2>3. QED
    BY <2>1, <2>2
<1>5. \A a \in 0..MaxDelay : archive'[a] = IF a = 0 THEN {} ELSE archive[a - 1]
  <2>1. \A a \in 0..MaxDelay : a \in 0..Old /\ a # Old
    BY Bounds
  <2>2. QED
    BY <2>1 DEF Tick
<1>6. Text(q)' = Text(q)
  BY <1>1, <1>3 DEF Text
<1>7. \A a \in Lost(q)' : a \in 1..MaxDelay /\ a - 1 \in Lost(q)
  <2> SUFFICES ASSUME NEW a \in Lost(q)' PROVE a \in 1..MaxDelay /\ a - 1 \in Lost(q)
    OBVIOUS
  <2>1. Bodies(Text(q))' = Bodies(Text(q))
    BY <1>6 DEF Bodies
  <2>2. a \in 0..MaxDelay /\ ~(archive'[a] \subseteq Bodies(Text(q)))
    BY <2>1 DEF Lost, Text
  <2>3. a # 0 /\ ~(archive[a - 1] \subseteq Bodies(Text(q)))
    BY <1>5, <2>2
  <2>4. a \in 1..MaxDelay /\ a - 1 \in 0..MaxDelay
    BY <2>2, <2>3, Bounds
  <2>5. QED
    BY <2>3, <2>4, LostDef
<1>8. (InSection(q)' <=> InSection(q)) /\ (LockedOut(q)' <=> LockedOut(q))
  BY <1>1, <1>4 DEF InSection, LockedOut
<1>9. InSection(q) => pc[q] \in Timed
  BY DEF InSection, Timed
<1>10. pc'[q] \notin Timed => loc'[q].age = 0
  BY <1>1, <1>3 DEF AloneAt
<1>11. InSection(q)' => lock' # NoLock /\ lock' <= loc'[q].age
  <2>1. InSection(q) => lock # NoLock /\ lock <= loc[q].age /\ loc'[q].age = loc[q].age + 1
    BY <1>3, <1>9 DEF AloneAt
  <2>2. lock \in Int /\ lock' \in Int
    BY <1>2, <1>4, TickType, Bounds DEF TypeOK
  <2>3. QED
    BY <1>2, <1>4, <1>8, <2>1, <2>2
<1>12. \A a \in 0..MaxDelay : a < loc'[q].age => archive'[a] = {}
  <2> SUFFICES ASSUME NEW a \in 0..MaxDelay, a < loc'[q].age, a # 0 PROVE archive[a - 1] = {}
    BY <1>5
  <2>1. a - 1 \in 0..MaxDelay /\ a - 1 < loc[q].age
    BY <1>2, <1>3, Bounds
  <2>2. QED
    BY <2>1 DEF AloneAt
<1>13. ASSUME NEW a \in Lost(q)'
       PROVE  /\ LockedOut(q)' => lock' <= a
              /\ (~LockedOut(q)' \/ pc'[q] = "steal") => loc'[q].age < a
  <2>1. a \in 1..MaxDelay /\ a - 1 \in Lost(q)
    BY <1>7, <1>13
  <2>2. /\ LockedOut(q) => lock <= a - 1
        /\ (~LockedOut(q) \/ pc[q] = "steal") => loc[q].age < a - 1
    BY <2>1 DEF AloneAt
  <2>3. lock \in Int /\ lock' \in Int /\ (LockedOut(q) => lock # NoLock)
    BY <1>2, <1>4, TickType, Bounds DEF TypeOK, LockedOut
  <2>4. LockedOut(q)' => lock' <= a
    BY <1>4, <1>8, <2>1, <2>2, <2>3 DEF LockedOut
  <2>5. (~LockedOut(q)' \/ pc'[q] = "steal") => loc'[q].age < a
    BY <1>1, <1>2, <1>3, <1>8, <2>1, <2>2
  <2>6. QED
    BY <2>4, <2>5
<1>14. QED
  BY <1>1, <1>10, <1>11, <1>12, <1>13 DEF AloneAt

LEMMA AloneStep ==
    ASSUME TypeOK, KeepInv, AloneInv, [Next]_vars
    PROVE  AloneInv'
<1> SUFFICES ASSUME Cardinality(Proc) = 1, raises' = 0
             PROVE  ~interfered' /\ \A p \in Proc : AloneAt(p)'
  BY DEF AloneInv
<1>1. PICK q \in Proc : Proc = {q}
  BY TheProcess
<1>2. raises = 0 /\ ~Raise(q) /\ ~RecordMisread(q) /\ ~ReadFails(q)
  <2>1. raises \in 0..MaxRaises /\ MaxRaises \in Nat
    BY Bounds DEF TypeOK
  <2>2. ~Raise(q) /\ ~RecordMisread(q) /\ ~ReadFails(q)
    BY <2>1 DEF Raise, RecordMisread, ReadFails
  <2>3. raises' = raises
    BY <1>1, <2>2 DEF Next, Step, OnMemoryWrite, SyncTurn, Boundary, RecordLoad, RecordTruncate,
       RecordSave, Load, TryLock, Stat, Steal, Create, Read, Archive, Empty, Fill, Save,
       Release, Crash, Tick, history, vars
  <2>4. QED
    BY <2>2, <2>3
<1>3. ~interfered /\ AloneAt(q) /\ HandsMatch
  BY <1>2 DEF AloneInv, KeepInv
<1>4. CASE UNCHANGED vars
  <2>1. UNCHANGED <<mirror, archive, lock, pc, loc, interfered>>
    BY <1>4 DEF vars
  <2>2. Lost(q)' = Lost(q) /\ LockedOut(q)' = LockedOut(q) /\ InSection(q)' = InSection(q)
    BY <2>1 DEF Lost, LockedOut, InSection, Bodies
  <2>3. AloneAt(q)'
    BY <1>3, <2>1, <2>2 DEF AloneAt
  <2>4. QED
    BY <1>1, <1>3, <2>1, <2>3
<1>5. QED
  BY <1>1, <1>2, <1>3, <1>4, AloneOutside, AloneLocking, AloneInside, AloneKilled, AloneAges
     DEF Next, Step

(* One process is never the writer its own compaction has to fear, through *)
(* kills at every step and locks stolen from dead runs, for any times: the *)
(* stamp a run archives under is never one whose texts are lost otherwise. *)
THEOREM AloneNeverInterferesAlways == Spec => []AloneNeverInterferes
<1>1. Init => AloneInv
  <2> SUFFICES ASSUME Init PROVE ~interfered /\ \A p \in Proc : AloneAt(p)
    BY DEF AloneInv
  <2> SUFFICES ASSUME NEW p \in Proc PROVE ~interfered /\ AloneAt(p)
    BY DEF Init
  <2>1. loc[p].age = 0 /\ pc[p] = "idle" /\ ~interfered
    BY DEF Init, NoLocal
  <2>2. \A a \in 0..MaxDelay : archive[a] = {}
    BY Bounds DEF Init
  <2>3. Lost(p) = {} /\ ~InSection(p)
    BY <2>1, <2>2 DEF Lost, InSection, Section
  <2>4. QED
    BY <2>1, <2>2, <2>3 DEF AloneAt
<1>2. TypeOK /\ KeepInv /\ AloneInv /\ [Next]_vars => AloneInv'
  BY AloneStep
<1>3. Init => KeepInv
  BY KeepInit
<1>4. TypeOK /\ KeepInv /\ [Next]_vars => KeepInv'
  BY KeepStep
<1>5. AloneInv => AloneNeverInterferes
  BY DEF AloneInv, AloneNeverInterferes
<1>6. QED
  BY <1>1, <1>2, <1>3, <1>4, <1>5, TypeCorrect, PTL DEF Spec

-------------------------------------------------------------------------------
(* The mirror and its archive implement a store that only grows            *)

(* Nor does any text appear in the archives as the stamps age.             *)
LEMMA ArchivedStays ==
    ASSUME TypeOK, Tick
    PROVE  Archived' = Archived
<1> SUFFICES ASSUME NEW a \in 0..Old, NEW b \in archive'[a] PROVE b \in Archived
  BY ArchivedAges DEF Archived
<1>1. archive'[a] = (IF a = 0 THEN {} ELSE archive[a - 1]) \cup (IF a = Old THEN archive[Old] ELSE {})
  BY DEF Tick
<1>2. CASE a # 0 /\ b \in archive[a - 1]
  <2>1. a - 1 \in 0..Old
    BY <1>2, Bounds
  <2>2. QED
    BY <1>2, <2>1 DEF Archived
<1>3. CASE a = Old /\ b \in archive[Old]
  BY <1>3 DEF Archived
<1>4. QED
  BY <1>1, <1>2, <1>3

(* Once another writer has met a compaction, that stays so.                *)
LEMMA InterferedStays ==
    ASSUME [Next]_vars, ~interfered'
    PROVE  ~interfered
<1>1. ASSUME NEW p \in Proc, OnMemoryWrite(p) \/ Archive(p) \/ Empty(p) \/ Fill(p)
      PROVE  ~interfered
  BY <1>1 DEF OnMemoryWrite, Archive, Empty, Fill
<1>2. ASSUME NEW p \in Proc, \/ SyncTurn(p) \/ Boundary(p)
                             \/ RecordLoad(p) \/ RecordMisread(p) \/ RecordTruncate(p)
                             \/ RecordSave(p) \/ Load(p) \/ TryLock(p) \/ Stat(p)
      PROVE  ~interfered
  BY <1>2 DEF SyncTurn, Boundary, RecordLoad, RecordMisread, RecordTruncate, RecordSave, Load,
              TryLock, Stat, history
<1>3. ASSUME NEW p \in Proc, \/ Steal(p) \/ Create(p) \/ Read(p) \/ ReadFails(p)
                             \/ Save(p) \/ Release(p) \/ Raise(p) \/ Crash(p)
      PROVE  ~interfered
  BY <1>3 DEF Steal, Create, Read, ReadFails, Save, Release, Raise, Crash, history
<1>4. CASE Tick \/ UNCHANGED vars
  BY <1>4 DEF Tick, vars, history
<1>5. QED
  BY <1>1, <1>2, <1>3, <1>4 DEF Next, Step

LEMMA KnownStep ==
    ASSUME TypeOK, KeepInv, ~interfered', [Next]_vars
    PROVE  \E bs \in SUBSET (BodyVals \ {NoBody}) : Known' = Known \cup bs
<1> SUFFICES ASSUME Known' # Known
             PROVE  \E bs \in SUBSET (BodyVals \ {NoBody}) : Known' = Known \cup bs
  <2>1. Known = Known \cup {} /\ {} \in SUBSET (BodyVals \ {NoBody})
    OBVIOUS
  <2>2. QED
    BY <2>1
<1>1. ASSUME UNCHANGED <<mirror, archive>> PROVE Known' = Known
  BY <1>1 DEF Known, Archived, Bodies
<1>2. ASSUME NEW p \in Proc,
             \/ SyncTurn(p) \/ Boundary(p) \/ RecordLoad(p) \/ RecordMisread(p)
             \/ RecordTruncate(p) \/ RecordSave(p) \/ Load(p) \/ TryLock(p) \/ Stat(p)
             \/ Steal(p) \/ Create(p) \/ Read(p) \/ ReadFails(p) \/ Save(p) \/ Release(p)
             \/ Raise(p) \/ Crash(p)
      PROVE  Known' = Known
  BY <1>1, <1>2 DEF SyncTurn, Boundary, RecordLoad, RecordMisread, RecordTruncate, RecordSave,
     Load, TryLock, Stat, Steal, Create, Read, ReadFails, Save, Release, Raise, Crash
<1>3. ASSUME NEW p \in Proc, OnMemoryWrite(p)
      PROVE  \E bs \in SUBSET (BodyVals \ {NoBody}) : Known' = Known \cup bs
  <2>1. PICK text \in Texts : mirror' = mirror \o text
    BY <1>3 DEF OnMemoryWrite
  <2>2. mirror \in Seq(Entry) /\ text \in Seq(Entry)
    BY TextsType DEF TypeOK
  <2>3. Bodies(text) \in SUBSET (BodyVals \ {NoBody})
    BY <2>2, BodiesType DEF Bodies
  <2>4. Archived' = Archived
    BY <1>3 DEF OnMemoryWrite, Archived
  <2>5. Bodies(mirror)' = Bodies(mirror \o text)
    BY <2>1 DEF Bodies
  <2>6. Known' = Known \cup Bodies(text)
    BY <2>2, <2>4, <2>5, AppendedBodies DEF Known
  <2>7. QED
    BY <2>3, <2>6
<1>4. ASSUME NEW p \in Proc, Archive(p) \/ Empty(p) \/ Fill(p)
      PROVE  ~interfered /\ HandsMatch
  <2>1. ~interfered
    BY <1>4 DEF Archive, Empty, Fill
  <2>2. QED
    BY <2>1 DEF KeepInv
<1>5. ASSUME NEW p \in Proc, Archive(p) PROVE Known' = Known
  <2> DEFINE a == loc[p].age
             b == Bodies(loc[p].raw)
  <2>1. archive' = [archive EXCEPT ![a] = b] /\ archive[a] \subseteq b /\ mirror' = mirror
    BY <1>5 DEF Archive
  <2>2. b = Bodies(mirror)
    BY <1>4, <1>5 DEF HandsMatch, Archive
  <2>3. a \in 0..Old
    <3>1. a \in 0..MaxDelay
      BY LocalParts DEF TypeOK
    <3>2. QED
      BY <3>1, Bounds
  <2> HIDE DEF a, b
  <2>4. archive'[a] = b /\ \A c \in 0..Old : c # a => archive'[c] = archive[c]
    BY <2>1, <2>3 DEF TypeOK
  <2>5. Archived' = Archived \cup b
    BY <2>1, <2>3, <2>4 DEF Archived
  <2>6. Bodies(mirror)' = Bodies(mirror)
    BY <2>1 DEF Bodies
  <2>7. QED
    BY <2>2, <2>5, <2>6 DEF Known
<1>6. ASSUME NEW p \in Proc, Empty(p) PROVE Known' = Known
  <2>1. Bodies(mirror) \subseteq Archived
    BY <1>4, <1>6 DEF HandsMatch, Empty
  <2>2. Bodies(mirror)' = {} /\ Archived' = Archived
    BY <1>6 DEF Empty, Bodies, Archived
  <2>3. QED
    BY <2>1, <2>2 DEF Known
<1>7. ASSUME NEW p \in Proc, Fill(p) PROVE Known' = Known
  <2>1. mirror = <<>> /\ Bodies(loc[p].raw) \subseteq Archived
    BY <1>4, <1>7 DEF HandsMatch, Fill
  <2>2. Bodies(Dedup(loc[p].raw)) = Bodies(loc[p].raw)
    BY DedupBodies, LocalParts DEF TypeOK
  <2>3. mirror' = Dedup(loc[p].raw) /\ Archived' = Archived
    BY <1>7 DEF Fill, Archived
  <2>4. Bodies(mirror)' = Bodies(Dedup(loc[p].raw))
    BY <2>3 DEF Bodies
  <2>5. Bodies(mirror) = {}
    BY <2>1 DEF Bodies
  <2>6. QED
    BY <2>1, <2>2, <2>3, <2>4, <2>5 DEF Known
<1>8. CASE Tick
  <2>1. Archived' = Archived /\ mirror' = mirror
    BY <1>8, ArchivedStays DEF Tick
  <2>2. QED
    BY <2>1 DEF Known, Bodies
<1>9. CASE UNCHANGED vars
  <2>1. UNCHANGED <<mirror, archive>>
    BY <1>9 DEF vars
  <2>2. QED
    BY <1>1, <2>1
<1>10. QED
  BY <1>2, <1>3, <1>5, <1>6, <1>7, <1>8, <1>9 DEF Next, Step

(* Any number of processes together implement the store the archive is     *)
(* kept for (MirrorPromise), for as long as no other writer meets a        *)
(* compaction: a memory write adds its text, and no other step adds or     *)
(* loses one.                                                              *)
THEOREM KeepsPromiseAlways == Spec => KeepsPromise
<1>1. Init => Promise!Init
  BY Bounds DEF Init, Promise!Init, Known, Bodies, Archived
<1>2. TypeOK /\ KeepInv /\ [Next]_vars =>
        [Promise!Learn \/ Promise!Break]_<<Known, ~interfered>>
  <2> SUFFICES ASSUME TypeOK, KeepInv, [Next]_vars, interfered \in BOOLEAN
               PROVE  [Promise!Learn \/ Promise!Break]_<<Known, ~interfered>>
    BY DEF TypeOK
  <2>1. CASE interfered'
    BY <2>1, Zenon DEF Promise!Break
  <2>2. CASE ~interfered'
    <3>1. \E bs \in SUBSET (BodyVals \ {NoBody}) : Known' = Known \cup bs
      BY <2>2, KnownStep
    <3>2. ~interfered
      BY <2>2, InterferedStays
    <3>3. (~interfered)' = (~interfered)
      BY <2>2, <3>2
    <3>4. QED
      BY <3>1, <3>3, Zenon DEF Promise!Learn, BodyVals
  <2>3. QED
    BY <2>1, <2>2
<1>3. Init => KeepInv
  BY KeepInit
<1>4. TypeOK /\ KeepInv /\ [Next]_vars => KeepInv'
  BY KeepStep
<1>5. QED
  BY <1>1, <1>2, <1>3, <1>4, TypeCorrect, PTL DEF Spec, KeepsPromise, Promise!Spec

(* One process whose file operations do not fail never breaks the promise, *)
(* through every kill: each of its steps adds a text or leaves all as they *)
(* are.                                                                    *)
THEOREM KeepsPromiseAlone ==
    ASSUME Cardinality(Proc) = 1, MaxRaises = 0
    PROVE  Spec => [][Promise!Learn]_<<Known, ~interfered>>
<1>1. TypeOK /\ AloneNeverInterferes => ~interfered
  BY DEF TypeOK, AloneNeverInterferes
<1>2. ~interfered' /\ [Promise!Learn \/ Promise!Break]_<<Known, ~interfered>>
        => [Promise!Learn]_<<Known, ~interfered>>
  BY Zenon DEF Promise!Break
<1>3. QED
  BY <1>1, <1>2, TypeCorrect, AloneNeverInterferesAlways, KeepsPromiseAlways, PTL
       DEF KeepsPromise, Promise!Spec

-------------------------------------------------------------------------------
(* What a compaction makes of a log                                        *)

(* The first entry with its body, and the newest of the first n.           *)
IsFirst(log, k) == \A j \in 1..(k - 1) : BodyOf[log[j]] # BodyOf[log[k]]
IsNewest(log, k, n) == \A j \in (k + 1)..n : BodyOf[log[j]] # BodyOf[log[k]]

(* The dict after n entries has of every text its newest entry, in the     *)
(* order in which the texts first came, and none without a body.           *)
Newest(log, d, n) ==
    \A i \in DOMAIN d : \E k \in 1..n : d[i] = log[k] /\ IsNewest(log, k, n)
Ordered(log, d, n) ==
    \A i, j \in DOMAIN d : i < j =>
        \A k, m \in 1..n :
            /\ IsFirst(log, k) /\ BodyOf[log[k]] = BodyOf[d[i]]
            /\ IsFirst(log, m) /\ BodyOf[log[m]] = BodyOf[d[j]]
            => k < m
Compacts(log, d, n) ==
    /\ d \in Seq(Entry)
    /\ Bodies(d) = {BodyOf[log[i]] : i \in 1..n} \ {NoBody}
    /\ \A i \in DOMAIN d : BodyOf[d[i]] # NoBody
    /\ Newest(log, d, n)
    /\ Ordered(log, d, n)

LEMMA InsertCompacts ==
    ASSUME NEW log \in Seq(Entry), NEW n \in Nat, n + 1 <= Len(log),
           NEW d, Compacts(log, d, n)
    PROVE  Compacts(log, Insert(d, log[n + 1]), n + 1)
<1> DEFINE e == log[n + 1]
<1>1. /\ n + 1 \in DOMAIN log /\ e \in Entry /\ d \in Seq(Entry)
      /\ DOMAIN d = 1..Len(d) /\ Len(d) \in Nat
  BY DEF Compacts
<1>2. 1..(n + 1) = 1..n \cup {n + 1}
  OBVIOUS
<1>3. Insert(d, e) \in Seq(Entry)
  BY <1>1, InsertType
<1>4. Bodies(Insert(d, e)) = {BodyOf[log[i]] : i \in 1..(n + 1)} \ {NoBody}
  <2>1. Bodies(Insert(d, e)) = Bodies(d) \cup ({BodyOf[e]} \ {NoBody})
    BY <1>1, InsertBodies
  <2>2. {BodyOf[log[i]] : i \in 1..(n + 1)} = {BodyOf[log[i]] : i \in 1..n} \cup {BodyOf[e]}
    BY <1>2
  <2>3. Bodies(d) = {BodyOf[log[i]] : i \in 1..n} \ {NoBody}
    BY DEF Compacts
  <2> HIDE DEF e
  <2>4. QED
    BY <2>1, <2>2, <2>3
<1>5. BodyOf[e] \in Bodies(d) <=> BodyOf[e] # NoBody /\ \E j \in 1..n : BodyOf[log[j]] = BodyOf[e]
  BY DEF Compacts
<1>12. \A i \in DOMAIN d : BodyOf[d[i]] # NoBody
  BY DEF Compacts
<1>6. \A k \in 1..n : IsNewest(log, k, n) /\ BodyOf[log[k]] # BodyOf[e] => IsNewest(log, k, n + 1)
  <2> SUFFICES ASSUME NEW k \in 1..n, IsNewest(log, k, n), BodyOf[log[k]] # BodyOf[e],
                      NEW j \in (k + 1)..(n + 1)
               PROVE  BodyOf[log[j]] # BodyOf[log[k]]
    BY DEF IsNewest
  <2>1. j \in (k + 1)..n \/ j = n + 1
    OBVIOUS
  <2>2. QED
    BY <2>1 DEF IsNewest
<1>7. IsNewest(log, n + 1, n + 1)
  BY DEF IsNewest
<1> HIDE DEF e
<1>8. CASE BodyOf[e] \in Bodies(d)
  <2> DEFINE new == [i \in DOMAIN d |-> IF BodyOf[d[i]] = BodyOf[e] THEN e ELSE d[i]]
  <2>1. Insert(d, e) = new
    BY <1>8 DEF Insert
  <2>2. DOMAIN new = DOMAIN d /\ \A i \in DOMAIN d : BodyOf[new[i]] = BodyOf[d[i]]
    OBVIOUS
  <2>3. \A i \in DOMAIN d : new[i] = IF BodyOf[d[i]] = BodyOf[e] THEN e ELSE d[i]
    OBVIOUS
  <2> HIDE DEF new
  <2>4. Newest(log, new, n + 1)
    <3> SUFFICES ASSUME NEW i \in DOMAIN d
                 PROVE  \E k \in 1..(n + 1) : new[i] = log[k] /\ IsNewest(log, k, n + 1)
      BY <2>2 DEF Newest
    <3>1. CASE BodyOf[d[i]] = BodyOf[e]
      <4>1. new[i] = log[n + 1]
        BY <2>3, <3>1 DEF e
      <4>2. QED
        BY <1>2, <1>7, <4>1
    <3>2. CASE BodyOf[d[i]] # BodyOf[e]
      <4>1. PICK k \in 1..n : d[i] = log[k] /\ IsNewest(log, k, n)
        BY DEF Compacts, Newest
      <4>2. IsNewest(log, k, n + 1) /\ new[i] = log[k]
        BY <1>6, <2>3, <3>2, <4>1
      <4>3. QED
        BY <1>2, <4>2
    <3>3. QED
      BY <3>1, <3>2
  <2>5. ~IsFirst(log, n + 1)
    BY <1>5, <1>8 DEF IsFirst, e
  <2>6. Ordered(log, new, n + 1)
    <3> SUFFICES ASSUME NEW i \in DOMAIN d, NEW j \in DOMAIN d, i < j,
                        NEW k \in 1..(n + 1), NEW m \in 1..(n + 1),
                        IsFirst(log, k), BodyOf[log[k]] = BodyOf[new[i]],
                        IsFirst(log, m), BodyOf[log[m]] = BodyOf[new[j]]
                 PROVE  k < m
      BY <2>2 DEF Ordered
    <3>1. k \in 1..n /\ m \in 1..n
      BY <1>2, <2>5
    <3>2. BodyOf[log[k]] = BodyOf[d[i]] /\ BodyOf[log[m]] = BodyOf[d[j]]
      BY <2>2
    <3>3. QED
      BY <3>1, <3>2 DEF Compacts, Ordered
  <2>7. \A i \in DOMAIN new : BodyOf[new[i]] # NoBody
    BY <1>12, <2>2
  <2>8. QED
    BY <1>3, <1>4, <2>1, <2>4, <2>6, <2>7 DEF Compacts, e
<1>9. CASE BodyOf[e] \notin Bodies(d) /\ BodyOf[e] # NoBody
  <2> DEFINE new == Append(d, e)
  <2>1. Insert(d, e) = new
    BY <1>9 DEF Insert
  <2>2. /\ DOMAIN new = 1..(Len(d) + 1) /\ new[Len(d) + 1] = e
        /\ \A i \in 1..Len(d) : new[i] = d[i]
    BY <1>1
  <2> HIDE DEF new
  <2>3. 1..(Len(d) + 1) = 1..Len(d) \cup {Len(d) + 1}
    BY <1>1
  <2>4. \A i \in 1..Len(d) : BodyOf[d[i]] # BodyOf[e]
    BY <1>1, <1>9 DEF Bodies
  <2>5. \A j \in 1..n : BodyOf[log[j]] # BodyOf[e]
    BY <1>5, <1>9
  <2>6. Newest(log, new, n + 1)
    <3> SUFFICES ASSUME NEW i \in DOMAIN new
                 PROVE  \E k \in 1..(n + 1) : new[i] = log[k] /\ IsNewest(log, k, n + 1)
      BY DEF Newest
    <3>1. CASE i = Len(d) + 1
      <4>1. new[i] = log[n + 1]
        BY <2>2, <3>1 DEF e
      <4>2. QED
        BY <1>2, <1>7, <4>1
    <3>2. CASE i \in 1..Len(d)
      <4>1. PICK k \in 1..n : d[i] = log[k] /\ IsNewest(log, k, n)
        BY <1>1, <3>2 DEF Compacts, Newest
      <4>2. IsNewest(log, k, n + 1) /\ new[i] = log[k]
        BY <1>6, <2>2, <2>4, <3>2, <4>1
      <4>3. QED
        BY <1>2, <4>2
    <3>3. QED
      BY <2>2, <2>3, <3>1, <3>2
  <2>7. Ordered(log, new, n + 1)
    <3> SUFFICES ASSUME NEW i \in DOMAIN new, NEW j \in DOMAIN new, i < j,
                        NEW k \in 1..(n + 1), NEW m \in 1..(n + 1),
                        IsFirst(log, k), BodyOf[log[k]] = BodyOf[new[i]],
                        IsFirst(log, m), BodyOf[log[m]] = BodyOf[new[j]]
                 PROVE  k < m
      BY DEF Ordered
    <3>1. i \in 1..Len(d) /\ new[i] = d[i]
      BY <1>1, <2>2
    <3>2. k \in 1..n
      BY <1>2, <2>4, <3>1 DEF e
    <3>3. CASE j = Len(d) + 1
      <4>1. BodyOf[log[m]] = BodyOf[e]
        BY <2>2, <3>3
      <4>2. m = n + 1
        BY <1>2, <2>5, <4>1
      <4>3. QED
        BY <3>2, <4>2
    <3>4. CASE j \in 1..Len(d)
      <4>1. m \in 1..n /\ new[j] = d[j]
        BY <1>2, <2>2, <2>4, <3>4 DEF e
      <4>2. QED
        BY <1>1, <3>1, <3>2, <3>4, <4>1 DEF Compacts, Ordered
    <3>5. QED
      BY <2>2, <2>3, <3>3, <3>4
  <2>8. \A i \in DOMAIN new : BodyOf[new[i]] # NoBody
    BY <1>12, <1>1, <1>9, <2>2, <2>3
  <2>9. QED
    BY <1>3, <1>4, <2>1, <2>6, <2>7, <2>8 DEF Compacts, e
<1>10. CASE BodyOf[e] = NoBody
  <2>1. BodyOf[e] \notin Bodies(d)
    BY <1>10 DEF Bodies
  <2>2. Insert(d, e) = d
    BY <1>10, <2>1 DEF Insert
  <2>3. Newest(log, d, n + 1)
    <3> SUFFICES ASSUME NEW i \in DOMAIN d
                 PROVE  \E k \in 1..(n + 1) : d[i] = log[k] /\ IsNewest(log, k, n + 1)
      BY DEF Newest
    <3>1. PICK k \in 1..n : d[i] = log[k] /\ IsNewest(log, k, n)
      BY DEF Compacts, Newest
    <3>2. BodyOf[log[k]] # BodyOf[e]
      BY <1>12, <1>10, <3>1
    <3>3. QED
      BY <1>2, <1>6, <3>1, <3>2
  <2>4. Ordered(log, d, n + 1)
    <3> SUFFICES ASSUME NEW i \in DOMAIN d, NEW j \in DOMAIN d, i < j,
                        NEW k \in 1..(n + 1), NEW m \in 1..(n + 1),
                        IsFirst(log, k), BodyOf[log[k]] = BodyOf[d[i]],
                        IsFirst(log, m), BodyOf[log[m]] = BodyOf[d[j]]
                 PROVE  k < m
      BY DEF Ordered
    <3>1. BodyOf[log[k]] # NoBody /\ BodyOf[log[m]] # NoBody
      BY <1>12
    <3>2. k \in 1..n /\ m \in 1..n
      BY <1>2, <1>10, <3>1 DEF e
    <3>3. QED
      BY <3>2 DEF Compacts, Ordered
  <2>5. QED
    BY <1>12, <1>3, <1>4, <2>2, <2>3, <2>4 DEF Compacts, e
<1>11. QED
  BY <1>8, <1>9, <1>10 DEF e

LEMMA DictCompacts ==
    ASSUME NEW log \in Seq(Entry), NEW n \in 0..Len(log)
    PROVE  Compacts(log, DictAfter(log)[n], n)
<1> DEFINE f == DictAfter(log)
           S == {m \in Nat : m <= Len(log) => Compacts(log, f[m], m)}
<1>1. Len(log) \in Nat
  OBVIOUS
<1>2. f = [m \in 0..Len(log) |-> IF m = 0 THEN <<>> ELSE Insert(f[m - 1], log[m])]
  BY DictAfterDef, Zenon
<1> HIDE DEF f
<1>3. 0 \in S
  <2>1. f[0] = <<>>
    BY <1>1, <1>2
  <2>2. <<>> \in Seq(Entry) /\ DOMAIN <<>> = {} /\ 1..0 = {}
    OBVIOUS
  <2>3. Compacts(log, <<>>, 0)
    BY <2>2 DEF Compacts, Bodies, Newest, Ordered
  <2>4. QED
    BY <2>1, <2>3
<1>4. ASSUME NEW m \in Nat, m \in S PROVE m + 1 \in S
  <2> SUFFICES ASSUME m + 1 <= Len(log) PROVE Compacts(log, f[m + 1], m + 1)
    OBVIOUS
  <2>1. m + 1 \in 0..Len(log) /\ m + 1 # 0 /\ (m + 1) - 1 = m /\ m <= Len(log)
    BY <1>1
  <2>2. f[m + 1] = Insert(f[m], log[m + 1])
    BY <1>2, <2>1
  <2>3. QED
    BY <1>4, <2>1, <2>2, InsertCompacts
<1> HIDE DEF S
<1>5. Nat \subseteq S
  BY <1>3, <1>4, SetInduction
<1>6. n \in S /\ n <= Len(log)
  BY <1>1, <1>5
<1>7. QED
  BY <1>6 DEF S, f

(* Every text of a log has a first entry, and only one.                    *)
LEMMA FirstExists ==
    ASSUME NEW log \in Seq(Entry), NEW k \in DOMAIN log
    PROVE  \E m \in 1..k : BodyOf[log[m]] = BodyOf[log[k]] /\ IsFirst(log, m)
<1> DEFINE Same == {m \in Nat : m \in 1..k /\ BodyOf[log[m]] = BodyOf[log[k]]}
<1>1. k \in Same
  OBVIOUS
<1>2. PICK m \in Same : \A j \in Same : ~(<<j, m>> \in OpToRel(<, Nat))
  BY <1>1, NatLessThanWellFounded, WFMin
<1>3. m \in 1..k /\ BodyOf[log[m]] = BodyOf[log[k]]
  BY <1>2
<1>4. ASSUME NEW j \in 1..(m - 1), BodyOf[log[j]] = BodyOf[log[m]] PROVE FALSE
  <2>1. j \in Same /\ j \in Nat /\ m \in Nat /\ j < m
    BY <1>3, <1>4
  <2>2. <<j, m>> \in OpToRel(<, Nat)
    BY <2>1, Zenon DEF OpToRel
  <2>3. QED
    BY <1>2, <2>1, <2>2, Zenon
<1>5. QED
  BY <1>3, <1>4 DEF IsFirst

LEMMA FirstUnique ==
    ASSUME NEW log \in Seq(Entry), NEW k \in DOMAIN log, NEW m \in DOMAIN log,
           BodyOf[log[k]] = BodyOf[log[m]], IsFirst(log, k), IsFirst(log, m)
    PROVE  k = m
<1>1. ~(k < m)
  BY DEF IsFirst
<1>2. ~(m < k)
  BY DEF IsFirst
<1>3. QED
  BY <1>1, <1>2

(* A text is in a compacted log once.                                      *)
LEMMA CompactedOnce ==
    ASSUME NEW log \in Seq(Entry), NEW d, Compacts(log, d, Len(log)),
           NEW i \in DOMAIN d, NEW j \in DOMAIN d, BodyOf[d[i]] = BodyOf[d[j]]
    PROVE  i = j
<1>1. d \in Seq(Entry) /\ DOMAIN d = 1..Len(d) /\ Len(d) \in Nat /\ DOMAIN log = 1..Len(log)
  BY DEF Compacts
<1>2. PICK k \in DOMAIN log : BodyOf[log[k]] = BodyOf[d[i]]
  <2>1. BodyOf[d[i]] \in Bodies(d)
    BY DEF Compacts, Bodies
  <2>2. QED
    BY <1>1, <2>1 DEF Compacts
<1>3. PICK m \in DOMAIN log : BodyOf[log[m]] = BodyOf[d[i]] /\ IsFirst(log, m)
  <2>1. PICK m \in 1..k : BodyOf[log[m]] = BodyOf[log[k]] /\ IsFirst(log, m)
    BY FirstExists
  <2>2. m \in DOMAIN log
    BY <1>1, <1>2, <2>1
  <2>3. QED
    BY <1>2, <2>1, <2>2
<1>4. ~(i < j)
  BY <1>1, <1>3 DEF Compacts, Ordered
<1>5. ~(j < i)
  BY <1>1, <1>3 DEF Compacts, Ordered
<1>6. QED
  BY <1>1, <1>4, <1>5

(* A log is minimal when no text is in it twice and none has no body.      *)
Once(log) == \A i, j \in DOMAIN log : BodyOf[log[i]] = BodyOf[log[j]] => i = j
NoBlanks(log) == \A i \in DOMAIN log : BodyOf[log[i]] # NoBody

LEMMA MinimalOnce ==
    ASSUME NEW log \in Seq(Entry)
    PROVE  Minimal(log) <=> Once(log) /\ NoBlanks(log)
<1> DEFINE f == [i \in 1..Len(log) |-> BodyOf[log[i]]]
           all == {BodyOf[log[i]] : i \in 1..Len(log)}
<1>1. DOMAIN log = 1..Len(log) /\ Len(log) \in Nat
  OBVIOUS
<1>2. IsFiniteSet(1..Len(log)) /\ Cardinality(1..Len(log)) = Len(log)
  <2>1. Cardinality(1..Len(log)) = (IF 1 > Len(log) THEN 0 ELSE Len(log) - 1 + 1)
    BY <1>1, FS_Interval
  <2>2. QED
    BY <1>1, <2>1, FS_Interval
<1>3. f \in Surjection(1..Len(log), all)
  BY DEF Surjection
<1>4. /\ IsFiniteSet(all) /\ Cardinality(all) <= Cardinality(1..Len(log))
      /\ Cardinality(all) = Cardinality(1..Len(log)) <=> f \in Injection(1..Len(log), all)
  <2> HIDE DEF f, all
  <2>1. QED
    BY <1>2, <1>3, FS_Surjection
<1>5. f \in Injection(1..Len(log), all) <=> Once(log)
  <2>1. f \in [1..Len(log) -> all] /\ \A i \in 1..Len(log) : f[i] = BodyOf[log[i]]
    OBVIOUS
  <2> HIDE DEF f, all
  <2>2. f \in Injection(1..Len(log), all) <=> \A i, j \in 1..Len(log) : f[i] = f[j] => i = j
    BY <2>1 DEF Injection, IsInjective
  <2>3. QED
    BY <1>1, <2>1, <2>2 DEF Once
<1>6. Bodies(log) = all \ {NoBody}
  BY <1>1 DEF Bodies
<1>7. NoBody \in all <=> ~NoBlanks(log)
  BY <1>1 DEF NoBlanks
<1>8. CASE NoBody \in all
  <2> HIDE DEF all
  <2>1. Cardinality(all \ {NoBody}) = Cardinality(all) - 1 /\ Cardinality(all) \in Nat
    BY <1>4, <1>8, FS_RemoveElement, FS_CardinalityType
  <2>2. Cardinality(Bodies(log)) # Len(log)
    BY <1>1, <1>2, <1>4, <1>6, <2>1
  <2>3. QED
    BY <1>7, <1>8, <2>2 DEF Minimal
<1>9. CASE NoBody \notin all
  <2> HIDE DEF all
  <2>1. Bodies(log) = all
    BY <1>6, <1>9
  <2>2. QED
    BY <1>2, <1>4, <1>5, <1>7, <1>9, <2>1 DEF Minimal
<1>10. QED
  BY <1>8, <1>9

(* Such a log is its own dict, entry for entry.                            *)
LEMMA OnceStays ==
    ASSUME NEW log \in Seq(Entry), Once(log), NoBlanks(log)
    PROVE  Dedup(log) = log
<1> DEFINE f == DictAfter(log)
           IsPrefix(d, n) == d \in Seq(Entry) /\ Len(d) = n /\ \A i \in 1..n : d[i] = log[i]
           S == {n \in Nat : n <= Len(log) => IsPrefix(f[n], n)}
<1>1. Len(log) \in Nat /\ DOMAIN log = 1..Len(log) /\ \A i \in 1..Len(log) : log[i] \in Entry
  OBVIOUS
<1>2. f = [m \in 0..Len(log) |-> IF m = 0 THEN <<>> ELSE Insert(f[m - 1], log[m])]
  BY DictAfterDef, Zenon
<1> HIDE DEF f
<1>3. 0 \in S
  <2>1. f[0] = <<>>
    BY <1>1, <1>2
  <2>2. <<>> \in Seq(Entry) /\ Len(<<>>) = 0 /\ 1..0 = {}
    OBVIOUS
  <2>3. IsPrefix(f[0], 0)
    BY <2>1, <2>2
  <2> HIDE DEF IsPrefix
  <2>4. QED
    BY <2>3
<1>4. ASSUME NEW n \in Nat, n \in S PROVE n + 1 \in S
  <2> SUFFICES ASSUME n + 1 <= Len(log) PROVE IsPrefix(f[n + 1], n + 1)
    OBVIOUS
  <2>1. n + 1 \in 0..Len(log) /\ n + 1 # 0 /\ (n + 1) - 1 = n /\ n <= Len(log) /\ n + 1 \in DOMAIN log
    BY <1>1
  <2>2. f[n + 1] = Insert(f[n], log[n + 1]) /\ IsPrefix(f[n], n)
    BY <1>2, <1>4, <2>1
  <2>3. BodyOf[log[n + 1]] \notin Bodies(f[n])
    <3> SUFFICES ASSUME NEW i \in DOMAIN f[n], BodyOf[f[n][i]] = BodyOf[log[n + 1]] PROVE FALSE
      BY DEF Bodies
    <3>1. i \in 1..n /\ f[n][i] = log[i]
      BY <2>2
    <3>2. i \in DOMAIN log /\ i # n + 1
      BY <1>1, <2>1, <3>1
    <3>3. QED
      BY <2>1, <3>1, <3>2 DEF Once
  <2>4. f[n + 1] = Append(f[n], log[n + 1])
    BY <2>1, <2>2, <2>3 DEF Insert, NoBlanks
  <2>5. QED
    BY <1>1, <2>1, <2>2, <2>4
<1> HIDE DEF S
<1>5. Nat \subseteq S
  BY <1>3, <1>4, SetInduction
<1>6. IsPrefix(f[Len(log)], Len(log))
  BY <1>1, <1>5 DEF S
<1>7. f[Len(log)] = log
  BY <1>6, SeqEqual
<1>8. QED
  BY <1>7 DEF Dedup, f

(* A compaction keeps of every text exactly its newest entry, in the order *)
(* in which the texts were first mirrored, leaves out what has no body,    *)
(* and changes a log unless that has every text once, for logs of any      *)
(* length (CompactionExact).                                               *)
THEOREM CompactionExactAlways == Spec => []CompactionExact
<1>1. ASSUME TypeOK PROVE CompactionExact
  <2> DEFINE d == Dedup(mirror)
             N == Len(mirror)
             newest == {k \in DOMAIN mirror : /\ BodyOf[mirror[k]] # NoBody
                                              /\ \A j \in (k + 1)..Len(mirror) :
                                                   BodyOf[mirror[j]] # BodyOf[mirror[k]]}
             IsFirstOf(k, e) == /\ BodyOf[mirror[k]] = BodyOf[e]
                                /\ \A j \in 1..(k - 1) : BodyOf[mirror[j]] # BodyOf[e]
             first(e) == CHOOSE k \in DOMAIN mirror : IsFirstOf(k, e)
  <2>1. mirror \in Seq(Entry) /\ N \in Nat /\ DOMAIN mirror = 1..N
    BY <1>1 DEF TypeOK
  <2>2. Compacts(mirror, d, N)
    BY <2>1, DictCompacts DEF Dedup
  <2>3. d \in Seq(Entry) /\ DOMAIN d = 1..Len(d)
    BY <2>2 DEF Compacts
  <2> HIDE DEF d
  <2>4. \A k \in DOMAIN mirror :
           k \in newest <=> BodyOf[mirror[k]] # NoBody /\ IsNewest(mirror, k, N)
    BY DEF IsNewest
  <2>5. \A i \in DOMAIN d : \E k \in newest : d[i] = mirror[k]
    BY <2>1, <2>2, <2>4 DEF Compacts, Newest
  <2>6. ASSUME NEW k \in newest PROVE \E i \in DOMAIN d : d[i] = mirror[k]
    <3>1. BodyOf[mirror[k]] \in Bodies(d)
      BY <2>1, <2>2 DEF Compacts
    <3>2. PICK i \in DOMAIN d : BodyOf[d[i]] = BodyOf[mirror[k]]
      BY <3>1 DEF Bodies
    <3>3. PICK m \in newest : d[i] = mirror[m]
      BY <2>5
    <3>4. ~(m < k) /\ ~(k < m)
      BY <2>1, <3>2, <3>3
    <3>5. QED
      BY <2>1, <3>3, <3>4
  <2>7. {d[i] : i \in DOMAIN d} = {mirror[k] : k \in newest}
    <3> HIDE DEF newest
    <3>1. QED
      BY <2>5, <2>6
  <2>8. ASSUME NEW i \in DOMAIN d
        PROVE  first(d[i]) \in 1..N /\ IsFirst(mirror, first(d[i]))
               /\ BodyOf[mirror[first(d[i])]] = BodyOf[d[i]]
    <3>1. PICK k \in DOMAIN mirror : d[i] = mirror[k]
      BY <2>5
    <3>2. PICK m \in 1..k : BodyOf[mirror[m]] = BodyOf[mirror[k]] /\ IsFirst(mirror, m)
      BY <2>1, FirstExists
    <3>3. m \in DOMAIN mirror /\ IsFirstOf(m, d[i])
      BY <2>1, <3>1, <3>2 DEF IsFirst
    <3>4. first(d[i]) \in DOMAIN mirror /\ IsFirstOf(first(d[i]), d[i])
      BY <3>3
    <3> HIDE DEF first
    <3>5. QED
      BY <2>1, <3>4 DEF IsFirst
  <2>9. \A i, j \in DOMAIN d : i < j => first(d[i]) < first(d[j])
    <3> HIDE DEF first
    <3>1. QED
      BY <2>2, <2>8 DEF Compacts, Ordered
  <2>10. Minimal(mirror) => d = mirror
    BY <2>1, MinimalOnce, OnceStays DEF d
  <2>11. d = mirror => Minimal(mirror)
    <3>1. NoBlanks(d)
      BY <2>2 DEF Compacts, NoBlanks
    <3>2. Once(d)
      BY <2>1, <2>2, CompactedOnce DEF Once
    <3>3. QED
      BY <2>1, <3>1, <3>2, MinimalOnce
  <2>12. QED
    BY <2>7, <2>9, <2>10, <2>11 DEF CompactionExact, d
<1>2. QED
  BY <1>1, TypeCorrect, PTL

===============================================================================
