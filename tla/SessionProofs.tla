----------------------------- MODULE SessionProofs -----------------------------
(***************************************************************************)
(* For any set of entries and any limits: what a session has to find is in *)
(* the index, and the doctor sees every wait of Dream that is too long.    *)
(***************************************************************************)
EXTENDS Session, TLAPS

(* Ages grow in step, and stop together.                                   *)
LEMMA OlderAge ==
  ASSUME NEW a \in Age, NEW b \in Age
  PROVE  /\ Older(a) \in Age
         /\ a >= 0 => Older(a) >= 0
         /\ a >= b => Older(a) >= Older(b)
  BY SessionAssumption DEF Older, Age, Never

(* The marker: Dream last ran no later than the waiting began.             *)
DatesInOrder(d) == d.runs => d.last >= 0 /\ d.last >= d.pending
GoodDream(d)    == d \in Dream /\ DatesInOrder(d)

LEMMA FreshGood == GoodDream(Fresh)
  BY SessionAssumption DEF GoodDream, DatesInOrder, Fresh, Dream, Age, Never

LEMMA SignalledGood ==
  ASSUME NEW d, GoodDream(d) PROVE GoodDream(Signalled(d))
<1> DEFINE e == Signalled(d)
<1>0. d \in Dream /\ DatesInOrder(d)
  BY DEF GoodDream
<1>1. /\ e.signals = IF d.signals = Threshold THEN d.signals ELSE d.signals + 1
      /\ e.pending = IF d.pending = Never THEN 0 ELSE d.pending
      /\ e.runs = d.runs /\ e.last = d.last
  BY <1>0 DEF Signalled, Dream
<1>2. e.signals \in 0..Threshold /\ e.pending \in Age
  BY <1>0, <1>1, SessionAssumption DEF Dream, Age, Never
<1>3. e \in Dream
  BY <1>0, <1>2 DEF Signalled, Dream
<1>4. DatesInOrder(e)
  BY <1>0, <1>1, SessionAssumption DEF DatesInOrder, Dream, Age, Never
<1>5. QED
  BY <1>3, <1>4 DEF GoodDream

LEMMA DreamtGood ==
  ASSUME NEW d, GoodDream(d), NEW e \in Dreamt(d) PROVE GoodDream(e)
<1>1. GoodDream(Consolidated(d))
  BY SessionAssumption DEF GoodDream, DatesInOrder, Consolidated, Dream, Age, Never
<1>2. QED
  BY <1>1 DEF Dreamt

(* A day keeps the order of the dates.                                     *)
LEMMA TickGood ==
  ASSUME GoodDream(dream), Tick PROVE GoodDream(dream')
<1>1. dream' = [signals |-> dream.signals, pending |-> Older(dream.pending),
                runs |-> dream.runs, last |-> Older(dream.last)]
  BY DEF Tick, GoodDream, Dream
<1>2. dream.pending \in Age /\ dream.last \in Age /\ dream.signals \in 0..Threshold
        /\ dream.runs \in BOOLEAN
  BY DEF GoodDream, Dream
<1>3. /\ Older(dream.pending) \in Age /\ Older(dream.last) \in Age
      /\ dream.last >= 0 => Older(dream.last) >= 0
      /\ dream.last >= dream.pending => Older(dream.last) >= Older(dream.pending)
  BY <1>2, OlderAge
<1>4. dream' \in Dream
  BY <1>1, <1>2, <1>3 DEF Dream
<1>5. DatesInOrder(dream')
  BY <1>1, <1>3 DEF GoodDream, DatesInOrder
<1>6. QED
  BY <1>4, <1>5 DEF GoodDream

(* Every step that touches the marker leaves it good.                      *)
LEMMA DreamStep ==
  ASSUME GoodDream(dream), [Next]_vars PROVE GoodDream(dream')
<1>1. CASE StartDream \/ Boundary
  BY <1>1, DreamtGood DEF StartDream, Boundary
<1>2. CASE Write
  <2>1. dream' = dream \/ dream' \in Dreamt(Signalled(dream))
    BY <1>2 DEF Write
  <2>2. QED
    BY <2>1, SignalledGood, DreamtGood
<1>3. CASE SyncTurn
  BY <1>3, SignalledGood DEF SyncTurn
<1>4. CASE Tick
  BY <1>4, TickGood
<1>5. CASE \/ Begin \/ BeginInactive \/ OpenIndex \/ OpenRaises \/ PersistRefine
           \/ RefineRaises \/ Forget \/ RebuildClear \/ RebuildIndex \/ Shutdown
           \/ Exit \/ Kill \/ CliApply \/ UNCHANGED vars
  <2>1. dream' = dream
    BY <1>5 DEF Begin, BeginInactive, OpenIndex, OpenRaises, PersistRefine, RefineRaises,
                Forget, RebuildClear, RebuildIndex, Shutdown, Exit, Kill, CliApply, Over,
                files, vars
  <2>2. QED
    BY <2>1
<1>6. QED
  BY <1>1, <1>2, <1>3, <1>4, <1>5 DEF Next

-------------------------------------------------------------------------------
(* The types hold at first ...                                             *)
LEMMA TypeInit == Init => TypeOK
<1> SUFFICES ASSUME Init PROVE TypeOK
  OBVIOUS
<1>1. dream \in Dream
  BY FreshGood DEF Init, GoodDream
<1>2. memory \subseteq Entry /\ mirror \subseteq Entry /\ micro \subseteq Entry
        /\ index \subseteq Entry /\ owed \subseteq Entry
  BY DEF Init
<1>3. pc \in PC /\ faults \in 0..MaxFaults
  BY SessionAssumption DEF Init, PC
<1>4. marker \in BOOLEAN /\ enabled \in BOOLEAN /\ ran \in BOOLEAN
  BY Zenon DEF Init
<1>5. QED
  BY <1>1, <1>2, <1>3, <1>4 DEF TypeOK

(* ... and every step keeps them; those of the marker are DreamStep's.     *)
LEMMA TypeStep ==
  ASSUME TypeOK, GoodDream(dream), [Next]_vars PROVE TypeOK'
<1> USE SessionAssumption DEF TypeOK, PC
<1>d. dream' \in Dream
  BY DreamStep DEF GoodDream
<1>1. CASE Begin \/ BeginInactive
  <2>1. marker' \in BOOLEAN /\ enabled' \in BOOLEAN /\ ran' \in BOOLEAN
    BY <1>1, Zenon DEF Begin, BeginInactive, files
  <2>2. QED
    BY <1>d, <1>1, <2>1 DEF Begin, BeginInactive, files
<1>2. CASE OpenIndex \/ OpenRaises
  <2>1. marker' \in BOOLEAN /\ enabled' \in BOOLEAN /\ ran' \in BOOLEAN
    BY <1>2, Zenon DEF OpenIndex, OpenRaises, CutShort
  <2>2. memory' \subseteq Entry /\ mirror' \subseteq Entry /\ micro' \subseteq Entry
          /\ index' \subseteq Entry /\ owed' \subseteq Entry
    <3>1. CASE OpenIndex
      BY <3>1 DEF OpenIndex, OnDisk
    <3>2. CASE OpenRaises
      BY <3>2 DEF OpenRaises, CutShort, OnDisk
    <3>3. QED
      BY <1>2, <3>1, <3>2
  <2>3. pc' \in PC /\ faults' \in 0..MaxFaults
    BY <1>2 DEF OpenIndex, OpenRaises
  <2>4. QED
    BY <1>d, <2>1, <2>2, <2>3
<1>3. CASE StartDream
  BY <1>d, <1>3 DEF StartDream
<1>4. CASE PersistRefine
  BY <1>d, <1>4 DEF PersistRefine, Moved
<1>5. CASE RefineRaises
  BY <1>d, <1>5 DEF RefineRaises
<1>6. CASE Write \/ Forget
  BY <1>d, <1>6 DEF Write, Forget
<1>7. CASE SyncTurn \/ Boundary \/ Tick
  BY <1>d, <1>7 DEF SyncTurn, Boundary, Tick
<1>8. CASE RebuildClear \/ RebuildIndex \/ Shutdown
  BY <1>d, <1>8 DEF RebuildClear, RebuildIndex, Shutdown, OnDisk, files
<1>9. CASE Exit \/ Kill
  <2>1. marker' \in BOOLEAN /\ enabled' \in BOOLEAN /\ ran' \in BOOLEAN
    BY <1>9, Zenon DEF Exit, Kill, CutShort, Over, files
  <2>2. pc' \in PC /\ faults' \in 0..MaxFaults /\ owed' \subseteq Entry
    BY <1>9 DEF Exit, Kill, Over
  <2>3. memory' \subseteq Entry /\ mirror' \subseteq Entry /\ micro' \subseteq Entry
          /\ index' \subseteq Entry
    BY <1>9 DEF Exit, Kill, CutShort, OnDisk, files
  <2>4. QED
    BY <1>d, <2>1, <2>2, <2>3
<1>10. CASE CliApply
  BY <1>d, <1>10 DEF CliApply, Moved
<1>11. CASE UNCHANGED vars
  BY <1>d, <1>11 DEF vars
<1>12. QED
  BY <1>1, <1>2, <1>3, <1>4, <1>5, <1>6, <1>7, <1>8, <1>9, <1>10, <1>11 DEF Next

TypeInv == TypeOK /\ GoodDream(dream)

LEMMA TypeInvariant == Spec => []TypeInv
<1>1. Init => TypeInv
  BY TypeInit, FreshGood DEF Init, TypeInv
<1>2. TypeInv /\ [Next]_vars => TypeInv'
  BY TypeStep, DreamStep DEF TypeInv
<1>3. QED
  BY <1>1, <1>2, PTL DEF Spec

(* Type correctness.                                                       *)
THEOREM TypeCorrect == Spec => []TypeOK
<1>1. TypeInv => TypeOK
  BY DEF TypeInv
<1>2. QED
  BY <1>1, TypeInvariant, PTL

(* Signals that have waited too long are reported by the doctor, in every  *)
(* reachable state: the dates of the marker are in order.                  *)
THEOREM DreamIdleAlwaysSeen == Spec => []DreamIdleSeen
<1>1. TypeInv => DreamIdleSeen
  BY SessionAssumption
     DEF TypeInv, GoodDream, DatesInOrder, DreamIdleSeen, DreamWarned, Dream, Age, Never
<1>2. QED
  BY <1>1, TypeInvariant, PTL

-------------------------------------------------------------------------------
(* What has to be found is in a file the index is made from, and while     *)
(* initialize goes on nothing is mirrored behind the index's back.         *)
SearchInv ==
    /\ owed \subseteq OnDisk
    /\ pc \in {"dream", "refine"} => mirror \subseteq index
    /\ ColdSearchable

LEMMA SearchStep ==
  ASSUME TypeOK, SearchInv, [Next]_vars PROVE SearchInv'
<1> USE DEF SearchInv, ColdSearchable, OnDisk, Busy, Active
<1>1. CASE Begin \/ BeginInactive
  BY <1>1 DEF Begin, BeginInactive, files
<1>2. CASE OpenIndex \/ OpenRaises
  BY <1>2 DEF OpenIndex, OpenRaises, CutShort
<1>3. CASE StartDream
  BY <1>3 DEF StartDream
<1>4. CASE PersistRefine
  <2>1. owed \subseteq index /\ mirror \subseteq index
    BY <1>4 DEF PersistRefine
  <2>2. \/ micro' = micro /\ owed' = owed
        \/ \E out \in SUBSET memory : micro' = micro \cup out /\ owed' = owed \cup (out \cap mirror)
    BY <1>4 DEF PersistRefine, Moved
  <2>3. QED
    BY <1>4, <2>1, <2>2 DEF PersistRefine
<1>5. CASE RefineRaises
  BY <1>5 DEF RefineRaises
<1>6. CASE Write \/ Forget
  BY <1>6 DEF Write, Forget
<1>7. CASE SyncTurn \/ Boundary \/ Tick
  BY <1>7 DEF SyncTurn, Boundary, Tick
<1>8. CASE RebuildClear \/ RebuildIndex \/ Shutdown
  BY <1>8 DEF RebuildClear, RebuildIndex, Shutdown, files
<1>9. CASE Exit \/ Kill
  BY <1>9 DEF Exit, Kill, Over, files
<1>10. CASE CliApply
  BY <1>10 DEF CliApply, Moved
<1>11. CASE UNCHANGED vars
  BY <1>11 DEF vars
<1>12. QED
  BY <1>1, <1>2, <1>3, <1>4, <1>5, <1>6, <1>7, <1>8, <1>9, <1>10, <1>11 DEF Next

(* A search finds what the session started with in the microfiles, and     *)
(* what it has moved there from MEMORY.md after it was mirrored.           *)
THEOREM ColdSearchableAlways == Spec => []ColdSearchable
<1>1. Init => SearchInv
  BY DEF Init, SearchInv, ColdSearchable, OnDisk
<1>2. TypeInv /\ SearchInv /\ [Next]_vars => SearchInv'
  BY SearchStep DEF TypeInv
<1>3. SearchInv => ColdSearchable
  BY DEF SearchInv
<1>4. QED
  BY <1>1, <1>2, <1>3, TypeInvariant, PTL DEF Spec
===============================================================================
