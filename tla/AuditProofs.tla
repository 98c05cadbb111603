------------------------------ MODULE AuditProofs ------------------------------
(***************************************************************************)
(* For every finite set of processes and every legacy file: the audit log  *)
(* has all of the legacy lines or none of them, at most one copy of them   *)
(* per process, and gets them before or with its first event while no      *)
(* event is given up.                                                      *)
(***************************************************************************)
EXTENDS AuditStore, FiniteSetTheorems, TLAPS

(* A legacy line is not an event.                                          *)
LEMMA RowsDiffer == Line \cap Event = {}
  BY DEF Line, Event

(* The locals of a process that records nothing are locals.                *)
LEMMA NoLocalType == NoLocal \in Local
<1>1. <<"event", 1>> \in Event
  BY AuditBounds DEF Event
<1>2. 1 \in 1..(Len(Legacy) + 1)
  BY LegacyAssumption
<1>3. QED
  BY <1>1, <1>2 DEF NoLocal, Local

-------------------------------------------------------------------------------
(* The types hold at first ...                                             *)
LEMMA TypeInit == Init => TypeOK
<1> USE AuditBounds DEF TypeOK
<1> SUFFICES ASSUME Init PROVE TypeOK
  OBVIOUS
<1>1. loc \in [Proc -> Local]
  BY NoLocalType, Zenon DEF Init
<1>2. rows \in [Row -> Nat]
  BY DEF Init
<1>3. pc \in [Proc -> PC] /\ emitted \in 0..MaxEvents /\ faults \in 0..MaxFaults
  BY DEF Init, PC
<1>4. QED
  BY <1>1, <1>2, <1>3, Zenon DEF Init

(* ... and every step keeps them.                                          *)
LEMMA TypeStep == TypeOK /\ [Next]_vars => TypeOK'
<1> USE LegacyAssumption, AuditBounds DEF TypeOK
<1> SUFFICES ASSUME TypeOK, [Next]_vars PROVE TypeOK'
  OBVIOUS
<1>1. ASSUME NEW p \in Proc, Emit(p) PROVE TypeOK'
  <2>1. <<"event", emitted + 1>> \in Event /\ emitted + 1 \in 0..MaxEvents
    BY <1>1 DEF Emit, Event
  <2>2. QED
    BY <1>1, <2>1 DEF Emit, Goto, Local, PC
<1>2. ASSUME NEW p \in Proc, Check(p) PROVE TypeOK'
  BY <1>2 DEF Check, Goto, Local, PC
<1>3. ASSUME NEW p \in Proc, Create(p) PROVE TypeOK'
  BY <1>3 DEF Create, Goto, PC
<1>4. ASSUME NEW p \in Proc, ImportLine(p) PROVE TypeOK'
  <2>1. loc[p].at \in Nat /\ loc[p].at + 1 \in 1..(Len(Legacy) + 1)
    BY <1>4 DEF ImportLine, Local
  <2>2. ASSUME Legacy[loc[p].at] = "good" PROVE <<"legacy", loc[p].at>> \in Line
    <3>1. loc[p].at \in {j \in DOMAIN Legacy : Legacy[j] = "good"}
      BY <2>1, <2>2, <1>4 DEF ImportLine, Local
    <3>2. QED
      BY <3>1 DEF Line
  <2>3. loc' \in [Proc -> Local]
    <3>1. CASE Legacy[loc[p].at] = "good" /\ InsertRow(p, <<"legacy", loc[p].at>>)
      BY <3>1, <2>1, <2>2 DEF InsertRow, Local, Row
    <3>2. CASE loc' = [loc EXCEPT ![p].at = @ + 1]
      BY <3>2, <2>1 DEF Local
    <3>3. QED
      BY <1>4, <3>1, <3>2 DEF ImportLine
  <2>4. QED
    BY <1>4, <2>3 DEF ImportLine, InsertRow
<1>5. ASSUME NEW p \in Proc, ImportDone(p) PROVE TypeOK'
  BY <1>5 DEF ImportDone, Goto, PC
<1>6. ASSUME NEW p \in Proc, Insert(p) PROVE TypeOK'
  <2>1. loc[p].event \in Row /\ loc[p].event \notin Line
    BY RowsDiffer DEF Local, Row
  <2>2. QED
    BY <1>6, <2>1, ZenonT(40) DEF Insert, InsertRow, Goto, PC, Local
<1>7. ASSUME NEW p \in Proc, Commit(p) PROVE TypeOK'
  BY <1>7, NoLocalType DEF Commit, Close, Goto, PC
<1>8. ASSUME NEW p \in Proc, Timeout(p) PROVE TypeOK'
  BY <1>8, NoLocalType DEF Timeout, Close, Goto, PC
<1>9. ASSUME NEW p \in Proc, Fault(p) PROVE TypeOK'
  BY <1>9, NoLocalType DEF Fault, Close, Goto, PC
<1>10. CASE UNCHANGED vars
  BY <1>10 DEF vars
<1>11. QED
  BY <1>1, <1>2, <1>3, <1>4, <1>5, <1>6, <1>7, <1>8, <1>9, <1>10 DEF Next

(* Every row, every local and the writer have the type TypeOK says.        *)
THEOREM TypeCorrect == Spec => []TypeOK
  BY TypeInit, TypeStep, PTL DEF Spec

-------------------------------------------------------------------------------
(* What is in an open transaction: the good lines up to the one reached,   *)
(* of a process that found no table and has not finished its import, all   *)
(* of them once it has, and none in any other process.                     *)
Imported(p) == {<<"legacy", j>> : j \in {k \in DOMAIN Legacy : Legacy[k] = "good" /\ k < loc[p].at}}

PendingInv ==
    \A p \in Proc :
        /\ loc[p].pending \cap Line = Imported(p)
        /\ ~loc[p].created => loc[p].at = 1
        /\ (loc[p].created /\ pc[p] \in {"insert", "commit"}) => loc[p].at = Len(Legacy) + 1
        /\ pc[p] \in {"idle", "check", "create"} => loc[p].at = 1
        /\ pc[p] = "import" => loc[p].created

(* The transaction that commits has the whole legacy file or none of it.   *)
LEMMA CommitsWhole ==
    ASSUME TypeOK, PendingInv, NEW p \in Proc, pc[p] = "commit"
    PROVE  loc[p].pending \cap Line = IF loc[p].created THEN Line ELSE {}
<1>1. CASE loc[p].created
  <2>1. loc[p].at = Len(Legacy) + 1
    BY <1>1 DEF PendingInv
  <2>2. \A k \in DOMAIN Legacy : k < loc[p].at
    BY <2>1, LegacyAssumption
  <2>3. {k \in DOMAIN Legacy : Legacy[k] = "good" /\ k < loc[p].at} = {k \in DOMAIN Legacy : Legacy[k] = "good"}
    BY <2>2
  <2>4. Imported(p) = Line
    BY <2>3, Zenon DEF Imported, Line
  <2>5. QED
    BY <1>1, <2>4 DEF PendingInv
<1>2. CASE ~loc[p].created
  <2>1. loc[p].at = 1
    BY <1>2 DEF PendingInv
  <2>2. {k \in DOMAIN Legacy : Legacy[k] = "good" /\ k < loc[p].at} = {}
    BY <2>1, LegacyAssumption
  <2>3. Imported(p) = {}
    BY <2>2, Zenon DEF Imported
  <2>4. QED
    BY <1>2, <2>3 DEF PendingInv
<1>3. QED
  BY <1>1, <1>2

(* A transaction gathers the legacy lines in order.                        *)
LEMMA PendingStep == TypeOK /\ PendingInv /\ [Next]_vars => PendingInv'
<1> USE LegacyAssumption DEF PendingInv, Imported
<1> SUFFICES ASSUME TypeOK, PendingInv, [Next]_vars PROVE PendingInv'
  OBVIOUS
<1>0. loc \in [Proc -> Local] /\ pc \in [Proc -> PC]
  BY DEF TypeOK
<1>a. {<<"legacy", j>> : j \in {k \in DOMAIN Legacy : Legacy[k] = "good" /\ k < 1}} = {}
  BY Zenon, SMT
<1>1. ASSUME NEW p \in Proc, Emit(p) PROVE PendingInv'
  BY <1>0, <1>1 DEF Emit, Goto, Local
<1>2. ASSUME NEW p \in Proc, Check(p) PROVE PendingInv'
  BY <1>0, <1>2 DEF Check, Goto, Local
<1>3. ASSUME NEW p \in Proc, Create(p) PROVE PendingInv'
  BY <1>0, <1>3 DEF Create, Goto
<1>4. ASSUME NEW p \in Proc, ImportLine(p) PROVE PendingInv'
  <2> DEFINE i == loc[p].at
             Upto(n) == {<<"legacy", j>> : j \in {k \in DOMAIN Legacy : Legacy[k] = "good" /\ k < n}}
  <2>1. i \in DOMAIN Legacy /\ i \in Nat
    BY <1>0, <1>4 DEF ImportLine, Local
  <2>2. loc[p].pending \cap Line = Upto(i) /\ loc[p].created /\ pc[p] = "import"
    BY <1>4 DEF ImportLine
  <2>3. /\ loc' \in [Proc -> [event : Event, created : BOOLEAN, at : Nat, pending : SUBSET Row]]
        /\ \A q \in Proc : q # p => loc'[q] = loc[q]
        /\ loc'[p].created = loc[p].created /\ loc'[p].at = i + 1
        /\ loc'[p].pending \cap Line = Upto(i + 1)
    <3>1. CASE Legacy[i] = "good" /\ InsertRow(p, <<"legacy", i>>)
      <4>1. <<"legacy", i>> \in Line /\ <<"legacy", i>> \in Row
        <5>1. i \in {j \in DOMAIN Legacy : Legacy[j] = "good"}
          BY <2>1, <3>1
        <5>2. QED
          BY <5>1 DEF Line, Row
      <4>2. {k \in DOMAIN Legacy : Legacy[k] = "good" /\ k < i + 1} =
              {k \in DOMAIN Legacy : Legacy[k] = "good" /\ k < i} \cup {i}
        BY <2>1, <3>1
      <4>3. Upto(i + 1) = Upto(i) \cup {<<"legacy", i>>}
        BY <4>2, Zenon
      <4>4. /\ \A q \in Proc : q # p => loc'[q] = loc[q]
            /\ loc'[p] = [event |-> loc[p].event, created |-> loc[p].created,
                          at |-> i + 1, pending |-> loc[p].pending \cup {<<"legacy", i>>}]
        BY <1>0, <3>1, <4>1 DEF InsertRow, Local
      <4>5. loc' \in [Proc -> [event : Event, created : BOOLEAN, at : Nat, pending : SUBSET Row]]
        BY <1>0, <2>1, <3>1, <4>1 DEF InsertRow, Local
      <4>6. QED
        BY <4>1, <4>3, <4>4, <4>5, <2>2
    <3>2. CASE Legacy[i] = "noise" /\ loc' = [loc EXCEPT ![p].at = @ + 1]
      <4>2. {k \in DOMAIN Legacy : Legacy[k] = "good" /\ k < i + 1} =
              {k \in DOMAIN Legacy : Legacy[k] = "good" /\ k < i}
        BY <2>1, <3>2
      <4>3. Upto(i + 1) = Upto(i)
        BY <4>2, Zenon
      <4>4. /\ \A q \in Proc : q # p => loc'[q] = loc[q]
            /\ loc'[p] = [event |-> loc[p].event, created |-> loc[p].created,
                          at |-> i + 1, pending |-> loc[p].pending]
            /\ loc' \in [Proc -> [event : Event, created : BOOLEAN, at : Nat, pending : SUBSET Row]]
        BY <1>0, <2>1, <3>2 DEF Local
      <4>5. QED
        BY <4>3, <4>4, <2>2
    <3>3. QED
      BY <1>4, <3>1, <3>2 DEF ImportLine
  <2>4. pc' = pc
    BY <1>4 DEF ImportLine
  <2> HIDE DEF i
  <2>5. ASSUME NEW q \in Proc PROVE
        /\ loc'[q].pending \cap Line = Upto(loc'[q].at)
        /\ ~loc'[q].created => loc'[q].at = 1
        /\ (loc'[q].created /\ pc[q] \in {"insert", "commit"}) => loc'[q].at = Len(Legacy) + 1
        /\ pc[q] \in {"idle", "check", "create"} => loc'[q].at = 1
        /\ pc[q] = "import" => loc'[q].created
    <3>1. CASE q = p
      BY <2>2, <2>3, <3>1
    <3>2. CASE q # p
      BY <2>3, <3>2
    <3>3. QED
      BY <3>1, <3>2
  <2>6. QED
    BY <2>4, <2>5
<1>6. ASSUME NEW p \in Proc, ImportDone(p) PROVE PendingInv'
  BY <1>0, <1>6 DEF ImportDone, Goto, Local
<1>7. ASSUME NEW p \in Proc, Insert(p) PROVE PendingInv'
  <2>1. loc[p].event \notin Line /\ loc[p].event \in Row
    BY <1>0, RowsDiffer DEF Local, Row
  <2>2. /\ loc' = [loc EXCEPT ![p].pending = @ \cup {loc[p].event}]
        /\ pc' = [pc EXCEPT ![p] = "commit"] /\ pc[p] = "insert"
    BY <1>0, <1>7, <2>1 DEF Insert, InsertRow, Goto, Local
  <2>3. QED
    BY <1>0, <2>1, <2>2 DEF Local
<1>b. ASSUME NEW p \in Proc, Close(p) PROVE PendingInv'
  BY <1>0, <1>a, <1>b DEF Close, Goto, NoLocal
<1>11. CASE UNCHANGED vars
  BY <1>11 DEF vars
<1>12. QED
  BY <1>1, <1>2, <1>3, <1>4, <1>6, <1>7, <1>b, <1>11
     DEF Next, Commit, Timeout, Fault

-------------------------------------------------------------------------------
(* When the table is there, and who found it missing.                      *)
StoreInv ==
    /\ \A p \in Proc :
         /\ pc[p] \in {"import", "insert", "commit"} => table
         /\ pc[p] = "create" => (loc[p].created \/ table)
         /\ pc[p] \in {"idle", "check"} => ~loc[p].created
    /\ ~table => \A r \in Row : rows[r] = 0

AuditInv == TypeOK /\ PendingInv /\ StoreInv

(* Only Check changes who has found the table missing, and only for want   *)
(* of one; a transaction that ends, ends it for its process.               *)
LEMMA CreatedStep ==
    ASSUME AuditInv, NEW p \in Proc,
           \/ Emit(p) \/ Create(p) \/ ImportLine(p) \/ ImportDone(p) \/ Insert(p)
    PROVE  \A q \in Proc : loc'[q].created = loc[q].created
<1>1. loc \in [Proc -> Local]
  BY DEF AuditInv, TypeOK
<1>2. QED
  BY <1>1 DEF Emit, Create, ImportLine, ImportDone, Insert, InsertRow, Local

LEMMA StoreStep == AuditInv /\ [Next]_vars => StoreInv'
<1> SUFFICES ASSUME AuditInv, [Next]_vars PROVE StoreInv'
  OBVIOUS
<1>0. /\ loc \in [Proc -> Local] /\ pc \in [Proc -> PC] /\ rows \in [Row -> Nat]
      /\ table \in BOOLEAN
  BY DEF AuditInv, TypeOK
<1> USE DEF StoreInv, AuditInv
<1>1. ASSUME NEW p \in Proc, Emit(p) PROVE StoreInv'
  BY <1>0, <1>1, CreatedStep DEF Emit, Goto
<1>2. ASSUME NEW p \in Proc, Check(p) PROVE StoreInv'
  BY <1>0, <1>2 DEF Check, Goto, Local
<1>3. ASSUME NEW p \in Proc, Create(p) PROVE StoreInv'
  BY <1>0, <1>3 DEF Create, Goto
<1>4. ASSUME NEW p \in Proc, ImportLine(p) PROVE StoreInv'
  BY <1>0, <1>4, CreatedStep DEF ImportLine
<1>6. ASSUME NEW p \in Proc, ImportDone(p) PROVE StoreInv'
  BY <1>0, <1>6 DEF ImportDone, Goto
<1>7. ASSUME NEW p \in Proc, Insert(p) PROVE StoreInv'
  BY <1>0, <1>7, CreatedStep DEF Insert, Goto
<1>8. ASSUME NEW p \in Proc, Commit(p) PROVE StoreInv'
  BY <1>0, <1>8 DEF Commit, Close, Goto, NoLocal
<1>9. ASSUME NEW p \in Proc, Close(p), UNCHANGED <<table, rows>> PROVE StoreInv'
  BY <1>0, <1>9 DEF Close, Goto, NoLocal
<1>11. CASE UNCHANGED vars
  BY <1>11 DEF vars
<1>12. QED
  BY <1>1, <1>2, <1>3, <1>4, <1>6, <1>7, <1>8, <1>9, <1>11
     DEF Next, Timeout, Fault

LEMMA AuditInit == Init => AuditInv
<1> SUFFICES ASSUME Init PROVE AuditInv
  OBVIOUS
<1>1. TypeOK
  BY TypeInit
<1>2. \A p \in Proc : loc[p] = NoLocal /\ pc[p] = "idle"
  BY DEF Init
<1>3. {k \in DOMAIN Legacy : Legacy[k] = "good" /\ k < 1} = {}
  BY LegacyAssumption
<1>4. \A p \in Proc : Imported(p) = {} /\ loc[p].pending = {}
  BY <1>2, <1>3 DEF Imported, NoLocal
<1>5. PendingInv
  BY <1>2, <1>4 DEF PendingInv, NoLocal
<1>6. StoreInv
  BY <1>2 DEF StoreInv, Init, NoLocal
<1>7. QED
  BY <1>1, <1>5, <1>6 DEF AuditInv

LEMMA AuditInvariant == Spec => []AuditInv
<1>1. AuditInv /\ [Next]_vars => AuditInv'
  BY TypeStep, PendingStep, StoreStep DEF AuditInv
<1>2. QED
  BY AuditInit, <1>1, PTL DEF Spec

-------------------------------------------------------------------------------
(* A commit adds one copy of each legacy line, or none of any.             *)
LEMMA CommitRows ==
    ASSUME AuditInv, NEW p \in Proc, Commit(p)
    PROVE  \A l \in Line : rows'[l] = rows[l] + IF loc[p].created THEN 1 ELSE 0
<1>1. loc[p].pending \cap Line = IF loc[p].created THEN Line ELSE {}
  BY CommitsWhole DEF AuditInv, Commit
<1>2. \A l \in Line : l \in loc[p].pending <=> loc[p].created
  BY <1>1
<1>3. \A l \in Line : rows'[l] = rows[l] + IF l \in loc[p].pending THEN 1 ELSE 0
  BY DEF Commit, Row
<1>4. QED
  BY <1>2, <1>3

(* All or nothing: no reader finds a part of the legacy file, wherever an  *)
(* import was killed, failed or ran beside another one.                    *)
THEOREM ImportWholeAlways == Spec => []ImportWhole
<1>1. Init => ImportWhole
  BY DEF Init, ImportWhole, Row
<1>2. AuditInv /\ ImportWhole /\ [Next]_vars => ImportWhole'
  <2> SUFFICES ASSUME AuditInv, ImportWhole, [Next]_vars, NEW l \in Line, NEW m \in Line
               PROVE  rows'[l] = rows'[m]
    BY DEF ImportWhole
  <2>1. ASSUME NEW p \in Proc, Commit(p) PROVE rows'[l] = rows'[m]
    BY <2>1, CommitRows DEF ImportWhole
  <2>2. CASE rows' = rows
    BY <2>2 DEF ImportWhole
  <2>3. QED
    BY <2>1, <2>2 DEF Next, vars, Emit, Check, Create, ImportLine, ImportDone,
                      Insert, Timeout, Fault
<1>3. QED
  BY <1>1, <1>2, AuditInvariant, PTL DEF Spec

-------------------------------------------------------------------------------
(* While no event was given up, whoever found the table missing is still   *)
(* at its import or has committed it.                                      *)
FollowInv ==
    (~dropped /\ table) =>
        \/ \A l \in Line : rows[l] > 0
        \/ \E p \in Proc : loc[p].created

LEMMA FollowStep == AuditInv /\ FollowInv /\ [Next]_vars => FollowInv'
<1> SUFFICES ASSUME AuditInv, FollowInv, [Next]_vars, ~dropped', table' PROVE FollowInv'
  BY DEF FollowInv
<1>0. /\ loc \in [Proc -> Local] /\ rows \in [Row -> Nat] /\ table \in BOOLEAN
      /\ \A l \in Line : rows[l] \in Nat
  BY DEF AuditInv, TypeOK, Row
<1>1. ASSUME NEW p \in Proc, \/ Emit(p) \/ ImportLine(p) \/ ImportDone(p) \/ Insert(p)
      PROVE  FollowInv'
  <2>1. \A q \in Proc : loc'[q].created = loc[q].created
    BY <1>1, CreatedStep
  <2>2. rows' = rows /\ table' = table /\ dropped' = dropped
    BY <1>1 DEF Emit, ImportLine, ImportDone, Insert
  <2>3. QED
    BY <2>1, <2>2 DEF FollowInv
<1>2. ASSUME NEW p \in Proc, Check(p) PROVE FollowInv'
  <2>1. table = TRUE /\ ~dropped /\ ~loc[p].created /\ rows' = rows
    BY <1>0, <1>2 DEF Check, AuditInv, StoreInv
  <2>2. \A q \in Proc : loc'[q].created = loc[q].created
    BY <1>0, <1>2, <2>1 DEF Check, Local
  <2>3. QED
    BY <2>1, <2>2 DEF FollowInv
<1>3. ASSUME NEW p \in Proc, Create(p) PROVE FollowInv'
  BY <1>3 DEF Create, FollowInv, AuditInv, StoreInv
<1>4. ASSUME NEW p \in Proc, Commit(p) PROVE FollowInv'
  <2>1. /\ table /\ ~dropped /\ \A q \in Proc \ {p} : loc'[q].created = loc[q].created
    BY <1>0, <1>4 DEF Commit, Close
  <2>2. CASE loc[p].created
    <3>1. \A l \in Line : rows'[l] = rows[l] + 1
      BY <1>4, <2>2, CommitRows
    <3>2. QED
      BY <1>0, <3>1 DEF FollowInv
  <2>3. CASE ~loc[p].created
    <3>1. \A l \in Line : rows[l] > 0 => rows'[l] > 0
      BY <1>0, <1>4 DEF Commit, Row
    <3>2. QED
      BY <2>1, <2>3, <3>1 DEF FollowInv
  <2>4. QED
    BY <2>2, <2>3
<1>5. ASSUME NEW p \in Proc, Timeout(p) \/ Fault(p) PROVE FALSE
  BY <1>5 DEF Timeout, Fault
<1>6. CASE UNCHANGED vars
  BY <1>6 DEF vars, FollowInv
<1>7. QED
  BY <1>1, <1>2, <1>3, <1>4, <1>5, <1>6 DEF Next

(* History comes before or with the first event, as long as no event was   *)
(* given up.                                                               *)
THEOREM HistoryFollowsAlways == Spec => []HistoryFollows
<1>1. Init => FollowInv
  BY DEF Init, FollowInv
<1>2. AuditInv /\ FollowInv => HistoryFollows
  <2> SUFFICES ASSUME AuditInv, FollowInv, ~dropped, NEW e \in Event, rows[e] > 0
               PROVE  (\A l \in Line : rows[l] > 0) \/ (\E p \in Proc : loc[p].created)
    BY DEF HistoryFollows
  <2>1. table
    BY DEF AuditInv, StoreInv, Row
  <2>2. QED
    BY <2>1 DEF FollowInv
<1>3. QED
  BY <1>1, <1>2, FollowStep, AuditInvariant, PTL DEF Spec

-------------------------------------------------------------------------------
(* Whoever found the table missing has at most one copy of the history to  *)
(* add, and once the table is there nobody joins them.                     *)
Finders == {p \in Proc : loc[p].created}

CopiesInv ==
    table => \A l \in Line : rows[l] + Cardinality(Finders) <= Cardinality(Proc)

LEMMA FindersFinite ==
    /\ IsFiniteSet(Finders)
    /\ Cardinality(Finders) \in Nat /\ Cardinality(Proc) \in Nat
    /\ Cardinality(Finders) <= Cardinality(Proc)
<1>1. Finders \in SUBSET Proc
  BY DEF Finders
<1>2. QED
  BY <1>1, ProcAssumption, FS_Subset, FS_CardinalityType

LEMMA CopiesStep == AuditInv /\ CopiesInv /\ [Next]_vars => CopiesInv'
<1> SUFFICES ASSUME AuditInv, CopiesInv, [Next]_vars, table', NEW l \in Line
             PROVE  rows'[l] + Cardinality(Finders') <= Cardinality(Proc)
  BY DEF CopiesInv
<1>0. /\ loc \in [Proc -> Local] /\ table \in BOOLEAN /\ l \in Row /\ rows[l] \in Nat
  BY DEF AuditInv, TypeOK, Row
<1>a. table => rows[l] + Cardinality(Finders) <= Cardinality(Proc)
  BY DEF CopiesInv
<1>1. ASSUME NEW p \in Proc, \/ Emit(p) \/ ImportLine(p) \/ ImportDone(p) \/ Insert(p)
      PROVE  rows'[l] + Cardinality(Finders') <= Cardinality(Proc)
  <2>1. Finders' = Finders
    BY <1>1, CreatedStep DEF Finders
  <2>2. rows' = rows /\ table' = table
    BY <1>1 DEF Emit, ImportLine, ImportDone, Insert
  <2>3. QED
    BY <1>a, <2>1, <2>2
<1>2. ASSUME NEW p \in Proc, Check(p)
      PROVE  rows'[l] + Cardinality(Finders') <= Cardinality(Proc)
  <2>1. table = TRUE /\ ~loc[p].created /\ rows' = rows
    BY <1>0, <1>2 DEF Check, AuditInv, StoreInv
  <2>2. \A q \in Proc : loc'[q].created = loc[q].created
    BY <1>0, <1>2, <2>1 DEF Check, Local
  <2>3. Finders' = Finders
    BY <2>2 DEF Finders
  <2>4. QED
    BY <1>a, <2>1, <2>3
<1>3. ASSUME NEW p \in Proc, Create(p)
      PROVE  rows'[l] + Cardinality(Finders') <= Cardinality(Proc)
  <2>1. Finders' = Finders /\ rows' = rows
    BY <1>3 DEF Create, Finders
  <2>2. ~table => rows[l] = 0
    BY <1>0 DEF AuditInv, StoreInv
  <2>3. QED
    BY <1>0, <1>a, <2>1, <2>2, FindersFinite
<1>4. ASSUME NEW p \in Proc, Close(p)
      PROVE  Cardinality(Finders') = Cardinality(Finders) - IF loc[p].created THEN 1 ELSE 0
  <2>1. Finders' = Finders \ {p}
    BY <1>0, <1>4 DEF Close, Finders, NoLocal
  <2>2. p \in Finders <=> loc[p].created
    BY DEF Finders
  <2>3. Cardinality(Finders \ {p}) =
          IF p \in Finders THEN Cardinality(Finders) - 1 ELSE Cardinality(Finders)
    BY FS_RemoveElement, FindersFinite
  <2>4. QED
    BY <2>1, <2>2, <2>3, FindersFinite
<1>5. ASSUME NEW p \in Proc, Commit(p)
      PROVE  rows'[l] + Cardinality(Finders') <= Cardinality(Proc)
  <2>1. rows'[l] = rows[l] + IF loc[p].created THEN 1 ELSE 0
    BY <1>5, CommitRows
  <2>2. table /\ Close(p)
    BY <1>5 DEF Commit
  <2>3. QED
    BY <1>0, <1>4, <1>a, <2>1, <2>2, FindersFinite
<1>6. ASSUME NEW p \in Proc, Timeout(p) \/ Fault(p)
      PROVE  rows'[l] + Cardinality(Finders') <= Cardinality(Proc)
  <2>1. Close(p) /\ rows' = rows /\ table' = table
    BY <1>6 DEF Timeout, Fault
  <2>2. QED
    BY <1>0, <1>4, <1>a, <2>1, FindersFinite
<1>7. CASE UNCHANGED vars
  BY <1>7, <1>a DEF vars, Finders
<1>8. QED
  BY <1>1, <1>2, <1>3, <1>5, <1>6, <1>7 DEF Next

(* Never more than one copy of the history per process.                    *)
THEOREM CopiesBoundedAlways == Spec => []CopiesBounded
<1>1. Init => CopiesInv
  BY DEF Init, CopiesInv
<1>2. AuditInv /\ CopiesInv => CopiesBounded
  <2> SUFFICES ASSUME AuditInv, CopiesInv, NEW l \in Line
               PROVE  rows[l] <= Cardinality(Proc)
    BY DEF CopiesBounded
  <2>1. l \in Row /\ rows[l] \in Nat /\ table \in BOOLEAN
    BY DEF AuditInv, TypeOK, Row
  <2>2. CASE table
    BY <2>1, <2>2, FindersFinite DEF CopiesInv
  <2>3. CASE ~table
    BY <2>1, <2>3, FindersFinite DEF AuditInv, StoreInv
  <2>4. QED
    BY <2>2, <2>3
<1>3. QED
  BY <1>1, <1>2, CopiesStep, AuditInvariant, PTL DEF Spec

===============================================================================
