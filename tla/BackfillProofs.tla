---------------------------- MODULE BackfillProofs ----------------------------
(***************************************************************************)
(* For every set of processes, every history, batch size and number of     *)
(* restarts: the backfill's types and the soundness of resuming from the   *)
(* durable cursor.  TypeOK is inductive; ResumeSound is not, and is proved *)
(* from CursorInv, which adds what each thread carries in its locals and   *)
(* what holds while a rebuild has the index cleared.                       *)
(***************************************************************************)
EXTENDS Backfill, TLAPS

(* Threads are pairs, and the two threads of a process differ.             *)
LEMMA ThreadFacts ==
    /\ \A p \in Proc : main(p) \in Thread /\ bg(p) \in Thread /\ main(p) # bg(p)
    /\ \A p, q \in Proc : main(p) = main(q) => p = q
    /\ \A p, q \in Proc : main(p) # bg(q)
BY DEF Thread, main, bg

LEMMA LocalFacts == NoLocal \in Local /\ Unread \in Marker /\ Fresh \in Marker
BY DEF NoLocal, Local, Unread, Fresh, Marker

(* Where a thread may go on after a write.                                 *)
Return == {"off", "files", "up", "rfiles", "read"}

(* A write of a well-formed marker that points inside the history keeps    *)
(* the types of the control state and of the locals.                       *)
LEMMA StartWriteType ==
    ASSUME TypeOK, NEW t \in Thread, NEW m \in Marker, NEW l \in Return,
           m.cursor <= rows, StartWrite(t, m, l), rows' = rows
    PROVE  /\ pc' \in [Thread -> PC]
           /\ loc' \in [Thread -> Local]
           /\ LocalsInHistory'
<1>1. pc' \in [Thread -> PC]
  BY DEF StartWrite, Goto, TypeOK, PC
<1>2. loc' \in [Thread -> Local]
  BY DEF StartWrite, TypeOK, Local, Return
<1>3. LocalsInHistory'
  <2> SUFFICES ASSUME NEW u \in Thread
               PROVE  /\ loc'[u].st.cursor <= rows
                      /\ loc'[u].upto <= rows
                      /\ pc'[u] = "index" => loc'[u].at >= 1
    BY DEF LocalsInHistory
  <2>1. QED
    BY DEF StartWrite, Goto, TypeOK, LocalsInHistory, Local
<1>4. QED
  BY <1>1, <1>2, <1>3

LEMMA MainStepType ==
    ASSUME TypeOK, NEW p \in Proc, MainStep(p)
    PROVE  TypeOK'
<1>1. main(p) \in Thread /\ bg(p) \in Thread
  BY ThreadFacts
<1>2. CASE Boot(p)
  <2>1. CASE marker.ver = 1
    BY <1>1, <1>2, <2>1 DEF Boot, Goto, TypeOK, PC, LocalsInHistory
  <2>2. CASE marker.ver # 1
    <3>1. Fresh \in Marker /\ Fresh.cursor <= rows /\ "files" \in Return
      BY LocalFacts, RowsAssumption DEF Fresh, TypeOK, Return
    <3>2. StartWrite(main(p), Fresh, "files")
      BY <1>2, <2>2 DEF Boot
    <3>3. UNCHANGED <<marker, docs, rows, starts, rebuilds, synced, disturbed>>
      BY <1>2 DEF Boot
    <3>4. QED
      BY <1>1, <3>1, <3>2, <3>3, StartWriteType DEF TypeOK
  <2>3. QED
    BY <2>1, <2>2
<1>3. CASE IndexFiles(p)
  BY <1>1, <1>3 DEF IndexFiles, Index, Goto, TypeOK, PC, Doc, LocalsInHistory
<1>4. CASE Spawn(p)
  BY <1>1, <1>4 DEF Spawn, TypeOK, PC, LocalsInHistory
<1>5. CASE MarkComplete(p)
  <2>1. [marker EXCEPT !.complete = TRUE] \in Marker
    BY DEF TypeOK, Marker
  <2>2. [marker EXCEPT !.complete = TRUE].cursor <= rows
    BY DEF TypeOK, Marker
  <2>3. "up" \in Return
    BY DEF Return
  <2>4. QED
    BY <1>1, <1>5, <2>1, <2>2, <2>3, StartWriteType DEF MarkComplete, TypeOK
<1>6. CASE ResetCursor(p)
  <2>1. [marker EXCEPT !.cursor = 0, !.complete = FALSE] \in Marker
    BY DEF TypeOK, Marker
  <2>2. [marker EXCEPT !.cursor = 0, !.complete = FALSE].cursor <= rows
    BY RowsAssumption DEF TypeOK, Marker
  <2>3. "rfiles" \in Return
    BY DEF Return
  <2>4. QED
    BY <1>1, <1>6, <2>1, <2>2, <2>3, StartWriteType DEF ResetCursor, TypeOK
<1>7. QED
  BY <1>2, <1>3, <1>4, <1>5, <1>6 DEF MainStep

LEMMA ThreadStepType ==
    ASSUME TypeOK, NEW t \in Thread, ThreadStep(t) \/ WorkerRaises(t)
    PROVE  TypeOK'
<1>1. CASE Truncate(t)
  BY <1>1, LocalFacts, RowsAssumption DEF Truncate, Goto, TypeOK, PC, Unread, LocalsInHistory
<1>2. CASE Write(t)
  <2>1. marker' \in Marker /\ marker'.cursor <= rows
    BY <1>2 DEF Write, TypeOK, LocalsInHistory, Local
  <2>2. pc' \in [Thread -> PC] /\ pc'[t] # "index"
    BY <1>2 DEF Write, Goto, TypeOK, Local, PC
  <2>3. loc' \in [Thread -> Local]
    BY <1>2, LocalFacts DEF Write, TypeOK
  <2>4. LocalsInHistory'
    BY <1>2, <2>2, RowsAssumption DEF Write, Goto, TypeOK, NoLocal, Unread, LocalsInHistory
  <2>5. UNCHANGED <<docs, rows, starts, rebuilds, synced, disturbed>>
    BY <1>2 DEF Write
  <2>6. QED
    BY <2>1, <2>2, <2>3, <2>4, <2>5 DEF TypeOK
<1>3. CASE ReadState(t)
  BY <1>3 DEF ReadState, Goto, TypeOK, Local, PC, LocalsInHistory
<1>4. CASE Fetch(t)
  <2> DEFINE c == loc[t].st.cursor
             u == IF rows <= c THEN c ELSE IF c + Batch < rows THEN c + Batch ELSE rows
  <2>1. c \in Nat /\ rows \in Nat /\ c <= rows /\ u \in Nat /\ u <= rows
    BY RowsAssumption, BatchAssumption DEF TypeOK, LocalsInHistory, Local, Marker
  <2>2. loc' = [loc EXCEPT ![t].at = c + 1, ![t].upto = u]
    BY <1>4 DEF Fetch
  <2> HIDE DEF c, u
  <2>3. loc' \in [Thread -> Local]
    <3>1. loc[t] \in Local /\ c + 1 \in Nat
      BY <2>1 DEF TypeOK
    <3>2. [loc[t] EXCEPT !.at = c + 1, !.upto = u] \in Local
      BY <2>1, <3>1 DEF Local
    <3>3. loc' = [loc EXCEPT ![t] = [loc[t] EXCEPT !.at = c + 1, !.upto = u]]
      BY <2>2 DEF TypeOK, Local
    <3>4. QED
      BY <3>2, <3>3 DEF TypeOK
  <2>4. LocalsInHistory'
    BY <1>4, <2>1, <2>2 DEF Fetch, Goto, TypeOK, Local, LocalsInHistory
  <2>5. pc' \in [Thread -> PC]
    BY <1>4 DEF Fetch, Goto, TypeOK, PC
  <2>6. UNCHANGED <<marker, docs, rows, starts, rebuilds, synced, disturbed>>
    BY <1>4 DEF Fetch
  <2>7. QED
    BY <2>3, <2>4, <2>5, <2>6 DEF TypeOK
<1>5. CASE IndexRow(t)
  <2>1. Content[loc[t].at] \in Doc
    BY <1>5, RowsAssumption DEF IndexRow, TypeOK, Local, Doc, LocalsInHistory
  <2>2. QED
    BY <1>5, <2>1 DEF IndexRow, Index, TypeOK, Local, LocalsInHistory
<1>6. CASE EndBatch(t)
  <2> DEFINE more == loc[t].upto - loc[t].st.cursor >= Batch
             m == [loc[t].st EXCEPT !.cursor = loc[t].upto, !.complete = @ \/ ~more]
             l == IF more THEN "read" ELSE AfterWorker(t)
  <2>1. m \in Marker /\ m.cursor <= rows
    BY DEF TypeOK, Local, Marker, LocalsInHistory
  <2>2. l \in Return
    BY DEF Return, AfterWorker
  <2>3. StartWrite(t, m, l) /\ UNCHANGED <<marker, docs, rows, starts, rebuilds, synced, disturbed>>
    BY <1>6 DEF EndBatch
  <2> HIDE DEF m, l
  <2>4. QED
    BY <2>1, <2>2, <2>3, StartWriteType DEF TypeOK
<1>7. CASE ClosedUnderWorker(t)
  BY <1>7 DEF ClosedUnderWorker, Goto, TypeOK, PC, LocalsInHistory
<1>8. CASE WorkerRaises(t)
  BY <1>8 DEF WorkerRaises, Goto, TypeOK, PC, LocalsInHistory
<1>9. QED
  BY <1>1, <1>2, <1>3, <1>4, <1>5, <1>6, <1>7, <1>8 DEF ThreadStep

(* Type correctness (TypeOK): in particular no cursor, durable or carried  *)
(* by a worker, ever points past the history.                              *)
THEOREM TypeCorrect == Spec => []TypeOK
<1>1. Init => TypeOK
  <2> SUFFICES ASSUME Init PROVE TypeOK
    OBVIOUS
  <2>1. marker \in Marker /\ marker.cursor <= rows
    BY LocalFacts, RowsAssumption DEF Init, Unread
  <2>2. pc \in [Thread -> PC] /\ loc \in [Thread -> Local]
    BY LocalFacts DEF Init, PC
  <2>3. LocalsInHistory
    BY RowsAssumption DEF Init, NoLocal, Unread, LocalsInHistory
  <2>4. docs \subseteq Doc /\ Blank \notin docs
    BY DEF Init
  <2>5. rows \in OldRows..MaxRows
    BY RowsAssumption DEF Init
  <2>6. starts \in 0..MaxStarts /\ rebuilds \in 0..MaxRebuilds
    BY StartsAssumption DEF Init
  <2>7. synced \subseteq Turns /\ disturbed \in BOOLEAN
    BY DEF Init
  <2>8. QED
    BY <2>1, <2>2, <2>3, <2>4, <2>5, <2>6, <2>7 DEF TypeOK
<1>2. TypeOK /\ [Next]_vars => TypeOK'
  <2> SUFFICES ASSUME TypeOK, [Next]_vars PROVE TypeOK'
    OBVIOUS
  <2>1. ASSUME NEW p \in Proc, Initialize(p) PROVE TypeOK'
    BY <2>1, ThreadFacts, StartsAssumption DEF Initialize, Goto, TypeOK, PC, LocalsInHistory
  <2>2. ASSUME NEW p \in Proc, MainStep(p) PROVE TypeOK'
    BY <2>2, MainStepType
  <2>3. ASSUME NEW p \in Proc, SyncTurn(p) PROVE TypeOK'
    BY <2>3 DEF SyncTurn, Index, TypeOK, Doc, LocalsInHistory
  <2>4. ASSUME NEW p \in Proc, Clear(p) PROVE TypeOK'
    BY <2>4, ThreadFacts, StartsAssumption DEF Clear, Goto, TypeOK, PC, LocalsInHistory
  <2>5. ASSUME NEW p \in Proc, Shutdown(p) PROVE TypeOK'
    BY <2>5, ThreadFacts DEF Shutdown, Goto, TypeOK, PC, LocalsInHistory
  <2>6. ASSUME NEW p \in Proc, Exit(p) PROVE TypeOK'
    <3>1. pc' \in [Thread -> PC]
      BY <2>6, ThreadFacts DEF Exit, TypeOK, PC
    <3>2. loc' \in [Thread -> Local]
      BY <2>6, ThreadFacts, LocalFacts DEF Exit, TypeOK
    <3>3. LocalsInHistory'
      BY <2>6, ThreadFacts, RowsAssumption DEF Exit, TypeOK, NoLocal, Unread, LocalsInHistory
    <3>4. disturbed' \in BOOLEAN /\ UNCHANGED <<marker, docs, rows, starts, rebuilds, synced>>
      BY <2>6 DEF Exit, TypeOK
    <3>5. QED
      BY <3>1, <3>2, <3>3, <3>4 DEF TypeOK
  <2>7. ASSUME NEW t \in Thread, ThreadStep(t) \/ WorkerRaises(t) PROVE TypeOK'
    BY <2>7, ThreadStepType
  <2>8. CASE HistoryGrows
    BY <2>8, RowsAssumption DEF HistoryGrows, TypeOK, Local, Marker, LocalsInHistory
  <2>9. CASE UNCHANGED vars
    BY <2>9 DEF vars, TypeOK, LocalsInHistory
  <2>10. QED
    BY <2>1, <2>2, <2>3, <2>4, <2>5, <2>6, <2>7, <2>8, <2>9 DEF Next
<1>3. QED
  BY <1>1, <1>2, PTL DEF Spec

-------------------------------------------------------------------------------
(* Covering a prefix of the history is kept while the index only grows,    *)
(* and the empty prefix is always covered.                                 *)
LEMMA IndexGrows ==
    ASSUME NEW n \in Nat, docs \subseteq docs', IndexedUpTo(n)
    PROVE  IndexedUpTo(n)'
BY DEF IndexedUpTo, Indexed

LEMMA NothingToIndex == IndexedUpTo(0)
BY DEF IndexedUpTo

(* While an undisturbed rebuild is in its window, no thread but its own is *)
(* in the middle of anything.                                              *)
LEMMA WindowExcludes ==
    ASSUME WindowAlone, ~disturbed, NEW t \in Thread, Busy(t), NEW q \in Proc, Window(q)
    PROVE  t = main(q)
BY DEF WindowAlone

LEMMA WindowIsBusy ==
    ASSUME NEW p \in Proc, Window(p)
    PROVE  Busy(main(p))
BY DEF Window, Busy

(* A step that touches one thread, busy before, and opens no window of its *)
(* own keeps rebuilds alone in their windows.                              *)
LEMMA OneThreadStep ==
    ASSUME TypeOK, WindowAlone, NEW t \in Thread, Busy(t),
           NEW l \in PC, pc' = [pc EXCEPT ![t] = l],
           NEW k \in Local, loc' = [loc EXCEPT ![t] = k],
           disturbed' = disturbed,
           \A p \in Proc : (t = main(p) /\ Window(p)') => Window(p)
    PROVE  WindowAlone'
<1> SUFFICES ASSUME ~disturbed, NEW p \in Proc, NEW u \in Thread,
                    Window(p)', u # main(p)
             PROVE  ~Busy(u)'
  BY DEF WindowAlone
<1>1. CASE t = main(p)
  <2>1. Window(p)
    BY <1>1
  <2>2. ~Busy(u)
    BY <2>1 DEF WindowAlone
  <2>3. QED
    BY <1>1, <2>2 DEF Busy, TypeOK
<1>2. CASE t # main(p)
  <2>1. pc'[main(p)] = pc[main(p)] /\ loc'[main(p)] = loc[main(p)]
    BY <1>2, ThreadFacts DEF TypeOK
  <2>2. Window(p)
    BY <2>1 DEF Window
  <2>3. QED
    BY <1>2, <2>2 DEF WindowAlone
<1>3. QED
  BY <1>1, <1>2


(* The other steps leave the windows as they are, or mark the rebuild they *)
(* meet as disturbed.                                                      *)
LEMMA WindowAloneStep ==
    ASSUME TypeOK, WindowAlone, [Next]_vars
    PROVE  WindowAlone'
<1>1. ASSUME NEW p \in Proc, Initialize(p) PROVE WindowAlone'
  <2> SUFFICES ASSUME ~disturbed', NEW q \in Proc, Window(q)' PROVE FALSE
    BY DEF WindowAlone
  <2>1. ~Window(q)
    BY <1>1 DEF Initialize
  <2>2. QED
    BY <1>1, <2>1, ThreadFacts DEF Initialize, Goto, Window, TypeOK
<1>2. ASSUME NEW p \in Proc, MainStep(p) PROVE WindowAlone'
  <2> DEFINE t == main(p)
  <2>1. t \in Thread /\ Busy(t)
    BY <1>2, ThreadFacts
    DEF MainStep, Boot, IndexFiles, Spawn, MarkComplete, ResetCursor, Busy
  <2>2. \A q \in Proc : t = main(q) => q = p
    BY ThreadFacts
  <2>3. CASE Boot(p)
    <3>1. CASE marker.ver = 1
      BY <2>1, <2>2, <2>3, <3>1, OneThreadStep DEF Boot, Goto, PC, Window, TypeOK
    <3>2. CASE marker.ver # 1
      <4>1. pc' = [pc EXCEPT ![t] = "trunc"] /\ disturbed' = disturbed
        BY <2>3, <3>2 DEF Boot, StartWrite, Goto
      <4>2. loc' = [loc EXCEPT ![t] = [loc[t] EXCEPT !.st = Fresh, !.ret = "files"]]
        BY <2>3, <2>1, <3>2 DEF Boot, StartWrite, TypeOK
      <4>3. [loc[t] EXCEPT !.st = Fresh, !.ret = "files"] \in Local
        BY <2>1, LocalFacts DEF TypeOK, Local
      <4>4. ~Window(p)'
        BY <2>1, <4>1, <4>2 DEF Window, TypeOK, Local
      <4>5. QED
        BY <2>1, <2>2, <4>1, <4>2, <4>3, <4>4, OneThreadStep DEF PC
    <3>3. QED
      BY <3>1, <3>2
  <2>4. CASE IndexFiles(p)
    <3>1. PICK l \in {"mark", "spawn", "read"} : pc' = [pc EXCEPT ![t] = l]
      BY <2>4 DEF IndexFiles, Goto
    <3>2. loc[t] \in Local /\ loc' = [loc EXCEPT ![t] = loc[t]] /\ disturbed' = disturbed
      BY <2>1, <2>4 DEF IndexFiles, TypeOK
    <3>3. ~Window(p)' /\ l \in PC
      BY <2>1, <3>1 DEF Window, TypeOK, PC
    <3>4. QED
      BY <2>1, <2>2, <3>1, <3>2, <3>3, OneThreadStep
  <2>5. CASE Spawn(p)
    <3>1. ~Window(p) /\ pc[main(p)] = "spawn" /\ Busy(main(p))
      BY <2>5 DEF Spawn, Window, Busy
    <3>2. \A q \in Proc : Window(q)' => Window(q)
      BY <2>5, ThreadFacts DEF Spawn, Window, TypeOK
    <3>3. QED
      BY <3>1, <3>2, <2>5, ThreadFacts DEF WindowAlone, Spawn
  <2>6. CASE MarkComplete(p)
    <3> DEFINE m == [marker EXCEPT !.complete = TRUE]
    <3>1. pc' = [pc EXCEPT ![t] = "trunc"] /\ disturbed' = disturbed
      BY <2>6 DEF MarkComplete, StartWrite, Goto
    <3>2. loc' = [loc EXCEPT ![t] = [loc[t] EXCEPT !.st = m, !.ret = "up"]]
      BY <2>6, <2>1 DEF MarkComplete, StartWrite, TypeOK
    <3>3. m \in Marker
      BY DEF TypeOK, Marker
    <3> HIDE DEF m
    <3>4. [loc[t] EXCEPT !.st = m, !.ret = "up"] \in Local
      BY <2>1, <3>3 DEF TypeOK, Local
    <3>5. ~Window(p)'
      BY <2>1, <3>1, <3>2 DEF Window, TypeOK, Local
    <3>6. QED
      BY <2>1, <2>2, <3>1, <3>2, <3>4, <3>5, OneThreadStep DEF PC
  <2>7. CASE ResetCursor(p)
    <3> DEFINE m == [marker EXCEPT !.cursor = 0, !.complete = FALSE]
    <3>1. pc' = [pc EXCEPT ![t] = "trunc"] /\ disturbed' = disturbed /\ Window(p)
      BY <2>7 DEF ResetCursor, StartWrite, Goto, Window
    <3>2. loc' = [loc EXCEPT ![t] = [loc[t] EXCEPT !.st = m, !.ret = "rfiles"]]
      BY <2>7, <2>1 DEF ResetCursor, StartWrite, TypeOK
    <3>3. m \in Marker
      BY DEF TypeOK, Marker
    <3> HIDE DEF m
    <3>4. [loc[t] EXCEPT !.st = m, !.ret = "rfiles"] \in Local
      BY <2>1, <3>3 DEF TypeOK, Local
    <3>5. QED
      BY <2>1, <2>2, <3>1, <3>2, <3>4, OneThreadStep DEF PC
  <2>8. QED
    BY <1>2, <2>3, <2>4, <2>5, <2>6, <2>7 DEF MainStep
<1>3. ASSUME NEW p \in Proc, SyncTurn(p) \/ Shutdown(p) PROVE WindowAlone'
  <2>1. disturbed' = disturbed /\ \A q \in Proc : Window(q)' => Window(q)
    BY <1>3, ThreadFacts DEF SyncTurn, Shutdown, Goto, Window, TypeOK
  <2>2. \A u \in Thread : Busy(u)' => Busy(u)
    BY <1>3, ThreadFacts DEF SyncTurn, Shutdown, Goto, Busy, TypeOK
  <2>3. QED
    BY <2>1, <2>2 DEF WindowAlone
<1>4. ASSUME NEW p \in Proc, Clear(p) PROVE WindowAlone'
  <2> SUFFICES ASSUME ~disturbed' PROVE WindowAlone'
    BY DEF WindowAlone
  <2>1. \A u \in Thread : ~Busy(u)
    BY <1>4 DEF Clear
  <2>2. \A u \in Thread : u # main(p) => ~Busy(u)'
    BY <1>4, <2>1 DEF Clear, Goto, Busy, TypeOK
  <2>3. \A q \in Proc : ~Window(q)
    BY <2>1, WindowIsBusy, ThreadFacts
  <2>4. \A q \in Proc : Window(q)' => q = p
    BY <1>4, <2>3, ThreadFacts DEF Clear, Goto, Window, TypeOK
  <2>5. QED
    BY <2>2, <2>4 DEF WindowAlone
<1>5. ASSUME NEW p \in Proc, Exit(p) PROVE WindowAlone'
  <2>1. ~disturbed' => ~disturbed
    BY <1>5 DEF Exit
  <2>2. \A q \in Proc : Window(q)' => Window(q)
    BY <1>5, ThreadFacts DEF Exit, Window, TypeOK
  <2>3. \A u \in Thread : Busy(u)' => Busy(u)
    BY <1>5, ThreadFacts DEF Exit, Busy, TypeOK
  <2>4. QED
    BY <2>1, <2>2, <2>3 DEF WindowAlone
<1>6. CASE HistoryGrows \/ UNCHANGED vars
  BY <1>6 DEF HistoryGrows, vars, WindowAlone, Window, Busy
<1>7. ASSUME NEW t \in Thread, ThreadStep(t) \/ WorkerRaises(t) PROVE WindowAlone'
  <2>1. Busy(t) /\ disturbed' = disturbed
    BY <1>7 DEF ThreadStep, Truncate, Write, ReadState, Fetch, IndexRow, EndBatch,
                ClosedUnderWorker, WorkerRaises, Busy
  <2>2. PICK l \in PC : pc' = [pc EXCEPT ![t] = l]
    <3>1. TypeOK'
      BY <1>7, ThreadStepType
    <3>2. pc' = [pc EXCEPT ![t] = pc'[t]]
      BY <1>7, <3>1 DEF ThreadStep, Truncate, Write, ReadState, Fetch, IndexRow, EndBatch,
                  ClosedUnderWorker, WorkerRaises, StartWrite, Goto, TypeOK
    <3>3. QED
      BY <3>1, <3>2 DEF TypeOK
  <2>3. PICK k \in Local : loc' = [loc EXCEPT ![t] = k]
    <3>1. TypeOK'
      BY <1>7, ThreadStepType
    <3>2. loc' = [loc EXCEPT ![t] = loc'[t]]
      BY <1>7, <3>1 DEF ThreadStep, Truncate, Write, ReadState, Fetch, IndexRow, EndBatch,
                  ClosedUnderWorker, WorkerRaises, StartWrite, TypeOK
    <3>3. QED
      BY <3>1, <3>2 DEF TypeOK
  <2>4. ASSUME NEW p \in Proc, t = main(p), Window(p)' PROVE Window(p)
    BY <1>7, <2>4 DEF ThreadStep, Truncate, Write, ReadState, Fetch, IndexRow, EndBatch,
                ClosedUnderWorker, WorkerRaises, StartWrite, Goto, AfterWorker, Window, TypeOK, Local
  <2>5. QED
    BY <2>1, <2>2, <2>3, <2>4, OneThreadStep
<1>8. QED
  BY <1>1, <1>2, <1>3, <1>4, <1>5, <1>6, <1>7 DEF Next


(* Outside the windows nothing is said; inside one, only the rebuild itself *)
(* moves the marker, and it leaves the window with a cursor of zero.        *)
LEMMA WindowEndStep ==
    ASSUME TypeOK, WindowAlone, WindowEndsAtZero, [Next]_vars
    PROVE  WindowEndsAtZero'
<1> SUFFICES ASSUME ~disturbed', NEW q \in Proc
             PROVE  /\ (pc'[main(q)] \in {"trunc", "write"} /\ loc'[main(q)].ret = "rfiles")
                          => loc'[main(q)].st.cursor = 0
                    /\ pc'[main(q)] = "rfiles" => marker'.cursor = 0
  BY DEF WindowEndsAtZero
<1>0. ~disturbed
  BY DEF Next, Initialize, MainStep, Boot, IndexFiles, Spawn, MarkComplete, ResetCursor,
         SyncTurn, Clear, Shutdown, Exit, ThreadStep, Truncate, Write, ReadState, Fetch,
         IndexRow, EndBatch, ClosedUnderWorker, WorkerRaises, HistoryGrows, vars
<1>1. ASSUME NEW p \in Proc,
             Initialize(p) \/ SyncTurn(p) \/ Clear(p) \/ Shutdown(p) \/ Exit(p)
      PROVE  /\ (pc'[main(q)] \in {"trunc", "write"} /\ loc'[main(q)].ret = "rfiles")
                   => loc'[main(q)].st.cursor = 0
             /\ pc'[main(q)] = "rfiles" => marker'.cursor = 0
  BY <1>0, <1>1, ThreadFacts
  DEF Initialize, SyncTurn, Clear, Shutdown, Exit, Goto, WindowEndsAtZero, TypeOK
<1>2. ASSUME NEW p \in Proc, MainStep(p)
      PROVE  /\ (pc'[main(q)] \in {"trunc", "write"} /\ loc'[main(q)].ret = "rfiles")
                   => loc'[main(q)].st.cursor = 0
             /\ pc'[main(q)] = "rfiles" => marker'.cursor = 0
  <2>1. p # q => main(p) # main(q)
    BY ThreadFacts
  <2>2. marker' = marker
    BY <1>2 DEF MainStep, Boot, IndexFiles, Spawn, MarkComplete, ResetCursor
  <2>3. CASE p # q
    <3>1. pc'[main(q)] = pc[main(q)] /\ loc'[main(q)] = loc[main(q)]
      BY <1>2, <2>1, <2>3, ThreadFacts
      DEF MainStep, Boot, IndexFiles, Spawn, MarkComplete, ResetCursor, StartWrite, Goto, TypeOK
    <3>2. QED
      BY <1>0, <2>2, <3>1 DEF WindowEndsAtZero
  <2>4. CASE p = q
    <3>1. pc'[main(q)] # "rfiles"
      BY <1>2, <2>4, ThreadFacts
      DEF MainStep, Boot, IndexFiles, Spawn, MarkComplete, ResetCursor, StartWrite, Goto, TypeOK
    <3>2. CASE ResetCursor(p)
      <4>1. loc'[main(q)].st = [marker EXCEPT !.cursor = 0, !.complete = FALSE]
        BY <3>2, <2>4, ThreadFacts DEF ResetCursor, StartWrite, TypeOK, Local
      <4>2. QED
        BY <3>1, <4>1 DEF TypeOK, Marker
    <3>3. CASE ~ResetCursor(p)
      BY <1>2, <2>4, <3>1, <3>3, ThreadFacts
      DEF MainStep, Boot, IndexFiles, Spawn, MarkComplete, StartWrite, Goto, TypeOK, Local
    <3>4. QED
      BY <3>2, <3>3
  <2>5. QED
    BY <2>3, <2>4
<1>3. ASSUME NEW t \in Thread, ThreadStep(t) \/ WorkerRaises(t)
      PROVE  /\ (pc'[main(q)] \in {"trunc", "write"} /\ loc'[main(q)].ret = "rfiles")
                   => loc'[main(q)].st.cursor = 0
             /\ pc'[main(q)] = "rfiles" => marker'.cursor = 0
  <2>1. Busy(t)
    BY <1>3 DEF ThreadStep, Truncate, Write, ReadState, Fetch, IndexRow, EndBatch,
                ClosedUnderWorker, WorkerRaises, Busy
  <2>2. CASE t # main(q)
    <3>1. pc'[main(q)] = pc[main(q)] /\ loc'[main(q)] = loc[main(q)]
      BY <1>3, <2>2, ThreadFacts
      DEF ThreadStep, Truncate, Write, ReadState, Fetch, IndexRow, EndBatch,
          ClosedUnderWorker, WorkerRaises, StartWrite, Goto, TypeOK
    <3>2. ~Window(q)
      BY <1>0, <2>1, <2>2, WindowExcludes
    <3>3. QED
      BY <3>1, <3>2 DEF Window
  <2>3. CASE t = main(q)
    <3>1. CASE Truncate(t)
      BY <1>0, <2>3, <3>1 DEF Truncate, Goto, WindowEndsAtZero, TypeOK
    <3>2. CASE Write(t)
      BY <1>0, <2>3, <3>2 DEF Write, Goto, WindowEndsAtZero, TypeOK, NoLocal, Unread
    <3>3. CASE ReadState(t) \/ Fetch(t) \/ IndexRow(t) \/ ClosedUnderWorker(t) \/ WorkerRaises(t)
      BY <2>3, <3>3
      DEF ReadState, Fetch, IndexRow, ClosedUnderWorker, WorkerRaises, Goto, TypeOK
    <3>4. CASE EndBatch(t)
      BY <2>3, <3>4 DEF EndBatch, StartWrite, Goto, AfterWorker, TypeOK, Local
    <3>5. QED
      BY <1>3, <3>1, <3>2, <3>3, <3>4 DEF ThreadStep
  <2>4. QED
    BY <2>2, <2>3
<1>4. CASE HistoryGrows \/ UNCHANGED vars
  BY <1>0, <1>4 DEF HistoryGrows, vars, WindowEndsAtZero
<1>5. QED
  BY <1>1, <1>2, <1>3, <1>4 DEF Next


-------------------------------------------------------------------------------
(* Entering a quiet state: the only step that ends an undisturbed window   *)
(* is the one that indexes the cold files again.                           *)
LEMMA QuietBefore ==
    ASSUME TypeOK, [Next]_vars, Quiet'
    PROVE  Quiet \/ \E p \in Proc : pc[main(p)] = "rfiles" /\ IndexFiles(p)
<1>1. ~disturbed
  BY DEF Quiet, Next, Initialize, MainStep, Boot, IndexFiles, Spawn, MarkComplete, ResetCursor,
         SyncTurn, Clear, Shutdown, Exit, ThreadStep, Truncate, Write, ReadState, Fetch,
         IndexRow, EndBatch, ClosedUnderWorker, WorkerRaises, HistoryGrows, vars
<1> SUFFICES ASSUME NEW q \in Proc, Window(q), ~Window(q)'
             PROVE  pc[main(q)] = "rfiles" /\ IndexFiles(q)
  BY <1>1 DEF Quiet
<1>2. ASSUME NEW p \in Proc, Initialize(p) \/ SyncTurn(p) \/ Clear(p) \/ Shutdown(p)
      PROVE  FALSE
  BY <1>2, ThreadFacts DEF Initialize, SyncTurn, Clear, Shutdown, Goto, Window, TypeOK
<1>3. ASSUME NEW p \in Proc, Exit(p) PROVE FALSE
  BY <1>3, ThreadFacts DEF Exit, Quiet, Window, TypeOK
<1>4. ASSUME NEW p \in Proc, MainStep(p)
      PROVE  pc[main(q)] = "rfiles" /\ IndexFiles(q)
  <2>1. CASE p # q
    <3>1. main(p) # main(q)
      BY <2>1, ThreadFacts
    <3>2. pc'[main(q)] = pc[main(q)] /\ loc'[main(q)] = loc[main(q)]
      BY <1>4, <3>1, ThreadFacts
      DEF MainStep, Boot, IndexFiles, Spawn, MarkComplete, ResetCursor, StartWrite, Goto, TypeOK
    <3>3. QED
      BY <3>2 DEF Window
  <2>2. CASE p = q
    <3>1. ~(Boot(p) \/ Spawn(p) \/ MarkComplete(p))
      BY <2>2 DEF Boot, Spawn, MarkComplete, Window
    <3>2. ~ResetCursor(p)
      BY <2>2, ThreadFacts DEF ResetCursor, StartWrite, Goto, Window, TypeOK, Local
    <3>3. IndexFiles(q)
      BY <1>4, <2>2, <3>1, <3>2 DEF MainStep
    <3>4. QED
      BY <3>3 DEF IndexFiles, Window
  <2>3. QED
    BY <2>1, <2>2
<1>5. ASSUME NEW t \in Thread, ThreadStep(t) \/ WorkerRaises(t) PROVE FALSE
  <2>1. t = main(q)
    <3>1. SUFFICES ASSUME t # main(q) PROVE FALSE
      OBVIOUS
    <3>2. pc'[main(q)] = pc[main(q)] /\ loc'[main(q)] = loc[main(q)]
      BY <1>5, <3>1, ThreadFacts
      DEF ThreadStep, Truncate, Write, ReadState, Fetch, IndexRow, EndBatch,
          ClosedUnderWorker, WorkerRaises, StartWrite, Goto, TypeOK
    <3>3. QED
      BY <3>2 DEF Window
  <2>2. Truncate(t) \/ Write(t)
    BY <1>5, <2>1 DEF ThreadStep, ReadState, Fetch, IndexRow, EndBatch,
                      ClosedUnderWorker, WorkerRaises, Window
  <2>3. QED
    BY <2>1, <2>2 DEF Truncate, Write, Goto, Window, TypeOK
<1>6. CASE HistoryGrows \/ UNCHANGED vars
  BY <1>6 DEF HistoryGrows, vars, Window
<1>7. QED
  BY <1>2, <1>3, <1>4, <1>5, <1>6 DEF Next

(* Only rebuild's DELETE takes documents out of the index.                 *)
LEMMA DocsGrow ==
    ASSUME [Next]_vars, \A p \in Proc : ~Clear(p)
    PROVE  docs \subseteq docs'
BY DEF Next, Initialize, MainStep, Boot, IndexFiles, Spawn, MarkComplete, ResetCursor,
       SyncTurn, Shutdown, Exit, ThreadStep, Truncate, Write, ReadState, Fetch,
       IndexRow, EndBatch, ClosedUnderWorker, WorkerRaises, HistoryGrows, vars, Index

LEMMA ClearIsNotQuiet ==
    ASSUME TypeOK, NEW p \in Proc, Clear(p)
    PROVE  ~Quiet'
BY ThreadFacts DEF Clear, Goto, Quiet, Window, TypeOK


(* Every cursor that a step leaves behind, durable or carried, is covered. *)
LEMMA CursorStep ==
    ASSUME TypeOK, TypeOK', CursorInv, WindowAlone', WindowEndsAtZero', [Next]_vars
    PROVE  ResumeSound' /\ CarriedIndexed'
<1> SUFFICES ASSUME Quiet'
             PROVE  /\ IndexedUpTo(marker.cursor)'
                    /\ \A t \in Thread :
                          /\ pc'[t] \in {"fetch", "index", "trunc", "write"}
                                => IndexedUpTo(loc[t].st.cursor)'
                          /\ pc'[t] = "index" => IndexedUpTo(loc[t].at - 1)'
  BY DEF ResumeSound, CarriedIndexed, CursorIndexed, IndexedUpTo
<1>1. docs \subseteq docs'
  BY DocsGrow, ClearIsNotQuiet
<1>2. ASSUME NEW p \in Proc, pc[main(p)] = "rfiles", IndexFiles(p)
      PROVE  /\ IndexedUpTo(marker.cursor)'
             /\ \A t \in Thread : pc'[t] \notin {"fetch", "index", "trunc", "write"}
  <2>1. ~disturbed /\ Window(p)
    BY <1>2 DEF Quiet, Window, IndexFiles
  <2>2. marker' = marker /\ marker.cursor = 0
    BY <1>2, <2>1 DEF IndexFiles, CursorInv, WindowEndsAtZero
  <2>3. IndexedUpTo(0)'
    BY DEF IndexedUpTo
  <2>4. \A t \in Thread : t # main(p) => ~Busy(t)
    BY <2>1, WindowExcludes DEF CursorInv
  <2>5. \A t \in Thread : pc'[t] \notin {"fetch", "index", "trunc", "write"}
    BY <1>2, <2>4 DEF IndexFiles, Goto, Busy, TypeOK
  <2>6. QED
    BY <2>2, <2>3, <2>5
<1>3. ASSUME Quiet
      PROVE  /\ IndexedUpTo(marker.cursor)'
             /\ \A t \in Thread :
                   /\ pc'[t] \in {"fetch", "index", "trunc", "write"}
                         => IndexedUpTo(loc[t].st.cursor)'
                   /\ pc'[t] = "index" => IndexedUpTo(loc[t].at - 1)'
  <2>1. IndexedUpTo(marker.cursor) /\ CarriedIndexed
    BY <1>3 DEF CursorInv, ResumeSound, CursorIndexed, IndexedUpTo
  <2>2. ASSUME NEW n \in Nat, IndexedUpTo(n) PROVE IndexedUpTo(n)'
    BY <1>1, <2>2, IndexGrows
  <2>3. IndexedUpTo(marker.cursor)'
    <3>1. CASE marker' = marker
      BY <2>1, <2>2, <3>1 DEF TypeOK, Marker, IndexedUpTo, Indexed
    <3>2. CASE marker' = Unread
      BY <3>2 DEF Unread, IndexedUpTo
    <3>3. ASSUME NEW t \in Thread, Write(t) PROVE IndexedUpTo(marker.cursor)'
      <4>1. marker' = loc[t].st /\ loc[t].st.cursor \in Nat
        BY <3>3 DEF Write, TypeOK, Local, Marker
      <4>2. IndexedUpTo(loc[t].st.cursor)
        BY <1>3, <2>1, <3>3 DEF CarriedIndexed, Write
      <4>3. QED
        BY <1>1, <4>1, <4>2 DEF IndexedUpTo, Indexed
    <3>4. QED
      BY <3>1, <3>2, <3>3
      DEF Next, Initialize, MainStep, Boot, IndexFiles, Spawn, MarkComplete, ResetCursor,
          SyncTurn, Clear, Shutdown, Exit, ThreadStep, Truncate, ReadState, Fetch,
          IndexRow, EndBatch, ClosedUnderWorker, WorkerRaises, HistoryGrows, vars
  <2>4. ASSUME NEW u \in Thread, UNCHANGED <<pc[u], loc[u]>>
        PROVE  /\ pc'[u] \in {"fetch", "index", "trunc", "write"}
                     => IndexedUpTo(loc[u].st.cursor)'
               /\ pc'[u] = "index" => IndexedUpTo(loc[u].at - 1)'
    BY <1>1, <1>3, <2>1, <2>4 DEF CarriedIndexed, IndexedUpTo, Indexed
  <2>5. ASSUME NEW u \in Thread, pc'[u] \notin {"fetch", "index", "trunc", "write"}
        PROVE  /\ pc'[u] \in {"fetch", "index", "trunc", "write"}
                     => IndexedUpTo(loc[u].st.cursor)'
               /\ pc'[u] = "index" => IndexedUpTo(loc[u].at - 1)'
    BY <2>5
  <2> SUFFICES ASSUME NEW u \in Thread
               PROVE  /\ pc'[u] \in {"fetch", "index", "trunc", "write"}
                            => IndexedUpTo(loc[u].st.cursor)'
                      /\ pc'[u] = "index" => IndexedUpTo(loc[u].at - 1)'
    BY <2>3
  <2>6. ASSUME NEW p \in Proc, Initialize(p) \/ SyncTurn(p) \/ Clear(p) \/ Shutdown(p) \/ Exit(p)
        PROVE  \/ UNCHANGED <<pc[u], loc[u]>>
               \/ pc'[u] \notin {"fetch", "index", "trunc", "write"}
    BY <2>6, ThreadFacts DEF Initialize, SyncTurn, Clear, Shutdown, Exit, Goto, TypeOK
  <2>7. ASSUME NEW p \in Proc, MainStep(p)
        PROVE  \/ UNCHANGED <<pc[u], loc[u]>>
               \/ pc'[u] \notin {"fetch", "index", "trunc", "write"}
               \/ pc'[u] = "trunc" /\ IndexedUpTo(loc[u].st.cursor)'
    <3>1. CASE Boot(p)
      <4>1. CASE marker.ver = 1 \/ u # main(p)
        BY <3>1, <4>1, ThreadFacts DEF Boot, StartWrite, Goto, TypeOK
      <4>2. CASE marker.ver # 1 /\ u = main(p)
        <5>1. loc'[u].st = Fresh /\ pc'[u] = "trunc"
          BY <3>1, <4>2, ThreadFacts DEF Boot, StartWrite, Goto, TypeOK, Local
        <5>2. loc'[u].st.cursor = 0
          BY <5>1 DEF Fresh
        <5>3. QED
          BY <5>1, <5>2 DEF IndexedUpTo
      <4>3. QED
        BY <4>1, <4>2
    <3>2. CASE IndexFiles(p) \/ Spawn(p)
      BY <3>2, ThreadFacts DEF IndexFiles, Spawn, Goto, TypeOK
    <3>3. CASE MarkComplete(p)
      <4>1. loc'[main(p)].st = [marker EXCEPT !.complete = TRUE]
        BY <3>3, ThreadFacts DEF MarkComplete, StartWrite, TypeOK, Local
      <4>2. loc'[main(p)].st.cursor = marker.cursor
        BY <4>1 DEF TypeOK, Marker
      <4>3. IndexedUpTo(loc[main(p)].st.cursor)'
        BY <1>1, <2>1, <4>2 DEF IndexedUpTo, Indexed
      <4>4. QED
        BY <3>3, <4>3, ThreadFacts DEF MarkComplete, StartWrite, Goto, TypeOK
    <3>4. ~ResetCursor(p)
      BY <1>3 DEF ResetCursor, Quiet, Window
    <3>5. QED
      BY <2>7, <3>1, <3>2, <3>3, <3>4 DEF MainStep
  <2>8. ASSUME NEW t \in Thread, ThreadStep(t) \/ WorkerRaises(t)
        PROVE  /\ pc'[u] \in {"fetch", "index", "trunc", "write"}
                     => IndexedUpTo(loc[u].st.cursor)'
               /\ pc'[u] = "index" => IndexedUpTo(loc[u].at - 1)'
    <3>1. CASE t # u
      BY <2>4, <2>8, <3>1
      DEF ThreadStep, Truncate, Write, ReadState, Fetch, IndexRow, EndBatch,
          ClosedUnderWorker, WorkerRaises, StartWrite, Goto, TypeOK
    <3>2. CASE t = u
      <4>1. CASE Truncate(u)
        BY <1>1, <1>3, <2>1, <4>1 DEF Truncate, Goto, CarriedIndexed, IndexedUpTo, Indexed, TypeOK
      <4>2. CASE Write(u) \/ ClosedUnderWorker(u) \/ WorkerRaises(u)
        BY <2>5, <4>2 DEF Write, ClosedUnderWorker, WorkerRaises, Goto, TypeOK, Local
      <4>3. CASE ReadState(u)
        <5>1. loc'[u].st = marker /\ pc'[u] = "fetch"
          BY <4>3 DEF ReadState, Goto, TypeOK, Local
        <5>2. QED
          BY <1>1, <2>1, <5>1 DEF IndexedUpTo, Indexed
      <4>4. CASE Fetch(u)
        <5>1. IndexedUpTo(loc[u].st.cursor)
          BY <1>3, <2>1, <4>4 DEF CarriedIndexed, Fetch
        <5>2. loc'[u].st = loc[u].st /\ loc'[u].at = loc[u].st.cursor + 1
          BY <4>4 DEF Fetch, TypeOK, Local
        <5>3. loc'[u].at - 1 = loc[u].st.cursor
          BY <5>2 DEF TypeOK, Local, Marker
        <5>4. QED
          BY <1>1, <5>1, <5>2, <5>3 DEF IndexedUpTo, Indexed
      <4>5. CASE IndexRow(u)
        <5>1. IndexedUpTo(loc[u].st.cursor) /\ IndexedUpTo(loc[u].at - 1)
          BY <1>3, <2>1, <4>5 DEF CarriedIndexed, IndexRow
        <5>2. loc'[u].st = loc[u].st /\ loc'[u].at = loc[u].at + 1 /\ loc[u].at \in Nat
          BY <4>5 DEF IndexRow, TypeOK, Local
        <5>3. Content[loc[u].at] \in docs' \cup {Blank}
          BY <4>5 DEF IndexRow, Index
        <5>4. IndexedUpTo(loc[u].at - 1)' 
          <6>1. \A r \in 1..(loc[u].at - 1) : Content[r] \in docs' \cup {Blank}
            BY <1>1, <5>1 DEF IndexedUpTo, Indexed
          <6>2. \A r \in 1..(loc'[u].at - 1) : r \in 1..(loc[u].at - 1) \/ r = loc[u].at
            BY <5>2
          <6>3. QED
            BY <5>3, <6>1, <6>2 DEF IndexedUpTo, Indexed
        <5>5. QED
          BY <1>1, <5>1, <5>2, <5>4 DEF IndexedUpTo, Indexed
      <4>6. CASE EndBatch(u)
        <5>1. IndexedUpTo(loc[u].at - 1)
          BY <1>3, <2>1, <4>6 DEF CarriedIndexed, EndBatch
        <5>2. loc'[u].st.cursor = loc[u].upto /\ pc'[u] = "trunc"
          BY <4>6 DEF EndBatch, StartWrite, Goto, TypeOK, Local, Marker
        <5>3. 1..loc[u].upto \subseteq 1..(loc[u].at - 1)
          BY <4>6 DEF EndBatch, TypeOK, Local
        <5>4. QED
          BY <1>1, <5>1, <5>2, <5>3 DEF IndexedUpTo, Indexed
      <4>7. QED
        BY <2>8, <3>2, <4>1, <4>2, <4>3, <4>4, <4>5, <4>6 DEF ThreadStep
    <3>3. QED
      BY <3>1, <3>2
  <2>9. CASE HistoryGrows \/ UNCHANGED vars
    BY <2>4, <2>9 DEF HistoryGrows, vars
  <2>10. QED
    BY <2>4, <2>5, <2>6, <2>7, <2>8, <2>9 DEF Next
<1>4. QED
  BY <1>2, <1>3, QuietBefore

(* The strengthened invariant, for every number of processes.              *)
THEOREM CursorInvAlways == Spec => []CursorInv
<1>1. Init => CursorInv
  BY ThreadFacts
  DEF Init, CursorInv, ResumeSound, CursorIndexed, CarriedIndexed, WindowAlone,
      WindowEndsAtZero, Window, Unread
<1>2. TypeOK /\ TypeOK' /\ CursorInv /\ [Next]_vars => CursorInv'
  BY WindowAloneStep, WindowEndStep, CursorStep DEF CursorInv
<1>3. QED
  BY <1>1, <1>2, TypeCorrect, PTL DEF Spec

(* Resuming is sound (ResumeSound), for every number of processes, history *)
(* and batch size: the durable cursor never runs ahead of the index.       *)
THEOREM ResumeSoundAlways == Spec => []ResumeSound
<1>1. CursorInv => ResumeSound
  BY DEF CursorInv
<1>2. QED
  BY <1>1, CursorInvAlways, PTL

-------------------------------------------------------------------------------
(* Nobody marks completion without having looked, where all have a source. *)
LEMMA NobodyMarksStep ==
    ASSUME TypeOK, Sourced = Proc, \A t \in Thread : pc[t] # "mark", [Next]_vars
    PROVE  \A t \in Thread : pc'[t] # "mark"
<1> SUFFICES ASSUME NEW u \in Thread PROVE pc'[u] # "mark"
  OBVIOUS
<1>1. ASSUME NEW p \in Proc, Initialize(p) \/ SyncTurn(p) \/ Clear(p) \/ Shutdown(p) \/ Exit(p)
      PROVE  pc'[u] # "mark"
  BY <1>1, ThreadFacts DEF Initialize, SyncTurn, Clear, Shutdown, Exit, Goto, TypeOK
<1>2. ASSUME NEW p \in Proc, MainStep(p) PROVE pc'[u] # "mark"
  BY <1>2, ThreadFacts
  DEF MainStep, Boot, IndexFiles, Spawn, MarkComplete, ResetCursor, StartWrite, Goto, TypeOK
<1>3. ASSUME NEW t \in Thread, ThreadStep(t) \/ WorkerRaises(t) PROVE pc'[u] # "mark"
  BY <1>3
  DEF ThreadStep, Truncate, Write, ReadState, Fetch, IndexRow, EndBatch,
      ClosedUnderWorker, WorkerRaises, StartWrite, Goto, TypeOK, Local
<1>4. CASE HistoryGrows \/ UNCHANGED vars
  BY <1>4 DEF HistoryGrows, vars
<1>5. QED
  BY <1>1, <1>2, <1>3, <1>4 DEF Next

(* A batch that is not full ends with the history, which has only grown    *)
(* since OldRows.                                                          *)
LEMMA ShortBatchStep ==
    ASSUME TypeOK, TypeOK', ShortBatchIsLast, [Next]_vars
    PROVE  ShortBatchIsLast'
<1> SUFFICES ASSUME NEW u \in Thread, pc'[u] = "index"
             PROVE  loc'[u].upto >= OldRows \/ loc'[u].upto - loc'[u].st.cursor >= Batch
  BY DEF ShortBatchIsLast
<1>1. CASE Fetch(u)
  <2> DEFINE c == loc[u].st.cursor
  <2>1. c \in Nat /\ rows \in Nat /\ c <= rows /\ rows >= OldRows
    BY RowsAssumption DEF TypeOK, Local, Marker, LocalsInHistory
  <2>2. /\ loc'[u].st.cursor = c
        /\ loc'[u].upto = IF rows <= c THEN c ELSE IF c + Batch < rows THEN c + Batch ELSE rows
    BY <1>1 DEF Fetch, TypeOK, Local
  <2>3. QED
    BY <2>1, <2>2, BatchAssumption, RowsAssumption
<1>2. CASE IndexRow(u)
  <2>1. pc[u] = "index" /\ loc'[u].upto = loc[u].upto /\ loc'[u].st = loc[u].st
    BY <1>2 DEF IndexRow, TypeOK, Local
  <2>2. QED
    BY <2>1 DEF ShortBatchIsLast
<1>3. ASSUME ~Fetch(u), ~IndexRow(u) PROVE UNCHANGED <<pc[u], loc[u]>>
  <2>1. ASSUME NEW p \in Proc, Initialize(p) \/ SyncTurn(p) \/ Clear(p) \/ Shutdown(p) \/ Exit(p)
        PROVE  UNCHANGED <<pc[u], loc[u]>>
    BY <2>1, ThreadFacts DEF Initialize, SyncTurn, Clear, Shutdown, Exit, Goto, TypeOK
  <2>2. ASSUME NEW p \in Proc, MainStep(p) PROVE UNCHANGED <<pc[u], loc[u]>>
    BY <2>2, ThreadFacts
    DEF MainStep, Boot, IndexFiles, Spawn, MarkComplete, ResetCursor, StartWrite, Goto, TypeOK
  <2>3. ASSUME NEW t \in Thread, ThreadStep(t) \/ WorkerRaises(t)
        PROVE  UNCHANGED <<pc[u], loc[u]>>
    BY <1>3, <2>3
    DEF ThreadStep, Truncate, Write, ReadState, Fetch, IndexRow, EndBatch,
        ClosedUnderWorker, WorkerRaises, StartWrite, Goto, TypeOK, Local
  <2>4. CASE HistoryGrows \/ UNCHANGED vars
    BY <2>4 DEF HistoryGrows, vars
  <2>5. QED
    BY <2>1, <2>2, <2>3, <2>4 DEF Next
<1>4. QED
  BY <1>1, <1>2, <1>3 DEF ShortBatchIsLast

(* As WindowEndStep: a rebuild leaves its window with the flag off.        *)
LEMMA WindowUnflaggedStep ==
    ASSUME TypeOK, WindowAlone, WindowEndsUnflagged, [Next]_vars
    PROVE  WindowEndsUnflagged'
<1> SUFFICES ASSUME ~disturbed', NEW q \in Proc
             PROVE  /\ (pc'[main(q)] \in {"trunc", "write"} /\ loc'[main(q)].ret = "rfiles")
                          => ~loc'[main(q)].st.complete
                    /\ pc'[main(q)] = "rfiles" => ~marker'.complete
  BY DEF WindowEndsUnflagged
<1>0. ~disturbed
  BY DEF Next, Initialize, MainStep, Boot, IndexFiles, Spawn, MarkComplete, ResetCursor,
         SyncTurn, Clear, Shutdown, Exit, ThreadStep, Truncate, Write, ReadState, Fetch,
         IndexRow, EndBatch, ClosedUnderWorker, WorkerRaises, HistoryGrows, vars
<1>1. ASSUME NEW p \in Proc,
             Initialize(p) \/ SyncTurn(p) \/ Clear(p) \/ Shutdown(p) \/ Exit(p)
      PROVE  /\ (pc'[main(q)] \in {"trunc", "write"} /\ loc'[main(q)].ret = "rfiles")
                   => ~loc'[main(q)].st.complete
             /\ pc'[main(q)] = "rfiles" => ~marker'.complete
  BY <1>0, <1>1, ThreadFacts
  DEF Initialize, SyncTurn, Clear, Shutdown, Exit, Goto, WindowEndsUnflagged, TypeOK
<1>2. ASSUME NEW p \in Proc, MainStep(p)
      PROVE  /\ (pc'[main(q)] \in {"trunc", "write"} /\ loc'[main(q)].ret = "rfiles")
                   => ~loc'[main(q)].st.complete
             /\ pc'[main(q)] = "rfiles" => ~marker'.complete
  <2>1. marker' = marker
    BY <1>2 DEF MainStep, Boot, IndexFiles, Spawn, MarkComplete, ResetCursor
  <2>2. CASE p # q
    <3>1. pc'[main(q)] = pc[main(q)] /\ loc'[main(q)] = loc[main(q)]
      BY <1>2, <2>2, ThreadFacts
      DEF MainStep, Boot, IndexFiles, Spawn, MarkComplete, ResetCursor, StartWrite, Goto, TypeOK
    <3>2. QED
      BY <1>0, <2>1, <3>1 DEF WindowEndsUnflagged
  <2>3. CASE p = q
    <3>1. pc'[main(q)] # "rfiles"
      BY <1>2, <2>3, ThreadFacts
      DEF MainStep, Boot, IndexFiles, Spawn, MarkComplete, ResetCursor, StartWrite, Goto, TypeOK
    <3>2. CASE ResetCursor(p)
      <4>1. loc'[main(q)].st = [marker EXCEPT !.cursor = 0, !.complete = FALSE]
        BY <3>2, <2>3, ThreadFacts DEF ResetCursor, StartWrite, TypeOK, Local
      <4>2. QED
        BY <3>1, <4>1 DEF TypeOK, Marker
    <3>3. CASE ~ResetCursor(p)
      BY <1>2, <2>3, <3>1, <3>3, ThreadFacts
      DEF MainStep, Boot, IndexFiles, Spawn, MarkComplete, StartWrite, Goto, TypeOK, Local
    <3>4. QED
      BY <3>2, <3>3
  <2>4. QED
    BY <2>2, <2>3
<1>3. ASSUME NEW t \in Thread, ThreadStep(t) \/ WorkerRaises(t)
      PROVE  /\ (pc'[main(q)] \in {"trunc", "write"} /\ loc'[main(q)].ret = "rfiles")
                   => ~loc'[main(q)].st.complete
             /\ pc'[main(q)] = "rfiles" => ~marker'.complete
  <2>1. Busy(t)
    BY <1>3 DEF ThreadStep, Truncate, Write, ReadState, Fetch, IndexRow, EndBatch,
                ClosedUnderWorker, WorkerRaises, Busy
  <2>2. CASE t # main(q)
    <3>1. pc'[main(q)] = pc[main(q)] /\ loc'[main(q)] = loc[main(q)]
      BY <1>3, <2>2, ThreadFacts
      DEF ThreadStep, Truncate, Write, ReadState, Fetch, IndexRow, EndBatch,
          ClosedUnderWorker, WorkerRaises, StartWrite, Goto, TypeOK
    <3>2. ~Window(q)
      BY <1>0, <2>1, <2>2, WindowExcludes
    <3>3. QED
      BY <3>1, <3>2 DEF Window
  <2>3. CASE t = main(q)
    <3>1. CASE Truncate(t)
      BY <1>0, <2>3, <3>1 DEF Truncate, Goto, WindowEndsUnflagged, TypeOK
    <3>2. CASE Write(t)
      BY <1>0, <2>3, <3>2 DEF Write, Goto, WindowEndsUnflagged, TypeOK, NoLocal, Unread
    <3>3. CASE ReadState(t) \/ Fetch(t) \/ IndexRow(t) \/ ClosedUnderWorker(t) \/ WorkerRaises(t)
      BY <2>3, <3>3
      DEF ReadState, Fetch, IndexRow, ClosedUnderWorker, WorkerRaises, Goto, TypeOK
    <3>4. CASE EndBatch(t)
      BY <2>3, <3>4 DEF EndBatch, StartWrite, Goto, AfterWorker, TypeOK, Local
    <3>5. QED
      BY <1>3, <3>1, <3>2, <3>3, <3>4 DEF ThreadStep
  <2>4. QED
    BY <2>2, <2>3
<1>4. CASE HistoryGrows \/ UNCHANGED vars
  BY <1>0, <1>4 DEF HistoryGrows, vars, WindowEndsUnflagged
<1>5. QED
  BY <1>1, <1>2, <1>3, <1>4 DEF Next

(* Every flag that a step leaves behind, durable or carried, is true of    *)
(* the index.                                                              *)
LEMMA FlagStep ==
    ASSUME TypeOK, TypeOK', Sourced = Proc, CursorInv, FlagInv, [Next]_vars
    PROVE  NoteHonest' /\ FlagCarried'
<1> SUFFICES ASSUME Quiet'
             PROVE  /\ marker'.complete => HistoryIndexed'
                    /\ \A t \in Thread :
                          (pc'[t] \in {"fetch", "index", "trunc", "write"} /\ loc'[t].st.complete)
                             => HistoryIndexed'
  BY DEF NoteHonest, FlagCarried
<1>1. docs \subseteq docs'
  BY DocsGrow, ClearIsNotQuiet
<1>2. HistoryIndexed => HistoryIndexed'
  BY <1>1 DEF HistoryIndexed, Indexed
<1>3. ASSUME NEW p \in Proc, pc[main(p)] = "rfiles", IndexFiles(p)
      PROVE  /\ ~marker'.complete
             /\ \A t \in Thread : pc'[t] \notin {"fetch", "index", "trunc", "write"}
  <2>1. ~disturbed /\ Window(p)
    BY <1>3 DEF Quiet, Window, IndexFiles
  <2>2. marker' = marker /\ ~marker.complete
    BY <1>3, <2>1 DEF IndexFiles, FlagInv, WindowEndsUnflagged
  <2>3. \A t \in Thread : t # main(p) => ~Busy(t)
    BY <2>1, WindowExcludes DEF CursorInv
  <2>4. \A t \in Thread : pc'[t] \notin {"fetch", "index", "trunc", "write"}
    BY <1>3, <2>3 DEF IndexFiles, Goto, Busy, TypeOK
  <2>5. QED
    BY <2>2, <2>4
<1>4. ASSUME Quiet
      PROVE  /\ marker'.complete => HistoryIndexed'
             /\ \A t \in Thread :
                   (pc'[t] \in {"fetch", "index", "trunc", "write"} /\ loc'[t].st.complete)
                      => HistoryIndexed'
  <2>1. /\ marker.complete => HistoryIndexed
        /\ \A t \in Thread :
              (pc[t] \in {"fetch", "index", "trunc", "write"} /\ loc[t].st.complete)
                 => HistoryIndexed
    BY <1>4 DEF FlagInv, NoteHonest, FlagCarried
  <2>2. marker'.complete => HistoryIndexed'
    <3>1. CASE marker' = marker
      BY <1>2, <2>1, <3>1
    <3>2. CASE marker' = Unread
      BY <3>2 DEF Unread
    <3>3. ASSUME NEW t \in Thread, Write(t) PROVE marker'.complete => HistoryIndexed'
      BY <1>2, <2>1, <3>3 DEF Write
    <3>4. QED
      BY <3>1, <3>2, <3>3
      DEF Next, Initialize, MainStep, Boot, IndexFiles, Spawn, MarkComplete, ResetCursor,
          SyncTurn, Clear, Shutdown, Exit, ThreadStep, Truncate, ReadState, Fetch,
          IndexRow, EndBatch, ClosedUnderWorker, WorkerRaises, HistoryGrows, vars
  <2> SUFFICES ASSUME NEW u \in Thread, pc'[u] \in {"fetch", "index", "trunc", "write"},
                      loc'[u].st.complete
               PROVE  HistoryIndexed'
    BY <2>2
  <2>3. ASSUME UNCHANGED <<pc[u], loc[u]>> PROVE HistoryIndexed'
    BY <1>2, <2>1, <2>3
  <2>4. ASSUME NEW p \in Proc, Initialize(p) \/ SyncTurn(p) \/ Clear(p) \/ Shutdown(p) \/ Exit(p)
        PROVE  UNCHANGED <<pc[u], loc[u]>>
    BY <2>4, ThreadFacts DEF Initialize, SyncTurn, Clear, Shutdown, Exit, Goto, TypeOK
  <2>5. ASSUME NEW p \in Proc, MainStep(p) PROVE UNCHANGED <<pc[u], loc[u]>>
    <3>1. ~MarkComplete(p)
      BY ThreadFacts DEF FlagInv, MarkComplete
    <3>2. ~ResetCursor(p)
      BY <1>4 DEF ResetCursor, Quiet, Window
    <3>3. CASE Boot(p)
      <4>1. CASE marker.ver = 1 \/ u # main(p)
        BY <3>3, <4>1, ThreadFacts DEF Boot, StartWrite, Goto, TypeOK
      <4>2. CASE marker.ver # 1 /\ u = main(p)
        <5>1. loc'[u].st = Fresh
          BY <3>3, <4>2, ThreadFacts DEF Boot, StartWrite, Goto, TypeOK, Local
        <5>2. QED
          BY <5>1 DEF Fresh
      <4>3. QED
        BY <4>1, <4>2
    <3>4. CASE IndexFiles(p) \/ Spawn(p)
      BY <3>4, ThreadFacts DEF IndexFiles, Spawn, Goto, TypeOK
    <3>5. QED
      BY <2>5, <3>1, <3>2, <3>3, <3>4 DEF MainStep
  <2>6. ASSUME NEW t \in Thread, ThreadStep(t) \/ WorkerRaises(t)
        PROVE  HistoryIndexed'
    <3>1. CASE t # u
      <4>1. UNCHANGED <<pc[u], loc[u]>>
        BY <2>6, <3>1
        DEF ThreadStep, Truncate, Write, ReadState, Fetch, IndexRow, EndBatch,
            ClosedUnderWorker, WorkerRaises, StartWrite, Goto, TypeOK
      <4>2. QED
        BY <2>3, <4>1
    <3>2. CASE t = u
      <4>1. CASE Truncate(u)
        BY <1>2, <2>1, <4>1 DEF Truncate
      <4>2. CASE Write(u) \/ ClosedUnderWorker(u) \/ WorkerRaises(u)
        BY <4>2 DEF Write, ClosedUnderWorker, WorkerRaises, Goto, TypeOK, Local
      <4>3. CASE ReadState(u)
        <5>1. loc'[u].st = marker
          BY <4>3 DEF ReadState, TypeOK, Local
        <5>2. QED
          BY <1>2, <2>1, <5>1
      <4>4. CASE Fetch(u) \/ IndexRow(u)
        <5>1. pc[u] \in {"fetch", "index"} /\ loc'[u].st = loc[u].st
          BY <4>4 DEF Fetch, IndexRow, TypeOK, Local
        <5>2. QED
          BY <1>2, <2>1, <5>1
      <4>5. CASE EndBatch(u)
        <5> DEFINE more == loc[u].upto - loc[u].st.cursor >= Batch
        <5>1. pc[u] = "index" /\ loc[u].at > loc[u].upto
          BY <4>5 DEF EndBatch
        <5>2. loc'[u].st.complete = (loc[u].st.complete \/ ~more)
          <6> DEFINE b == loc[u].st.complete \/ ~more
                     m == [loc[u].st EXCEPT !.cursor = loc[u].upto, !.complete = b]
          <6>1. loc' = [loc EXCEPT ![u].st = m, ![u].ret = IF more THEN "read" ELSE AfterWorker(u)]
            BY <4>5, Zenon DEF EndBatch, StartWrite
          <6>2. m.complete = b
            BY Zenon DEF TypeOK, Local, Marker
          <6> HIDE DEF m
          <6>3. loc'[u].st = m
            BY <6>1 DEF TypeOK, Local
          <6>4. QED
            BY <6>2, <6>3, Zenon
        <5>3. CASE loc[u].st.complete
          BY <1>2, <2>1, <5>1, <5>3
        <5>4. CASE ~more
          <6>1. loc[u].upto >= OldRows
            BY <5>1, <5>4 DEF FlagInv, ShortBatchIsLast
          <6>2. IndexedUpTo(loc[u].at - 1)
            BY <1>4, <5>1 DEF CursorInv, CarriedIndexed
          <6>3. 1..OldRows \subseteq 1..(loc[u].at - 1)
            BY <5>1, <6>1, RowsAssumption DEF TypeOK, Local
          <6>4. HistoryIndexed
            BY <6>2, <6>3 DEF HistoryIndexed, IndexedUpTo
          <6>5. QED
            BY <1>2, <6>4
        <5>5. QED
          BY <5>2, <5>3, <5>4
      <4>6. QED
        BY <2>6, <3>2, <4>1, <4>2, <4>3, <4>4, <4>5 DEF ThreadStep
    <3>3. QED
      BY <3>1, <3>2
  <2>7. CASE HistoryGrows \/ UNCHANGED vars
    BY <2>3, <2>7 DEF HistoryGrows, vars
  <2>8. QED
    BY <2>3, <2>4, <2>5, <2>6, <2>7 DEF Next
<1>5. QED
  BY <1>3, <1>4, QuietBefore

(* The completion flag is honest (NoteHonest), for any number of processes *)
(* that all have a source, any history and any batch size: once it is set, *)
(* the history that predates the plugin is in the index.                   *)
THEOREM NoteHonestAlways == Spec => []NoteHonest
<1>1. Init => FlagInv
  BY ThreadFacts
  DEF Init, FlagInv, NoteHonest, FlagCarried, ShortBatchIsLast, WindowEndsUnflagged, Unread
<1>2. TypeOK /\ TypeOK' /\ CursorInv /\ FlagInv /\ [Next]_vars => FlagInv'
  <2> SUFFICES ASSUME TypeOK, TypeOK', CursorInv, FlagInv, [Next]_vars, Sourced = Proc
               PROVE  /\ NoteHonest' /\ FlagCarried' /\ ShortBatchIsLast' /\ WindowEndsUnflagged'
                      /\ \A t \in Thread : pc'[t] # "mark"
    BY DEF FlagInv
  <2>1. NoteHonest' /\ FlagCarried'
    BY FlagStep
  <2>2. ShortBatchIsLast'
    BY ShortBatchStep DEF FlagInv
  <2>3. WindowEndsUnflagged'
    BY WindowUnflaggedStep DEF FlagInv, CursorInv
  <2>4. \A t \in Thread : pc'[t] # "mark"
    BY NobodyMarksStep DEF FlagInv
  <2>5. QED
    BY <2>1, <2>2, <2>3, <2>4
<1>3. FlagInv => NoteHonest
  BY DEF FlagInv, NoteHonest
<1>4. QED
  BY <1>1, <1>2, <1>3, TypeCorrect, CursorInvAlways, PTL DEF Spec

-------------------------------------------------------------------------------
(* A process gets past the indexing of the cold files by doing it.         *)
LEMMA PastFilesBefore ==
    ASSUME TypeOK, [Next]_vars, NEW q \in Proc, PastFiles(q)', ~PastFiles(q)
    PROVE  IndexFiles(q)
<1>1. ASSUME NEW p \in Proc, Initialize(p) \/ SyncTurn(p) \/ Clear(p) \/ Shutdown(p) \/ Exit(p)
      PROVE  FALSE
  BY <1>1, ThreadFacts
  DEF Initialize, SyncTurn, Clear, Shutdown, Exit, Goto, PastFiles, TypeOK
<1>2. ASSUME NEW p \in Proc, MainStep(p) PROVE IndexFiles(q)
  <2>1. CASE p # q
    <3>1. UNCHANGED <<pc[main(q)], loc[main(q)]>>
      BY <1>2, <2>1, ThreadFacts
      DEF MainStep, Boot, IndexFiles, Spawn, MarkComplete, ResetCursor, StartWrite, Goto, TypeOK
    <3>2. QED
      BY <3>1 DEF PastFiles
  <2>2. CASE p = q
    <3>1. ~(Spawn(p) \/ MarkComplete(p) \/ ResetCursor(p))
      BY <2>2 DEF Spawn, MarkComplete, ResetCursor, PastFiles
    <3>2. ~Boot(p)
      BY <2>2, ThreadFacts DEF Boot, StartWrite, Goto, PastFiles, TypeOK, Local
    <3>3. QED
      BY <1>2, <2>2, <3>1, <3>2 DEF MainStep
  <2>3. QED
    BY <2>1, <2>2
<1>3. ASSUME NEW t \in Thread, ThreadStep(t) \/ WorkerRaises(t) PROVE FALSE
  <2>1. CASE t # main(q)
    <3>1. UNCHANGED <<pc[main(q)], loc[main(q)]>>
      BY <1>3, <2>1, ThreadFacts
      DEF ThreadStep, Truncate, Write, ReadState, Fetch, IndexRow, EndBatch,
          ClosedUnderWorker, WorkerRaises, StartWrite, Goto, TypeOK
    <3>2. QED
      BY <3>1 DEF PastFiles
  <2>2. CASE t = main(q)
    BY <1>3, <2>2
    DEF ThreadStep, Truncate, Write, ReadState, Fetch, IndexRow, EndBatch,
        ClosedUnderWorker, WorkerRaises, Goto, PastFiles, TypeOK
  <2>3. QED
    BY <2>1, <2>2
<1>4. CASE HistoryGrows \/ UNCHANGED vars
  BY <1>4 DEF HistoryGrows, vars, PastFiles
<1>5. QED
  BY <1>1, <1>2, <1>3, <1>4 DEF Next

(* A provider that is up can find every cold file (ColdFilesFound), for    *)
(* any processes, files and rebuilds that do not overlap.                  *)
THEOREM ColdFilesFoundAlways == Spec => []ColdFilesFound
<1>1. Init => FilesInv
  BY ThreadFacts DEF Init, FilesInv, PastFiles
<1>2. TypeOK /\ FilesInv /\ [Next]_vars => FilesInv'
  <2> SUFFICES ASSUME TypeOK, FilesInv, [Next]_vars, Quiet', NEW q \in Proc, PastFiles(q)'
               PROVE  Files \ {Blank} \subseteq docs'
    BY DEF FilesInv
  <2>1. ASSUME NEW p \in Proc, IndexFiles(p) PROVE Files \ {Blank} \subseteq docs'
    BY <2>1 DEF IndexFiles, Index
  <2>2. CASE Quiet /\ PastFiles(q)
    BY <2>2, DocsGrow, ClearIsNotQuiet DEF FilesInv
  <2>3. QED
    BY <2>1, <2>2, PastFilesBefore, QuietBefore
<1>3. FilesInv => ColdFilesFound
  BY DEF FilesInv, ColdFilesFound, PastFiles
<1>4. QED
  BY <1>1, <1>2, <1>3, TypeCorrect, PTL DEF Spec

===============================================================================
