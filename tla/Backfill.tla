------------------------------- MODULE Backfill -------------------------------
(***************************************************************************)
(* History backfill, rebuild and the marker file of the mem4 provider      *)
(* (mem4/__init__.py) over the recall store (mem4/recall.py).              *)
(*                                                                         *)
(* Several processes share one $HERMES_HOME/mem4: a long-lived agent, a    *)
(* second session, the `hermes mem4 rebuild` command.  Each process has a  *)
(* main thread, which runs initialize, sync_turn, rebuild and shutdown,    *)
(* and may have the daemon thread that runs _backfill_worker.  They share  *)
(* two pieces of durable state, under no common lock:                      *)
(*   - the marker (.mem4_state.json), read whole and written back whole,   *)
(*     by a write that truncates the file first;                           *)
(*   - the docs table of recall.db, where every INSERT OR IGNORE and every *)
(*     DELETE commits on its own.                                          *)
(* The source of history (external, injected) is an append-only sequence   *)
(* of rows.  Process death is possible between any two steps.              *)
(*                                                                         *)
(* Abstractions: a document is its content hash; the cold files do not     *)
(* change and are indexed in one step; a marker that does not parse is the *)
(* marker with ver = 0, because every reader treats it as {}.              *)
(***************************************************************************)
EXTENDS Integers, FiniteSets

CONSTANTS
    Proc,        \* processes that may load the provider
    Sourced,     \* the processes whose provider has a history source injected
    Blank,       \* the content that is empty or white space
    Files,       \* contents of the microfiles and mirror logs
    Turns,       \* contents sync_turn can index
    Content,     \* content of the n-th row of the history source
    Batch,       \* _BACKFILL_BATCH_SIZE
    OldRows,     \* rows of history that predate the plugin
    MaxRows,     \* bound: rows of history
    MaxStarts,   \* bound: provider initialisations
    MaxRebuilds  \* bound: rebuilds

ASSUME ProcAssumption  == Sourced \subseteq Proc
ASSUME BatchAssumption == Batch \in Nat \ {0}
ASSUME RowsAssumption  == OldRows \in Nat /\ MaxRows \in Nat /\ OldRows <= MaxRows
ASSUME StartsAssumption == MaxStarts \in Nat /\ MaxRebuilds \in Nat
ASSUME ContentAssumption == DOMAIN Content = 1..MaxRows

VARIABLES
    marker,     \* the marker file
    docs,       \* contents in the docs table of recall.db
    rows,       \* length of the history source
    pc,         \* what each thread is about to do
    loc,        \* the local variables of each thread
    starts,     \* initialisations so far
    rebuilds,   \* rebuilds so far
    synced,     \* turns sync_turn has indexed
    disturbed   \* a rebuild's window was entered by another thread or cut short

vars == <<marker, docs, rows, pc, loc, starts, rebuilds, synced, disturbed>>

-------------------------------------------------------------------------------
main(p) == <<p, "main">>
bg(p)   == <<p, "bg">>
Thread  == Proc \X {"main", "bg"}

Doc == {Content[r] : r \in 1..MaxRows} \cup Files \cup Turns

(* schema_version 1 always comes with migration_complete: one field.       *)
Marker == [ver : {0, 1}, cursor : Nat, complete : BOOLEAN]
Unread == [ver |-> 0, cursor |-> 0, complete |-> FALSE]
Fresh  == [ver |-> 1, cursor |-> 0, complete |-> FALSE]

PC == {"off", "boot", "files", "spawn", "mark", "up", "reset", "rfiles",
       "read", "fetch", "index", "trunc", "write", "closed", "dead"}

(* st: the marker as read or to be written; at, upto: the next and the last *)
(* row of the batch; ret: where the thread goes on after a write.          *)
Local == [st : Marker, at : Nat, upto : Nat,
          ret : {"off", "files", "up", "rfiles", "read"}]
NoLocal == [st |-> Unread, at |-> 0, upto |-> 0, ret |-> "off"]

Init ==
    /\ marker = Unread
    /\ docs = {}
    /\ rows = OldRows
    /\ pc = [t \in Thread |-> "off"]
    /\ loc = [t \in Thread |-> NoLocal]
    /\ starts = 0
    /\ rebuilds = 0
    /\ synced = {}
    /\ disturbed = FALSE

(* A thread in the middle of something that touches the shared files.      *)
Busy(t) == pc[t] \notin {"off", "up", "closed", "dead"}

(* The rebuild of p has cleared the index and has not yet put back both    *)
(* the cursor and the cold files.                                          *)
Window(p) ==
    \/ pc[main(p)] \in {"reset", "rfiles"}
    \/ pc[main(p)] \in {"trunc", "write"} /\ loc[main(p)].ret = "rfiles"

(* RecallStore.index: blank content is refused, a known hash is ignored.   *)
Index(contents) == docs \cup (contents \ {Blank})

Goto(t, l) == pc' = [pc EXCEPT ![t] = l]

(* _write_state(m), then continue at l: two steps, Truncate and Write.     *)
StartWrite(t, m, l) ==
    /\ Goto(t, "trunc")
    /\ loc' = [loc EXCEPT ![t].st = m, ![t].ret = l]

-------------------------------------------------------------------------------
(* initialize                                                              *)

Initialize(p) ==
    /\ pc[main(p)] = "off"
    /\ starts < MaxStarts
    /\ starts' = starts + 1
    /\ Goto(main(p), "boot")
    /\ disturbed' = (disturbed \/ \E q \in Proc : Window(q))
    /\ UNCHANGED <<marker, docs, rows, loc, rebuilds, synced>>

(* _ensure_bootstrap: a current marker is adopted, anything else migrates. *)
Boot(p) ==
    LET t == main(p) IN
    /\ pc[t] = "boot"
    /\ IF marker.ver = 1
         THEN Goto(t, "files") /\ UNCHANGED loc
         ELSE StartWrite(t, Fresh, "files")
    /\ UNCHANGED <<marker, docs, rows, starts, rebuilds, synced, disturbed>>

(* Mutated IndexFiles: a rebuild forgets to put the cold files back.       *)
IndexFilesOnce(p) ==
    LET t == main(p) IN
    /\ pc[t] \in {"files", "rfiles"}
    /\ docs' = IF pc[t] = "files" THEN Index(Files) ELSE docs
    /\ Goto(t, IF p \notin Sourced THEN "mark"
               ELSE IF pc[t] = "files" THEN "spawn" ELSE "read")
    /\ UNCHANGED <<marker, rows, loc, starts, rebuilds, synced, disturbed>>

(* _index_microfiles, from initialize ("files") or from rebuild ("rfiles"),*)
(* and the choice that follows both: a provider with a source runs the     *)
(* worker, on the daemon thread or inline, one without marks completion.   *)
IndexFiles(p) ==
    LET t == main(p) IN
    /\ pc[t] \in {"files", "rfiles"}
    /\ docs' = Index(Files)
    /\ Goto(t, IF p \notin Sourced THEN "mark"
               ELSE IF pc[t] = "files" THEN "spawn" ELSE "read")
    /\ UNCHANGED <<marker, rows, loc, starts, rebuilds, synced, disturbed>>

(* _start_backfill with a source: the thread starts, complete or not.      *)
Spawn(p) ==
    /\ pc[main(p)] = "spawn"
    /\ pc' = [pc EXCEPT ![main(p)] = "up", ![bg(p)] = "read"]
    /\ UNCHANGED <<marker, docs, rows, loc, starts, rebuilds, synced, disturbed>>

(* _mark_backfill_complete: read, set the flag, write the whole marker.    *)
MarkComplete(p) ==
    LET t == main(p) IN
    /\ pc[t] = "mark"
    /\ StartWrite(t, [marker EXCEPT !.complete = TRUE], "up")
    /\ UNCHANGED <<marker, docs, rows, starts, rebuilds, synced, disturbed>>

-------------------------------------------------------------------------------
(* _write_state: Path.write_text truncates, then writes.                   *)

Truncate(t) ==
    /\ pc[t] = "trunc"
    /\ marker' = Unread
    /\ Goto(t, "write")
    /\ UNCHANGED <<docs, rows, loc, starts, rebuilds, synced, disturbed>>

Write(t) ==
    /\ pc[t] = "write"
    /\ marker' = loc[t].st
    /\ Goto(t, loc[t].ret)
    /\ loc' = [loc EXCEPT ![t] = NoLocal]
    /\ UNCHANGED <<docs, rows, starts, rebuilds, synced, disturbed>>

-------------------------------------------------------------------------------
(* _backfill_worker, on the daemon thread or inside rebuild                *)

AfterWorker(t) == IF t[2] = "bg" THEN "off" ELSE "up"

ReadState(t) ==
    /\ pc[t] = "read"
    /\ loc' = [loc EXCEPT ![t].st = marker]
    /\ Goto(t, "fetch")
    /\ UNCHANGED <<marker, docs, rows, starts, rebuilds, synced, disturbed>>

(* Mutated Fetch: a batch is taken to be full.                             *)
FetchFull(t) ==
    LET c == loc[t].st.cursor IN
    /\ pc[t] = "fetch"
    /\ loc' = [loc EXCEPT ![t].at = c + 1, ![t].upto = c + Batch]
    /\ Goto(t, "index")
    /\ UNCHANGED <<marker, docs, rows, starts, rebuilds, synced, disturbed>>

(* fetch(cursor, Batch): the next rows after the cursor, at most Batch.    *)
Fetch(t) ==
    LET c == loc[t].st.cursor IN
    /\ pc[t] = "fetch"
    /\ loc' = [loc EXCEPT ![t].at = c + 1,
                          ![t].upto = IF rows <= c THEN c
                                      ELSE IF c + Batch < rows THEN c + Batch ELSE rows]
    /\ Goto(t, "index")
    /\ UNCHANGED <<marker, docs, rows, starts, rebuilds, synced, disturbed>>

(* One row of the batch; self.index commits.                               *)
IndexRow(t) ==
    /\ pc[t] = "index"
    /\ loc[t].at <= loc[t].upto
    /\ pc[main(t[1])] # "closed"
    /\ docs' = Index({Content[loc[t].at]})
    /\ loc' = [loc EXCEPT ![t].at = @ + 1]
    /\ UNCHANGED <<marker, rows, pc, starts, rebuilds, synced, disturbed>>

(* Mutated EndBatch: every batch completes the backfill.                   *)
EndBatchCompletes(t) ==
    LET more == loc[t].upto - loc[t].st.cursor >= Batch IN
    /\ pc[t] = "index"
    /\ loc[t].at > loc[t].upto
    /\ StartWrite(t, [loc[t].st EXCEPT !.cursor = loc[t].upto, !.complete = TRUE],
                  IF more THEN "read" ELSE AfterWorker(t))
    /\ UNCHANGED <<marker, docs, rows, starts, rebuilds, synced, disturbed>>

(* Mutated EndBatch: a full batch is taken for the last one.               *)
EndBatchStrict(t) ==
    LET more == loc[t].upto - loc[t].st.cursor > Batch IN
    /\ pc[t] = "index"
    /\ loc[t].at > loc[t].upto
    /\ StartWrite(t, [loc[t].st EXCEPT !.cursor = loc[t].upto,
                                       !.complete = @ \/ ~more],
                  IF more THEN "read" ELSE AfterWorker(t))
    /\ UNCHANGED <<marker, docs, rows, starts, rebuilds, synced, disturbed>>

(* The batch is done: has_more when it was full, else complete.            *)
EndBatch(t) ==
    LET more == loc[t].upto - loc[t].st.cursor >= Batch IN
    /\ pc[t] = "index"
    /\ loc[t].at > loc[t].upto
    /\ StartWrite(t, [loc[t].st EXCEPT !.cursor = loc[t].upto,
                                       !.complete = @ \/ ~more],
                  IF more THEN "read" ELSE AfterWorker(t))
    /\ UNCHANGED <<marker, docs, rows, starts, rebuilds, synced, disturbed>>

(* The recall database was closed under the worker: index raises and the   *)
(* thread dies with the cursor where the last finished batch left it.      *)
ClosedUnderWorker(t) ==
    /\ pc[t] = "index"
    /\ loc[t].at <= loc[t].upto
    /\ pc[main(t[1])] = "closed"
    /\ Goto(t, "dead")
    /\ UNCHANGED <<marker, docs, rows, loc, starts, rebuilds, synced, disturbed>>

(* The source or the database raises: nothing in the worker catches it.    *)
WorkerRaises(t) ==
    /\ pc[t] \in {"fetch", "index"}
    /\ Goto(t, IF t[2] = "bg" THEN "dead" ELSE "up")
    /\ UNCHANGED <<marker, docs, rows, loc, starts, rebuilds, synced, disturbed>>

-------------------------------------------------------------------------------
(* sync_turn, rebuild, shutdown, death, and the host's history             *)

SyncTurn(p) ==
    /\ pc[main(p)] = "up"
    /\ \E d \in Turns \ synced :
         /\ docs' = Index({d})
         /\ synced' = synced \cup ({d} \ {Blank})
    /\ UNCHANGED <<marker, rows, pc, loc, starts, rebuilds, disturbed>>

(* rebuild, first step: DELETE FROM docs, committed.                       *)
Clear(p) ==
    /\ pc[main(p)] = "up"
    /\ rebuilds < MaxRebuilds
    /\ rebuilds' = rebuilds + 1
    /\ docs' = {}
    /\ disturbed' = (disturbed \/ \E t \in Thread : Busy(t))
    /\ Goto(main(p), "reset")
    /\ UNCHANGED <<marker, rows, loc, starts, synced>>

(* Mutated ResetCursor: the flag is reset and the cursor is not.           *)
ResetFlagOnly(p) ==
    LET t == main(p) IN
    /\ pc[t] = "reset"
    /\ StartWrite(t, [marker EXCEPT !.complete = FALSE], "rfiles")
    /\ UNCHANGED <<marker, docs, rows, starts, rebuilds, synced, disturbed>>

(* rebuild, second step: reset the cursor and the flag in the marker.      *)
ResetCursor(p) ==
    LET t == main(p) IN
    /\ pc[t] = "reset"
    /\ StartWrite(t, [marker EXCEPT !.cursor = 0, !.complete = FALSE], "rfiles")
    /\ UNCHANGED <<marker, docs, rows, starts, rebuilds, synced, disturbed>>

(* shutdown: the join gave up or had nothing to wait for; close the store. *)
Shutdown(p) ==
    /\ pc[main(p)] = "up"
    /\ Goto(main(p), "closed")
    /\ UNCHANGED <<marker, docs, rows, loc, starts, rebuilds, synced, disturbed>>

(* The process ends, by itself or killed: both threads are gone.           *)
Exit(p) ==
    /\ pc[main(p)] # "off"
    /\ pc' = [pc EXCEPT ![main(p)] = "off", ![bg(p)] = "off"]
    /\ loc' = [loc EXCEPT ![main(p)] = NoLocal, ![bg(p)] = NoLocal]
    /\ disturbed' = (disturbed \/ Window(p))
    /\ UNCHANGED <<marker, docs, rows, starts, rebuilds, synced>>

(* External: the host appends to its session history.                      *)
HistoryGrows ==
    /\ rows < MaxRows
    /\ rows' = rows + 1
    /\ UNCHANGED <<marker, docs, pc, loc, starts, rebuilds, synced, disturbed>>

-------------------------------------------------------------------------------
(* One step of the code a thread is in the middle of.                      *)
MainStep(p) == Boot(p) \/ IndexFiles(p) \/ Spawn(p) \/ MarkComplete(p) \/ ResetCursor(p)

ThreadStep(t) == \/ Truncate(t) \/ Write(t)
                 \/ ReadState(t) \/ Fetch(t) \/ IndexRow(t) \/ EndBatch(t)
                 \/ ClosedUnderWorker(t)

Next ==
    \/ \E p \in Proc : \/ Initialize(p) \/ MainStep(p) \/ SyncTurn(p)
                       \/ Clear(p) \/ Shutdown(p) \/ Exit(p)
    \/ \E t \in Thread : ThreadStep(t) \/ WorkerRaises(t)
    \/ HistoryGrows

Spec == Init /\ [][Next]_vars

(* A running thread is scheduled: nothing else is assumed to happen.       *)
FairSpec ==
    /\ Spec
    /\ \A p \in Proc : WF_vars(MainStep(p))
    /\ \A t \in Thread : WF_vars(ThreadStep(t))

-------------------------------------------------------------------------------
Quiet == ~disturbed /\ \A p \in Proc : ~Window(p)

Indexed(r) == Content[r] \in docs \cup {Blank}

CursorIndexed == \A r \in 1..marker.cursor : Indexed(r)

HistoryIndexed == \A r \in 1..OldRows : Indexed(r)

LocalsInHistory ==
    \A t \in Thread : /\ loc[t].st.cursor <= rows
                      /\ loc[t].upto <= rows
                      /\ pc[t] = "index" => loc[t].at >= 1

(* Type invariant: the marker never points past the history, and the       *)
(* locals of a worker stay inside it.                                      *)
TypeOK ==
    /\ marker \in Marker /\ marker.cursor <= rows
    /\ docs \subseteq Doc /\ Blank \notin docs
    /\ rows \in OldRows..MaxRows
    /\ pc \in [Thread -> PC]
    /\ loc \in [Thread -> Local]
    /\ LocalsInHistory
    /\ starts \in 0..MaxStarts
    /\ rebuilds \in 0..MaxRebuilds
    /\ synced \subseteq Turns
    /\ disturbed \in BOOLEAN

(* Resuming is sound (__init__.py:712-715, 737-751): every history row at  *)
(* or below the durable cursor is in the recall index, so no restart ever  *)
(* skips a row - with several processes writing the marker back whole,     *)
(* torn markers, dying workers and closed databases, as long as no rebuild *)
(* overlapped another thread or was cut short before its cursor reset.     *)
ResumeSound == Quiet => CursorIndexed

(* The completion flag, which takes the "backfill in progress" note away   *)
(* (__init__.py:705-707, 837), is honest when every process has a source:  *)
(* once it is set all the history that predates the plugin can be found,   *)
(* whatever stale marker a slower worker of another process wrote back.    *)
NoteHonest ==
    (Sourced = Proc /\ Quiet /\ marker.complete) => HistoryIndexed

(* A provider that is up can find every cold file (__init__.py:275-281 and *)
(* 1064): indexing precedes the first turn, and a rebuild that cleared the *)
(* index while other providers were up puts the files back.                *)
ColdFilesFound ==
    (Quiet /\ \E p \in Proc : pc[main(p)] = "up") => Files \ {Blank} \subseteq docs

(* A backfill that starts comes to an end (__init__.py:737-751): unless    *)
(* its thread dies of an exception, its process goes away, or a rebuild    *)
(* was disturbed, all the old history becomes searchable - although other  *)
(* processes can push the shared cursor backwards under the worker.        *)
BackfillFinishes ==
    \A p \in Sourced :
        pc[bg(p)] = "read" ~>
            \/ HistoryIndexed
            \/ disturbed
            \/ pc[bg(p)] = "dead"
            \/ pc[main(p)] \in {"off", "closed"}

-------------------------------------------------------------------------------
(* What the documentation says and the code does not do (Divergences in    *)
(* the README).                                                            *)

(* README.md:102: mem_search carries the note "while history indexing is   *)
(* still catching up", so an agent that is up and sees a complete marker   *)
(* has its history indexed.                                                *)
CompleteMeansCaughtUp ==
    (marker.complete /\ \E p \in Sourced : pc[main(p)] = "up") => HistoryIndexed

(* __init__.py:1059: "Reset the backfill cursor so history is re-indexed   *)
(* from the start": with every provider up and none rebuilding, no row at  *)
(* or below the cursor is missing from the index.                          *)
HistoryReindexed == (\A p \in Proc : pc[main(p)] = "up") => CursorIndexed

(* cli.py:232, README.md:154: rebuild is "non-destructive": with every     *)
(* provider up and none rebuilding, a turn that was indexed is searchable. *)
RebuildKeepsTurns == (\A p \in Proc : pc[main(p)] = "up") => synced \subseteq docs

-------------------------------------------------------------------------------
(* Why resuming is sound.  Outside a rebuild's window every cursor in the  *)
(* system, durable or carried by a thread that may still write it back, is *)
(* covered by the index, and the batch being indexed is covered up to the  *)
(* row it has reached.  Inside a window nobody else is in the middle of    *)
(* anything, and the window is left with a cursor of zero.                 *)
IndexedUpTo(n) == \A r \in 1..n : Indexed(r)

CarriedIndexed ==
    Quiet => \A t \in Thread :
        /\ pc[t] \in {"fetch", "index", "trunc", "write"} => IndexedUpTo(loc[t].st.cursor)
        /\ pc[t] = "index" => IndexedUpTo(loc[t].at - 1)

WindowAlone ==
    ~disturbed => \A p \in Proc : \A t \in Thread :
        (Window(p) /\ t # main(p)) => ~Busy(t)

WindowEndsAtZero ==
    ~disturbed => \A p \in Proc :
        /\ (pc[main(p)] \in {"trunc", "write"} /\ loc[main(p)].ret = "rfiles")
              => loc[main(p)].st.cursor = 0
        /\ pc[main(p)] = "rfiles" => marker.cursor = 0

CursorInv == ResumeSound /\ CarriedIndexed /\ WindowAlone /\ WindowEndsAtZero

(* Why the flag is honest.  Where every process has a source, nobody marks *)
(* completion without having looked; a flag that a thread carries is true  *)
(* of the index; a batch that is not full reaches past the old history;    *)
(* and a rebuild leaves its window with the flag off.                      *)
FlagCarried ==
    Quiet => \A t \in Thread :
        (pc[t] \in {"fetch", "index", "trunc", "write"} /\ loc[t].st.complete) => HistoryIndexed

ShortBatchIsLast ==
    \A t \in Thread : pc[t] = "index" =>
        loc[t].upto >= OldRows \/ loc[t].upto - loc[t].st.cursor >= Batch

WindowEndsUnflagged ==
    ~disturbed => \A p \in Proc :
        /\ (pc[main(p)] \in {"trunc", "write"} /\ loc[main(p)].ret = "rfiles")
              => ~loc[main(p)].st.complete
        /\ pc[main(p)] = "rfiles" => ~marker.complete

FlagInv == Sourced = Proc =>
    /\ NoteHonest /\ FlagCarried /\ ShortBatchIsLast /\ WindowEndsUnflagged
    /\ \A t \in Thread : pc[t] # "mark"

(* Why the cold files are found.  A process past the indexing in its       *)
(* initialize has them in the index, outside the windows of rebuilds.      *)
PastFiles(p) ==
    /\ pc[main(p)] \notin {"off", "boot", "files"}
    /\ pc[main(p)] \in {"trunc", "write"} => loc[main(p)].ret # "files"

FilesInv == (Quiet /\ \E p \in Proc : PastFiles(p)) => Files \ {Blank} \subseteq docs

===============================================================================
