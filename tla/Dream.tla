--------------------------------- MODULE Dream ---------------------------------
(***************************************************************************)
(* Dream consolidation (mem4/dream.py) with its triggers in the provider   *)
(* (mem4/__init__.py): on_memory_write, sync_turn and the session          *)
(* boundaries initialize, on_session_end, on_pre_compress.                 *)
(*                                                                         *)
(* Several processes share one mem4 directory: a mirror log (append-only   *)
(* but for the consolidation, which rewrites it), an archive, the marker   *)
(* .dream_state.json and the lock file .dream.lock.  Every file operation  *)
(* is a step of its own; a process can be killed, and a consolidation can  *)
(* raise, between any two.                                                 *)
(*                                                                         *)
(* Abstractions.  One mirror log stands for the two (memory, user), which  *)
(* are compacted one after the other in the same way.  Time is kept as     *)
(* ages that a Tick advances and that stop counting where nothing can tell *)
(* them apart any more.  The marker keeps the signal count, up to the      *)
(* threshold, and the age of pending_since, 0 when nothing is pending; the *)
(* run counter and last_consolidation_at are left out, the latter because  *)
(* a marker with signals always has its pending_since.  A marker that does *)
(* not parse reads as a fresh one.  A mirrored text is an entry, or two    *)
(* where a line of it reads as a header; an entry may then have no body.   *)
(***************************************************************************)
EXTENDS Integers, Sequences, FiniteSets

CONSTANTS
    Proc,        \* processes with the provider loaded
    Entry,       \* mirror entries: header and body
    BodyOf,      \* the body of an entry
    NoBody,      \* the body of an entry with nothing in it
    Threshold,   \* DreamProcessor.threshold
    Staleness,   \* DreamProcessor.staleness, in ticks
    LockStale,   \* LOCK_STALE_SECONDS, in ticks
    MaxDelay,    \* bound: ticks one maybe_consolidate call can take
    MaxLog,      \* bound: entries in the mirror log
    MaxCrashes,  \* bound: processes killed
    MaxRaises    \* bound: consolidations that raise, reads that fail

ASSUME ProcAssumption == IsFiniteSet(Proc)
ASSUME BodyAssumption == DOMAIN BodyOf = Entry
ASSUME TriggerAssumption == Threshold \in Nat \ {0} /\ Staleness \in Nat
ASSUME TimeAssumption == LockStale \in Nat /\ MaxDelay \in Nat
ASSUME BoundAssumption == MaxLog \in Nat /\ MaxCrashes \in Nat /\ MaxRaises \in Nat

VARIABLES
    mirror,      \* the mirror log
    archive,     \* bodies in the archive file of each stamp, by the stamp's age
    state,       \* the marker file
    lock,        \* age of the lock file, or NoLock
    pc,          \* what each process is about to do
    loc,         \* the locals of each process
    crashes, raises,
    logged,      \* bodies ever appended to the mirror
    interfered,  \* a compaction met another writer of the same file
    robbed,      \* a lock was stolen from a live holder
    torn,        \* a process was killed half-way through saving the marker
    misread,     \* a call went on although it could not read a file
    owed         \* signals recorded since the last consolidation, to Threshold

vars == <<mirror, archive, state, lock, pc, loc, crashes, raises,
          logged, interfered, robbed, torn, misread, owed>>
history == <<crashes, raises, logged, interfered, robbed, torn, misread, owed>>

-------------------------------------------------------------------------------
NoLock  == -1
LockCap == LockStale + 1 + MaxDelay
Old     == MaxDelay + 1          \* a stamp no running call can use again

State == [sig : 0..Threshold, age : 0..Staleness]
Fresh == [sig |-> 0, age |-> 0]

(* The stretch between taking the lock and releasing it, and, within it,   *)
(* the stretch between reading the mirror and having rewritten it.  skip:  *)
(* the mirror could not be read, and the run saves as if it had been.      *)
Section == {"read", "archive", "empty", "fill", "save", "skip", "release"}
Holding == {"archive", "empty", "fill"}
Timed   == {"lock", "stat", "steal", "create"} \cup Section
PC      == {"idle", "rload", "rempty", "rfill", "load"} \cup Timed

Local == [st : State, raw : Seq(Entry), age : 0..MaxDelay, then : {"load", "idle"}]
NoLocal == [st |-> Fresh, raw |-> <<>>, age |-> 0, then |-> "idle"]

Bodies(log) == {BodyOf[log[i]] : i \in DOMAIN log} \ {NoBody}
Archived == UNION {archive[a] : a \in 0..Old}

(* Mutated Insert: of two entries with the same body the older is kept.    *)
InsertOldest(dict, e) ==
    IF BodyOf[e] \in Bodies(dict) \cup {NoBody} THEN dict ELSE Append(dict, e)

(* The dict of _compact_mirror_file, keyed by body: an entry of a body it   *)
(* has takes that body's place, one of a new body goes to the end, one     *)
(* without a body is left out.                                             *)
Insert(dict, e) ==
    IF BodyOf[e] \in Bodies(dict)
      THEN [i \in DOMAIN dict |-> IF BodyOf[dict[i]] = BodyOf[e] THEN e ELSE dict[i]]
      ELSE IF BodyOf[e] = NoBody THEN dict ELSE Append(dict, e)

DictAfter(log) ==
    LET dict[n \in 0..Len(log)] ==
          IF n = 0 THEN <<>> ELSE Insert(dict[n - 1], log[n])
    IN  dict

Dedup(log) == DictAfter(log)[Len(log)]

Minimal(log) == Cardinality(Bodies(log)) = Len(log)

(* What is mirrored at once.                                               *)
Texts == {<<e>> : e \in {f \in Entry : BodyOf[f] # NoBody}}
            \cup {<<e, f>> : e \in {g \in Entry : BodyOf[g] # NoBody}, f \in Entry}

Init ==
    /\ mirror = <<>>
    /\ archive = [a \in 0..Old |-> {}]
    /\ state = Fresh
    /\ lock = NoLock
    /\ pc = [p \in Proc |-> "idle"]
    /\ loc = [p \in Proc |-> NoLocal]
    /\ crashes = 0 /\ raises = 0
    /\ logged = {}
    /\ interfered = FALSE /\ robbed = FALSE /\ torn = FALSE /\ misread = FALSE
    /\ owed = 0

(* One more, up to a cap: ages and counts stop where no test can tell them *)
(* from larger ones.                                                       *)
Older(n, cap) == IF n < cap THEN n + 1 ELSE n

Goto(p, l) == pc' = [pc EXCEPT ![p] = l]
Return(p)  == Goto(p, "idle") /\ loc' = [loc EXCEPT ![p] = NoLocal]

-------------------------------------------------------------------------------
(* The calls the host makes                                                *)

(* on_memory_write: append a text to the mirror, then record_signal and    *)
(* maybe_consolidate.  The text is not empty, so its first entry has a     *)
(* body.  (If the append fails, the rest is SyncTurn and Boundary.)        *)
OnMemoryWrite(p) ==
    /\ pc[p] = "idle"
    /\ \E text \in Texts :
         /\ Len(mirror) + Len(text) <= MaxLog
         /\ mirror' = mirror \o text
         /\ logged' = logged \cup Bodies(text)
    /\ interfered' = (interfered \/ \E q \in Proc : pc[q] \in Holding)
    /\ Goto(p, "rload")
    /\ loc' = [loc EXCEPT ![p].then = "load"]
    /\ UNCHANGED <<archive, state, lock, crashes, raises, robbed, torn, misread, owed>>

(* sync_turn: record_signal only.                                          *)
SyncTurn(p) ==
    /\ pc[p] = "idle"
    /\ Goto(p, "rload")
    /\ UNCHANGED <<mirror, archive, state, lock, loc, history>>

(* initialize, on_session_end and on_pre_compress: maybe_consolidate only. *)
Boundary(p) ==
    /\ pc[p] = "idle"
    /\ Goto(p, "load")
    /\ UNCHANGED <<mirror, archive, state, lock, loc, history>>

-------------------------------------------------------------------------------
(* record_signal(1): load, add, save - a write that truncates first.       *)

(* Mutated Signalled: the count goes on past the last number a test tells  *)
(* from the others.                                                        *)
SignalledOn(s) == [sig |-> s.sig + 1, age |-> IF s.sig = 0 THEN 0 ELSE s.age]

Signalled(s) == [sig |-> Older(s.sig, Threshold),
                 age |-> IF s.sig = 0 THEN 0 ELSE s.age]

RecordLoad(p) ==
    /\ pc[p] = "rload"
    /\ loc' = [loc EXCEPT ![p].st = Signalled(state)]
    /\ Goto(p, "rempty")
    /\ UNCHANGED <<mirror, archive, state, lock, history>>

(* load: a marker that cannot be read is taken for a fresh one.            *)
RecordMisread(p) ==
    /\ pc[p] = "rload"
    /\ raises < MaxRaises /\ raises' = raises + 1
    /\ loc' = [loc EXCEPT ![p].st = Signalled(Fresh)]
    /\ misread' = TRUE
    /\ Goto(p, "rempty")
    /\ UNCHANGED <<mirror, archive, state, lock, crashes, logged, interfered, robbed, torn, owed>>

RecordTruncate(p) ==
    /\ pc[p] = "rempty"
    /\ state' = Fresh
    /\ Goto(p, "rfill")
    /\ UNCHANGED <<mirror, archive, lock, loc, history>>

RecordSave(p) ==
    /\ pc[p] = "rfill"
    /\ state' = loc[p].st
    /\ Goto(p, loc[p].then)
    /\ loc' = [loc EXCEPT ![p] = NoLocal]
    /\ owed' = Older(owed, Threshold)
    /\ UNCHANGED <<mirror, archive, lock, crashes, raises, logged, interfered, robbed, torn,
                   misread>>

-------------------------------------------------------------------------------
(* maybe_consolidate: `now` and the marker are read before the lock.       *)

(* Mutated ShouldRun: without the staleness floor.                         *)
ShouldRunFull(s) == s.sig >= Threshold

ShouldRun(s) == s.sig > 0 /\ (s.sig >= Threshold \/ s.age >= Staleness)

Load(p) ==
    /\ pc[p] = "load"
    /\ Goto(p, IF ShouldRun(state) THEN "lock" ELSE "idle")
    /\ UNCHANGED <<mirror, archive, state, lock, loc, history>>

(* Mutated TryLock: without O_EXCL.                                        *)
TryLockShared(p) ==
    /\ pc[p] = "lock"
    /\ lock' = 0 /\ Goto(p, "read")
    /\ UNCHANGED <<mirror, archive, state, loc, history>>

(* _acquire_lock: O_CREAT|O_EXCL, else look at the lock's age.             *)
TryLock(p) ==
    /\ pc[p] = "lock"
    /\ IF lock = NoLock THEN lock' = 0 /\ Goto(p, "read")
                        ELSE UNCHANGED lock /\ Goto(p, "stat")
    /\ UNCHANGED <<mirror, archive, state, loc, history>>

(* Mutated LockIsStale: a lock is stale at LOCK_STALE_SECONDS; at any age. *)
LockIsStaleEarly(p) == lock # NoLock /\ lock - loc[p].age >= LockStale
LockIsAlwaysStale(p) == lock # NoLock

(* Mutated Stat: a stale lock is respected.                                *)
StatGivesUp(p) ==
    /\ pc[p] = "stat"
    /\ Return(p)
    /\ UNCHANGED <<mirror, archive, state, lock, history>>

(* The lock file's age as of this call's `now`.                            *)
LockIsStale(p) == lock # NoLock /\ lock - loc[p].age > LockStale

Stat(p) ==
    /\ pc[p] = "stat"
    /\ IF LockIsStale(p) THEN Goto(p, "steal") /\ UNCHANGED loc ELSE Return(p)
    /\ UNCHANGED <<mirror, archive, state, lock, history>>

(* The unlink of a stale lock: of whatever lock is there by now.           *)
Steal(p) ==
    /\ pc[p] = "steal"
    /\ IF lock = NoLock
         THEN Return(p) /\ UNCHANGED <<lock, robbed>>
         ELSE /\ lock' = NoLock
              /\ robbed' = (robbed \/ \E q \in Proc : pc[q] \in Section)
              /\ Goto(p, "create")
              /\ UNCHANGED loc
    /\ UNCHANGED <<mirror, archive, state, crashes, raises, logged, interfered, torn, misread,
                   owed>>

Create(p) ==
    /\ pc[p] = "create"
    /\ IF lock = NoLock THEN lock' = 0 /\ Goto(p, "read") /\ UNCHANGED loc
                        ELSE UNCHANGED lock /\ Return(p)
    /\ UNCHANGED <<mirror, archive, state, history>>

-------------------------------------------------------------------------------
(* _consolidate and _compact_mirror_file                                   *)

(* Mutated Read: the original is not archived.                             *)
ReadNoArchive(p) ==
    /\ pc[p] = "read"
    /\ IF Minimal(mirror)
         THEN Goto(p, "save") /\ UNCHANGED loc
         ELSE Goto(p, "empty") /\ loc' = [loc EXCEPT ![p].raw = mirror]
    /\ UNCHANGED <<mirror, archive, state, lock, history>>

Read(p) ==
    /\ pc[p] = "read"
    /\ IF Minimal(mirror)
         THEN Goto(p, "save") /\ UNCHANGED loc
         ELSE Goto(p, "archive") /\ loc' = [loc EXCEPT ![p].raw = mirror]
    /\ UNCHANGED <<mirror, archive, state, lock, history>>

(* Neither can the mirror be read: nothing is compacted.                   *)
ReadFails(p) ==
    /\ pc[p] = "read"
    /\ raises < MaxRaises /\ raises' = raises + 1
    /\ misread' = TRUE
    /\ Goto(p, "skip")
    /\ UNCHANGED <<mirror, archive, state, lock, loc, crashes, logged, interfered, robbed, torn,
                   owed>>

(* The archive file of this call's stamp is written, over any other call's *)
(* of the same second.                                                     *)
Archive(p) ==
    LET a == loc[p].age
        b == Bodies(loc[p].raw)
    IN
    /\ pc[p] = "archive"
    /\ archive' = [archive EXCEPT ![a] = b]
    /\ interfered' = (interfered \/ ~(archive[a] \subseteq b))
    /\ Goto(p, "empty")
    /\ UNCHANGED <<mirror, state, lock, loc, crashes, raises, logged, robbed, torn, misread, owed>>

(* path.write_text(rendered): truncate, then write.                        *)
Empty(p) ==
    /\ pc[p] = "empty"
    /\ mirror' = <<>>
    /\ interfered' = (interfered \/ \E q \in Proc \ {p} : pc[q] \in Holding)
    /\ Goto(p, "fill")
    /\ UNCHANGED <<archive, state, lock, loc, crashes, raises, logged, robbed, torn, misread, owed>>

Fill(p) ==
    /\ pc[p] = "fill"
    /\ mirror' = Dedup(loc[p].raw)
    /\ interfered' = (interfered \/ \E q \in Proc \ {p} : pc[q] \in Holding)
    /\ Goto(p, "save")
    /\ loc' = [loc EXCEPT ![p].raw = <<>>]
    /\ UNCHANGED <<archive, state, lock, crashes, raises, logged, robbed, torn, misread, owed>>

(* Mutated Save: the signals are left in the marker.                       *)
SaveWithSignals(p) ==
    /\ pc[p] \in {"save", "skip"}
    /\ owed' = (IF pc[p] = "save" THEN 0 ELSE owed)
    /\ Goto(p, "release")
    /\ UNCHANGED <<mirror, archive, state, lock, loc, crashes, raises, logged, interfered, robbed,
                   torn, misread>>

(* self.save of the state loaded before the lock, its signals zeroed.      *)
Save(p) ==
    /\ pc[p] \in {"save", "skip"}
    /\ state' = Fresh
    /\ owed' = (IF pc[p] = "save" THEN 0 ELSE owed)
    /\ Goto(p, "release")
    /\ UNCHANGED <<mirror, archive, lock, loc, crashes, raises, logged, interfered, robbed, torn,
                   misread>>

(* _release_lock unlinks whatever lock is there.                           *)
Release(p) ==
    /\ pc[p] = "release"
    /\ lock' = NoLock
    /\ Return(p)
    /\ UNCHANGED <<mirror, archive, state, history>>

(* A file operation of the consolidation raises: `finally` releases.       *)
Raise(p) ==
    /\ pc[p] \in Section \ {"release"}
    /\ raises < MaxRaises
    /\ raises' = raises + 1
    /\ Goto(p, "release")
    /\ loc' = [loc EXCEPT ![p].raw = <<>>]
    /\ UNCHANGED <<mirror, archive, state, lock, crashes, logged, interfered, robbed, torn,
                   misread, owed>>

-------------------------------------------------------------------------------
(* The process is killed; it will be started again.  An error that ends a  *)
(* call early, and is swallowed, has the same effect: while a signal is    *)
(* recorded, the lock is taken (then the call gives up) or removed.        *)
Crash(p) ==
    /\ pc[p] # "idle"
    /\ crashes < MaxCrashes
    /\ crashes' = crashes + 1
    /\ torn' = (torn \/ pc[p] = "rfill")
    /\ Return(p)
    /\ UNCHANGED <<mirror, archive, state, lock, raises, logged, interfered, robbed, misread, owed>>

(* Time passes: for the marker, copies of it, the lock, the archive stamps *)
(* and the calls under way, none of which outlives MaxDelay.               *)
Tick ==
    /\ \A p \in Proc : pc[p] \in Timed => loc[p].age < MaxDelay
    /\ state' = [state EXCEPT !.age = IF state.sig = 0 THEN @ ELSE Older(@, Staleness)]
    /\ lock' = IF lock = NoLock THEN lock ELSE Older(lock, LockCap)
    /\ archive' = [a \in 0..Old |->
                     (IF a = 0 THEN {} ELSE archive[a - 1])
                       \cup (IF a = Old THEN archive[Old] ELSE {})]
    /\ loc' = [p \in Proc |->
                 [loc[p] EXCEPT
                    !.age = IF pc[p] \in Timed THEN @ + 1 ELSE @,
                    !.st.age = IF loc[p].st.sig = 0 THEN @ ELSE Older(@, Staleness)]]
    /\ UNCHANGED <<mirror, pc, history>>

-------------------------------------------------------------------------------
Step(p) ==
    \/ RecordLoad(p) \/ RecordTruncate(p) \/ RecordSave(p)
    \/ Load(p) \/ TryLock(p) \/ Stat(p) \/ Steal(p) \/ Create(p)
    \/ Read(p) \/ Archive(p) \/ Empty(p) \/ Fill(p) \/ Save(p) \/ Release(p)

Next ==
    \/ \E p \in Proc : \/ OnMemoryWrite(p) \/ SyncTurn(p) \/ Boundary(p)
                       \/ Step(p) \/ RecordMisread(p) \/ ReadFails(p) \/ Raise(p) \/ Crash(p)
    \/ Tick

Spec == Init /\ [][Next]_vars

(* Threads are scheduled, time passes, and sessions begin and end again    *)
(* and again, of whichever process, whatever else they are doing.          *)
FairSpec ==
    /\ Spec
    /\ WF_vars(Tick)
    /\ \A p \in Proc : WF_vars(Step(p))
    /\ SF_vars(\E p \in Proc : Boundary(p))

-------------------------------------------------------------------------------
InSection(p) == pc[p] \in Section
AllIdle == \A p \in Proc : pc[p] = "idle"
Known == Bodies(mirror) \cup Archived

(* Type invariant: nobody can hold a mirror text in its hands unless it is *)
(* compacting, and no age runs past what the tests of the code can tell.   *)
TypeOK ==
    /\ mirror \in Seq(Entry)
    /\ archive \in [0..Old -> SUBSET {BodyOf[e] : e \in Entry}]
    /\ state \in State
    /\ lock \in {NoLock} \cup 0..LockCap
    /\ pc \in [Proc -> PC]
    /\ loc \in [Proc -> Local]
    /\ crashes \in 0..MaxCrashes /\ raises \in 0..MaxRaises
    /\ logged \subseteq {BodyOf[e] : e \in Entry}
    /\ interfered \in BOOLEAN /\ robbed \in BOOLEAN /\ torn \in BOOLEAN /\ misread \in BOOLEAN
    /\ owed \in 0..Threshold

(* Archive first (dream.py:283-291): every text ever mirrored is in the    *)
(* mirror or in the archive at every instant, crashes and failing writes   *)
(* included, as long as no other writer met the compaction.                *)
BodiesKept == ~interfered => logged \subseteq Known

(* One process never gets in its own way: the stamp of an archive (to the  *)
(* second, dream.py:287) is not reused harmfully even by the run that      *)
(* follows a killed one, because the lock it left has to grow stale first. *)
AloneNeverInterferes == (Cardinality(Proc) = 1 /\ raises = 0) => ~interfered

(* The lock excludes (dream.py:219-241) until somebody steals it from a    *)
(* live holder: at most one consolidation at a time, its lock file there.  *)
MutualExclusion ==
    ~robbed => \A p, q \in Proc :
        InSection(p) => (lock # NoLock /\ (InSection(q) => p = q))

(* Stealing is for crashed runs (dream.py:55): when no run has crashed and *)
(* none takes longer than LOCK_STALE_SECONDS, no live holder is robbed,    *)
(* although the age is measured from a `now` read before the lock.         *)
PromptHoldersKeepTheLock == (crashes = 0 /\ MaxDelay <= LockStale) => ~robbed

(* A single process that saves its marker whole and can read its files     *)
(* counts exactly: between calls the marker has the signals recorded since *)
(* the last consolidation, however many runs were skipped, locked out,     *)
(* killed or raised.                                                       *)
CountExactAlone ==
    (Cardinality(Proc) = 1 /\ AllIdle /\ ~torn /\ ~misread) => state.sig = owed

Recording == \E p \in Proc : pc[p] \in {"rload", "rempty", "rfill"}
Consolidating == \E p \in Proc : pc[p] = "save"
Skipping == \E p \in Proc : pc[p] = "skip"

(* Pending material is consolidated in the end (dream.py:12-14, 172-187):  *)
(* by threshold or by age, past runs that raised, past markers that could  *)
(* not be read and past a lock left behind by a crash.  Two misfortunes    *)
(* clear the signals instead: a crash that tears the marker, and a run     *)
(* that cannot read the mirror and saves as if it had (270-271, 206-210).  *)
PendingIsConsolidated == state.sig > 0 ~> (torn \/ Skipping \/ Consolidating)

(* With several processes the same holds once they pause: signals that are *)
(* pending while nobody records another are consolidated, whoever holds a  *)
(* stale copy of the marker, dies with the lock or steals it.              *)
PauseConsolidates ==
    (state.sig > 0 /\ ~Recording) ~> (torn \/ Skipping \/ Consolidating \/ Recording)

(* What a compaction keeps (dream.py:275-281): of every text exactly its   *)
(* newest entry, texts in the order they were first mirrored, and none of  *)
(* the entries without a body; and a log is left alone just when rewriting *)
(* it would change nothing.                                                *)
CompactionExact ==
    LET d        == Dedup(mirror)
        newest   == {k \in DOMAIN mirror : /\ BodyOf[mirror[k]] # NoBody
                                           /\ \A j \in (k + 1)..Len(mirror) :
                                                BodyOf[mirror[j]] # BodyOf[mirror[k]]}
        first(e) == CHOOSE k \in DOMAIN mirror :
                      /\ BodyOf[mirror[k]] = BodyOf[e]
                      /\ \A j \in 1..(k - 1) : BodyOf[mirror[j]] # BodyOf[e]
    IN  /\ {d[i] : i \in DOMAIN d} = {mirror[k] : k \in newest}
        /\ \A i, j \in DOMAIN d : i < j => first(d[i]) < first(d[j])
        /\ Minimal(mirror) <=> (d = mirror)

(* The mirror and its archive implement the store they promise to be, for  *)
(* as long as no other writer meets a compaction, through kills between    *)
(* archiving, truncating and rewriting (dream.py:283-291): a memory write  *)
(* adds its text, and no other step of anybody adds or loses one.          *)
Promise == INSTANCE MirrorPromise
             WITH known <- Known, kept <- ~interfered,
                  Body <- {BodyOf[e] : e \in Entry} \ {NoBody}
KeepsPromise == Promise!Spec

-------------------------------------------------------------------------------
(* What the comments say and the code does not do (README, Divergences).   *)

(* dream.py:283-284: the original is archived first "so no information is  *)
(* ever lost to consolidation".                                            *)
NothingEverLost == logged \subseteq Known

(* dream.py:27-28: marker and lock make the paths "mutually exclusive so   *)
(* one startup never double-runs" (tests/test_mem4_dream.py:95 tests it):  *)
(* two consolidations are never under way together.                        *)
NeverTwoRuns == \A p, q \in Proc : (InSection(p) /\ InSection(q)) => p = q

(* dream.py:15: "no pending signal => nothing to consolidate => skip": a   *)
(* run that takes the lock, nobody else being busy, finds a signal in the  *)
(* marker.                                                                 *)
NoIdleRun ==
    [][\A p \in Proc :
         (~InSection(p) /\ InSection(p)' /\ \A q \in Proc \ {p} : pc[q] = "idle")
            => state.sig > 0]_vars

(* dream.py:10-11: on_memory_write and indexed turns "accumulate a signal  *)
(* count": between calls no recorded signal is missing from the marker.    *)
EverySignalCounts == (AllIdle /\ ~torn) => state.sig >= owed

-------------------------------------------------------------------------------
(* Why nothing is lost.  While no other writer meets a compaction, what it *)
(* has read is what the mirror holds until it empties it, and everything   *)
(* it has read is in an archive before that.                               *)
HandsMatch ==
    \A p \in Proc :
        /\ pc[p] \in {"archive", "empty"} => loc[p].raw = mirror
        /\ pc[p] \in {"empty", "fill"} => Bodies(loc[p].raw) \subseteq Archived
        /\ pc[p] = "fill" => mirror = <<>>

KeepInv == ~interfered => (logged \subseteq Known /\ HandsMatch)

(* Why a prompt holder keeps its lock: without a crash a lock is always    *)
(* somebody's, and no older than its holder's call.                        *)
LockHeld ==
    lock # NoLock => \E p \in Proc : InSection(p) /\ lock <= loc[p].age

PromptInv ==
    (crashes = 0 /\ MaxDelay <= LockStale) =>
        (~robbed /\ LockHeld /\ \A p \in Proc : pc[p] # "steal")

(* Why one process counts exactly: its marker lags behind only while it is *)
(* being rewritten, and what is about to be written does not.              *)
CountInv ==
    (Cardinality(Proc) = 1 /\ ~torn /\ ~misread) => \A p \in Proc :
        /\ pc[p] # "skip"
        /\ pc[p] # "rfill" => state.sig = owed
        /\ pc[p] \in {"rempty", "rfill"} => loc[p].st.sig = Older(owed, Threshold)

(* Why one process never gets in its own way.  An archive younger than the *)
(* longest call that has a text which the mirror (or, while that is being  *)
(* rewritten, the call's hands) lacks was left by a killed run.  It is at  *)
(* least as old as the lock of that run, which in turn must be older than  *)
(* the call that steals it; hence it is not of that call's second.         *)
LockedOut(p) == lock # NoLock /\ ~InSection(p)

Lost(p) == {a \in 0..MaxDelay :
              ~(archive[a] \subseteq Bodies(IF pc[p] \in {"empty", "fill"} THEN loc[p].raw ELSE mirror))}

AloneAt(p) ==
    /\ pc[p] \notin Timed => loc[p].age = 0
    /\ InSection(p) => lock # NoLock /\ lock <= loc[p].age
    /\ \A a \in 0..MaxDelay : a < loc[p].age => archive[a] = {}
    /\ \A a \in Lost(p) :
         /\ LockedOut(p) => lock <= a
         /\ (~LockedOut(p) \/ pc[p] = "steal") => loc[p].age < a

AloneInv ==
    (Cardinality(Proc) = 1 /\ raises = 0) => ~interfered /\ \A p \in Proc : AloneAt(p)

===============================================================================
