------------------------------- MODULE Session --------------------------------
(***************************************************************************)
(* The sessions of one agent (mem4/__init__.py) and what they do, one      *)
(* after another, with an entry of MEMORY.md: mirrored when the memory     *)
(* tool writes it, moved to a microfile by a refine, indexed by the next   *)
(* initialize.  Beside them `hermes mem4 refine --apply`, and what `hermes *)
(* mem4 doctor` (mem4/doctor.py) says of Dream from the marker it left.    *)
(*                                                                         *)
(* initialize and rebuild are a step per part, between which the command   *)
(* can run and the process be killed; every other call is one step.        *)
(* Dream, Refine and Backfill look inside the calls, and at several agents *)
(* (so a rebuild beside a session is Backfill's, and here `hermes mem4     *)
(* rebuild` is a session of its own).                                      *)
(*                                                                         *)
(* Abstractions.  A file, or the index, is the set of the entries whose    *)
(* text it holds; MEMORY.md is those it holds in full, its pointers being  *)
(* left out.  A refine moves any of them.  The turns are only the signals  *)
(* they count.  Ages are in days and stop where nothing tells them apart.  *)
(* An option is read when it is used: another session may find another.    *)
(***************************************************************************)
EXTENDS Integers, FiniteSets

CONSTANTS
    Entry,       \* entries of MEMORY.md
    Threshold,   \* DreamProcessor.threshold
    Staleness,   \* DreamProcessor.staleness
    StaleAfter,  \* STALE_AFTER_DAYS
    MaxFaults    \* bound: kills, and starts that end inactive

ASSUME SessionAssumption ==
    /\ Threshold \in Nat \ {0} /\ Staleness \in Nat /\ StaleAfter \in Nat
    /\ MaxFaults \in Nat

VARIABLES
    memory,   \* MEMORY.md
    mirror,   \* the mirror log
    micro,    \* the microfiles
    index,    \* the recall index
    marker,   \* .mem4_state.json is there, and whole
    dream,    \* .dream_state.json
    pc,       \* where the provider is
    enabled,  \* memory.mem4.dream.enabled, as it has read it
    ran,      \* _ran_migration
    faults,   \* so far
    owed      \* entries a search of this session has to find: see ColdSearchable

files == <<memory, mirror, micro, index, marker, dream>>
vars == <<memory, mirror, micro, index, marker, dream, pc, enabled, ran, faults, owed>>

-------------------------------------------------------------------------------
Never == -1
Age   == {Never} \cup 0..(StaleAfter + 1)
Older(age) == IF age = Never \/ age > StaleAfter THEN age ELSE age + 1

(* runs: whether consolidation_count is above 0.                           *)
Dream == [signals : 0..Threshold, pending : Age, runs : BOOLEAN, last : Age]
Fresh == [signals |-> 0, pending |-> Never, runs |-> FALSE, last |-> Never]

(* shut: shutdown has closed the index, and the provider is still active.  *)
PC == {"down", "index", "dream", "refine", "open", "rebuild", "inactive", "shut"}
Busy     == {"index", "dream", "refine", "rebuild"}
Active   == {"open", "shut"}

Init ==
    /\ memory \in SUBSET Entry
    /\ mirror = {} /\ micro = {} /\ index = {}
    /\ marker = FALSE /\ dream = Fresh
    /\ pc = "down" /\ enabled = FALSE /\ ran = FALSE
    /\ faults = 0 /\ owed = {}

-------------------------------------------------------------------------------
(* record_signal and maybe_consolidate.  A consolidation that is due does  *)
(* not happen when the lock is held or it raises.                          *)
Signalled(d) ==
    [d EXCEPT !.signals = IF @ = Threshold THEN @ ELSE @ + 1,
              !.pending = IF @ = Never THEN 0 ELSE @]

ShouldRun(d) ==
    /\ d.signals > 0
    /\ \/ d.signals >= Threshold
       \/ LET since == IF d.pending # Never THEN d.pending ELSE d.last
          IN  since # Never /\ since >= Staleness

(* Mutated Consolidated: the surplus is carried over; pending_since stays. *)
ConsolidatedCarries(d) ==
    [signals |-> d.signals - Threshold, pending |-> Never, runs |-> TRUE, last |-> 0]
ConsolidatedPending(d) ==
    [signals |-> 0, pending |-> d.pending, runs |-> TRUE, last |-> 0]

Consolidated(d) == [signals |-> 0, pending |-> Never, runs |-> TRUE, last |-> 0]
Dreamt(d) == {d} \cup IF ShouldRun(d) THEN {Consolidated(d)} ELSE {}

(* Mutated OnDisk: the mirror is not read.                                 *)
OnDiskMicro == micro

(* What _index_microfiles reads.                                           *)
OnDisk == micro \cup mirror

(* apply and apply_if_changed: some entries leave MEMORY.md, or none does. *)
Moved(out) == memory' = memory \ out /\ micro' = micro \cup out

(* Whether initialize refines, given what persist_on_dream says.           *)
Persists(persist) == persist /\ (ran \/ enabled)

-------------------------------------------------------------------------------
(* Mutated Begin: a warm start raises.                                     *)
BeginCold ==
    /\ pc = "down"
    /\ pc' = (IF marker THEN "inactive" ELSE "index") /\ enabled' \in BOOLEAN
    /\ ran' = ~marker /\ marker' = TRUE
    /\ UNCHANGED <<memory, mirror, micro, index, dream, faults, owed>>

(* initialize: the backend and the marker; or a backend that is not there. *)
Begin ==
    /\ pc = "down"
    /\ pc' = "index" /\ enabled' \in BOOLEAN
    /\ ran' = ~marker /\ marker' = TRUE
    /\ UNCHANGED <<memory, mirror, micro, index, dream, faults, owed>>

BeginInactive ==
    /\ pc = "down" /\ faults < MaxFaults
    /\ pc' = "inactive" /\ faults' = faults + 1
    /\ UNCHANGED <<files, enabled, ran, owed>>

(* The index is opened and brought up to date.  From here on the provider  *)
(* is active, unless something raised.                                     *)
OpenIndex ==
    /\ pc = "index"
    /\ index' = index \cup OnDisk
    /\ owed' = micro
    /\ pc' = "dream"
    /\ UNCHANGED <<memory, mirror, micro, marker, dream, enabled, ran, faults>>

(* Some files are indexed, and the marker, written last, may be torn.      *)
CutShort ==
    /\ \E some \in SUBSET OnDisk : index' = index \cup some
    /\ marker' \in {marker, FALSE}

OpenRaises ==
    /\ pc = "index" /\ faults < MaxFaults
    /\ CutShort
    /\ pc' = "inactive" /\ faults' = faults + 1
    /\ UNCHANGED <<memory, mirror, micro, dream, enabled, ran, owed>>

StartDream ==
    /\ pc = "dream"
    /\ dream' \in IF enabled THEN Dreamt(dream) ELSE {dream}
    /\ pc' = "refine"
    /\ UNCHANGED <<memory, mirror, micro, index, marker, enabled, ran, faults, owed>>

PersistRefine ==
    /\ pc = "refine"
    /\ pc' = "open"
    /\ \E persist \in BOOLEAN :
         IF Persists(persist)
           THEN \E out \in SUBSET memory :
                   Moved(out) /\ owed' = owed \cup (out \cap mirror)
           ELSE UNCHANGED <<memory, micro, owed>>
    /\ UNCHANGED <<mirror, index, marker, dream, enabled, ran, faults>>

(* It raised, which initialize swallows: MEMORY.md is replaced last.       *)
RefineRaises ==
    /\ pc = "refine" /\ Persists(TRUE) /\ faults < MaxFaults
    /\ \E some \in SUBSET memory : micro' = micro \cup some
    /\ pc' = "open" /\ faults' = faults + 1
    /\ UNCHANGED <<memory, mirror, index, marker, dream, enabled, ran, owed>>

-------------------------------------------------------------------------------
(* The memory tool writes, and the host tells the provider:                *)
(* on_memory_write mirrors (a failure is swallowed), counts and may        *)
(* consolidate.                                                            *)
Write ==
    /\ pc \notin Busy
    /\ \E e \in Entry \ memory :
         /\ memory' = memory \cup {e}
         /\ mirror' \in {mirror} \cup IF pc \in Active THEN {mirror \cup {e}} ELSE {}
    /\ dream' \in IF pc \in Active /\ enabled THEN Dreamt(Signalled(dream)) ELSE {dream}
    /\ UNCHANGED <<micro, index, marker, pc, enabled, ran, faults, owed>>

Forget ==
    /\ pc \notin Busy
    /\ \E e \in memory : memory' = memory \ {e}
    /\ UNCHANGED <<mirror, micro, index, marker, dream, pc, enabled, ran, faults, owed>>

(* sync_turn: after shutdown the index refuses it, and it still counts.    *)
SyncTurn ==
    /\ pc \in Active /\ enabled
    /\ dream' = Signalled(dream)
    /\ UNCHANGED <<memory, mirror, micro, index, marker, pc, enabled, ran, faults, owed>>

(* on_session_end and on_pre_compress.                                     *)
Boundary ==
    /\ pc \in Active /\ enabled
    /\ dream' \in Dreamt(dream)
    /\ UNCHANGED <<memory, mirror, micro, index, marker, pc, enabled, ran, faults, owed>>

(* rebuild: the deletion is committed, then the marker written and the     *)
(* files indexed.                                                          *)
RebuildClear ==
    /\ pc = "open"
    /\ index' = {} /\ pc' = "rebuild"
    /\ UNCHANGED <<memory, mirror, micro, marker, dream, enabled, ran, faults, owed>>

RebuildIndex ==
    /\ pc = "rebuild"
    /\ index' = index \cup OnDisk /\ pc' = "open"
    /\ UNCHANGED <<memory, mirror, micro, marker, dream, enabled, ran, faults, owed>>

Shutdown ==
    /\ pc = "open"
    /\ pc' = "shut"
    /\ UNCHANGED <<files, enabled, ran, faults, owed>>

Over == pc' = "down" /\ enabled' = FALSE /\ ran' = FALSE /\ owed' = {}

(* The process ends, or is killed while it starts or rebuilds.  A rebuild  *)
(* that cannot write the marker ends it too: nobody catches that.          *)
Exit == pc \in {"shut", "inactive", "open"} /\ Over /\ UNCHANGED <<files, faults>>

Kill ==
    /\ pc \in Busy /\ faults < MaxFaults
    /\ IF pc \in {"index", "rebuild"} THEN CutShort ELSE UNCHANGED <<index, marker>>
    /\ Over /\ faults' = faults + 1
    /\ UNCHANGED <<memory, mirror, micro, dream>>

-------------------------------------------------------------------------------
(* `hermes mem4 refine --apply`, at any moment.                            *)
CliApply ==
    /\ \E out \in SUBSET memory : Moved(out)
    /\ UNCHANGED <<mirror, index, marker, dream, pc, enabled, ran, faults, owed>>

(* A day passes.                                                           *)
Tick ==
    /\ dream' = [dream EXCEPT !.pending = Older(@), !.last = Older(@)]
    /\ dream' # dream
    /\ UNCHANGED <<memory, mirror, micro, index, marker, pc, enabled, ran, faults, owed>>

Next ==
    \/ Begin \/ BeginInactive \/ OpenIndex \/ OpenRaises \/ StartDream
    \/ PersistRefine \/ RefineRaises
    \/ Write \/ Forget \/ SyncTurn \/ Boundary
    \/ RebuildClear \/ RebuildIndex \/ Shutdown \/ Exit \/ Kill \/ CliApply \/ Tick

Spec == Init /\ [][Next]_vars

(* Sessions recur: each start and rebuild gets to its end, as no step of   *)
(* it waits, and the agent is ended and started again.                     *)
Fairness ==
    /\ WF_vars(Begin) /\ WF_vars(OpenIndex) /\ WF_vars(StartDream)
    /\ WF_vars(PersistRefine) /\ WF_vars(RebuildIndex) /\ WF_vars(Exit)

FairSpec == Spec /\ Fairness

-------------------------------------------------------------------------------
(* The doctor says that Dream never ran, or not for long.                  *)
DreamWarned == dream.signals > 0 /\ (dream.runs => dream.last > StaleAfter)

-------------------------------------------------------------------------------
(* Each variable has its type.                                             *)
TypeOK ==
    /\ memory \subseteq Entry /\ mirror \subseteq Entry
    /\ micro \subseteq Entry /\ index \subseteq Entry
    /\ marker \in BOOLEAN /\ dream \in Dream
    /\ pc \in PC /\ enabled \in BOOLEAN /\ ran \in BOOLEAN
    /\ faults \in 0..MaxFaults /\ owed \subseteq Entry

(* A search of an active session finds every entry that was in a microfile *)
(* when the session started, and every one it has itself moved out of      *)
(* MEMORY.md since, provided it had been mirrored: initialize indexes      *)
(* before it refines, so such an entry's microfile is not indexed yet, and *)
(* it is the mirror, indexed with the others, that has its text            *)
(* (__init__.py:281, 330).                                                 *)
ColdSearchable == pc \in {"dream", "refine", "open"} => owed \subseteq index

(* Whoever moved it out of MEMORY.md, an entry in a microfile is some day  *)
(* in the index, and from some day on always, but for the part of a        *)
(* rebuild between its deletion and its indexing, which goes by: for as    *)
(* long as kills and errors end.  One in that very part leaves the index   *)
(* empty, and the next start fills it (__init__.py:1058-1064, 281).        *)
SearchableForGood ==
    \A e \in Entry :
        /\ e \in micro ~> [](pc # "rebuild" => e \in index)
        /\ e \in micro ~> e \in index

(* Signals that have waited longer than the doctor's limit never go        *)
(* unreported: it looks at when Dream last ran, Dream at when the waiting  *)
(* began, and the one is not later than the other, whatever was enabled in *)
(* between (doctor.py:184-205; dream.py:165-188).                          *)
DreamIdleSeen == dream.signals > 0 /\ dream.pending > StaleAfter => DreamWarned
===============================================================================
