-------------------------------- MODULE Refine --------------------------------
(***************************************************************************)
(* Refining MEMORY.md (mem4/refine.py): apply, apply_if_changed and        *)
(* restore, run by `hermes mem4 refine` and, with persist_on_dream, by     *)
(* every initialize, beside the memory tool that owns MEMORY.md.           *)
(*                                                                         *)
(* Every file operation is a step; a run can be killed, or one of its      *)
(* operations raise, before any of them.  A microfile that cannot be read  *)
(* is taken for an empty one.  MEMORY.md is replaced in one step (tmp file *)
(* and os.replace), a microfile is truncated and written.  Backups are     *)
(* named by the second.                                                    *)
(*                                                                         *)
(* A file is the set of its contents, empty when there is no file.  Equal  *)
(* hashes are equal texts.  The sections of a plan are written in any      *)
(* order.  White space between entries and paragraphs, the proposal file   *)
(* and the audit record are left out, and MEMORY.md exists throughout.     *)
(***************************************************************************)
EXTENDS RefinePlan

CONSTANTS
    Proc,        \* processes that may refine
    Learned,     \* entries the memory tool may add
    Code,        \* the codes in use
    MaxEntries,  \* bound: entries in MEMORY.md
    MaxAdds,     \* bound: entries the memory tool adds
    MaxRuns,     \* bound: refines and restores
    MaxTime      \* bound: seconds

ASSUME RefineBounds == MaxEntries \in Nat /\ MaxAdds \in Nat /\ MaxRuns \in Nat /\ MaxTime \in Nat

(* The tool adds no pointers; a code that _gen_code may come to is in Code. *)
ASSUME CodeAssumption ==
    /\ NoCode \notin Code
    /\ \A e \in Learned : e \in {Core(b) : b \in Body} \cup {Coded(c, b) : c \in Code, b \in Body}
    /\ \A b \in Body, k \in 1..(2 * MaxEntries) : <<Base[b], k>> \in Code

VARIABLES
    memory,     \* MEMORY.md
    micro,      \* the microfile of each code
    backups,    \* the backup of MEMORY.md of each second
    mfBackups,  \* the microfile backups of each second
    hash,       \* last_applied_hash: the text it is the hash of, if any
    now,        \* the second
    pc, loc,    \* what each process is about to do, and its locals
    adds, runs,
    owed,       \* bodies the memory tool has added and nobody discarded
    spoiled     \* kinds of misfortune so far, of those below

vars == <<memory, micro, backups, mfBackups, hash, now, pc, loc, adds, runs, owed, spoiled>>

(* overlap: MEMORY.md changed, or another refine read it, between a        *)
(*   refine's reading of it and its replacement;                           *)
(* clash: a backup was written over a different one of the same second;    *)
(* cut: a run ended between truncating a microfile and writing it;         *)
(* bare: and that microfile had not been backed up, being unchanged or     *)
(*   unreadable;                                                           *)
(* unread: a microfile could not be read and the plan leaves out what it   *)
(*   has;                                                                  *)
(* blind: nor could it be read to be backed up before it is rewritten;     *)
(* stale: the hash of what MEMORY.md was before it was planned is saved.   *)
Misfortune == {"overlap", "clash", "cut", "bare", "unread", "blind", "stale"}

Entry == {Core(b) : b \in Body} \cup {Coded(c, b) : c \in Code, b \in Body}
           \cup {Pointer(c, b) : c \in Code, b \in Body}
Time  == 0..MaxTime
PC    == {"idle", "source", "plan", "backup", "micro", "empty", "fill", "save",
          "replace", "clear"}

(* What is under way when MEMORY.md has been read and not yet replaced.    *)
Window == {"plan", "backup", "micro", "empty", "fill"}

NoLocal == [text |-> <<>>, next |-> <<>>, merged |-> <<>>, cur |-> NoCode, stamp |-> 0,
            auto |-> FALSE, bare |-> FALSE]

Init ==
    /\ memory = <<>>
    /\ micro = [c \in Code |-> {}]
    /\ backups = [t \in Time |-> {}]
    /\ mfBackups = [t \in Time |-> [c \in Code |-> {}]]
    /\ hash = {}
    /\ now = 0
    /\ pc = [p \in Proc |-> "idle"]
    /\ loc = [p \in Proc |-> NoLocal]
    /\ adds = 0 /\ runs = 0
    /\ owed = {}
    /\ spoiled = {}

Goto(p, l) == pc' = [pc EXCEPT ![p] = l]
Return(p)  == Goto(p, "idle") /\ loc' = [loc EXCEPT ![p] = NoLocal]

Spoil(kind, happened) == spoiled' = IF happened THEN spoiled \cup {kind} ELSE spoiled

InWindow(p) == pc[p] \in Window

-------------------------------------------------------------------------------
(* External: the memory tool adds an entry or removes one; it reads the    *)
(* file into entries and writes the entries back.                          *)

MemoryAdd ==
    /\ Len(memory) < MaxEntries /\ adds < MaxAdds
    /\ \E e \in Learned : /\ memory' = Append(memory, e)
                          /\ owed' = owed \cup {e.body}
    /\ adds' = adds + 1
    /\ Spoil("overlap", \E p \in Proc : InWindow(p))
    /\ UNCHANGED <<micro, backups, mfBackups, hash, now, pc, loc, runs>>

MemoryRemove ==
    /\ \E i \in DOMAIN memory :
         /\ memory' = RemoveAt(memory, i)
         /\ owed' = IF memory[i].kind = "pointer" THEN owed ELSE owed \ {memory[i].body}
    /\ Spoil("overlap", \E p \in Proc : InWindow(p))
    /\ UNCHANGED <<micro, backups, mfBackups, hash, now, pc, loc, adds, runs>>

-------------------------------------------------------------------------------
(* apply_if_changed goes no further when MEMORY.md has the saved hash, and *)
(* keeps what it has read for the hash it may save; the apply of the       *)
(* command line does not look at the hash.                                 *)

Start(p, l) ==
    /\ pc[p] = "idle" /\ runs < MaxRuns
    /\ runs' = runs + 1
    /\ Goto(p, "source")
    /\ loc' = [loc EXCEPT ![p] = l]
    /\ UNCHANGED <<memory, micro, backups, mfBackups, hash, now, adds, owed, spoiled>>

Persist(p) == hash # {memory} /\ Start(p, [NoLocal EXCEPT !.next = memory, !.auto = TRUE])
Command(p) == Start(p, NoLocal)

(* plan reads MEMORY.md, then the microfiles of the codes it extracts; one *)
(* that cannot be read counts as empty.                                    *)
Source(p) ==
    /\ pc[p] = "source"
    /\ loc' = [loc EXCEPT ![p].text = memory]
    /\ Goto(p, "plan")
    /\ Spoil("overlap", \E q \in Proc \ {p} : InWindow(q))
    /\ UNCHANGED <<memory, micro, backups, mfBackups, hash, now, adds, runs, owed>>

Contents(file) == IF file = {} THEN <<>> ELSE CHOOSE f \in file : TRUE

Merged(sections, unread) ==
    [c \in DOMAIN sections |-> Merge(Contents(IF c \in unread THEN {} ELSE micro[c]), sections[c])]

(* What is to be written to a microfile leaves out some of what it has.    *)
Forgets(c, content) == \E f \in micro[c] : ~(ToSet(f) \subseteq ToSet(content))

(* A text that the plan leaves as it is has been refined: its hash is      *)
(* saved, the hash of the first reading by apply_if_changed.               *)
MakePlan(p) ==
    /\ pc[p] = "plan"
    /\ \E plan \in {Plan(loc[p].text)} :
       \E unread \in SUBSET {c \in DOMAIN plan.sections : micro[c] # {}} :
         LET settled == plan.condensed = loc[p].text
             merged  == Merged(plan.sections, unread)
             next    == IF settled /\ loc[p].auto THEN loc[p].next ELSE plan.condensed
         IN  /\ loc' = [loc EXCEPT ![p].next = next, ![p].merged = merged]
             /\ Goto(p, IF settled THEN "save" ELSE "backup")
             /\ spoiled' = spoiled
                  \cup {k \in {"unread"} : \E c \in unread : Forgets(c, merged[c])}
                  \cup {k \in {"stale"} : settled /\ next # loc[p].text}
    /\ UNCHANGED <<memory, micro, backups, mfBackups, hash, now, adds, runs, owed>>

-------------------------------------------------------------------------------
(* apply: the backup of MEMORY.md, the microfiles, MEMORY.md, the hash.    *)

(* Mutated Backup: the file is appended to.                                *)
BackupAppends(p) ==
    /\ pc[p] = "backup"
    /\ backups' = [backups EXCEPT ![now] = @ \cup {loc[p].text}]
    /\ Spoil("clash", backups[now] \notin {{}, {loc[p].text}})
    /\ loc' = [loc EXCEPT ![p].stamp = now]
    /\ Goto(p, "micro")
    /\ UNCHANGED <<memory, micro, mfBackups, hash, now, adds, runs, owed>>

Backup(p) ==
    /\ pc[p] = "backup"
    /\ backups' = [backups EXCEPT ![now] = {loc[p].text}]
    /\ Spoil("clash", backups[now] \notin {{}, {loc[p].text}})
    /\ loc' = [loc EXCEPT ![p].stamp = now]
    /\ Goto(p, "micro")
    /\ UNCHANGED <<memory, micro, mfBackups, hash, now, adds, runs, owed>>

(* A microfile whose content changes is backed up first, as it is read by  *)
(* then: one that cannot be read, as an empty one.                         *)
BackupMicro(p) ==
    /\ pc[p] = "micro"
    /\ \E c \in DOMAIN loc[p].merged : \E failed \in {f \in BOOLEAN : f => micro[c] # {}} :
         LET t    == loc[p].stamp
             m    == loc[p].merged[c]
             old  == IF failed THEN {<<>>} ELSE micro[c]
             same == old \subseteq {m}
         IN  /\ loc' = [loc EXCEPT ![p].cur = c, ![p].bare = failed \/ (same /\ micro[c] # {})]
             /\ mfBackups' = IF same THEN mfBackups ELSE [mfBackups EXCEPT ![t][c] = old]
             /\ spoiled' = spoiled
                  \cup {k \in {"clash"} : ~same /\ mfBackups[t][c] \notin {{}, old}}
                  \cup {k \in {"blind"} : failed /\ Forgets(c, m)}
    /\ Goto(p, "empty")
    /\ UNCHANGED <<memory, micro, backups, hash, now, adds, runs, owed>>

EmptyMicro(p) ==
    /\ pc[p] = "empty"
    /\ micro' = [micro EXCEPT ![loc[p].cur] = {<<>>}]
    /\ Goto(p, "fill")
    /\ UNCHANGED <<memory, backups, mfBackups, hash, now, loc, adds, runs, owed, spoiled>>

FillMicro(p) ==
    LET c == loc[p].cur
        m == loc[p].merged
    IN
    /\ pc[p] = "fill"
    /\ micro' = [micro EXCEPT ![c] = {m[c]}]
    /\ loc' = [loc EXCEPT ![p].cur = NoCode, ![p].bare = FALSE,
                          ![p].merged = [d \in DOMAIN m \ {c} |-> m[d]]]
    /\ Goto(p, "micro")
    /\ UNCHANGED <<memory, backups, mfBackups, hash, now, adds, runs, owed, spoiled>>

(* Mutated Replace: before the microfiles.                                 *)
ReplaceFirst(p) ==
    /\ pc[p] = "micro"
    /\ memory' = loc[p].next
    /\ Goto(p, "save")
    /\ UNCHANGED <<micro, backups, mfBackups, hash, now, loc, adds, runs, owed, spoiled>>

Replace(p) ==
    /\ pc[p] = "micro"
    /\ DOMAIN loc[p].merged = {}
    /\ memory' = loc[p].next
    /\ Goto(p, "save")
    /\ UNCHANGED <<micro, backups, mfBackups, hash, now, loc, adds, runs, owed, spoiled>>

(* Mutated Save: the hash is taken of MEMORY.md as it is by then.          *)
SaveCurrent(p) ==
    /\ pc[p] = "save"
    /\ hash' = {memory}
    /\ Return(p)
    /\ UNCHANGED <<memory, micro, backups, mfBackups, now, adds, runs, owed, spoiled>>

Save(p) ==
    /\ pc[p] = "save"
    /\ hash' = {loc[p].next}
    /\ Return(p)
    /\ UNCHANGED <<memory, micro, backups, mfBackups, now, adds, runs, owed, spoiled>>

-------------------------------------------------------------------------------
(* restore: any backup, by its time stamp; the latest without one.  What   *)
(* it discards is discarded on purpose.                                    *)

InMicro(b) == \E c \in Code : \E f \in micro[c] : ToSet(Paras[b]) \subseteq ToSet(f)
Inline(b, text) == \E i \in DOMAIN text : text[i].kind # "pointer" /\ text[i].body = b

Restore(p) ==
    /\ pc[p] = "idle" /\ runs < MaxRuns
    /\ runs' = runs + 1
    /\ \E t \in Time : \E text \in backups[t] : loc' = [loc EXCEPT ![p].text = text]
    /\ Goto(p, "replace")
    /\ UNCHANGED <<memory, micro, backups, mfBackups, hash, now, adds, owed, spoiled>>

RestoreReplace(p) ==
    /\ pc[p] = "replace"
    /\ memory' = loc[p].text
    /\ owed' = {b \in owed : Inline(b, loc[p].text) \/ InMicro(b)}
    /\ Spoil("overlap", \E q \in Proc : InWindow(q))
    /\ Goto(p, "clear")
    /\ UNCHANGED <<micro, backups, mfBackups, hash, now, loc, adds, runs>>

RestoreSave(p) ==
    /\ pc[p] = "clear"
    /\ hash' = {}
    /\ Return(p)
    /\ UNCHANGED <<memory, micro, backups, mfBackups, now, adds, runs, owed, spoiled>>

-------------------------------------------------------------------------------
(* The process is killed or the operation it is at raises; the hash file,  *)
(* truncated and not written, reads as no hash.                            *)
Stop(p) ==
    /\ pc[p] # "idle"
    /\ spoiled' = spoiled \cup (IF pc[p] # "fill" THEN {}
                                ELSE {"cut"} \cup IF loc[p].bare THEN {"bare"} ELSE {})
    /\ hash' \in {hash} \cup (IF pc[p] \in {"save", "clear"} THEN {{}} ELSE {})
    /\ Return(p)
    /\ UNCHANGED <<memory, micro, backups, mfBackups, now, adds, runs, owed>>

Tick ==
    /\ now < MaxTime
    /\ now' = now + 1
    /\ UNCHANGED <<memory, micro, backups, mfBackups, hash, pc, loc, adds, runs, owed, spoiled>>

Next ==
    \/ MemoryAdd \/ MemoryRemove \/ Tick
    \/ \E p \in Proc : \/ Persist(p) \/ Command(p) \/ Source(p) \/ MakePlan(p)
                       \/ Backup(p) \/ BackupMicro(p) \/ EmptyMicro(p) \/ FillMicro(p)
                       \/ Replace(p) \/ Save(p)
                       \/ Restore(p) \/ RestoreReplace(p) \/ RestoreSave(p) \/ Stop(p)

Spec == Init /\ [][Next]_vars

-------------------------------------------------------------------------------
InBackup(b) == \E t \in Time, c \in Code : \E f \in mfBackups[t][c] :
                   ToSet(Paras[b]) \subseteq ToSet(f)

Writing(c) == \E p \in Proc : pc[p] = "fill" /\ loc[p].cur = c

InHand(b) == \E p \in Proc : /\ pc[p] = "fill"
                             /\ ToSet(Paras[b]) \subseteq ToSet(loc[p].merged[loc[p].cur])

(* Type invariant.                                                         *)
TypeOK ==
    /\ memory \in Seq(Entry) /\ Len(memory) <= MaxEntries
    /\ \A c \in Code : micro[c] \subseteq Seq(Para) /\ Cardinality(micro[c]) <= 1
    /\ \A t \in Time : backups[t] \subseteq Seq(Entry) /\ Cardinality(backups[t]) <= 1
    /\ \A t \in Time, c \in Code : mfBackups[t][c] \subseteq Seq(Para)
    /\ hash \subseteq Seq(Entry) /\ Cardinality(hash) <= 1
    /\ now \in Time
    /\ pc \in [Proc -> PC]
    /\ \A p \in Proc : /\ loc[p].text \in Seq(Entry) /\ loc[p].next \in Seq(Entry)
                       /\ loc[p].stamp \in Time
                       /\ DOMAIN loc[p].merged \subseteq Code
                       /\ loc[p].cur \in Code \cup {NoCode}
                       /\ loc[p].auto \in BOOLEAN /\ loc[p].bare \in BOOLEAN
    /\ adds \in 0..MaxAdds /\ runs \in 0..MaxRuns
    /\ owed \subseteq Body
    /\ spoiled \subseteq Misfortune

(* An existing microfile is merged into and backed up (refine.py:21-22):   *)
(* what the memory tool wrote and did not take back is in MEMORY.md, in a  *)
(* microfile, in the microfile's backup or being written to the microfile, *)
(* however many refines ran, failed, could not read a microfile or were    *)
(* restored.  Excepted are the overlap that loses an entry (NoSilentLoss), *)
(* a backup overwritten within a second, and a microfile rewritten without *)
(* its backup: cut off, or unreadable twice over (NeverOverwritten).       *)
EntriesKept ==
    spoiled \cap {"overlap", "clash", "bare", "blind"} = {} =>
        \A b \in owed : Inline(b, memory) \/ InMicro(b) \/ InBackup(b) \/ InHand(b)

(* A pointer answers (refine.py:473-490 before 492-496): mem_route of its  *)
(* code returns the body whose summary it shows, also after a killed run   *)
(* and after a restore of a MEMORY.md that had it.  Excepted are overlaps, *)
(* a microfile left cut, and one that could not be read when it was merged *)
(* into (refine.py:249-253), which loses its older paragraphs.             *)
PointersAnswer ==
    spoiled \cap {"overlap", "cut", "unread"} = {} =>
        \A i \in DOMAIN memory :
            LET e == memory[i]
            IN  e.kind = "pointer" =>
                  \/ Writing(e.code)
                  \/ \E f \in micro[e.code] : ToSet(Paras[e.body]) \subseteq ToSet(f)

(* What apply_if_changed skips (refine.py:531): a MEMORY.md with the saved *)
(* hash has no inline entry with a code that a refine would extract; and   *)
(* what a refine would still extract, core entries past the number that    *)
(* one run promotes, is left only in a text that a refine has rewritten.   *)
(* Excepted is the hash of a MEMORY.md that was edited between the reading *)
(* that is hashed (529) and the one that is planned (275).                 *)
SkipSound ==
    hash = {memory} /\ "stale" \notin spoiled =>
        LET left == DOMAIN Plan(memory).sections
        IN  /\ left \cap CodesOf("coded", memory) = {}
            /\ left # {} => CodesOf("pointer", memory) # {}

(* Refining never makes the hot zone longer (refine.py:225-226), counted   *)
(* in the characters the memory tool's limit is counted in.                *)
NeverLonger == TextChars(Plan(memory).condensed) <= TextChars(memory)

-------------------------------------------------------------------------------
(* What documentation and tests say and the code does not do (Divergences  *)
(* in the README).                                                         *)

(* README.md:172: --apply and Dream persist "are fully reversible with     *)
(* `--restore`": an entry that the memory tool adds is in MEMORY.md, a     *)
(* microfile or a backup of either.                                        *)
NoSilentLoss ==
    \A b \in owed : \/ Inline(b, memory) \/ InMicro(b) \/ InBackup(b)
                    \/ InHand(b)
                    \/ \E t \in Time : \E text \in backups[t] : Inline(b, text)

(* refine.py:471, "never silently overwrite": an existing microfile whose  *)
(* content changes is backed up first, at least when nothing but the       *)
(* reading of it goes wrong.                                               *)
NeverOverwritten ==
    spoiled \subseteq {"unread", "blind"} => \A p \in Proc : pc[p] = "empty" =>
        LET c == loc[p].cur
        IN  \A f \in micro[c] : \/ ToSet(f) \subseteq ToSet(loc[p].merged[c])
                                \/ f \in mfBackups[loc[p].stamp][c]

(* tests/test_mem4_refine_promote.py:139, "after preserving, re-refine is  *)
(* a no-op": a MEMORY.md with the hash of a refine's outcome is one that a *)
(* refine would leave as it is, at least when nothing went wrong.          *)
SkippedIsSettled ==
    spoiled = {} /\ hash = {memory} => Plan(memory).condensed = memory

(* README.md:172: "fully reversible with --restore": the backup of a       *)
(* MEMORY.md that was replaced stays.                                      *)
BackupsStand == [][\A t \in Time : backups[t] \subseteq backups'[t]]_vars

(* refine.py:256: microfiles are merged "with paragraph deduplication":    *)
(* no microfile has a paragraph twice.                                     *)
NoParagraphTwice ==
    \A c \in Code : \A f \in micro[c] : Cardinality(ToSet(f)) = Len(f)

(* tests/test_mem4_refine_promote.py:108-113, "never_grows_hotzone":       *)
(* plan.after_bytes <= plan.before_bytes.                                  *)
NeverMoreBytes == TextBytes(Plan(memory).condensed) <= TextBytes(memory)

===============================================================================
