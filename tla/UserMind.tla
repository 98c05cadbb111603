------------------------------- MODULE UserMind -------------------------------
(***************************************************************************)
(* The summary of what the user prefers (mem4/usermind.py): extracted from *)
(* the turns in the recall store and from the mirror of USER.md, shown as  *)
(* a proposal and written by `hermes mem4 usermind --apply` into a block   *)
(* of USER.md that the marks BEGIN and END delimit, beside the memory tool *)
(* that owns the file and people who edit it.                              *)
(*                                                                         *)
(* Every file operation of apply and restore is a step, before any of      *)
(* which the process may be killed or fail; USER.md is replaced in one.    *)
(* Backups are named by the second.                                        *)
(*                                                                         *)
(* Abstractions: a turn is the sequence of statements of its user side; a  *)
(* statement has a key and is or is not a preference, a note is a          *)
(* statement; what a language model condenses is not looked into; a cut to *)
(* characters is a cut to statements; white space is left out, and so is   *)
(* the proposal file, which nothing reads; a missing file is an empty one. *)
(***************************************************************************)
EXTENDS Integers, Sequences, FiniteSets, SequencesExt

CONSTANTS
    Proc,            \* processes that run the commands
    Statement,
    Key,             \* what makes two statements one preference
    IsPreference,    \* it has a cue, is not a question, is not too short
    Turn, Says,      \* turns, and the statements of each
    Note,            \* statements the memory tool writes to USER.md
    RecentLimit,     \* turns that _gather_texts asks recent for
    MaxItems,        \* _MAX_ITEMS
    MaxShown,        \* how many of them _MAX_SUMMARY_CHARS leaves
    MaxTurns, MaxNotes, MaxEdits, MaxRuns, MaxTime  \* bounds

ASSUME StatementAssumption ==
    /\ Note \subseteq Statement
    /\ IsPreference \in [Statement -> BOOLEAN]
    /\ Says \in [Turn -> Seq(Statement)]
ASSUME UserMindBounds ==
    /\ RecentLimit \in Nat \ {0}
    /\ MaxItems \in Nat \ {0} /\ MaxShown \in 1..MaxItems
    /\ MaxTurns \in Nat /\ MaxNotes \in Nat /\ MaxEdits \in Nat /\ MaxRuns \in Nat /\ MaxTime \in Nat

VARIABLES
    user,      \* USER.md
    mirror,    \* _mirror/user.md
    docs,      \* the turns of the recall store, in the order of their ids
    backups,   \* the backup of USER.md of each second
    now, pc, loc,
    notes, edits, runs,  \* how many so far
    owed,      \* the notes that nobody has removed
    spoiled    \* kinds of misfortune so far

vars == <<user, mirror, docs, backups, now, pc, loc, notes, edits, runs, owed, spoiled>>

(* overlap: USER.md changed between an apply's reading of it and its       *)
(*   replacement; clash: a backup was written over another one.            *)
Misfortune == {"overlap", "clash"}

(* USER.md is a sequence of notes, marks and, between them, summaries.     *)
Summary(by, items) == [kind |-> "summary", by |-> by, items |-> items]
NoteOf(n) == [kind |-> "note", by |-> "", items |-> <<n>>]
BEGIN == [kind |-> "BEGIN", by |-> "", items |-> <<>>]
END   == [kind |-> "END", by |-> "", items |-> <<>>]
Piece == [kind : {"summary", "note", "BEGIN", "END"}, by : {"", "heuristic", "llm"},
          items : Seq(Statement)]

NoSummary == Summary("", <<>>)
NoLocal   == [summary |-> NoSummary, text |-> <<>>, stamp |-> 0]
Time      == 0..MaxTime

Init ==
    /\ user = <<>> /\ mirror = <<>> /\ docs = <<>>
    /\ backups = [t \in Time |-> {}]
    /\ now = 0
    /\ pc = [p \in Proc |-> "idle"] /\ loc = [p \in Proc |-> NoLocal]
    /\ notes = 0 /\ edits = 0 /\ runs = 0
    /\ owed = {} /\ spoiled = {}

Goto(p, l) == pc' = [pc EXCEPT ![p] = l]
Return(p)  == Goto(p, "idle") /\ loc' = [loc EXCEPT ![p] = NoLocal]

Spoil(kind, happened) == spoiled' = IF happened THEN spoiled \cup {kind} ELSE spoiled

(* What changes USER.md changes it under an apply that has read it.        *)
SpoilWindow(others) == Spoil("overlap", \E p \in others : pc[p] \in {"backup", "replace"})

-------------------------------------------------------------------------------
(* The sources: turns that are indexed as they happen or from the history, *)
(* with its times, and the notes that on_memory_write mirrors.             *)

IndexTurn ==
    /\ Len(docs) < MaxTurns
    /\ \E t \in Turn, ts \in 0..now :
         /\ \A i \in DOMAIN docs : docs[i].turn # t
         /\ docs' = Append(docs, [turn |-> t, ts |-> ts])
    /\ UNCHANGED <<user, mirror, backups, now, pc, loc, notes, edits, runs, owed, spoiled>>

(* rebuild clears the store.                                               *)
Rebuild ==
    /\ docs # <<>> /\ docs' = <<>>
    /\ UNCHANGED <<user, mirror, backups, now, pc, loc, notes, edits, runs, owed, spoiled>>

(* recent: newest first, of one time the later indexed first, as many as   *)
(* its LIMIT allows; mutated, oldest first.                                *)
Taken(ds) == IF Len(ds) < RecentLimit THEN Len(ds) ELSE RecentLimit

By(before(_, _), ds) ==
    [k \in 1..Taken(ds) |->
        ds[CHOOSE i \in DOMAIN ds : Cardinality({j \in DOMAIN ds : before(j, i)}) = k - 1]]

RecentOldest(ds) ==
    LET older(i, j) == ds[i].ts < ds[j].ts \/ (ds[i].ts = ds[j].ts /\ i < j) IN By(older, ds)

Recent(ds) ==
    LET newer(i, j) == ds[i].ts > ds[j].ts \/ (ds[i].ts = ds[j].ts /\ i > j) IN By(newer, ds)

(* extract_preferences: of one text after the other, and in it of one      *)
(* statement after the other, the first of every key, MaxItems at most.    *)
Extract(acc, s) ==
    IF IsPreference[s] /\ Len(acc) < MaxItems /\ \A i \in DOMAIN acc : Key[acc[i]] # Key[s]
      THEN Append(acc, s) ELSE acc

ExtractAll(acc, said) ==
    LET upTo[k \in 0..Len(said)] == IF k = 0 THEN acc ELSE Extract(upTo[k - 1], said[k])
    IN  upTo[Len(said)]

Preferences(ds, mirrored) ==
    LET recent == Recent(ds)
        upTo[k \in 0..Len(recent)] ==
            IF k = 0 THEN <<>> ELSE ExtractAll(upTo[k - 1], Says[recent[k].turn])
    IN  ExtractAll(upTo[Len(recent)], mirrored)

(* plan: the summary of the preferences, or what the model makes of them;  *)
(* a model that fails leaves the former.  A store or a mirror that cannot  *)
(* be read is taken for an empty one.                                      *)
Shown(items) == SubSeq(items, 1, IF Len(items) < MaxShown THEN Len(items) ELSE MaxShown)

Summaries(items) ==
    IF items = <<>> THEN {NoSummary}
    ELSE {Summary("heuristic", Shown(items)), Summary("llm", <<>>)}

Plans == UNION {Summaries(Preferences(ds, said)) : ds \in {docs, <<>>}, said \in {mirror, <<>>}}

-------------------------------------------------------------------------------
(* External: the memory tool adds an entry, or removes one with all that   *)
(* follows it up to the next; a person deletes a mark or adds an entry.    *)

Notes(text) == {n \in Note : \E i \in DOMAIN text : text[i] = NoteOf(n)}

MemoryAdd ==
    /\ notes < MaxNotes /\ notes' = notes + 1
    /\ \E n \in Note : /\ user' = Append(user, NoteOf(n))
                       /\ mirror' = Append(mirror, n)
                       /\ owed' = owed \cup {n}
    /\ SpoilWindow(Proc)
    /\ UNCHANGED <<docs, backups, now, pc, loc, edits, runs>>

StartsEntry(text, i) == i \in DOMAIN text /\ (i = 1 \/ text[i].kind = "note")

MemoryRemove ==
    /\ \E i \in DOMAIN user :
         /\ StartsEntry(user, i)
         /\ \E j \in i..Len(user) :
              /\ j = Len(user) \/ StartsEntry(user, j + 1)
              /\ \A k \in (i + 1)..j : ~StartsEntry(user, k)
              /\ user' = SubSeq(user, 1, i - 1) \o SubSeq(user, j + 1, Len(user))
         /\ owed' = {n \in owed : NoteOf(n) # user[i]}
    /\ SpoilWindow(Proc)
    /\ UNCHANGED <<mirror, docs, backups, now, pc, loc, notes, edits, runs>>

HandEdit ==
    /\ edits < MaxEdits /\ edits' = edits + 1
    /\ \/ /\ \E i \in DOMAIN user : user[i] \in {BEGIN, END} /\ user' = RemoveAt(user, i)
          /\ UNCHANGED owed
       \/ \E i \in DOMAIN user, n \in Note : /\ user' = InsertAt(user, i, NoteOf(n))
                                            /\ owed' = owed \cup {n}
    /\ SpoilWindow(Proc)
    /\ UNCHANGED <<mirror, docs, backups, now, pc, loc, notes, runs>>

-------------------------------------------------------------------------------
(* _splice_block: with both marks in the file, whatever lies between a     *)
(* BEGIN and the next END becomes the block; else the block goes to the    *)
(* end.  Mutated, it always does.                                          *)

Block(s) == <<BEGIN, s, END>>

(* The text up to its k-th piece, replaced, and whether a block is open.   *)
Scan(a, k, text, s) ==
    IF a.open THEN [a EXCEPT !.open = text[k] # END]
    ELSE IF text[k] = BEGIN /\ \E j \in k..Len(text) : text[j] = END
      THEN [out |-> a.out \o Block(s), open |-> TRUE]
      ELSE [a EXCEPT !.out = Append(@, text[k])]

Replaced(text, s) ==
    LET upTo[k \in 0..Len(text)] ==
            IF k = 0 THEN [out |-> <<>>, open |-> FALSE] ELSE Scan(upTo[k - 1], k, text, s)
    IN  upTo[Len(text)].out

SpliceAppends(text, s) == text \o Block(s)

Splice(text, s) ==
    IF BEGIN \in ToSet(text) /\ END \in ToSet(text) THEN Replaced(text, s) ELSE text \o Block(s)

-------------------------------------------------------------------------------
(* apply plans anew, whatever plan the command has shown, reads USER.md,   *)
(* backs it up and replaces it.                                            *)

MakePlan(p) ==
    /\ pc[p] = "idle" /\ runs < MaxRuns /\ runs' = runs + 1
    /\ \E s \in Plans \ {NoSummary} : loc' = [loc EXCEPT ![p].summary = s]
    /\ Goto(p, "read")
    /\ UNCHANGED <<user, mirror, docs, backups, now, notes, edits, owed, spoiled>>

(* Mutated Read: what cannot be read is taken to be empty.                 *)
ReadOrNothing(p) ==
    /\ pc[p] = "read"
    /\ \E text \in {user, <<>>} : loc' = [loc EXCEPT ![p].text = text]
    /\ Goto(p, "backup")
    /\ UNCHANGED <<user, mirror, docs, backups, now, notes, edits, runs, owed, spoiled>>

Read(p) ==
    /\ pc[p] = "read"
    /\ loc' = [loc EXCEPT ![p].text = user]
    /\ Goto(p, "backup")
    /\ UNCHANGED <<user, mirror, docs, backups, now, notes, edits, runs, owed, spoiled>>

(* Mutated Backup: the file is appended to.                                *)
BackupAppends(p) ==
    /\ pc[p] = "backup"
    /\ backups' = [backups EXCEPT ![now] = @ \cup {loc[p].text}]
    /\ Spoil("clash", backups[now] \notin {{}, {loc[p].text}})
    /\ loc' = [loc EXCEPT ![p].stamp = now]
    /\ Goto(p, "replace")
    /\ UNCHANGED <<user, mirror, docs, now, notes, edits, runs, owed>>

Backup(p) ==
    /\ pc[p] = "backup"
    /\ backups' = [backups EXCEPT ![now] = {loc[p].text}]
    /\ Spoil("clash", backups[now] \notin {{}, {loc[p].text}})
    /\ loc' = [loc EXCEPT ![p].stamp = now]
    /\ Goto(p, "replace")
    /\ UNCHANGED <<user, mirror, docs, now, notes, edits, runs, owed>>

Replace(p) ==
    /\ pc[p] = "replace"
    /\ user' = Splice(loc[p].text, loc[p].summary)
    /\ SpoilWindow(Proc \ {p})
    /\ Return(p)
    /\ UNCHANGED <<mirror, docs, backups, now, notes, edits, runs, owed>>

(* restore: any backup by its time, the latest without one.  What it       *)
(* discards is discarded on purpose.                                       *)
Restore(p) ==
    /\ pc[p] = "idle" /\ runs < MaxRuns /\ runs' = runs + 1
    /\ \E t \in Time : \E text \in backups[t] : loc' = [loc EXCEPT ![p].text = text]
    /\ Goto(p, "restore")
    /\ UNCHANGED <<user, mirror, docs, backups, now, notes, edits, owed, spoiled>>

RestoreReplace(p) ==
    /\ pc[p] = "restore"
    /\ user' = loc[p].text
    /\ owed' = owed \cap Notes(loc[p].text)
    /\ SpoilWindow(Proc \ {p})
    /\ Return(p)
    /\ UNCHANGED <<mirror, docs, backups, now, notes, edits, runs>>

(* The process is killed, or the operation it is at fails: half-way        *)
(* through the backup, that leaves an empty one.                           *)
Stop(p) ==
    /\ pc[p] # "idle"
    /\ Return(p)
    /\ \/ UNCHANGED <<backups, spoiled>>
       \/ /\ pc[p] = "backup"
          /\ backups' = [backups EXCEPT ![now] = {<<>>}]
          /\ Spoil("clash", backups[now] \notin {{}, {<<>>}})
    /\ UNCHANGED <<user, mirror, docs, now, notes, edits, runs, owed>>

Tick ==
    /\ now < MaxTime /\ now' = now + 1
    /\ UNCHANGED <<user, mirror, docs, backups, pc, loc, notes, edits, runs, owed, spoiled>>

Next ==
    \/ IndexTurn \/ Rebuild \/ MemoryAdd \/ MemoryRemove \/ HandEdit \/ Tick
    \/ \E p \in Proc : \/ MakePlan(p) \/ Read(p) \/ Backup(p) \/ Replace(p)
                       \/ Restore(p) \/ RestoreReplace(p) \/ Stop(p)

Spec == Init /\ [][Next]_vars

-------------------------------------------------------------------------------
(* Type invariant.                                                         *)
TypeOK ==
    /\ user \in Seq(Piece)
    /\ mirror \in Seq(Note) /\ Len(mirror) = notes
    /\ docs \in Seq([turn : Turn, ts : Time])
    /\ backups \in [Time -> SUBSET Seq(Piece)] /\ \A t \in Time : Cardinality(backups[t]) <= 1
    /\ now \in Time
    /\ pc \in [Proc -> {"idle", "read", "backup", "replace", "restore"}]
    /\ loc \in [Proc -> [summary : Piece, text : Seq(Piece), stamp : Time]]
    /\ notes \in 0..MaxNotes /\ edits \in 0..MaxEdits /\ runs \in 0..MaxRuns
    /\ owed \subseteq Note
    /\ spoiled \subseteq Misfortune

(* Backup first (usermind.py:240-271): a note that nobody has removed is   *)
(* in USER.md or in a backup of it, whatever became of the marks, however  *)
(* many runs were killed and backups restored, unless USER.md changed      *)
(* under an apply or two applies of one second shared a backup.            *)
NotesKept ==
    spoiled = {} =>
        \A n \in owed : n \in Notes(user) \/ \E t \in Time : \E text \in backups[t] : n \in Notes(text)

Count(x, text, k) == Cardinality({i \in 1..k : text[i] = x})

(* Every BEGIN has its END before the next; what is in no block.           *)
WellFormed(text) ==
    /\ \A k \in DOMAIN text : Count(BEGIN, text, k) - Count(END, text, k) \in {0, 1}
    /\ Count(BEGIN, text, Len(text)) = Count(END, text, Len(text))

Outside(text) ==
    LET upTo[k \in 0..Len(text)] ==
            IF k = 0 THEN <<>>
            ELSE IF Count(BEGIN, text, k) = Count(END, text, k - 1)
                   THEN Append(upTo[k - 1], text[k]) ELSE upTo[k - 1]
    IN  upTo[Len(text)]

(* The managed block (usermind.py:230-238): whatever the memory tool,      *)
(* kills and restores do, a file that no person has edited has one at      *)
(* most; and an apply to a file whose marks match changes nothing outside  *)
(* of it, and changes nothing the second time.                             *)
BlockManaged ==
    /\ edits = 0 => WellFormed(user) /\ Count(BEGIN, user, Len(user)) <= 1
    /\ WellFormed(user) =>
          \A s \in Plans :
              LET new == Splice(user, s)
              IN  WellFormed(new) /\ Outside(new) = Outside(user) /\ Splice(new, s) = new

(* The newest count (usermind.py:74-101, 179-184; recall.py:198-216):      *)
(* while the history is still being indexed in between, a preference of a  *)
(* turn is left out only if the list is full with what turns that are no   *)
(* older have said, or if at least as many other turns are no older as the *)
(* extraction looks at (200): then also while there is room.  Of sources   *)
(* that can be read; one that cannot is taken for an empty one.            *)
NewestCount ==
    LET items == Preferences(docs, mirror)
        keys  == {Key[items[k]] : k \in DOMAIN items}
    IN  \A i \in DOMAIN docs : \A x \in ToSet(Says[docs[i].turn]) :
          (IsPreference[x] /\ Key[x] \notin keys) =>
              \/ Cardinality({j \in DOMAIN docs \ {i} : docs[j].ts >= docs[i].ts}) >= RecentLimit
              \/ /\ Len(items) = MaxItems
                 /\ \A k \in DOMAIN items : \E j \in DOMAIN docs :
                      items[k] \in ToSet(Says[docs[j].turn]) /\ docs[j].ts >= docs[i].ts

-------------------------------------------------------------------------------
(* Why notes are kept.  While nothing is spoiled, an apply that is past    *)
(* its reading has in its hands what USER.md holds, and has it in a backup *)
(* before it replaces USER.md.                                             *)
HeldIsUser == \A p \in Proc :
    /\ pc[p] \in {"backup", "replace"} => loc[p].text = user
    /\ pc[p] = "replace" => user \in backups[loc[p].stamp]

KeepInv == spoiled = {} => NotesKept /\ HeldIsUser

-------------------------------------------------------------------------------
(* What comments say and the code does not do (Divergences in the README). *)

(* usermind.py:29: apply only touches what is between the marks: no note   *)
(* goes with it.                                                           *)
NothingSwallowed == \A s \in Plans : Notes(Splice(user, s)) = Notes(user)

(* usermind.py:231: the block is overwritten or else appended: what is *)
(* applied is in USER.md.                                                  *)
AppliedIsThere == \A s \in Plans : s \in ToSet(Splice(user, s))

(* cli.py:205, 215: so many preferences are in the block.                  *)
AllItemsShown == \A s \in Plans : s.by = "heuristic" => Len(s.items) = Len(Preferences(docs, mirror))
===============================================================================
