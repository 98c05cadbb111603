------------------------------ MODULE AuditStore ------------------------------
(***************************************************************************)
(* The audit log of the mem4 provider (mem4/audit.py): Auditor._emit with  *)
(* _ensure_schema and _import_legacy_jsonl, over audit.db.                 *)
(*                                                                         *)
(* Every process with an Auditor records events in one SQLite database.    *)
(* The first one to find no table creates it and imports the legacy file   *)
(* audit.jsonl.  CREATE TABLE takes effect on its own; the imported lines  *)
(* and the event are one transaction, begun by its first INSERT.           *)
(*                                                                         *)
(* Abstractions: the columns; the indexes, created with the table; the     *)
(* lock of one Auditor, a process here being one _emit at a time.  SQLite  *)
(* (external) is its write lock, its transactions and its busy timeout.    *)
(***************************************************************************)
EXTENDS Integers, Sequences, FiniteSets

CONSTANTS
    Proc,       \* processes that audit
    Legacy,     \* the kind of each line of audit.jsonl
    MaxEvents,  \* bound: events recorded
    MaxFaults   \* bound: kills, database errors, bad legacy files

(* noise: blank, or no JSON.                                               *)
ASSUME LegacyAssumption == Legacy \in Seq({"good", "noise"})
ASSUME ProcAssumption == IsFiniteSet(Proc)
ASSUME AuditBounds == MaxEvents \in Nat \ {0} /\ MaxFaults \in Nat

VARIABLES
    table,    \* audit_events exists
    rows,     \* how often each row is in the table, as committed
    writer,   \* who holds the write lock of the database, if anybody
    pc, loc,  \* what each process is about to do, and its locals
    emitted,  \* events so far
    faults,   \* of those, so far
    dropped   \* an event was given up

vars == <<table, rows, writer, pc, loc, emitted, faults, dropped>>

-------------------------------------------------------------------------------
Line  == {<<"legacy", i>> : i \in {j \in DOMAIN Legacy : Legacy[j] = "good"}}
Event == {<<"event", n>> : n \in 1..MaxEvents}
Row   == Line \cup Event

PC == {"idle", "check", "create", "import", "insert", "commit"}

(* event: the event to record; created: _ensure_schema's answer;           *)
(* at: the next legacy line; pending: rows of the open transaction.        *)
Local == [event : Event, created : BOOLEAN, at : 1..(Len(Legacy) + 1), pending : SUBSET Row]
NoLocal == [event |-> <<"event", 1>>, created |-> FALSE, at |-> 1, pending |-> {}]

Init ==
    /\ table = FALSE
    /\ rows = [r \in Row |-> 0]
    /\ writer = {}
    /\ pc = [p \in Proc |-> "idle"]
    /\ loc = [p \in Proc |-> NoLocal]
    /\ emitted = 0 /\ faults = 0
    /\ dropped = FALSE

Goto(p, l) == pc' = [pc EXCEPT ![p] = l]

(* conn.close(): an open transaction is rolled back, its lock freed.       *)
Close(p) ==
    /\ Goto(p, "idle")
    /\ loc' = [loc EXCEPT ![p] = NoLocal]
    /\ writer' = writer \ {p}

(* INSERT begins the transaction, or continues it.                         *)
InsertRow(p, r) ==
    /\ writer \subseteq {p}
    /\ writer' = {p}
    /\ loc' = [loc EXCEPT ![p].pending = @ \cup {r}, ![p].at = IF r \in Line THEN @ + 1 ELSE @]

-------------------------------------------------------------------------------
Emit(p) ==
    /\ pc[p] = "idle" /\ emitted < MaxEvents
    /\ emitted' = emitted + 1
    /\ loc' = [loc EXCEPT ![p].event = <<"event", emitted + 1>>]
    /\ Goto(p, "check")
    /\ UNCHANGED <<table, rows, writer, faults, dropped>>

(* Mutated Check: the answer is that the table was created; that it was    *)
(* not, as asking after CREATE TABLE would have it.                        *)
CheckAlways(p) ==
    /\ pc[p] = "check"
    /\ loc' = [loc EXCEPT ![p].created = TRUE]
    /\ Goto(p, "create")
    /\ UNCHANGED <<table, rows, writer, emitted, faults, dropped>>
CheckNever(p) ==
    /\ pc[p] = "check"
    /\ loc' = [loc EXCEPT ![p].created = FALSE]
    /\ Goto(p, "create")
    /\ UNCHANGED <<table, rows, writer, emitted, faults, dropped>>

(* _ensure_schema asks whether the table exists ...                        *)
Check(p) ==
    /\ pc[p] = "check"
    /\ loc' = [loc EXCEPT ![p].created = ~table]
    /\ Goto(p, "create")
    /\ UNCHANGED <<table, rows, writer, emitted, faults, dropped>>

(* ... and creates it if it does not, committed at once.                   *)
Create(p) ==
    /\ pc[p] = "create"
    /\ table' = TRUE
    /\ Goto(p, IF loc[p].created THEN "import" ELSE "insert")
    /\ UNCHANGED <<rows, writer, loc, emitted, faults, dropped>>

(* Mutated ImportLine: every line commits on its own.                      *)
ImportLineCommits(p) ==
    LET i == loc[p].at IN
    /\ pc[p] = "import" /\ i <= Len(Legacy)
    /\ writer \subseteq {p}
    /\ rows' = IF Legacy[i] = "good" THEN [rows EXCEPT ![<<"legacy", i>>] = @ + 1] ELSE rows
    /\ loc' = [loc EXCEPT ![p].at = @ + 1]
    /\ UNCHANGED <<table, writer, pc, emitted, faults, dropped>>

(* One line of audit.jsonl: imported, or skipped where it is no JSON.      *)
ImportLine(p) ==
    LET i == loc[p].at IN
    /\ pc[p] = "import" /\ i <= Len(Legacy)
    /\ \/ Legacy[i] = "good" /\ InsertRow(p, <<"legacy", i>>)
       \/ Legacy[i] = "noise" /\ loc' = [loc EXCEPT ![p].at = @ + 1] /\ UNCHANGED writer
    /\ UNCHANGED <<table, rows, pc, emitted, faults, dropped>>

ImportDone(p) ==
    /\ pc[p] = "import" /\ loc[p].at > Len(Legacy)
    /\ Goto(p, "insert")
    /\ UNCHANGED <<table, rows, writer, loc, emitted, faults, dropped>>

Insert(p) ==
    /\ pc[p] = "insert"
    /\ InsertRow(p, loc[p].event)
    /\ Goto(p, "commit")
    /\ UNCHANGED <<table, rows, emitted, faults, dropped>>

Commit(p) ==
    /\ pc[p] = "commit"
    /\ rows' = [r \in Row |-> rows[r] + IF r \in loc[p].pending THEN 1 ELSE 0]
    /\ Close(p)
    /\ UNCHANGED <<table, emitted, faults, dropped>>

(* "database is locked": an sqlite3.Error, which _emit swallows.           *)
Timeout(p) ==
    /\ pc[p] \in {"import", "insert"}
    /\ ~(writer \subseteq {p})
    /\ Close(p)
    /\ dropped' = TRUE
    /\ UNCHANGED <<table, rows, emitted, faults>>

(* Mutated Fault: the connection is not closed.                            *)
FaultLeaks(p) ==
    /\ pc[p] # "idle" /\ faults < MaxFaults
    /\ faults' = faults + 1
    /\ Goto(p, "idle")
    /\ loc' = [loc EXCEPT ![p] = NoLocal]
    /\ dropped' = TRUE
    /\ UNCHANGED <<table, rows, writer, emitted>>

(* Another sqlite3.Error; an exception that _emit does not catch, of a     *)
(* legacy file that cannot be read or a line of JSON that is no row; or    *)
(* the process is killed.                                                  *)
Fault(p) ==
    /\ pc[p] # "idle" /\ faults < MaxFaults
    /\ faults' = faults + 1
    /\ Close(p)
    /\ dropped' = TRUE
    /\ UNCHANGED <<table, rows, emitted>>

Next ==
    \E p \in Proc :
        \/ Emit(p) \/ Check(p) \/ Create(p)
        \/ ImportLine(p) \/ ImportDone(p)
        \/ Insert(p) \/ Commit(p) \/ Timeout(p) \/ Fault(p)

Spec == Init /\ [][Next]_vars

-------------------------------------------------------------------------------
(* Type invariant: whoever writes is in the middle of a transaction.       *)
TypeOK ==
    /\ table \in BOOLEAN
    /\ rows \in [Row -> Nat]
    /\ \A p \in writer : p \in Proc /\ pc[p] \in {"import", "insert", "commit"}
    /\ pc \in [Proc -> PC]
    /\ loc \in [Proc -> Local]
    /\ emitted \in 0..MaxEvents /\ faults \in 0..MaxFaults
    /\ dropped \in BOOLEAN

(* The import is all or nothing (audit.py:188-199): no reader ever finds   *)
(* some of the legacy lines without the others, wherever an import was     *)
(* killed, failed, or ran beside another one.                              *)
ImportWhole == \A l, m \in Line : rows[l] = rows[m]

(* The cost of racing importers is bounded (audit.py:150-177): a process   *)
(* finds the table missing at most once, however often its imports fail,   *)
(* so that there is never more than one copy of the history per process,   *)
(* and a process on its own imports it once.                               *)
CopiesBounded == \A l \in Line : rows[l] <= Cardinality(Proc)

(* History comes before, or with, the first event (audit.py:188-197): as   *)
(* long as no event was given up, a store with an event in it has the      *)
(* legacy lines, or is still going to get them.                            *)
HistoryFollows ==
    (~dropped /\ \E e \in Event : rows[e] > 0) =>
        \/ \A l \in Line : rows[l] > 0
        \/ \E p \in Proc : loc[p].created

-------------------------------------------------------------------------------
(* What the comments say and the code does not do (README, Divergences).   *)

(* audit.py:16-17: "so no historical measurement is lost": a store that    *)
(* has recorded an event, and is left alone, has the legacy rows.          *)
HistoryNotLost ==
    ((\E e \in Event : rows[e] > 0) /\ \A p \in Proc : pc[p] = "idle")
        => \A l \in Line : rows[l] > 0

===============================================================================
