# A verification development for mem4

mem4 (`src/mem4`) is a memory provider plugin for an agent host. It keeps what
the agent learns in plain files under `$HERMES_HOME`, indexes them in a small
SQLite store, condenses them from time to time and records what it did. Nothing
in it is a server; what makes it hard is that several processes (an agent, a
second session, a `hermes mem4 ...` command) work on the same few files, mostly
under no lock, and each can die between any two file operations.

This directory holds TLA+ modules for its stateful parts, the TLC
configurations that check them on small instances, and theorems about all of
them with proofs that TLAPS checks for every value of the constants: each safety
property that a passing run checks is also a theorem.

Paths such as `dream.py:233` are relative to `src/mem4`; `__init__.py` is the
provider.

    tlc -config MCDream_two.cfg MCDream.tla     # one run of the table below
    tlapm DreamProofs.tla                       # the proofs of one module

## 1. The system: an inventory

| Part | State it keeps | Operations | Interacts with |
|---|---|---|---|
| Provider (`__init__.py`) | the marker `.mem4_state.json`; a daemon thread; a cached term set | `initialize`, `prefetch`, `sync_turn`, `on_memory_write`, `on_session_end`, `on_pre_compress`, `rebuild`, `shutdown`, the tools | everything below |
| Recall store (`recall.py`) | `recall.db`: table `docs`, keyed by content hash, with a word and a trigram index | `index`, `clear`, `backfill_batch`, `search`, `recent` | provider and its daemon thread, one lock per process |
| Dream (`dream.py`) | mirror logs `mirror_*.md`, `.archive/`, the marker `.dream_state.json`, the lock file `.dream.lock` | `record_signal`, `maybe_consolidate` | called by the provider at memory writes, turns and session boundaries |
| Refine (`refine.py`) | the host's `MEMORY.md`, microfiles, backups, `.refine_state.json` | `plan`, `apply`, `apply_if_changed`, `restore`, `refresh_proposal` | provider (`initialize`), command line, and the host's memory tool, which owns `MEMORY.md` |
| Audit (`audit.py`) | `audit.db`; the legacy `audit.jsonl` | `_emit` with `_ensure_schema` and `_import_legacy_jsonl`; queries | everybody emits |
| USER.md summary (`usermind.py`) | a managed block of `USER.md`, backups | `plan`, `apply`, `restore` | command line, `initialize` (off by default) |
| File backend (`backend.py`) | none of its own | reads and names microfiles | provider, refine |
| Prefetch (`__init__.py:841-998`) and its gate (`gate.py`) | the terms of the hot zone, cached from call to call | `prefetch` at the start of a turn | the index, the microfiles, `MEMORY.md` and `USER.md`, all of which others change meanwhile |
| Command line (`cli.py`) | none | `rebuild`, `refine`, `usermind`, `doctor`, `audit`, `eval` | all |
| Doctor (`doctor.py`) | none | a report with warnings | reads what Dream, refine, audit and the index left |
| Evaluation (`eval/harness.py`) | a recall store of its own | replay, paired statistics, resident cost, the gate | the recall store, audit events |

What is hard in it, and where (PROJECT.json lists each place under `hazards`):

- *Whole-file read-modify-write by several processes.* The marker of the
  backfill and the marker of the dream are read whole and written back whole
  (`__init__.py:738`, `dream.py:157`), so a process can undo what another one
  wrote meanwhile.
- *Torn files.* `Path.write_text` truncates before it writes. A kill in between
  leaves a file that parses as nothing, and the code then starts anew.
- *A lock that is stolen by age* (`dream.py:219-241`), measured with a clock
  value read earlier in the call.
- *Files owned by somebody else.* The memory tool writes `MEMORY.md` and other
  processes append to the mirror while they are being condensed.
- *A cache checked by time and size* (`__init__.py:983-997`), whose signature is
  taken before the text, and an index that keeps every older version of a file.
- *One-shot initialisation with a commit in the middle* (`audit.py:153`).
- *A managed block in a file people edit* (`usermind.py:230-238`), found again by
  its marks.
- *The order inside `initialize`* (`__init__.py:252-341`): the index is built before
  the refine that creates new cold files, and any part of a start may raise.
- *Routes and ranks*: which index can find a word depends on its characters
  (`recall.py:235-252`), and what is returned on an age and a cut (`293-307`).
- *Liveness through files*: a backfill whose cursor others can push back; a
  consolidation that must happen in the end although runs fail and locks stay
  behind.

What makes each part correct: the *backfill* never skips a row and comes to an
end, and where every process has a history source a complete marker means what it
says; a *rebuild* leaves an index that
can find the cold files; *dream* loses no text, excludes a second run, counts
its signals and consolidates in the end; *refine* loses no entry, and every
pointer it leaves answers; *audit* imports its history whole or not at all, at most
once per process, and before the first event; *prefetch* judges and shows what the files say now, and does
not let turns crowd out the microfile that matches; a *search* returns what its
query speaks of on every route; the *summary of USER.md* loses no note and keeps one
block; a *session* can find what is cold; the *doctor* reports an idle Dream; the
*evaluation* ships a gain only.

## 2. The modules

| Module | Models | Run by | Proofs |
|---|---|---|---|
| `Backfill` | initialize, worker thread, marker, sync_turn's indexing, rebuild, shutdown, over the docs table | `MCBackfill` | `BackfillProofs` |
| `Dream` | record_signal, maybe_consolidate, the lock, the compaction and its archive | `MCDream` | `DreamProofs` |
| `MirrorPromise` | what mirror and archive promise together, until a second writer meets a compaction; `Dream` implements it | `MCDream` | `DreamProofs` |
| `RefinePlan` | `RefinePlanner.plan` and the merge of a microfile, as operators | `MCRefine` | `RefineProofs` |
| `Refine` | apply, apply_if_changed, restore beside the memory tool | `MCRefine` | `RefineProofs` |
| `AuditStore` | `_emit`, `_ensure_schema`, the legacy import, transactions | `MCAuditStore` | `AuditProofs` |
| `Prefetch` | `prefetch`, `_compose_prefetch`, `_l0_terms`, the gate, a search | `MCPrefetch` | `PrefetchProofs` |
| `Recall` | what is indexed, the route of a query, its fetch, the decay order, as operators | `MCMeasure` | `MeasureProofs` |
| `Measure` | the replay, the gate, the paired statistics and the audit's median; `EXTENDS Recall` | `MCMeasure` | `MeasureProofs` |
| `UserMind` | the preferences, apply with the managed block, restore, beside the memory tool and a person | `MCUserMind` | `UserMindProofs` |
| `Session` | `initialize` part by part, the hooks, shutdown, over recurring sessions; the doctor's view of Dream | `MCSession` | `SessionProofs` |

What a program does in a loop over a list, the modules that are proved about write as a recursive
function over the list's places (`LET upTo[k \in 0..Len(s)] == ...`), and never as a RECURSIVE
operator; each proof module shows once that such a function exists, has the type of its steps and obeys
its equations, by an induction over sets from the well-foundedness of `<`.

Each module says in its heading what it abstracts. In all of them a step is one
operation on a shared file (or one SQLite statement), a process is a program
counter and a record of locals, and `Exit`, `Crash`, `Stop` or `Fault` can end it
before any step. `Session` composes what the parts do to one entry, each call as
one step; the modules that look inside a call have the callers as their
environment, and so is, in `Prefetch`, whoever writes the files it reads. What
is left out altogether is listed under "Not modelled".

**Backfill.** A process has a `main` thread and a `bg` thread, whose `pc` are the
places in `initialize`, `rebuild` and `_backfill_worker`. `marker` is the parsed
content of `.mem4_state.json` (`Unread` when it does not parse), `docs` the
contents in the table, `rows` the length of the host's append-only history.
`_write_state` is two steps, `Truncate` and `Write`. `disturbed` is a history
variable: a rebuild, between its DELETE and its last write, met another
thread or was cut short.

**Dream.** `mirror`, `archive`, `state` and `lock` are the four files; `Tick`
moves time for all of them and for the copies of `now` that calls hold. The
places of `pc` follow `record_signal` and `maybe_consolidate` line by line.
`interfered`, `robbed`, `torn` record the three kinds of misfortune a property
may have to except: another writer met a compaction, a lock was stolen from a
live holder, a kill tore the marker; `misread`, that a call went on although it could not
read a file. A marker that cannot be read is a fresh one (`RecordMisread`); a mirror that cannot be
read is not compacted, and the run saves as if it had been (`ReadFails`, the place `skip`).
What is mirrored at once is one entry, or two where a line of the text reads as a header;
an entry may have no body.

**RefinePlan, Refine.** An entry is core, coded or a pointer; a body is opaque
but for its paragraphs and its lengths, which is all the plan looks at. `Plan`
is a function from a text to the condensed text and the sections to write. `Total` and `Joined` are
the `sum` over lengths and the length of a join, which adds a delimiter between two entries and none
after the last.
`Refine` runs it as the code does: read, plan, back up, microfiles, replace,
save the hash. A microfile that cannot be read counts as empty, both where the plan merges
into it and where `apply` backs it up. `Persist` and `Command` are `apply_if_changed`, which keeps
the text it has hashed, and the command's `apply`, which looks at no hash. `spoiled` records seven kinds
of misfortune: overlaps with the memory tool or another refine, backups written over, microfile
writes that were cut, with and without a backup, each of the two failing reads where
it costs something, and a hash saved of another text than was planned. Each property names the kinds it excepts.

**AuditStore.** `writer` is SQLite's write lock; `loc[p].pending` the rows of an
open transaction; `rows` counts committed copies of each row.

**Prefetch.** A call begins with its search, stats the hot zone, reads it, takes the
hits one by one and returns; between any two of these steps others replace
`MEMORY.md`, truncate and write microfiles, index and rebuild. A text is the set
of its terms (and that of its snippet), which is all the gate looks at; a
ranking is any order. `had` is what the files held while the call ran; `blurred`
says that `MEMORY.md` has had the same time and size twice, with a write in
between, which no reader of its status can tell.

**Recall, Measure.** A text is the words that occur in it, anywhere, as tokens, and in
its snippet; a word is its length and its number of CJK characters. `Matched` is what
an index can find by those; `Fetches` are all the orders by relevance, `Reranked` the
decay, with ages in whole half-lives so that scores compare exactly; `InOrder` puts a finite set in
a strict order, place by place. `Measure` is
the one caller that uses the store alone: a step for each item indexed and each
question put. `rows` and `gate` are what the harness makes of the hits, `events`
what an auditor has recorded, from which two programs report. It has no type
invariant: nothing of its state is shared or written back.

**UserMind.** USER.md is a sequence of notes, marks and summaries. `Splice` is
`_splice_block`: with both marks anywhere in the file every span from a BEGIN to the
next END becomes the block: `Scan` takes one piece after the other, and knows whether a block is open.
`Outside` is what is in no block. `Recent` returns the newest turns, `RecentLimit` of them at
most; `Preferences` extracts from the newest first, then from the mirror. `Plans` takes a store or a mirror
that cannot be read for an empty one, as the code does. `docs` are the turns in the order of their ids, which is not that of
their times. `owed` are the notes nobody has removed; `spoiled` is as in `Refine`.

**Session.** Files and index are sets of the entries whose text they hold; `pc` is the part
`initialize` has come to, or where the provider is after it. A rebuild is two steps, the deletion, which commits, and the indexing; a kill in
between, or a start that is cut short, leaves some of the files indexed (`CutShort`). `dream` is the parsed
`.dream_state.json` with ages in days up to the last that anything tells apart. `owed` is what
a search of the running session has to find.

## 3. The runs

| Run | Configuration | Checks | Shows |
|---|---|---|---|
| `backfill_agent_cli` | `MCBackfill_agent_cli.cfg` | `TypeOK`, `ResumeSound`, `ColdFilesFound`, `BackfillFinishes` | an agent beside a rebuild command without a source: no row is ever skipped, the cold files are found, the backfill ends |
| `backfill_two_agents` | `MCBackfill_two_agents.cfg` | `NoteHonest` | two agents push the shared cursor about, yet a complete marker means all old history is indexed |
| `dream_two` | `MCDream_two.cfg` | `TypeOK`, `BodiesKept`, `MutualExclusion`, `PromptHoldersKeepTheLock`, `PauseConsolidates` | two processes with a kill, a failing write or a failing read: the lock excludes, nothing mirrored is lost, and what is pending when recording pauses is consolidated |
| `dream_alone` | `MCDream_alone.cfg` | `AloneNeverInterferes`, `CountExactAlone`, `CompactionExact`, `KeepsPromise`, `PendingIsConsolidated` | one process, likewise: exact counting and compaction, the refinement of `MirrorPromise`, and liveness past a failed run |
| `refine_one` | `MCRefine_one.cfg` | `TypeOK`, `EntriesKept`, `PointersAnswer`, `SkipSound`, `NeverLonger` | refines and restores beside the memory tool, stopped anywhere, at times unable to read a microfile; lengths at the edges of the plan's decisions |
| `audit_two` | `MCAuditStore_two.cfg` | `TypeOK`, `CopiesBounded`, `HistoryFollows`, `ImportWhole` | two processes open a store that does not exist, with faults and time-outs |
| `prefetch_one` | `MCPrefetch_one.cfg` | `TypeOK`, `HotZoneFresh`, `MicroFresh`, `Surfaced` | recalls over files and an index that change under the call |
| `measure_replays` | `MCMeasure_replays.cfg` | `Recalled`, `FresherFirst`, `ShipMeansWin`, `ReportsAgree` | every route returns what a question speaks of, age alone reorders, SHIP means a gain, two reports agree |
| `usermind_one` | `MCUserMind_one.cfg` | `TypeOK`, `NotesKept`, `BlockManaged`, `NewestCount` | no note is lost, one managed block; with more turns than the extraction looks at, the newest preferences count |
| `session_one` | `MCSession_one.cfg` | `TypeOK`, `ColdSearchable`, `DreamIdleSeen`, `SearchableForGood` | what is cold can be found in the session and for good; an idle Dream is reported |
| `backfill_reindex` | `MCBackfill_reindex.cfg` | `HistoryReindexed` | *violated*: see Divergences |
| `refine_loss` | `MCRefine_loss.cfg` | `NoSilentLoss` | *violated* |

### Bounds, and why they are enough

- *Backfill.* Two processes are what a race over the marker needs; a third adds
  only another stale copy. History has two to four rows with batches of one and
  two, so that there are full, partial and empty batches; `MCContent` starts
  with a blank row and has one text twice, the two cases in which indexing does
  nothing. Two starts allow a restart, one rebuild a rebuild beside everything
  else. The proof of `ResumeSound` needs none of the bounds.
- *Dream.* Two texts, one of them under two headers, and an entry without a body reach
  every case of the compaction (a new text, a repeat, a repeat under another
  header, an entry to leave out, a minimal log) with the log of three of `dream_alone`. `dream_two`
  has a log of two, the least that is compacted, with one text. `LockStale = 1` and `MaxDelay = 1`
  have a holder exactly as slow as the stale time, and a killed one's lock that both processes
  measure as stale, so that the second can rob a live holder; `LockStale = 0` has a process
  steal the lock its own killed run left. Ages and counts stop at the last value a
  test of the code can tell apart, so the state space is finite without a bound
  on time, signals or runs; only kills, failures and log length are bounded. `MaxRaises` counts the
  operations that raise and the reads that fail together; one of them and one kill let a run
  fail, its retry be killed and a third succeed. The proofs of the safety properties need no bound.
- *Refine.* The bodies are the classes the plan's comparisons make: "short" is shorter than a pointer,
  "long" has two paragraphs and a code, "mid" is a core entry that is promoted only near the
  limit, "huge" and "giant" are ones that are promoted at any fill. `CharLimit` 800 has texts on both
  sides of the 80 % at which promotion turns aggressive: "long" and "mid" together are near it,
  "huge" and "giant" are not, so that one of them is left over. The tool adds two entries, so that one can be
  extracted, its microfile be there, and the other be merged into it. `MCCode` has
  as many suffixes of a base code as a text could use up. Two
  seconds are what a clash of backups needs.
- *Prefetch.* One microfile with two versions, a log and a turn: more documents
  than the pool of three takes, and more microfiles and logs than `Limit = 1`.
  Hot zones of equal and of different length; one is an echo of some texts and not of
  others. Two changes while a call runs are a truncation and a write, or a write to
  each of two files; the proofs need no bound.
- *Audit.* Three legacy lines, one of which is skipped; two processes; as many events
  as let a process fail, come back and find the table.
- *Measure.* Words of no, two and four CJK characters and one too short for the trigram
  index, in texts as tokens, inside of tokens, and behind the snippet; questions for
  every route, one with an operator and one with CJK white space. Two replays have
  documents of two times, before, at and after `now`. Four events give odd and
  even numbers of pairs. The pool of four times the limit is never full here.
- *UserMind.* Three turns, indexed in any order of their times, that share a preference; `RecentLimit` 2
  stands for the code's 200, so that a turn is left out. Two items at most of which one is shown; a note
  that takes the key of a preference; two runs over two seconds, one edit by hand. The proofs
  need none of the bounds.
- *Session.* Two entries, so that one can be cold while another is moved; two kills, in a
  start or in a rebuild, or failing starts. The limits 1 and 2 are in the order of the code's 7 and 14 days. The proofs need no bound.

Deadlock is checked in the Dream, Prefetch and Session runs: time always passes, or there
is always another call or session. In the
others the bounds on starts, runs or events let the system stop, which is what
CHECK_DEADLOCK FALSE says.

### Fairness

`Backfill` assumes weak fairness of each thread's own steps: a thread that is in
the middle of code is scheduled. It assumes nothing of calls, exceptions, exits
or the host's history, and `BackfillFinishes` excepts a thread that has died and a
process that has gone.

`Dream` assumes weak fairness of each process's steps and of `Tick`, and strong
fairness of `Boundary`, the session boundaries, of whichever process. Strong, because a busy process is
not always between two calls, but is so again and again, and what the code relies on (`__init__.py:335`,
`661-672`) is that sessions keep beginning and ending, not that each process has one: without a session there
is nobody to consolidate. Nothing is assumed of kills and failures, but that
their number is finite in an instance.

`Session` assumes weak fairness of the steps of `initialize` (`Begin`, `OpenIndex`,
`StartDream`, `PersistRefine`: no step of it waits for anybody), of the indexing that ends a rebuild
(`RebuildIndex`), and of `Exit`: sessions
come to an end and the agent is started again. `SearchableForGood` needs that, as
only a start indexes.

## 4. Divergences

Two runs are expected to fail, each with a statement the repository makes.

- `backfill_reindex`: `__init__.py:1059` resets the cursor "so history is
  re-indexed from the start". A worker thread that read the marker before the
  reset writes its cursor back over it (746); the rows below, deleted by the
  rebuild, stay out of the index through every restart.
- `refine_loss`: README.md:172 says that `--apply` and Dream persist "are fully reversible
  with `--restore`". An entry the memory tool adds between the plan's read (275) and the
  replacement (492) is overwritten and in no backup.

The modules define further statements that the code does not keep, under the
heading "does not do". They are in no configuration; to see the trace,
put the definition into one as an INVARIANT (a PROPERTY, for the boxed ones).

| Definition | Source of the statement | What happens instead |
|---|---|---|
| `CompleteMeansCaughtUp` (Backfill) | README.md:102 | a process without a history source, such as the rebuild command, marks the shared backfill complete (`__init__.py:719`), and the note that history is still catching up is gone while the agent's thread has indexed nothing |
| `RebuildKeepsTurns` (Backfill) | cli.py:232, README.md:154 | a rebuild deletes indexed turns of the running session; only the history source can bring them back |
| `NothingEverLost` (Dream) | dream.py:283-284 | what another process appends to the mirror between a compaction's read (269) and rewrite (291) is in neither log nor archive |
| `NeverTwoRuns` (Dream) | dream.py:27-28 | a slow holder's lock is stolen; or two processes measure the same stale lock and the second unlinks the first one's new lock (233) |
| `NoIdleRun` (Dream) | dream.py:15 | the marker is read before the lock (195), so a second process consolidates once more with nothing pending |
| `EverySignalCounts` (Dream) | dream.py:10-11 | two read-modify-writes of the marker lose a signal, a save after a consolidation zeroes those recorded meanwhile, and a marker that cannot be read starts from zero (138) |
| `NeverOverwritten` (Refine) | refine.py:471 | a read that fails is taken for an empty text, by the plan (252) and by `apply` (480): the microfile is rewritten without its older paragraphs, and what is backed up is "" |
| `SkippedIsSettled` (Refine) | tests/test_mem4_refine_promote.py:139 | where MEMORY.md is not near its limit a plan promotes one long core entry, and `apply` saves the hash of the text it leaves; `apply_if_changed` stops at that hash (531) although its plan would promote another, so that until MEMORY.md is edited one promotion is all that persisting refines do |
| `BackupsStand` (Refine) | README.md:172 | a second apply in the same second writes over the first one's backup (450) |
| `NoParagraphTwice` (Refine) | refine.py:256 | a body of several paragraphs is compared whole with single paragraphs (255-266) and merged again after a restore |
| `HistoryNotLost` (AuditStore) | audit.py:16-17 | `CREATE TABLE` commits on its own (153); a process that dies or times out before it commits the import leaves a table that every later process takes for an imported one |
| `AnyTokenSurfaces` (Measure) | recall.py:120-121 | the trigram index cannot find an ASCII word of less than three characters in a query that has CJK words too, and LIKE is asked only if it found nothing (249) |
| `QuartilesInside` (Measure) | eval/harness.py:24 | of two numbers `statistics.quantiles` extrapolates (62): the lower quartile is below the minimum |
| `NothingSwallowed` (UserMind) | usermind.py:29 | with one END deleted and another block appended, the text in between is taken for the block's (233-236) |
| `AppliedIsThere` (UserMind) | usermind.py:231 | with END before BEGIN nothing is replaced and nothing appended, and apply reports success (needs two edits) |
| `AllItemsShown` (UserMind) | cli.py:205, 215 | the items are counted before the cut to 900 characters (148) |
| `NeverMoreBytes` (Refine) | tests/test_mem4_refine_promote.py:108-113 | decisions count characters; a pointer has more bytes than characters |

Others, which no definition states:

- A consolidation that cannot read a mirror log counts it as done (`dream.py:270`) and clears the
  signals: what is pending stays in the log until new signals come. `PendingIsConsolidated` and
  `PauseConsolidates` name this outcome (`Skipping`), and a torn marker, as the two alternatives.
- A rebuild commits an empty index before it writes the marker and indexes again
  (`__init__.py:1057-1064`); one that is killed or raises there leaves the index without the cold files
  until the next start. `SearchableForGood` says so.
- The summary of USER.md looks at the newest 200 turns (`usermind.py:179`): an older turn's preference
  is left out even while there is room, and notes of the mirror take it. `NewestCount` says so.
- A mirror log and a microfile of the same name (`user`, `memory`) share one entry of
  the set of seen codes (`__init__.py:912-918`), so that the log's snippet can hide the
  microfile, which is why `Surfaced` is content with either; and a microfile that is
  being rewritten, found empty, is replaced by the snippet of whatever version was
  indexed (`__init__.py:920`), which is why `MicroFresh` excepts it.
- The microfiles a persisted refine creates are not searchable in the session that
  creates them, unless the entry had been mirrored (`__init__.py:281` before `330`);
  `ColdSearchable` says what holds. The size of the hot zone is measured before that
  refine (285), for the whole session.
- After `shutdown` the provider stays active over a closed database: a late `mem_search`
  raises (`__init__.py:435`).
- In the baseline arm (`__init__.py:65-67`) `on_pre_compress` still returns the legend, and
  a persisted refine still rewrites MEMORY.md.
- `usermind --apply` writes a second plan, not the one it has shown (`cli.py:199-212`,
  `usermind.py:242`); its restore does not back up what it replaces; a memory-tool write under
  way is lost (248-262); and a note the user removes comes back as a
  preference from the mirror (188).
- The doctor says that refine has not run for days when only its runs that changed something are
  in the audit (`doctor.py:163-181`), is blind to it where audit is off, calls Dream
  never triggered after the first signal (195-199), and a Dream stalled whose material is
  a day old (202). `DreamIdleSeen` is the direction that holds.

`NeverLonger`, `BodiesKept`, `MutualExclusion`, `ResumeSound`, `NoteHonest`, `EntriesKept` and `SkipSound` say how
much of these statements does hold, and under which circumstances; `NotesKept` and `BlockManaged`, `Recalled`, `ColdSearchable` and `HistoryFollows`
do so for the others.

## 5. What is proved

For every value of the constants that their named assumptions allow (sets of
processes, history, batch size, thresholds, times, legacy files of any length):

- `BackfillProofs`: `TypeCorrect` (`[]TypeOK`, which includes that a cursor never
  points past the history), `ResumeSoundAlways`, `NoteHonestAlways` and `ColdFilesFoundAlways`. `ResumeSound`
  speaks of the durable cursor only and is not inductive: a worker holds an older
  marker that it will write back. `CursorInv` adds that every cursor a thread carries
  is covered by the index, that the batch is covered up to the row reached, that
  an undisturbed rebuild is alone while the index is short, and that it leaves a
  cursor of zero. The blank rows count as indexed, as in the code. `NoteHonest` needs
  `FlagInv` on top: whoever carries a set completion flag carries it over indexed
  history (`FlagCarried`), a short batch is the last one, and a rebuild's own
  writes clear the flag before it indexes. `ColdFilesFound` needs `FilesInv`, a thread past
  its indexing has the files in the index.
- `DreamProofs`: `TypeCorrect`, `MutualExclusionAlways`, `BodiesKeptAlways`,
  `PromptAlways`, `CountExactAloneAlways`, `AloneNeverInterferesAlways`, `KeepsPromiseAlways`,
  `KeepsPromiseAlone`, `CompactionExactAlways`. `BodiesKept` needs `KeepInv`: while nothing has interfered, a
  compaction has in its hands what the mirror still holds, and has archived it
  before it empties the mirror. The recursive function of the compaction is
  shown to be defined on every log and to keep its bodies (`DedupBodies`) by an induction over sets
  (`SetInduction`, from the well-foundedness of `<` on the naturals).
  `PromptAlways` needs `PromptInv`: without crashes a lock has a holder whose
  call is at least as old as the lock. `CountExactAlone` needs `CountInv`: the marker lags behind
  only while it is being rewritten, and what is about to be written does not; a marker torn, or a file that
  could not be read, is excepted.
  `AloneNeverInterferes` needs `AloneInv`: an archive with a text the mirror lacks was left by a
  killed run and is no younger than that run's lock, which has to be older than the call that
  steals it; so it is not of that call's second. With both invariants each step either adds one
  text to mirror and archive together or none, which is the step simulation of `MirrorPromise`
  for any number of processes, where interference, once there, stays (`InterferedStays`) and is its `Break`;
  one process without failing file operations never takes that step (`KeepsPromiseAlone`).
  `CompactionExact` is a fact about one operator: the dict after `n` entries is related to the log by
  `Compacts`, which each `Insert` extends; an entry without a body counts as read and changes nothing else.
  `ProcAssumption` (finitely many processes) is what lets a cardinality of one name the process.
- `RefineProofs`: `TypeOKAlways`, `EntriesKeptAlways`, `PointersAnswerAlways`, `SkipSoundAlways`, `NeverLongerAlways`. The
  invariants of the second to fourth are stated there, as each is a chain of facts about what a process has in hand:
  `Types`; `Alone` (while the tool does not write under a refine, what the refine has read is what
  MEMORY.md holds, its plan takes in all that the rewritten text leaves out and, where they could be read,
  the microfiles, and what it has written so far is there); `Kept` (each entry is inline, in a microfile,
  in a backup or about to be written back, a microfile that could not be read included: it is in a
  backup before it is emptied, unless the second read failed as well);
  `Answers` (each pointer of MEMORY.md, of its backups and of texts in hand has its section, each one of a
  rewritten text has one in the plan or is answered already); and
  `SavesSettled` (a hash that is or will be saved is of a text from which no refine extracts a coded entry, as
  by `PlanSettles` no plan leaves one, and that has a pointer if a refine would promote from it, as by
  `NoPointerNoChange` a plan that shows no pointer has changed nothing). What is excepted is in the
  statements, kind by kind (`spoiled`). The
  assumptions are `LengthAssumption`, `ParasAssumption`, `RefineBounds` and `CodeAssumption`.
  `NeverLonger` is a fact about `Plan` and sums along a sequence. The condensed text is the flattening
  of what each place shows, so its length is the total of the places (`FlattenTotal`) plus a delimiter
  for every entry but one. The places are put into classes, those that share a code and each other
  place by itself, and the two texts are compared class by class
  (`TotalByClass`). In a class only the first place shows anything, a pointer, and it is no longer than the
  class: an entry is promoted only where the pointer is shorter (`refine.py:227`); a pointer that
  stood there and a coded entry make more than a pointer; and coded entries alone are
  extracted only when that is `Worth` it (316), where the joined bodies compared are no longer than the entries.
- `AuditProofs`: `TypeCorrect`, `ImportWholeAlways`, `HistoryFollowsAlways`,
  `CopiesBoundedAlways`. They rest on `AuditInv`: an open transaction holds exactly the
  good lines before the one its process has reached, and all of them by the time
  it commits (`PendingInv`); nobody is past `Create` without a table, and nobody
  idle believes to have created it (`StoreInv`). `CopiesBounded` counts: copies
  in the table plus the processes that found it missing never exceed the number
  of processes. The assumption is that the processes are finitely many.

- `PrefetchProofs`: `TypeCorrect`, `HotZoneFreshAlways`, `MicroFreshAlways`, `SurfacedAlways`. `CacheInv`: while
  no signature comes back, terms cached under the present signature are those of the
  present text, even if they were read after the file had changed under an older
  one; and what a call finds under the signature it took belongs to a
  text it has seen. `SeenInv`: a call's record of the files has their present state.
  `SurfaceInv`: a microfile that was found is still to be taken or was dealt with, and there are never
  more lines than codes found, so that the cut to the limit takes none away.
  The assumptions are finitely many texts and a limit of at least one.
- `MeasureProofs`: `RecalledAlways`, `FresherFirstAlways`, `ShipMeansWinAlways`,
  `ReportsAgreeAlways`. `StoreInv`: what a replay has last searched is an answer of `Searches`
  over the present store; `RowsInv`: a gate was judged from the rows there are. The rest is about
  operators. `InOrder` is shown to be a permutation, by counting what is before an element
  (`Rank`), for any finite set in a strict order; that the decay *is* one takes that the
  penalty grows with the age, and is positive. So `Recalled` is a case for every route: the rows are all
  that match, and a cut to the limit drops some only if there are more than the limit.
  `FresherFirst`: what is ahead of a row after the decay was ahead of it before or is fresher.
  `ShipMeansWin` and `ReportsAgree` are one fact about sorted numbers: a positive
  sum of the middle two has at least half of the numbers positive. The
  assumptions are `WordAssumption`, `RecallTextAssumption`, `ItemAssumption`,
  `SizeAssumption` and `EventAssumption`.

- `UserMindProofs`: `UserMindTypeOK`, `NotesKeptAlways`, `BlockManagedAlways`, `NewestCountAlways`.
  `NotesKept` needs `KeepInv`: while nothing is spoiled, an apply past its reading
  holds what USER.md holds, and has it in a backup before it replaces it. That a splice
  keeps the notes is not needed and not true; the backup is what keeps them.
  `BlockManaged` has two halves. The first needs `BlockInv`: until a person edits, USER.md, each backup
  and each text in hand has no mark or one block, of three pieces (`Placed`); the memory tool adds and
  removes whole notes around it, a splice replaces the one or appends it. The second is a fact
  about any text whose marks match, of any length and with any number of blocks: the scan
  puts a block where a block was, so that the counts of BEGIN and END agree before and after
  at every place, what is outside passes through, and a second scan finds only what it would write.
  `NewestCount` rests on two inductions, over the turns and over a turn's statements: a
  preference of a turn that `Recent` returned is passed over only when its key is taken or the list is full,
  and what was taken by then came from turns no older, as `Recent` is shown to be the first `RecentLimit`
  places of a permutation in order of time; a turn it left out has that many others that are no older. The
  assumptions are `StatementAssumption` and `UserMindBounds`.
- `SessionProofs`: `TypeCorrect`, `DreamIdleAlwaysSeen`, `ColdSearchableAlways`. The second rests
  on the order of the marker's dates (waiting began no later than the last run), the third on
  `SearchInv`: what is owed is on disk, and while `initialize` goes on the whole mirror is in the index.

`CursorInv`, `FlagInv`, `FilesInv`, `PromptInv`, `CountInv`, `AloneInv`, `CacheInv`, `SurfaceInv` and the two `KeepInv` are stated in the
component's module, so that TLC can be asked about them as about any invariant.

Only model-checked: the liveness properties `BackfillFinishes`, `PauseConsolidates`,
`PendingIsConsolidated` and `SearchableForGood`. Fairness and ENABLED are out of the prover's reach.

What the proofs could not use shaped some definitions. The library's induction theorems take an
operator, which no installed prover can instantiate; induction goes over sets of numbers instead
(`NatsIn`, `SetInduction`), and a recursive function is taken apart with it. Folds and RECURSIVE operators
cannot be. `CountCjk` of `Recall` is still a fold, as the theorems hold whatever it counts.

## 6. Not modelled

- *Recall*: relevance (FTS5's rank) is any order; quotation marks around a query, errors of SQLite
  and the escaping of LIKE patterns are left out. `Prefetch` does not use the routes of `Recall`: in it a
  search is any order of the matching documents.
- In `Prefetch` one provider makes one call at a time, one file stands for the two of the hot
  zone, and the last cut of the block to a number of characters, which can take lines off
  its end, is left out.
- *USER.md summary*: its proposal file, which nothing reads, and how a turn is split into
  statements.
- *The provider*: several agents are in `Backfill` and `Dream`, not in `Session`; the A/B arm, the
  proposals that `initialize` writes, the auditor it opens.
- *Doctor*: all but what it says of Dream: counts of files, documents and events.
- *Evaluation*: break-downs, means, rounding, the printed report.
- *Audit queries and columns*, *configuration*, *tool schemas* and *prompt blocks*: reports and pure
  functions.
- In `Dream` the two mirror logs are one, and the run counter is left out. A text with a line that reads
  as a header is two entries; a text left without any header (what precedes the first one) is not modelled.
- Files are indexed in one step, in `Backfill` and in `Session`. A single file that cannot be read then, which
  the code passes over (`backend.py:165-168`, `__init__.py:694-697`), or one that a refine in another
  process has just truncated (`refine.py:486`) or that a kill has left cut, is not in the index before a start
  that finds it whole; `ColdFilesFound`, `ColdSearchable` and `SearchableForGood` say nothing of it.
- No property states that a torn marker, which reads as "no backfill", hides the note of a backfill in
  progress for an instant (`__init__.py:707`), nor that the exception of a bad legacy line, which `_emit` does
  not catch, reaches its caller (`audit.py:220`; that the log stays whole then is `ImportWhole`).
- A hash file that cannot be read makes `apply_if_changed` do what `apply` does, which is in `Refine` as `Command`.
- In `Backfill` the cold files do not change while the model runs.

## 7. Plan

In this order, the most important behaviour first:

1. done: `Backfill`, `Dream` with `MirrorPromise`, `RefinePlan`, `Refine`,
   `AuditStore`, `Prefetch`, `Recall` with `Measure`, `UserMind`, `Session`, and the proofs of section 5.
2. Safety counterparts of the liveness properties, to be proved: no cursor that is behind with
   no thread or start left to move it; no pending dream material that no boundary would consider.
3. Action properties: what a step may never do to the durable files (archive, backups, the audit's rows),
   stated and proved from the invariants there are.
4. `Prefetch` over the routes of `Recall`, in place of any order.
