------------------------------- MODULE Measure -------------------------------
(***************************************************************************)
(* How mem4 is measured: the deterministic replay, the paired statistics   *)
(* and the gate of the harness (mem4/eval/harness.py), over a RecallStore, *)
(* and the summary of the recorded events (mem4/audit.py).                 *)
(*                                                                         *)
(* A replay indexes the knowledge of its items, then puts the question of  *)
(* each, one step for every call of the store.  Its store is in memory, or *)
(* a file that earlier replays, with another `now`, have filled.           *)
(*                                                                         *)
(* Abstractions: the break-downs by language and paraphrase, means and     *)
(* rounding are left out; an event is its kind and its paired tokens.      *)
(***************************************************************************)
EXTENDS Recall

CONSTANTS
    Item, Knowledge, Question, Expected,  \* a text, a query and a word for each item
    SnippetChars,                         \* the length of each text's snippet
    ResidentChars, LegendChars,           \* baseline_resident_chars, mem4_legend_chars
    SessionChars,                         \* the sizes of MEMORY.md in sessions
    Limit,                                \* limit
    Event,                                \* what an auditor may record
    MaxTime, MaxReplays, MaxEvents        \* bounds

ASSUME ItemAssumption == IsFiniteSet(Item) /\ \A it \in Item :
    Knowledge[it] \in Text /\ Sought(Question[it]) # {} /\ Expected[it] \in Word
ASSUME SizeAssumption ==
    /\ \A t \in Text : SnippetChars[t] \in 0..240
    /\ ResidentChars \in Nat /\ LegendChars \in Nat /\ Limit \in Nat \ {0}
    /\ SessionChars \in Seq(Nat) /\ SessionChars # <<>>
ASSUME EventAssumption == \A e \in Event : e.baseline \in Int /\ e.mem4 \in Int
ASSUME MeasureBounds == MaxTime \in Nat /\ MaxReplays \in Nat /\ MaxEvents \in Nat

VARIABLES
    inFile,   \* the replays share a file
    trigram,  \* this SQLite has the trigram tokenizer
    now, docs,
    pc,
    items,    \* of the replay under way
    at,       \* the next of them
    rows,     \* the rows so far
    last,     \* the last search
    gate,     \* what the gate says of the last replay
    replays,
    events    \* what the auditor has recorded

vars == <<inFile, trigram, now, docs, pc, items, at, rows, last, gate, replays, events>>

NoSearch == [query |-> Asks(<<>>, 0), route |-> "", rows |-> <<>>, hits |-> <<>>]
NoGate   == [recall |-> FALSE, tokens |-> FALSE, resident |-> FALSE]

Init ==
    /\ inFile \in BOOLEAN /\ trigram \in BOOLEAN
    /\ now = 0 /\ docs = NoDocs
    /\ pc = "idle" /\ items = <<>> /\ at = 1 /\ rows = <<>>
    /\ last = NoSearch /\ gate = NoGate
    /\ replays = 0 /\ events = <<>>

-------------------------------------------------------------------------------
(* _chars_to_tokens and estimate_tokens                                    *)
Tokens(chars) == (chars + 3) \div 4

(* Numbers, in a list or under other indices, from the least to the most.  *)
Sorted(f) ==
    LET before(i, j) == f[i] < f[j] \/ (f[i] = f[j] /\ i < j)
        order == InOrder(DOMAIN f, before)
    IN  [k \in DOMAIN order |-> f[order[k]]]

(* statistics.median, twice: of an even number of numbers it is between    *)
(* the middle two.                                                         *)
Middle2(s, mid) == IF Len(s) % 2 = 1 THEN 2 * s[mid + 1] ELSE s[mid] + s[mid + 1]
Median2(f) == LET s == Sorted(f) IN Middle2(s, Len(s) \div 2)

Map(Op(_), s) == [k \in DOMAIN s |-> Op(s[k])]

-------------------------------------------------------------------------------
(* deterministic_replay, at a `now` that the caller passes.                *)

Begin ==
    /\ pc = "idle" /\ replays < MaxReplays /\ events = <<>>
    /\ now' \in 0..MaxTime
    /\ \E S \in (SUBSET Item) \ {{}} : items' = SetToSeq(S)
    /\ docs' = IF inFile THEN docs ELSE NoDocs
    /\ pc' = "index" /\ at' = 1 /\ rows' = <<>> /\ last' = NoSearch /\ gate' = NoGate
    /\ replays' = replays + 1
    /\ UNCHANGED <<inFile, trigram, events>>

IndexItem ==
    /\ pc = "index"
    /\ docs' = Indexed(docs, Knowledge[items[at]], now)
    /\ IF at = Len(items) THEN pc' = "search" /\ at' = 1 ELSE at' = at + 1 /\ UNCHANGED pc
    /\ UNCHANGED <<inFile, trigram, now, items, rows, last, gate, replays, events>>

SnippetsOf(hits) ==
    LET upTo[k \in 0..Len(hits)] == IF k = 0 THEN 0 ELSE upTo[k - 1] + SnippetChars[hits[k]]
    IN  upTo[Len(hits)]

RowOf(it, hits) ==
    [gold     |-> \E k \in DOMAIN hits : Expected[it] \in Snippet[hits[k]],
     baseline |-> Tokens(ResidentChars),
     mem4     |-> Tokens(LegendChars) + Tokens(SnippetsOf(hits))]

SearchItem ==
    /\ pc = "search"
    /\ \E s \in Searches(Question[items[at]], docs, trigram, now, Limit) :
         /\ last' = s
         /\ rows' = Append(rows, RowOf(items[at], s.hits))
    /\ IF at = Len(items) THEN pc' = "gate" /\ at' = 1 ELSE at' = at + 1 /\ UNCHANGED pc
    /\ UNCHANGED <<inFile, trigram, now, docs, items, gate, replays, events>>

Golds(rs) == Cardinality({k \in DOMAIN rs : rs[k].gold})

(* gate: gold recall of 30 % more than the baseline, which has none; fewer *)
(* tokens in the median; a smaller hot zone in the median (resident_cost). *)
Judge(rs) ==
    [recall   |-> 100 * Golds(rs) >= 30 * Len(rs),
     tokens   |-> Median2(Map(LAMBDA r : r.mem4, rs)) < Median2(Map(LAMBDA r : r.baseline, rs)),
     resident |-> 2 * Tokens(LegendChars) < Median2(Map(Tokens, SessionChars))]

Gate ==
    /\ pc = "gate"
    /\ gate' = Judge(rows)
    /\ pc' = "idle"
    /\ UNCHANGED <<inFile, trigram, now, docs, items, at, rows, last, replays, events>>

(* Mutated Ships: the tokens of a question are not looked at.              *)
ShipsAnyway == gate.recall /\ gate.resident

Ships == gate.recall /\ gate.tokens /\ gate.resident

-------------------------------------------------------------------------------
(* The events of an auditor, and what is made of them in two places.       *)

Record ==
    /\ pc = "idle" /\ replays = 0 /\ Len(events) < MaxEvents
    /\ \E e \in Event : events' = Append(events, e)
    /\ UNCHANGED <<inFile, trigram, now, docs, pc, items, at, rows, last, gate, replays>>

Carries(e) == e.kind \in {"search", "prefetch"} /\ (e.baseline # 0 \/ e.mem4 # 0)

(* What the pairs save, by the indices of their events.                    *)
Diffs(es) == [k \in {i \in DOMAIN es : Carries(es[i])} |-> es[k].baseline - es[k].mem4]

(* paired_counterfactual: how many pairs, twice the median of their        *)
(* differences, how many were cheaper.                                     *)
Paired(es) ==
    LET diffs == Diffs(es)
    IN  [n |-> Cardinality(DOMAIN diffs), median2 |-> IF diffs = <<>> THEN 0 ELSE Median2(diffs),
         cheaper |-> Cardinality({k \in DOMAIN diffs : diffs[k] > 0})]

(* Auditor.summarize has a median of its own; mutated, of an even number   *)
(* the upper of the middle two.                                            *)
SummaryUpper(es) ==
    LET s == Sorted(Diffs(es))
    IN  IF s = <<>> THEN 0 ELSE 2 * s[Len(s) \div 2 + 1]

Summary(es) ==
    LET s   == Sorted(Diffs(es))
        mid == Len(s) \div 2
    IN  IF s = <<>> THEN 0
        ELSE IF Len(s) % 2 = 1 THEN 2 * s[mid + 1] ELSE s[mid] + s[mid + 1]

Next == Begin \/ IndexItem \/ SearchItem \/ Gate \/ Record

Spec == Init /\ [][Next]_vars

-------------------------------------------------------------------------------
(* What a question must find: its CJK words anywhere in a text, as no      *)
(* index splits CJK text into words; without any, its words as tokens.     *)
Speaks(q, t) ==
    IF ContainsCjk(q) THEN \E w \in Sought(q) \cap Within[t] : Cjk[w] > 0
                      ELSE WordsOf(q) \cap Whole[t] # {}

(* Whatever route a query takes (recall.py:235-252) and whether or not     *)
(* there is a trigram tokenizer, a document that speaks of it is returned, *)
(* unless as many others are as were asked for.                            *)
Recalled ==
    \A t \in DOMAIN docs :
        Speaks(last.query, t) => t \in ToSet(last.hits) \/ Len(last.hits) = Limit

Position(s, t) == CHOOSE i \in DOMAIN s : s[i] = t

(* Ranking anew (recall.py:293-307) favours fresh documents and nothing    *)
(* else: one that was ahead of another and is no older stays ahead of it,  *)
(* and is not cut off before it; a document is returned once.              *)
FresherFirst ==
    LET rows0 == last.rows
        hits  == last.hits
    IN  \A i, j \in DOMAIN rows0 :
          (i < j /\ docs[rows0[i]] >= docs[rows0[j]] /\ rows0[j] \in ToSet(hits)) =>
              /\ rows0[i] \in ToSet(hits)
              /\ Position(hits, rows0[i]) < Position(hits, rows0[j])

(* SHIP means what README.md:217-222 says: mem4 found what the baseline    *)
(* cannot have, at least half of the questions cost fewer tokens than the  *)
(* resident memory, and at least half of the sessions open with fewer.     *)
ShipMeansWin ==
    Ships =>
        /\ \E k \in DOMAIN rows : rows[k].gold
        /\ 2 * Cardinality({k \in DOMAIN rows : rows[k].mem4 < rows[k].baseline}) >= Len(rows)
        /\ 2 * Cardinality({k \in DOMAIN SessionChars :
                              Tokens(LegendChars) < Tokens(SessionChars[k])}) >= Len(SessionChars)

(* The two programs that report the paired difference, `hermes mem4 audit` *)
(* (audit.py:348-356) and the harness (harness.py:175-194), agree about    *)
(* it, and about its sign: a positive median means that at least half of   *)
(* the pairs were cheaper.                                                 *)
ReportsAgree ==
    /\ Summary(events) = Paired(events).median2
    /\ Paired(events).median2 > 0 => 2 * Paired(events).cheaper >= Paired(events).n

-------------------------------------------------------------------------------
(* What documentation says and the code does not do (Divergences in the    *)
(* README).                                                                *)

(* recall.py:120-121: "ANY matching token should surface the doc": so it   *)
(* should with the words of a query that has CJK words too.                *)
AnyTokenSurfaces ==
    \A t \in DOMAIN docs :
        Sought(last.query) \cap Within[t] \cap {w \in Word : ContainsCjk(last.query) \/ w \in Whole[t]} # {}
            => t \in ToSet(last.hits) \/ Len(last.hits) = Limit

(* harness.py:24 reports "distributions (min/median/max, quartiles)": the  *)
(* lower quartile, statistics.quantiles' (four times it, here), is not     *)
(* below the minimum.  For two numbers it extrapolates.                    *)
Quartile4(s, i) ==
    LET n == Len(s)
        m == n + 1
        j == IF (i * m) \div 4 < 1 THEN 1 ELSE IF (i * m) \div 4 > n - 1 THEN n - 1 ELSE (i * m) \div 4
        d == i * m - 4 * j
    IN  s[j] * (4 - d) + s[j + 1] * d

QuartilesInside ==
    LET s == Sorted(Map(LAMBDA r : r.mem4, rows))
    IN  Len(s) >= 2 => 4 * s[1] <= Quartile4(s, 1) /\ Quartile4(s, 3) <= 4 * s[Len(s)]
===============================================================================
