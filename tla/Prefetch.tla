------------------------------- MODULE Prefetch -------------------------------
(***************************************************************************)
(* The recall of a turn: prefetch and _compose_prefetch of the provider    *)
(* (mem4/__init__.py), RecallStore.search (mem4/recall.py) and the gate    *)
(* (mem4/gate.py).                                                         *)
(*                                                                         *)
(* A call searches the index, stats and reads the hot zone, and takes the  *)
(* hits one by one, reading the microfile of each.  All the while the      *)
(* memory tool replaces the hot zone, refine and people rewrite microfiles *)
(* in place, and other sessions index and rebuild.  One provider calls;    *)
(* between its calls it keeps the terms of the hot zone, under the         *)
(* modification time and the size it has seen.                             *)
(*                                                                         *)
(* Abstractions: a text is its terms, and those of its snippet; the route, *)
(* the ranks and the decay of a search are the set of texts it finds for a *)
(* query, in any order; MEMORY.md stands for both files of the hot zone    *)
(* and exists; a microfile that is missing is an empty one; queries that   *)
(* are empty or of low signal are not made; the cuts of lines and block to *)
(* a number of characters are left out.                                    *)
(***************************************************************************)
EXTENDS Integers, Sequences, FiniteSets, Functions

CONSTANTS
    Code, Log, Session,  \* names of microfiles, of mirror logs, of sessions
    Text,                \* what documents say
    NoText,              \* an empty or missing microfile
    Says,                \* the texts each ref can have
    HotText, Size,       \* what the hot zone can say, and how long that is
    Query,
    Terms, HeadTerms,    \* of each text, hot text and query; of each snippet
    Finds,               \* the texts search finds for a query, if indexed
    Limit,               \* prefetch_limit
    MaxTime,             \* bound: the clock
    MaxChanges           \* bound: what others do while a call runs

Ref == ({"microfile"} \X Code) \cup ({"mirror"} \X Log) \cup ({"turn"} \X Session)

ASSUME TextAssumption == NoText \notin Text /\ IsFiniteSet(Text) /\ Says \in [Ref -> SUBSET Text]
ASSUME QueryAssumption == Query # {} /\ Finds \in [Query -> SUBSET Text]
ASSUME SizeAssumption == Size \in [HotText -> Nat]
ASSUME LimitAssumption == Limit \in Nat \ {0} /\ MaxTime \in Nat /\ MaxChanges \in Nat

VARIABLES
    hot, mtime,  \* MEMORY.md: its text and the time of its last change
    now,
    micro,       \* the microfiles
    docs,        \* the ref each text is indexed under, if it is
    cache,       \* _l0_terms_sig and _l0_terms_cache
    pc, loc,     \* of the call under way
    had,         \* what the files held while the call ran
    changes,     \* of them and of the index, in that time
    sigs,        \* the signatures MEMORY.md has had
    blurred      \* two states of MEMORY.md have had the same one

vars == <<hot, mtime, now, micro, docs, cache, pc, loc, had, changes, sigs, blurred>>

-------------------------------------------------------------------------------
Document == [ref : Ref, text : Text]

Signatures == [mtime : Nat, size : Nat]
Sig(t, h) == [mtime |-> t, size |-> Size[h]]

(* Mutated Signature: the size only.                                       *)
SignatureOfSize == Sig(0, hot)

Signature == Sig(mtime, hot)
NoSig == [mtime |-> -1, size |-> 0]

RefOf(t) == CHOOSE r \in Ref : r \in docs[t]

(* RecallStore.index: INSERT OR IGNORE by the hash of the text.            *)
Index(r, t) == IF docs[t] = {} THEN [docs EXCEPT ![t] = {r}] ELSE docs

(* gate_hit: on the topic, and not an echo of the hot zone.                *)
Keeps(q, terms, minPercent, l0) ==
    LET shared == Cardinality(Terms[q] \cap terms) IN
    /\ Terms[q] # {} /\ terms # {}
    /\ shared >= 2 \/ 100 * shared >= minPercent * Cardinality(Terms[q])
    /\ 2 * Cardinality(terms \cap l0) < Cardinality(terms)

(* A line to show: whole, or the snippet of the document that was hit.     *)
Line == [ref : Ref, text : Text, whole : BOOLEAN]
LineTerms(l) == IF l.whole THEN Terms[l.text] ELSE HeadTerms[l.text]
MinPercent(l) == IF l.ref[1] = "turn" THEN 30 ELSE 15
Passes(q, l, l0) == Keeps(q, LineTerms(l), MinPercent(l), l0)

HotTerms == {Terms[h] : h \in HotText} \cup {{}}

(* found: what the index has for the query; hits: what search gave of it   *)
(* and is still to be taken; sig, l0: the signature and the terms of the   *)
(* hot zone; micros, turns: the lines so far, cut to Limit at the end.     *)
Local == [query : Query, found : SUBSET Document, hits : Seq(Document),
          sig : Signatures \cup {NoSig}, l0 : HotTerms,
          micros : Seq(Line), turns : Seq(Line)]
NoCall == [query |-> CHOOSE q \in Query : TRUE, found |-> {}, hits |-> <<>>,
           sig |-> NoSig, l0 |-> {}, micros |-> <<>>, turns |-> <<>>]
NoneHad == [hot |-> {}, micro |-> [c \in Code |-> {}]]

Init ==
    /\ hot \in HotText /\ mtime = 0 /\ now = 0
    /\ micro \in [Code -> Text \cup {NoText}]
    /\ \A c \in Code : micro[c] \in Says[<<"microfile", c>>] \cup {NoText}
    /\ docs \in [Text -> {{}} \cup {{r} : r \in Ref}]
    /\ \A t \in Text : \A r \in docs[t] : t \in Says[r]
    /\ cache = [sig |-> NoSig, terms |-> {}]
    /\ pc = "idle" /\ loc = NoCall /\ had = NoneHad /\ changes = 0
    /\ sigs = {Signature} /\ blurred = FALSE

-------------------------------------------------------------------------------
(* prefetch                                                                *)

Pool == 3 * Limit

(* Mutated Ranked: no more than Limit hits are asked for.                  *)
RankedNarrow(S) ==
    {s \in [1..(IF Cardinality(S) < Limit THEN Cardinality(S) ELSE Limit) -> S] : IsInjective(s)}

(* search: as many of the texts it finds as the pool takes, in any order.  *)
Ranked(S) ==
    {s \in [1..(IF Cardinality(S) < Pool THEN Cardinality(S) ELSE Pool) -> S] : IsInjective(s)}

(* prefetch starts with its search; one that raises ends the call, with     *)
(* nothing to show.                                                        *)
Begin ==
    /\ pc = "idle"
    /\ \E q \in Query :
        LET found == {[ref |-> RefOf(t), text |-> t] : t \in {t \in Finds[q] : docs[t] # {}}} IN
        \E s \in Ranked(found) :
            loc' = [NoCall EXCEPT !.query = q, !.found = found, !.hits = s]
    /\ had' = [hot |-> {hot}, micro |-> [c \in Code |-> {micro[c]}]]
    /\ pc' = "stat"
    /\ UNCHANGED <<hot, mtime, now, micro, docs, cache, changes, sigs, blurred>>

(* _l0_terms: the signature first, the text after it ...                   *)
Stat ==
    /\ pc = "stat"
    /\ loc' = [loc EXCEPT !.sig = Signature]
    /\ pc' = "read"
    /\ UNCHANGED <<hot, mtime, now, micro, docs, cache, had, changes, sigs, blurred>>

(* ... and its terms, unless there are terms under that signature.         *)
ReadHot ==
    LET fresh == IF loc.sig = cache.sig THEN cache
                 ELSE [sig |-> loc.sig, terms |-> Terms[hot]]
    IN
    /\ pc = "read"
    /\ cache' = fresh
    /\ loc' = [loc EXCEPT !.l0 = fresh.terms]
    /\ pc' = "compose"
    /\ UNCHANGED <<hot, mtime, now, micro, docs, had, changes, sigs, blurred>>

(* Mutated LineOf: the document is shown, not the file it came from.       *)
LineOfDocument(d) == [ref |-> d.ref, text |-> d.text, whole |-> FALSE]

(* A microfile as it is now, if it says anything; else the snippet.        *)
LineOf(d) ==
    IF d.ref[1] = "microfile" /\ micro[d.ref[2]] # NoText
      THEN [ref |-> d.ref, text |-> micro[d.ref[2]], whole |-> TRUE]
      ELSE [ref |-> d.ref, text |-> d.text, whole |-> FALSE]

(* Mutated Repeats: a code may come twice.                                 *)
RepeatsNever(d) == FALSE

(* Microfiles and mirror logs share one set of seen codes.                 *)
Repeats(d) ==
    d.ref[1] # "turn" /\ \E i \in DOMAIN loc.micros : loc.micros[i].ref[2] = d.ref[2]

(* _compose_prefetch, for one hit.                                         *)
TakeHit ==
    /\ pc = "compose" /\ loc.hits # <<>>
    /\ LET d == Head(loc.hits)
           l == LineOf(d)
           add == IF Repeats(d) \/ ~Passes(loc.query, l, loc.l0) THEN <<>> ELSE <<l>>
       IN loc' = IF d.ref[1] = "turn"
                   THEN [loc EXCEPT !.hits = Tail(@), !.turns = @ \o add]
                   ELSE [loc EXCEPT !.hits = Tail(@), !.micros = @ \o add]
    /\ UNCHANGED <<hot, mtime, now, micro, docs, cache, pc, had, changes, sigs, blurred>>

Cut(lines) == SubSeq(lines, 1, IF Len(lines) < Limit THEN Len(lines) ELSE Limit)

Compose ==
    /\ pc = "compose" /\ loc.hits = <<>>
    /\ loc' = [loc EXCEPT !.micros = Cut(@), !.turns = Cut(@)]
    /\ pc' = "done"
    /\ UNCHANGED <<hot, mtime, now, micro, docs, cache, had, changes, sigs, blurred>>

Return ==
    /\ pc = "done"
    /\ pc' = "idle" /\ loc' = NoCall /\ had' = NoneHad /\ changes' = 0
    /\ UNCHANGED <<hot, mtime, now, micro, docs, cache, sigs, blurred>>

-------------------------------------------------------------------------------
(* Everybody else                                                          *)

(* A call that is under way sees one change more.                          *)
Meanwhile ==
    IF pc = "idle" THEN UNCHANGED <<had, changes>>
    ELSE /\ changes < MaxChanges
         /\ changes' = changes + 1
         /\ had' = [hot |-> had.hot \cup {hot'},
                    micro |-> [c \in Code |-> had.micro[c] \cup {micro'[c]}]]

(* The memory tool, or refine, replaces MEMORY.md.                         *)
WriteHot ==
    /\ hot' \in HotText \ {hot} /\ mtime' = now
    /\ blurred' = (blurred \/ Sig(now, hot') \in sigs)
    /\ sigs' = sigs \cup {Sig(now, hot')}
    /\ UNCHANGED micro /\ Meanwhile
    /\ UNCHANGED <<now, docs, cache, pc, loc>>

(* write_microfile truncates and writes; so does an editor.                *)
WriteMicro ==
    /\ \E c \in Code :
        \E t \in IF micro[c] = NoText THEN Says[<<"microfile", c>>] ELSE {NoText} :
            micro' = [micro EXCEPT ![c] = t]
    /\ UNCHANGED hot /\ Meanwhile
    /\ UNCHANGED <<mtime, now, docs, cache, pc, loc, sigs, blurred>>

(* _index_microfiles of this or another session: the microfiles ...        *)
IndexMicro ==
    /\ \E c \in Code : micro[c] # NoText /\ docs' = Index(<<"microfile", c>>, micro[c])
    /\ UNCHANGED <<hot, mtime, micro, sigs, blurred>> /\ Meanwhile
    /\ UNCHANGED <<now, cache, pc, loc>>

(* ... the mirror logs, and sync_turn a turn.                              *)
IndexOther ==
    /\ \E r \in Ref : \E t \in Says[r] : r[1] # "microfile" /\ docs' = Index(r, t)
    /\ UNCHANGED <<hot, mtime, micro, sigs, blurred>> /\ Meanwhile
    /\ UNCHANGED <<now, cache, pc, loc>>

(* rebuild.                                                                *)
Clear ==
    /\ docs' = [t \in Text |-> {}]
    /\ UNCHANGED <<hot, mtime, micro, sigs, blurred>> /\ Meanwhile
    /\ UNCHANGED <<now, cache, pc, loc>>

Tick ==
    /\ now < MaxTime
    /\ now' = now + 1
    /\ UNCHANGED <<hot, mtime, micro, docs, cache, pc, loc, had, changes, sigs, blurred>>

Call == Begin \/ Stat \/ ReadHot \/ TakeHit \/ Compose \/ Return

Next == \/ Call
        \/ WriteHot \/ WriteMicro \/ IndexMicro \/ IndexOther \/ Clear \/ Tick

Spec == Init /\ [][Next]_vars

-------------------------------------------------------------------------------
Lines == Range(loc.micros) \cup Range(loc.turns)

(* Type invariant: one ref for each text; of a block that is returned, no  *)
(* part is longer than Limit, and no code comes twice.                     *)
TypeOK ==
    /\ hot \in HotText /\ mtime \in 0..now /\ now \in 0..MaxTime
    /\ micro \in [Code -> Text \cup {NoText}]
    /\ docs \in [Text -> SUBSET Ref]
    /\ \A t \in Text : \A r, s \in docs[t] : r = s
    /\ cache \in [sig : Signatures \cup {NoSig}, terms : HotTerms]
    /\ pc \in {"idle", "stat", "read", "compose", "done"}
    /\ loc \in Local
    /\ \A i, j \in DOMAIN loc.micros :
          loc.micros[i].ref[2] = loc.micros[j].ref[2] => i = j
    /\ pc = "done" => Len(loc.micros) <= Limit /\ Len(loc.turns) <= Limit
    /\ had \in [hot : SUBSET HotText, micro : [Code -> SUBSET (Text \cup {NoText})]]
    /\ changes \in 0..MaxChanges
    /\ sigs \in SUBSET Signatures /\ blurred \in BOOLEAN

(* "No recompute unless the hot zone actually changed", and one if it did  *)
(* (__init__.py:975-978, 989-996), although the signature is taken before  *)
(* the text, and both may change in between: the gate uses the terms of a  *)
(* hot zone there was during the call, as long as no two states of the     *)
(* files had the same time and size.                                       *)
HotZoneFresh ==
    (pc \in {"compose", "done"} /\ ~blurred) => \E h \in had.hot : loc.l0 = Terms[h]

(* What is shown of a microfile is what the file said during the call, and *)
(* not one of its older versions, which the index still has and finds      *)
(* (recall.py:186, __init__.py:920); unless there was nothing to read.     *)
MicroFresh ==
    \A l \in Lines : l.ref[1] = "microfile" =>
        {l.text, NoText} \cap had.micro[l.ref[2]] # {}

(* A microfile that matches is surfaced (__init__.py:851-856, 870-872):    *)
(* with no more hits than the pool takes and no more microfiles and logs   *)
(* than Limit, in any order, behind any turns and found under any of its   *)
(* versions, a file that has something to say all the time of the call,    *)
(* and of which the gate lets through every version there was, is shown.   *)
Few(found) ==
    /\ Cardinality(found) <= Pool
    /\ Cardinality({d.ref[2] : d \in {e \in found : e.ref[1] # "turn"}}) <= Limit

Surfaced ==
    (pc = "done" /\ ~blurred /\ Few(loc.found)) =>
        \A c \in {d.ref[2] : d \in {e \in loc.found : e.ref[1] = "microfile"}} :
            \/ \E l \in Lines : l.ref[2] = c /\ l.ref[1] # "turn"
            \/ NoText \in had.micro[c]
            \/ \E t \in had.micro[c], h \in had.hot :
                  ~Keeps(loc.query, Terms[t], 15, Terms[h])

-------------------------------------------------------------------------------
(* Why the cache is sound.  As long as signatures do not come back, terms  *)
(* under the present signature are those of the present text; and what a   *)
(* call has found under the signature it took is of a text it has seen.    *)
CacheInv ==
    ~blurred =>
        /\ Signature \in sigs
        /\ {cache.sig, loc.sig} \subseteq sigs \cup {NoSig}
        /\ cache.sig = Signature => cache.terms = Terms[hot]
        /\ pc = "read" => /\ loc.sig # NoSig
                          /\ loc.sig = cache.sig => \E h \in had.hot : cache.terms = Terms[h]

(* A call has seen the files as they are, and without one there is none.   *)
SeenInv ==
    /\ pc = "idle" => loc = NoCall
    /\ pc # "idle" => hot \in had.hot /\ \A c \in Code : micro[c] \in had.micro[c]

(* Why a microfile is surfaced: one that was found is still to be taken or *)
(* was dealt with - shown, found empty or refused -, and there are never   *)
(* more lines than codes that were found, so that the cut takes none away. *)
Dealt(c) ==
    \/ \E l \in Range(loc.micros) : l.ref[2] = c
    \/ NoText \in had.micro[c]
    \/ \E t \in had.micro[c], h \in had.hot : ~Keeps(loc.query, Terms[t], 15, Terms[h])

SurfaceInv ==
    /\ IsFiniteSet(loc.found) /\ Range(loc.hits) \subseteq loc.found
    /\ pc = "done" => loc.hits = <<>>
    /\ \A l \in Range(loc.micros) : \E d \in loc.found : l.ref = d.ref /\ d.ref[1] # "turn"
    /\ (~blurred /\ Few(loc.found)) =>
         \A d \in loc.found \ Range(loc.hits) : d.ref[1] = "microfile" => Dealt(d.ref[2])

===============================================================================
