-------------------------------- MODULE Recall --------------------------------
(***************************************************************************)
(* RecallStore of mem4/recall.py: what is indexed, which index a query is  *)
(* routed to, what that fetches and in which order it is returned.         *)
(*                                                                         *)
(* A text is the words of the queries that occur in it: anywhere (Within), *)
(* as whole tokens of the word index (Whole), in its snippet.  The         *)
(* relevance of a document is external: an index gives what it matches in  *)
(* any order.  Ages are whole half-lives, so that scores compare exactly.  *)
(***************************************************************************)
EXTENDS Integers, Sequences, FiniteSets, SequencesExt

CONSTANTS
    Word,       \* what the white space of queries separates
    Operator,   \* AND, OR and NOT
    Cjk,        \* how many CJK characters a word has
    Length,     \* and how many characters at all
    Text,       \* what is indexed
    Within, Whole, Snippet

ASSUME WordAssumption ==
    /\ Operator \subseteq Word
    /\ \A w \in Word : Length[w] \in Nat \ {0} /\ Cjk[w] \in 0..Length[w]
    /\ \A w \in Operator : Cjk[w] = 0
ASSUME RecallTextAssumption ==
    \A t \in Text : Whole[t] \subseteq Within[t] /\ Snippet[t] \subseteq Within[t] /\ Within[t] \subseteq Word

(* A query: its words, and the CJK characters that are white space between *)
(* them (the ideographic space is one).                                    *)
Asks(words, gaps) == [words |-> words, gaps |-> gaps]
WordsOf(q) == ToSet(q.words)
Sought(q)  == WordsOf(q) \ Operator

(* The documents: the time of each text that is indexed.  index ignores a  *)
(* text that is there.                                                     *)
NoDocs == [t \in {} |-> 0]
Indexed(docs, t, ts) == [u \in DOMAIN docs \cup {t} |-> IF u \in DOMAIN docs THEN docs[u] ELSE ts]

-------------------------------------------------------------------------------
ContainsCjk(q) == q.gaps > 0 \/ \E w \in WordsOf(q) : Cjk[w] > 0
CountCjk(q) == FoldLeft(LAMBDA n, w : n + Cjk[w], q.gaps, q.words)
AnyShortCjk(q) == \E w \in Sought(q) : Cjk[w] \in 1..2

FtsMatch(q, docs)     == {t \in DOMAIN docs : WordsOf(q) \cap Whole[t] # {}}
TrigramMatch(q, docs) == {t \in DOMAIN docs : \E w \in WordsOf(q) \cap Within[t] : Length[w] >= 3}
LikeMatch(q, docs)    == {t \in DOMAIN docs : Sought(q) \cap Within[t] # {}}

(* Mutated TrigramFits: short words are not looked for.                    *)
TrigramFitsAll(q) == CountCjk(q) >= 3
TrigramFits(q)    == CountCjk(q) >= 3 /\ ~AnyShortCjk(q)

(* LIKE is what is left when the trigram index is missing, cannot find the *)
(* words, or finds nothing.                                                *)
RouteOf(q, docs, trigram) ==
    CASE ~ContainsCjk(q) -> "fts"
      [] ContainsCjk(q) /\ trigram /\ TrigramFits(q) /\ TrigramMatch(q, docs) # {} -> "trigram"
      [] OTHER -> "like"

Matched(q, docs, trigram) ==
    LET route == RouteOf(q, docs, trigram)
    IN  CASE route = "fts"     -> FtsMatch(q, docs)
          [] route = "trigram" -> TrigramMatch(q, docs)
          [] route = "like"    -> LikeMatch(q, docs)

(* A finite set in an order: the k-th element has k - 1 before it.         *)
InOrder(S, before(_, _)) ==
    [k \in 1..Cardinality(S) |-> CHOOSE x \in S : Cardinality({y \in S : before(y, x)}) = k - 1]

Cut(s, n) == SubSeq(s, 1, IF Len(s) < n THEN Len(s) ELSE n)

(* _fts_fetch is by rank, _like_fetch by time, newest first.               *)
Fetches(q, docs, trigram, pool) ==
    LET orders == SetToSeqs(Matched(q, docs, trigram))
        newest(s) == \A i, j \in DOMAIN s : i < j => docs[s[i]] >= docs[s[j]]
    IN  {Cut(s, pool) : s \in {o \in orders : RouteOf(q, docs, trigram) = "like" => newest(o)}}

(* The score of a row is 1 / position, halved with every half-life; rows   *)
(* of one score stay in their order.  Penalty is its reciprocal.           *)
Age(t, docs, now) == IF now < docs[t] THEN 0 ELSE now - docs[t]
HalfLives(age) == LET twice[k \in 0..age] == IF k = 0 THEN 1 ELSE 2 * twice[k - 1] IN twice[age]
Penalty(i, t, docs, now) == i * HalfLives(Age(t, docs, now))

(* Mutated Better: the older, the better.                                  *)
BetterIfOld(i, j, rows, docs, now) ==
    i * HalfLives(Age(rows[j], docs, now)) < j * HalfLives(Age(rows[i], docs, now))

Better(i, j, rows, docs, now) == Penalty(i, rows[i], docs, now) < Penalty(j, rows[j], docs, now)

Reranked(rows, docs, now, limit) ==
    LET before(i, j) == Better(i, j, rows, docs, now) \/ (i < j /\ ~Better(j, i, rows, docs, now))
        order == InOrder(DOMAIN rows, before)
    IN  Cut([k \in DOMAIN order |-> rows[order[k]]], limit)

(* search: four times as many rows as are asked for are ranked anew.       *)
Searches(q, docs, trigram, now, limit) ==
    {[query |-> q, route |-> RouteOf(q, docs, trigram), rows |-> rows,
      hits |-> Reranked(rows, docs, now, limit)] : rows \in Fetches(q, docs, trigram, 4 * limit)}

===============================================================================
