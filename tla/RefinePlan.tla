------------------------------ MODULE RefinePlan ------------------------------
(***************************************************************************)
(* RefinePlanner.plan (mem4/refine.py): what a refine makes of MEMORY.md.  *)
(*                                                                         *)
(* MEMORY.md is the sequence of the memory tool's entries.  An entry is a  *)
(* core entry, an inline entry with a route code, or a pointer to the      *)
(* microfile of its code that shows the summary of a body.  A microfile is *)
(* a sequence of paragraphs.  Bodies are opaque but for their paragraphs   *)
(* and for the lengths that the decisions compare.                         *)
(***************************************************************************)
EXTENDS Integers, Sequences, FiniteSets, SequencesExt

CONSTANTS
    Body,       \* texts of entries, their codes aside
    Paras,      \* the paragraphs of a body
    Chars,      \* its length
    Line,       \* the length of its first line
    Base,       \* the code _gen_code tries first: a slug, or a content hash
    BaseChars,  \* the length of a code without a suffix
    CharLimit   \* char_limit

Para == UNION {ToSet(Paras[b]) : b \in Body}

ASSUME LengthAssumption ==
    /\ \A b \in Body : Chars[b] \in Nat /\ Line[b] \in 0..Chars[b]
    /\ BaseChars \in Nat /\ CharLimit \in Nat

ASSUME ParasAssumption == \A b \in Body : Paras[b] \in Seq(Para) \ {<<>>}

(* A code: a base, and the suffix _gen_code puts on one that is in use.    *)
NoCode == <<"", 0>>

Core(b)       == [kind |-> "core",    code |-> NoCode, body |-> b]
Coded(c, b)   == [kind |-> "coded",   code |-> c,      body |-> b]
Pointer(c, b) == [kind |-> "pointer", code |-> c,      body |-> b]

CodesOf(kind, text) == {text[i].code : i \in {j \in DOMAIN text : text[j].kind = kind}}

-------------------------------------------------------------------------------
(* Lengths, in characters and in bytes: the section sign, the brackets of  *)
(* the sentinel, the dot and the ellipsis take more than one byte.         *)

CodeChars(c)    == IF c[2] = 1 THEN BaseChars ELSE BaseChars + 2
SummaryChars(b) == IF Line[b] > 80 THEN 80 ELSE Line[b]
PointerChars(c, b) == 23 + 2 * CodeChars(c) + SummaryChars(b)

EntryChars(e) ==
    CASE e.kind = "core"    -> Chars[e.body]
      [] e.kind = "coded"   -> 2 + CodeChars(e.code) + Chars[e.body]
      [] e.kind = "pointer" -> PointerChars(e.code, e.body)

EntryBytes(e) ==
    EntryChars(e) + CASE e.kind = "core"    -> 0
                      [] e.kind = "coded"   -> 1
                      [] e.kind = "pointer" -> IF Line[e.body] > 80 THEN 8 ELSE 6

Total(sizes) ==
    LET upTo[k \in 0..Len(sizes)] == IF k = 0 THEN 0 ELSE upTo[k - 1] + sizes[k]
    IN  upTo[Len(sizes)]

Joined(sizes, delimiter) ==
    Total(sizes) + (IF sizes = <<>> THEN 0 ELSE delimiter * (Len(sizes) - 1))

TextChars(text) == Joined([i \in DOMAIN text |-> EntryChars(text[i])], 3)
TextBytes(text) == Joined([i \in DOMAIN text |-> EntryBytes(text[i])], 4)

-------------------------------------------------------------------------------
(* _gen_code: the base of the body, with the first suffix not in use.      *)
GenCode(b, used) ==
    CHOOSE c \in {<<Base[b], k>> : k \in 1..(Cardinality(used) + 1)} :
        c \notin used /\ \A k \in 1..(c[2] - 1) : <<Base[b], k>> \in used

(* _select_core_promotions: longest first, above a gate, a few per run,    *)
(* and only where a pointer is shorter: body :> code.                      *)
Candidates(text, gate) ==
    {i \in DOMAIN text : text[i].kind = "core" /\ Chars[text[i].body] >= gate}

AtPlace(k, candidates, text) ==
    LET before(j, i) == \/ Chars[text[j].body] > Chars[text[i].body]
                        \/ Chars[text[j].body] = Chars[text[i].body] /\ j < i
    IN  {i \in candidates : Cardinality({j \in candidates : before(j, i)}) = k - 1}

Promote(acc, b, c, most) ==
    IF Cardinality(DOMAIN acc.out) < most /\ PointerChars(c, b) < Chars[b]
      THEN [out  |-> [x \in DOMAIN acc.out \cup {b} |-> IF x = b THEN c ELSE acc.out[x]],
            used |-> acc.used \cup {c}]
      ELSE acc

PromoteAt(at, acc, most, text) ==
    IF at = {} THEN acc
    ELSE LET b == text[CHOOSE i \in at : TRUE].body
         IN  Promote(acc, b, GenCode(b, acc.used), most)

PromoteUpTo(most, candidates, text) ==
    LET acc[k \in 0..Len(text)] ==
          IF k = 0
            THEN [out |-> <<>>, used |-> CodesOf("coded", text) \cup CodesOf("pointer", text)]
            ELSE PromoteAt(AtPlace(k, candidates, text), acc[k - 1], most, text)
    IN  acc[Len(text)].out

Promotions(text) ==
    LET aggressive == CharLimit # 0 /\ 10 * TextChars(text) >= 8 * CharLimit
    IN  PromoteUpTo(IF aggressive THEN 3 ELSE 1,
                    Candidates(text, IF aggressive THEN 140 ELSE 300), text)

(* The bodies of a code: the one promoted, or those of its inline entries. *)
InlineBodies(c, text) ==
    FlattenSeq([i \in DOMAIN text |->
                  IF text[i].kind = "coded" /\ text[i].code = c THEN <<text[i].body>> ELSE <<>>])

Bodies(c, promoted, text) ==
    LET from == {b \in DOMAIN promoted : promoted[b] = c}
    IN  IF from # {} THEN <<CHOOSE b \in from : TRUE>> ELSE InlineBodies(c, text)

(* An inline code is extracted only where its pointer is shorter than its  *)
(* bodies; mutated, always.                                                *)
AlwaysWorth(c, bodies) == TRUE
Worth(c, bodies) ==
    PointerChars(c, Head(bodies)) < Joined([k \in DOMAIN bodies |-> Chars[bodies[k]]], 2)

Sections(bodies, text) ==
    [c \in {d \in DOMAIN bodies : d \in CodesOf("pointer", text) \/ Worth(d, bodies[d])} |-> bodies[c]]

(* The code an entry gives way to, or stands for, if any.                  *)
Slot(e, promoted, extracted) ==
    CASE e.kind = "core" /\ e.body \in DOMAIN promoted -> promoted[e.body]
      [] e.kind = "pointer" \/ e.code \in extracted -> e.code
      [] OTHER -> NoCode

(* One entry per code, where the first of them was.                        *)
Condense(slot, sections, text) ==
    LET taken(i) == slot[i] # NoCode /\ \E j \in 1..(i - 1) : slot[j] = slot[i]
    IN  FlattenSeq([i \in DOMAIN text |->
                      IF taken(i) THEN <<>>
                      ELSE IF slot[i] = NoCode \/ text[i].kind = "pointer" THEN <<text[i]>>
                      ELSE <<Pointer(slot[i], Head(sections[slot[i]]))>>])

PlanWith(promoted, sections, text) ==
    [condensed |-> Condense([i \in DOMAIN text |-> Slot(text[i], promoted, DOMAIN sections)],
                            sections, text),
     sections  |-> sections]

PlanOf(promoted, text) ==
    PlanWith(promoted,
             Sections([c \in CodesOf("coded", text) \cup {promoted[b] : b \in DOMAIN promoted} |->
                         Bodies(c, promoted, text)], text),
             text)

(* plan: the rewritten MEMORY.md and, for every code extracted, the bodies *)
(* that go to its microfile.                                               *)
Plan(text) == PlanOf(Promotions(text), text)

(* Mutated Merge: the new bodies replace what the microfile has.           *)
MergeOver(existing, bodies) == FlattenSeq([k \in DOMAIN bodies |-> Paras[bodies[k]]])

(* _merge_microfile: a body that is not yet one of the paragraphs is added *)
(* at the end, and read back as the paragraphs it consists of.             *)
Merge(existing, bodies) ==
    LET seen(k) == {<<p>> : p \in ToSet(existing)} \cup {Paras[bodies[j]] : j \in 1..(k - 1)}
    IN  existing \o FlattenSeq([k \in DOMAIN bodies |->
                                  IF Paras[bodies[k]] \in seen(k) THEN <<>> ELSE Paras[bodies[k]]])

===============================================================================
