---------------------------- MODULE PrefetchProofs ----------------------------
(***************************************************************************)
(* For all names, texts, hot zones, queries and limits: prefetch judges by *)
(* the terms of a hot zone there was during the call, although it keeps    *)
(* them from call to call and takes their signature before their text; and *)
(* it shows of a microfile what the file said during the call; and one     *)
(* that was found and passes the gate is not crowded out.                  *)
(***************************************************************************)
EXTENDS Prefetch, FiniteSetTheorems, SequenceTheorems, TLAPS

LEMMA SigType == ASSUME NEW t \in Nat, NEW h \in HotText
                 PROVE  Sig(t, h) \in Signatures /\ Sig(t, h) # NoSig
  BY SizeAssumption DEF Sig, Signatures, NoSig

LEMMA NoCallType == NoCall \in Local
<1>1. (CHOOSE q \in Query : TRUE) \in Query
  BY QueryAssumption
<1>2. <<>> \in Seq(Document) /\ <<>> \in Seq(Line)
  OBVIOUS
<1>3. QED
  BY <1>1, <1>2 DEF NoCall, Local, HotTerms

(* What search returns is a sequence of the documents it found.            *)
LEMMA RankedType ==
  ASSUME NEW S \in SUBSET Document, IsFiniteSet(S), NEW s \in Ranked(S)
  PROVE  s \in Seq(Document)
<1>1. Cardinality(S) \in Nat /\ Pool \in Nat
  BY FS_CardinalityType, LimitAssumption DEF Pool
<1>2. PICK n \in Nat : s \in [1..n -> S]
  BY <1>1 DEF Ranked
<1>3. QED
  BY <1>2

(* The documents that match are finitely many.                             *)
LEMMA FoundFinite ==
  ASSUME NEW T \in SUBSET Text, NEW F, F = {[ref |-> RefOf(t), text |-> t] : t \in T}
  PROVE  IsFiniteSet(F)
<1> DEFINE f == [t \in T |-> [ref |-> RefOf(t), text |-> t]]
<1>1. IsFiniteSet(T)
  BY FS_Subset, TextAssumption
<1>2. f \in Surjection(T, F)
  BY DEF Surjection
<1>3. QED
  BY <1>1, <1>2, FS_Surjection

LEMMA FoundType ==
  ASSUME TypeOK, NEW q \in Query, NEW F,
         F = {[ref |-> RefOf(t), text |-> t] : t \in {t \in Finds[q] : docs[t] # {}}}
  PROVE  F \in SUBSET Document /\ IsFiniteSet(F)
<1> DEFINE T == {t \in Finds[q] : docs[t] # {}}
<1>1. T \in SUBSET Text
  BY QueryAssumption
<1>2. ASSUME NEW t \in T PROVE RefOf(t) \in Ref
  BY <1>1, <1>2 DEF RefOf, TypeOK
<1>3. F \in SUBSET Document
  BY <1>1, <1>2 DEF Document
<1>4. QED
  BY <1>1, <1>3, FoundFinite

LEMMA LineOfType == ASSUME TypeOK, NEW d \in Document PROVE LineOf(d) \in Line
<1>1. d.ref[1] = "microfile" => d.ref[2] \in Code
  BY DEF Document, Ref
<1>2. QED
  BY <1>1 DEF LineOf, Line, TypeOK, Document

(* The cut of a part is its beginning.                                     *)
LEMMA CutType ==
  ASSUME NEW s \in Seq(Line)
  PROVE  /\ Cut(s) \in Seq(Line) /\ Len(Cut(s)) <= Limit /\ Len(Cut(s)) <= Len(s)
         /\ \A i \in 1..Len(Cut(s)) : Cut(s)[i] = s[i]
<1> DEFINE n == IF Len(s) < Limit THEN Len(s) ELSE Limit
<1>1. n \in Nat /\ n <= Limit /\ n <= Len(s)
  BY LimitAssumption, LenProperties
<1>2. \A i \in 1..n : s[i] \in Line
  BY <1>1, ElementOfSeq
<1>3. /\ SubSeq(s, 1, n) \in Seq(Line)
      /\ Len(SubSeq(s, 1, n)) = IF 1 <= n THEN n - 1 + 1 ELSE 0
      /\ \A i \in 1..(n - 1 + 1) : SubSeq(s, 1, n)[i] = s[1 + i - 1]
  <2> HIDE DEF n
  <2>1. QED
    BY <1>1, <1>2, SubSeqProperties
<1>4. Cut(s) = SubSeq(s, 1, n)
  BY DEF Cut
<1>5. QED
  BY <1>1, <1>3, <1>4

-------------------------------------------------------------------------------
LEMMA TypeInit == Init => TypeOK
<1> SUFFICES ASSUME Init PROVE TypeOK
  OBVIOUS
<1>1. loc \in Local /\ cache \in [sig : Signatures \cup {NoSig}, terms : HotTerms]
  BY NoCallType DEF Init, HotTerms
<1>2. sigs \in SUBSET Signatures
  BY SigType DEF Init, Signature
<1>3. docs \in [Text -> SUBSET Ref] /\ \A t \in Text : \A r, s \in docs[t] : r = s
  BY DEF Init
<1>4. had \in [hot : SUBSET HotText, micro : [Code -> SUBSET (Text \cup {NoText})]]
  BY DEF Init, NoneHad
<1>5. \A i, j \in DOMAIN loc.micros : loc.micros[i].ref[2] = loc.micros[j].ref[2] => i = j
  BY DEF Init, NoCall
<1>6. hot \in HotText /\ mtime \in 0..now /\ now \in 0..MaxTime /\ changes \in 0..MaxChanges
  BY LimitAssumption DEF Init
<1>7. micro \in [Code -> Text \cup {NoText}] /\ pc = "idle" /\ blurred = FALSE
  BY DEF Init
<1>8. QED
  BY <1>1, <1>2, <1>3, <1>4, <1>5, <1>6, <1>7 DEF TypeOK

(* What others do: a call's record of it keeps its type ...                *)
LEMMA MeanwhileType ==
  ASSUME TypeOK, Meanwhile, hot' \in HotText, micro' \in [Code -> Text \cup {NoText}]
  PROVE  /\ had' \in [hot : SUBSET HotText, micro : [Code -> SUBSET (Text \cup {NoText})]]
         /\ changes' \in 0..MaxChanges
  BY LimitAssumption DEF TypeOK, Meanwhile

(* ... and so does the index.                                              *)
LEMMA IndexType ==
  ASSUME TypeOK, NEW r \in Ref, NEW t \in Text, docs' = Index(r, t)
  PROVE  docs' \in [Text -> SUBSET Ref] /\ \A u \in Text : \A a, b \in docs'[u] : a = b
  BY DEF TypeOK, Index

LEMMA TypeCall == TypeOK /\ Call => TypeOK'
<1> SUFFICES ASSUME TypeOK, Call PROVE TypeOK'
  OBVIOUS
<1>1. CASE Begin
  <2>1. PICK q \in Query, F \in SUBSET Document, s \in Seq(Document) :
          loc' = [NoCall EXCEPT !.query = q, !.found = F, !.hits = s]
    BY <1>1, FoundType, RankedType DEF Begin
  <2>2. loc' \in Local /\ loc'.micros = <<>>
    BY <2>1, NoCallType DEF Local, NoCall
  <2>3. had' \in [hot : SUBSET HotText, micro : [Code -> SUBSET (Text \cup {NoText})]]
    BY <1>1 DEF Begin, TypeOK
  <2>4. QED
    BY <1>1, <2>2, <2>3 DEF Begin, TypeOK
<1>2. CASE Stat
  <2>1. Signature \in Signatures
    BY SigType DEF TypeOK, Signature
  <2>2. loc' \in Local /\ loc'.micros = loc.micros
    BY <1>2, <2>1 DEF Stat, TypeOK, Local
  <2>3. QED
    BY <1>2, <2>2 DEF Stat, TypeOK
<1>3. CASE ReadHot
  <2>1. cache' \in [sig : Signatures \cup {NoSig}, terms : HotTerms]
    BY <1>3 DEF ReadHot, TypeOK, Local, HotTerms
  <2>2. loc' = [loc EXCEPT !.l0 = cache'.terms]
    BY <1>3 DEF ReadHot
  <2>3. loc' \in Local /\ loc'.micros = loc.micros
    BY <2>1, <2>2 DEF TypeOK, Local
  <2>4. QED
    BY <1>3, <2>1, <2>3 DEF ReadHot, TypeOK
<1>4. CASE TakeHit
  <2> DEFINE d == Head(loc.hits)
             l == LineOf(d)
             add == IF Repeats(d) \/ ~Passes(loc.query, l, loc.l0) THEN <<>> ELSE <<l>>
  <2>1. d \in Document /\ Tail(loc.hits) \in Seq(Document)
    BY <1>4, HeadTailProperties DEF TakeHit, TypeOK, Local
  <2>2. l \in Line /\ l.ref = d.ref
    BY <2>1, LineOfType DEF LineOf
  <2>3. add \in Seq(Line)
    BY <2>2
  <2>4. loc.micros \in Seq(Line) /\ loc.turns \in Seq(Line)
    BY DEF TypeOK, Local
  <2>5. loc.micros \o add \in Seq(Line) /\ loc.turns \o add \in Seq(Line)
    BY <2>3, <2>4, ConcatProperties
  <2>6. loc' \in Local
    <3> HIDE DEF add, l, d
    <3>1. loc' = IF d.ref[1] = "turn"
                   THEN [loc EXCEPT !.hits = Tail(loc.hits), !.turns = loc.turns \o add]
                   ELSE [loc EXCEPT !.hits = Tail(loc.hits), !.micros = loc.micros \o add]
      BY <1>4 DEF TakeHit, add, l, d
    <3>2. QED
      BY <2>1, <2>5, <3>1 DEF TypeOK, Local
  <2>7. \A i, j \in DOMAIN loc'.micros :
          loc'.micros[i].ref[2] = loc'.micros[j].ref[2] => i = j
    <3>1. CASE loc'.micros = loc.micros
      BY <3>1 DEF TypeOK
    <3>2. CASE loc'.micros = loc.micros \o <<l>> /\ ~Repeats(d) /\ d.ref[1] # "turn"
      <4>1. /\ DOMAIN loc'.micros = 1..(Len(loc.micros) + 1)
            /\ loc'.micros[Len(loc.micros) + 1] = l
            /\ \A i \in 1..Len(loc.micros) : loc'.micros[i] = loc.micros[i]
        BY <2>2, <2>4, <3>2
      <4>2. \A i \in 1..Len(loc.micros) : loc.micros[i].ref[2] # l.ref[2]
        BY <2>2, <2>4, <3>2 DEF Repeats
      <4>3. DOMAIN loc.micros = 1..Len(loc.micros) /\ Len(loc.micros) \in Nat
        BY <2>4
      <4>4. \A i, j \in 1..Len(loc.micros) :
              loc.micros[i].ref[2] = loc.micros[j].ref[2] => i = j
        BY <4>3 DEF TypeOK
      <4>5. TAKE i, j \in DOMAIN loc'.micros
      <4>6. CASE i \in 1..Len(loc.micros) /\ j \in 1..Len(loc.micros)
        BY <4>1, <4>4, <4>6
      <4>7. CASE i = Len(loc.micros) + 1 \/ j = Len(loc.micros) + 1
        BY <4>1, <4>2, <4>3, <4>7, SMTT(30)
      <4>8. QED
        BY <4>1, <4>3, <4>6, <4>7
    <3>3. loc.micros \o <<>> = loc.micros
      BY <2>4, ConcatEmptySeq
    <3>4. QED
      BY <1>4, <3>1, <3>2, <3>3 DEF TakeHit, TypeOK, Local
  <2>8. QED
    BY <1>4, <2>6, <2>7 DEF TakeHit, TypeOK
<1>5. CASE Compose
  <2>1. loc.micros \in Seq(Line) /\ loc.turns \in Seq(Line)
    BY DEF TypeOK, Local
  <2>2. loc' = [loc EXCEPT !.micros = Cut(loc.micros), !.turns = Cut(loc.turns)]
    BY <1>5 DEF Compose
  <2>3. loc' \in Local /\ loc'.micros = Cut(loc.micros) /\ loc'.turns = Cut(loc.turns)
    BY <2>1, <2>2, CutType DEF TypeOK, Local
  <2>4. \A i, j \in DOMAIN loc'.micros :
          loc'.micros[i].ref[2] = loc'.micros[j].ref[2] => i = j
    <3>1. /\ DOMAIN loc'.micros = 1..Len(loc'.micros)
          /\ 1..Len(loc'.micros) \subseteq DOMAIN loc.micros
          /\ \A i \in 1..Len(loc'.micros) : loc'.micros[i] = loc.micros[i]
      BY <2>1, <2>3, CutType, LenProperties
    <3>2. QED
      BY <3>1 DEF TypeOK
  <2>5. QED
    BY <1>5, <2>1, <2>3, <2>4, CutType DEF Compose, TypeOK
<1>6. CASE Return
  <2>1. loc' \in Local /\ loc'.micros = <<>>
    BY <1>6, NoCallType DEF Return, NoCall
  <2>2. had' \in [hot : SUBSET HotText, micro : [Code -> SUBSET (Text \cup {NoText})]]
    BY <1>6 DEF Return, NoneHad
  <2>3. QED
    BY <1>6, <2>1, <2>2, LimitAssumption DEF Return, TypeOK
<1>7. QED
  BY <1>1, <1>2, <1>3, <1>4, <1>5, <1>6 DEF Call

LEMMA TypeOthers ==
  TypeOK /\ (WriteHot \/ WriteMicro \/ IndexMicro \/ IndexOther \/ Clear \/ Tick) => TypeOK'
<1> SUFFICES ASSUME TypeOK, WriteHot \/ WriteMicro \/ IndexMicro \/ IndexOther \/ Clear \/ Tick
             PROVE  TypeOK'
  OBVIOUS
<1>1. CASE WriteHot
  <2>1. sigs' \in SUBSET Signatures
    BY <1>1, SigType DEF WriteHot, TypeOK
  <2>2. /\ had' \in [hot : SUBSET HotText, micro : [Code -> SUBSET (Text \cup {NoText})]]
        /\ changes' \in 0..MaxChanges
    BY <1>1, MeanwhileType DEF WriteHot, TypeOK
  <2>3. QED
    BY <1>1, <2>1, <2>2 DEF WriteHot, TypeOK
<1>2. CASE WriteMicro
  <2>1. micro' \in [Code -> Text \cup {NoText}]
    <3>1. PICK c \in Code : \E t \in IF micro[c] = NoText THEN Says[<<"microfile", c>>] ELSE {NoText} :
            micro' = [micro EXCEPT ![c] = t]
      BY <1>2 DEF WriteMicro
    <3>2. Says[<<"microfile", c>>] \subseteq Text
      BY TextAssumption DEF Ref
    <3>3. QED
      BY <3>1, <3>2 DEF TypeOK
  <2>2. /\ had' \in [hot : SUBSET HotText, micro : [Code -> SUBSET (Text \cup {NoText})]]
        /\ changes' \in 0..MaxChanges
    BY <1>2, <2>1, MeanwhileType DEF WriteMicro, TypeOK
  <2>3. QED
    BY <1>2, <2>1, <2>2 DEF WriteMicro, TypeOK
<1>3. ASSUME docs' \in [Text -> SUBSET Ref], \A t \in Text : \A r, s \in docs'[t] : r = s,
             Meanwhile, UNCHANGED <<hot, mtime, now, micro, cache, pc, loc, sigs, blurred>>
      PROVE  TypeOK'
  <2>1. /\ had' \in [hot : SUBSET HotText, micro : [Code -> SUBSET (Text \cup {NoText})]]
        /\ changes' \in 0..MaxChanges
    BY <1>3, MeanwhileType DEF TypeOK
  <2>2. QED
    BY <1>3, <2>1 DEF TypeOK
<1>4. CASE IndexMicro
  <2>1. PICK c \in Code : micro[c] # NoText /\ docs' = Index(<<"microfile", c>>, micro[c])
    BY <1>4 DEF IndexMicro
  <2>2. <<"microfile", c>> \in Ref /\ micro[c] \in Text
    BY <2>1 DEF Ref, TypeOK
  <2>3. QED
    BY <1>3, <1>4, <2>1, <2>2, IndexType DEF IndexMicro
<1>5. CASE IndexOther
  <2>1. PICK r \in Ref : \E t \in Says[r] : docs' = Index(r, t)
    BY <1>5 DEF IndexOther
  <2>2. Says[r] \subseteq Text
    BY TextAssumption
  <2>3. QED
    BY <1>3, <1>5, <2>1, <2>2, IndexType DEF IndexOther
<1>6. CASE Clear
  BY <1>3, <1>6 DEF Clear
<1>7. CASE Tick
  <2>1. mtime' \in 0..now' /\ now' \in 0..MaxTime
    BY <1>7, LimitAssumption DEF Tick, TypeOK
  <2>2. QED
    BY <1>7, <2>1 DEF Tick, TypeOK
<1>8. QED
  BY <1>1, <1>2, <1>4, <1>5, <1>6, <1>7

LEMMA TypeStep == TypeOK /\ [Next]_vars => TypeOK'
<1>1. TypeOK /\ UNCHANGED vars => TypeOK'
  BY DEF TypeOK, vars
<1>2. QED
  BY <1>1, TypeCall, TypeOthers DEF Next

(* Type correctness: a returned block respects Limit and shows no code     *)
(* twice, and a text is indexed under one ref (__init__.py:909-946).       *)
THEOREM TypeCorrect == Spec => []TypeOK
  BY TypeInit, TypeStep, PTL DEF Spec

-------------------------------------------------------------------------------
(* A call has always seen the files as they are.                           *)
LEMMA SeenInit == Init => SeenInv
  BY DEF Init, SeenInv

LEMMA SeenStep == TypeOK /\ SeenInv /\ [Next]_vars => SeenInv'
<1> SUFFICES ASSUME TypeOK, SeenInv, [Next]_vars PROVE SeenInv'
  OBVIOUS
<1>1. CASE Begin
  BY <1>1 DEF Begin, SeenInv
<1>2. CASE Return
  BY <1>2 DEF Return, SeenInv
<1>3. CASE Stat \/ ReadHot \/ TakeHit \/ Compose
  BY <1>3 DEF Stat, ReadHot, TakeHit, Compose, SeenInv
<1>4. CASE WriteHot \/ WriteMicro \/ IndexMicro \/ IndexOther \/ Clear
  <2>1. Meanwhile /\ UNCHANGED <<pc, loc>>
    BY <1>4 DEF WriteHot, WriteMicro, IndexMicro, IndexOther, Clear
  <2>2. QED
    BY <2>1 DEF Meanwhile, SeenInv
<1>5. CASE Tick \/ UNCHANGED vars
  BY <1>5 DEF Tick, vars, SeenInv
<1>6. QED
  BY <1>1, <1>2, <1>3, <1>4, <1>5 DEF Next, Call

(* What a call has seen only grows.                                        *)
LEMMA HadGrows ==
  ASSUME TypeOK, Meanwhile, pc # "idle"
  PROVE  had.hot \subseteq had'.hot /\ \A c \in Code : had.micro[c] \subseteq had'.micro[c]
  BY DEF Meanwhile

-------------------------------------------------------------------------------
(* Before the first hit, and after the call, there is nothing to show.     *)
LEMMA NothingYet ==
  ASSUME Begin \/ Return
  PROVE  loc'.sig = NoSig /\ loc'.micros = <<>> /\ loc'.turns = <<>> /\ pc' \in {"stat", "idle"}
<1>1. NoCall.sig = NoSig /\ NoCall.micros = <<>> /\ NoCall.turns = <<>>
  BY DEF NoCall
<1>2. CASE Begin
  <2>1. PICK q, F, s : loc' = [NoCall EXCEPT !.query = q, !.found = F, !.hits = s]
    BY <1>2 DEF Begin
  <2>2. loc'.sig = NoCall.sig /\ loc'.micros = NoCall.micros /\ loc'.turns = NoCall.turns
    BY <2>1, NoCallType DEF Local
  <2>3. QED
    BY <1>1, <1>2, <2>2 DEF Begin
<1>3. CASE Return
  BY <1>1, <1>3 DEF Return
<1>4. QED
  BY <1>2, <1>3

(* The cached terms are those of the present text wherever the signatures  *)
(* agree.                                                                  *)
LEMMA CacheInit == Init => CacheInv
  BY SigType DEF Init, CacheInv, NoCall, Signature

LEMMA CacheStep == TypeOK /\ SeenInv /\ CacheInv /\ [Next]_vars => CacheInv'
<1> SUFFICES ASSUME TypeOK, SeenInv, CacheInv, [Next]_vars, ~blurred' PROVE CacheInv'
  BY DEF CacheInv
<1>1. CASE Begin \/ Return
  <2>1. loc'.sig = NoSig /\ pc' # "read"
    BY <1>1, NothingYet
  <2>2. UNCHANGED <<hot, mtime, cache, sigs, blurred>>
    BY <1>1 DEF Begin, Return
  <2>3. QED
    BY <2>1, <2>2 DEF CacheInv, Signature
<1>2. CASE Stat
  <2>1. loc'.sig = Signature /\ Signature # NoSig
    BY <1>2, SigType DEF Stat, TypeOK, Local, Signature
  <2>2. hot \in had.hot
    BY <1>2 DEF Stat, SeenInv
  <2>3. UNCHANGED <<hot, mtime, cache, had, sigs, blurred>>
    BY <1>2 DEF Stat
  <2>4. QED
    BY <2>1, <2>2, <2>3 DEF CacheInv, Signature
<1>3. CASE ReadHot
  <2>1. \/ cache' = cache
        \/ cache'.sig = loc.sig /\ cache'.terms = Terms[hot]
    BY <1>3 DEF ReadHot
  <2>2. loc'.sig = loc.sig /\ pc' = "compose"
    BY <1>3 DEF ReadHot, TypeOK, Local
  <2>3. UNCHANGED <<hot, mtime, sigs, blurred>>
    BY <1>3 DEF ReadHot
  <2>4. QED
    BY <2>1, <2>2, <2>3 DEF CacheInv, Signature
<1>4. CASE TakeHit \/ Compose
  <2>1. loc'.sig = loc.sig /\ pc' # "read"
    BY <1>4 DEF TakeHit, Compose, TypeOK, Local
  <2>2. UNCHANGED <<hot, mtime, cache, sigs, blurred>>
    BY <1>4 DEF TakeHit, Compose
  <2>3. QED
    BY <2>1, <2>2 DEF CacheInv, Signature
<1>5. CASE WriteHot
  <2>1. Signature' = Sig(now, hot') /\ Signature' \notin sigs /\ Signature' # NoSig
    <3>1. Signature' = Sig(now, hot') /\ hot' \in HotText /\ now \in Nat
      BY <1>5 DEF WriteHot, TypeOK, Signature
    <3>2. Sig(now, hot') \notin sigs
      BY <1>5, Zenon DEF WriteHot
    <3>3. QED
      BY <3>1, <3>2, SigType
  <2>2. sigs' = sigs \cup {Signature'} /\ ~blurred /\ UNCHANGED <<cache, pc, loc>> /\ Meanwhile
    BY <1>5, <2>1, Zenon DEF WriteHot
  <2>3. cache'.sig # Signature'
    BY <2>1, <2>2 DEF CacheInv
  <2>4. pc = "read" => had.hot \subseteq had'.hot
    BY <2>2, HadGrows
  <2>5. QED
    BY <2>2, <2>3, <2>4 DEF CacheInv
<1>6. CASE WriteMicro \/ IndexMicro \/ IndexOther \/ Clear
  <2>1. UNCHANGED <<hot, mtime, cache, pc, loc, sigs, blurred>> /\ Meanwhile
    BY <1>6 DEF WriteMicro, IndexMicro, IndexOther, Clear
  <2>2. pc = "read" => had.hot \subseteq had'.hot
    BY <2>1, HadGrows
  <2>3. QED
    BY <2>1, <2>2 DEF CacheInv, Signature
<1>7. CASE Tick \/ UNCHANGED vars
  BY <1>7 DEF Tick, vars, CacheInv, Signature
<1>8. QED
  BY <1>1, <1>2, <1>3, <1>4, <1>5, <1>6, <1>7 DEF Next, Call

LEMMA FreshStep ==
  TypeOK /\ SeenInv /\ CacheInv /\ HotZoneFresh /\ [Next]_vars => HotZoneFresh'
<1> SUFFICES ASSUME TypeOK, SeenInv, CacheInv, HotZoneFresh, [Next]_vars, ~blurred'
             PROVE  HotZoneFresh'
  BY DEF HotZoneFresh
<1>1. CASE Begin \/ Return \/ Stat
  BY <1>1 DEF Begin, Return, Stat, HotZoneFresh
<1>2. CASE ReadHot
  <2>1. loc'.l0 = cache'.terms /\ UNCHANGED <<had, blurred>>
    BY <1>2 DEF ReadHot, TypeOK, Local
  <2>2. CASE loc.sig = cache.sig
    BY <1>2, <2>1, <2>2 DEF ReadHot, CacheInv, HotZoneFresh
  <2>3. CASE loc.sig # cache.sig
    <3>1. cache'.terms = Terms[hot] /\ hot \in had.hot
      BY <1>2, <2>3 DEF ReadHot, SeenInv
    <3>2. QED
      BY <2>1, <3>1 DEF HotZoneFresh
  <2>4. QED
    BY <2>2, <2>3
<1>3. CASE TakeHit \/ Compose
  <2>1. loc'.l0 = loc.l0 /\ pc = "compose" /\ UNCHANGED <<had, blurred>>
    BY <1>3 DEF TakeHit, Compose, TypeOK, Local
  <2>2. QED
    BY <2>1 DEF HotZoneFresh
<1>4. CASE WriteHot \/ WriteMicro \/ IndexMicro \/ IndexOther \/ Clear
  <2>1. Meanwhile /\ UNCHANGED <<pc, loc>>
    BY <1>4 DEF WriteHot, WriteMicro, IndexMicro, IndexOther, Clear
  <2>2. ~blurred
    BY <1>4, Zenon DEF WriteHot, WriteMicro, IndexMicro, IndexOther, Clear
  <2>3. pc # "idle" => had.hot \subseteq had'.hot
    BY <2>1, HadGrows
  <2>4. QED
    BY <2>1, <2>2, <2>3 DEF HotZoneFresh
<1>5. CASE Tick \/ UNCHANGED vars
  BY <1>5 DEF Tick, vars, HotZoneFresh
<1>6. QED
  BY <1>1, <1>2, <1>3, <1>4, <1>5 DEF Next, Call

(* The gate judges by a hot zone that was there during the call, although  *)
(* _l0_terms caches across calls and takes the signature before the text   *)
(* (__init__.py:989-996).                                                  *)
THEOREM HotZoneFreshAlways == Spec => []HotZoneFresh
<1>1. Init => HotZoneFresh
  BY DEF Init, HotZoneFresh
<1>2. QED
  BY <1>1, TypeInit, TypeStep, SeenInit, SeenStep, CacheInit, CacheStep, FreshStep, PTL DEF Spec

-------------------------------------------------------------------------------
LEMMA LineOfFresh ==
  ASSUME TypeOK, SeenInv, pc # "idle", NEW d \in Document, d.ref[1] = "microfile"
  PROVE  {LineOf(d).text, NoText} \cap had.micro[d.ref[2]] # {} /\ LineOf(d).ref = d.ref
<1>1. d.ref[2] \in Code
  BY DEF Document, Ref
<1>2. micro[d.ref[2]] \in had.micro[d.ref[2]]
  BY <1>1 DEF SeenInv
<1>3. QED
  BY <1>2 DEF LineOf

LEMMA RangeOfAppended ==
  ASSUME NEW s \in Seq(Line), NEW l \in Line
  PROVE  Range(s \o <<l>>) = Range(s) \cup {l}
<1>1. /\ DOMAIN s = 1..Len(s) /\ Len(s) \in Nat
      /\ DOMAIN (s \o <<l>>) = 1..(Len(s) + 1)
      /\ \A i \in 1..Len(s) : (s \o <<l>>)[i] = s[i]
      /\ (s \o <<l>>)[Len(s) + 1] = l
  OBVIOUS
<1>2. DOMAIN (s \o <<l>>) = DOMAIN s \cup {Len(s) + 1}
  BY <1>1
<1>3. QED
  BY <1>1, <1>2 DEF Range

LEMMA RangeOfCut == ASSUME NEW s \in Seq(Line) PROVE Range(Cut(s)) \subseteq Range(s)
<1>1. /\ DOMAIN Cut(s) = 1..Len(Cut(s)) /\ 1..Len(Cut(s)) \subseteq DOMAIN s
      /\ \A i \in 1..Len(Cut(s)) : Cut(s)[i] = s[i]
  BY CutType, LenProperties
<1>2. QED
  BY <1>1 DEF Range

LEMMA MicroStep == TypeOK /\ SeenInv /\ MicroFresh /\ [Next]_vars => MicroFresh'
<1> SUFFICES ASSUME TypeOK, SeenInv, MicroFresh, [Next]_vars PROVE MicroFresh'
  OBVIOUS
<1>1. CASE Begin \/ Return
  <2>1. loc'.micros = <<>> /\ loc'.turns = <<>>
    BY <1>1, NothingYet
  <2>2. QED
    BY <2>1 DEF MicroFresh, Lines, Range
<1>2. CASE Stat \/ ReadHot
  <2>1. loc'.micros = loc.micros /\ loc'.turns = loc.turns /\ UNCHANGED had
    BY <1>2 DEF Stat, ReadHot, TypeOK, Local
  <2>2. QED
    BY <2>1 DEF MicroFresh, Lines
<1>3. CASE TakeHit
  <2> DEFINE l == LineOf(Head(loc.hits))
  <2>1. Head(loc.hits) \in Document
    BY <1>3, HeadTailProperties DEF TakeHit, TypeOK, Local
  <2>2. l \in Line
    BY <2>1, LineOfType
  <2>3. loc.micros \in Seq(Line) /\ loc.turns \in Seq(Line)
    BY DEF TypeOK, Local
  <2>4. /\ loc'.micros \in {loc.micros, loc.micros \o <<>>, loc.micros \o <<l>>}
        /\ loc'.turns \in {loc.turns, loc.turns \o <<>>, loc.turns \o <<l>>}
    BY <1>3 DEF TakeHit, TypeOK, Local
  <2>5. loc.micros \o <<>> = loc.micros /\ loc.turns \o <<>> = loc.turns
    BY <2>3, ConcatEmptySeq
  <2>6. Lines' \subseteq Lines \cup {l}
    <3> HIDE DEF l
    <3>1. Range(loc'.micros) \subseteq Range(loc.micros) \cup {l}
      BY <2>2, <2>3, <2>4, <2>5, RangeOfAppended
    <3>2. Range(loc'.turns) \subseteq Range(loc.turns) \cup {l}
      BY <2>2, <2>3, <2>4, <2>5, RangeOfAppended
    <3>3. QED
      BY <3>1, <3>2 DEF Lines
  <2>7. l.ref[1] = "microfile" => {l.text, NoText} \cap had.micro[l.ref[2]] # {}
    <3>1. l.ref = Head(loc.hits).ref
      BY DEF LineOf
    <3>2. pc # "idle"
      BY <1>3 DEF TakeHit
    <3>3. QED
      BY <2>1, <3>1, <3>2, LineOfFresh
  <2>8. UNCHANGED had
    BY <1>3 DEF TakeHit
  <2>9. QED
    BY <2>6, <2>7, <2>8 DEF MicroFresh
<1>4. CASE Compose
  <2>1. loc.micros \in Seq(Line) /\ loc.turns \in Seq(Line)
    BY DEF TypeOK, Local
  <2>2. loc'.micros = Cut(loc.micros) /\ loc'.turns = Cut(loc.turns) /\ UNCHANGED had
    BY <1>4 DEF Compose, TypeOK, Local
  <2>3. Lines' \subseteq Lines
    BY <2>1, <2>2, RangeOfCut DEF Lines
  <2>4. QED
    BY <2>2, <2>3 DEF MicroFresh
<1>5. CASE WriteHot \/ WriteMicro \/ IndexMicro \/ IndexOther \/ Clear
  <2>1. Meanwhile /\ UNCHANGED <<pc, loc>>
    BY <1>5 DEF WriteHot, WriteMicro, IndexMicro, IndexOther, Clear
  <2>2. CASE pc = "idle"
    BY <2>1, <2>2 DEF Meanwhile, MicroFresh, Lines
  <2>3. CASE pc # "idle"
    <3>1. SUFFICES ASSUME NEW l \in Lines', l.ref[1] = "microfile"
                   PROVE  {l.text, NoText} \cap had'.micro[l.ref[2]] # {}
      BY DEF MicroFresh
    <3>2. l \in Lines /\ l \in Line
      BY <2>1 DEF Lines, Range, TypeOK, Local
    <3>3. l.ref[2] \in Code
      BY <3>1, <3>2 DEF Line, Ref
    <3>4. had.micro[l.ref[2]] \subseteq had'.micro[l.ref[2]]
      BY <2>1, <2>3, <3>3, HadGrows
    <3>5. QED
      BY <3>1, <3>2, <3>4 DEF MicroFresh
  <2>4. QED
    BY <2>2, <2>3
<1>6. CASE Tick \/ UNCHANGED vars
  BY <1>6 DEF Tick, vars, MicroFresh, Lines
<1>7. QED
  BY <1>1, <1>2, <1>3, <1>4, <1>5, <1>6 DEF Next, Call

(* What is shown of a microfile is what it said during the call, although  *)
(* the index finds its older versions as well (__init__.py:920).           *)
THEOREM MicroFreshAlways == Spec => []MicroFresh
<1>1. Init => MicroFresh
  BY DEF Init, NoCall, MicroFresh, Lines, Range
<1>2. QED
  BY <1>1, TypeInit, TypeStep, SeenInit, SeenStep, MicroStep, PTL DEF Spec

-------------------------------------------------------------------------------
(* With no more hits than the pool takes, search returns all it found.     *)
LEMMA RankedAll ==
  ASSUME NEW S, IsFiniteSet(S), Cardinality(S) <= Pool, NEW s \in Ranked(S)
  PROVE  Range(s) = S
<1>1. Cardinality(S) \in Nat /\ Pool \in Nat
  BY FS_CardinalityType, LimitAssumption DEF Pool
<1> DEFINE n == Cardinality(S)
<1>2. (IF n < Pool THEN n ELSE Pool) = n
  BY <1>1
<1>3. s \in [1..n -> S] /\ IsInjective(s)
  BY <1>2 DEF Ranked
<1>4. s \in Injection(1..n, S)
  BY <1>3 DEF Injection
<1>5. Cardinality(1..n) = n
  <2>1. n \in Int
    BY <1>1
  <2> HIDE DEF n
  <2>2. Cardinality(1..n) = (IF 1 > n THEN 0 ELSE n - 1 + 1)
    BY <2>1, FS_Interval
  <2>3. n \in Nat
    BY <1>1 DEF n
  <2>4. QED
    BY <2>2, <2>3
<1>6. s \in Surjection(1..n, S)
  <2> HIDE DEF n
  <2>1. QED
    BY <1>4, <1>5, FS_Injection DEF n
<1>7. QED
  BY <1>3, <1>6 DEF Surjection, Range

LEMMA RankedRange ==
  ASSUME NEW S, NEW s \in Ranked(S)
  PROVE  Range(s) \subseteq S
BY DEF Ranked, Range

LEMMA RangeOfTail ==
  ASSUME NEW s \in Seq(Document), s # <<>>
  PROVE  Range(s) = {Head(s)} \cup Range(Tail(s))
<1>1. /\ DOMAIN s = 1..Len(s) /\ Len(s) \in Nat \ {0} /\ Head(s) = s[1]
      /\ DOMAIN Tail(s) = 1..(Len(s) - 1)
      /\ \A i \in 1..(Len(s) - 1) : Tail(s)[i] = s[i + 1]
  OBVIOUS
<1>2. ASSUME NEW i \in DOMAIN s PROVE s[i] \in {Head(s)} \cup Range(Tail(s))
  <2>1. CASE i = 1
    BY <1>1, <2>1
  <2>2. CASE i # 1
    <3>1. i - 1 \in 1..(Len(s) - 1) /\ Tail(s)[i - 1] = s[i]
      BY <1>1, <2>2
    <3>2. QED
      BY <1>1, <3>1 DEF Range
  <2>3. QED
    BY <2>1, <2>2
<1>3. 1 \in DOMAIN s /\ \A i \in 1..(Len(s) - 1) : i + 1 \in DOMAIN s
  BY <1>1
<1>4. QED
  BY <1>1, <1>2, <1>3 DEF Range

(* No more lines than codes that were found.                               *)
LEMMA LinesFew ==
  ASSUME TypeOK, SurfaceInv, Few(loc.found)
  PROVE  Cut(loc.micros) = loc.micros
<1> DEFINE N == {e \in loc.found : e.ref[1] # "turn"}
           C == {d.ref[2] : d \in N}
           f == [i \in 1..Len(loc.micros) |-> loc.micros[i].ref[2]]
           g == [d \in N |-> d.ref[2]]
<1>1. loc.micros \in Seq(Line) /\ DOMAIN loc.micros = 1..Len(loc.micros) /\ Len(loc.micros) \in Nat
  BY DEF TypeOK, Local
<1>2. IsFiniteSet(C) /\ Cardinality(C) <= Limit
  <2>1. IsFiniteSet(N)
    BY FS_Subset DEF SurfaceInv
  <2>2. g \in Surjection(N, C)
    BY DEF Surjection
  <2>3. IsFiniteSet(C)
    <3> HIDE DEF N, C, g
    <3>1. QED
      BY <2>1, <2>2, FS_Surjection
  <2>4. QED
    BY <2>3 DEF Few
<1>3. \A i \in 1..Len(loc.micros) : loc.micros[i].ref[2] \in C
  <2> SUFFICES ASSUME NEW i \in 1..Len(loc.micros) PROVE loc.micros[i].ref[2] \in C
    OBVIOUS
  <2>1. loc.micros[i] \in Range(loc.micros)
    BY <1>1 DEF Range
  <2>2. PICK d \in loc.found : loc.micros[i].ref = d.ref /\ d.ref[1] # "turn"
    BY <2>1 DEF SurfaceInv
  <2>3. QED
    BY <2>2
<1>4. \A i, j \in 1..Len(loc.micros) : loc.micros[i].ref[2] = loc.micros[j].ref[2] => i = j
  BY <1>1 DEF TypeOK
<1>5. f \in Injection(1..Len(loc.micros), C)
  <2>1. f \in [1..Len(loc.micros) -> C]
    BY <1>3
  <2>2. \A i \in 1..Len(loc.micros) : f[i] = loc.micros[i].ref[2]
    OBVIOUS
  <2> HIDE DEF f, C
  <2>3. QED
    BY <1>4, <2>1, <2>2 DEF Injection, IsInjective
<1>6. Cardinality(1..Len(loc.micros)) = Len(loc.micros)
  <2>1. Cardinality(1..Len(loc.micros)) = (IF 1 > Len(loc.micros) THEN 0 ELSE Len(loc.micros) - 1 + 1)
    BY <1>1, FS_Interval
  <2>2. QED
    BY <1>1, <2>1
<1>7. Len(loc.micros) <= Cardinality(C)
  <2> HIDE DEF f, C
  <2>1. QED
    BY <1>2, <1>5, <1>6, FS_Injection
<1>8. Len(loc.micros) <= Limit /\ Limit \in Nat
  <2>1. Cardinality(C) \in Nat
    <3> HIDE DEF C
    <3>1. QED
      BY <1>2, FS_CardinalityType
  <2> HIDE DEF C
  <2>2. QED
    BY <1>1, <1>2, <1>7, <2>1, LimitAssumption
<1>9. PICK t : t = SubSeq(loc.micros, 1, Len(loc.micros))
  OBVIOUS
<1>10. Cut(loc.micros) = t
  <2>1. (IF Len(loc.micros) < Limit THEN Len(loc.micros) ELSE Limit) = Len(loc.micros)
    BY <1>1, <1>8
  <2>2. QED
    BY <1>9, <2>1 DEF Cut
<1>11. t \in Seq(Line) /\ Len(t) = Len(loc.micros) /\ \A i \in 1..Len(t) : t[i] = loc.micros[i]
  BY <1>1, <1>9
<1>12. QED
  BY <1>1, <1>10, <1>11, SeqEqual

(* What has been dealt with stays so while the call goes on.               *)
LEMMA DealtStays ==
  ASSUME NEW c \in Code, Dealt(c), loc'.query = loc.query,
         Range(loc.micros) \subseteq Range(loc'.micros),
         had.hot \subseteq had'.hot, had.micro[c] \subseteq had'.micro[c]
  PROVE  Dealt(c)'
BY DEF Dealt, Keeps

(* A microfile that is taken from the hits is dealt with.                  *)
LEMMA TakenIsDealt ==
  ASSUME TypeOK, SeenInv, HotZoneFresh, ~blurred, TakeHit,
         NEW d \in Document, d = Head(loc.hits), d.ref[1] = "microfile",
         NEW c, c = d.ref[2]
  PROVE  Dealt(c)'
<1>0. PICK l : l = LineOf(d)
  OBVIOUS
<1>1. c \in Code /\ l \in Line /\ l.ref = d.ref
  <2>1. c \in Code
    BY DEF Document, Ref
  <2>2. LineOf(d).ref = d.ref
    BY DEF LineOf
  <2>3. QED
    BY <1>0, <2>1, <2>2, LineOfType
<1>2. loc.micros \in Seq(Line) /\ loc \in Local /\ DOMAIN loc.micros = 1..Len(loc.micros)
  BY DEF TypeOK, Local
<1>3. pc = "compose" /\ had' = had /\ loc'.query = loc.query
  BY <1>2 DEF TakeHit, Local
<1>4. micro[c] \in had.micro[c]
  BY <1>1, <1>3 DEF SeenInv
<1>5. PICK h \in had.hot : loc.l0 = Terms[h]
  BY <1>3 DEF HotZoneFresh
<1>6. loc'.micros = loc.micros \o (IF Repeats(d) \/ ~Passes(loc.query, l, loc.l0) THEN <<>> ELSE <<l>>)
  BY <1>0, <1>2 DEF TakeHit, Local
<1>7. CASE Repeats(d)
  <2>1. PICK i \in DOMAIN loc.micros : loc.micros[i].ref[2] = c
    BY <1>7 DEF Repeats
  <2>2. loc'.micros = loc.micros
    BY <1>2, <1>6, <1>7, ConcatEmptySeq
  <2>3. loc.micros[i] \in Range(loc'.micros)
    BY <2>1, <2>2 DEF Range
  <2>4. QED
    BY <2>1, <2>3 DEF Dealt
<1>8. CASE ~Repeats(d) /\ Passes(loc.query, l, loc.l0)
  <2>1. loc'.micros = loc.micros \o <<l>>
    BY <1>6, <1>8
  <2>2. l \in Range(loc'.micros)
    BY <1>1, <1>2, <2>1, RangeOfAppended
  <2>3. QED
    BY <1>1, <2>2 DEF Dealt
<1>9. CASE ~Passes(loc.query, l, loc.l0)
  <2>1. CASE micro[c] = NoText
    BY <1>3, <1>4, <2>1 DEF Dealt
  <2>2. CASE micro[c] # NoText
    <3>1. l = [ref |-> d.ref, text |-> micro[c], whole |-> TRUE]
      BY <1>0, <2>2 DEF LineOf
    <3>2. LineTerms(l) = Terms[micro[c]] /\ MinPercent(l) = 15
      BY <3>1 DEF LineTerms, MinPercent
    <3>3. ~Keeps(loc.query, Terms[micro[c]], 15, Terms[h])
      BY <1>5, <1>9, <3>2 DEF Passes
    <3>4. QED
      BY <1>3, <1>4, <1>5, <3>3 DEF Dealt, Keeps
  <2>3. QED
    BY <2>1, <2>2
<1>10. QED
  BY <1>7, <1>8, <1>9

LEMMA SurfaceTake ==
  ASSUME TypeOK, SeenInv, HotZoneFresh, SurfaceInv, TakeHit
  PROVE  SurfaceInv'
<1> DEFINE d == Head(loc.hits)
           l == LineOf(d)
<1>1. loc.hits \in Seq(Document) /\ loc.hits # <<>> /\ loc.micros \in Seq(Line) /\ loc \in Local
  BY DEF TakeHit, TypeOK, Local
<1>2. /\ loc'.found = loc.found /\ loc'.query = loc.query /\ loc'.hits = Tail(loc.hits)
      /\ pc = "compose" /\ UNCHANGED <<pc, had, blurred>>
  BY <1>1 DEF TakeHit, Local
<1>3. Range(loc.hits) = {d} \cup Range(Tail(loc.hits)) /\ d \in loc.found /\ d \in Document
  <2>1. Range(loc.hits) = {d} \cup Range(Tail(loc.hits))
    BY <1>1, RangeOfTail
  <2>2. d \in loc.found
    BY <2>1 DEF SurfaceInv
  <2>3. QED
    BY <1>1, <2>1, <2>2 DEF Local
<1>4. l \in Line /\ l.ref = d.ref
  <2>1. LineOf(d).ref = d.ref
    BY DEF LineOf
  <2>2. QED
    BY <1>3, <2>1, LineOfType
<1>5. \/ loc'.micros = loc.micros
      \/ loc'.micros = loc.micros \o <<l>> /\ d.ref[1] # "turn"
  <2>1. \/ loc'.micros = loc.micros
        \/ loc'.micros = loc.micros \o <<>>
        \/ loc'.micros = loc.micros \o <<l>> /\ d.ref[1] # "turn"
    BY <1>1 DEF TakeHit, Local
  <2>2. QED
    BY <1>1, <2>1, ConcatEmptySeq
<1> HIDE DEF l, d
<1>6. Range(loc.micros) \subseteq Range(loc'.micros)
      /\ \A m \in Range(loc'.micros) : m \in Range(loc.micros) \/ (m = l /\ d.ref[1] # "turn")
  <2>1. CASE loc'.micros = loc.micros
    BY <2>1
  <2>2. CASE loc'.micros = loc.micros \o <<l>> /\ d.ref[1] # "turn"
    <3>1. Range(loc'.micros) = Range(loc.micros) \cup {l}
      BY <1>1, <1>4, <2>2, RangeOfAppended
    <3>2. QED
      BY <2>2, <3>1
  <2>3. QED
    BY <1>5, <2>1, <2>2
<1>7. \A m \in Range(loc'.micros) : \E e \in loc'.found : m.ref = e.ref /\ e.ref[1] # "turn"
  BY <1>2, <1>3, <1>4, <1>6 DEF SurfaceInv
<1>8. ASSUME ~blurred', Few(loc'.found), NEW e \in loc'.found \ Range(loc'.hits), e.ref[1] = "microfile"
      PROVE  Dealt(e.ref[2])'
  <2>1. ~blurred /\ Few(loc.found) /\ e \in loc.found /\ e \in Document
    BY <1>1, <1>2, <1>8 DEF Few, Local
  <2>2. e.ref[2] \in Code
    BY <1>8, <2>1 DEF Document, Ref
  <2>3. CASE e = d
    BY <1>3, <1>8, <2>1, <2>3, TakenIsDealt DEF d
  <2>4. CASE e # d
    <3>1. e \notin Range(loc.hits)
      BY <1>2, <1>3, <1>8, <2>4
    <3>2. Dealt(e.ref[2])
      BY <1>8, <2>1, <3>1 DEF SurfaceInv
    <3>3. QED
      BY <1>2, <1>6, <2>2, <3>2, DealtStays
  <2>5. QED
    BY <2>3, <2>4
<1>9. Few(loc.found)' <=> Few(loc'.found)
  BY DEF Few
<1>10. IsFiniteSet(loc'.found) /\ Range(loc'.hits) \subseteq loc'.found
  BY <1>2, <1>3 DEF SurfaceInv
<1>11. QED
  BY <1>2, <1>7, <1>8, <1>9, <1>10 DEF SurfaceInv

(* A call begins with everything still to be taken.                        *)
LEMMA SurfaceBegin ==
  ASSUME TypeOK, Begin
  PROVE  SurfaceInv'
<1>a. PICK q \in Query : \E F :
        /\ F = {[ref |-> RefOf(t), text |-> t] : t \in {t \in Finds[q] : docs[t] # {}}}
        /\ \E s \in Ranked(F) : loc' = [NoCall EXCEPT !.query = q, !.found = F, !.hits = s]
  BY DEF Begin
<1>0. PICK F :
        /\ F = {[ref |-> RefOf(t), text |-> t] : t \in {t \in Finds[q] : docs[t] # {}}}
        /\ \E s \in Ranked(F) : loc' = [NoCall EXCEPT !.query = q, !.found = F, !.hits = s]
  BY <1>a
<1>1. PICK s \in Ranked(F) : loc' = [NoCall EXCEPT !.query = q, !.found = F, !.hits = s]
  BY <1>0
<1>2. IsFiniteSet(F)
  BY <1>0, FoundType
<1>3. loc'.found = F /\ loc'.hits = s /\ loc'.micros = <<>>
  BY <1>1, NoCallType DEF Local, NoCall
<1>4. Range(loc'.micros) = {}
  BY <1>3 DEF Range
<1>5. Few(F) => Range(s) = F
  <2>1. Few(F) => Cardinality(F) <= Pool
    BY DEF Few
  <2>2. QED
    BY <1>1, <1>2, <2>1, RankedAll
<1>6. Range(s) \subseteq F
  BY <1>1, RankedRange
<1>7. Few(loc.found)' <=> Few(F)
  BY <1>3 DEF Few
<1>8. pc' = "stat"
  BY DEF Begin
<1>9. QED
  BY <1>2, <1>3, <1>4, <1>5, <1>6, <1>7, <1>8 DEF SurfaceInv

LEMMA SurfaceStep ==
  TypeOK /\ SeenInv /\ HotZoneFresh /\ SurfaceInv /\ [Next]_vars => SurfaceInv'
<1> SUFFICES ASSUME TypeOK, SeenInv, HotZoneFresh, SurfaceInv, [Next]_vars PROVE SurfaceInv'
  OBVIOUS
<1>1. CASE Return
  <2>1. loc' = NoCall /\ NoCall.found = {} /\ NoCall.hits = <<>> /\ NoCall.micros = <<>>
    BY <1>1 DEF Return, NoCall
  <2>2. Range(loc'.hits) = {} /\ Range(loc'.micros) = {} /\ loc'.found = {}
    BY <2>1 DEF Range
  <2>3. IsFiniteSet(loc'.found)
    BY <2>2, FS_EmptySet
  <2>4. QED
    BY <1>1, <2>2, <2>3 DEF Return, SurfaceInv
<1>2. CASE Stat \/ ReadHot
  <2>1. /\ loc'.found = loc.found /\ loc'.hits = loc.hits /\ loc'.micros = loc.micros
        /\ loc'.query = loc.query /\ pc' # "done" /\ UNCHANGED <<had, blurred>>
    BY <1>2 DEF Stat, ReadHot, TypeOK, Local
  <2>2. QED
    BY <2>1, ZenonT(40) DEF SurfaceInv, Dealt, Few, Keeps
<1>3. CASE Compose
  <2>1. /\ loc'.found = loc.found /\ loc'.hits = loc.hits /\ loc'.micros = Cut(loc.micros)
        /\ loc'.query = loc.query /\ loc.hits = <<>> /\ UNCHANGED <<had, blurred>>
    BY <1>3 DEF Compose, TypeOK, Local
  <2>2. Range(loc'.micros) \subseteq Range(loc.micros)
    BY <2>1, RangeOfCut DEF TypeOK, Local
  <2>3. Few(loc.found) => loc'.micros = loc.micros
    BY <2>1, LinesFew
  <2>4. (~blurred' /\ Few(loc.found)') =>
           \A d \in loc'.found \ Range(loc'.hits) : d.ref[1] = "microfile" => Dealt(d.ref[2])'
    <3> SUFFICES ASSUME ~blurred, Few(loc.found),
                        NEW d \in loc.found \ Range(loc.hits), d.ref[1] = "microfile"
                 PROVE  Dealt(d.ref[2])'
      BY <2>1 DEF Few
    <3>1. d.ref[2] \in Code
      BY DEF TypeOK, Local, Document, Ref
    <3>2. Dealt(d.ref[2])
      BY DEF SurfaceInv
    <3>3. QED
      BY <2>1, <2>3, <3>1, <3>2, DealtStays
  <2>5. \A l \in Range(loc'.micros) : \E d \in loc'.found : l.ref = d.ref /\ d.ref[1] # "turn"
    BY <2>1, <2>2 DEF SurfaceInv
  <2>6. QED
    BY <2>1, <2>4, <2>5 DEF SurfaceInv
<1>4. CASE WriteHot \/ WriteMicro \/ IndexMicro \/ IndexOther \/ Clear
  <2>1. Meanwhile /\ UNCHANGED <<pc, loc>>
    BY <1>4 DEF WriteHot, WriteMicro, IndexMicro, IndexOther, Clear
  <2>2. ~blurred' => ~blurred
    BY <1>4, Zenon DEF WriteHot, WriteMicro, IndexMicro, IndexOther, Clear
  <2>3. (~blurred' /\ Few(loc.found)') =>
           \A d \in loc.found \ Range(loc.hits) : d.ref[1] = "microfile" => Dealt(d.ref[2])'
    <3> SUFFICES ASSUME ~blurred, Few(loc.found),
                        NEW d \in loc.found \ Range(loc.hits), d.ref[1] = "microfile"
                 PROVE  Dealt(d.ref[2])'
      BY <2>1, <2>2 DEF Few
    <3>1. d.ref[2] \in Code
      BY DEF TypeOK, Local, Document, Ref
    <3>2. Dealt(d.ref[2])
      BY DEF SurfaceInv
    <3>3. pc # "idle"
      BY DEF SeenInv, NoCall
    <3>4. had.hot \subseteq had'.hot /\ had.micro[d.ref[2]] \subseteq had'.micro[d.ref[2]]
      BY <2>1, <3>1, <3>3, HadGrows
    <3>5. QED
      BY <2>1, <3>1, <3>2, <3>4, DealtStays
  <2>4. QED
    BY <2>1, <2>3 DEF SurfaceInv
<1>5. CASE Tick \/ UNCHANGED vars
  <2>1. UNCHANGED <<pc, loc, had, blurred>>
    BY <1>5 DEF Tick, vars
  <2>2. QED
    BY <2>1 DEF SurfaceInv, Dealt, Few, Keeps
<1>6. QED
  BY <1>1, <1>2, <1>3, <1>4, <1>5, SurfaceBegin, SurfaceTake DEF Next, Call

(* A microfile that search found is shown, whatever the order of the hits, *)
(* the turns among them and the version it was found under, if it was      *)
(* never empty during the call and every version it had passes the gate.   *)
THEOREM SurfacedAlways == Spec => []Surfaced
<1>1. Init => SurfaceInv
  <2> SUFFICES ASSUME Init PROVE SurfaceInv
    OBVIOUS
  <2>1. loc = NoCall /\ NoCall.found = {} /\ NoCall.hits = <<>> /\ NoCall.micros = <<>>
        /\ pc = "idle"
    BY DEF Init, NoCall
  <2>2. Range(loc.hits) = {} /\ Range(loc.micros) = {} /\ loc.found = {}
    BY <2>1 DEF Range
  <2>3. IsFiniteSet(loc.found)
    BY <2>2, FS_EmptySet
  <2>4. QED
    BY <2>1, <2>2, <2>3 DEF SurfaceInv
<1>2. SurfaceInv => Surfaced
  <2> SUFFICES ASSUME SurfaceInv, pc = "done", ~blurred, Few(loc.found),
                      NEW d \in loc.found, d.ref[1] = "microfile"
               PROVE  \/ \E l \in Lines : l.ref[2] = d.ref[2] /\ l.ref[1] # "turn"
                      \/ NoText \in had.micro[d.ref[2]]
                      \/ \E t \in had.micro[d.ref[2]], h \in had.hot :
                            ~Keeps(loc.query, Terms[t], 15, Terms[h])
    BY DEF Surfaced
  <2>1. Range(loc.hits) = {}
    BY DEF SurfaceInv, Range
  <2>2. Dealt(d.ref[2])
    BY <2>1 DEF SurfaceInv
  <2>3. \A l \in Range(loc.micros) : l \in Lines /\ l.ref[1] # "turn"
    BY DEF SurfaceInv, Lines
  <2>4. QED
    BY <2>2, <2>3 DEF Dealt
<1>3. Init => HotZoneFresh
  BY DEF Init, HotZoneFresh
<1>4. QED
  BY <1>1, <1>2, <1>3, TypeInit, TypeStep, SeenInit, SeenStep, CacheInit, CacheStep, FreshStep,
     SurfaceStep, PTL DEF Spec

===============================================================================
