-------------------------- MODULE Tokenizer_proofs --------------------------
(***************************************************************************)
(* Proofs about Tokenizer, for every text of one-symbol characters, every  *)
(* state a fragment begins with, and every answer of the tree builder: no  *)
(* assert of tokenizer.c fails, and between two calls the tokenizer owns   *)
(* nothing.                                                                *)
(*                                                                         *)
(* The invariant says, for each class of states, what the tokenizer keeps: *)
(* where the token began, what it owns, and what is in the temporary       *)
(* buffer.  What was read of an end tag of raw text may turn out to be     *)
(* text, and is read again: each time, the asserts that compare the buffer *)
(* with what is read hold because the buffer is the text from the mark on, *)
(* place by place (IsTrail), and reading from a place depends on nothing   *)
(* but the place (CharAt).                                                 *)
(*                                                                         *)
(* The iterator comes first, then the record of the tokenizer and the      *)
(* helpers, how a handler ends, the handlers, state by state, and gumbo_lex. *)
(***************************************************************************)
EXTENDS Tokenizer, FoldLemmas, SequenceTheorems, TLAPS

-----------------------------------------------------------------------------
(***************************************************************************)
(* The iterator over a text in which every symbol is a character.          *)
(***************************************************************************)
Symbols == STRING \ (DOMAIN AfterLead \cup {EOF})

\* Where reading at s gets to: the carriage return of a pair is skipped.
Landing(s) ==
    IF s < Len(source) /\ source[s] = "\r" /\ source[s + 1] = "\n" THEN s + 1 ELSE s

CharAt(s) ==
    IF s > Len(source) THEN EOF
    ELSE CASE source[s] = "\r"                        -> "\n"
           [] source[s] \in Continuation \cup {"FF"} -> Replacement
           [] OTHER                                   -> source[s]

After(s) == IF s > Len(source) THEN s ELSE Landing(s + 1)

\* A place where reading stays.
IsPlace(s) == s \in 1 .. Len(source) + 1 /\ Landing(s) = s

IterFields == {"start", "width", "current", "pos", "mark", "mark_pos"}

Placed(i) ==
    /\ i = [f \in IterFields |-> i[f]]
    /\ IsPlace(i.start)
    /\ i.current = CharAt(i.start)
    /\ i.width = IF i.start > Len(source) THEN 0 ELSE 1
    /\ i.mark = Unmarked \/ IsPlace(i.mark)

-----------------------------------------------------------------------------
(***************************************************************************)
(* The states of the tokenizer, by what they keep.                         *)
(***************************************************************************)
ScriptLexers ==
    {"SCRIPT", "SCRIPT_ESCAPED_START", "SCRIPT_ESCAPED_START_DASH", "SCRIPT_ESCAPED",
     "SCRIPT_ESCAPED_DASH", "SCRIPT_ESCAPED_DASH_DASH", "SCRIPT_DOUBLE_ESCAPED_START",
     "SCRIPT_DOUBLE_ESCAPED", "SCRIPT_DOUBLE_ESCAPED_DASH", "SCRIPT_DOUBLE_ESCAPED_DASH_DASH",
     "SCRIPT_DOUBLE_ESCAPED_LT", "SCRIPT_DOUBLE_ESCAPED_END"}

\* Text, of which every character is a token.
TextLexers == {"DATA", "RCDATA", "RAWTEXT", "PLAINTEXT", "CDATA"} \cup ScriptLexers

\* A tag may begin: what was read of it is in the temporary buffer.
LtLexers == {"TAG_OPEN", "RCDATA_LT", "RAWTEXT_LT", "SCRIPT_LT", "SCRIPT_ESCAPED_LT"}
EndTagLexers ==
    {"END_TAG_OPEN", "RCDATA_END_TAG_OPEN", "RAWTEXT_END_TAG_OPEN", "SCRIPT_END_TAG_OPEN",
     "SCRIPT_ESCAPED_END_TAG_OPEN"}

\* The name of an end tag in raw text, which may still turn out to be text.
NameLexers ==
    {"RCDATA_END_TAG_NAME", "RAWTEXT_END_TAG_NAME", "SCRIPT_END_TAG_NAME",
     "SCRIPT_ESCAPED_END_TAG_NAME"}

\* In a tag.
ValueLexers == {"ATTR_VALUE_DOUBLE_QUOTED", "ATTR_VALUE_SINGLE_QUOTED", "ATTR_VALUE_UNQUOTED"}
TagLexers ==
    {"TAG_NAME", "BEFORE_ATTR_NAME", "ATTR_NAME", "AFTER_ATTR_NAME", "BEFORE_ATTR_VALUE",
     "CHAR_REF_IN_ATTR_VALUE", "AFTER_ATTR_VALUE_QUOTED", "SELF_CLOSING_START_TAG"}
      \cup ValueLexers

CommentLexers ==
    {"BOGUS_COMMENT", "COMMENT_START", "COMMENT_START_DASH", "COMMENT", "COMMENT_END_DASH",
     "COMMENT_END", "COMMENT_END_BANG"}

\* In a doctype, with an empty temporary buffer, and with any.
EmptyDoctypeLexers ==
    {"DOCTYPE", "AFTER_DOCTYPE_NAME", "AFTER_DOCTYPE_PUBLIC_KEYWORD", "BEFORE_DOCTYPE_PUBLIC_ID",
     "AFTER_DOCTYPE_PUBLIC_ID", "BETWEEN_DOCTYPE_PUBLIC_SYSTEM_ID",
     "AFTER_DOCTYPE_SYSTEM_KEYWORD", "BEFORE_DOCTYPE_SYSTEM_ID", "AFTER_DOCTYPE_SYSTEM_ID"}
DoctypeLexers ==
    {"BEFORE_DOCTYPE_NAME", "DOCTYPE_NAME",
     "DOCTYPE_PUBLIC_ID_DOUBLE_QUOTED", "DOCTYPE_PUBLIC_ID_SINGLE_QUOTED",
     "DOCTYPE_SYSTEM_ID_DOUBLE_QUOTED", "DOCTYPE_SYSTEM_ID_SINGLE_QUOTED", "BOGUS_DOCTYPE"}

Lexers ==
    TextLexers \cup LtLexers \cup EndTagLexers \cup NameLexers \cup TagLexers \cup CommentLexers
      \cup EmptyDoctypeLexers \cup DoctypeLexers
      \cup {"CHAR_REF_IN_DATA", "CHAR_REF_IN_RCDATA", "MARKUP_DECLARATION"}

\* The states a handler leaves behind when it returns a token.
ReturnLexers == TextLexers \cup {"BOGUS_DOCTYPE"}

-----------------------------------------------------------------------------
(***************************************************************************)
(* The invariant.                                                          *)
(***************************************************************************)
Fields ==
    {"it", "lexer", "reconsume", "foreign", "cdata", "buffered", "tmp", "emit", "script", "from",
     "doctype", "buf", "buf_from", "attrs", "tag", "last", "drop", "is_start", "closing",
     "value_state", "owned", "fault", "token"}

TokenFields == {"type", "char", "tag", "attrs", "text", "doctype", "closing", "from", "to"}
DoctypeFields == {"name", "public", "system", "force_quirks", "has_public", "has_system"}

\* What is put into the temporary buffer.
Chars ==
    Symbols \cup {EOF, Replacement, "\n", "<", "/", "!", "?", "-"}
      \cup {Uppercase[c] : c \in DOMAIN Uppercase}

\* A tokenizer in which no assert has failed.
Sane(k) ==
    /\ k = [f \in Fields |-> k[f]]
    /\ Placed(k.it)
    /\ k.tmp \in Seq(Chars)
    /\ k.fault = FALSE
    /\ k.reconsume \in BOOLEAN
    /\ k.token = [f \in TokenFields |-> k.token[f]]
    /\ k.doctype = [f \in DoctypeFields |-> k.doctype[f]]
    /\ k.from \in 1 .. Len(source) + 1

\* It is reading, and owns what it owns in a doctype, in text, and in a tag.
InDoctype(k) == Sane(k) /\ k.emit = NotEmitting /\ k.owned = {}
Clean(k)     == InDoctype(k) /\ k.doctype = doc_type_state_init
BehindLt(k)  == source[k.from] = "<" /\ k.from < k.it.start
InTag(k) ==
    /\ Sane(k) /\ k.emit = NotEmitting /\ k.owned = {"buffer", "attributes"}
    /\ k.doctype = doc_type_state_init
    /\ BehindLt(k)

\* A less-than sign in text is where the next token begins, or a token has begun with one.
AtText(k) == k.it.current = "<" => k.from <= k.it.start /\ source[k.from] = "<"

\* The places of the characters of the temporary buffer, when these are the text from the mark on.
IsTrail(c, k) ==
    /\ IsPlace(k.it.mark)
    /\ c[0] = k.it.mark
    /\ \A i \in 1 .. Len(k.tmp) :
          c[i - 1] \in Nat /\ k.tmp[i] = CharAt(c[i - 1]) /\ c[i] = After(c[i - 1])

\* It was read up to the iterator.
Traced(k) == \E c : IsTrail(c, k) /\ c[Len(k.tmp)] = k.it.start

\* The iterator is at the next one to be emitted.
Replays(k) ==
    k.emit = NotEmitting \/ (k.emit \in Nat /\ \E c : IsTrail(c, k) /\ c[k.emit - 1] = k.it.start)

Reading(k) ==
    /\ k.reconsume = FALSE
    /\ k.lexer \in Lexers
    /\ k.lexer \in TextLexers => Clean(k) /\ AtText(k)
    /\ k.lexer \in LtLexers => Clean(k) /\ BehindLt(k) /\ k.tmp = <<"<">> /\ Traced(k)
    /\ k.lexer = "SCRIPT_ESCAPED_LT" => k.script = <<>>
    /\ k.lexer \in EndTagLexers => Clean(k) /\ BehindLt(k) /\ k.tmp = <<"<", "/">> /\ Traced(k)
    /\ k.lexer \in NameLexers => InTag(k) /\ Traced(k) /\ Len(k.tmp) >= 2 /\ ~k.is_start
    /\ k.lexer \in TagLexers => InTag(k)
    /\ k.lexer = "CHAR_REF_IN_ATTR_VALUE" => k.value_state \in ValueLexers
    /\ k.lexer \in CommentLexers \cup {"CHAR_REF_IN_DATA", "CHAR_REF_IN_RCDATA"} => Clean(k)
    /\ k.lexer = "MARKUP_DECLARATION" => Clean(k) /\ BehindLt(k) /\ k.tmp = <<>>
    /\ k.lexer \in DoctypeLexers => InDoctype(k)
    /\ k.lexer \in EmptyDoctypeLexers => InDoctype(k) /\ k.tmp = <<>>

Returned(k) ==
    /\ Sane(k) /\ k.reconsume = FALSE
    /\ k.owned = {} /\ k.doctype = doc_type_state_init
    /\ k.lexer \in ReturnLexers
    /\ AtText(k) /\ Replays(k)

IInv ==
    /\ source \in Seq(Symbols)
    /\ phase \in {"called", "lexing", "parser", "ended"}
    /\ IF phase = "lexing" THEN Reading(tokenizer) ELSE Returned(tokenizer)

-----------------------------------------------------------------------------
(***************************************************************************)
(* Reading.                                                                *)
(***************************************************************************)
TextIsRead == source \in Seq(Symbols)

\* The characters of the text, of which none starts a longer one or is the end.
LEMMA SourceFacts ==
    ASSUME TextIsRead
    PROVE  /\ Len(source) \in Nat
           /\ \A s \in 1 .. Len(source) :
                 source[s] \in Symbols /\ source[s] \notin DOMAIN AfterLead /\ source[s] # EOF
  BY DEF TextIsRead, Symbols

\* The first byte of a character is all of it: the decoder accepts or rejects it.
LEMMA DecodesOne ==
    ASSUME TextIsRead, NEW s \in 1 .. Len(source)
    PROVE  /\ s \in Verdicts(source, s) /\ First(Verdicts(source, s)) = s
           /\ Decoding(source, s)[s] =
                 IF source[s] \in Continuation \cup {"FF"} THEN "reject" ELSE "accept"
  <1> DEFINE N == Len(source)
             IsDecoding(f, k) ==
                f = [c \in s - 1 .. k |-> IF c = s - 1 THEN "accept" ELSE decode(f[c - 1], source[c])]
             T == {k \in 0 .. N - s + 1 : \E f : IsDecoding(f, s - 1 + k)}
  <1>0. N \in Nat /\ s \in Nat /\ s >= 1 /\ s <= N /\ N - s + 1 \in Nat
    BY SourceFacts
  <1>1. 0 \in T
    <2> DEFINE f == [c \in s - 1 .. s - 1 |-> "accept"]
    <2>1. IsDecoding(f, s - 1)
      BY <1>0
    <2>2. s - 1 + 0 = s - 1 /\ 0 \in 0 .. N - s + 1
      BY <1>0
    <2> QED
      BY <2>1, <2>2
  <1>2. ASSUME NEW k \in 0 .. (N - s + 1) - 1, k \in T PROVE k + 1 \in T
    <2>1. PICK f : IsDecoding(f, s - 1 + k)
      BY <1>2
    <2> DEFINE m == s - 1 + k
               g == [c \in s - 1 .. m + 1 |->
                        IF c = m + 1 THEN decode(f[m], source[m + 1]) ELSE f[c]]
    <2>2. m \in Nat /\ m >= s - 1 /\ s - 1 + (k + 1) = m + 1 /\ k + 1 \in 0 .. N - s + 1
      BY <1>0
    <2>3. ASSUME NEW c \in s - 1 .. m + 1
          PROVE  g[c] = IF c = s - 1 THEN "accept" ELSE decode(g[c - 1], source[c])
      <3>1. CASE c = m + 1
        <4>1. m \in s - 1 .. m + 1 /\ m # m + 1 /\ c - 1 = m /\ c # s - 1
          BY <1>0, <2>2, <3>1
        <4> QED
          BY <3>1, <4>1
      <3>2. CASE c # m + 1
        <4>1. c \in s - 1 .. m /\ (c # s - 1 => c - 1 \in s - 1 .. m /\ c - 1 # m + 1)
          BY <1>0, <2>2, <3>2
        <4>2. f[c] = IF c = s - 1 THEN "accept" ELSE decode(f[c - 1], source[c])
          BY <2>1, <4>1
        <4>3. c # s - 1 => c - 1 \in s - 1 .. m + 1
          BY <1>0, <2>2, <4>1
        <4> QED
          BY <3>2, <4>1, <4>2, <4>3
      <3> QED
        BY <3>1, <3>2
    <2>4. IsDecoding(g, m + 1)
      <3> HIDE DEF g
      <3>1. g = [c \in s - 1 .. m + 1 |-> g[c]]
        BY DEF g
      <3> QED
        BY <2>3, <3>1
    <2> HIDE DEF g, m, IsDecoding
    <2> QED
      BY <2>2, <2>4
  <1>3. N - s + 1 \in T
    <2> HIDE DEF T
    <2>1. \A k \in 0 .. N - s + 1 : k \in T
      BY <1>0, <1>1, <1>2, InductionUpTo
    <2> QED
      BY <1>0, <2>1
  <1>4. IsDecoding(Decoding(source, s), N)
    <2>1. s - 1 + (N - s + 1) = N
      BY <1>0
    <2>2. \E f : IsDecoding(f, N)
      BY <1>3, <2>1
    <2> QED
      BY <2>2 DEF Decoding
  <1>5. Decoding(source, s)[s] = decode("accept", source[s])
    <2>1. s - 1 \in s - 1 .. N /\ s \in s - 1 .. N /\ s # s - 1
      BY <1>0
    <2> HIDE DEF N
    <2>2. Decoding(source, s)[s - 1] = "accept"
      BY <1>4, <2>1
    <2> QED
      BY <1>4, <2>1, <2>2
  <1>6. Decoding(source, s)[s] =
           IF source[s] \in Continuation \cup {"FF"} THEN "reject" ELSE "accept"
    BY <1>5, SourceFacts DEF decode
  <1>7. s \in Verdicts(source, s)
    BY <1>0, <1>6 DEF Verdicts
  <1>8. \A d \in Verdicts(source, s) : d \in Nat /\ s <= d
    BY <1>0 DEF Verdicts
  <1>9. First(Verdicts(source, s)) = s
    <2> DEFINE V == Verdicts(source, s)
    <2> HIDE DEF V
    <2>1. First(V) \in V /\ \A d \in V : First(V) <= d
      BY <1>7, <1>8 DEF First, V
    <2>2. First(V) <= s /\ s <= First(V) /\ First(V) \in Nat
      BY <1>7, <1>8, <2>1 DEF V
    <2> QED
      BY ONLY <1>0, <2>2 DEF V
  <1> QED
    BY <1>6, <1>7, <1>9

\* The text of one byte.
LEMMA SpelledOne ==
    ASSUME TextIsRead, NEW s \in 1 .. Len(source)
    PROVE  Spelled(source, s, s) = source[s]
  <1>0. s \in Nat /\ s .. s = {s}
    BY SourceFacts
  <1> DEFINE IsText(f) == f = [c \in s .. s |-> IF c = s THEN source[c] ELSE f[c - 1] \o source[c]]
             f0 == [c \in {s} |-> source[c]]
  <1>1. IsText(f0)
    BY <1>0
  <1>2. IsText(CHOOSE f : IsText(f))
    BY <1>1
  <1>3. Spelled(source, s, s) = (CHOOSE f : IsText(f))[s]
    BY DEF Spelled
  <1> QED
    BY <1>0, <1>2, <1>3

\* What reading says of an iterator, wherever it was put.
LEMMA ReadPlaced ==
    ASSUME TextIsRead, NEW i, i = [f \in IterFields |-> i[f]],
           i.start \in 1 .. Len(source) + 1, i.mark = Unmarked \/ IsPlace(i.mark)
    PROVE  /\ Placed(read_char(source, i))
           /\ read_char(source, i).start = Landing(i.start)
           /\ read_char(source, i).mark = i.mark
  <1> DEFINE s == i.start
             r == read_char(source, i)
  <1>0. Len(source) \in Nat /\ s \in Nat /\ s >= 1 /\ s <= Len(source) + 1
    BY SourceFacts
  <1>1. CASE s > Len(source)
    <2>1. r = [i EXCEPT !.current = EOF, !.width = 0]
      BY <1>1 DEF read_char
    <2>2. Landing(s) = s /\ CharAt(s) = EOF /\ IsPlace(s)
      BY <1>0, <1>1 DEF Landing, CharAt, IsPlace
    <2> HIDE DEF s
    <2>3. /\ r = [f \in IterFields |-> r[f]] /\ r.start = i.start /\ r.mark = i.mark
          /\ r.current = EOF /\ r.width = 0
      BY <2>1 DEF IterFields
    <2> HIDE DEF r
    <2> QED
      BY <1>0, <1>1, <2>2, <2>3 DEF Placed, s, r
  <1>2. CASE s \in 1 .. Len(source)
    <2>1. r = Decided(source, i, s)
      <3>1. s \in Verdicts(source, s) /\ First(Verdicts(source, s)) = s
        BY <1>2, DecodesOne
      <3>2. ~(s > Len(source))
        BY <1>0, <1>2
      <3>3. Verdicts(source, s) # {}
        BY <3>1
      <3> QED
        BY <3>1, <3>2, <3>3 DEF read_char, Decoded
    <2>2. CASE source[s] \in Continuation \cup {"FF"}
      <3>1. r = [i EXCEPT !.current = Replacement, !.width = 1]
        <4>1. Decoding(source, s)[s] = "reject"
          BY <1>2, <2>2, DecodesOne
        <4> QED
          BY <2>1, <4>1 DEF Decided, Rejected
      <3>2. source[s] # "\r"
        BY <2>2 DEF Continuation
      <3>3. Landing(s) = s /\ CharAt(s) = Replacement /\ IsPlace(s) /\ ~(s > Len(source))
        BY <1>0, <1>2, <2>2, <3>2 DEF Landing, CharAt, IsPlace
      <3> HIDE DEF s
      <3>4. /\ r = [f \in IterFields |-> r[f]] /\ r.start = i.start /\ r.mark = i.mark
            /\ r.current = Replacement /\ r.width = 1
        BY <3>1 DEF IterFields
      <3> HIDE DEF r
      <3> QED
        BY <3>3, <3>4 DEF Placed, s, r
    <2>3. CASE source[s] \notin Continuation \cup {"FF"}
      <3>0. r = Accepted(source, i, s)
        <4>1. Decoding(source, s)[s] = "accept"
          BY <1>2, <2>3, DecodesOne
        <4> QED
          BY <2>1, <4>1 DEF Decided
      <3>1. CASE source[s] = "\r" /\ s < Len(source) /\ source[s + 1] = "\n"
        <4>1. r = [i EXCEPT !.start = @ + 1, !.pos.offset = @ + 1, !.current = "\n", !.width = 1]
          BY <3>0, <3>1 DEF Accepted, CarriageReturn
        <4>2. s + 1 \in 1 .. Len(source) /\ ~(s + 1 > Len(source)) /\ source[s + 1] = "\n"
          BY <1>0, <3>1
        <4>3. Landing(s) = s + 1 /\ CharAt(s + 1) = "\n" /\ IsPlace(s + 1)
          BY <1>0, <3>1, <4>2 DEF Landing, CharAt, IsPlace, Continuation
        <4> HIDE DEF s
        <4>4. /\ r = [f \in IterFields |-> r[f]] /\ r.start = i.start + 1 /\ r.mark = i.mark
              /\ r.current = "\n" /\ r.width = 1
          BY <4>1 DEF IterFields
        <4> HIDE DEF r
        <4> QED
          BY <4>2, <4>3, <4>4 DEF Placed, s, r
      <3>2. CASE source[s] = "\r" /\ ~(s < Len(source) /\ source[s + 1] = "\n")
        <4>1. r = [i EXCEPT !.current = "\n", !.width = 1]
          BY <3>0, <3>2 DEF Accepted, CarriageReturn
        <4>2. Landing(s) = s
          BY <3>2 DEF Landing
        <4>3. IsPlace(s) /\ ~(s > Len(source))
          BY <1>0, <1>2, <4>2 DEF IsPlace
        <4>5. CharAt(s) = "\n"
          BY <3>2, <4>3 DEF CharAt, Continuation
        <4> HIDE DEF s
        <4>4. /\ r = [f \in IterFields |-> r[f]] /\ r.start = i.start /\ r.mark = i.mark
              /\ r.current = "\n" /\ r.width = 1
          BY <4>1 DEF IterFields
        <4> HIDE DEF r
        <4> QED
          BY <4>2, <4>3, <4>4, <4>5 DEF Placed, s, r
      <3>3. CASE source[s] # "\r"
        <4>1. r = [i EXCEPT !.current = source[s], !.width = 1]
          <5>1. Spelled(source, s, s) = source[s] /\ s - s + 1 = 1
            BY <1>0, <1>2, SpelledOne
          <5> QED
            BY <3>0, <3>3, <5>1 DEF Accepted
        <4>3. Landing(s) = s /\ CharAt(s) = source[s] /\ IsPlace(s) /\ ~(s > Len(source))
          BY <1>0, <1>2, <2>3, <3>3 DEF Landing, CharAt, IsPlace
        <4> HIDE DEF s
        <4>4. /\ r = [f \in IterFields |-> r[f]] /\ r.start = i.start /\ r.mark = i.mark
              /\ r.current = source[s] /\ r.width = 1
          BY <4>1 DEF IterFields
        <4> HIDE DEF r
        <4> QED
          BY <4>3, <4>4 DEF Placed, s, r
      <3> QED
        BY <3>1, <3>2, <3>3
    <2> QED
      BY <2>2, <2>3
  <1> QED
    BY <1>0, <1>1, <1>2

\* The places where reading gets to.
LEMMA AfterIsPlace ==
    ASSUME TextIsRead, NEW s, IsPlace(s)
    PROVE  /\ IsPlace(After(s)) /\ After(s) >= s /\ s \in Nat /\ After(s) \in Nat
           /\ s <= Len(source) => After(s) > s /\ Landing(s + 1) = After(s)
           /\ s > Len(source) => After(s) = s
  BY SourceFacts DEF IsPlace, After, Landing

\* The next character.
LEMMA NextPlaced ==
    ASSUME TextIsRead, NEW i, Placed(i)
    PROVE  /\ Placed(utf8iterator_next(source, i))
           /\ utf8iterator_next(source, i).start = After(i.start)
           /\ utf8iterator_next(source, i).mark = i.mark
  <1> DEFINE u == update_position(i)
             n == [u EXCEPT !.start = @ + i.width]
  <1>1. u = [f \in IterFields |-> u[f]] /\ u.start = i.start /\ u.mark = i.mark
    <2>1. i = [f \in IterFields |-> i[f]]
      BY DEF Placed
    <2> DEFINE moved == [i EXCEPT !.pos.offset = @ + i.width]
    <2>2. moved = [f \in IterFields |-> moved[f]] /\ moved.start = i.start /\ moved.mark = i.mark
      BY <2>1 DEF IterFields
    <2> HIDE DEF moved
    <2> DEFINE line == [moved EXCEPT !.pos.line = @ + 1, !.pos.column = 1]
               tab  == [moved EXCEPT !.pos.column = ((@ \div TabStop) + 1) * TabStop]
               one  == [moved EXCEPT !.pos.column = @ + 1]
    <2>3. line = [f \in IterFields |-> line[f]] /\ line.start = i.start /\ line.mark = i.mark
      BY <2>2 DEF IterFields
    <2>4. tab = [f \in IterFields |-> tab[f]] /\ tab.start = i.start /\ tab.mark = i.mark
      BY <2>2 DEF IterFields
    <2>5. one = [f \in IterFields |-> one[f]] /\ one.start = i.start /\ one.mark = i.mark
      BY <2>2 DEF IterFields
    <2>6. u = line \/ u = tab \/ u = moved \/ u = one
      BY DEF update_position, moved
    <2> HIDE DEF line, tab, one, u
    <2> QED
      BY <2>2, <2>3, <2>4, <2>5, <2>6
  <1> HIDE DEF u
  <1>2. n = [f \in IterFields |-> n[f]] /\ n.start = i.start + i.width /\ n.mark = i.mark
    BY <1>1 DEF IterFields
  <1>3. utf8iterator_next(source, i) = read_char(source, n)
    BY DEF utf8iterator_next, u
  <1> HIDE DEF n
  <1>4. /\ IsPlace(i.start) /\ Len(source) \in Nat /\ i.start \in 1 .. Len(source) + 1
        /\ i.width = IF i.start > Len(source) THEN 0 ELSE 1
        /\ i.mark = Unmarked \/ IsPlace(i.mark)
    BY SourceFacts DEF Placed, IsPlace
  <1>5. n.start \in 1 .. Len(source) + 1
    BY <1>2, <1>4
  <1>6. Landing(n.start) = After(i.start)
    BY <1>2, <1>4, SourceFacts DEF After, Landing
  <1> QED
    BY <1>2, <1>3, <1>4, <1>5, <1>6, ReadPlaced

\* A mark is where the iterator is, and a reset goes back to it.
LEMMA MarkPlaced ==
    ASSUME NEW i, Placed(i)
    PROVE  /\ Placed(utf8iterator_mark(i))
           /\ utf8iterator_mark(i).start = i.start
           /\ utf8iterator_mark(i).current = i.current
           /\ utf8iterator_mark(i).mark = i.start
  <1> DEFINE m == utf8iterator_mark(i)
  <1>1. /\ m = [f \in IterFields |-> m[f]] /\ m.start = i.start /\ m.mark = i.start
        /\ m.current = i.current /\ m.width = i.width
    BY DEF Placed, utf8iterator_mark, IterFields
  <1> HIDE DEF m
  <1> QED
    BY <1>1 DEF Placed, m

\* Going back: what is read at the mark is what was read there.
LEMMA ResetPlaced ==
    ASSUME TextIsRead, NEW i, Placed(i), IsPlace(i.mark)
    PROVE  /\ Placed(utf8iterator_reset(source, i))
           /\ utf8iterator_reset(source, i).start = i.mark
           /\ utf8iterator_reset(source, i).mark = i.mark
  <1> DEFINE back == [i EXCEPT !.start = i.mark, !.pos = i.mark_pos]
  <1>1. back = [f \in IterFields |-> back[f]] /\ back.start = i.mark /\ back.mark = i.mark
    BY DEF Placed, IterFields
  <1>2. utf8iterator_reset(source, i) = read_char(source, back)
    BY DEF utf8iterator_reset
  <1> HIDE DEF back
  <1>3. Landing(i.mark) = i.mark /\ i.mark \in 1 .. Len(source) + 1
    BY DEF IsPlace
  <1> QED
    BY <1>1, <1>2, <1>3, ReadPlaced

\* Only the end of the text reads as the end, and only "<" and ">" read as these.
LEMMA PlacedFacts ==
    ASSUME TextIsRead, NEW i, Placed(i)
    PROVE  /\ i.start \in 1 .. Len(source) + 1 /\ i.start \in Nat /\ IsPlace(i.start)
           /\ i.current = CharAt(i.start)
           /\ i.current \in Symbols \cup {EOF, Replacement, "\n"}
           /\ i.current = EOF <=> i.start = Len(source) + 1
           /\ i.current \in {"<", ">"} => i.start <= Len(source) /\ source[i.start] = i.current
  <1>1. /\ i.start \in 1 .. Len(source) + 1 /\ i.start \in Nat /\ IsPlace(i.start)
        /\ i.current = CharAt(i.start) /\ Len(source) \in Nat
    BY SourceFacts DEF Placed, IsPlace
  <1>2. CASE i.start > Len(source)
    <2>1. i.current = EOF /\ i.start = Len(source) + 1
      BY <1>1, <1>2 DEF CharAt
    <2> QED
      BY ONLY <1>1, <2>1 DEF EOF
  <1>3. CASE ~(i.start > Len(source))
    <2>1. /\ source[i.start] \in Symbols /\ source[i.start] # EOF
          /\ i.start <= Len(source) /\ i.start # Len(source) + 1
      BY <1>1, <1>3, SourceFacts
    <2>2. i.current \in {"\n", Replacement} \/ i.current = source[i.start]
      BY <1>1, <1>3 DEF CharAt
    <2> QED
      BY ONLY <1>1, <2>1, <2>2 DEF EOF, Replacement
  <1> QED
    BY <1>2, <1>3

\* From i on, and not before i.
Onwards(i, j) == Placed(j) /\ j.start >= i.start

\* The next character is one further on.
LEMMA OnwardsNext ==
    ASSUME TextIsRead, NEW i, Placed(i), NEW j, Onwards(i, j)
    PROVE  Onwards(i, utf8iterator_next(source, j)) /\ Onwards(i, i)
  <1>1. Placed(j) /\ j.start >= i.start
    BY DEF Onwards
  <1> DEFINE n == utf8iterator_next(source, j)
  <1>2. Placed(n) /\ n.start = After(j.start)
    BY <1>1, NextPlaced
  <1>3. IsPlace(j.start) /\ i.start \in Nat /\ j.start \in Nat
    BY <1>1, PlacedFacts
  <1>4. After(j.start) \in Nat /\ After(j.start) >= j.start
    BY <1>3, AfterIsPlace
  <1> HIDE DEF n
  <1>5. n.start >= i.start /\ i.start >= i.start
    BY ONLY <1>1, <1>2, <1>3, <1>4
  <1> QED
    BY <1>2, <1>5 DEF Onwards, n

\* A number of characters is skipped.
LEMMA SkipPlaced ==
    ASSUME TextIsRead, NEW i, Placed(i), NEW n \in Nat
    PROVE  Onwards(i, Skip(source, i, n))
  <1> DEFINE IsSkip(f, m) ==
                f = [k \in 0 .. m |-> IF k = 0 THEN i ELSE utf8iterator_next(source, f[k - 1])]
             T == {m \in 0 .. n : \E f : IsSkip(f, m)}
  <1>1. 0 \in T
    <2> DEFINE f == [k \in 0 .. 0 |-> i]
    <2>1. IsSkip(f, 0) /\ f[0] = i
      OBVIOUS
    <2>2. 0 \in 0 .. n
      OBVIOUS
    <2> QED
      BY <2>1, <2>2
  <1>2. ASSUME NEW m \in 0 .. n - 1, m \in T PROVE m + 1 \in T
    <2>1. PICK f : IsSkip(f, m)
      BY <1>2
    <2> DEFINE g == [k \in 0 .. m + 1 |->
                        IF k = m + 1 THEN utf8iterator_next(source, f[m]) ELSE f[k]]
    <2>2. m \in Nat /\ m + 1 \in 0 .. n /\ m + 1 \in 0 .. m + 1 /\ m + 1 # 0
      OBVIOUS
    <2>3. ASSUME NEW k \in 0 .. m + 1
          PROVE  g[k] = IF k = 0 THEN i ELSE utf8iterator_next(source, g[k - 1])
      <3>1. CASE k = m + 1
        <4>1. m \in 0 .. m + 1 /\ m # m + 1 /\ k - 1 = m /\ k # 0
          BY <2>2, <3>1
        <4> QED
          BY <3>1, <4>1
      <3>2. CASE k # m + 1
        <4>1. k \in 0 .. m /\ (k # 0 => k - 1 \in 0 .. m + 1 /\ k - 1 # m + 1)
          BY <2>2, <3>2
        <4>2. f[k] = IF k = 0 THEN i ELSE utf8iterator_next(source, f[k - 1])
          BY <2>1, <4>1
        <4> QED
          BY <3>2, <4>1, <4>2
      <3> QED
        BY <3>1, <3>2
    <2>4. g = [k \in 0 .. m + 1 |-> g[k]]
      OBVIOUS
    <2> HIDE DEF g
    <2>5. IsSkip(g, m + 1)
      BY <2>3, <2>4
    <2> HIDE DEF IsSkip
    <2> QED
      BY <2>2, <2>5
  <1> HIDE DEF T
  <1>3. n \in T
    <2>1. \A m \in 0 .. n : m \in T
      BY <1>1, <1>2, InductionUpTo
    <2> QED
      BY <2>1
  <1>4. \E f : IsSkip(f, n)
    BY <1>3 DEF T
  <1> DEFINE h == CHOOSE f : IsSkip(f, n)
  <1>5. IsSkip(h, n)
    BY <1>4
  <1>6. Skip(source, i, n) = h[n]
    BY DEF Skip
  <1> HIDE DEF h
  <1> DEFINE U == {k \in 0 .. n : Onwards(i, h[k])}
  <1>7. 0 \in U
    <2>1. h[0] = i /\ 0 \in 0 .. n
      BY <1>5
    <2>2. Onwards(i, i)
      BY DEF Onwards, Placed, IsPlace
    <2> QED
      BY <2>1, <2>2
  <1>8. ASSUME NEW k \in 0 .. n - 1, k \in U PROVE k + 1 \in U
    <2>1. k + 1 \in 0 .. n /\ k + 1 # 0 /\ (k + 1) - 1 = k
      OBVIOUS
    <2>2. h[k + 1] = utf8iterator_next(source, h[k])
      BY <1>5, <2>1
    <2>3. Onwards(i, h[k])
      BY <1>8
    <2> QED
      BY <2>1, <2>2, <2>3, OnwardsNext
  <1> HIDE DEF U
  <1>9. n \in U
    <2>1. \A k \in 0 .. n : k \in U
      BY <1>7, <1>8, InductionUpTo
    <2> QED
      BY <2>1
  <1> QED
    BY <1>6, <1>9 DEF U

\* The digits are read, and nothing in front of them.
LEMMA NumberRead ==
    ASSUME TextIsRead, NEW i, Placed(i), NEW hex
    PROVE  Onwards(i, ReadNumber(source, i, hex).it)
  <1> DEFINE N == Len(source)
             base == IF hex THEN 16 ELSE 10
             Read(r) ==
                [it        |-> utf8iterator_next(source, r.it),
                 codepoint |-> (r.codepoint * base + DigitValue[r.it.current]) % WordSize]
             Turn(r) == IF ~IsDigit(r.it.current, hex) THEN r ELSE Read(r)
             b == [it |-> i, codepoint |-> 0]
             IsRead(f, m) == f = [k \in 0 .. m |-> IF k = 0 THEN b ELSE Turn(f[k - 1])]
             T == {m \in 0 .. N : \E f : IsRead(f, m)}
  <1>0. N \in Nat
    BY SourceFacts
  <1> HIDE DEF N
  <1>1. 0 \in T
    <2> DEFINE f == [k \in 0 .. 0 |-> b]
    <2> HIDE DEF Turn, b
    <2>1. IsRead(f, 0)
      OBVIOUS
    <2>2. 0 \in 0 .. N
      BY <1>0
    <2> HIDE DEF IsRead, f
    <2> QED
      BY <2>1, <2>2
  <1>2. ASSUME NEW m \in 0 .. N - 1, m \in T PROVE m + 1 \in T
    <2> HIDE DEF Turn, b
    <2>1. PICK f : IsRead(f, m)
      BY <1>2
    <2> DEFINE g == [k \in 0 .. m + 1 |-> IF k = m + 1 THEN Turn(f[m]) ELSE f[k]]
    <2>2. m \in Nat /\ m + 1 \in 0 .. N
      BY <1>0
    <2>3. ASSUME NEW k \in 0 .. m + 1
          PROVE  g[k] = IF k = 0 THEN b ELSE Turn(g[k - 1])
      <3>1. CASE k = m + 1
        <4>1. m \in 0 .. m + 1 /\ m # m + 1 /\ k - 1 = m /\ k # 0
          BY <2>2, <3>1
        <4> QED
          BY <3>1, <4>1
      <3>2. CASE k # m + 1
        <4>1. k \in 0 .. m /\ (k # 0 => k - 1 \in 0 .. m + 1 /\ k - 1 # m + 1)
          BY <2>2, <3>2
        <4>2. f[k] = IF k = 0 THEN b ELSE Turn(f[k - 1])
          BY <2>1, <4>1
        <4> QED
          BY <3>2, <4>1, <4>2
      <3> QED
        BY <3>1, <3>2
    <2>4. g = [k \in 0 .. m + 1 |-> g[k]]
      OBVIOUS
    <2> HIDE DEF g
    <2>5. IsRead(g, m + 1)
      BY <2>3, <2>4
    <2> HIDE DEF IsRead
    <2> QED
      BY <2>2, <2>5
  <1> HIDE DEF T
  <1>3. N \in T
    <2>1. \A m \in 0 .. N : m \in T
      BY <1>0, <1>1, <1>2, InductionUpTo
    <2> QED
      BY <1>0, <2>1
  <1>4. \E f : IsRead(f, N)
    BY <1>3 DEF T
  <1> DEFINE h == CHOOSE f : IsRead(f, N)
  <1>5. IsRead(h, N)
    BY <1>4
  <1>6. ReadNumber(source, i, hex) = h[N]
    BY DEF ReadNumber, N
  <1> HIDE DEF h
  <1> DEFINE U == {k \in 0 .. N : Onwards(i, h[k].it)}
  <1>7. 0 \in U
    <2>1. h[0] = b /\ 0 \in 0 .. N
      BY <1>0, <1>5
    <2>2. Onwards(i, i)
      BY DEF Onwards, Placed, IsPlace
    <2> QED
      BY <2>1, <2>2
  <1>8. ASSUME NEW k \in 0 .. N - 1, k \in U PROVE k + 1 \in U
    <2>1. k + 1 \in 0 .. N /\ k + 1 # 0 /\ (k + 1) - 1 = k
      BY <1>0
    <2>2. h[k + 1] = Turn(h[k])
      <3> HIDE DEF Turn, b
      <3> QED
        BY <1>5, <2>1
    <2>3. Onwards(i, h[k].it)
      BY <1>8
    <2>4. Turn(h[k]).it \in {h[k].it, utf8iterator_next(source, h[k].it)}
      OBVIOUS
    <2> HIDE DEF Turn
    <2> QED
      BY <2>1, <2>2, <2>3, <2>4, OnwardsNext
  <1> HIDE DEF U
  <1>9. N \in U
    <2>1. \A k \in 0 .. N : k \in U
      BY <1>0, <1>7, <1>8, InductionUpTo
    <2> QED
      BY <1>0, <2>1
  <1> QED
    BY <1>6, <1>9 DEF U

-----------------------------------------------------------------------------
(***************************************************************************)
(* Character references.  The iterator goes on, or back to the ampersand.  *)
(***************************************************************************)
Referred(i, found) ==
    Onwards(i, found.it) /\ (found.chars = <<>> \/ Len(found.chars) \in 1 .. 2)

\* No reference: the iterator is back at the ampersand, and reads it again.
LEMMA NoReferenceBack ==
    ASSUME TextIsRead, NEW i, Placed(i), NEW j, Onwards(i, j), j.mark = i.start
    PROVE  Referred(i, NoReference(source, j))
  <1> DEFINE r == utf8iterator_reset(source, j)
  <1>1. Placed(j) /\ IsPlace(j.mark) /\ i.start \in Nat
    BY PlacedFacts DEF Onwards
  <1>2. Placed(r) /\ r.start = i.start
    BY <1>1, ResetPlaced
  <1> HIDE DEF r
  <1>3. Onwards(i, r)
    BY <1>1, <1>2 DEF Onwards
  <1> QED
    BY <1>3 DEF Referred, NoReference, Found, r

\* A number, from where its digits should be.
LEMMA NumberPlaced ==
    ASSUME TextIsRead, NEW i, Placed(i), NEW j, Onwards(i, j), j.mark = i.start, NEW hex
    PROVE  Referred(i, Number(source, j, hex))
  <1> DEFINE number == ReadNumber(source, j, hex)
             n      == utf8iterator_next(source, number.it)
  <1>1. Placed(j) /\ j.start >= i.start /\ i.start \in Nat /\ j.start \in Nat
    BY PlacedFacts DEF Onwards
  <1>2. Onwards(j, number.it)
    BY <1>1, NumberRead
  <1> HIDE DEF number
  <1>3. Onwards(i, number.it)
    BY <1>1, <1>2, PlacedFacts DEF Onwards
  <1>4. Onwards(i, n)
    BY <1>3, OnwardsNext
  <1> HIDE DEF n
  <1>5. ASSUME NEW c PROVE <<c>> # <<>> /\ Len(<<c>>) = 1
    OBVIOUS
  <1>6. Referred(i, NumberEnds(source, number.it, number.codepoint))
    <2> DEFINE c == NumericCharacter(number.codepoint)
               to == IF number.it.current = ";" THEN n ELSE number.it
    <2>1. NumberEnds(source, number.it, number.codepoint) = [it |-> to, chars |-> <<c>>]
      BY DEF NumberEnds, Found, n
    <2>2. Onwards(i, to)
      BY <1>3, <1>4
    <2> HIDE DEF c, to
    <2> QED
      BY <1>5, <2>1, <2>2 DEF Referred
  <1>7. Referred(i, NoReference(source, j))
    BY NoReferenceBack
  <1> QED
    BY <1>6, <1>7 DEF Number, number

\* A decimal or hexadecimal reference.
LEMMA NumericPlaced ==
    ASSUME TextIsRead, NEW i, Placed(i), NEW j, Onwards(i, j), j.mark = i.start
    PROVE  Referred(i, consume_numeric_ref(source, j))
  <1> DEFINE n  == utf8iterator_next(source, j)
             nn == utf8iterator_next(source, n)
  <1>1. Onwards(i, n) /\ n.mark = i.start
    BY OnwardsNext, NextPlaced DEF Onwards
  <1> HIDE DEF n
  <1>2. Onwards(i, nn) /\ nn.mark = i.start
    BY <1>1, OnwardsNext, NextPlaced DEF Onwards
  <1> HIDE DEF nn
  <1>3. Referred(i, Number(source, nn, TRUE)) /\ Referred(i, Number(source, n, FALSE))
    BY <1>1, <1>2, NumberPlaced
  <1> QED
    BY <1>3 DEF consume_numeric_ref, NumberIn, n, nn

\* A named reference, which is one, or is text up to where the name ends.
LEMMA NamedPlaced ==
    ASSUME TextIsRead, NEW i, Placed(i), NEW j, Onwards(i, j), j.mark = i.start, NEW is_in_attribute
    PROVE  Referred(i, consume_named_ref(source, j, is_in_attribute))
  <1> DEFINE names == NamesAt(source, j)
             name  == Longest(names)
  <1>1. Referred(i, NoReference(source, j))
    BY NoReferenceBack
  <1>2. CASE names = {}
    BY <1>1, <1>2 DEF consume_named_ref
  <1>3. ASSUME names # {}
        PROVE  Referred(i, Found(Skip(source, j, Len(name)), Entities[name]))
    <2> DEFINE lengths == {Len(other) : other \in names}
    <2>1. ASSUME NEW other \in names PROVE Len(other) \in 1 .. Len(source)
      <3>1. other \in Seq(STRING) /\ other # <<>> /\ Matches(source, j, other)
        BY EntitiesAssumption DEF NamesAt
      <3>2. Len(other) \in Nat /\ Len(other) # 0
        BY <3>1
      <3>3. j.start \in Nat /\ j.start >= 1 /\ Len(source) \in Nat
        BY PlacedFacts, SourceFacts DEF Onwards
      <3>4. j.start + Len(other) <= Len(source) + 1
        BY <3>1 DEF Matches
      <3> QED
        BY ONLY <3>2, <3>3, <3>4
    <2>2. lengths \in SUBSET (1 .. Len(source)) /\ lengths # {}
      BY <1>3, <2>1
    <2> HIDE DEF names
    <2>3. Max(lengths) \in lengths /\ \A y \in lengths : y <= Max(lengths)
      <3> HIDE DEF lengths
      <3> QED
        BY <2>2, SourceFacts, MaxOfPositions
    <2>4. \E longest \in names : \A other \in names : Len(other) <= Len(longest)
      BY <2>3
    <2>5. name \in names
      BY <2>4 DEF Longest
    <2>6. name \in DOMAIN Entities
      BY <2>5 DEF names, NamesAt
    <2> HIDE DEF name
    <2>7. Len(name) \in Nat /\ Len(Entities[name]) \in 1 .. 2
      BY <2>6, EntitiesAssumption
    <2> DEFINE to == Skip(source, j, Len(name))
    <2>8. Placed(to) /\ to.start >= j.start
      BY <2>7, SkipPlaced DEF Onwards
    <2> HIDE DEF to
    <2>9. Onwards(i, to)
      BY <2>8, PlacedFacts DEF Onwards
    <2> QED
      BY <2>7, <2>9 DEF Referred, Found, to
  <1> QED
    BY <1>1, <1>2, <1>3 DEF consume_named_ref

\* gumbo_consume_char_ref, whatever is behind the ampersand.
LEMMA ReferencePlaced ==
    ASSUME TextIsRead, NEW i, Placed(i), NEW allowed, NEW is_in_attribute
    PROVE  Referred(i, gumbo_consume_char_ref(source, i, allowed, is_in_attribute))
  <1> DEFINE m == utf8iterator_mark(i)
             n == utf8iterator_next(source, m)
  <1>1. Placed(m) /\ m.mark = i.start /\ m.start = i.start
    BY MarkPlaced
  <1>2. Onwards(i, m)
    BY <1>1, PlacedFacts DEF Onwards
  <1> HIDE DEF m
  <1>3. Onwards(i, n) /\ n.mark = i.start
    BY <1>1, <1>2, OnwardsNext, NextPlaced
  <1> HIDE DEF n
  <1>4. /\ Referred(i, NoReference(source, n))
        /\ Referred(i, consume_numeric_ref(source, n))
        /\ Referred(i, consume_named_ref(source, n, is_in_attribute))
    BY <1>3, NoReferenceBack, NumericPlaced, NamedPlaced
  <1> QED
    BY <1>4 DEF gumbo_consume_char_ref, Reference, m, n

-----------------------------------------------------------------------------
(***************************************************************************)
(* The record of the tokenizer.                                            *)
(***************************************************************************)
Core == {"it", "reconsume", "tmp", "emit", "from", "doctype", "owned", "fault", "token"}

Shaped(k) == k = [f \in Fields |-> k[f]]

\* What differs is neither what is read, nor what is kept or owned.
Like(j, k) == Shaped(j) /\ \A f \in Core : j[f] = k[f]

\* What is the same in a record that is like another one.
LEMMA LikeFields ==
    ASSUME NEW j, NEW k, Like(j, k)
    PROVE  /\ j = [f \in Fields |-> j[f]] /\ j.it = k.it /\ j.reconsume = k.reconsume
           /\ j.tmp = k.tmp /\ j.emit = k.emit /\ j.from = k.from /\ j.doctype = k.doctype
           /\ j.owned = k.owned /\ j.fault = k.fault /\ j.token = k.token
  BY DEF Like, Core, Shaped

\* So whatever the invariant says of the one holds for the other.
LEMMA LikeKeeps ==
    ASSUME NEW j, NEW k, Like(j, k)
    PROVE  /\ Sane(k) => Sane(j)
           /\ InDoctype(k) => InDoctype(j)
           /\ Clean(k) => Clean(j)
           /\ InTag(k) => InTag(j)
           /\ BehindLt(k) => BehindLt(j)
           /\ AtText(k) => AtText(j)
           /\ Traced(k) => Traced(j)
  <1>1. /\ j = [f \in Fields |-> j[f]] /\ j.it = k.it /\ j.reconsume = k.reconsume
        /\ j.tmp = k.tmp /\ j.emit = k.emit /\ j.from = k.from /\ j.doctype = k.doctype
        /\ j.owned = k.owned /\ j.fault = k.fault /\ j.token = k.token
    BY LikeFields
  <1>2. Sane(k) => Sane(j)
    BY <1>1 DEF Sane
  <1>3. BehindLt(k) => BehindLt(j)
    BY <1>1 DEF BehindLt
  <1>4. AtText(k) => AtText(j)
    BY <1>1 DEF AtText
  <1>5. Traced(k) => Traced(j)
    BY <1>1 DEF Traced, IsTrail
  <1> QED
    BY <1>1, <1>2, <1>3, <1>4, <1>5 DEF InDoctype, Clean, InTag

\* Two changes that keep a record like the first one, one after the other.
LEMMA LikeTransitive ==
    ASSUME NEW i, NEW j, NEW k, Like(i, j), Like(j, k)
    PROVE  Like(i, k)
  BY DEF Like

\* A sane record has all its fields, and no assert has failed.
LEMMA SaneShaped ==
    ASSUME NEW k, Sane(k)
    PROVE  Shaped(k) /\ Like(k, k) /\ k.fault = FALSE
  BY DEF Sane, Shaped, Like

\* An assert that holds changes nothing.
LEMMA RequiresHolds ==
    ASSUME NEW k, Shaped(k), k.fault = FALSE, NEW condition, condition
    PROVE  Requires(k, condition) = k
  <1>1. [k EXCEPT !.fault = FALSE] = k
    BY DEF Shaped, Fields
  <1>2. (k.fault \/ ~condition) = FALSE
    OBVIOUS
  <1>3. Requires(k, condition) = [k EXCEPT !.fault = k.fault \/ ~condition]
    BY DEF Requires, Shaped, Fields
  <1> QED
    BY <1>1, <1>2, <1>3

\* To keep the character for the next state changes nothing else.
LEMMA ReconsumedSane ==
    ASSUME NEW k, Sane(k)
    PROVE  /\ Sane(Reconsumed(k))
           /\ InDoctype(k) => InDoctype(Reconsumed(k))
           /\ Clean(k) => Clean(Reconsumed(k))
           /\ InTag(k) => InTag(Reconsumed(k))
           /\ AtText(k) => AtText(Reconsumed(k))
           /\ Reconsumed(k).reconsume = TRUE
           /\ Reconsumed(k).it = k.it /\ Reconsumed(k).tmp = k.tmp
           /\ \A c : IsTrail(c, k) => IsTrail(c, Reconsumed(k))
  <1> DEFINE j == Reconsumed(k)
  <1>1. /\ j = [f \in Fields |-> j[f]] /\ j.it = k.it /\ j.reconsume = TRUE
        /\ j.tmp = k.tmp /\ j.emit = k.emit /\ j.from = k.from /\ j.doctype = k.doctype
        /\ j.owned = k.owned /\ j.fault = k.fault /\ j.token = k.token
    BY DEF Sane, Reconsumed, Fields
  <1> HIDE DEF j
  <1>2. Sane(j)
    BY <1>1 DEF Sane
  <1>3. BehindLt(k) => BehindLt(j)
    BY <1>1 DEF BehindLt
  <1>4. AtText(k) => AtText(j)
    BY <1>1 DEF AtText
  <1>5. \A c : IsTrail(c, k) => IsTrail(c, j)
    BY <1>1 DEF IsTrail
  <1> QED
    BY <1>1, <1>2, <1>3, <1>4, <1>5 DEF InDoctype, Clean, InTag, j

\* The temporary buffer is emptied, and its text will begin here.
LEMMA ClearSane ==
    ASSUME TextIsRead, NEW k, InDoctype(k)
    PROVE  LET j == clear_temporary_buffer(k)
           IN  /\ InDoctype(j) /\ (Clean(k) => Clean(j)) /\ (BehindLt(k) => BehindLt(j))
               /\ j.tmp = <<>> /\ j.script = <<>> /\ j.reconsume = k.reconsume
               /\ j.it.start = k.it.start /\ j.it.current = k.it.current
               /\ j.from = k.from /\ j.token = k.token /\ j.it.mark = j.it.start
  <1> DEFINE j == clear_temporary_buffer(k)
             m == utf8iterator_mark(k.it)
  <1>1. Requires(k, k.emit = NotEmitting) = k
    BY SaneShaped, RequiresHolds DEF InDoctype
  <1>2. j = [k EXCEPT !.it = m, !.tmp = <<>>, !.script = <<>>]
    BY <1>1 DEF clear_temporary_buffer
  <1>3. Sane(k)
    BY DEF InDoctype
  <1>4. /\ j = [f \in Fields |-> j[f]] /\ j.it = m /\ j.reconsume = k.reconsume
        /\ j.tmp = <<>> /\ j.script = <<>> /\ j.emit = k.emit /\ j.from = k.from
        /\ j.doctype = k.doctype /\ j.owned = k.owned /\ j.fault = k.fault /\ j.token = k.token
    <2> HIDE DEF m
    <2> QED
      BY <1>2, <1>3 DEF Sane, Fields
  <1>5. /\ Placed(m) /\ m.start = k.it.start /\ m.current = k.it.current /\ m.mark = k.it.start
    BY <1>3, MarkPlaced DEF Sane
  <1> HIDE DEF j, m
  <1>6. <<>> \in Seq(Chars)
    OBVIOUS
  <1>7. Sane(j)
    BY <1>3, <1>4, <1>5, <1>6 DEF Sane
  <1>8. BehindLt(k) => BehindLt(j)
    BY <1>4, <1>5 DEF BehindLt
  <1>9. InDoctype(j) /\ (Clean(k) => Clean(j))
    BY <1>4, <1>7 DEF InDoctype, Clean
  <1> QED
    BY <1>4, <1>5, <1>8, <1>9 DEF j

\* Characters are appended to it.
LEMMA AppendSane ==
    ASSUME NEW k, Sane(k), NEW chars \in Seq(Chars)
    PROVE  LET j == append_to_temporary_buffer(k, chars)
           IN  /\ Sane(j) /\ (InDoctype(k) => InDoctype(j)) /\ (Clean(k) => Clean(j))
               /\ (InTag(k) => InTag(j)) /\ (BehindLt(k) => BehindLt(j)) /\ (AtText(k) => AtText(j))
               /\ j.tmp = k.tmp \o chars /\ j.it = k.it /\ j.reconsume = k.reconsume
               /\ j.from = k.from /\ j.script = k.script /\ j.is_start = k.is_start
               /\ j.value_state = k.value_state /\ j.lexer = k.lexer
  <1> DEFINE j == append_to_temporary_buffer(k, chars)
  <1>1. k.tmp \o chars \in Seq(Chars)
    BY DEF Sane
  <1>2. /\ j = [f \in Fields |-> j[f]] /\ j.it = k.it /\ j.reconsume = k.reconsume
        /\ j.tmp = k.tmp \o chars /\ j.emit = k.emit /\ j.from = k.from /\ j.doctype = k.doctype
        /\ j.owned = k.owned /\ j.fault = k.fault /\ j.token = k.token /\ j.script = k.script
        /\ j.is_start = k.is_start /\ j.value_state = k.value_state /\ j.lexer = k.lexer
    BY DEF Sane, append_to_temporary_buffer, Fields
  <1> HIDE DEF j
  <1>3. Sane(j)
    BY <1>1, <1>2 DEF Sane
  <1>4. BehindLt(k) => BehindLt(j)
    BY <1>2 DEF BehindLt
  <1>5. AtText(k) => AtText(j)
    BY <1>2 DEF AtText
  <1> QED
    BY <1>2, <1>3, <1>4, <1>5 DEF InDoctype, Clean, InTag, j

\* The text of a token: it ends where the iterator goes to, but for a carriage return.
LEMMA TokenUpToSane ==
    ASSUME TextIsRead, NEW k, Sane(k), NEW i, Placed(i)
    PROVE  LET j == TokenUpTo(k, i)
           IN  /\ Sane(j) /\ j.it = i /\ j.from = i.start /\ j.reconsume = k.reconsume
               /\ j.tmp = k.tmp /\ j.emit = k.emit /\ j.doctype = k.doctype /\ j.owned = k.owned
               /\ j.token.from = k.from /\ j.token.to = WithoutReturn(k.from, i.start)
               /\ j.lexer = k.lexer
  <1> DEFINE p == [k EXCEPT !.it = i]
             r == reset_token_start_point(p)
             j == TokenUpTo(k, i)
             to == WithoutReturn(k.from, i.start)
  <1>1. /\ p = [f \in Fields |-> p[f]] /\ p.it = i
        /\ \A f \in Fields \ {"it"} : p[f] = k[f]
    BY DEF Sane, Fields
  <1> HIDE DEF p
  <1>2. /\ r = [f \in Fields |-> r[f]] /\ r.from = i.start
        /\ \A f \in Fields \ {"from"} : r[f] = p[f]
    BY <1>1 DEF reset_token_start_point, Fields
  <1>3. j = [r EXCEPT !.token.from = k.from, !.token.to = to]
    BY DEF TokenUpTo, p
  <1> HIDE DEF r, to
  <1>4. r.token = k.token /\ k.token = [f \in TokenFields |-> k.token[f]]
    BY <1>1, <1>2 DEF Sane, Fields
  <1> DEFINE t == [r.token EXCEPT !.from = k.from, !.to = to]
  <1>5. /\ j = [f \in Fields |-> j[f]] /\ j.token = [f \in TokenFields |-> j.token[f]]
        /\ j.token.from = k.from /\ j.token.to = to
        /\ \A f \in Fields \ {"token"} : j[f] = r[f]
    <2>1. t = [f \in TokenFields |-> t[f]] /\ t.from = k.from /\ t.to = to
      BY <1>4 DEF TokenFields
    <2>2. j = [r EXCEPT !.token = t]
      BY <1>3
    <2> HIDE DEF j, t
    <2> QED
      BY <1>2, <2>1, <2>2 DEF Fields
  <1> HIDE DEF j
  <1>6. /\ j.it = i /\ j.from = i.start /\ j.reconsume = k.reconsume
        /\ j.tmp = k.tmp /\ j.emit = k.emit /\ j.doctype = k.doctype /\ j.owned = k.owned
        /\ j.fault = k.fault /\ j.lexer = k.lexer
    BY <1>1, <1>2, <1>5 DEF Fields
  <1>7. i.start \in 1 .. Len(source) + 1
    BY PlacedFacts
  <1>8. Sane(j)
    BY <1>5, <1>6, <1>7 DEF Sane
  <1> QED
    BY <1>5, <1>6, <1>8 DEF j, to

-----------------------------------------------------------------------------
(***************************************************************************)
(* Tokens.                                                                 *)
(***************************************************************************)

\* The text before the token was closed; the iterator goes on unless its character is kept.
LEMMA FinishSane ==
    ASSUME TextIsRead, NEW k, Sane(k)
    PROVE  LET j == finish_token(k)
           IN  /\ Sane(j) /\ j.from = j.it.start /\ j.it.mark = k.it.mark
               /\ j.it.start = (IF k.reconsume THEN k.it.start ELSE After(k.it.start))
               /\ j.tmp = k.tmp /\ j.emit = k.emit /\ j.doctype = k.doctype /\ j.owned = k.owned
               /\ j.token.from = k.from /\ j.token.to = WithoutReturn(k.from, j.it.start)
               /\ j.lexer = k.lexer /\ j.reconsume = k.reconsume
  <1> DEFINE n == utf8iterator_next(source, k.it)
             i == IF k.reconsume THEN k.it ELSE n
  <1>1. Placed(k.it) /\ k.reconsume \in BOOLEAN
    BY DEF Sane
  <1>2. Placed(n) /\ n.start = After(k.it.start) /\ n.mark = k.it.mark
    BY <1>1, NextPlaced
  <1> HIDE DEF n
  <1>3. /\ Placed(i) /\ i.start = (IF k.reconsume THEN k.it.start ELSE After(k.it.start))
        /\ i.mark = k.it.mark
    BY <1>1, <1>2
  <1>4. finish_token(k) = TokenUpTo(k, i)
    BY DEF finish_token, n
  <1> HIDE DEF i
  <1> QED
    BY <1>3, <1>4, TokenUpToSane

\* A tokenizer like k, with another token.
WithToken(j, k) ==
    /\ j = [f \in Fields |-> j[f]] /\ j.token = [f \in TokenFields |-> j.token[f]]
    /\ \A f \in Fields \ {"token"} : j[f] = k[f]

\* To fill in the token changes nothing else.
LEMMA WithTokenSane ==
    ASSUME NEW j, NEW k, Sane(k), WithToken(j, k)
    PROVE  /\ Sane(j) /\ j.it = k.it /\ j.reconsume = k.reconsume /\ j.tmp = k.tmp
           /\ j.emit = k.emit /\ j.from = k.from /\ j.doctype = k.doctype /\ j.owned = k.owned
           /\ j.lexer = k.lexer
  <1>1. /\ j.it = k.it /\ j.reconsume = k.reconsume /\ j.tmp = k.tmp /\ j.fault = k.fault
        /\ j.emit = k.emit /\ j.from = k.from /\ j.doctype = k.doctype /\ j.owned = k.owned
        /\ j.lexer = k.lexer
    BY DEF WithToken, Fields
  <1> QED
    BY <1>1 DEF Sane, WithToken

\* emit_char: the next token begins where this one ends.
LEMMA EmitCharSane ==
    ASSUME TextIsRead, NEW k, Sane(k), NEW c
    PROVE  LET j == emit_char(k, c)
           IN  /\ Sane(j) /\ j.from = j.it.start /\ j.it.mark = k.it.mark
               /\ j.it.start = (IF k.reconsume THEN k.it.start ELSE After(k.it.start))
               /\ j.tmp = k.tmp /\ j.emit = k.emit /\ j.doctype = k.doctype /\ j.owned = k.owned
               /\ j.lexer = k.lexer /\ j.reconsume = k.reconsume
  <1> DEFINE ty == get_char_token_type(k.cdata, c)
             t == [NoToken EXCEPT !.type = ty, !.char = c]
             j == [k EXCEPT !.token = t]
  <1>1. t = [f \in TokenFields |-> t[f]]
    <2> HIDE DEF ty
    <2> QED
      BY DEF NoToken, TokenFields
  <1>2. emit_char(k, c) = finish_token(j)
    BY DEF emit_char
  <1> HIDE DEF t
  <1>3. WithToken(j, k)
    BY <1>1 DEF Sane, WithToken, Fields
  <1> HIDE DEF j
  <1>4. /\ Sane(j) /\ j.it = k.it /\ j.reconsume = k.reconsume /\ j.tmp = k.tmp
        /\ j.emit = k.emit /\ j.from = k.from /\ j.doctype = k.doctype /\ j.owned = k.owned
        /\ j.lexer = k.lexer
    BY <1>3, WithTokenSane
  <1> QED
    BY <1>2, <1>4, FinishSane

\* A token is handed over, and nothing is kept but characters that are still to be emitted.
Done(k) ==
    Sane(k) /\ k.owned = {} /\ k.doctype = doc_type_state_init /\ k.from = k.it.start /\ Replays(k)

\* One less-than sign reads as it.
LEMMA StartsHere ==
    ASSUME TextIsRead, NEW k, Sane(k), k.from = k.it.start
    PROVE  AtText(k)
  <1>1. Placed(k.it)
    BY DEF Sane
  <1>2. k.it.current = "<" => source[k.it.start] = "<" /\ k.it.start <= k.it.start
    BY <1>1, PlacedFacts
  <1> QED
    BY <1>2 DEF AtText

\* A handler that has nothing else may return a character.
LEMMA EmitCharDone ==
    ASSUME TextIsRead, NEW k, Clean(k), NEW c
    PROVE  Done(emit_char(k, c))
  <1> DEFINE j == emit_char(k, c)
  <1>1. Sane(k) /\ k.emit = NotEmitting /\ k.owned = {} /\ k.doctype = doc_type_state_init
    BY DEF Clean, InDoctype
  <1>2. /\ Sane(j) /\ j.from = j.it.start
        /\ j.emit = k.emit /\ j.doctype = k.doctype /\ j.owned = k.owned
    BY <1>1, EmitCharSane
  <1> HIDE DEF j
  <1> QED
    BY <1>1, <1>2 DEF Done, Replays, j

\* The current character, or the replacement of a null.
LEMMA EmitTextDone ==
    ASSUME TextIsRead, NEW k, Clean(k)
    PROVE  Done(emit_current_char(k)) /\ Done(emit_replacement_char(k))
  BY EmitCharDone DEF emit_current_char, emit_replacement_char

\* The next character of the temporary buffer is the one that is read.
LEMMA MaybeEmitSane ==
    ASSUME TextIsRead, NEW k, Sane(k), k.emit \in 1 .. Len(k.tmp),
           NEW c, IsTrail(c, k), c[k.emit - 1] = k.it.start
    PROVE  LET j == maybe_emit_from_temporary_buffer(k)
           IN  /\ Sane(j) /\ j.from = j.it.start /\ j.doctype = k.doctype /\ j.owned = k.owned
               /\ j.lexer = k.lexer /\ j.reconsume = k.reconsume /\ Replays(j)
  <1> DEFINE a == [k EXCEPT !.reconsume = FALSE]
             e == emit_char(a, k.tmp[k.emit])
             j == [e EXCEPT !.emit = k.emit + 1, !.reconsume = k.reconsume]
  <1>0. k.tmp \in Seq(Chars) /\ Len(k.tmp) \in Nat /\ DOMAIN k.tmp = 1 .. Len(k.tmp)
    BY DEF Sane
  <1>1. k.tmp[k.emit] = k.it.current
    <2>1. k.tmp[k.emit] = CharAt(c[k.emit - 1])
      BY DEF IsTrail
    <2>2. k.it.current = CharAt(k.it.start)
      BY PlacedFacts DEF Sane
    <2> QED
      BY <2>1, <2>2
  <1>2. Requires(k, k.tmp[k.emit] = k.it.current) = k
    BY <1>1, SaneShaped, RequiresHolds
  <1>3. /\ Sane(a) /\ a.it = k.it /\ a.reconsume = FALSE /\ a.tmp = k.tmp
        /\ a.emit = k.emit /\ a.from = k.from /\ a.doctype = k.doctype /\ a.owned = k.owned
        /\ a.lexer = k.lexer
    <2>1. /\ a = [f \in Fields |-> a[f]] /\ a.it = k.it /\ a.reconsume = FALSE /\ a.tmp = k.tmp
          /\ a.emit = k.emit /\ a.from = k.from /\ a.doctype = k.doctype /\ a.owned = k.owned
          /\ a.lexer = k.lexer /\ a.fault = k.fault /\ a.token = k.token
      BY DEF Sane, Fields
    <2> HIDE DEF a
    <2> QED
      BY <2>1 DEF Sane
  <1> HIDE DEF a
  <1>4. /\ Sane(e) /\ e.from = e.it.start /\ e.it.mark = k.it.mark
        /\ e.it.start = After(k.it.start) /\ e.tmp = k.tmp /\ e.emit = k.emit
        /\ e.doctype = k.doctype /\ e.owned = k.owned /\ e.lexer = k.lexer
    BY <1>3, EmitCharSane
  <1>5. maybe_emit_from_temporary_buffer(k) = j
    <2>1. k.emit \in DOMAIN k.tmp
      BY <1>0
    <2>2. maybe_emit_from_temporary_buffer(k) = [e EXCEPT !.emit = @ + 1, !.reconsume = k.reconsume]
      BY <1>2, <2>1 DEF maybe_emit_from_temporary_buffer, a
    <2> HIDE DEF e
    <2>3. e = [f \in Fields |-> e[f]] /\ e.emit = k.emit
      BY <1>4 DEF Sane
    <2> QED
      BY <2>2, <2>3 DEF Fields
  <1> HIDE DEF e
  <1>6. /\ j = [f \in Fields |-> j[f]] /\ j.it = e.it /\ j.reconsume = k.reconsume /\ j.tmp = k.tmp
        /\ j.emit = k.emit + 1 /\ j.from = e.from /\ j.doctype = k.doctype /\ j.owned = k.owned
        /\ j.lexer = k.lexer /\ j.fault = e.fault /\ j.token = e.token
    BY <1>4 DEF Sane, Fields
  <1> HIDE DEF j
  <1>7. Sane(j)
    <2>1. k.reconsume \in BOOLEAN
      BY DEF Sane
    <2> QED
      BY <1>4, <1>6, <2>1 DEF Sane
  <1>8. IsTrail(c, j)
    BY <1>4, <1>6 DEF IsTrail
  <1>9. c[j.emit - 1] = j.it.start
    <2>1. c[k.emit] = After(c[k.emit - 1])
      BY DEF IsTrail
    <2>2. (k.emit + 1) - 1 = k.emit
      BY <1>0
    <2> QED
      BY <1>4, <1>6, <2>1, <2>2
  <1>10. Replays(j)
    <2>1. j.emit \in Nat
      BY <1>0, <1>6
    <2> QED
      BY <1>8, <1>9, <2>1 DEF Replays
  <1> QED
    BY <1>4, <1>5, <1>6, <1>7, <1>10

\* The temporary buffer is the text from its mark on.
Trailed(k) == \E c : IsTrail(c, k)

\* emit_temporary_buffer: the text from the mark on is read again, from its start.
LEMMA EmitTemporaryDone ==
    ASSUME TextIsRead, NEW k, Sane(k), k.owned = {}, k.doctype = doc_type_state_init,
           Trailed(k), k.tmp # <<>>
    PROVE  Done(emit_temporary_buffer(k))
  <1> DEFINE r == utf8iterator_reset(source, k.it)
             j == [k EXCEPT !.it = r, !.emit = 1]
             m == maybe_emit_from_temporary_buffer(j)
  <1>1. PICK c : IsTrail(c, k)
    BY DEF Trailed
  <1>2. Placed(k.it) /\ IsPlace(k.it.mark)
    BY <1>1 DEF Sane, IsTrail
  <1>3. Placed(r) /\ r.start = k.it.mark /\ r.mark = k.it.mark
    BY <1>2, ResetPlaced
  <1> HIDE DEF r
  <1>4. /\ j = [f \in Fields |-> j[f]] /\ j.it = r /\ j.reconsume = k.reconsume /\ j.tmp = k.tmp
        /\ j.emit = 1 /\ j.from = k.from /\ j.doctype = k.doctype /\ j.owned = k.owned
        /\ j.fault = k.fault /\ j.token = k.token
    BY DEF Sane, Fields
  <1>5. emit_temporary_buffer(k) = m
    BY DEF emit_temporary_buffer, r
  <1> HIDE DEF j
  <1>6. Sane(j)
    BY <1>3, <1>4 DEF Sane
  <1>7. IsTrail(c, j) /\ c[0] = k.it.mark
    BY <1>1, <1>3, <1>4 DEF IsTrail
  <1>8. j.emit \in 1 .. Len(j.tmp)
    <2>1. Len(k.tmp) \in Nat /\ Len(k.tmp) # 0
      BY DEF Sane
    <2> QED
      BY <1>4, <2>1
  <1>9. j.emit - 1 = 0
    BY <1>4
  <1>10. c[j.emit - 1] = j.it.start
    BY <1>3, <1>4, <1>7, <1>9
  <1>11. /\ Sane(m) /\ m.from = m.it.start /\ m.doctype = j.doctype /\ m.owned = j.owned
         /\ Replays(m)
    BY <1>6, <1>7, <1>8, <1>10, MaybeEmitSane
  <1> HIDE DEF m
  <1> QED
    BY <1>4, <1>5, <1>11 DEF Done

\* emit_comment, which empties the temporary buffer.
LEMMA EmitCommentDone ==
    ASSUME TextIsRead, NEW k, Clean(k)
    PROVE  Done(emit_comment(k))
  <1> DEFINE t == [NoToken EXCEPT !.type = "comment", !.text = k.tmp]
             w == [k EXCEPT !.token = t]
             c == clear_temporary_buffer(w)
             j == finish_token(c)
  <1>1. t = [f \in TokenFields |-> t[f]]
    BY DEF NoToken, TokenFields
  <1>2. Sane(k) /\ k.emit = NotEmitting /\ k.owned = {} /\ k.doctype = doc_type_state_init
    BY DEF Clean, InDoctype
  <1> HIDE DEF t
  <1>3. WithToken(w, k)
    BY <1>1, <1>2 DEF Sane, WithToken, Fields
  <1> HIDE DEF w
  <1>4. Clean(w)
    BY <1>2, <1>3, WithTokenSane DEF Clean, InDoctype
  <1>5. Clean(c)
    BY <1>4, ClearSane DEF Clean
  <1> HIDE DEF c
  <1>6. Sane(c) /\ c.emit = NotEmitting /\ c.owned = {} /\ c.doctype = doc_type_state_init
    BY <1>5 DEF Clean, InDoctype
  <1>7. /\ Sane(j) /\ j.from = j.it.start
        /\ j.emit = c.emit /\ j.doctype = c.doctype /\ j.owned = c.owned
    BY <1>6, FinishSane
  <1> HIDE DEF j
  <1>8. emit_comment(k) = j
    BY DEF emit_comment, j, c, w, t
  <1> QED
    BY <1>6, <1>7, <1>8 DEF Done, Replays

\* emit_doctype: the strings are the token's, and a new doctype may begin.
LEMMA EmitDoctypeDone ==
    ASSUME TextIsRead, NEW k, InDoctype(k)
    PROVE  Done(emit_doctype(k))
  <1> DEFINE t == [NoToken EXCEPT !.type = "doctype", !.doctype = k.doctype]
             w == [k EXCEPT !.token = t]
             e == finish_token(w)
             j == [e EXCEPT !.doctype = doc_type_state_init]
  <1>1. t = [f \in TokenFields |-> t[f]]
    BY DEF NoToken, TokenFields
  <1>2. Sane(k) /\ k.emit = NotEmitting /\ k.owned = {}
    BY DEF InDoctype
  <1> HIDE DEF t
  <1>3. WithToken(w, k)
    BY <1>1, <1>2 DEF Sane, WithToken, Fields
  <1> HIDE DEF w
  <1>4. Sane(w) /\ w.emit = NotEmitting /\ w.owned = {}
    BY <1>2, <1>3, WithTokenSane
  <1>5. Sane(e) /\ e.from = e.it.start /\ e.emit = NotEmitting /\ e.owned = {}
    BY <1>4, FinishSane
  <1>6. emit_doctype(k) = j
    BY DEF emit_doctype, w, t
  <1> HIDE DEF e
  <1>7. /\ j = [f \in Fields |-> j[f]] /\ j.it = e.it /\ j.reconsume = e.reconsume /\ j.tmp = e.tmp
        /\ j.emit = e.emit /\ j.from = e.from /\ j.doctype = doc_type_state_init
        /\ j.owned = e.owned /\ j.fault = e.fault /\ j.token = e.token
    BY <1>5 DEF Sane, Fields
  <1> HIDE DEF j
  <1>8. doc_type_state_init = [f \in DoctypeFields |-> doc_type_state_init[f]]
    BY DEF doc_type_state_init, DoctypeFields
  <1>9. Sane(j)
    BY <1>5, <1>7, <1>8 DEF Sane
  <1> QED
    BY <1>5, <1>6, <1>7, <1>9 DEF Done, Replays

\* emit_char_ref, with a reference or without.
LEMMA EmitCharRefDone ==
    ASSUME TextIsRead, NEW k, Clean(k), NEW allowed
    PROVE  Done(emit_char_ref(k, allowed))
  <1> DEFINE found == gumbo_consume_char_ref(source, k.it, allowed, FALSE)
             r == ReadTo(k, found)
             u == [r EXCEPT !.reconsume = TRUE]
  <1>1. Sane(k) /\ k.emit = NotEmitting /\ k.owned = {} /\ k.doctype = doc_type_state_init
    BY DEF Clean, InDoctype
  <1>2. Placed(found.it)
    BY <1>1, ReferencePlaced DEF Referred, Onwards, Sane
  <1> HIDE DEF found
  <1>3. /\ r = [f \in Fields |-> r[f]] /\ r.it = found.it /\ r.reconsume = k.reconsume
        /\ r.tmp = k.tmp /\ r.emit = k.emit /\ r.from = k.from /\ r.doctype = k.doctype
        /\ r.owned = k.owned /\ r.fault = k.fault /\ r.token = k.token
    BY <1>1 DEF Sane, ReadTo, Fields
  <1> HIDE DEF r
  <1>4. Clean(r)
    BY <1>1, <1>2, <1>3 DEF Clean, InDoctype, Sane
  <1>5. Clean(u)
    <2>1. u = Reconsumed(r)
      BY DEF Reconsumed
    <2> QED
      BY <1>4, <2>1, ReconsumedSane DEF Clean, InDoctype
  <1> HIDE DEF u
  <1>6. ASSUME NEW j, Done(j), NEW b
        PROVE  Done([j EXCEPT !.buffered = b])
    <2> DEFINE i == [j EXCEPT !.buffered = b]
    <2>1. /\ i = [f \in Fields |-> i[f]] /\ i.it = j.it /\ i.reconsume = j.reconsume
          /\ i.tmp = j.tmp /\ i.emit = j.emit /\ i.from = j.from /\ i.doctype = j.doctype
          /\ i.owned = j.owned /\ i.fault = j.fault /\ i.token = j.token
      BY <1>6 DEF Done, Sane, Fields
    <2> HIDE DEF i
    <2>2. Sane(i)
      BY <1>6, <2>1 DEF Done, Sane
    <2>3. \A c : IsTrail(c, j) => IsTrail(c, i)
      BY <2>1 DEF IsTrail
    <2>4. Replays(i)
      BY <1>6, <2>1, <2>3 DEF Done, Replays
    <2> QED
      BY <1>6, <2>1, <2>2, <2>4 DEF Done, i
  <1>7. Done(emit_char(r, "&")) /\ Done(emit_char(u, found.chars[1]))
    BY <1>4, <1>5, EmitCharDone
  <1>8. emit_char_ref(k, allowed) = EmitReference(r, found.chars)
    BY DEF emit_char_ref, r, found
  <1> DEFINE b == IF Len(found.chars) = 2 THEN found.chars[2] ELSE NoChar
             e == emit_char(u, found.chars[1])
  <1>9. \/ EmitReference(r, found.chars) = emit_char(r, "&")
        \/ EmitReference(r, found.chars) = [e EXCEPT !.buffered = b]
    BY DEF EmitReference, u
  <1> HIDE DEF b, e
  <1>10. Done([e EXCEPT !.buffered = b])
    BY <1>6, <1>7 DEF e
  <1> QED
    BY <1>7, <1>8, <1>9, <1>10

-----------------------------------------------------------------------------
(***************************************************************************)
(* Tags.                                                                   *)
(***************************************************************************)

\* In a tag the asserts about memory hold: the buffer is given up and taken again.
Both == {"buffer", "attributes"}

\* The tag buffer is freed, and there is a new one.
LEMMA ReinitializeLike ==
    ASSUME NEW k, Shaped(k), k.fault = FALSE, k.owned = Both
    PROVE  Like(reinitialize_tag_buffer(k), k)
  <1> DEFINE r == Releases(k, "buffer")
             o == Owns(r, "buffer")
             b == [o EXCEPT !.buf = <<>>]
             j == [b EXCEPT !.buf_from = b.it.start]
  <1>1. Requires(k, "buffer" \in k.owned) = k
    BY RequiresHolds DEF Both
  <1>2. r = [k EXCEPT !.owned = k.owned \ {"buffer"}]
    BY <1>1 DEF Releases, Shaped, Fields
  <1> HIDE DEF r
  <1>3. Shaped(r) /\ r.owned = {"attributes"} /\ \A f \in Fields \ {"owned"} : r[f] = k[f]
    BY <1>2 DEF Shaped, Fields, Both
  <1>4. r.fault = FALSE
    BY <1>3 DEF Fields
  <1>5. Requires(r, "buffer" \notin r.owned) = r
    BY <1>3, <1>4, RequiresHolds
  <1>6. o = [r EXCEPT !.owned = r.owned \cup {"buffer"}]
    BY <1>3, <1>5 DEF Owns, Shaped, Fields
  <1> HIDE DEF o
  <1>7. Shaped(o) /\ o.owned = Both /\ \A f \in Fields \ {"owned"} : o[f] = r[f]
    BY <1>3, <1>6 DEF Shaped, Fields, Both
  <1>8. Shaped(b) /\ \A f \in Fields \ {"buf"} : b[f] = o[f]
    BY <1>7 DEF Shaped, Fields
  <1> HIDE DEF b
  <1>9. Shaped(j) /\ \A f \in Fields \ {"buf_from"} : j[f] = b[f]
    BY <1>8 DEF Shaped, Fields
  <1> HIDE DEF j
  <1>10. Like(j, k)
    BY <1>3, <1>7, <1>8, <1>9 DEF Like, Core, Fields
  <1> QED
    BY <1>10 DEF reinitialize_tag_buffer, initialize_tag_buffer, reset_tag_buffer_start_point, r, o, b, j

\* What is known in a tag.
LEMMA InTagFacts ==
    ASSUME NEW k, InTag(k)
    PROVE  /\ Sane(k) /\ Shaped(k) /\ k.fault = FALSE /\ k.owned = Both /\ BehindLt(k)
           /\ k.emit = NotEmitting /\ k.doctype = doc_type_state_init /\ Like(k, k)
  BY SaneShaped DEF InTag, Both

\* A record like one in a tag is in a tag.
LEMMA LikeTag ==
    ASSUME NEW j, NEW k, Like(j, k), InTag(k)
    PROVE  /\ InTag(j) /\ j.it = k.it /\ j.reconsume = k.reconsume /\ j.tmp = k.tmp
           /\ Shaped(j) /\ j.fault = FALSE /\ j.owned = Both
  BY LikeKeeps, LikeFields, InTagFacts

\* A character of a name or value goes into the tag buffer, which is there.
LEMMA AppendCharLike ==
    ASSUME NEW k, InTag(k), NEW c, NEW first
    PROVE  LET j == append_char_to_tag_buffer(k, c, first)
           IN  /\ Like(j, k) /\ InTag(j) /\ j.is_start = k.is_start
  <1> DEFINE at == [k EXCEPT !.buf_from = k.it.start]
             p  == IF k.buf = <<>> /\ first THEN at ELSE k
             j  == [p EXCEPT !.buf = Append(p.buf, c)]
  <1>0. Shaped(k) /\ k.fault = FALSE /\ k.owned = Both /\ Like(k, k)
    BY InTagFacts
  <1>1. /\ Shaped(at) /\ at.is_start = k.is_start /\ at.fault = FALSE
        /\ \A f \in Core : at[f] = k[f]
    BY <1>0 DEF Shaped, Fields, Core
  <1> HIDE DEF at
  <1>2. Shaped(p) /\ p.is_start = k.is_start /\ p.fault = FALSE /\ \A f \in Core : p[f] = k[f]
    BY <1>0, <1>1
  <1>3. append_char_to_tag_buffer(k, c, first) =
            [Requires(p, "buffer" \in k.owned) EXCEPT !.buf = Append(@, c)]
    BY DEF append_char_to_tag_buffer, reset_tag_buffer_start_point, at
  <1> HIDE DEF p
  <1>4. Requires(p, "buffer" \in k.owned) = p
    BY <1>0, <1>2, RequiresHolds DEF Both
  <1>5. append_char_to_tag_buffer(k, c, first) = j
    BY <1>2, <1>3, <1>4 DEF Shaped, Fields
  <1>6. Shaped(j) /\ j.is_start = k.is_start /\ \A f \in Core : j[f] = k[f]
    BY <1>2 DEF Shaped, Fields, Core
  <1> HIDE DEF j
  <1>7. Like(j, k)
    BY <1>6 DEF Like
  <1> QED
    BY <1>5, <1>6, <1>7, LikeTag

\* finish_tag_name: the buffer is new.
LEMMA FinishTagNameLike ==
    ASSUME NEW k, InTag(k)
    PROVE  Like(finish_tag_name(k), k)
  <1> DEFINE t == gumbo_tagn_enum(k.buf)
             p == [k EXCEPT !.tag = t]
  <1> HIDE DEF t
  <1>1. Shaped(p) /\ p.fault = FALSE /\ p.owned = Both /\ \A f \in Core : p[f] = k[f]
    BY InTagFacts DEF Shaped, Fields, Core
  <1>2. finish_tag_name(k) = reinitialize_tag_buffer(p)
    BY DEF finish_tag_name, t
  <1> HIDE DEF p
  <1>3. Like(p, k)
    BY <1>1 DEF Like
  <1> QED
    BY <1>1, <1>2, <1>3, ReinitializeLike, LikeTransitive

\* finish_attribute_name, of a new attribute or of one there is.
LEMMA FinishAttributeNameLike ==
    ASSUME NEW k, InTag(k)
    PROVE  Like(finish_attribute_name(k), k)
  <1> DEFINE to   == WithoutReturn(k.buf_from, k.it.start)
             attr == [name |-> k.buf, from |-> k.buf_from, to |-> to,
                      value |-> <<>>, value_from |-> k.buf_from, value_to |-> to]
             read == [k EXCEPT !.drop = FALSE]
             a    == [read EXCEPT !.attrs = Append(read.attrs, attr)]
             e    == add_duplicate_attr_error(read)
             d    == [e EXCEPT !.drop = TRUE]
  <1>0. Shaped(k) /\ k.fault = FALSE /\ k.owned = Both
    BY InTagFacts
  <1>1. Requires(k, "attributes" \in k.owned) = k
    BY <1>0, RequiresHolds DEF Both
  <1>2. Shaped(read) /\ read.fault = FALSE /\ read.owned = Both /\ \A f \in Core : read[f] = k[f]
    BY <1>0 DEF Shaped, Fields, Core
  <1> HIDE DEF attr, read
  <1>3. Like(read, k)
    BY <1>2 DEF Like
  <1>4. Like(e, k)
    BY <1>2, <1>3, ReinitializeLike, LikeTransitive DEF add_duplicate_attr_error
  <1> HIDE DEF e
  <1>5. Shaped(d) /\ \A f \in Core : d[f] = k[f]
    BY <1>4 DEF Like, Shaped, Fields, Core
  <1> HIDE DEF d
  <1>6. Like(d, k)
    BY <1>5 DEF Like
  <1>7. Shaped(a) /\ a.fault = FALSE /\ a.owned = Both /\ \A f \in Core : a[f] = k[f]
    BY <1>2 DEF Shaped, Fields, Core
  <1>8. Like(reinitialize_tag_buffer(a), k)
    <2> HIDE DEF a
    <2>1. Like(a, k)
      BY <1>7 DEF Like
    <2> QED
      BY <1>7, <2>1, ReinitializeLike, LikeTransitive
  <1>9. finish_attribute_name(k) \in {d, reinitialize_tag_buffer(a)}
    <2>1. [read EXCEPT !.attrs = Append(@, attr)] = a
      BY <1>2 DEF Shaped, Fields
    <2> HIDE DEF a
    <2> QED
      BY <1>1, <2>1 DEF finish_attribute_name, d, e, read, attr
  <1> QED
    BY <1>6, <1>8, <1>9

\* finish_attribute_value, of the last attribute or of one to be dropped.
LEMMA FinishAttributeValueLike ==
    ASSUME NEW k, InTag(k)
    PROVE  Like(finish_attribute_value(k), k)
  <1> DEFINE last == Len(k.attrs)
             to   == WithoutReturn(k.buf_from, k.it.start)
             x    == [k.attrs EXCEPT ![last].value = k.buf, ![last].value_from = k.buf_from,
                                     ![last].value_to = to]
             d    == [k EXCEPT !.drop = FALSE]
             a    == [k EXCEPT !.attrs = x]
             b    == [k EXCEPT !.attrs[last].value = k.buf, !.attrs[last].value_from = k.buf_from,
                               !.attrs[last].value_to = to]
  <1>0. Shaped(k) /\ k.fault = FALSE /\ k.owned = Both
    BY InTagFacts
  <1>1. Shaped(d) /\ d.fault = FALSE /\ d.owned = Both /\ \A f \in Core : d[f] = k[f]
    BY <1>0 DEF Shaped, Fields, Core
  <1> HIDE DEF last, to
  <1>2. a = b
    BY <1>0 DEF Shaped, Fields
  <1> HIDE DEF x
  <1>3. Shaped(a) /\ a.fault = FALSE /\ a.owned = Both /\ \A f \in Core : a[f] = k[f]
    BY <1>0 DEF Shaped, Fields, Core
  <1> HIDE DEF a, d
  <1>4. Like(a, k) /\ Like(d, k)
    BY <1>1, <1>3 DEF Like
  <1>5. Like(reinitialize_tag_buffer(a), k) /\ Like(reinitialize_tag_buffer(d), k)
    BY <1>1, <1>3, <1>4, ReinitializeLike, LikeTransitive
  <1>6. finish_attribute_value(k) \in {reinitialize_tag_buffer(a), reinitialize_tag_buffer(d)}
    BY <1>2 DEF finish_attribute_value, d, last, to
  <1> QED
    BY <1>5, <1>6

\* A tag takes the memory that it needs; all but what it keeps stays as it is.
LEMMA StartNewTag ==
    ASSUME NEW k, Clean(k), BehindLt(k), is_alpha(k.it.current), NEW is_start
    PROVE  LET j == start_new_tag(k, is_start)
           IN  /\ InTag(j) /\ j.it = k.it /\ j.tmp = k.tmp /\ j.is_start = is_start
               /\ j.reconsume = k.reconsume
  <1> DEFINE c == k.it.current
             o == Owns(k, "buffer")
             b == [o EXCEPT !.buf = <<>>]
             i == [b EXCEPT !.buf_from = b.it.start]
             a == Owns(i, "attributes")
             j == [a EXCEPT !.buf = <<ensure_lowercase(c)>>, !.attrs = <<>>, !.drop = FALSE,
                            !.is_start = is_start, !.closing = FALSE]
  <1>0. Sane(k) /\ k.emit = NotEmitting /\ k.owned = {} /\ k.doctype = doc_type_state_init
    BY DEF Clean, InDoctype
  <1>1. Shaped(k) /\ k.fault = FALSE
    BY <1>0, SaneShaped
  <1>2. Requires(k, is_alpha(c)) = k
    BY <1>1, RequiresHolds
  <1>3. Requires(k, "buffer" \notin k.owned) = k
    BY <1>0, <1>1, RequiresHolds
  <1> HIDE DEF c
  <1>4. o = [k EXCEPT !.owned = {"buffer"}]
    BY <1>0, <1>1, <1>3 DEF Owns, Shaped, Fields
  <1> HIDE DEF o
  <1>5. Shaped(o) /\ o.owned = {"buffer"} /\ \A f \in Fields \ {"owned"} : o[f] = k[f]
    BY <1>1, <1>4 DEF Shaped, Fields
  <1>6. Shaped(b) /\ \A f \in Fields \ {"buf"} : b[f] = o[f]
    BY <1>5 DEF Shaped, Fields
  <1> HIDE DEF b
  <1>7. Shaped(i) /\ \A f \in Fields \ {"buf_from"} : i[f] = b[f]
    BY <1>6 DEF Shaped, Fields
  <1>8. initialize_tag_buffer(k) = i
    BY DEF initialize_tag_buffer, reset_tag_buffer_start_point, i, b, o
  <1> HIDE DEF i
  <1>9. i.owned = {"buffer"} /\ i.fault = FALSE
    BY <1>1, <1>5, <1>6, <1>7 DEF Fields
  <1>10. Requires(i, "attributes" \notin i.owned) = i
    BY <1>7, <1>9, RequiresHolds
  <1>11. a = [i EXCEPT !.owned = Both]
    <2>1. i.owned \cup {"attributes"} = Both
      BY <1>9 DEF Both
    <2> QED
      BY <1>7, <1>10, <2>1 DEF Owns, Shaped, Fields
  <1> HIDE DEF a
  <1>12. Shaped(a) /\ a.owned = Both /\ \A f \in Fields \ {"owned"} : a[f] = i[f]
    BY <1>7, <1>11 DEF Shaped, Fields
  <1>13. start_new_tag(k, is_start) = j
    BY <1>2, <1>8 DEF start_new_tag, a, c
  <1>14. /\ Shaped(j) /\ j.is_start = is_start
         /\ \A f \in Fields \ {"buf", "attrs", "drop", "is_start", "closing"} : j[f] = a[f]
    <2> DEFINE name == <<ensure_lowercase(c)>>
    <2> HIDE DEF name
    <2> QED
      BY <1>12 DEF Shaped, Fields, name
  <1> HIDE DEF j
  <1>15. /\ j.it = k.it /\ j.reconsume = k.reconsume /\ j.tmp = k.tmp /\ j.emit = k.emit
         /\ j.from = k.from /\ j.doctype = k.doctype /\ j.owned = Both /\ j.fault = k.fault
         /\ j.token = k.token
    BY <1>5, <1>6, <1>7, <1>12, <1>14 DEF Fields
  <1>16. Sane(j)
    BY <1>0, <1>14, <1>15 DEF Sane, Shaped
  <1>17. BehindLt(j)
    BY <1>15 DEF BehindLt
  <1> QED
    BY <1>0, <1>13, <1>14, <1>15, <1>16, <1>17 DEF InTag, Both

\* It gives the memory up when it is abandoned.
LEMMA AbandonTag ==
    ASSUME NEW k, InTag(k)
    PROVE  LET j == abandon_current_tag(k)
           IN  /\ Clean(j) /\ BehindLt(j) /\ j.it = k.it /\ j.tmp = k.tmp
               /\ j.reconsume = k.reconsume /\ j.from = k.from
  <1> DEFINE r == Releases(k, "attributes")
             s == Releases(r, "buffer")
             j == [s EXCEPT !.attrs = <<>>]
  <1>0. /\ Sane(k) /\ Shaped(k) /\ k.fault = FALSE /\ k.owned = Both /\ BehindLt(k)
        /\ k.emit = NotEmitting /\ k.doctype = doc_type_state_init
    BY InTagFacts
  <1>1. Requires(k, "attributes" \in k.owned) = k
    BY <1>0, RequiresHolds DEF Both
  <1>2. r = [k EXCEPT !.owned = {"buffer"}]
    <2>1. k.owned \ {"attributes"} = {"buffer"}
      BY <1>0 DEF Both
    <2> QED
      BY <1>0, <1>1, <2>1 DEF Releases, Shaped, Fields
  <1> HIDE DEF r
  <1>3. Shaped(r) /\ r.owned = {"buffer"} /\ \A f \in Fields \ {"owned"} : r[f] = k[f]
    BY <1>0, <1>2 DEF Shaped, Fields
  <1>4. r.fault = FALSE
    BY <1>0, <1>3 DEF Fields
  <1>5. Requires(r, "buffer" \in r.owned) = r
    BY <1>3, <1>4, RequiresHolds
  <1>6. s = [r EXCEPT !.owned = {}]
    <2>1. r.owned \ {"buffer"} = {}
      BY <1>3
    <2> QED
      BY <1>3, <1>5, <2>1 DEF Releases, Shaped, Fields
  <1> HIDE DEF s
  <1>7. Shaped(s) /\ s.owned = {} /\ \A f \in Fields \ {"owned"} : s[f] = r[f]
    BY <1>3, <1>6 DEF Shaped, Fields
  <1>8. Shaped(j) /\ \A f \in Fields \ {"attrs"} : j[f] = s[f]
    BY <1>7 DEF Shaped, Fields
  <1>9. abandon_current_tag(k) = j
    BY DEF abandon_current_tag, s, r
  <1> HIDE DEF j
  <1>10. /\ j.it = k.it /\ j.reconsume = k.reconsume /\ j.tmp = k.tmp /\ j.emit = k.emit
         /\ j.from = k.from /\ j.doctype = k.doctype /\ j.owned = {} /\ j.fault = k.fault
         /\ j.token = k.token
    BY <1>3, <1>7, <1>8 DEF Fields
  <1>11. Sane(j)
    BY <1>0, <1>8, <1>10 DEF Sane, Shaped
  <1>12. BehindLt(j)
    BY <1>0, <1>10 DEF BehindLt
  <1> QED
    BY <1>0, <1>9, <1>10, <1>11, <1>12 DEF Clean, InDoctype

\* The text of a tag ends right behind the ">", though the iterator skips a carriage return.
LEMMA TextOfTag ==
    ASSUME TextIsRead, NEW from, NEW i, Placed(i), i.current = ">",
           from \in 1 .. Len(source) + 1, from < i.start, source[from] = "<"
    PROVE  IsTagText(from, WithoutReturn(from, After(i.start)))
  <1> DEFINE s == i.start
  <1>1. s \in Nat /\ s <= Len(source) /\ source[s] = ">" /\ Len(source) \in Nat /\ from \in Nat
    BY PlacedFacts, SourceFacts
  <1> HIDE DEF s
  <1>2. from < s
    BY DEF s
  <1>3. WithoutReturn(from, After(s)) = s + 1
    <2>1. After(s) = Landing(s + 1)
      BY <1>1 DEF After
    <2>2. CASE s + 1 < Len(source) /\ source[s + 1] = "\r" /\ source[s + 1 + 1] = "\n"
      <3>1. Landing(s + 1) = s + 2
        BY <1>1, <2>2 DEF Landing
      <3>2. (s + 2) - 1 = s + 1 /\ from < s + 2
        BY <1>1, <1>2
      <3> QED
        BY <2>1, <2>2, <3>1, <3>2 DEF WithoutReturn
    <2>3. CASE ~(s + 1 < Len(source) /\ source[s + 1] = "\r" /\ source[s + 1 + 1] = "\n")
      <3>1. Landing(s + 1) = s + 1
        BY <2>3 DEF Landing
      <3>2. (s + 1) - 1 = s /\ source[s] # "\r"
        BY <1>1
      <3> QED
        BY <2>1, <3>1, <3>2 DEF WithoutReturn
    <2> QED
      BY <2>2, <2>3
  <1>4. (s + 1) - 1 = s /\ (s + 1) - from >= 2
    BY <1>1, <1>2
  <1> QED
    BY <1>1, <1>3, <1>4 DEF IsTagText, s

\* emit_current_tag, at the greater-than sign: its assert on the text of the token holds.
LEMMA EmitTagDone ==
    ASSUME TextIsRead, NEW k, InTag(k), k.it.current = ">", k.reconsume = FALSE
    PROVE  Done(emit_current_tag(k))
  <1> DEFINE t == CurrentTag(k)
             l == IF k.is_start THEN k.tag ELSE k.last
             a == abandon_current_tag(k)
             b == [a EXCEPT !.token = t, !.last = IF k.is_start THEN k.tag ELSE @]
             j == finish_token(b)
  <1>1. Clean(a) /\ BehindLt(a) /\ a.it = k.it /\ a.reconsume = FALSE /\ a.from = k.from
    BY AbandonTag
  <1>2. t = [f \in TokenFields |-> t[f]]
    BY DEF CurrentTag, NoToken, TokenFields
  <1>3. emit_current_tag(k) = RequiresTagText(j)
    BY DEF emit_current_tag
  <1> HIDE DEF t, a
  <1>4. /\ b = [f \in Fields |-> b[f]] /\ b.it = a.it /\ b.reconsume = a.reconsume
        /\ b.tmp = a.tmp /\ b.emit = a.emit /\ b.from = a.from /\ b.doctype = a.doctype
        /\ b.owned = a.owned /\ b.fault = a.fault /\ b.token = t
    <2> DEFINE m == IF k.is_start THEN k.tag ELSE a.last
    <2>1. b = [a EXCEPT !.token = t, !.last = m]
      OBVIOUS
    <2> HIDE DEF m, b
    <2> QED
      BY <1>1, <2>1 DEF Clean, InDoctype, Sane, Fields
  <1> HIDE DEF b
  <1>5. Sane(b) /\ b.emit = NotEmitting /\ b.owned = {} /\ b.doctype = doc_type_state_init
    BY <1>1, <1>2, <1>4 DEF Clean, InDoctype, Sane
  <1>6. /\ Sane(j) /\ j.from = j.it.start /\ j.it.start = After(k.it.start)
        /\ j.emit = b.emit /\ j.doctype = b.doctype /\ j.owned = b.owned
        /\ j.token.from = k.from /\ j.token.to = WithoutReturn(k.from, After(k.it.start))
    BY <1>1, <1>4, <1>5, FinishSane
  <1> HIDE DEF j
  <1>7. IsTagText(j.token.from, j.token.to)
    <2>1. /\ Placed(k.it) /\ k.from \in 1 .. Len(source) + 1 /\ k.from < k.it.start
          /\ source[k.from] = "<"
      BY DEF InTag, Sane, BehindLt
    <2> QED
      BY <1>6, <2>1, TextOfTag
  <1>8. RequiresTagText(j) = j
    BY <1>6, <1>7, SaneShaped, RequiresHolds DEF RequiresTagText
  <1> QED
    BY <1>3, <1>5, <1>6, <1>8 DEF Done, Replays

-----------------------------------------------------------------------------
(***************************************************************************)
(* The characters of the temporary buffer, one place behind the other.     *)
(***************************************************************************)
\* Where the iterator will be when the handler has ended.
NextStart(k) == IF k.reconsume THEN k.it.start ELSE After(k.it.start)

\* The text was read up to there.
TracedOn(k) == \E c : IsTrail(c, k) /\ c[Len(k.tmp)] = NextStart(k)

\* The trail depends on the iterator and on the temporary buffer only.
LEMMA TrailKept ==
    ASSUME NEW j, NEW k, j.it = k.it, j.tmp = k.tmp
    PROVE  (Trailed(k) => Trailed(j)) /\ (Traced(k) => Traced(j) /\ Trailed(j))
  BY DEF Trailed, Traced, IsTrail

\* What may be put into the temporary buffer.
LEMMA CharsFacts ==
    ASSUME TextIsRead, NEW k, Sane(k)
    PROVE  LET c == k.it.current
           IN  /\ c \in Chars /\ InName(c) \in Chars /\ InValue(c) \in Chars /\ Replacement \in Chars
               /\ <<c>> \in Seq(Chars) /\ <<InName(c)>> \in Seq(Chars) /\ <<InValue(c)>> \in Seq(Chars)
  <1> DEFINE c == k.it.current
  <1>1. c \in Symbols \cup {EOF, Replacement, "\n"}
    BY PlacedFacts DEF Sane
  <1> HIDE DEF c
  <1>2. c \in Chars /\ Replacement \in Chars
    BY <1>1 DEF Chars
  <1>3. c \in DOMAIN Uppercase => Uppercase[c] \in Chars
    BY DEF Chars
  <1>4. InName(c) \in Chars /\ InValue(c) \in Chars
    BY <1>2, <1>3 DEF InName, InValue, ensure_lowercase
  <1>5. \A x \in Chars : <<x>> \in Seq(Chars)
    OBVIOUS
  <1> QED
    BY <1>2, <1>4, <1>5 DEF c

\* A less-than sign: the buffer is the text from there on.
LEMMA TagBeginsTraced ==
    ASSUME TextIsRead, NEW k, Clean(k), k.it.current = "<"
    PROVE  LET j == TagBegins(k)
           IN  /\ Clean(j) /\ j.it.start = k.it.start /\ j.it.current = k.it.current
               /\ j.tmp = <<"<">> /\ j.script = <<>> /\ j.reconsume = k.reconsume /\ j.from = k.from
               /\ (k.reconsume = FALSE => TracedOn(j))
  <1> DEFINE p == clear_temporary_buffer(k)
             j == append_to_temporary_buffer(p, <<"<">>)
             s == k.it.start
  <1>1. /\ Clean(p) /\ p.tmp = <<>> /\ p.script = <<>> /\ p.reconsume = k.reconsume
        /\ p.it.start = s /\ p.it.current = k.it.current /\ p.from = k.from
        /\ p.it.mark = p.it.start
    BY ClearSane DEF Clean
  <1> HIDE DEF p
  <1>2. <<"<">> \in Seq(Chars) /\ Sane(p)
    BY <1>1 DEF Chars, Clean, InDoctype
  <1>3. /\ Clean(j) /\ j.tmp = p.tmp \o <<"<">> /\ j.it = p.it /\ j.reconsume = p.reconsume
        /\ j.from = p.from /\ j.script = p.script
    BY <1>1, <1>2, AppendSane
  <1>4. TagBegins(k) = j
    BY DEF TagBegins, p
  <1> HIDE DEF j
  <1>5. j.tmp = <<"<">>
    BY <1>1, <1>3
  <1>6. Placed(k.it)
    BY DEF Clean, InDoctype, Sane
  <1>7. s \in Nat /\ IsPlace(s) /\ CharAt(s) = "<"
    BY <1>6, PlacedFacts
  <1> HIDE DEF s
  <1> DEFINE c == [i \in 0 .. 1 |-> IF i = 0 THEN s ELSE After(s)]
  <1>8. c[0] = s /\ c[1] = After(s) /\ Len(j.tmp) = 1 /\ j.tmp[1] = "<"
    BY <1>5
  <1> HIDE DEF c
  <1>9. IsTrail(c, j)
    <2>1. \A i \in 1 .. 1 : i = 1 /\ i - 1 = 0
      OBVIOUS
    <2> QED
      BY <1>1, <1>3, <1>7, <1>8, <2>1 DEF IsTrail
  <1>10. k.reconsume = FALSE => TracedOn(j)
    BY <1>1, <1>3, <1>8, <1>9 DEF TracedOn, NextStart
  <1> QED
    BY <1>1, <1>3, <1>4, <1>5, <1>10 DEF s

\* The current character is appended.
LEMMA TraceAppends ==
    ASSUME TextIsRead, NEW k, Sane(k), Traced(k), k.reconsume = FALSE,
           NEW j, j.it = k.it, j.reconsume = FALSE, j.tmp = k.tmp \o <<k.it.current>>
    PROVE  TracedOn(j) /\ Trailed(j)
  <1> DEFINE n == Len(k.tmp)
             s == k.it.start
  <1>1. PICK c : IsTrail(c, k) /\ c[n] = s
    BY DEF Traced
  <1>2. /\ n \in Nat /\ Len(j.tmp) = n + 1 /\ j.tmp[n + 1] = k.it.current
        /\ \A i \in 1 .. n : j.tmp[i] = k.tmp[i]
    BY DEF Sane
  <1>3. s \in Nat /\ IsPlace(s) /\ k.it.current = CharAt(s)
    BY PlacedFacts DEF Sane
  <1> HIDE DEF n, s
  <1> DEFINE d == [i \in 0 .. n + 1 |-> IF i = n + 1 THEN After(s) ELSE c[i]]
  <1>4. d[n + 1] = After(s) /\ \A i \in 0 .. n : d[i] = c[i]
    BY <1>2
  <1> HIDE DEF d
  <1>5. d[0] = c[0] /\ d[n] = s
    BY <1>1, <1>2, <1>4
  <1>6. ASSUME NEW i \in 1 .. n + 1
        PROVE  d[i - 1] \in Nat /\ j.tmp[i] = CharAt(d[i - 1]) /\ d[i] = After(d[i - 1])
    <2>1. CASE i = n + 1
      <3>1. i - 1 = n
        BY <1>2, <2>1
      <3> QED
        BY <1>2, <1>3, <1>4, <1>5, <2>1, <3>1
    <2>2. CASE i # n + 1
      <3>1. i \in 1 .. n /\ i \in 0 .. n /\ i - 1 \in 0 .. n
        BY <1>2, <2>2
      <3>2. c[i - 1] \in Nat /\ k.tmp[i] = CharAt(c[i - 1]) /\ c[i] = After(c[i - 1])
        BY <1>1, <3>1 DEF IsTrail, n
      <3> QED
        BY <1>2, <1>4, <3>1, <3>2
    <2> QED
      BY <2>1, <2>2
  <1>7. IsTrail(d, j)
    BY <1>1, <1>2, <1>5, <1>6 DEF IsTrail
  <1> QED
    BY <1>2, <1>4, <1>7 DEF TracedOn, Trailed, NextStart, s

-----------------------------------------------------------------------------
(***************************************************************************)
(* Single fields.                                                          *)
(***************************************************************************)

\* The fields that neither what is read nor what is kept depends on.
LEMMA SettersLike ==
    ASSUME NEW k, Shaped(k), NEW v
    PROVE  /\ Like([k EXCEPT !.value_state = v], k) /\ [k EXCEPT !.value_state = v].value_state = v
           /\ Like([k EXCEPT !.closing = v], k) /\ Like([k EXCEPT !.cdata = v], k)
           /\ Like([k EXCEPT !.script = v], k) /\ Like([k EXCEPT !.foreign = v], k)
           /\ Like([k EXCEPT !.buffered = v], k)
           /\ Like(append_to_script_data_buffer(k, v), k) /\ Like(reset_tag_buffer_start_point(k), k)
  <1> DEFINE s == Append(k.script, ensure_lowercase(v))
             at == k.it.start
  <1>1. append_to_script_data_buffer(k, v) = [k EXCEPT !.script = s]
    BY DEF append_to_script_data_buffer, Shaped, Fields
  <1>2. reset_tag_buffer_start_point(k) = [k EXCEPT !.buf_from = at]
    BY DEF reset_tag_buffer_start_point
  <1> HIDE DEF s, at
  <1>3. ASSUME NEW w
        PROVE  /\ Like([k EXCEPT !.value_state = w], k) /\ Like([k EXCEPT !.closing = w], k)
               /\ Like([k EXCEPT !.cdata = w], k) /\ Like([k EXCEPT !.script = w], k)
               /\ Like([k EXCEPT !.foreign = w], k) /\ Like([k EXCEPT !.buffered = w], k)
               /\ Like([k EXCEPT !.buf_from = w], k)
    BY DEF Like, Shaped, Core, Fields
  <1>4. [k EXCEPT !.value_state = v].value_state = v
    BY DEF Shaped, Fields
  <1> QED
    BY <1>1, <1>2, <1>3, <1>4

\* The iterator goes on.
LEMMA MovesSane ==
    ASSUME TextIsRead, NEW k, Sane(k), NEW i, Onwards(k.it, i)
    PROVE  LET j == [k EXCEPT !.it = i]
           IN  /\ Sane(j) /\ (InDoctype(k) => InDoctype(j)) /\ (Clean(k) => Clean(j))
               /\ (InTag(k) => InTag(j)) /\ (BehindLt(k) => BehindLt(j))
               /\ j.it = i /\ j.tmp = k.tmp /\ j.reconsume = k.reconsume /\ j.from = k.from
               /\ j.value_state = k.value_state /\ j.lexer = k.lexer
  <1> DEFINE j == [k EXCEPT !.it = i]
  <1>1. /\ j = [f \in Fields |-> j[f]] /\ j.it = i /\ j.reconsume = k.reconsume
        /\ j.tmp = k.tmp /\ j.emit = k.emit /\ j.from = k.from /\ j.doctype = k.doctype
        /\ j.owned = k.owned /\ j.fault = k.fault /\ j.token = k.token
        /\ j.value_state = k.value_state /\ j.lexer = k.lexer
    BY DEF Sane, Fields
  <1> HIDE DEF j
  <1>2. Placed(i) /\ i.start >= k.it.start
    BY DEF Onwards
  <1>3. Sane(j)
    BY <1>1, <1>2 DEF Sane
  <1>4. i.start \in Nat /\ k.it.start \in Nat /\ k.from \in Nat
    BY <1>2, PlacedFacts, SourceFacts DEF Sane
  <1>5. BehindLt(k) => BehindLt(j)
    BY <1>1, <1>2, <1>4 DEF BehindLt
  <1> QED
    BY <1>1, <1>3, <1>5 DEF InDoctype, Clean, InTag, j

\* A literal is consumed.
LEMMA ConsumedSane ==
    ASSUME TextIsRead, NEW k, Sane(k), NEW literal, Len(literal) \in Nat
    PROVE  LET j == Consumed(k, literal)
           IN  /\ Sane(j) /\ (InDoctype(k) => InDoctype(j)) /\ (Clean(k) => Clean(j))
               /\ (BehindLt(k) => BehindLt(j)) /\ j.tmp = k.tmp /\ j.reconsume = k.reconsume
  <1> DEFINE i == Skip(source, k.it, Len(literal))
  <1>1. Placed(k.it)
    BY DEF Sane
  <1>2. Onwards(k.it, i)
    BY <1>1, SkipPlaced
  <1>3. Consumed(k, literal) = [k EXCEPT !.it = i]
    BY DEF Consumed
  <1> HIDE DEF i
  <1> QED
    BY <1>2, <1>3, MovesSane

\* A string or a flag of the doctype is set.
LEMMA DoctypeSane ==
    ASSUME NEW k, InDoctype(k), NEW d, d = [f \in DoctypeFields |-> d[f]]
    PROVE  LET j == [k EXCEPT !.doctype = d]
           IN  InDoctype(j) /\ j.it = k.it /\ j.tmp = k.tmp /\ j.reconsume = k.reconsume
  <1> DEFINE j == [k EXCEPT !.doctype = d]
  <1>1. /\ j = [f \in Fields |-> j[f]] /\ j.it = k.it /\ j.reconsume = k.reconsume
        /\ j.tmp = k.tmp /\ j.emit = k.emit /\ j.from = k.from /\ j.doctype = d
        /\ j.owned = k.owned /\ j.fault = k.fault /\ j.token = k.token
    BY DEF InDoctype, Sane, Fields
  <1> HIDE DEF j
  <1>2. Sane(j)
    BY <1>1 DEF InDoctype, Sane
  <1> QED
    BY <1>1, <1>2 DEF InDoctype, j

\* A doctype that forces quirks is a doctype.
LEMMA QuirkySane ==
    ASSUME NEW k, InDoctype(k)
    PROVE  LET j == Quirky(k)
           IN  InDoctype(j) /\ j.it = k.it /\ j.tmp = k.tmp /\ j.reconsume = k.reconsume
  <1> DEFINE d == [k.doctype EXCEPT !.force_quirks = TRUE]
  <1>1. d = [f \in DoctypeFields |-> d[f]]
    BY DEF InDoctype, Sane, DoctypeFields
  <1>2. Quirky(k) = [k EXCEPT !.doctype = d]
    BY DEF Quirky
  <1> HIDE DEF d
  <1> QED
    BY <1>1, <1>2, DoctypeSane

\* The doctype begins: there was none.
LEMMA StartDoctypeSane ==
    ASSUME NEW k, Clean(k)
    PROVE  LET j == StartDoctype(k)
           IN  InDoctype(j) /\ j.it = k.it /\ j.tmp = k.tmp /\ j.reconsume = k.reconsume
  <1> DEFINE d == [k.doctype EXCEPT !.name = <<>>, !.public = <<>>, !.system = <<>>]
  <1>1. InDoctype(k) /\ Sane(k) /\ k.doctype = doc_type_state_init
    BY DEF Clean, InDoctype
  <1>2. d = [f \in DoctypeFields |-> d[f]]
    BY <1>1 DEF Sane, DoctypeFields
  <1>3. Requires(k, k.doctype = doc_type_state_init) = k
    BY <1>1, SaneShaped, RequiresHolds
  <1>4. StartDoctype(k) = [k EXCEPT !.doctype = d]
    BY <1>3 DEF StartDoctype
  <1> HIDE DEF d
  <1> QED
    BY <1>1, <1>2, <1>4, DoctypeSane

\* The name or an identifier is taken from the temporary buffer.
LEMMA FinishDoctypeSane ==
    ASSUME TextIsRead, NEW k, InDoctype(k),
           NEW j \in {finish_doctype_name(k), finish_doctype_public_id(k), finish_doctype_system_id(k)}
    PROVE  InDoctype(j) /\ j.tmp = <<>> /\ j.reconsume = k.reconsume
  <1> DEFINE n == [k.doctype EXCEPT !.name = k.tmp]
             p == [k.doctype EXCEPT !.public = k.tmp, !.has_public = TRUE]
             s == [k.doctype EXCEPT !.system = k.tmp, !.has_system = TRUE]
  <1>1. /\ n = [f \in DoctypeFields |-> n[f]] /\ p = [f \in DoctypeFields |-> p[f]]
        /\ s = [f \in DoctypeFields |-> s[f]]
    BY DEF InDoctype, Sane, DoctypeFields
  <1>2. /\ [k EXCEPT !.doctype.public = k.tmp, !.doctype.has_public = TRUE] = [k EXCEPT !.doctype = p]
        /\ [k EXCEPT !.doctype.system = k.tmp, !.doctype.has_system = TRUE] = [k EXCEPT !.doctype = s]
        /\ [k EXCEPT !.doctype.name = k.tmp] = [k EXCEPT !.doctype = n]
    BY DEF InDoctype, Sane, Fields
  <1> HIDE DEF n, p, s
  <1>3. ASSUME NEW d, d = [f \in DoctypeFields |-> d[f]]
        PROVE  LET c == clear_temporary_buffer([k EXCEPT !.doctype = d])
               IN  InDoctype(c) /\ c.tmp = <<>> /\ c.reconsume = k.reconsume
    <2> DEFINE e == [k EXCEPT !.doctype = d]
    <2>1. InDoctype(e) /\ e.reconsume = k.reconsume
      BY <1>3, DoctypeSane
    <2> HIDE DEF e
    <2>2. LET c == clear_temporary_buffer(e)
          IN  InDoctype(c) /\ c.tmp = <<>> /\ c.reconsume = e.reconsume
      BY <2>1, ClearSane
    <2> QED
      BY <2>1, <2>2 DEF e
  <1> QED
    BY <1>1, <1>2, <1>3 DEF finish_doctype_name, finish_doctype_public_id, finish_doctype_system_id

-----------------------------------------------------------------------------
(***************************************************************************)
(* How a handler ends.                                                     *)
(***************************************************************************)
\* What a handler leads to.
Stepped ==
    /\ source' = source
    /\ \/ phase' = "lexing" /\ Reading(tokenizer')
       \/ phase' = "parser" /\ Returned(tokenizer')

\* The next state's handler, with its character.
Led(lexer, k) == Advanced([k EXCEPT !.lexer = lexer])

\* The next state is the one that was set.
LEMMA LedLexer ==
    ASSUME NEW k, Shaped(k), NEW lexer
    PROVE  Led(lexer, k).lexer = lexer
  <1> DEFINE l == [k EXCEPT !.lexer = lexer]
             i == IF l.reconsume THEN l.it ELSE utf8iterator_next(source, l.it)
  <1>1. Shaped(l) /\ l.lexer = lexer
    BY DEF Shaped, Fields
  <1>2. Led(lexer, k) = [l EXCEPT !.reconsume = FALSE, !.it = i]
    <2> HIDE DEF l
    <2> QED
      BY <1>1 DEF Led, Advanced, l, Shaped, Fields
  <1> HIDE DEF l, i
  <1> QED
    BY <1>1, <1>2 DEF Shaped, Fields

\* What the loop of gumbo_lex keeps when it reads on.
LEMMA LedFacts ==
    ASSUME TextIsRead, NEW k, Sane(k), NEW lexer
    PROVE  LET j == Led(lexer, k)
           IN  /\ Sane(j) /\ (InDoctype(k) => InDoctype(j)) /\ (Clean(k) => Clean(j))
               /\ (InTag(k) => InTag(j)) /\ (BehindLt(k) => BehindLt(j))
               /\ (TracedOn(k) => Traced(j))
               /\ j.reconsume = FALSE /\ j.tmp = k.tmp /\ j.script = k.script
               /\ j.value_state = k.value_state /\ j.is_start = k.is_start /\ j.from = k.from
               /\ j.it.start = NextStart(k) /\ Placed(j.it)
               /\ (k.reconsume => j.it = k.it)
  <1> DEFINE l == [k EXCEPT !.lexer = lexer]
             i == IF k.reconsume THEN k.it ELSE utf8iterator_next(source, k.it)
             j == [l EXCEPT !.reconsume = FALSE, !.it = i]
  <1>1. Placed(k.it) /\ k.reconsume \in BOOLEAN
    BY DEF Sane
  <1>2. Onwards(k.it, i) /\ i.start = NextStart(k) /\ i.mark = k.it.mark /\ (k.reconsume => i = k.it)
    <2>1. Onwards(k.it, k.it) /\ Onwards(k.it, utf8iterator_next(source, k.it))
      <3>1. Onwards(k.it, k.it)
        BY <1>1, PlacedFacts DEF Onwards
      <3> QED
        BY <1>1, <3>1, OnwardsNext
    <2>2. /\ utf8iterator_next(source, k.it).start = After(k.it.start)
          /\ utf8iterator_next(source, k.it).mark = k.it.mark
      BY <1>1, NextPlaced
    <2> QED
      BY <1>1, <2>1, <2>2 DEF NextStart
  <1>3. /\ l = [f \in Fields |-> l[f]] /\ l.lexer = lexer /\ l.it = k.it
        /\ \A f \in Fields \ {"lexer"} : l[f] = k[f]
    BY DEF Sane, Fields
  <1>4. Led(lexer, k) = j
    <2>1. l.reconsume = k.reconsume
      BY <1>3 DEF Fields
    <2> HIDE DEF l
    <2>2. j = [l EXCEPT !.reconsume = FALSE,
                        !.it = IF k.reconsume THEN @ ELSE utf8iterator_next(source, @)]
      BY <1>3 DEF Fields
    <2> QED
      BY <2>1, <2>2 DEF Led, Advanced, l
  <1> HIDE DEF l, i
  <1>5. /\ j = [f \in Fields |-> j[f]] /\ j.reconsume = FALSE /\ j.it = i
        /\ \A f \in Fields \ {"reconsume", "it"} : j[f] = l[f]
    BY <1>3 DEF Fields
  <1> HIDE DEF j
  <1>6. /\ j.lexer = lexer /\ j.tmp = k.tmp /\ j.emit = k.emit /\ j.from = k.from
        /\ j.doctype = k.doctype /\ j.owned = k.owned /\ j.fault = k.fault /\ j.token = k.token
        /\ j.script = k.script /\ j.value_state = k.value_state /\ j.is_start = k.is_start
    BY <1>3, <1>5 DEF Fields
  <1>7. Placed(i) /\ i.start >= k.it.start
    BY <1>2 DEF Onwards
  <1>8. Sane(j)
    BY <1>5, <1>6, <1>7 DEF Sane
  <1>9. i.start \in Nat /\ k.it.start \in Nat /\ k.from \in Nat
    BY <1>1, <1>7, PlacedFacts, SourceFacts DEF Sane
  <1>10. BehindLt(k) => BehindLt(j)
    BY <1>5, <1>6, <1>7, <1>9 DEF BehindLt
  <1>11. TracedOn(k) => Traced(j)
    BY <1>2, <1>5, <1>6 DEF TracedOn, Traced, IsTrail
  <1> QED
    BY <1>2, <1>4, <1>5, <1>6, <1>7, <1>8, <1>10, <1>11 DEF InDoctype, Clean, InTag

\* A handler that goes on keeps the invariant if its next state is entered as it must be.
LEMMA GoesOn ==
    ASSUME NEW lexer, NEW k, phase = "lexing", Goes(lexer, k), Reading(Led(lexer, k))
    PROVE  Stepped
  BY DEF Goes, Stepped, Led

\* A token is returned.
LEMMA ReturnsDone ==
    ASSUME TextIsRead, NEW k, Done(k), NEW lexer \in ReturnLexers, Returns(lexer, k)
    PROVE  Stepped
  <1> DEFINE j == [k EXCEPT !.lexer = lexer, !.reconsume = FALSE]
  <1>1. Sane(k) /\ k.owned = {} /\ k.doctype = doc_type_state_init /\ k.from = k.it.start /\ Replays(k)
    BY DEF Done
  <1>2. /\ j = [f \in Fields |-> j[f]] /\ j.it = k.it /\ j.reconsume = FALSE /\ j.lexer = lexer
        /\ j.tmp = k.tmp /\ j.emit = k.emit /\ j.from = k.from /\ j.doctype = k.doctype
        /\ j.owned = k.owned /\ j.fault = k.fault /\ j.token = k.token
    BY <1>1 DEF Sane, Fields
  <1>3. tokenizer' = j /\ phase' = "parser" /\ source' = source
    BY DEF Returns
  <1> HIDE DEF j
  <1>4. Sane(j)
    BY <1>1, <1>2 DEF Sane
  <1>5. AtText(j)
    BY <1>1, <1>2, <1>4, StartsHere
  <1>6. \A c : IsTrail(c, k) => IsTrail(c, j)
    BY <1>2 DEF IsTrail
  <1>7. Replays(j)
    BY <1>1, <1>2, <1>6 DEF Replays
  <1>8. Returned(j)
    BY <1>1, <1>2, <1>4, <1>5, <1>7 DEF Returned
  <1> QED
    BY <1>3, <1>8 DEF Stepped

\* No two classes of states have one in common, where it matters.
LEMMA LexerClasses ==
    /\ TextLexers \subseteq Lexers
    /\ \A l \in TextLexers :
          l \notin LtLexers \cup EndTagLexers \cup NameLexers \cup TagLexers \cup CommentLexers
                     \cup DoctypeLexers \cup EmptyDoctypeLexers
                     \cup {"CHAR_REF_IN_DATA", "CHAR_REF_IN_RCDATA", "MARKUP_DECLARATION"}
    /\ \A l \in LtLexers :
          l \notin EndTagLexers \cup NameLexers \cup TagLexers \cup CommentLexers
                     \cup DoctypeLexers \cup EmptyDoctypeLexers
                     \cup {"CHAR_REF_IN_DATA", "CHAR_REF_IN_RCDATA", "MARKUP_DECLARATION"}
    /\ \A l \in EndTagLexers :
          l \notin NameLexers \cup TagLexers \cup CommentLexers \cup DoctypeLexers \cup EmptyDoctypeLexers
                     \cup {"CHAR_REF_IN_DATA", "CHAR_REF_IN_RCDATA", "MARKUP_DECLARATION"}
    /\ \A l \in NameLexers :
          l \notin TagLexers \cup CommentLexers \cup DoctypeLexers \cup EmptyDoctypeLexers
                     \cup {"CHAR_REF_IN_DATA", "CHAR_REF_IN_RCDATA", "MARKUP_DECLARATION"}
    /\ \A l \in TagLexers :
          l \notin CommentLexers \cup DoctypeLexers \cup EmptyDoctypeLexers
                     \cup {"CHAR_REF_IN_DATA", "CHAR_REF_IN_RCDATA", "MARKUP_DECLARATION"}
    /\ \A l \in CommentLexers \cup {"CHAR_REF_IN_DATA", "CHAR_REF_IN_RCDATA"} :
          l \notin DoctypeLexers \cup EmptyDoctypeLexers \cup {"MARKUP_DECLARATION"}
    /\ \A l \in DoctypeLexers : l \notin EmptyDoctypeLexers \cup {"MARKUP_DECLARATION"}
    /\ "MARKUP_DECLARATION" \notin EmptyDoctypeLexers
  BY DEF Lexers, TextLexers, ScriptLexers, LtLexers, EndTagLexers, NameLexers, TagLexers,
         ValueLexers, CommentLexers, DoctypeLexers, EmptyDoctypeLexers

-----------------------------------------------------------------------------
(***************************************************************************)
(* What each class of states asks of the record that goes there.           *)
(***************************************************************************)

\* How each class of states is entered; first text.
LEMMA GoesText ==
    ASSUME TextIsRead, phase = "lexing", NEW k, Clean(k), NEW lexer \in TextLexers, Goes(lexer, k),
           BehindLt(k) \/ (k.reconsume /\ AtText(k)) \/ k.it.current = EOF
    PROVE  Stepped
  <1> DEFINE j == Led(lexer, k)
  <1>1. Sane(k)
    BY DEF Clean, InDoctype
  <1>2. /\ Clean(j) /\ (BehindLt(k) => BehindLt(j)) /\ j.lexer = lexer /\ j.reconsume = FALSE
        /\ j.it.start = NextStart(k) /\ Placed(j.it) /\ (k.reconsume => j.it = k.it) /\ j.from = k.from
    BY <1>1, LedFacts, LedLexer, SaneShaped
  <1> HIDE DEF j
  <1>3. AtText(j)
    <2>1. CASE BehindLt(k)
      <3>1. j.from < j.it.start /\ source[j.from] = "<"
        BY <1>2, <2>1 DEF BehindLt
      <3>2. j.from \in Nat /\ j.it.start \in Nat
        BY <1>2, PlacedFacts, SourceFacts DEF Clean, InDoctype, Sane
      <3> QED
        BY <3>1, <3>2 DEF AtText
    <2>2. CASE k.reconsume /\ AtText(k)
      BY <1>2, <2>2 DEF AtText
    <2>3. CASE k.it.current = EOF
      <3>1. Placed(k.it)
        BY <1>1 DEF Sane
      <3>2. k.it.start = Len(source) + 1 /\ IsPlace(k.it.start) /\ Len(source) \in Nat
        BY <2>3, <3>1, PlacedFacts, SourceFacts
      <3>3. NextStart(k) = Len(source) + 1
        BY <3>2, AfterIsPlace DEF NextStart
      <3>4. j.it.current = EOF
        BY <1>2, <3>3, PlacedFacts
      <3> QED
        BY <3>4 DEF AtText, EOF
    <2> QED
      BY <2>1, <2>2, <2>3
  <1>4. Reading(j)
    BY <1>2, <1>3, LexerClasses DEF Reading, LtLexers, TagLexers
  <1> QED
    BY <1>4, GoesOn DEF j

\* Behind a less-than sign, which is all that is in the temporary buffer.
LEMMA GoesLt ==
    ASSUME TextIsRead, phase = "lexing", NEW k, Clean(k), AtText(k), k.it.current = "<",
           k.reconsume = FALSE, NEW lexer \in LtLexers, Goes(lexer, TagBegins(k))
    PROVE  Stepped
  <1> DEFINE b == TagBegins(k)
             j == Led(lexer, b)
  <1>1. /\ Clean(b) /\ b.it.start = k.it.start /\ b.it.current = "<"
        /\ b.tmp = <<"<">> /\ b.script = <<>> /\ b.reconsume = FALSE /\ b.from = k.from
        /\ TracedOn(b)
    BY TagBeginsTraced
  <1> HIDE DEF b
  <1>2. /\ Clean(j) /\ Traced(j) /\ j.lexer = lexer /\ j.reconsume = FALSE
        /\ j.it.start = NextStart(b) /\ j.from = k.from /\ j.tmp = <<"<">> /\ j.script = <<>>
    <2>1. Sane(b)
      BY <1>1 DEF Clean, InDoctype
    <2> QED
      BY <1>1, <2>1, LedFacts, LedLexer, SaneShaped
  <1> HIDE DEF j
  <1>3. BehindLt(j)
    <2>1. Placed(k.it) /\ k.from \in Nat
      BY SourceFacts DEF Clean, InDoctype, Sane
    <2>2. k.it.start <= Len(source) /\ IsPlace(k.it.start)
      BY <2>1, PlacedFacts
    <2>3. j.it.start > k.it.start /\ j.it.start \in Nat /\ k.it.start \in Nat
      BY <1>1, <1>2, <2>2, AfterIsPlace DEF NextStart
    <2>4. k.from <= k.it.start /\ source[k.from] = "<"
      BY DEF AtText
    <2> QED
      BY <1>2, <2>1, <2>3, <2>4 DEF BehindLt
  <1>4. Reading(j)
    BY <1>2, <1>3, LexerClasses DEF Reading, Lexers, LtLexers, TagLexers
  <1> QED
    BY <1>4, GoesOn DEF j, b

\* Behind the slash, which is in the temporary buffer as well.
LEMMA GoesEndTagOpen ==
    ASSUME TextIsRead, phase = "lexing", NEW k, Clean(k), BehindLt(k), TracedOn(k),
           k.tmp = <<"<", "/">>, NEW lexer \in EndTagLexers, Goes(lexer, k)
    PROVE  Stepped
  <1> DEFINE j == Led(lexer, k)
  <1>1. Sane(k)
    BY DEF Clean, InDoctype
  <1>2. /\ Clean(j) /\ BehindLt(j) /\ Traced(j) /\ j.lexer = lexer /\ j.reconsume = FALSE
        /\ j.tmp = <<"<", "/">>
    BY <1>1, LedFacts, LedLexer, SaneShaped
  <1> HIDE DEF j
  <1>3. Reading(j)
    BY <1>2, LexerClasses DEF Reading, Lexers, LtLexers, TagLexers
  <1> QED
    BY <1>3, GoesOn DEF j

\* In the name of what may be an end tag.
LEMMA GoesName ==
    ASSUME TextIsRead, phase = "lexing", NEW k, InTag(k), TracedOn(k),
           Len(k.tmp) >= 2, ~k.is_start, NEW lexer \in NameLexers, Goes(lexer, k)
    PROVE  Stepped
  <1> DEFINE j == Led(lexer, k)
  <1>1. Sane(k)
    BY DEF InTag
  <1>2. /\ InTag(j) /\ Traced(j) /\ j.lexer = lexer /\ j.reconsume = FALSE
        /\ Len(j.tmp) >= 2 /\ ~j.is_start
    BY <1>1, LedFacts, LedLexer, SaneShaped
  <1> HIDE DEF j
  <1>3. Reading(j)
    BY <1>2, LexerClasses DEF Reading, Lexers, LtLexers, TagLexers
  <1> QED
    BY <1>3, GoesOn DEF j

\* In a tag.
LEMMA GoesTag ==
    ASSUME TextIsRead, phase = "lexing", NEW k, InTag(k),
           NEW lexer \in TagLexers \ {"CHAR_REF_IN_ATTR_VALUE"}, Goes(lexer, k)
    PROVE  Stepped
  <1> DEFINE j == Led(lexer, k)
  <1>1. Sane(k)
    BY DEF InTag
  <1>2. /\ InTag(j) /\ j.lexer = lexer /\ j.reconsume = FALSE
    BY <1>1, LedFacts, LedLexer, SaneShaped
  <1> HIDE DEF j
  <1>3. Reading(j)
    BY <1>2, LexerClasses DEF Reading, Lexers, LtLexers, TagLexers
  <1> QED
    BY <1>3, GoesOn DEF j

\* At a reference in a value: the state to return to is known.
LEMMA GoesValueReference ==
    ASSUME TextIsRead, phase = "lexing", NEW k, InTag(k), k.value_state \in ValueLexers,
           NEW lexer \in {"CHAR_REF_IN_ATTR_VALUE"}, Goes(lexer, k)
    PROVE  Stepped
  <1> DEFINE j == Led(lexer, k)
  <1>1. Sane(k)
    BY DEF InTag
  <1>2. /\ InTag(j) /\ j.lexer = lexer /\ j.reconsume = FALSE
        /\ j.value_state \in ValueLexers
    BY <1>1, LedFacts, LedLexer, SaneShaped
  <1> HIDE DEF j
  <1>3. Reading(j)
    BY <1>2, LexerClasses DEF Reading, Lexers, LtLexers, TagLexers
  <1> QED
    BY <1>3, GoesOn DEF j

\* In a comment, or at a reference in text.
LEMMA GoesComment ==
    ASSUME TextIsRead, phase = "lexing", NEW k, Clean(k),
           NEW lexer \in CommentLexers \cup {"CHAR_REF_IN_DATA", "CHAR_REF_IN_RCDATA"}, Goes(lexer, k)
    PROVE  Stepped
  <1> DEFINE j == Led(lexer, k)
  <1>1. Sane(k)
    BY DEF Clean, InDoctype
  <1>2. /\ Clean(j) /\ j.lexer = lexer /\ j.reconsume = FALSE
    BY <1>1, LedFacts, LedLexer, SaneShaped
  <1> HIDE DEF j
  <1>3. Reading(j)
    BY <1>2, LexerClasses DEF Reading, Lexers, LtLexers, TagLexers
  <1> QED
    BY <1>3, GoesOn DEF j

\* Behind the exclamation mark, with an empty temporary buffer.
LEMMA GoesDeclaration ==
    ASSUME TextIsRead, phase = "lexing", NEW k, Clean(k), BehindLt(k), k.tmp = <<>>,
           NEW lexer \in {"MARKUP_DECLARATION"}, Goes(lexer, k)
    PROVE  Stepped
  <1> DEFINE j == Led(lexer, k)
  <1>1. Sane(k)
    BY DEF Clean, InDoctype
  <1>2. /\ Clean(j) /\ BehindLt(j) /\ j.lexer = lexer /\ j.reconsume = FALSE
        /\ j.tmp = <<>>
    BY <1>1, LedFacts, LedLexer, SaneShaped
  <1> HIDE DEF j
  <1>3. Reading(j)
    BY <1>2, LexerClasses DEF Reading, Lexers, LtLexers, TagLexers
  <1> QED
    BY <1>3, GoesOn DEF j

\* In a doctype.
LEMMA GoesDoctype ==
    ASSUME TextIsRead, phase = "lexing", NEW k, InDoctype(k),
           NEW lexer \in DoctypeLexers, Goes(lexer, k)
    PROVE  Stepped
  <1> DEFINE j == Led(lexer, k)
  <1>1. Sane(k)
    BY DEF InDoctype
  <1>2. /\ InDoctype(j) /\ j.lexer = lexer /\ j.reconsume = FALSE
    BY <1>1, LedFacts, LedLexer, SaneShaped
  <1> HIDE DEF j
  <1>3. Reading(j)
    BY <1>2, LexerClasses DEF Reading, Lexers, LtLexers, TagLexers
  <1> QED
    BY <1>3, GoesOn DEF j

\* In a doctype, between its parts: the temporary buffer is empty.
LEMMA GoesEmptyDoctype ==
    ASSUME TextIsRead, phase = "lexing", NEW k, InDoctype(k), k.tmp = <<>>,
           NEW lexer \in EmptyDoctypeLexers, Goes(lexer, k)
    PROVE  Stepped
  <1> DEFINE j == Led(lexer, k)
  <1>1. Sane(k)
    BY DEF InDoctype
  <1>2. /\ InDoctype(j) /\ j.lexer = lexer /\ j.reconsume = FALSE
        /\ j.tmp = <<>>
    BY <1>1, LedFacts, LedLexer, SaneShaped
  <1> HIDE DEF j
  <1>3. Reading(j)
    BY <1>2, LexerClasses DEF Reading, Lexers, LtLexers, TagLexers
  <1> QED
    BY <1>3, GoesOn DEF j

-----------------------------------------------------------------------------
(***************************************************************************)
(* Text.                                                                   *)
(***************************************************************************)
\* In a handler.
Lexing == TextIsRead /\ phase = "lexing" /\ Reading(tokenizer)

InText == Lexing /\ tokenizer.lexer \in TextLexers

\* What is known in text.
LEMMA InTextFacts ==
    ASSUME InText
    PROVE  TextIsRead /\ phase = "lexing" /\ Clean(tokenizer) /\ AtText(tokenizer)
           /\ tokenizer.reconsume = FALSE /\ Sane(tokenizer)
  BY DEF InText, Lexing, Reading, Clean, InDoctype

\* A character of the text is returned.
LEMMA TextEmits ==
    ASSUME InText, NEW lexer \in ReturnLexers,
           EmitsText(lexer) \/ Returns(lexer, emit_current_char(tokenizer))
    PROVE  Stepped
  <1> DEFINE k == IF current = NUL THEN emit_replacement_char(tokenizer)
                                   ELSE emit_current_char(tokenizer)
  <1>1. TextIsRead /\ Clean(tokenizer)
    BY InTextFacts
  <1>2. Done(emit_current_char(tokenizer)) /\ Done(emit_replacement_char(tokenizer))
    BY <1>1, EmitTextDone
  <1>3. Done(k)
    BY <1>2
  <1>4. Returns(lexer, k) \/ Returns(lexer, emit_current_char(tokenizer))
    BY DEF EmitsText
  <1> HIDE DEF k
  <1> QED
    BY <1>1, <1>2, <1>3, <1>4, ReturnsDone

\* A tag may begin.
LEMMA TextLt ==
    ASSUME InText, current = "<", NEW lexer \in LtLexers, Goes(lexer, TagBegins(tokenizer))
    PROVE  Stepped
  BY InTextFacts, GoesLt DEF current

\* The character belongs to another state of the text.
LEMMA TextGoes ==
    ASSUME InText, NEW lexer \in TextLexers,
           Goes(lexer, Reconsumed(tokenizer)) \/ (current = EOF /\ Goes(lexer, tokenizer))
    PROVE  Stepped
  <1>1. TextIsRead /\ phase = "lexing" /\ Clean(tokenizer) /\ AtText(tokenizer) /\ Sane(tokenizer)
    BY InTextFacts
  <1>2. CASE Goes(lexer, Reconsumed(tokenizer))
    <2>1. /\ Clean(Reconsumed(tokenizer)) /\ AtText(Reconsumed(tokenizer))
          /\ Reconsumed(tokenizer).reconsume
      BY <1>1, ReconsumedSane
    <2> QED
      BY <1>1, <1>2, <2>1, GoesText
  <1>3. CASE current = EOF /\ Goes(lexer, tokenizer)
    BY <1>1, <1>3, GoesText DEF current
  <1> QED
    BY <1>2, <1>3

\* A reference begins.
LEMMA TextReference ==
    ASSUME InText, NEW lexer \in {"CHAR_REF_IN_DATA", "CHAR_REF_IN_RCDATA"},
           Goes(lexer, Reconsumed(tokenizer))
    PROVE  Stepped
  <1>1. Clean(Reconsumed(tokenizer))
    BY InTextFacts, ReconsumedSane
  <1> QED
    BY <1>1, InTextFacts, GoesComment

\* The states of raw text, script and all other text.
LEMMA PlainTextSteps ==
    ASSUME Lexing,
           \/ handle_data_state \/ handle_rcdata_state \/ handle_rawtext_state
           \/ handle_script_state \/ handle_plaintext_state
    PROVE  Stepped
  <1>1. CASE handle_data_state
    BY <1>1, TextEmits, TextLt, TextReference
       DEF handle_data_state, In, InText, TextLexers, ReturnLexers, LtLexers
  <1>2. CASE handle_rcdata_state
    BY <1>2, TextEmits, TextLt, TextReference
       DEF handle_rcdata_state, In, InText, TextLexers, ReturnLexers, LtLexers
  <1>3. CASE handle_rawtext_state
    BY <1>3, TextEmits, TextLt
       DEF handle_rawtext_state, In, InText, TextLexers, ReturnLexers, LtLexers
  <1>4. CASE handle_script_state
    BY <1>4, TextEmits, TextLt
       DEF handle_script_state, In, InText, TextLexers, ScriptLexers, ReturnLexers, LtLexers
  <1>5. CASE handle_plaintext_state
    BY <1>5, TextEmits DEF handle_plaintext_state, In, InText, TextLexers, ReturnLexers
  <1> QED
    BY <1>1, <1>2, <1>3, <1>4, <1>5

\* Script in a comment, before a tag in it.
LEMMA EscapedSteps ==
    ASSUME Lexing,
           \/ handle_script_escaped_start_state \/ handle_script_escaped_start_dash_state
           \/ handle_script_escaped_state \/ handle_script_escaped_dash_state
           \/ handle_script_escaped_dash_dash_state
    PROVE  Stepped
  <1> USE DEF In, InText, TextLexers, ScriptLexers, ReturnLexers
  <1>1. CASE handle_script_escaped_start_state
    BY <1>1, TextEmits, TextGoes DEF handle_script_escaped_start_state, EscapedStart
  <1>2. CASE handle_script_escaped_start_dash_state
    BY <1>2, TextEmits, TextGoes DEF handle_script_escaped_start_dash_state, EscapedStart
  <1>3. CASE handle_script_escaped_state
    BY <1>3, TextEmits, TextLt DEF handle_script_escaped_state, LtLexers
  <1>4. CASE handle_script_escaped_dash_state
    BY <1>4, TextEmits, TextLt, TextGoes DEF handle_script_escaped_dash_state, LtLexers
  <1>5. CASE handle_script_escaped_dash_dash_state
    BY <1>5, TextEmits, TextLt, TextGoes DEF handle_script_escaped_dash_dash_state, LtLexers
  <1> QED
    BY <1>1, <1>2, <1>3, <1>4, <1>5

\* The name of a tag in script.
LEMMA NamesScriptSteps ==
    ASSUME InText, NEW here \in ReturnLexers, NEW script \in ReturnLexers, NEW other \in ReturnLexers,
           NEW interrupted \in TextLexers, NamesScript(here, script, other, interrupted)
    PROVE  Stepped
  <1> DEFINE k == append_to_script_data_buffer(tokenizer, current)
             named == IF tokenizer.script = kScriptTag THEN script ELSE other
  <1>1. named \in ReturnLexers
    OBVIOUS
  <1>2. Done(emit_current_char(k))
    <2>1. Like(k, tokenizer)
      BY InTextFacts, SaneShaped, SettersLike
    <2> QED
      BY <2>1, InTextFacts, LikeKeeps, EmitTextDone
  <1>3. \/ Returns(named, emit_current_char(tokenizer))
        \/ Returns(here, emit_current_char(k))
        \/ Goes(interrupted, Reconsumed(tokenizer))
    BY DEF NamesScript
  <1> HIDE DEF k, named
  <1> QED
    BY <1>1, <1>2, <1>3, InTextFacts, TextEmits, TextGoes, ReturnsDone

\* Script in a comment, behind a script tag in it.
LEMMA DoubleEscapedSteps ==
    ASSUME Lexing,
           \/ handle_script_double_escaped_start_state \/ handle_script_double_escaped_state
           \/ handle_script_double_escaped_dash_state \/ handle_script_double_escaped_dash_dash_state
           \/ handle_script_double_escaped_lt_state \/ handle_script_double_escaped_end_state
    PROVE  Stepped
  <1>0. ScriptLexers \subseteq TextLexers /\ TextLexers \subseteq ReturnLexers /\ "DATA" \in TextLexers
    BY DEF TextLexers, ReturnLexers
  <1> USE DEF In, ScriptLexers
  <1>1. CASE handle_script_double_escaped_start_state
    <2>1. InText
      BY <1>0, <1>1 DEF handle_script_double_escaped_start_state, NamesScript, InText
    <2> QED
      BY <1>0, <1>1, <2>1, NamesScriptSteps DEF handle_script_double_escaped_start_state
  <1>2. ASSUME NEW here \in ScriptLexers, NEW after_dash \in ScriptLexers,
               DoubleEscaped(here, after_dash)
        PROVE  Stepped
    <2>1. InText
      BY <1>0, <1>2 DEF DoubleEscaped, InText
    <2> QED
      BY <1>0, <1>2, <2>1, TextEmits, TextGoes DEF DoubleEscaped
  <1>3. CASE handle_script_double_escaped_state
    BY <1>2, <1>3 DEF handle_script_double_escaped_state
  <1>4. CASE handle_script_double_escaped_dash_state
    BY <1>2, <1>4 DEF handle_script_double_escaped_dash_state
  <1>5. CASE handle_script_double_escaped_dash_dash_state
    BY <1>0, <1>2, <1>5, TextEmits DEF handle_script_double_escaped_dash_dash_state, InText
  <1>6. CASE handle_script_double_escaped_lt_state
    <2>1. InText
      BY <1>0, <1>6 DEF handle_script_double_escaped_lt_state, InText
    <2> DEFINE k == [tokenizer EXCEPT !.script = <<>>]
    <2>2. Done(emit_current_char(k))
      <3>1. Like(k, tokenizer)
        BY <2>1, InTextFacts, SaneShaped, SettersLike
      <3> QED
        BY <2>1, <3>1, InTextFacts, LikeKeeps, EmitTextDone
    <2>3. \/ Returns("SCRIPT_DOUBLE_ESCAPED_END", emit_current_char(k))
          \/ Goes("SCRIPT_DOUBLE_ESCAPED", Reconsumed(tokenizer))
      BY <1>6 DEF handle_script_double_escaped_lt_state
    <2> HIDE DEF k
    <2> QED
      BY <1>0, <2>1, <2>2, <2>3, InTextFacts, TextGoes, ReturnsDone
  <1>7. CASE handle_script_double_escaped_end_state
    <2>1. InText
      BY <1>0, <1>7 DEF handle_script_double_escaped_end_state, NamesScript, InText
    <2> QED
      BY <1>0, <1>7, <2>1, NamesScriptSteps DEF handle_script_double_escaped_end_state
  <1> QED
    BY <1>1, <1>3, <1>4, <1>5, <1>6, <1>7

\* References in text.
LEMMA ReferenceSteps ==
    ASSUME Lexing, handle_char_ref_in_data_state \/ handle_char_ref_in_rcdata_state
    PROVE  Stepped
  <1>1. TextIsRead /\ Clean(tokenizer)
    BY DEF Lexing, Reading, In, handle_char_ref_in_data_state, handle_char_ref_in_rcdata_state
  <1>2. Done(emit_char_ref(tokenizer, " "))
    BY <1>1, EmitCharRefDone
  <1> QED
    BY <1>1, <1>2, ReturnsDone
       DEF handle_char_ref_in_data_state, handle_char_ref_in_rcdata_state, ReturnLexers, TextLexers

-----------------------------------------------------------------------------
(***************************************************************************)
(* The end tag in raw text.                                                *)
(***************************************************************************)

\* Something is behind the less-than sign: it is in the text.
LEMMA BehindLtFacts ==
    ASSUME Lexing, tokenizer.lexer \in LtLexers \cup EndTagLexers
    PROVE  /\ TextIsRead /\ phase = "lexing" /\ Clean(tokenizer) /\ Sane(tokenizer)
           /\ Shaped(tokenizer) /\ tokenizer.fault = FALSE /\ tokenizer.owned = {}
           /\ tokenizer.doctype = doc_type_state_init
           /\ BehindLt(tokenizer) /\ Traced(tokenizer) /\ tokenizer.reconsume = FALSE
           /\ tokenizer.lexer \in LtLexers => tokenizer.tmp = <<"<">>
           /\ tokenizer.lexer \in EndTagLexers => tokenizer.tmp = <<"<", "/">>
  BY SaneShaped DEF Lexing, Reading, Clean, InDoctype

\* The less-than sign and the character behind it.
LEMMA TwoCharacters ==
    ASSUME NEW c \in Chars, NEW d \in Chars
    PROVE  <<c>> \o <<d>> = <<c, d>>
  <1> DEFINE s == <<c>> \o <<d>>
             t == <<c, d>>
  <1>1. s \in Seq(Chars) /\ Len(s) = 2 /\ s[1] = c /\ s[2] = d
    OBVIOUS
  <1>2. t \in Seq(Chars) /\ Len(t) = 2 /\ t[1] = c /\ t[2] = d
    OBVIOUS
  <1> HIDE DEF s, t
  <1>3. \A i \in 1 .. Len(s) : s[i] = t[i]
    BY <1>1, <1>2
  <1>4. s = t
    BY <1>1, <1>2, <1>3, SeqEqual
  <1> QED
    BY <1>4 DEF s, t

\* What was taken for a tag is text.
LEMMA TextAfterAll ==
    ASSUME TextIsRead, NEW k, Clean(k), Trailed(k), k.tmp # <<>>,
           NEW lexer \in ReturnLexers, Returns(lexer, emit_temporary_buffer(k))
    PROVE  Stepped
  <1>1. Sane(k) /\ k.owned = {} /\ k.doctype = doc_type_state_init
    BY DEF Clean, InDoctype
  <1>2. Done(emit_temporary_buffer(k))
    BY <1>1, EmitTemporaryDone
  <1> QED
    BY <1>2, ReturnsDone

\* The solidus of an end tag.
LEMMA SolidusSteps ==
    ASSUME Lexing, tokenizer.lexer \in LtLexers, current = "/",
           NEW lexer \in EndTagLexers, Goes(lexer, append_to_temporary_buffer(tokenizer, <<"/">>))
    PROVE  Stepped
  <1> DEFINE k == append_to_temporary_buffer(tokenizer, <<"/">>)
  <1>1. /\ TextIsRead /\ phase = "lexing" /\ Clean(tokenizer) /\ Sane(tokenizer)
        /\ BehindLt(tokenizer) /\ Traced(tokenizer) /\ tokenizer.reconsume = FALSE
        /\ tokenizer.tmp = <<"<">>
    BY BehindLtFacts
  <1>2. <<"/">> \in Seq(Chars)
    BY DEF Chars
  <1>3. /\ Clean(k) /\ BehindLt(k) /\ k.tmp = tokenizer.tmp \o <<"/">> /\ k.it = tokenizer.it
        /\ k.reconsume = FALSE
    BY <1>1, <1>2, AppendSane
  <1>4. tokenizer.it.current = "/"
    BY DEF current
  <1> HIDE DEF k
  <1>5. TracedOn(k)
    BY <1>1, <1>3, <1>4, TraceAppends
  <1>6. k.tmp = <<"<", "/">>
    <2>1. <<"<">> \o <<"/">> = <<"<", "/">>
      BY TwoCharacters DEF Chars
    <2> QED
      BY <1>1, <1>3, <2>1
  <1> QED
    BY <1>1, <1>3, <1>5, <1>6, GoesEndTagOpen DEF k

\* Behind a less-than sign in raw text.
LEMMA LessThanSignSteps ==
    ASSUME Lexing, NEW here \in LtLexers, NEW end_tag_open \in EndTagLexers,
           NEW text \in ReturnLexers, LessThanSign(here, end_tag_open, text)
    PROVE  Stepped
  <1>1. tokenizer.lexer \in LtLexers
    BY DEF LessThanSign, In
  <1>2. /\ TextIsRead /\ Clean(tokenizer) /\ Traced(tokenizer) /\ tokenizer.tmp = <<"<">>
        /\ Shaped(tokenizer) /\ tokenizer.fault = FALSE /\ Sane(tokenizer)
    BY <1>1, BehindLtFacts
  <1>3. Requires(tokenizer, tokenizer.tmp = <<"<">>) = tokenizer
    BY <1>2, RequiresHolds
  <1>4. CASE current = "/" /\ Goes(end_tag_open, append_to_temporary_buffer(tokenizer, <<"/">>))
    BY <1>1, <1>4, SolidusSteps
  <1>5. CASE Returns(text, emit_temporary_buffer(Reconsumed(tokenizer)))
    <2> DEFINE k == Reconsumed(tokenizer)
    <2>1. Clean(k) /\ k.it = tokenizer.it /\ k.tmp = tokenizer.tmp
      BY <1>2, ReconsumedSane
    <2> HIDE DEF k
    <2>2. Trailed(k) /\ k.tmp # <<>>
      BY <1>2, <2>1, TrailKept
    <2> QED
      BY <1>2, <1>5, <2>1, <2>2, TextAfterAll DEF k
  <1> QED
    BY <1>3, <1>4, <1>5 DEF LessThanSign

\* Behind the slash of an end tag in raw text.
LEMMA EndTagOpenSteps ==
    ASSUME Lexing, NEW here \in EndTagLexers, NEW end_tag_name \in NameLexers,
           NEW text \in ReturnLexers, EndTagOpen(here, end_tag_name, text)
    PROVE  Stepped
  <1>1. tokenizer.lexer \in EndTagLexers
    BY DEF EndTagOpen, In
  <1>2. /\ TextIsRead /\ phase = "lexing" /\ Clean(tokenizer) /\ Traced(tokenizer)
        /\ tokenizer.tmp = <<"<", "/">> /\ BehindLt(tokenizer) /\ tokenizer.reconsume = FALSE
        /\ Shaped(tokenizer) /\ tokenizer.fault = FALSE /\ Sane(tokenizer)
    BY <1>1, BehindLtFacts
  <1>3. Requires(tokenizer, tokenizer.tmp = <<"<", "/">>) = tokenizer
    BY <1>2, RequiresHolds
  <1> DEFINE n == start_new_tag(tokenizer, FALSE)
             k == append_to_temporary_buffer(n, <<current>>)
  <1>4. CASE is_alpha(current) /\ Goes(end_tag_name, k)
    <2>1. /\ InTag(n) /\ n.it = tokenizer.it /\ n.tmp = tokenizer.tmp /\ n.is_start = FALSE
          /\ n.reconsume = FALSE
      BY <1>2, <1>4, StartNewTag DEF current
    <2> HIDE DEF n
    <2>2. <<current>> \in Seq(Chars)
      BY <1>2, CharsFacts DEF current
    <2>3. Sane(n) /\ Traced(n)
      BY <1>2, <2>1, TrailKept DEF InTag
    <2>4. /\ InTag(k) /\ k.tmp = n.tmp \o <<current>> /\ k.it = n.it /\ k.reconsume = FALSE
          /\ k.is_start = FALSE
      BY <2>1, <2>2, <2>3, AppendSane
    <2>5. TracedOn(k)
      <3>1. current = n.it.current
        BY <2>1 DEF current
      <3> QED
        BY <1>2, <2>1, <2>3, <2>4, <3>1, TraceAppends
    <2>6. Len(k.tmp) >= 2
      BY <1>2, <2>1, <2>4
    <2> HIDE DEF k
    <2> QED
      BY <1>2, <1>4, <2>4, <2>5, <2>6, GoesName
  <1>5. CASE Returns(text, emit_temporary_buffer(tokenizer))
    <2>1. Trailed(tokenizer) /\ tokenizer.tmp # <<>>
      BY <1>2, TrailKept
    <2> QED
      BY <1>2, <1>5, <2>1, TextAfterAll
  <1> QED
    BY <1>3, <1>4, <1>5 DEF EndTagOpen

-----------------------------------------------------------------------------
(***************************************************************************)
(* The name of a tag ends.                                                 *)
(***************************************************************************)

\* A handler in a tag goes on.
LEMMA GoesLike ==
    ASSUME TextIsRead, phase = "lexing", InTag(tokenizer), NEW k, Like(k, tokenizer),
           NEW lexer \in TagLexers \ {"CHAR_REF_IN_ATTR_VALUE"},
           Goes(lexer, k) \/ Goes(lexer, Reconsumed(k))
    PROVE  Stepped
  <1>1. InTag(k) /\ Sane(k)
    BY LikeTag DEF InTag
  <1>2. InTag(Reconsumed(k))
    BY <1>1, ReconsumedSane
  <1> QED
    BY <1>1, <1>2, GoesTag

\* It is emitted.
LEMMA ReturnsTag ==
    ASSUME TextIsRead, InTag(tokenizer), tokenizer.reconsume = FALSE, current = ">",
           NEW k, Like(k, tokenizer), Returns("DATA", emit_current_tag(k))
    PROVE  Stepped
  <1>1. InTag(k) /\ k.it = tokenizer.it /\ k.reconsume = FALSE
    BY LikeTag
  <1>2. Done(emit_current_tag(k))
    BY <1>1, EmitTagDone DEF current
  <1> QED
    BY <1>2, ReturnsDone DEF ReturnLexers, TextLexers

\* It is abandoned at the end of the input.
LEMMA AbandonsTag ==
    ASSUME TextIsRead, phase = "lexing", InTag(tokenizer), NEW k, Like(k, tokenizer),
           \/ Goes("DATA", abandon_current_tag(k))
           \/ Goes("DATA", Reconsumed(abandon_current_tag(k)))
    PROVE  Stepped
  <1> DEFINE a == abandon_current_tag(k)
  <1>1. Clean(a) /\ BehindLt(a)
    BY LikeTag, AbandonTag
  <1> HIDE DEF a
  <1>2. Clean(Reconsumed(a)) /\ BehindLt(Reconsumed(a))
    <2>1. Sane(a)
      BY <1>1 DEF Clean, InDoctype
    <2>2. Reconsumed(a).it = a.it /\ Reconsumed(a).from = a.from
      BY <2>1 DEF Reconsumed, Sane, Fields
    <2>3. Clean(Reconsumed(a))
      BY <1>1, <2>1, ReconsumedSane
    <2> QED
      BY <1>1, <2>2, <2>3 DEF BehindLt
  <1> QED
    BY <1>1, <1>2, GoesText DEF TextLexers, a

\* The name is that of the end tag that was looked for.
LEMMA TagNameEndsSteps ==
    ASSUME TextIsRead, phase = "lexing", InTag(tokenizer), tokenizer.reconsume = FALSE,
           TagNameEnds(tokenizer)
    PROVE  Stepped
  <1>1. Like(finish_tag_name(tokenizer), tokenizer)
    BY FinishTagNameLike
  <1> QED
    BY <1>1, GoesLike, ReturnsTag DEF TagNameEnds, TagLexers

\* The name goes on, ends, or turns out to be text.
LEMMA EndTagNameSteps ==
    ASSUME Lexing, NEW here \in NameLexers, NEW text \in ReturnLexers, EndTagName(here, text)
    PROVE  Stepped
  <1>1. tokenizer.lexer \in NameLexers
    BY DEF EndTagName, In
  <1>2. /\ TextIsRead /\ phase = "lexing" /\ InTag(tokenizer) /\ Traced(tokenizer)
        /\ Len(tokenizer.tmp) >= 2 /\ ~tokenizer.is_start /\ tokenizer.reconsume = FALSE
    BY <1>1 DEF Lexing, Reading
  <1>3. Shaped(tokenizer) /\ tokenizer.fault = FALSE /\ Sane(tokenizer)
    BY <1>2, InTagFacts
  <1>4. Requires(tokenizer, Len(tokenizer.tmp) >= 2 /\ ~tokenizer.is_start) = tokenizer
    BY <1>2, <1>3, RequiresHolds
  <1> DEFINE b == append_char_to_tag_buffer(tokenizer, ensure_lowercase(current), TRUE)
             k == append_to_temporary_buffer(b, <<current>>)
             a == abandon_current_tag(tokenizer)
  <1>5. CASE Goes(here, k)
    <2>1. Like(b, tokenizer) /\ InTag(b) /\ b.is_start = tokenizer.is_start
      BY <1>2, AppendCharLike
    <2> HIDE DEF b
    <2>2. b.it = tokenizer.it /\ b.tmp = tokenizer.tmp /\ b.reconsume = FALSE
      BY <1>2, <2>1, LikeFields
    <2>3. <<current>> \in Seq(Chars)
      BY <1>2, <1>3, CharsFacts DEF current
    <2>4. Sane(b) /\ Traced(b)
      BY <1>2, <2>1, <2>2, TrailKept DEF InTag
    <2>5. /\ InTag(k) /\ k.tmp = b.tmp \o <<current>> /\ k.it = b.it /\ k.reconsume = FALSE
          /\ k.is_start = b.is_start
      BY <2>1, <2>2, <2>3, <2>4, AppendSane
    <2>6. TracedOn(k)
      <3>1. current = b.it.current
        BY <2>2 DEF current
      <3> QED
        BY <1>2, <2>2, <2>4, <2>5, <3>1, TraceAppends
    <2>7. Len(k.tmp) >= 2
      <3>1. tokenizer.tmp \in Seq(Chars)
        BY <1>3 DEF Sane
      <3> QED
        BY <1>2, <2>2, <2>3, <2>5, <3>1
    <2> HIDE DEF k
    <2>8. ~k.is_start
      BY <1>2, <2>1, <2>5
    <2> QED
      BY <1>2, <1>5, <2>5, <2>6, <2>7, <2>8, GoesName
  <1>6. CASE TagNameEnds(tokenizer)
    BY <1>2, <1>6, TagNameEndsSteps
  <1>7. CASE Returns(text, emit_temporary_buffer(a))
    <2>1. Clean(a) /\ a.it = tokenizer.it /\ a.tmp = tokenizer.tmp
      BY <1>2, AbandonTag
    <2> HIDE DEF a
    <2>2. Trailed(a) /\ a.tmp # <<>>
      <3>1. Len(a.tmp) # 0
        BY <1>2, <2>1
      <3> QED
        BY <1>2, <2>1, <3>1, TrailKept
    <2> QED
      BY <1>2, <1>7, <2>1, <2>2, TextAfterAll
  <1> QED
    BY <1>4, <1>5, <1>6, <1>7 DEF EndTagName

-----------------------------------------------------------------------------
(***************************************************************************)
(* Each handler of the end tags in raw text.                               *)
(***************************************************************************)

\* The character is put behind the less-than sign, and both are text.
LEMMA LtAndCharacter ==
    ASSUME Lexing, tokenizer.lexer \in LtLexers
    PROVE  LET k == append_to_temporary_buffer(tokenizer, <<current>>)
           IN  Clean(k) /\ Trailed(k) /\ k.tmp # <<>>
  <1> DEFINE k == append_to_temporary_buffer(tokenizer, <<current>>)
  <1>1. /\ TextIsRead /\ Clean(tokenizer) /\ Sane(tokenizer) /\ Traced(tokenizer)
        /\ tokenizer.reconsume = FALSE /\ tokenizer.tmp = <<"<">>
    BY BehindLtFacts
  <1>2. <<current>> \in Seq(Chars)
    BY <1>1, CharsFacts DEF current
  <1>3. /\ Clean(k) /\ k.tmp = tokenizer.tmp \o <<current>> /\ k.it = tokenizer.it
        /\ k.reconsume = FALSE
    BY <1>1, <1>2, AppendSane
  <1>4. k.tmp # <<>>
    BY <1>1, <1>3
  <1> HIDE DEF k
  <1>5. Trailed(k)
    BY <1>1, <1>3, TraceAppends DEF current
  <1> QED
    BY <1>3, <1>4, <1>5 DEF k

\* In script a comment may begin, too.
LEMMA ScriptLtSteps ==
    ASSUME Lexing, handle_script_lt_state
    PROVE  Stepped
  <1>1. CASE LessThanSign("SCRIPT_LT", "SCRIPT_END_TAG_OPEN", "SCRIPT")
    BY <1>1, LessThanSignSteps DEF LtLexers, EndTagLexers, ReturnLexers, TextLexers, ScriptLexers
  <1> DEFINE k == append_to_temporary_buffer(tokenizer, <<"!">>)
  <1>2. CASE /\ In("SCRIPT_LT") /\ current = "!"
             /\ Returns("SCRIPT_ESCAPED_START",
                        emit_temporary_buffer(append_to_temporary_buffer(
                            Requires(tokenizer, tokenizer.tmp = <<"<">>), <<"!">>)))
    <2>1. tokenizer.lexer \in LtLexers /\ k = append_to_temporary_buffer(tokenizer, <<current>>)
      BY <1>2 DEF In, LtLexers
    <2>2. Clean(k) /\ Trailed(k) /\ k.tmp # <<>>
      BY <2>1, LtAndCharacter
    <2>3. TextIsRead /\ Requires(tokenizer, tokenizer.tmp = <<"<">>) = tokenizer
      BY <2>1, BehindLtFacts, RequiresHolds
    <2>4. Returns("SCRIPT_ESCAPED_START", emit_temporary_buffer(k))
      BY <1>2, <2>3
    <2> HIDE DEF k
    <2> QED
      BY <2>2, <2>3, <2>4, TextAfterAll DEF ReturnLexers, TextLexers, ScriptLexers
  <1> QED
    BY <1>1, <1>2 DEF handle_script_lt_state

\* In a comment in script a script tag may begin, too.
LEMMA EscapedLtSteps ==
    ASSUME Lexing, handle_script_escaped_lt_state
    PROVE  Stepped
  <1> DEFINE k == append_to_temporary_buffer(tokenizer, <<current>>)
             s == append_to_script_data_buffer(k, current)
  <1>1. tokenizer.lexer \in LtLexers /\ tokenizer.lexer = "SCRIPT_ESCAPED_LT"
    BY DEF handle_script_escaped_lt_state, In, LtLexers
  <1>2. /\ TextIsRead /\ Clean(tokenizer) /\ Traced(tokenizer) /\ tokenizer.tmp = <<"<">>
        /\ Shaped(tokenizer) /\ tokenizer.fault = FALSE
    BY <1>1, BehindLtFacts
  <1>3. tokenizer.script = <<>>
    BY <1>1 DEF Lexing, Reading
  <1>4. Requires(tokenizer, tokenizer.tmp = <<"<">> /\ tokenizer.script = <<>>) = tokenizer
    BY <1>2, <1>3, RequiresHolds
  <1>5. CASE /\ current = "/"
             /\ Goes("SCRIPT_ESCAPED_END_TAG_OPEN", append_to_temporary_buffer(tokenizer, <<"/">>))
    BY <1>1, <1>5, SolidusSteps DEF EndTagLexers
  <1>6. CASE Returns("SCRIPT_DOUBLE_ESCAPED_START", emit_temporary_buffer(s))
    <2>1. Clean(k) /\ Trailed(k) /\ k.tmp # <<>>
      BY <1>1, LtAndCharacter
    <2> HIDE DEF k
    <2>2. Like(s, k)
      BY <2>1, SaneShaped, SettersLike DEF Clean, InDoctype
    <2> HIDE DEF s
    <2>3. Clean(s) /\ Trailed(s) /\ s.tmp # <<>>
      BY <2>1, <2>2, LikeKeeps, LikeFields, TrailKept
    <2> QED
      BY <1>2, <1>6, <2>3, TextAfterAll DEF ReturnLexers, TextLexers, ScriptLexers
  <1>7. CASE Returns("SCRIPT_ESCAPED", emit_temporary_buffer(tokenizer))
    <2>1. Trailed(tokenizer) /\ tokenizer.tmp # <<>>
      BY <1>2, TrailKept
    <2> QED
      BY <1>2, <1>7, <2>1, TextAfterAll DEF ReturnLexers, TextLexers, ScriptLexers
  <1> QED
    BY <1>4, <1>5, <1>6, <1>7 DEF handle_script_escaped_lt_state

\* The four states of raw text that are behind a less-than sign.
LEMMA LtSteps ==
    ASSUME Lexing,
           \/ handle_rcdata_lt_state \/ handle_rawtext_lt_state \/ handle_script_lt_state
           \/ handle_script_escaped_lt_state
    PROVE  Stepped
  BY LessThanSignSteps, ScriptLtSteps, EscapedLtSteps
     DEF handle_rcdata_lt_state, handle_rawtext_lt_state, LtLexers, EndTagLexers, ReturnLexers,
         TextLexers

\* The four states of raw text that are behind the slash.
LEMMA EndTagOpens ==
    ASSUME Lexing,
           \/ handle_rcdata_end_tag_open_state \/ handle_rawtext_end_tag_open_state
           \/ handle_script_end_tag_open_state \/ handle_script_escaped_end_tag_open_state
    PROVE  Stepped
  BY EndTagOpenSteps
     DEF handle_rcdata_end_tag_open_state, handle_rawtext_end_tag_open_state,
         handle_script_end_tag_open_state, handle_script_escaped_end_tag_open_state,
         EndTagLexers, NameLexers, ReturnLexers, TextLexers, ScriptLexers

\* The four states of raw text that are in a name.
LEMMA EndTagNames ==
    ASSUME Lexing,
           \/ handle_rcdata_end_tag_name_state \/ handle_rawtext_end_tag_name_state
           \/ handle_script_end_tag_name_state \/ handle_script_escaped_end_tag_name_state
    PROVE  Stepped
  BY EndTagNameSteps
     DEF handle_rcdata_end_tag_name_state, handle_rawtext_end_tag_name_state,
         handle_script_end_tag_name_state, handle_script_escaped_end_tag_name_state,
         NameLexers, ReturnLexers, TextLexers, ScriptLexers

\* Every state of text and raw text.
LEMMA TextStatesStep ==
    ASSUME Lexing, TextStates
    PROVE  Stepped
  BY PlainTextSteps, EscapedSteps, DoubleEscapedSteps, ReferenceSteps, LtSteps, EndTagOpens,
     EndTagNames
     DEF TextStates

-----------------------------------------------------------------------------
(***************************************************************************)
(* Tags.                                                                   *)
(***************************************************************************)
InTagState == Lexing /\ tokenizer.lexer \in TagLexers

\* What is known in the states of a tag.
LEMMA InTagStateFacts ==
    ASSUME InTagState
    PROVE  /\ TextIsRead /\ phase = "lexing" /\ InTag(tokenizer) /\ tokenizer.reconsume = FALSE
           /\ Like(tokenizer, tokenizer) /\ Shaped(tokenizer) /\ Sane(tokenizer)
  BY InTagFacts DEF InTagState, Lexing, Reading

\* Where a character leads to, if it is not a reference.
TagGoes(k) ==
    \E lexer \in TagLexers \ {"CHAR_REF_IN_ATTR_VALUE"} : Goes(lexer, k) \/ Goes(lexer, Reconsumed(k))

TagMoves(k) ==
    \/ TagGoes(k)
    \/ current = ">" /\ Returns("DATA", emit_current_tag(k))
    \/ Goes("DATA", abandon_current_tag(k)) \/ Goes("DATA", Reconsumed(abandon_current_tag(k)))

\* What the handlers of a tag do is one of a few things, and keeps the invariant.
LEMMA TagMovesStep ==
    ASSUME InTagState, NEW k, Like(k, tokenizer), TagMoves(k)
    PROVE  Stepped
  BY InTagStateFacts, GoesLike, ReturnsTag, AbandonsTag DEF TagMoves, TagGoes

\* A character of a name or of a value.
LEMMA AppendsChar ==
    ASSUME InTagState, NEW c, NEW first,
           TagGoes(append_char_to_tag_buffer(tokenizer, c, first))
    PROVE  Stepped
  <1> DEFINE k == append_char_to_tag_buffer(tokenizer, c, first)
  <1>1. Like(k, tokenizer)
    BY InTagStateFacts, AppendCharLike
  <1> HIDE DEF k
  <1> QED
    BY <1>1, TagMovesStep DEF TagMoves, k

\* Behind a less-than sign in text.
LEMMA TagOpenSteps ==
    ASSUME Lexing, handle_tag_open_state
    PROVE  Stepped
  <1> DEFINE c == clear_temporary_buffer(tokenizer)
             q == append_to_temporary_buffer(c, <<"?">>)
             n == start_new_tag(tokenizer, TRUE)
  <1>1. tokenizer.lexer \in LtLexers
    BY DEF handle_tag_open_state, In, LtLexers
  <1>2. /\ TextIsRead /\ phase = "lexing" /\ Clean(tokenizer) /\ BehindLt(tokenizer)
        /\ Traced(tokenizer) /\ tokenizer.tmp = <<"<">> /\ Shaped(tokenizer)
        /\ tokenizer.fault = FALSE
    BY <1>1, BehindLtFacts
  <1>3. Requires(tokenizer, tokenizer.tmp = <<"<">>) = tokenizer
    BY <1>2, RequiresHolds
  <1>4. Clean(c) /\ BehindLt(c) /\ c.tmp = <<>> /\ Sane(c)
    BY <1>2, ClearSane DEF Clean, InDoctype
  <1>5. CASE Goes("MARKUP_DECLARATION", c)
    <2> HIDE DEF c
    <2> QED
      BY <1>2, <1>4, <1>5, GoesDeclaration
  <1>6. CASE current = "/" /\ Goes("END_TAG_OPEN", append_to_temporary_buffer(tokenizer, <<"/">>))
    BY <1>1, <1>6, SolidusSteps DEF EndTagLexers
  <1>7. CASE Goes("BOGUS_COMMENT", q)
    <2> HIDE DEF c
    <2>1. <<"?">> \in Seq(Chars)
      BY DEF Chars
    <2>2. Clean(q)
      BY <1>4, <2>1, AppendSane
    <2> HIDE DEF q
    <2> QED
      BY <1>2, <1>7, <2>2, GoesComment DEF CommentLexers
  <1>8. CASE is_alpha(current) /\ Goes("TAG_NAME", n)
    <2>1. InTag(n)
      BY <1>2, <1>8, StartNewTag DEF current
    <2> HIDE DEF n
    <2> QED
      BY <1>2, <1>8, <2>1, GoesTag DEF TagLexers
  <1>9. CASE Returns("DATA", emit_temporary_buffer(tokenizer))
    <2>1. Trailed(tokenizer) /\ tokenizer.tmp # <<>>
      BY <1>2, TrailKept
    <2> QED
      BY <1>2, <1>9, <2>1, TextAfterAll DEF ReturnLexers, TextLexers
  <1> QED
    BY <1>3, <1>5, <1>6, <1>7, <1>8, <1>9 DEF handle_tag_open_state

\* Behind the slash of an end tag in text.
LEMMA EndTagOpenState ==
    ASSUME Lexing, handle_end_tag_open_state
    PROVE  Stepped
  <1> DEFINE c == clear_temporary_buffer(tokenizer)
             q == append_to_temporary_buffer(c, <<current>>)
             n == start_new_tag(tokenizer, FALSE)
  <1>1. tokenizer.lexer \in EndTagLexers
    BY DEF handle_end_tag_open_state, In, EndTagLexers
  <1>2. /\ TextIsRead /\ phase = "lexing" /\ Clean(tokenizer) /\ BehindLt(tokenizer)
        /\ Traced(tokenizer) /\ tokenizer.tmp = <<"<", "/">> /\ Shaped(tokenizer)
        /\ tokenizer.fault = FALSE /\ Sane(tokenizer)
    BY <1>1, BehindLtFacts
  <1>3. Requires(tokenizer, tokenizer.tmp = <<"<", "/">>) = tokenizer
    BY <1>2, RequiresHolds
  <1>4. CASE Goes("DATA", tokenizer)
    BY <1>2, <1>4, GoesText DEF TextLexers
  <1>5. CASE Returns("DATA", emit_temporary_buffer(tokenizer))
    <2>1. Trailed(tokenizer) /\ tokenizer.tmp # <<>>
      BY <1>2, TrailKept
    <2> QED
      BY <1>2, <1>5, <2>1, TextAfterAll DEF ReturnLexers, TextLexers
  <1>6. CASE is_alpha(current) /\ Goes("TAG_NAME", n)
    <2>1. InTag(n)
      BY <1>2, <1>6, StartNewTag DEF current
    <2> HIDE DEF n
    <2> QED
      BY <1>2, <1>6, <2>1, GoesTag DEF TagLexers
  <1>7. CASE Goes("BOGUS_COMMENT", q)
    <2>1. Clean(c) /\ Sane(c)
      BY <1>2, ClearSane DEF Clean, InDoctype
    <2> HIDE DEF c
    <2>2. <<current>> \in Seq(Chars)
      BY <1>2, CharsFacts DEF current
    <2>3. Clean(q)
      BY <2>1, <2>2, AppendSane
    <2> HIDE DEF q
    <2> QED
      BY <1>2, <1>7, <2>3, GoesComment DEF CommentLexers
  <1> QED
    BY <1>3, <1>4, <1>5, <1>6, <1>7 DEF handle_end_tag_open_state

\* The name of a tag.
LEMMA TagNameSteps ==
    ASSUME Lexing, handle_tag_name_state
    PROVE  Stepped
  <1>1. InTagState
    BY DEF handle_tag_name_state, In, InTagState, TagLexers
  <1>2. CASE TagNameEnds(tokenizer)
    BY <1>1, <1>2, InTagStateFacts, TagNameEndsSteps
  <1>3. CASE Abandons
    BY <1>1, <1>3, InTagStateFacts, TagMovesStep DEF Abandons, TagMoves
  <1>4. CASE Goes("TAG_NAME", append_char_to_tag_buffer(tokenizer, InName(current), TRUE))
    BY <1>1, <1>4, AppendsChar DEF TagGoes, TagLexers
  <1> QED
    BY <1>2, <1>3, <1>4 DEF handle_tag_name_state

\* An attribute begins.
LEMMA NameBeginsStep ==
    ASSUME InTagState, Goes("ATTR_NAME", NameBegins)
    PROVE  Stepped
  <1> DEFINE t == append_to_temporary_buffer(tokenizer, <<Replacement>>)
             b == append_char_to_tag_buffer(tokenizer, ensure_lowercase(current), TRUE)
  <1>1. CASE Goes("ATTR_NAME", t)
    <2>1. <<Replacement>> \in Seq(Chars)
      BY DEF Chars
    <2>2. InTag(t)
      BY <2>1, InTagStateFacts, AppendSane
    <2> HIDE DEF t
    <2> QED
      BY <1>1, <2>2, InTagStateFacts, GoesTag DEF TagLexers
  <1>2. CASE Goes("ATTR_NAME", b)
    BY <1>2, AppendsChar DEF TagGoes, TagLexers
  <1> QED
    BY <1>1, <1>2 DEF NameBegins

\* The names of attributes.
LEMMA AttributeNameSteps ==
    ASSUME Lexing,
           handle_before_attr_name_state \/ handle_attr_name_state \/ handle_after_attr_name_state
    PROVE  Stepped
  <1> DEFINE named == finish_attribute_name(tokenizer)
  <1>1. InTagState
    BY DEF handle_before_attr_name_state, handle_attr_name_state, handle_after_attr_name_state,
           In, InTagState, TagLexers
  <1>2. Like(named, tokenizer) /\ Like(tokenizer, tokenizer)
    BY <1>1, InTagStateFacts, FinishAttributeNameLike
  <1>3. CASE handle_before_attr_name_state
    <2>1. TagMoves(tokenizer) \/ Goes("ATTR_NAME", NameBegins)
      BY <1>3 DEF handle_before_attr_name_state, Abandons, TagMoves, TagGoes, TagLexers
    <2> QED
      BY <1>1, <1>2, <2>1, TagMovesStep, NameBeginsStep
  <1>4. CASE handle_attr_name_state
    <2> HIDE DEF named
    <2>1. \/ TagMoves(tokenizer) \/ TagMoves(named)
          \/ TagGoes(append_char_to_tag_buffer(tokenizer, InName(current), TRUE))
      BY <1>4 DEF handle_attr_name_state, Abandons, TagMoves, TagGoes, TagLexers, named
    <2> QED
      BY <1>1, <1>2, <2>1, TagMovesStep, AppendsChar
  <1>5. CASE handle_after_attr_name_state
    <2>1. TagMoves(tokenizer) \/ Goes("ATTR_NAME", NameBegins)
      BY <1>5 DEF handle_after_attr_name_state, Abandons, TagMoves, TagGoes, TagLexers
    <2> QED
      BY <1>1, <1>2, <2>1, TagMovesStep, NameBeginsStep
  <1> QED
    BY <1>3, <1>4, <1>5

\* Behind the equals sign.
LEMMA BeforeValueSteps ==
    ASSUME Lexing, handle_before_attr_value_state
    PROVE  Stepped
  <1> DEFINE r == reset_tag_buffer_start_point(tokenizer)
  <1>1. InTagState
    BY DEF handle_before_attr_value_state, In, InTagState, TagLexers
  <1>2. Like(r, tokenizer) /\ Like(tokenizer, tokenizer)
    BY <1>1, InTagStateFacts, SettersLike
  <1> HIDE DEF r
  <1>3. \/ TagMoves(tokenizer) \/ TagMoves(r)
        \/ TagGoes(append_char_to_tag_buffer(tokenizer, InValue(current), TRUE))
    BY DEF handle_before_attr_value_state, TagMoves, TagGoes, TagLexers, ValueLexers, r
  <1> QED
    BY <1>1, <1>2, <1>3, TagMovesStep, AppendsChar

\* A value goes on, has a reference, or ends with the input.
LEMMA ValueGoesOnStep ==
    ASSUME InTagState, NEW here \in ValueLexers, NEW ends, NEW is_unquoted,
           ValueGoesOn(here, ends, is_unquoted)
    PROVE  Stepped
  <1> DEFINE v == [tokenizer EXCEPT !.value_state = here]
  <1>0. here \in TagLexers \ {"CHAR_REF_IN_ATTR_VALUE"}
    BY DEF TagLexers, ValueLexers
  <1>1. CASE Goes("CHAR_REF_IN_ATTR_VALUE", Reconsumed(v))
    <2>1. Like(v, tokenizer) /\ v.value_state = here
      BY InTagStateFacts, SettersLike
    <2> HIDE DEF v
    <2>2. InTag(v)
      BY <2>1, InTagStateFacts, LikeTag
    <2>3. InTag(Reconsumed(v))
      BY <2>2, InTagFacts, ReconsumedSane
    <2>4. Reconsumed(v).value_state = here
      BY <2>1, <2>2, InTagFacts DEF Reconsumed, Shaped, Fields
    <2> QED
      BY <1>1, <2>3, <2>4, InTagStateFacts, GoesValueReference
  <1>2. CASE Goes("DATA", Reconsumed(abandon_current_tag(tokenizer)))
    BY <1>2, InTagStateFacts, TagMovesStep DEF TagMoves
  <1>3. CASE Goes(here, append_char_to_tag_buffer(tokenizer, InValue(current), is_unquoted))
    BY <1>0, <1>3, AppendsChar DEF TagGoes
  <1> QED
    BY <1>1, <1>2, <1>3 DEF ValueGoesOn

\* The values of attributes.
LEMMA ValueSteps ==
    ASSUME Lexing,
           \/ handle_attr_value_double_quoted_state \/ handle_attr_value_single_quoted_state
           \/ handle_attr_value_unquoted_state
    PROVE  Stepped
  <1> DEFINE valued == finish_attribute_value(tokenizer)
  <1>1. ASSUME NEW here \in ValueLexers, NEW quote, Quoted(here, quote) PROVE Stepped
    <2>1. InTagState
      BY <1>1 DEF Quoted, In, InTagState, TagLexers
    <2>2. CASE Goes("AFTER_ATTR_VALUE_QUOTED", tokenizer)
      BY <2>1, <2>2, InTagStateFacts, TagMovesStep DEF TagMoves, TagGoes, TagLexers
    <2>3. CASE ValueGoesOn(here, {quote}, FALSE)
      BY <2>1, <2>3, ValueGoesOnStep
    <2> QED
      BY <1>1, <2>2, <2>3 DEF Quoted
  <1>2. CASE handle_attr_value_unquoted_state
    <2>1. InTagState
      BY <1>2 DEF handle_attr_value_unquoted_state, In, InTagState, TagLexers, ValueLexers
    <2>2. Like(valued, tokenizer)
      BY <2>1, InTagStateFacts, FinishAttributeValueLike
    <2> HIDE DEF valued
    <2>3. TagMoves(valued) \/ ValueGoesOn("ATTR_VALUE_UNQUOTED", Spaces \cup {">"}, TRUE)
      BY <1>2 DEF handle_attr_value_unquoted_state, TagMoves, TagGoes, TagLexers, valued
    <2> QED
      BY <2>1, <2>2, <2>3, TagMovesStep, ValueGoesOnStep DEF ValueLexers
  <1> QED
    BY <1>1, <1>2
       DEF handle_attr_value_double_quoted_state, handle_attr_value_single_quoted_state, ValueLexers

\* A reference in a value: the characters it stands for, or the ampersand, go to the buffer.
LEMMA ValueReferenceStep ==
    ASSUME Lexing, handle_char_ref_in_attr_value_state
    PROVE  Stepped
  <1> DEFINE state == tokenizer.value_state
             found == gumbo_consume_char_ref(source, tokenizer.it, AllowedChar[state], TRUE)
             r == ReadTo(tokenizer, found)
             un == state = "ATTR_VALUE_UNQUOTED"
             k == ValueReference(r, found.chars, un)
  <1>1. tokenizer.lexer = "CHAR_REF_IN_ATTR_VALUE" /\ Goes(state, k)
    BY DEF handle_char_ref_in_attr_value_state, In
  <1>2. InTagState
    BY <1>1 DEF InTagState, TagLexers
  <1>3. state \in TagLexers \ {"CHAR_REF_IN_ATTR_VALUE"}
    BY <1>1 DEF Lexing, Reading, TagLexers, ValueLexers
  <1>4. Onwards(tokenizer.it, found.it) /\ (found.chars = <<>> \/ Len(found.chars) \in 1 .. 2)
    BY <1>2, InTagStateFacts, ReferencePlaced DEF Referred, Sane
  <1> HIDE DEF found, un
  <1>5. InTag(r)
    BY <1>2, <1>4, InTagStateFacts, MovesSane DEF ReadTo
  <1> HIDE DEF r
  <1>6. ASSUME NEW b, InTag(b), NEW c PROVE InTag(append_char_to_tag_buffer(b, c, un))
    BY <1>6, AppendCharLike
  <1>7. ASSUME NEW b, InTag(b) PROVE InTag(Reconsumed(b))
    BY <1>7, InTagFacts, ReconsumedSane
  <1>8. InTag(k)
    <2>1. CASE Len(found.chars) = 0
      BY <1>5, <1>6, <2>1 DEF ValueReference
    <2>2. CASE Len(found.chars) = 1
      BY <1>5, <1>6, <1>7, <2>2 DEF ValueReference
    <2>3. CASE Len(found.chars) = 2
      BY <1>5, <1>6, <1>7, <2>3 DEF ValueReference
    <2>4. found.chars = <<>> => Len(found.chars) = 0
      OBVIOUS
    <2> QED
      BY <1>4, <2>1, <2>2, <2>3, <2>4
  <1> HIDE DEF k, state
  <1> QED
    BY <1>1, <1>2, <1>3, <1>8, InTagStateFacts, GoesTag

\* Behind a quoted value.
LEMMA AfterValueSteps ==
    ASSUME Lexing, handle_after_attr_value_quoted_state
    PROVE  Stepped
  <1> DEFINE valued == finish_attribute_value(tokenizer)
  <1>1. InTagState
    BY DEF handle_after_attr_value_quoted_state, In, InTagState, TagLexers
  <1>2. Like(valued, tokenizer)
    BY <1>1, InTagStateFacts, FinishAttributeValueLike
  <1> HIDE DEF valued
  <1>3. TagMoves(valued)
    BY DEF handle_after_attr_value_quoted_state, TagMoves, TagGoes, TagLexers, valued
  <1> QED
    BY <1>1, <1>2, <1>3, TagMovesStep

\* Behind a slash in a tag.
LEMMA SelfClosingSteps ==
    ASSUME Lexing, handle_self_closing_start_tag_state
    PROVE  Stepped
  <1> DEFINE c == [tokenizer EXCEPT !.closing = TRUE]
  <1>1. InTagState
    BY DEF handle_self_closing_start_tag_state, In, InTagState, TagLexers
  <1>2. Like(c, tokenizer) /\ Like(tokenizer, tokenizer)
    BY <1>1, InTagStateFacts, SettersLike
  <1> HIDE DEF c
  <1>3. TagMoves(c) \/ TagMoves(tokenizer)
    BY DEF handle_self_closing_start_tag_state, Abandons, TagMoves, TagGoes, TagLexers, c
  <1> QED
    BY <1>1, <1>2, <1>3, TagMovesStep

\* Every state of a tag.
LEMMA TagSyntaxStep ==
    ASSUME Lexing, TagSyntax
    PROVE  Stepped
  BY TagOpenSteps, EndTagOpenState, TagNameSteps, AttributeNameSteps, BeforeValueSteps, ValueSteps,
     ValueReferenceStep, AfterValueSteps, SelfClosingSteps
     DEF TagSyntax

-----------------------------------------------------------------------------
(***************************************************************************)
(* Comments.                                                               *)
(***************************************************************************)

\* The rest of a bogus comment is read, character by character.
LEMMA RestRead ==
    ASSUME TextIsRead, NEW k, Clean(k)
    PROVE  Clean(RestOfComment(k))
  <1> DEFINE N == Len(source)
             Step(r) ==
                IF r.it.current \in {">", EOF} THEN r
                ELSE [append_to_temporary_buffer(r, <<InValue(r.it.current)>>) EXCEPT
                        !.it = utf8iterator_next(source, @)]
             IsRead(f, m) == f = [n \in 0 .. m |-> IF n = 0 THEN k ELSE Step(f[n - 1])]
             T == {m \in 0 .. N : \E f : IsRead(f, m)}
  <1>0. N \in Nat
    BY SourceFacts
  <1>1. ASSUME NEW r, Clean(r) PROVE Clean(Step(r))
    <2> DEFINE a == append_to_temporary_buffer(r, <<InValue(r.it.current)>>)
               i == utf8iterator_next(source, a.it)
    <2>1. Sane(r) /\ <<InValue(r.it.current)>> \in Seq(Chars)
      BY <1>1, CharsFacts DEF Clean, InDoctype
    <2>2. Clean(a)
      BY <1>1, <2>1, AppendSane
    <2> HIDE DEF a
    <2>3. Sane(a) /\ Placed(a.it)
      BY <2>2 DEF Clean, InDoctype, Sane
    <2>4. Onwards(a.it, a.it)
      BY <2>3, PlacedFacts DEF Onwards
    <2>5. Onwards(a.it, i)
      BY <2>3, <2>4, OnwardsNext
    <2>6. Clean([a EXCEPT !.it = i])
      <3> HIDE DEF i
      <3> QED
        BY <2>2, <2>3, <2>5, MovesSane
    <2> QED
      BY <1>1, <2>6 DEF a
  <1> HIDE DEF N, Step
  <1>2. 0 \in T
    <2> DEFINE f == [n \in 0 .. 0 |-> k]
    <2>1. IsRead(f, 0)
      OBVIOUS
    <2>2. 0 \in 0 .. N
      BY <1>0
    <2> QED
      BY <2>1, <2>2
  <1>3. ASSUME NEW m \in 0 .. N - 1, m \in T PROVE m + 1 \in T
    <2>1. PICK f : IsRead(f, m)
      BY <1>3
    <2> DEFINE g == [n \in 0 .. m + 1 |-> IF n = m + 1 THEN Step(f[m]) ELSE f[n]]
    <2>2. m \in Nat /\ m + 1 \in 0 .. N
      BY <1>0
    <2>3. ASSUME NEW n \in 0 .. m + 1
          PROVE  g[n] = IF n = 0 THEN k ELSE Step(g[n - 1])
      <3>1. CASE n = m + 1
        <4>1. m \in 0 .. m + 1 /\ m # m + 1 /\ n - 1 = m /\ n # 0
          BY <2>2, <3>1
        <4> QED
          BY <3>1, <4>1
      <3>2. CASE n # m + 1
        <4>1. n \in 0 .. m /\ (n # 0 => n - 1 \in 0 .. m /\ n - 1 # m + 1 /\ n - 1 \in 0 .. m + 1)
          BY <2>2, <3>2
        <4>2. f[n] = IF n = 0 THEN k ELSE Step(f[n - 1])
          BY <2>1, <4>1
        <4> QED
          BY <3>2, <4>1, <4>2
      <3> QED
        BY <3>1, <3>2
    <2>4. g = [n \in 0 .. m + 1 |-> g[n]]
      OBVIOUS
    <2> HIDE DEF g
    <2>5. IsRead(g, m + 1)
      BY <2>3, <2>4
    <2> HIDE DEF IsRead
    <2> QED
      BY <2>2, <2>5
  <1> HIDE DEF T
  <1>4. N \in T
    <2>1. \A m \in 0 .. N : m \in T
      BY <1>0, <1>2, <1>3, InductionUpTo
    <2> QED
      BY <1>0, <2>1
  <1>5. \E f : IsRead(f, N)
    BY <1>4 DEF T
  <1> DEFINE h == CHOOSE f : IsRead(f, N)
  <1>6. IsRead(h, N)
    BY <1>5
  <1>7. RestOfComment(k) = h[N]
    BY DEF RestOfComment, N, Step
  <1> HIDE DEF h
  <1> DEFINE U == {n \in 0 .. N : Clean(h[n])}
  <1>8. 0 \in U
    BY <1>0, <1>6
  <1>9. ASSUME NEW n \in 0 .. N - 1, n \in U PROVE n + 1 \in U
    <2>1. n + 1 \in 0 .. N /\ n + 1 # 0 /\ (n + 1) - 1 = n
      BY <1>0
    <2>2. h[n + 1] = Step(h[n])
      BY <1>6, <2>1
    <2>3. Clean(h[n])
      BY <1>9
    <2> QED
      BY <1>1, <2>1, <2>2, <2>3
  <1> HIDE DEF U
  <1>10. N \in U
    <2>1. \A n \in 0 .. N : n \in U
      BY <1>0, <1>8, <1>9, InductionUpTo
    <2> QED
      BY <1>0, <2>1
  <1> QED
    BY <1>7, <1>10 DEF U

\* A comment is emitted, and the text of one goes on.
LEMMA CommentMoves ==
    ASSUME TextIsRead, phase = "lexing", Clean(tokenizer),
           \/ EndsComment
           \/ \E kept \in {<<>>, <<"-">>, <<"-", "-">>, <<"-", "-", "!">>} : InComment(kept)
           \/ \E lexer \in CommentLexers, kept \in {<<"-">>, <<"-", "-", "!">>} :
                 Goes(lexer, append_to_temporary_buffer(tokenizer, kept))
           \/ \E lexer \in CommentLexers : Goes(lexer, tokenizer)
    PROVE  Stepped
  <1>0. Sane(tokenizer) /\ <<InValue(current)>> \in Seq(Chars)
    <2>1. Sane(tokenizer)
      BY DEF Clean, InDoctype
    <2> QED
      BY <2>1, CharsFacts DEF current
  <1>1. {<<>>, <<"-">>, <<"-", "-">>, <<"-", "-", "!">>} \subseteq Seq(Chars)
    <2>1. "-" \in Chars /\ "!" \in Chars
      BY DEF Chars
    <2> QED
      BY <2>1
  <1>2. ASSUME NEW chars \in Seq(Chars), NEW lexer \in CommentLexers,
               Goes(lexer, append_to_temporary_buffer(tokenizer, chars))
        PROVE  Stepped
    <2>1. Clean(append_to_temporary_buffer(tokenizer, chars))
      BY <1>0, AppendSane
    <2> QED
      BY <1>2, <2>1, GoesComment
  <1>3. CASE EndsComment
    <2>1. Done(emit_comment(tokenizer))
      BY EmitCommentDone
    <2> QED
      BY <1>3, <2>1, ReturnsDone DEF EndsComment, ReturnLexers, TextLexers
  <1>4. ASSUME NEW kept \in Seq(Chars), InComment(kept) PROVE Stepped
    <2>1. kept \o <<InValue(current)>> \in Seq(Chars)
      BY <1>0
    <2>2. "COMMENT" \in CommentLexers
      BY DEF CommentLexers
    <2> QED
      BY <1>2, <1>4, <2>1, <2>2 DEF InComment
  <1>5. ASSUME NEW lexer \in CommentLexers, Goes(lexer, tokenizer) PROVE Stepped
    BY <1>5, GoesComment
  <1> QED
    BY <1>1, <1>2, <1>3, <1>4, <1>5

\* The states of a comment.
LEMMA CommentSteps ==
    ASSUME Lexing,
           \/ handle_comment_start_state \/ handle_comment_start_dash_state \/ handle_comment_state
           \/ handle_comment_end_dash_state \/ handle_comment_end_state
           \/ handle_comment_end_bang_state
    PROVE  Stepped
  <1>0. TextIsRead /\ phase = "lexing" /\ Clean(tokenizer)
    BY DEF handle_comment_start_state, handle_comment_start_dash_state, handle_comment_state,
           handle_comment_end_dash_state, handle_comment_end_state, handle_comment_end_bang_state,
           In, Lexing, Reading, CommentLexers
  <1>1. CASE handle_comment_start_state
    BY <1>0, <1>1, CommentMoves DEF handle_comment_start_state, CommentLexers
  <1>2. CASE handle_comment_start_dash_state
    BY <1>0, <1>2, CommentMoves DEF handle_comment_start_dash_state, CommentLexers
  <1>3. CASE handle_comment_state
    BY <1>0, <1>3, CommentMoves DEF handle_comment_state, CommentLexers
  <1>4. CASE handle_comment_end_dash_state
    BY <1>0, <1>4, CommentMoves DEF handle_comment_end_dash_state, CommentLexers
  <1>5. CASE handle_comment_end_state
    BY <1>0, <1>5, CommentMoves DEF handle_comment_end_state, CommentLexers
  <1>6. CASE handle_comment_end_bang_state
    BY <1>0, <1>6, CommentMoves DEF handle_comment_end_bang_state, CommentLexers
  <1> QED
    BY <1>1, <1>2, <1>3, <1>4, <1>5, <1>6

\* A bogus comment, up to its end.
LEMMA BogusCommentSteps ==
    ASSUME Lexing, handle_bogus_comment_state
    PROVE  Stepped
  <1>1. TextIsRead /\ Clean(tokenizer)
    BY DEF handle_bogus_comment_state, In, Lexing, Reading, CommentLexers
  <1>2. Done(emit_comment(RestOfComment(tokenizer)))
    BY <1>1, RestRead, EmitCommentDone
  <1> QED
    BY <1>1, <1>2, ReturnsDone DEF handle_bogus_comment_state, ReturnLexers, TextLexers

\* Behind the exclamation mark: a comment, a doctype, a CDATA section or none of them.
LEMMA DeclarationSteps ==
    ASSUME Lexing, handle_markup_declaration_state
    PROVE  Stepped
  <1>1. /\ TextIsRead /\ phase = "lexing" /\ Clean(tokenizer) /\ BehindLt(tokenizer)
        /\ tokenizer.tmp = <<>> /\ Sane(tokenizer)
    BY DEF handle_markup_declaration_state, In, Lexing, Reading, Clean, InDoctype
  <1>2. ASSUME NEW literal, Len(literal) \in Nat
        PROVE  /\ Clean(Consumed(tokenizer, literal)) /\ BehindLt(Consumed(tokenizer, literal))
               /\ Consumed(tokenizer, literal).tmp = <<>>
    BY <1>1, <1>2, ConsumedSane
  <1>3. CASE Goes("COMMENT_START", Reconsumed(Consumed(tokenizer, <<"-", "-">>)))
    <2> DEFINE k == Consumed(tokenizer, <<"-", "-">>)
    <2>1. Clean(k) /\ Sane(k)
      BY <1>2 DEF Clean, InDoctype
    <2> HIDE DEF k
    <2>2. Clean(Reconsumed(k))
      BY <2>1, ReconsumedSane
    <2> QED
      BY <1>1, <1>3, <2>2, GoesComment DEF CommentLexers, k
  <1>4. CASE Goes("DOCTYPE", Reconsumed(StartDoctype(Consumed(tokenizer, <<"DOCTYPE">>))))
    <2> DEFINE c == Consumed(tokenizer, <<"DOCTYPE">>)
               k == StartDoctype(c)
    <2>1. Clean(c) /\ c.tmp = <<>>
      BY <1>2
    <2> HIDE DEF c
    <2>2. InDoctype(k) /\ k.tmp = <<>> /\ Sane(k)
      BY <2>1, StartDoctypeSane DEF InDoctype
    <2> HIDE DEF k
    <2>3. InDoctype(Reconsumed(k)) /\ Reconsumed(k).tmp = <<>>
      BY <2>2, ReconsumedSane
    <2> QED
      BY <1>1, <1>4, <2>3, GoesEmptyDoctype DEF EmptyDoctypeLexers, k, c
  <1>5. CASE Goes("CDATA", Reconsumed([Consumed(tokenizer, <<"[CDATA[">>) EXCEPT !.cdata = TRUE]))
    <2> DEFINE c == Consumed(tokenizer, <<"[CDATA[">>)
               k == [c EXCEPT !.cdata = TRUE]
    <2>1. Clean(c) /\ BehindLt(c) /\ Shaped(c)
      BY <1>2, SaneShaped DEF Clean, InDoctype
    <2> HIDE DEF c
    <2>2. Clean(k) /\ BehindLt(k) /\ Sane(k)
      BY <2>1, SettersLike, LikeKeeps DEF Clean, InDoctype
    <2> HIDE DEF k
    <2>3. Clean(Reconsumed(k))
      BY <2>2, ReconsumedSane
    <2>4. BehindLt(Reconsumed(k))
      BY <2>2 DEF BehindLt, Reconsumed, Sane, Fields
    <2> QED
      BY <1>1, <1>5, <2>3, <2>4, GoesText DEF TextLexers, k, c
  <1>6. CASE Goes("BOGUS_COMMENT", Reconsumed(clear_temporary_buffer(tokenizer)))
    <2> DEFINE k == clear_temporary_buffer(tokenizer)
    <2>1. Clean(k) /\ Sane(k)
      BY <1>1, ClearSane DEF Clean, InDoctype
    <2> HIDE DEF k
    <2>2. Clean(Reconsumed(k))
      BY <2>1, ReconsumedSane
    <2> QED
      BY <1>1, <1>6, <2>2, GoesComment DEF CommentLexers, k
  <1> QED
    BY <1>3, <1>4, <1>5, <1>6 DEF handle_markup_declaration_state

\* The section's text, and its end.
LEMMA CDataSteps ==
    ASSUME Lexing, handle_cdata_state
    PROVE  Stepped
  <1> DEFINE after == IF Ahead(CDataEnd) THEN Consumed(tokenizer, CDataEnd) ELSE tokenizer
             c == [after EXCEPT !.cdata = FALSE]
             r == reset_token_start_point(c)
             k == Reconsumed(r)
  <1>1. InText
    BY DEF handle_cdata_state, In, InText, TextLexers
  <1>2. CASE Returns("CDATA", emit_current_char(tokenizer))
    BY <1>1, <1>2, TextEmits DEF ReturnLexers, TextLexers
  <1>3. CASE Goes("DATA", k)
    <2>1. Clean(after) /\ Sane(after) /\ Shaped(after)
      <3>1. Len(CDataEnd) \in Nat
        BY DEF CDataEnd
      <3>2. Clean(Consumed(tokenizer, CDataEnd))
        BY <1>1, <3>1, InTextFacts, ConsumedSane
      <3>3. Clean(after)
        BY <1>1, <3>2, InTextFacts
      <3> HIDE DEF after
      <3> QED
        BY <3>3, SaneShaped DEF Clean, InDoctype
    <2> HIDE DEF after
    <2>2. Clean(c) /\ Sane(c)
      BY <2>1, SettersLike, LikeKeeps DEF Clean, InDoctype
    <2> HIDE DEF c
    <2>3. /\ r = [f \in Fields |-> r[f]] /\ r.it = c.it /\ r.reconsume = c.reconsume
          /\ r.tmp = c.tmp /\ r.emit = c.emit /\ r.from = c.it.start /\ r.doctype = c.doctype
          /\ r.owned = c.owned /\ r.fault = c.fault /\ r.token = c.token
      BY <2>2 DEF reset_token_start_point, Sane, Fields
    <2> HIDE DEF r
    <2>4. Sane(r)
      <3>1. c.it.start \in 1 .. Len(source) + 1
        BY <1>1, <2>2, InTextFacts, PlacedFacts DEF Sane
      <3> QED
        BY <2>2, <2>3, <3>1 DEF Sane
    <2>5. Clean(r)
      BY <2>2, <2>3, <2>4 DEF Clean, InDoctype
    <2>6. AtText(r)
      BY <1>1, <2>3, <2>4, InTextFacts, StartsHere
    <2>7. Clean(k) /\ AtText(k) /\ k.reconsume
      BY <2>4, <2>5, <2>6, ReconsumedSane
    <2> HIDE DEF k
    <2> QED
      BY <1>1, <1>3, <2>7, InTextFacts, GoesText DEF TextLexers
  <1> QED
    BY <1>2, <1>3 DEF handle_cdata_state

\* Comments, declarations and CDATA sections.
LEMMA MarkupTextSteps ==
    ASSUME Lexing,
           \/ handle_bogus_comment_state \/ handle_markup_declaration_state
           \/ handle_comment_start_state \/ handle_comment_start_dash_state \/ handle_comment_state
           \/ handle_comment_end_dash_state \/ handle_comment_end_state
           \/ handle_comment_end_bang_state \/ handle_cdata_state
    PROVE  Stepped
  BY BogusCommentSteps, DeclarationSteps, CommentSteps, CDataSteps

-----------------------------------------------------------------------------
(***************************************************************************)
(* Doctypes.                                                               *)
(***************************************************************************)
\* Where a character leads to: to some states only with an empty buffer.
DoctypeMoves(k) ==
    \/ \E lexer \in DoctypeLexers : Goes(lexer, k) \/ Goes(lexer, Reconsumed(k))
    \/ k.tmp = <<>> /\ \E lexer \in EmptyDoctypeLexers : Goes(lexer, k) \/ Goes(lexer, Reconsumed(k))
    \/ \E lexer \in {"DATA", "BOGUS_DOCTYPE"} : Returns(lexer, emit_doctype(k))

\* What the handlers of a doctype do is one of a few things, and keeps the invariant.
LEMMA DoctypeMovesStep ==
    ASSUME TextIsRead, phase = "lexing", NEW k, InDoctype(k), DoctypeMoves(k)
    PROVE  Stepped
  <1>1. Sane(k) /\ Done(emit_doctype(k))
    BY EmitDoctypeDone DEF InDoctype
  <1>2. InDoctype(Reconsumed(k)) /\ Reconsumed(k).tmp = k.tmp
    BY <1>1, ReconsumedSane
  <1>3. {"DATA", "BOGUS_DOCTYPE"} \subseteq ReturnLexers
    BY DEF ReturnLexers, TextLexers
  <1> QED
    BY <1>1, <1>2, <1>3, GoesDoctype, GoesEmptyDoctype, ReturnsDone DEF DoctypeMoves

\* The records that handlers in a doctype go on with.
InDoctypeState ==
    /\ TextIsRead /\ phase = "lexing" /\ InDoctype(tokenizer)
    /\ tokenizer.lexer \in EmptyDoctypeLexers => tokenizer.tmp = <<>>

\* What is known in a doctype, quirky or not.
LEMMA InDoctypeFacts ==
    ASSUME InDoctypeState
    PROVE  /\ InDoctype(Quirky(tokenizer)) /\ Quirky(tokenizer).tmp = tokenizer.tmp
           /\ DoctypeMoves(tokenizer) \/ DoctypeMoves(Quirky(tokenizer)) => Stepped
  <1>1. TextIsRead /\ phase = "lexing" /\ InDoctype(tokenizer)
    BY DEF InDoctypeState
  <1>2. InDoctype(Quirky(tokenizer)) /\ Quirky(tokenizer).tmp = tokenizer.tmp
    BY <1>1, QuirkySane
  <1> QED
    BY <1>1, <1>2, DoctypeMovesStep

\* The states of a doctype.
LEMMA LexingDoctype ==
    ASSUME Lexing, tokenizer.lexer \in DoctypeLexers \cup EmptyDoctypeLexers
    PROVE  InDoctypeState
  BY DEF Lexing, Reading, InDoctypeState

\* Characters are appended to the name or an identifier.
LEMMA DoctypeAppends ==
    ASSUME InDoctypeState, NEW c \in {InName(current), InValue(current)}
    PROVE  InDoctype(append_to_temporary_buffer(tokenizer, <<c>>))
  <1>1. TextIsRead /\ InDoctype(tokenizer) /\ Sane(tokenizer)
    BY DEF InDoctypeState, InDoctype
  <1>2. <<InName(current)>> \in Seq(Chars) /\ <<InValue(current)>> \in Seq(Chars)
    BY <1>1, CharsFacts DEF current
  <1> QED
    BY <1>1, <1>2, AppendSane

\* A character of the name.
LEMMA DoctypeNameStep ==
    ASSUME InDoctypeState, Goes("DOCTYPE_NAME", DoctypeName)
    PROVE  Stepped
  <1> DEFINE k == append_to_temporary_buffer(tokenizer, <<InName(current)>>)
             d == [k.doctype EXCEPT !.force_quirks = FALSE]
             f == [k EXCEPT !.doctype.force_quirks = FALSE]
  <1>1. InDoctype(k)
    BY DoctypeAppends
  <1> HIDE DEF k
  <1>2. InDoctype(Quirky(k))
    BY <1>1, QuirkySane
  <1>3. InDoctype(f)
    <2>1. d = [x \in DoctypeFields |-> d[x]]
      BY <1>1 DEF InDoctype, Sane, DoctypeFields
    <2>2. f = [k EXCEPT !.doctype = d]
      OBVIOUS
    <2> HIDE DEF d, f
    <2> QED
      BY <1>1, <2>1, <2>2, DoctypeSane
  <1>4. DoctypeName \in {k, Quirky(k), f}
    BY DEF DoctypeName, k
  <1> HIDE DEF f
  <1>5. InDoctype(DoctypeName)
    BY <1>1, <1>2, <1>3, <1>4
  <1> QED
    BY <1>5, GoesDoctype DEF InDoctypeState, DoctypeLexers

\* The name, and what is behind it.
LEMMA DoctypeNameSteps ==
    ASSUME Lexing,
           \/ handle_doctype_state \/ handle_before_doctype_name_state \/ handle_doctype_name_state
           \/ handle_after_doctype_name_state
    PROVE  Stepped
  <1>0. InDoctypeState
    BY LexingDoctype
       DEF handle_doctype_state, handle_before_doctype_name_state, handle_doctype_name_state,
           handle_after_doctype_name_state, In, DoctypeLexers, EmptyDoctypeLexers
  <1> DEFINE q == Quirky(tokenizer)
  <1>1. CASE handle_doctype_state
    <2>1. tokenizer.tmp = <<>>
      BY <1>0, <1>1 DEF InDoctypeState, handle_doctype_state, In, EmptyDoctypeLexers
    <2>2. Requires(tokenizer, tokenizer.tmp = <<>>) = tokenizer
      BY <1>0, <2>1, SaneShaped, RequiresHolds DEF InDoctypeState, InDoctype
    <2>3. DoctypeMoves(tokenizer) \/ DoctypeMoves(q)
      BY <1>1, <2>2 DEF handle_doctype_state, EndsDoctype, DoctypeMoves, DoctypeLexers
    <2> QED
      BY <1>0, <2>3, InDoctypeFacts
  <1>2. CASE handle_before_doctype_name_state
    <2>1. DoctypeMoves(tokenizer) \/ DoctypeMoves(q) \/ Goes("DOCTYPE_NAME", DoctypeName)
      BY <1>2 DEF handle_before_doctype_name_state, EndsDoctype, DoctypeMoves, DoctypeLexers
    <2> QED
      BY <1>0, <2>1, InDoctypeFacts, DoctypeNameStep
  <1>3. CASE handle_doctype_name_state
    <2> DEFINE f == finish_doctype_name(tokenizer)
               g == finish_doctype_name(q)
    <2>1. InDoctype(f) /\ f.tmp = <<>> /\ InDoctype(g) /\ g.tmp = <<>>
      BY <1>0, InDoctypeFacts, FinishDoctypeSane DEF InDoctypeState
    <2> HIDE DEF f, g
    <2>2. DoctypeMoves(f) \/ DoctypeMoves(g) \/ Goes("DOCTYPE_NAME", DoctypeName)
      BY <1>3, <2>1 DEF handle_doctype_name_state, EndsDoctype, DoctypeMoves, EmptyDoctypeLexers, f, g
    <2> QED
      BY <1>0, <2>1, <2>2, DoctypeMovesStep, DoctypeNameStep DEF InDoctypeState
  <1>4. CASE handle_after_doctype_name_state
    <2>1. tokenizer.tmp = <<>>
      BY <1>0, <1>4 DEF InDoctypeState, handle_after_doctype_name_state, In, EmptyDoctypeLexers
    <2>2. ASSUME NEW keyword \in DOMAIN AfterKeyword,
                 Goes(AfterKeyword[keyword], Reconsumed(Consumed(tokenizer, <<keyword>>)))
          PROVE  Stepped
      <3> DEFINE c == Consumed(tokenizer, <<keyword>>)
      <3>1. AfterKeyword[keyword] \in EmptyDoctypeLexers
        BY DEF AfterKeyword, EmptyDoctypeLexers
      <3>2. InDoctype(c) /\ c.tmp = <<>>
        <4>1. Len(<<keyword>>) \in Nat /\ Sane(tokenizer)
          BY <1>0 DEF InDoctypeState, InDoctype
        <4> QED
          BY <1>0, <2>1, <4>1, ConsumedSane DEF InDoctypeState
      <3> HIDE DEF c
      <3>3. DoctypeMoves(c)
        BY <2>2, <3>1, <3>2 DEF DoctypeMoves, c
      <3> QED
        BY <1>0, <3>2, <3>3, DoctypeMovesStep DEF InDoctypeState
    <2>3. \/ DoctypeMoves(tokenizer) \/ DoctypeMoves(q)
          \/ \E keyword \in DOMAIN AfterKeyword :
                Goes(AfterKeyword[keyword], Reconsumed(Consumed(tokenizer, <<keyword>>)))
      BY <1>4, <2>1
         DEF handle_after_doctype_name_state, EndsDoctype, DoctypeMoves, EmptyDoctypeLexers, DoctypeLexers
    <2> QED
      BY <1>0, <2>2, <2>3, InDoctypeFacts
  <1> QED
    BY <1>1, <1>2, <1>3, <1>4

-----------------------------------------------------------------------------
(***************************************************************************)
(* The identifiers of a doctype.                                           *)
(***************************************************************************)

\* A quote begins an identifier: the assert that the buffer is empty holds.
LEMMA StartsIdMoves ==
    ASSUME InDoctypeState, tokenizer.tmp = <<>>, StartsPublicId \/ StartsSystemId
    PROVE  DoctypeMoves(tokenizer)
  <1>1. Requires(tokenizer, tokenizer.tmp = <<>>) = tokenizer
    BY SaneShaped, RequiresHolds DEF InDoctypeState, InDoctype
  <1> QED
    BY <1>1 DEF StartsPublicId, StartsSystemId, StartsId, DoctypeMoves, DoctypeLexers

\* Between the identifiers.
LEMMA IdSteps ==
    ASSUME Lexing,
           \/ handle_after_doctype_public_keyword_state \/ handle_before_doctype_public_id_state
           \/ handle_after_doctype_public_id_state \/ handle_between_doctype_public_system_id_state
           \/ handle_after_doctype_system_keyword_state \/ handle_before_doctype_system_id_state
           \/ handle_after_doctype_system_id_state
    PROVE  Stepped
  <1> DEFINE q == Quirky(tokenizer)
  <1>0. InDoctypeState /\ tokenizer.tmp = <<>>
    <2>1. tokenizer.lexer \in EmptyDoctypeLexers
      BY DEF handle_after_doctype_public_keyword_state, handle_before_doctype_public_id_state,
             handle_after_doctype_public_id_state, handle_between_doctype_public_system_id_state,
             handle_after_doctype_system_keyword_state, handle_before_doctype_system_id_state,
             handle_after_doctype_system_id_state, PublicId, AfterPublicId, SystemId, In,
             EmptyDoctypeLexers
    <2> QED
      BY <2>1, LexingDoctype DEF InDoctypeState
  <1>1. q.tmp = <<>>
    BY <1>0, InDoctypeFacts
  <1>2. /\ Goes("BOGUS_DOCTYPE", tokenizer) => DoctypeMoves(tokenizer)
        /\ Goes("BOGUS_DOCTYPE", q) => DoctypeMoves(q)
        /\ EmitsTooEarly => DoctypeMoves(q)
        /\ EndsDoctype(tokenizer) => DoctypeMoves(tokenizer)
        /\ EndsDoctype(q) => DoctypeMoves(q)
        /\ \A lexer \in EmptyDoctypeLexers : Goes(lexer, tokenizer) => DoctypeMoves(tokenizer)
    BY <1>0 DEF DoctypeMoves, DoctypeLexers, EndsDoctype, EmitsTooEarly
  <1>3. StartsPublicId \/ StartsSystemId => DoctypeMoves(tokenizer)
    BY <1>0, StartsIdMoves
  <1> HIDE DEF q
  <1>4. ASSUME NEW here, PublicId(here) PROVE DoctypeMoves(tokenizer) \/ DoctypeMoves(q)
    BY <1>2, <1>3, <1>4 DEF PublicId, EmptyDoctypeLexers, q
  <1>5. ASSUME NEW here, AfterPublicId(here) PROVE DoctypeMoves(tokenizer) \/ DoctypeMoves(q)
    BY <1>2, <1>3, <1>5 DEF AfterPublicId, EmptyDoctypeLexers, q
  <1>6. ASSUME NEW here, SystemId(here) PROVE DoctypeMoves(tokenizer) \/ DoctypeMoves(q)
    BY <1>2, <1>3, <1>6 DEF SystemId, EmptyDoctypeLexers, q
  <1>7. ASSUME handle_after_doctype_public_id_state PROVE DoctypeMoves(tokenizer) \/ DoctypeMoves(q)
    BY <1>2, <1>5, <1>7 DEF handle_after_doctype_public_id_state, q
  <1>8. ASSUME handle_between_doctype_public_system_id_state PROVE DoctypeMoves(tokenizer) \/ DoctypeMoves(q)
    BY <1>2, <1>5, <1>8 DEF handle_between_doctype_public_system_id_state
  <1>9. ASSUME handle_after_doctype_system_id_state PROVE DoctypeMoves(tokenizer) \/ DoctypeMoves(q)
    BY <1>2, <1>9 DEF handle_after_doctype_system_id_state, EmptyDoctypeLexers, q
  <1>10. DoctypeMoves(tokenizer) \/ DoctypeMoves(q)
    BY <1>4, <1>6, <1>7, <1>8, <1>9
       DEF handle_after_doctype_public_keyword_state, handle_before_doctype_public_id_state,
           handle_after_doctype_system_keyword_state, handle_before_doctype_system_id_state
  <1> QED
    BY <1>0, <1>10, InDoctypeFacts DEF q

\* A quoted identifier, which Finish takes from the temporary buffer.
LEMMA QuotedIdSteps ==
    ASSUME Lexing,
           \/ handle_doctype_public_id_double_quoted_state
           \/ handle_doctype_public_id_single_quoted_state
           \/ handle_doctype_system_id_double_quoted_state
           \/ handle_doctype_system_id_single_quoted_state
           \/ handle_bogus_doctype_state
    PROVE  Stepped
  <1> DEFINE q == Quirky(tokenizer)
             a == append_to_temporary_buffer(tokenizer, <<InValue(current)>>)
             p == finish_doctype_public_id(tokenizer)
             pq == finish_doctype_public_id(q)
             s == finish_doctype_system_id(tokenizer)
             sq == finish_doctype_system_id(q)
  <1>0. InDoctypeState
    BY LexingDoctype
       DEF handle_doctype_public_id_double_quoted_state, handle_doctype_public_id_single_quoted_state,
           handle_doctype_system_id_double_quoted_state, handle_doctype_system_id_single_quoted_state,
           handle_bogus_doctype_state, QuotedId, In, DoctypeLexers
  <1>1. /\ TextIsRead /\ phase = "lexing" /\ InDoctype(tokenizer) /\ InDoctype(q) /\ InDoctype(a)
        /\ InDoctype(p) /\ p.tmp = <<>> /\ InDoctype(pq) /\ InDoctype(s) /\ s.tmp = <<>>
        /\ InDoctype(sq)
    BY <1>0, InDoctypeFacts, DoctypeAppends, FinishDoctypeSane DEF InDoctypeState
  <1> HIDE DEF q, a, p, pq, s, sq
  <1>2. ASSUME NEW k \in {tokenizer, q, a, p, pq, s, sq}, DoctypeMoves(k) PROVE Stepped
    BY <1>1, <1>2, DoctypeMovesStep
  <1>3. CASE handle_bogus_doctype_state
    <2>1. DoctypeMoves(tokenizer)
      BY <1>3 DEF handle_bogus_doctype_state, EndsDoctype, DoctypeMoves, DoctypeLexers
    <2> QED
      BY <1>2, <2>1
  <1>4. CASE \/ handle_doctype_public_id_double_quoted_state
             \/ handle_doctype_public_id_single_quoted_state
    <2>1. DoctypeMoves(p) \/ DoctypeMoves(pq) \/ DoctypeMoves(a)
      BY <1>1, <1>4
         DEF handle_doctype_public_id_double_quoted_state,
             handle_doctype_public_id_single_quoted_state, QuotedId, EndsDoctype, DoctypeMoves,
             DoctypeLexers, EmptyDoctypeLexers, p, pq, a, q
    <2> QED
      BY <1>2, <2>1
  <1>5. CASE \/ handle_doctype_system_id_double_quoted_state
             \/ handle_doctype_system_id_single_quoted_state
    <2>1. DoctypeMoves(s) \/ DoctypeMoves(sq) \/ DoctypeMoves(a)
      BY <1>1, <1>5
         DEF handle_doctype_system_id_double_quoted_state,
             handle_doctype_system_id_single_quoted_state, QuotedId, EndsDoctype, DoctypeMoves,
             DoctypeLexers, EmptyDoctypeLexers, s, sq, a, q
    <2> QED
      BY <1>2, <2>1
  <1> QED
    BY <1>3, <1>4, <1>5

\* Every state of a comment, a declaration or a doctype.
LEMMA MarkupSyntaxStep ==
    ASSUME Lexing, MarkupSyntax
    PROVE  Stepped
  BY MarkupTextSteps, DoctypeNameSteps, IdSteps, QuotedIdSteps DEF MarkupSyntax

-----------------------------------------------------------------------------
(***************************************************************************)
(* The calls of gumbo_lex, and the tree builder between them.              *)
(***************************************************************************)
Called == TextIsRead /\ Returned(tokenizer)

\* A turn of the loop of gumbo_lex.
LEMMA LexSteps ==
    ASSUME Lexing, Lex
    PROVE  Stepped
  BY TextStatesStep, TagSyntaxStep, MarkupSyntaxStep DEF Lex

\* What neither what is read nor what is kept or owned differs from is returned as well.
LEMMA LikeReturned ==
    ASSUME NEW k, Returned(k), NEW j, Like(j, k), j.lexer \in ReturnLexers
    PROVE  Returned(j)
  <1>1. /\ Sane(j) /\ AtText(j)
        /\ j.it = k.it /\ j.tmp = k.tmp /\ j.emit = k.emit /\ j.reconsume = k.reconsume
        /\ j.owned = k.owned /\ j.doctype = k.doctype
    BY LikeKeeps, LikeFields DEF Returned
  <1>2. \A c : IsTrail(c, k) => IsTrail(c, j)
    BY <1>1 DEF IsTrail
  <1>3. Replays(j)
    BY <1>1, <1>2 DEF Returned, Replays
  <1> QED
    BY <1>1, <1>3 DEF Returned

\* The second character of a reference is returned.
LEMMA EmitBufferedStep ==
    ASSUME Called, EmitBuffered
    PROVE  Stepped
  <1> DEFINE k == tokenizer
             r == Reconsumed(k)
             e == emit_char(r, k.buffered)
             j == [e EXCEPT !.reconsume = FALSE, !.buffered = NoChar]
  <1>1. TextIsRead /\ Returned(k) /\ Sane(k)
    BY DEF Called, Returned
  <1>2. /\ Sane(r) /\ r.reconsume = TRUE /\ r.it = k.it /\ r.tmp = k.tmp
        /\ r.emit = k.emit /\ r.owned = k.owned /\ r.doctype = k.doctype /\ r.lexer = k.lexer
    <2>1. Sane(r) /\ r.reconsume = TRUE /\ r.it = k.it /\ r.tmp = k.tmp
      BY <1>1, ReconsumedSane
    <2> HIDE DEF k
    <2>2. r.emit = k.emit /\ r.owned = k.owned /\ r.doctype = k.doctype /\ r.lexer = k.lexer
      BY <1>1 DEF Sane, Fields, Reconsumed
    <2> QED
      BY <2>1, <2>2
  <1>3. tokenizer' = j /\ phase' = "parser" /\ source' = source
    BY DEF EmitBuffered
  <1> HIDE DEF k, r
  <1>4. /\ Sane(e) /\ e.from = e.it.start /\ e.it.mark = k.it.mark /\ e.it.start = k.it.start
        /\ e.tmp = k.tmp /\ e.emit = k.emit /\ e.owned = k.owned /\ e.doctype = k.doctype
        /\ e.lexer = k.lexer
    BY <1>1, <1>2, EmitCharSane
  <1> HIDE DEF e
  <1>5. /\ j = [f \in Fields |-> j[f]] /\ j.it = e.it /\ j.reconsume = FALSE /\ j.lexer = k.lexer
        /\ j.tmp = k.tmp /\ j.emit = k.emit /\ j.from = e.from /\ j.doctype = k.doctype
        /\ j.owned = k.owned /\ j.fault = e.fault /\ j.token = e.token
    BY <1>4 DEF Sane, Fields
  <1> HIDE DEF j
  <1>6. Sane(j)
    BY <1>4, <1>5 DEF Sane
  <1>7. AtText(j)
    BY <1>1, <1>4, <1>5, <1>6, StartsHere
  <1>8. \A c : IsTrail(c, k) => IsTrail(c, j)
    BY <1>4, <1>5 DEF IsTrail
  <1>9. Replays(j)
    BY <1>1, <1>4, <1>5, <1>8 DEF Returned, Replays
  <1>10. Returned(j)
    BY <1>1, <1>5, <1>6, <1>7, <1>9 DEF Returned
  <1> QED
    BY <1>3, <1>10 DEF Stepped

\* One more character of the temporary buffer is returned, which is the one read.
LEMMA EmitTemporaryStep ==
    ASSUME Called, EmitTemporary
    PROVE  Stepped
  <1> DEFINE k == tokenizer
             j == maybe_emit_from_temporary_buffer(k)
  <1>1. TextIsRead /\ Returned(k) /\ Sane(k) /\ k.emit \in DOMAIN k.tmp
    BY DEF Called, Returned, EmitTemporary
  <1>2. tokenizer' = j /\ phase' = "parser" /\ source' = source
    BY DEF EmitTemporary
  <1> HIDE DEF k
  <1>3. k.emit \in 1 .. Len(k.tmp)
    BY <1>1 DEF Sane
  <1>4. PICK c : IsTrail(c, k) /\ c[k.emit - 1] = k.it.start
    BY <1>1, <1>3 DEF Returned, Replays, NotEmitting
  <1>5. /\ Sane(j) /\ j.from = j.it.start /\ j.doctype = k.doctype /\ j.owned = k.owned
        /\ j.lexer = k.lexer /\ j.reconsume = k.reconsume /\ Replays(j)
    BY <1>1, <1>3, <1>4, MaybeEmitSane
  <1> HIDE DEF j
  <1>6. AtText(j)
    BY <1>1, <1>5, StartsHere
  <1>7. Returned(j)
    BY <1>1, <1>5, <1>6 DEF Returned
  <1> QED
    BY <1>2, <1>7 DEF Stepped

\* Nothing is left of an earlier token: the loop begins, with nothing owned.
LEMMA StartLexingStep ==
    ASSUME Called, StartLexing
    PROVE  Stepped
  <1> DEFINE k == tokenizer
             j == [k EXCEPT !.emit = NotEmitting]
  <1>1. TextIsRead /\ Returned(k) /\ Sane(k)
    BY DEF Called, Returned
  <1>2. tokenizer' = j /\ phase' = "lexing" /\ source' = source
    BY DEF StartLexing, maybe_emit_from_temporary_buffer
  <1> HIDE DEF k
  <1>3. /\ j = [f \in Fields |-> j[f]] /\ j.it = k.it /\ j.reconsume = k.reconsume
        /\ j.lexer = k.lexer /\ j.tmp = k.tmp /\ j.emit = NotEmitting /\ j.from = k.from
        /\ j.doctype = k.doctype /\ j.owned = k.owned /\ j.fault = k.fault /\ j.token = k.token
    BY <1>1 DEF Sane, Fields
  <1> HIDE DEF j
  <1>4. Sane(j)
    BY <1>1, <1>3 DEF Sane
  <1>5. Clean(j) /\ AtText(j) /\ j.reconsume = FALSE /\ j.lexer \in ReturnLexers
    BY <1>1, <1>3, <1>4 DEF Returned, Clean, InDoctype, AtText
  <1>6. Reading(j)
    <2>1. CASE j.lexer \in TextLexers
      <3>1. "SCRIPT_ESCAPED_LT" \in LtLexers /\ "CHAR_REF_IN_ATTR_VALUE" \in TagLexers
        BY DEF LtLexers, TagLexers
      <3>2. j.lexer \in Lexers /\ j.lexer \notin LtLexers /\ j.lexer \notin EndTagLexers
            /\ j.lexer \notin NameLexers /\ j.lexer \notin TagLexers
            /\ j.lexer \notin CommentLexers \cup {"CHAR_REF_IN_DATA", "CHAR_REF_IN_RCDATA"}
            /\ j.lexer \notin DoctypeLexers /\ j.lexer \notin EmptyDoctypeLexers
            /\ j.lexer # "MARKUP_DECLARATION"
        BY <2>1, LexerClasses
      <3> QED
        BY <1>5, <2>1, <3>1, <3>2 DEF Reading
    <2>2. CASE j.lexer = "BOGUS_DOCTYPE"
      <3>1. j.lexer \in DoctypeLexers /\ j.lexer \in Lexers
        BY <2>2 DEF DoctypeLexers, Lexers
      <3>2. j.lexer \notin TextLexers /\ j.lexer \notin LtLexers /\ j.lexer # "SCRIPT_ESCAPED_LT"
            /\ j.lexer \notin EndTagLexers /\ j.lexer \notin NameLexers
            /\ j.lexer \notin TagLexers /\ j.lexer # "CHAR_REF_IN_ATTR_VALUE"
            /\ j.lexer \notin CommentLexers /\ j.lexer \notin {"CHAR_REF_IN_DATA", "CHAR_REF_IN_RCDATA"}
            /\ j.lexer # "MARKUP_DECLARATION" /\ j.lexer \notin EmptyDoctypeLexers
        BY <2>2 DEF TextLexers, ScriptLexers, LtLexers, EndTagLexers, NameLexers, TagLexers,
                    ValueLexers, CommentLexers, EmptyDoctypeLexers
      <3> QED
        BY <1>5, <3>1, <3>2 DEF Reading, Clean
    <2> QED
      BY <1>5, <2>1, <2>2 DEF ReturnLexers
  <1> QED
    BY <1>2, <1>6 DEF Stepped

\* The tree builder changes what the tokenizer reads next, or how.
LEMMA ParserSteps ==
    ASSUME Called, NextToken \/ SwitchesState
    PROVE  source' = source /\ phase' = "called" /\ Returned(tokenizer')
  <1> DEFINE k == tokenizer
  <1>1. Returned(k) /\ Sane(k) /\ Shaped(k) /\ k.lexer \in ReturnLexers
    BY SaneShaped DEF Called, Returned
  <1>2. CASE NextToken
    <2>1. PICK is_foreign \in CurrentNodeForeign : tokenizer' = [k EXCEPT !.foreign = is_foreign]
      BY <1>2 DEF NextToken
    <2>2. source' = source /\ phase' = "called"
      BY <1>2 DEF NextToken
    <2> DEFINE j == [k EXCEPT !.foreign = is_foreign]
    <2> HIDE DEF k
    <2>3. Like(j, k) /\ j.lexer = k.lexer
      BY <1>1, SettersLike DEF Shaped, Fields
    <2> HIDE DEF j
    <2>4. Returned(j)
      BY <1>1, <2>3, LikeReturned
    <2> QED
      BY <2>1, <2>2, <2>4 DEF j
  <1>3. CASE SwitchesState
    <2> DEFINE lexer == RawTexts[tokenizer.token.tag]
               j == [k EXCEPT !.lexer = lexer, !.foreign = FALSE]
    <2>1. lexer \in ReturnLexers
      BY <1>3, RawTextsAssumption DEF SwitchesState, ReturnLexers, TextLexers, ScriptLexers
    <2>2. tokenizer' = j /\ source' = source /\ phase' = "called"
      BY <1>3 DEF SwitchesState
    <2> HIDE DEF k, lexer
    <2>3. Like(j, k) /\ j.lexer = lexer
      BY <1>1 DEF Like, Core, Shaped, Fields
    <2> HIDE DEF j
    <2>4. Returned(j)
      BY <1>1, <2>1, <2>3, LikeReturned
    <2> QED
      BY <2>2, <2>4
  <1> QED
    BY <1>2, <1>3

\* gumbo_tokenizer_state_destroy, whose strings have gone with a token.
LEMMA DestroyStep ==
    ASSUME Called, gumbo_tokenizer_state_destroy
    PROVE  source' = source /\ phase' = "ended" /\ Returned(tokenizer')
  <1>1. Shaped(tokenizer) /\ tokenizer.fault = FALSE /\ tokenizer.doctype = doc_type_state_init
    BY SaneShaped DEF Called, Returned
  <1>2. /\ tokenizer.doctype.name = Null /\ tokenizer.doctype.public = Null
        /\ tokenizer.doctype.system = Null
    BY <1>1 DEF doc_type_state_init
  <1>3. tokenizer' = tokenizer
    BY <1>1, <1>2, RequiresHolds DEF gumbo_tokenizer_state_destroy
  <1> QED
    BY <1>3 DEF Called, gumbo_tokenizer_state_destroy

-----------------------------------------------------------------------------
(***************************************************************************)
(* The source stays: what holds of the next state's tokenizer is next.     *)
(***************************************************************************)

\* What holds of the next tokenizer and this source holds next.
LEMMA SourceStays ==
    ASSUME source' = source
    PROVE  /\ Reading(tokenizer') => Reading(tokenizer)'
           /\ Returned(tokenizer') => Returned(tokenizer)'
  <1>1. Sane(tokenizer') => Sane(tokenizer)'
    BY DEF Sane, Placed, IsPlace, Landing, CharAt
  <1>2. Traced(tokenizer') => Traced(tokenizer)'
    BY DEF Traced, IsTrail, IsPlace, Landing, CharAt, After
  <1>3. Replays(tokenizer') => Replays(tokenizer)'
    BY DEF Replays, IsTrail, IsPlace, Landing, CharAt, After
  <1>4. AtText(tokenizer') => AtText(tokenizer)'
    BY DEF AtText
  <1>5. BehindLt(tokenizer') => BehindLt(tokenizer)'
    BY DEF BehindLt
  <1>6. Reading(tokenizer') => Reading(tokenizer)'
    BY <1>1, <1>2, <1>4, <1>5 DEF Reading, Clean, InDoctype, InTag
  <1> QED
    BY <1>1, <1>3, <1>4, <1>6 DEF Returned

-----------------------------------------------------------------------------
(***************************************************************************)
(* The theorems.                                                           *)
(***************************************************************************)

\* gumbo_tokenizer_state_init: as if a call had returned.
LEMMA BeginsReturned ==
    ASSUME Init
    PROVE  Called
  <1> PICK input \in Inputs :
          /\ source = input.text
          /\ tokenizer = gumbo_tokenizer_state_init(input.text, input.lexer)
    BY DEF Init
  <1>1. TextIsRead /\ input.lexer \in ReturnLexers
    BY InputsAssumption DEF TextIsRead, Symbols, ReturnLexers, TextLexers, ScriptLexers
  <1> DEFINE origin == [line |-> 1, column |-> 1, offset |-> 0]
             i == [start |-> 1, width |-> 0, current |-> EOF, pos |-> origin,
                   mark |-> Unmarked, mark_pos |-> origin]
             k == tokenizer
  <1>2. i = [f \in IterFields |-> i[f]] /\ i.start = 1 /\ i.mark = Unmarked
    BY DEF IterFields
  <1>3. k.it = read_char(source, i)
    BY DEF gumbo_tokenizer_state_init, utf8iterator_init
  <1> HIDE DEF i
  <1>4. Len(source) \in Nat /\ 1 \in 1 .. Len(source) + 1
    BY <1>1, SourceFacts
  <1>5. Placed(k.it) /\ k.it.start = Landing(1)
    BY <1>1, <1>2, <1>3, <1>4, ReadPlaced
  <1>6. k = [f \in Fields |-> k[f]]
    <2>1. gumbo_tokenizer_state_init(source, input.lexer) =
             [f \in Fields |-> gumbo_tokenizer_state_init(source, input.lexer)[f]]
      BY DEF gumbo_tokenizer_state_init, Fields
    <2> QED
      BY <2>1
  <1>7. /\ k.lexer = input.lexer /\ k.reconsume = FALSE /\ k.tmp = <<>> /\ k.emit = NotEmitting
        /\ k.from = 1 /\ k.doctype = doc_type_state_init /\ k.owned = {} /\ k.fault = FALSE
        /\ k.token = NoToken
    BY DEF gumbo_tokenizer_state_init
  <1> HIDE DEF k
  <1>8. Sane(k)
    <2>1. NoToken = [f \in TokenFields |-> NoToken[f]]
      BY DEF NoToken, TokenFields
    <2>2. doc_type_state_init = [f \in DoctypeFields |-> doc_type_state_init[f]]
      BY DEF doc_type_state_init, DoctypeFields
    <2>3. k.tmp \in Seq(Chars)
      BY <1>7
    <2> QED
      BY <1>4, <1>5, <1>6, <1>7, <2>1, <2>2, <2>3 DEF Sane
  <1>9. AtText(k)
    <2> SUFFICES ASSUME k.it.current = "<" PROVE 1 <= k.it.start /\ source[1] = "<"
      BY <1>7 DEF AtText
    <2>1. k.it.start \in Nat /\ k.it.start >= 1 /\ source[k.it.start] = "<"
      BY <1>1, <1>5, PlacedFacts
    <2> QED
      BY <1>4, <1>5, <2>1 DEF Landing
  <1> QED
    BY <1>1, <1>7, <1>8, <1>9 DEF Called, Returned, Replays, k

\* The handlers run in the loop of gumbo_lex only.
LEMMA LexReads ==
    ASSUME Lex
    PROVE  phase = "lexing"
  <1>1. CASE TextStates
    BY <1>1 DEF TextStates, In,
           LessThanSign, EndTagOpen, EndTagName, EscapedStart, NamesScript, DoubleEscaped,
           handle_data_state, handle_char_ref_in_data_state, handle_rcdata_state,
           handle_char_ref_in_rcdata_state, handle_rawtext_state, handle_script_state,
           handle_plaintext_state, handle_rcdata_lt_state, handle_rcdata_end_tag_open_state,
           handle_rcdata_end_tag_name_state, handle_rawtext_lt_state,
           handle_rawtext_end_tag_open_state, handle_rawtext_end_tag_name_state,
           handle_script_lt_state, handle_script_end_tag_open_state,
           handle_script_end_tag_name_state, handle_script_escaped_start_state,
           handle_script_escaped_start_dash_state, handle_script_escaped_state,
           handle_script_escaped_dash_state, handle_script_escaped_dash_dash_state,
           handle_script_escaped_lt_state, handle_script_escaped_end_tag_open_state,
           handle_script_escaped_end_tag_name_state, handle_script_double_escaped_start_state,
           handle_script_double_escaped_state, handle_script_double_escaped_dash_state,
           handle_script_double_escaped_dash_dash_state, handle_script_double_escaped_lt_state,
           handle_script_double_escaped_end_state
  <1>2. CASE TagSyntax
    BY <1>2 DEF TagSyntax, In, Quoted, handle_tag_open_state, handle_end_tag_open_state,
           handle_tag_name_state, handle_before_attr_name_state, handle_attr_name_state,
           handle_after_attr_name_state, handle_before_attr_value_state,
           handle_attr_value_double_quoted_state, handle_attr_value_single_quoted_state,
           handle_attr_value_unquoted_state, handle_char_ref_in_attr_value_state,
           handle_after_attr_value_quoted_state, handle_self_closing_start_tag_state
  <1>3. CASE MarkupSyntax
    BY <1>3 DEF MarkupSyntax, In, PublicId, AfterPublicId, SystemId, QuotedId,
           handle_bogus_comment_state, handle_markup_declaration_state,
           handle_comment_start_state, handle_comment_start_dash_state, handle_comment_state,
           handle_comment_end_dash_state, handle_comment_end_state,
           handle_comment_end_bang_state, handle_doctype_state,
           handle_before_doctype_name_state, handle_doctype_name_state,
           handle_after_doctype_name_state, handle_after_doctype_public_keyword_state,
           handle_before_doctype_public_id_state, handle_doctype_public_id_double_quoted_state,
           handle_doctype_public_id_single_quoted_state, handle_after_doctype_public_id_state,
           handle_between_doctype_public_system_id_state,
           handle_after_doctype_system_keyword_state, handle_before_doctype_system_id_state,
           handle_doctype_system_id_double_quoted_state,
           handle_doctype_system_id_single_quoted_state, handle_after_doctype_system_id_state,
           handle_bogus_doctype_state, handle_cdata_state
  <1> QED
    BY <1>1, <1>2, <1>3 DEF Lex

\* Every step keeps the invariant.
LEMMA StepKeepsInvariant ==
    ASSUME IInv, [Next]_vars
    PROVE  IInv'
  <1>0. TextIsRead /\ (phase = "lexing" => Lexing) /\ (phase # "lexing" => Called)
    BY DEF IInv, TextIsRead, Lexing, Called
  <1>1. ASSUME Stepped PROVE IInv'
    BY <1>0, <1>1, SourceStays DEF Stepped, IInv, TextIsRead
  <1>2. ASSUME source' = source, phase' \in {"called", "ended"}, Returned(tokenizer') PROVE IInv'
    BY <1>0, <1>2, SourceStays DEF IInv, TextIsRead
  <1>3. CASE EmitBuffered
    BY <1>0, <1>1, <1>3, EmitBufferedStep DEF EmitBuffered
  <1>4. CASE EmitTemporary
    BY <1>0, <1>1, <1>4, EmitTemporaryStep DEF EmitTemporary
  <1>5. CASE StartLexing
    BY <1>0, <1>1, <1>5, StartLexingStep DEF StartLexing
  <1>6. CASE Lex
    BY <1>0, <1>1, <1>6, LexReads, LexSteps
  <1>7. CASE NextToken \/ SwitchesState
    BY <1>0, <1>2, <1>7, ParserSteps DEF NextToken, SwitchesState
  <1>8. CASE gumbo_tokenizer_state_destroy
    BY <1>0, <1>2, <1>8, DestroyStep DEF gumbo_tokenizer_state_destroy
  <1>9. CASE UNCHANGED vars
    <2>1. source' = source /\ tokenizer' = tokenizer /\ phase' = phase
      BY <1>9 DEF vars
    <2> QED
      BY <2>1, SourceStays DEF IInv
  <1> QED
    BY <1>3, <1>4, <1>5, <1>6, <1>7, <1>8, <1>9 DEF Next, Ended

\* The invariant holds in every state that can be reached.
THEOREM InductiveInvariant == Spec => []IInv
  <1>1. Init => IInv
    BY BeginsReturned DEF Init, IInv, Called, TextIsRead
  <1>2. IInv /\ [Next]_vars => IInv'
    BY StepKeepsInvariant
  <1> QED
    BY <1>1, <1>2, PTL DEF Spec

\* No assert of the tokenizer fails, whatever the input and whatever the tree builder answers.
THEOREM AssertsAlwaysHold == Spec => []AssertsHold
  <1>1. IInv => AssertsHold
    <2> SUFFICES ASSUME IInv PROVE Sane(tokenizer)
      BY DEF AssertsHold, Sane
    <2>1. CASE phase # "lexing"
      BY <2>1 DEF IInv, Returned
    <2>2. CASE phase = "lexing"
      <3>1. Reading(tokenizer)
        BY <2>2 DEF IInv
      <3> QED
        BY <3>1 DEF Reading, Lexers, InDoctype, Clean, InTag
    <2> QED
      BY <2>1, <2>2
  <1> QED
    BY <1>1, InductiveInvariant, PTL

\* Between two calls nothing is left that only the tokenizer points to.
THEOREM NothingEverLeaks == Spec => []NothingLeaks
  <1>1. IInv => NothingLeaks
    BY DEF IInv, Returned, NothingLeaks, doc_type_state_init
  <1> QED
    BY <1>1, InductiveInvariant, PTL
=============================================================================
