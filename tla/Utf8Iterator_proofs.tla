------------------------- MODULE Utf8Iterator_proofs -------------------------
(***************************************************************************)
(* Proofs about the iterator, for every set of inputs.                     *)
(*                                                                         *)
(* InBounds is an invariant.  It is inductive once the record is known to  *)
(* have the fields that the updates assume (Shaped) and the input to be a  *)
(* sequence; what the decoder's table says does not matter for it, only    *)
(* that a verdict is about a byte of the input.                            *)
(*                                                                         *)
(* Utf8Text implements CharCursor.  Here the table does matter: from the   *)
(* well-formed sequences of Unicode to the states that the decoder goes    *)
(* through over one (DecodingRuns) and to its first verdict (VerdictIs),   *)
(* from there to the character that is read (ReadCharIs, NextIs), and from *)
(* the recursion that defines the text of a source to what holds of each   *)
(* of its characters (TextOfIs).  The invariant is then that the iterator  *)
(* is at one of them (CInv).                                               *)
(***************************************************************************)
EXTENDS Utf8Text, FoldLemmas, TLAPS

\* A source position, and the iterator, have the fields they are built with.
IsPlace(p) == DOMAIN p = {"line", "column", "offset"}

Shaped(i) ==
    /\ DOMAIN i = {"start", "width", "current", "pos", "mark", "mark_pos"}
    /\ IsPlace(i.pos)
    /\ IsPlace(i.mark_pos)

\* The iterator is at a byte of the input or at its end, and the offset agrees.
AtPlace(src, i) ==
    /\ Shaped(i)
    /\ i.start \in 1 .. Len(src) + 1
    /\ i.pos.offset = i.start - 1

\* What was marked is a place of the input.
MarkInside(src, i) ==
    /\ i.mark \in 0 .. Len(src) + 1
    /\ i.mark # Unmarked => i.mark_pos.offset = i.mark - 1

\* The character under the cursor is in the input; only the end has none.
Inside(src, i) ==
    /\ AtPlace(src, i)
    /\ i.width \in Nat
    /\ i.start + i.width <= Len(src) + 1
    /\ i.width = 0 <=> i.start = Len(src) + 1

\* What was marked stays marked.
KeepsMark(i, j) == i.mark = j.mark /\ i.mark_pos = j.mark_pos

IInv ==
    /\ source \in Seq(STRING)
    /\ Inside(source, it)
    /\ MarkInside(source, it)

-----------------------------------------------------------------------------
(***************************************************************************)
(* The operators of Utf8.                                                  *)
(***************************************************************************)

\* The first verdict is a verdict: a set of positions that is not empty has a least one.
LEMMA FirstIsOne ==
    ASSUME NEW from \in Nat, NEW to \in Nat, NEW positions \in SUBSET (from .. to), positions # {}
    PROVE  First(positions) \in positions
  <1>1. positions \subseteq Nat
    OBVIOUS
  <1>2. \E c \in positions : \A d \in positions : c <= d
    BY <1>1, LeastNumber
  <1> QED
    BY <1>2 DEF First

\* read_char stays where it is, or one byte on, at the line feed of a pair; the character it
\* reads is inside the input.
LEMMA ReadCharInside ==
    ASSUME NEW src \in Seq(STRING), NEW i, AtPlace(src, i)
    PROVE  Inside(src, read_char(src, i)) /\ KeepsMark(read_char(src, i), i)
  <1> DEFINE verdicts == Verdicts(src, i.start)
             c        == First(verdicts)
  <1>0. /\ Len(src) \in Nat
        /\ i.start \in Nat /\ 1 <= i.start /\ i.start <= Len(src) + 1
    BY DEF AtPlace
  <1>1. CASE i.start > Len(src)
    <2>1. read_char(src, i) = [i EXCEPT !.current = EOF, !.width = 0]
      BY <1>1 DEF read_char
    <2> QED
      BY <2>1, <1>0, <1>1 DEF AtPlace, Inside, Shaped, KeepsMark
  <1>2. CASE i.start <= Len(src) /\ verdicts = {}
    <2>1. read_char(src, i) =
            [i EXCEPT !.current = Replacement, !.width = Len(src) + 1 - i.start]
      BY <1>0, <1>2 DEF read_char, Decoded, Truncated
    <2> QED
      BY <2>1, <1>0, <1>2 DEF AtPlace, Inside, Shaped, KeepsMark
  <1>3. CASE i.start <= Len(src) /\ verdicts # {}
    <2>1. c \in i.start .. Len(src)
      <3>1. verdicts \in SUBSET (i.start .. Len(src))
        BY DEF Verdicts
      <3> QED
        BY <3>1, <1>0, <1>3, FirstIsOne
    <2>2. read_char(src, i) = Decided(src, i, c)
      BY <1>0, <1>3 DEF read_char, Decoded
    <2> HIDE DEF c, verdicts
    <2>3. CASE Decided(src, i, c) = Rejected(i, c)
      BY <2>1, <2>2, <2>3, <1>0, <1>3 DEF Rejected, AtPlace, Inside, Shaped, KeepsMark
    <2>4. CASE Decided(src, i, c) = CarriageReturn(src, i)
      BY <2>1, <2>2, <2>4, <1>0, <1>3 DEF CarriageReturn, AtPlace, Inside, Shaped, IsPlace, KeepsMark
    <2>5. CASE Decided(src, i, c) = [i EXCEPT !.current = Spelled(src, i.start, c),
                                              !.width = c - i.start + 1]
      BY <2>1, <2>2, <2>5, <1>0, <1>3 DEF AtPlace, Inside, Shaped, KeepsMark
    <2> QED
      BY <2>3, <2>4, <2>5 DEF Decided, Accepted
  <1> QED
    BY <1>0, <1>1, <1>2, <1>3

\* update_position moves the offset by the width, whatever it does to line and column.
LEMMA UpdatePositionMoves ==
    ASSUME NEW i, Shaped(i)
    PROVE  /\ Shaped(update_position(i))
           /\ update_position(i).start = i.start
           /\ update_position(i).width = i.width
           /\ update_position(i).pos.offset = i.pos.offset + i.width
           /\ KeepsMark(update_position(i), i)
  <1> DEFINE moved == [i EXCEPT !.pos.offset = @ + i.width]
  <1>1. /\ Shaped(moved)
        /\ moved.start = i.start
        /\ moved.width = i.width
        /\ moved.pos.offset = i.pos.offset + i.width
        /\ KeepsMark(moved, i)
    BY DEF Shaped, IsPlace, KeepsMark
  <1> HIDE DEF moved
  <1> DEFINE line == [moved EXCEPT !.pos.line = @ + 1, !.pos.column = 1]
             tab  == [moved EXCEPT !.pos.column = ((@ \div TabStop) + 1) * TabStop]
             next == [moved EXCEPT !.pos.column = @ + 1]
  <1> DEFINE Kept(j) == /\ Shaped(j)
                        /\ j.start = i.start
                        /\ j.width = i.width
                        /\ j.pos.offset = i.pos.offset + i.width
                        /\ KeepsMark(j, i)
  <1>2. Kept(line) /\ Kept(tab) /\ Kept(next)
    <2>1. Kept(line)
      BY <1>1 DEF Shaped, IsPlace, KeepsMark
    <2>2. Kept(tab)
      BY <1>1 DEF Shaped, IsPlace, KeepsMark
    <2>3. Kept(next)
      BY <1>1 DEF Shaped, IsPlace, KeepsMark
    <2> QED
      BY <2>1, <2>2, <2>3
  <1>3. update_position(i) \in {line, tab, next, moved}
    BY DEF update_position, moved
  <1> HIDE DEF line, tab, next
  <1> QED
    BY <1>1, <1>2, <1>3

\* utf8iterator_next keeps everything inside.
LEMMA NextInside ==
    ASSUME NEW src \in Seq(STRING), NEW i, Inside(src, i)
    PROVE  Inside(src, utf8iterator_next(src, i)) /\ KeepsMark(utf8iterator_next(src, i), i)
  <1> DEFINE u == update_position(i)
             n == [u EXCEPT !.start = @ + i.width]
  <1>0. Len(src) \in Nat /\ i.start \in Nat /\ i.width \in Nat
    BY DEF Inside, AtPlace
  <1>1. /\ Shaped(u) /\ u.start = i.start /\ u.pos.offset = i.pos.offset + i.width /\ KeepsMark(u, i)
    BY UpdatePositionMoves DEF Inside, AtPlace
  <1> HIDE DEF u
  <1>2. AtPlace(src, n) /\ KeepsMark(n, i)
    BY <1>0, <1>1 DEF Inside, AtPlace, Shaped, KeepsMark
  <1>3. Inside(src, read_char(src, n)) /\ KeepsMark(read_char(src, n), n)
    BY <1>2, ReadCharInside
  <1>4. utf8iterator_next(src, i) = read_char(src, n)
    BY DEF utf8iterator_next, u
  <1> QED
    BY <1>2, <1>3, <1>4 DEF KeepsMark

-----------------------------------------------------------------------------
(***************************************************************************)
(* The invariant.                                                          *)
(***************************************************************************)
LEMMA InitIInv == Init => IInv
  <1> SUFFICES ASSUME Init PROVE IInv
    OBVIOUS
  <1> DEFINE origin == [line |-> 1, column |-> 1, offset |-> 0]
             first  == [start |-> 1, width |-> 0, current |-> EOF, pos |-> origin,
                        mark |-> Unmarked, mark_pos |-> origin]
  <1>1. source \in Seq(STRING) /\ Len(source) \in Nat
    BY SourcesAssumption DEF Init
  <1>2. AtPlace(source, first) /\ first.mark = Unmarked
    BY <1>1 DEF AtPlace, Shaped, IsPlace
  <1>3. it = read_char(source, first)
    BY DEF Init, utf8iterator_init
  <1> HIDE DEF first
  <1>4. Inside(source, it) /\ KeepsMark(it, first)
    BY <1>1, <1>2, <1>3, ReadCharInside
  <1> QED
    BY <1>1, <1>2, <1>4 DEF IInv, MarkInside, KeepsMark, Unmarked

LEMMA NextIInv == IInv /\ [Next]_vars => IInv'
  <1> SUFFICES ASSUME IInv, [Next]_vars PROVE IInv'
    OBVIOUS
  <1>0. source \in Seq(STRING) /\ Len(source) \in Nat
    BY DEF IInv
  <1>1. ASSUME it' = utf8iterator_next(source, it), source' = source
        PROVE  IInv'
    <2>1. Inside(source, it') /\ KeepsMark(it', it)
      BY <1>0, <1>1, NextInside DEF IInv
    <2> QED
      BY <1>1, <2>1 DEF IInv, MarkInside, KeepsMark
  <1>2. CASE Forward
    BY <1>1, <1>2 DEF Forward
  <1>3. CASE Mark
    <2>1. it' = [it EXCEPT !.mark = it.start, !.mark_pos = it.pos] /\ source' = source
      BY <1>3 DEF Mark, utf8iterator_mark
    <2> QED
      BY <1>0, <2>1 DEF IInv, Inside, AtPlace, MarkInside, Shaped
  <1>4. CASE Reset
    <2> DEFINE back == [it EXCEPT !.start = it.mark, !.pos = it.mark_pos]
    <2>1. it' = read_char(source, back) /\ source' = source /\ it.mark # Unmarked
      BY <1>4 DEF Reset, utf8iterator_reset
    <2>2. AtPlace(source, back) /\ KeepsMark(back, it)
      BY <1>0, <2>1 DEF IInv, Inside, AtPlace, MarkInside, Shaped, KeepsMark, Unmarked
    <2> HIDE DEF back
    <2>3. Inside(source, it') /\ KeepsMark(it', back)
      BY <1>0, <2>1, <2>2, ReadCharInside
    <2> QED
      BY <2>1, <2>2, <2>3 DEF IInv, MarkInside, KeepsMark
  <1>5. CASE ConsumeOne
    BY <1>1, <1>5 DEF ConsumeOne
  <1>6. ASSUME NEW literal \in Literals, MaybeConsumeMatch(literal)
        PROVE  IInv'
    BY <1>6 DEF MaybeConsumeMatch, IInv
  <1>7. CASE UNCHANGED vars
    BY <1>7 DEF vars, IInv
  <1> QED
    BY <1>2, <1>3, <1>4, <1>5, <1>6, <1>7 DEF Next

LEMMA IInvImpliesInBounds == IInv => InBounds
  BY DEF IInv, InBounds, Inside, AtPlace, MarkInside

\* Whatever callers mark, reset and match, the iterator never leaves the input, and the offset
\* it reports is where it is.
THEOREM IteratorStaysInBounds == Spec => []InBounds
  <1>1. Spec => []IInv
    BY InitIInv, NextIInv, PTL DEF Spec
  <1> QED
    BY <1>1, IInvImpliesInBounds, PTL

-----------------------------------------------------------------------------
(***************************************************************************)
(* The decoder's table.                                                    *)
(***************************************************************************)
Leads == DOMAIN AfterLead

\* How many bytes the sequence has that begins with one.
Width(b) ==
    IF b = "C2" THEN 2
    ELSE IF b \in {"E0", "E1", "ED"} THEN 3
    ELSE IF b \in {"F0", "F1", "F4"} THEN 4
    ELSE 1

\* The bytes that may follow a lead.
Second(b) == GoesOnWith(AfterLead[b])

DecoderStates ==
    {"accept", "reject", "one", "two", "three", "after E0", "after ED", "after F0", "after F4"}

\* The decoder's state when the rest of a sequence of w bytes is still to come.
Expecting(rest) == IF rest = 0 THEN "accept" ELSE IF rest = 1 THEN "one" ELSE "two"

LEMMA LeadsAre == Leads = {"C2", "E0", "E1", "ED", "F0", "F1", "F4"}
  BY DEF Leads, AfterLead

LEMMA LeadStates ==
    /\ AfterLead["C2"] = "one"
    /\ AfterLead["E0"] = "after E0" /\ AfterLead["E1"] = "two" /\ AfterLead["ED"] = "after ED"
    /\ AfterLead["F0"] = "after F0" /\ AfterLead["F1"] = "three" /\ AfterLead["F4"] = "after F4"
  BY DEF AfterLead

LEMMA LeadTable ==
    ASSUME NEW b \in Leads
    PROVE  /\ Width(b) \in 2 .. 4
           /\ AfterLead[b] \in DecoderStates \ {"accept", "reject"}
           /\ decode("accept", b) = AfterLead[b]
           /\ GoesOnTo(AfterLead[b]) = Expecting(Width(b) - 2)
           /\ Second(b) \subseteq Continuation
  <1>1. b \in {"C2", "E0", "E1", "ED", "F0", "F1", "F4"}
    BY LeadsAre
  <1>2. decode("accept", b) = AfterLead[b]
    BY DEF decode, Leads
  <1>3. AfterLead[b] \in DecoderStates \ {"accept", "reject"}
    BY <1>1, LeadStates DEF DecoderStates
  <1>4. Width(b) \in 2 .. 4 /\ GoesOnTo(AfterLead[b]) = Expecting(Width(b) - 2)
    <2>1. CASE b = "C2"
      <3>1. Width(b) = 2 /\ GoesOnTo(AfterLead[b]) = "accept"
        BY <2>1, LeadStates DEF Width, GoesOnTo
      <3> QED
        BY <3>1 DEF Expecting
    <2>2. CASE b \in {"E0", "E1", "ED"}
      <3>1. Width(b) = 3 /\ GoesOnTo(AfterLead[b]) = "one"
        BY <2>2, LeadStates DEF Width, GoesOnTo
      <3> QED
        BY <3>1 DEF Expecting
    <2>3. CASE b \in {"F0", "F1", "F4"}
      <3>1. Width(b) = 4 /\ GoesOnTo(AfterLead[b]) = "two"
        BY <2>3, LeadStates DEF Width, GoesOnTo
      <3> QED
        BY <3>1 DEF Expecting
    <2> QED
      BY <1>1, <2>1, <2>2, <2>3
  <1>5. Second(b) \subseteq Continuation
    BY <1>1, LeadStates DEF Second, GoesOnWith, Continuation
  <1> QED
    BY <1>2, <1>3, <1>4, <1>5

LEMMA DecodeTyped ==
    ASSUME NEW st \in DecoderStates, NEW b
    PROVE  decode(st, b) \in DecoderStates
  <1>1. b \in DOMAIN AfterLead => AfterLead[b] \in DecoderStates
    BY LeadTable DEF Leads
  <1>2. GoesOnTo(st) \in DecoderStates
    BY DEF GoesOnTo, DecoderStates
  <1> QED
    BY <1>1, <1>2 DEF decode, DecoderStates

\* What is expected goes on with any continuation byte.
LEMMA DecodeRest ==
    ASSUME NEW rest \in 1 .. 2, NEW b
    PROVE  decode(Expecting(rest), b) =
              IF b \in Continuation THEN Expecting(rest - 1) ELSE "reject"
  BY DEF decode, Expecting, GoesOnWith, GoesOnTo

LEMMA DecodeSecond ==
    ASSUME NEW b \in Leads, NEW c
    PROVE  decode(AfterLead[b], c) =
              IF c \in Second(b) THEN Expecting(Width(b) - 2) ELSE "reject"
  BY LeadTable DEF decode, Second

\* The decoder goes from byte to byte.
LEMMA DecodingSteps ==
    ASSUME NEW src \in Seq(STRING), NEW s \in 1 .. Len(src)
    PROVE  /\ Decoding(src, s)[s - 1] = "accept"
           /\ \A c \in s .. Len(src) :
                 Decoding(src, s)[c] = decode(Decoding(src, s)[c - 1], src[c])
  <1> DEFINE S == DecoderStates
             F == [z \in Int \X S |-> decode(z[2], src[z[1]])]
             IsDecoding(f) == f = [c \in s - 1 .. Len(src) |->
                                      IF c = s - 1 THEN "accept" ELSE decode(f[c - 1], src[c])]
  <1>0. Len(src) \in Nat /\ s - 1 \in Int /\ s - 1 <= Len(src) /\ s \in Nat
    OBVIOUS
  <1>1. "accept" \in S
    BY DEF DecoderStates
  <1>2. F \in [Int \X S -> S]
    <2> HIDE DEF S
    <2>1. ASSUME NEW z \in Int \X S PROVE decode(z[2], src[z[1]]) \in S
      <3>1. z[2] \in S
        OBVIOUS
      <3> QED
        BY <3>1, DecodeTyped DEF S
    <2> QED
      BY <2>1
  <1>3. \A c \in Int, st \in S : F[<<c, st>>] = decode(st, src[c])
    <2> HIDE DEF S
    <2> QED
      OBVIOUS
  <1> HIDE DEF S, F
  <1>4. PICK f \in [s - 1 .. Len(src) -> S] : IsRecursion(f, s - 1, Len(src), "accept", F)
    <2> DEFINE a == s - 1
               b == Len(src)
    <2>1. a \in Int /\ b \in Int /\ a <= b
      BY <1>0
    <2> HIDE DEF a, b
    <2>2. \E f \in [a .. b -> S] : IsRecursion(f, a, b, "accept", F)
      BY <1>1, <1>2, <2>1, RecursionExists
    <2> QED
      BY <2>2 DEF a, b
  <1>5. IsDecoding(f)
    <2>1. ASSUME NEW c \in s - 1 .. Len(src), c # s - 1
          PROVE  F[<<c, f[c - 1]>>] = decode(f[c - 1], src[c])
      <3>1. c - 1 \in s - 1 .. Len(src) /\ c \in Int
        BY <1>0, <2>1
      <3> QED
        BY <1>3, <3>1
    <2> QED
      BY <1>4, <2>1 DEF IsRecursion
  <1>6. IsDecoding(Decoding(src, s))
    BY <1>5 DEF Decoding
  <1> HIDE DEF IsDecoding
  <1> DEFINE D == Decoding(src, s)
  <1>7. D = [c \in s - 1 .. Len(src) |-> IF c = s - 1 THEN "accept" ELSE decode(D[c - 1], src[c])]
    BY <1>6 DEF IsDecoding
  <1> HIDE DEF D
  <1>8. s - 1 \in s - 1 .. Len(src) /\ \A c \in s .. Len(src) : c \in s - 1 .. Len(src) /\ c # s - 1
    BY <1>0
  <1>9. D[s - 1] = "accept" /\ \A c \in s .. Len(src) : D[c] = decode(D[c - 1], src[c])
    BY <1>7, <1>8
  <1> QED
    BY <1>9 DEF D
-----------------------------------------------------------------------------
(***************************************************************************)
(* Unicode's definition of well-formed sequences, byte by byte.            *)
(***************************************************************************)

\* The second byte and those behind it are what the lead asks for.
Rest(w) ==
    /\ Len(w) >= 2 => w[2] \in Second(w[1])
    /\ Len(w) >= 3 => w[3] \in Continuation
    /\ Len(w) >= 4 => w[4] \in Continuation

LEMMA ASCIIFacts ==
    /\ \A b \in ASCII : b \notin Leads /\ b \notin Continuation /\ b # "FF"
    /\ EOF \notin ASCII /\ Replacement \notin ASCII
  BY BytesAssumption DEF NotASCII, Leads

\* A sequence of up to four bytes is written as the list of them.
LEMMA OneByte ==
    ASSUME NEW S, NEW w \in Seq(S), Len(w) = 1
    PROVE  w = <<w[1]>>
  OBVIOUS
LEMMA TwoBytes ==
    ASSUME NEW S, NEW w \in Seq(S), Len(w) = 2
    PROVE  w = <<w[1], w[2]>>
  OBVIOUS
LEMMA ThreeBytes ==
    ASSUME NEW S, NEW w \in Seq(S), Len(w) = 3
    PROVE  w = <<w[1], w[2], w[3]>>
  OBVIOUS
LEMMA FourBytesLong ==
    ASSUME NEW S, NEW w \in Seq(S), Len(w) = 4
    PROVE  w = <<w[1], w[2], w[3], w[4]>>
  OBVIOUS

LEMMA Seconds ==
    /\ Second("C2") = Continuation
    /\ Second("E0") = {"A0"} /\ Second("E1") = Continuation /\ Second("ED") = {"80", "90"}
    /\ Second("F0") = {"90", "A0"} /\ Second("F1") = Continuation /\ Second("F4") = {"80"}
  BY LeadStates DEF Second, GoesOnWith

LEMMA Widths ==
    /\ Width("C2") = 2
    /\ Width("E0") = 3 /\ Width("E1") = 3 /\ Width("ED") = 3
    /\ Width("F0") = 4 /\ Width("F1") = 4 /\ Width("F4") = 4
    /\ \A b : b \notin Leads => Width(b) = 1
  BY LeadsAre DEF Width

\* The sequences that begin with a lead, as a set.
Sequences(l) ==
    IF Width(l) = 2 THEN {l} \X Second(l)
    ELSE IF Width(l) = 3 THEN {l} \X Second(l) \X Continuation
    ELSE {l} \X Second(l) \X Continuation \X Continuation

LEMMA WellFormedByLead ==
    WellFormed = {<<b>> : b \in ASCII} \cup UNION {Sequences(l) : l \in Leads}
  <1>1. /\ Sequences("C2") = {"C2"} \X Continuation
        /\ Sequences("E0") = {"E0"} \X {"A0"} \X Continuation
        /\ Sequences("E1") = {"E1"} \X Continuation \X Continuation
        /\ Sequences("ED") = {"ED"} \X {"80", "90"} \X Continuation
        /\ Sequences("F0") = {"F0"} \X {"90", "A0"} \X Continuation \X Continuation
        /\ Sequences("F1") = {"F1"} \X Continuation \X Continuation \X Continuation
        /\ Sequences("F4") = {"F4"} \X {"80"} \X Continuation \X Continuation
    BY Seconds, Widths DEF Sequences
  <1>2. UNION {Sequences(l) : l \in Leads} =
           Sequences("C2") \cup Sequences("E0") \cup Sequences("E1") \cup Sequences("ED")
             \cup Sequences("F0") \cup Sequences("F1") \cup Sequences("F4")
    <2> HIDE DEF Sequences, Leads
    <2> QED
      BY LeadsAre
  <1> QED
    BY <1>1, <1>2 DEF WellFormed

\* What is in the set is such a sequence.
LEMMA WellFormedIs ==
    ASSUME NEW w \in WellFormed
    PROVE  /\ Len(w) \in 1 .. 4 /\ DOMAIN w = 1 .. Len(w)
           /\ w = [i \in 1 .. Len(w) |-> w[i]]
           /\ IF Len(w) = 1 THEN w[1] \in ASCII
              ELSE w[1] \in Leads /\ Len(w) = Width(w[1]) /\ Rest(w)
  <1>1. ASSUME NEW b \in ASCII, w = <<b>>
        PROVE  Len(w) = 1 /\ w[1] \in ASCII /\ DOMAIN w = 1 .. 1 /\ w = [i \in 1 .. 1 |-> w[i]]
    BY <1>1
  <1>2. ASSUME NEW l \in Leads, w \in Sequences(l)
        PROVE  /\ Len(w) \in 2 .. 4 /\ DOMAIN w = 1 .. Len(w)
               /\ w = [i \in 1 .. Len(w) |-> w[i]]
               /\ w[1] = l /\ Len(w) = Width(l) /\ Rest(w)
    <2> DEFINE B == Second(l)
               C == Continuation
    <2> HIDE DEF B, C
    <2>1. CASE w \in {l} \X B /\ Width(l) = 2
      <3>1. Len(w) = 2 /\ w[1] = l /\ w[2] \in B /\ DOMAIN w = 1 .. 2
            /\ w = [i \in 1 .. 2 |-> w[i]]
        BY <2>1
      <3> QED
        BY <2>1, <3>1 DEF Rest, B
    <2>2. CASE w \in {l} \X B \X C /\ Width(l) = 3
      <3>1. Len(w) = 3 /\ w[1] = l /\ w[2] \in B /\ w[3] \in C /\ DOMAIN w = 1 .. 3
            /\ w = [i \in 1 .. 3 |-> w[i]]
        BY <2>2
      <3> QED
        BY <2>2, <3>1 DEF Rest, B, C
    <2>3. CASE w \in {l} \X B \X C \X C /\ Width(l) = 4
      <3>1. Len(w) = 4 /\ w[1] = l /\ w[2] \in B /\ w[3] \in C /\ w[4] \in C /\ DOMAIN w = 1 .. 4
            /\ w = [i \in 1 .. 4 |-> w[i]]
        BY <2>3
      <3> QED
        BY <2>3, <3>1 DEF Rest, B, C
    <2>4. Width(l) \in 2 .. 4
      BY LeadTable
    <2> QED
      BY <1>2, <2>1, <2>2, <2>3, <2>4 DEF Sequences, B, C
  <1>3. (\E b \in ASCII : w = <<b>>) \/ (\E l \in Leads : w \in Sequences(l))
    <2> HIDE DEF Leads
    <2> QED
      BY WellFormedByLead
  <1>4. CASE \E b \in ASCII : w = <<b>>
    BY <1>1, <1>4
  <1>5. CASE \E l \in Leads : w \in Sequences(l)
    <2>1. PICK l \in Leads : w \in Sequences(l)
      BY <1>5
    <2>2. /\ Len(w) \in 2 .. 4 /\ DOMAIN w = 1 .. Len(w)
          /\ w = [i \in 1 .. Len(w) |-> w[i]]
          /\ w[1] = l /\ Len(w) = Width(l) /\ Rest(w)
      BY <1>2, <2>1
    <2> QED
      BY <2>2
  <1> QED
    BY <1>3, <1>4, <1>5

\* And every such sequence is in it.
LEMMA IsWellFormed ==
    ASSUME NEW S, NEW w \in Seq(S), w[1] \in Leads, Len(w) = Width(w[1]), Rest(w)
    PROVE  w \in WellFormed
  <1> DEFINE l == w[1]
             B == Second(l)
             C == Continuation
  <1> HIDE DEF B, C
  <1>1. Width(l) \in 2 .. 4
    BY LeadTable
  <1>2. CASE Width(l) = 2
    <2>1. w = <<l, w[2]>> /\ w[2] \in B
      BY <1>2, TwoBytes DEF Rest, B
    <2>2. w \in {l} \X B
      BY <2>1
    <2> QED
      BY <1>2, <2>2, WellFormedByLead DEF Sequences, B
  <1>3. CASE Width(l) = 3
    <2>1. w = <<l, w[2], w[3]>> /\ w[2] \in B /\ w[3] \in C
      BY <1>3, ThreeBytes DEF Rest, B, C
    <2>2. w \in {l} \X B \X C
      BY <2>1
    <2> QED
      BY <1>3, <2>2, WellFormedByLead DEF Sequences, B, C
  <1>4. CASE Width(l) = 4
    <2>1. w = <<l, w[2], w[3], w[4]>> /\ w[2] \in B /\ w[3] \in C /\ w[4] \in C
      BY <1>4, FourBytesLong DEF Rest, B, C
    <2>2. w \in {l} \X B \X C \X C
      BY <2>1
    <2> QED
      BY <1>4, <2>2, WellFormedByLead DEF Sequences, B, C
  <1> QED
    BY <1>1, <1>2, <1>3, <1>4

\* A sequence that is well-formed but for its end is one that its lead lets begin.
LEMMA BeginningIs ==
    ASSUME NEW w \in Beginnings
    PROVE  Len(w) >= 1 /\ w[1] \in Leads /\ Len(w) < Width(w[1]) /\ Rest(w)
  <1>1. PICK v \in WellFormed : \E n \in 1 .. Len(v) - 1 : w = SubSeq(v, 1, n)
    BY DEF Beginnings
  <1>a. PICK n \in 1 .. Len(v) - 1 : w = SubSeq(v, 1, n)
    BY <1>1
  <1>2. /\ Len(v) \in 1 .. 4 /\ v = [i \in 1 .. Len(v) |-> v[i]]
        /\ IF Len(v) = 1 THEN v[1] \in ASCII ELSE v[1] \in Leads /\ Len(v) = Width(v[1]) /\ Rest(v)
    BY WellFormedIs
  <1> DEFINE V == {v[i] : i \in 1 .. Len(v)}
  <1>3. v \in Seq(V)
    BY <1>2
  <1>4. n \in Nat /\ n >= 1 /\ n < Len(v) /\ Len(v) # 1
    BY <1>2
  <1>5. Len(w) = n /\ \A i \in 1 .. n : w[i] = v[i]
    <2> HIDE DEF V
    <2> QED
      BY <1>a, <1>3, <1>4
  <1> QED
    BY <1>2, <1>4, <1>5 DEF Rest

LEMMA IsBeginning ==
    ASSUME NEW S, NEW w \in Seq(S), Len(w) >= 1, w[1] \in Leads, Len(w) < Width(w[1]), Rest(w)
    PROVE  w \in Beginnings
  <1> DEFINE N == Width(w[1])
             n == Len(w)
  <1>1. N \in 2 .. 4 /\ n \in 1 .. N - 1
    BY LeadTable
  <1>2. PICK second : second \in Second(w[1])
    BY LeadsAre, Seconds DEF Continuation
  <1>3. "80" \in Continuation
    BY DEF Continuation
  <1> DEFINE v == [i \in 1 .. N |-> IF i <= n THEN w[i] ELSE IF i = 2 THEN second ELSE "80"]
  <1> DEFINE V == S \cup Second(w[1]) \cup Continuation
  <1> HIDE DEF N, n
  <1>4. v \in Seq(V) /\ Len(v) = N /\ \A i \in 1 .. N :
           v[i] = IF i <= n THEN w[i] ELSE IF i = 2 THEN second ELSE "80"
    <2>1. \A i \in 1 .. n : w[i] \in V
      BY DEF n
    <2>2. second \in V /\ "80" \in V
      BY <1>2, <1>3
    <2> HIDE DEF V
    <2>3. v \in [1 .. N -> V]
      BY <1>1, <2>1, <2>2
    <2> QED
      BY <1>1, <2>3
  <1> HIDE DEF v, V
  <1>5. v[1] = w[1]
    BY <1>1, <1>4
  <1>6. Rest(v)
    <2>1. v[2] \in Second(v[1])
      BY <1>1, <1>2, <1>4, <1>5 DEF Rest, n
    <2>2. Len(v) >= 3 => v[3] \in Continuation
      BY <1>1, <1>3, <1>4 DEF Rest, n
    <2>3. Len(v) >= 4 => v[4] \in Continuation
      BY <1>1, <1>3, <1>4 DEF Rest, n
    <2> QED
      BY <2>1, <2>2, <2>3 DEF Rest
  <1>7. v \in WellFormed
    BY <1>4, <1>5, <1>6, IsWellFormed DEF N
  <1>8. SubSeq(v, 1, n) = w
    <2>1. n \in Nat /\ n <= Len(v) /\ n = Len(w)
      BY <1>1, <1>4 DEF n
    <2>2. SubSeq(v, 1, n) \in Seq(V) /\ Len(SubSeq(v, 1, n)) = n
          /\ \A i \in 1 .. n : SubSeq(v, 1, n)[i] = v[i]
      BY <1>4, <2>1
    <2>3. \A i \in 1 .. n : v[i] = w[i]
      BY <1>1, <1>4
    <2> QED
      BY <2>1, <2>2, <2>3
  <1>9. n \in 1 .. Len(v) - 1
    BY <1>1, <1>4
  <1> QED
    BY <1>7, <1>8, <1>9 DEF Beginnings

-----------------------------------------------------------------------------
(***************************************************************************)
(* The sequence at a place of the source.                                  *)
(***************************************************************************)
Piece(src, s, n) == SubSeq(src, s, s + n - 1)

\* n bytes go on what begins at s.
Goes(src, s, n) ==
    /\ n \in 1 .. 4 /\ s + n - 1 <= Len(src)
    /\ n >= 2 => src[s + 1] \in Second(src[s])
    /\ n >= 3 => src[s + 2] \in Continuation
    /\ n >= 4 => src[s + 3] \in Continuation

LEMMA PieceFields ==
    ASSUME NEW src \in Seq(STRING), NEW s \in 1 .. Len(src), NEW n \in 1 .. 4,
           s + n - 1 <= Len(src)
    PROVE  /\ Piece(src, s, n) \in Seq(STRING) /\ Len(Piece(src, s, n)) = n
           /\ \A i \in 1 .. n : Piece(src, s, n)[i] = src[s + i - 1]
           /\ Piece(src, s, n)[1] = src[s]
           /\ Rest(Piece(src, s, n)) <=> Goes(src, s, n)
  <1> DEFINE w == Piece(src, s, n)
  <1>1. w \in Seq(STRING) /\ Len(w) = n /\ \A i \in 1 .. n : w[i] = src[s + i - 1]
    BY DEF Piece
  <1> HIDE DEF w
  <1>2. w[1] = src[s] /\ (n >= 2 => w[2] = src[s + 1]) /\ (n >= 3 => w[3] = src[s + 2])
        /\ (n >= 4 => w[4] = src[s + 3])
    <2>1. w[1] = src[s + 1 - 1] /\ s + 1 - 1 = s
      BY <1>1
    <2>2. n >= 2 => w[2] = src[s + 2 - 1] /\ s + 2 - 1 = s + 1
      BY <1>1
    <2>3. n >= 3 => w[3] = src[s + 3 - 1] /\ s + 3 - 1 = s + 2
      BY <1>1
    <2>4. n >= 4 => w[4] = src[s + 4 - 1] /\ s + 4 - 1 = s + 3
      BY <1>1
    <2> QED
      BY <2>1, <2>2, <2>3, <2>4
  <1>3. Rest(w) <=> Goes(src, s, n)
    BY <1>1, <1>2 DEF Rest, Goes
  <1> QED
    BY <1>1, <1>2, <1>3 DEF w

LEMMA PieceWellFormed ==
    ASSUME NEW src \in Seq(STRING), NEW s \in 1 .. Len(src), NEW n \in 1 .. 4,
           s + n - 1 <= Len(src)
    PROVE  Piece(src, s, n) \in WellFormed <=>
              \/ n = 1 /\ src[s] \in ASCII
              \/ src[s] \in Leads /\ n = Width(src[s]) /\ Goes(src, s, n)
  <1> DEFINE w == Piece(src, s, n)
  <1>1. w \in Seq(STRING) /\ Len(w) = n /\ w[1] = src[s] /\ (Rest(w) <=> Goes(src, s, n))
    BY PieceFields
  <1> HIDE DEF w
  <1>2. w \in WellFormed =>
              \/ n = 1 /\ src[s] \in ASCII
              \/ src[s] \in Leads /\ n = Width(src[s]) /\ Goes(src, s, n)
    BY <1>1, WellFormedIs
  <1>3. n = 1 /\ src[s] \in ASCII => w \in WellFormed
    BY <1>1, OneByte, WellFormedByLead
  <1>4. src[s] \in Leads /\ n = Width(src[s]) /\ Goes(src, s, n) => w \in WellFormed
    BY <1>1, IsWellFormed
  <1> QED
    BY <1>2, <1>3, <1>4 DEF w

LEMMA PieceBeginning ==
    ASSUME NEW src \in Seq(STRING), NEW s \in 1 .. Len(src), NEW n \in 1 .. 4,
           s + n - 1 <= Len(src)
    PROVE  Piece(src, s, n) \in Beginnings <=>
              src[s] \in Leads /\ n < Width(src[s]) /\ Goes(src, s, n)
  <1> DEFINE w == Piece(src, s, n)
  <1>1. w \in Seq(STRING) /\ Len(w) = n /\ w[1] = src[s] /\ (Rest(w) <=> Goes(src, s, n))
    BY PieceFields
  <1> HIDE DEF w
  <1>2. w \in Beginnings => src[s] \in Leads /\ n < Width(src[s]) /\ Goes(src, s, n)
    BY <1>1, BeginningIs
  <1>3. src[s] \in Leads /\ n < Width(src[s]) /\ Goes(src, s, n) => w \in Beginnings
    BY <1>1, IsBeginning
  <1> QED
    BY <1>2, <1>3 DEF w

\* Extent is as far as the bytes go on, and the whole sequence if they do to its end.
ExtentOf(src, s, e) ==
    /\ e \in 1 .. 4 /\ s + e - 1 <= Len(src)
    /\ src[s] \notin Leads => e = 1
    /\ src[s] \in Leads =>
          e <= Width(src[s]) /\ Goes(src, s, e) /\ (e < Width(src[s]) => ~Goes(src, s, e + 1))

LEMMA ExtentIs ==
    ASSUME NEW src \in Seq(STRING), NEW s \in 1 .. Len(src)
    PROVE  ExtentOf(src, s, Extent(src, s))
  <1> DEFINE here  == {n \in 1 .. 4 : s + n - 1 <= Len(src)}
             whole == {n \in here : Piece(src, s, n) \in WellFormed}
             begun == {n \in here : Piece(src, s, n) \in Beginnings}
             Most(T) == CHOOSE n \in T : \A m \in T : m <= n
             W == Width(src[s])
  <1>0. Extent(src, s) = IF whole # {} THEN Most(whole) ELSE IF begun # {} THEN Most(begun) ELSE 1
    BY DEF Extent, Piece
  <1>1. 1 \in here /\ s \in Nat /\ Len(src) \in Nat
    OBVIOUS
  <1>2. \A n \in here :
           (Piece(src, s, n) \in WellFormed) <=>
              (\/ n = 1 /\ src[s] \in ASCII
               \/ src[s] \in Leads /\ n = W /\ Goes(src, s, n))
    BY PieceWellFormed
  <1>3. \A n \in here : (Piece(src, s, n) \in Beginnings) <=>
                           (src[s] \in Leads /\ n < W /\ Goes(src, s, n))
    BY PieceBeginning
  <1>4. ASSUME NEW T \in SUBSET (1 .. 4), T # {} PROVE Most(T) \in T /\ \A m \in T : m <= Most(T)
    <2>1. Max(T) \in T /\ \A m \in T : m <= Max(T)
      BY <1>4, MaxOfPositions
    <2> QED
      BY <2>1
  <1>5. whole \in SUBSET (1 .. 4) /\ begun \in SUBSET (1 .. 4)
    OBVIOUS
  <1>6. \A n : Goes(src, s, n) => n \in here
    BY DEF Goes
  <1>7. \A n : n \in whole <=> /\ n \in here
                               /\ \/ n = 1 /\ src[s] \in ASCII
                                  \/ src[s] \in Leads /\ n = W /\ Goes(src, s, n)
    BY <1>2
  <1>8. \A n : n \in begun <=> n \in here /\ src[s] \in Leads /\ n < W /\ Goes(src, s, n)
    BY <1>3
  <1>9. \A n \in here : n \in 1 .. 4 /\ s + n - 1 <= Len(src)
    OBVIOUS
  <1> HIDE DEF whole, begun, Most, here, W
  <1>10. CASE src[s] \notin Leads
    <2>1. begun = {} /\ \A n \in whole : n = 1
      BY <1>7, <1>8, <1>10
    <2>2. Extent(src, s) = 1
      BY <1>0, <1>4, <1>5, <2>1
    <2> QED
      BY <1>1, <1>9, <1>10, <2>2 DEF ExtentOf
  <1>11. CASE src[s] \in Leads
    <2>0. W \in 2 .. 4 /\ src[s] \notin ASCII
      BY <1>11, LeadTable, ASCIIFacts DEF W
    <2>1. CASE whole # {}
      <3>1. Most(whole) \in whole
        BY <1>4, <1>5, <2>1
      <3>2. Extent(src, s) = W /\ Goes(src, s, W) /\ W \in here
        BY <1>0, <1>7, <2>0, <2>1, <3>1
      <3> QED
        BY <1>9, <1>11, <2>0, <3>2 DEF ExtentOf, W
    <2>2. CASE whole = {}
      <3>1. ~Goes(src, s, W)
        BY <1>6, <1>7, <1>11, <2>2
      <3>2. 1 \in begun
        <4>1. Goes(src, s, 1)
          BY <1>1 DEF Goes
        <4> QED
          BY <1>1, <1>8, <1>11, <2>0, <4>1
      <3> DEFINE e == Most(begun)
      <3>3. e \in begun /\ \A m \in begun : m <= e
        BY <1>4, <1>5, <3>2
      <3>4. Extent(src, s) = e
        BY <1>0, <2>2, <3>2
      <3> HIDE DEF e
      <3>5. e \in 1 .. 4 /\ s + e - 1 <= Len(src) /\ e < W /\ Goes(src, s, e)
        BY <1>8, <1>9, <3>3
      <3>6. ~Goes(src, s, e + 1)
        <4>1. CASE e + 1 = W
          BY <3>1, <4>1
        <4>2. CASE e + 1 # W
          <5>1. e + 1 < W /\ ~(e + 1 <= e)
            BY <2>0, <3>5, <4>2
          <5> QED
            BY <1>6, <1>8, <1>11, <3>3, <5>1
        <4> QED
          BY <4>1, <4>2
      <3> QED
        BY <1>11, <2>0, <3>4, <3>5, <3>6 DEF ExtentOf, W
    <2> QED
      BY <2>1, <2>2
  <1> QED
    BY <1>10, <1>11

-----------------------------------------------------------------------------
(***************************************************************************)
(* What the iterator reads is the sequence at its place.                   *)
(***************************************************************************)
\* The decoder has no verdict while bytes go on what is not complete.
LEMMA DecodingRuns ==
    ASSUME NEW src \in Seq(STRING), NEW s \in 1 .. Len(src), src[s] \in Leads,
           NEW e, ExtentOf(src, s, e)
    PROVE  LET D == Decoding(src, s)
               W == Width(src[s])
           IN  /\ W \in 2 .. 4
               /\ \A n \in 1 .. e : n < W => D[s + n - 1] \notin {"accept", "reject"}
               /\ e = W => D[s + e - 1] = "accept"
               /\ e < W /\ s + e <= Len(src) => D[s + e] = "reject"
  <1> DEFINE D == Decoding(src, s)
             W == Width(src[s])
             b == src[s]
  <1>0. Len(src) \in Nat /\ s \in Nat /\ s >= 1
    OBVIOUS
  <1>1. /\ W \in 2 .. 4
        /\ AfterLead[b] \notin {"accept", "reject"} /\ decode("accept", b) = AfterLead[b]
    BY LeadTable
  <1>2. D[s - 1] = "accept" /\ \A c \in s .. Len(src) : D[c] = decode(D[c - 1], src[c])
    BY DecodingSteps
  <1>3. e \in 1 .. 4 /\ s + e - 1 <= Len(src) /\ e <= W /\ Goes(src, s, e)
        /\ (e < W => ~Goes(src, s, e + 1))
    BY DEF ExtentOf
  <1>4. b \in Leads
    OBVIOUS
  <1> HIDE DEF D, W, b
  <1>5. D[s] = AfterLead[b]
    <2>1. s \in s .. Len(src)
      BY <1>0, <1>3
    <2> QED
      BY <1>1, <1>2, <2>1 DEF b
  <1>6. s + 1 <= Len(src) =>
           D[s + 1] = IF src[s + 1] \in Second(b) THEN Expecting(W - 2) ELSE "reject"
    <2> SUFFICES ASSUME s + 1 <= Len(src)
                 PROVE  D[s + 1] = IF src[s + 1] \in Second(b) THEN Expecting(W - 2) ELSE "reject"
      OBVIOUS
    <2>1. s + 1 \in s .. Len(src) /\ (s + 1) - 1 = s
      BY <1>0
    <2>2. D[s + 1] = decode(AfterLead[b], src[s + 1])
      BY <1>2, <1>5, <2>1
    <2> QED
      BY <1>4, <2>2, DecodeSecond DEF W, b
  <1>7. s + 2 <= Len(src) /\ D[s + 1] = Expecting(W - 2) /\ W >= 3 =>
           D[s + 2] = IF src[s + 2] \in Continuation THEN Expecting(W - 3) ELSE "reject"
    <2> SUFFICES ASSUME s + 2 <= Len(src), D[s + 1] = Expecting(W - 2), W >= 3
                 PROVE  D[s + 2] = IF src[s + 2] \in Continuation THEN Expecting(W - 3) ELSE "reject"
      OBVIOUS
    <2>1. s + 2 \in s .. Len(src) /\ (s + 2) - 1 = s + 1 /\ W - 2 \in 1 .. 2 /\ (W - 2) - 1 = W - 3
      BY <1>0, <1>1
    <2>2. D[s + 2] = decode(Expecting(W - 2), src[s + 2])
      BY <1>2, <2>1
    <2> QED
      BY <2>1, <2>2, DecodeRest
  <1>8. s + 3 <= Len(src) /\ D[s + 2] = Expecting(W - 3) /\ W = 4 =>
           D[s + 3] = IF src[s + 3] \in Continuation THEN Expecting(W - 4) ELSE "reject"
    <2> SUFFICES ASSUME s + 3 <= Len(src), D[s + 2] = Expecting(W - 3), W = 4
                 PROVE  D[s + 3] = IF src[s + 3] \in Continuation THEN Expecting(W - 4) ELSE "reject"
      OBVIOUS
    <2>1. s + 3 \in s .. Len(src) /\ (s + 3) - 1 = s + 2 /\ W - 3 \in 1 .. 2 /\ (W - 3) - 1 = W - 4
      BY <1>0
    <2>2. D[s + 3] = decode(Expecting(W - 3), src[s + 3])
      BY <1>2, <2>1
    <2> QED
      BY <2>1, <2>2, DecodeRest
  <1>9. /\ e >= 2 => D[s + 1] = Expecting(W - 2)
        /\ e >= 3 => D[s + 2] = Expecting(W - 3)
        /\ e >= 4 => D[s + 3] = Expecting(W - 4)
    BY <1>0, <1>1, <1>3, <1>6, <1>7, <1>8 DEF Goes, b
  <1>10. /\ Expecting(0) = "accept"
         /\ Expecting(1) \notin {"accept", "reject"} /\ Expecting(2) \notin {"accept", "reject"}
    BY DEF Expecting
  <1>11. ASSUME NEW n \in 1 .. e, n < W PROVE D[s + n - 1] \notin {"accept", "reject"}
    <2>1. CASE n = 1
      <3>1. s + n - 1 = s
        BY <1>0, <2>1
      <3> QED
        BY <1>1, <1>5, <3>1
    <2>2. CASE n = 2
      <3>1. s + n - 1 = s + 1 /\ e >= 2 /\ W - 2 \in {1, 2}
        BY <1>0, <1>1, <1>3, <1>11, <2>2
      <3> QED
        BY <1>9, <1>10, <3>1
    <2>3. CASE n = 3
      <3>1. s + n - 1 = s + 2 /\ e >= 3 /\ W - 3 = 1
        BY <1>0, <1>1, <1>3, <1>11, <2>3
      <3> QED
        BY <1>9, <1>10, <3>1
    <2>4. n \in {1, 2, 3}
      BY <1>1, <1>3, <1>11
    <2> QED
      BY <2>1, <2>2, <2>3, <2>4
  <1>12. ASSUME e = W PROVE D[s + e - 1] = "accept"
    <2>1. CASE e = 2
      <3>1. s + e - 1 = s + 1 /\ W - 2 = 0
        BY <1>0, <1>12, <2>1
      <3> QED
        BY <1>9, <1>10, <2>1, <3>1
    <2>2. CASE e = 3
      <3>1. s + e - 1 = s + 2 /\ W - 3 = 0
        BY <1>0, <1>12, <2>2
      <3> QED
        BY <1>9, <1>10, <2>2, <3>1
    <2>3. CASE e = 4
      <3>1. s + e - 1 = s + 3 /\ W - 4 = 0
        BY <1>0, <1>12, <2>3
      <3> QED
        BY <1>9, <1>10, <2>3, <3>1
    <2> QED
      BY <1>1, <1>12, <2>1, <2>2, <2>3
  <1>13. ASSUME e < W, s + e <= Len(src) PROVE D[s + e] = "reject"
    <2>1. CASE e = 1
      <3>1. src[s + 1] \notin Second(b)
        BY <1>0, <1>3, <1>13, <2>1 DEF Goes, b
      <3> QED
        BY <1>6, <1>13, <2>1, <3>1
    <2>2. CASE e = 2
      <3>1. src[s + 2] \notin Continuation /\ W >= 3
        BY <1>0, <1>1, <1>3, <1>13, <2>2 DEF Goes, b
      <3> QED
        BY <1>7, <1>9, <1>13, <2>2, <3>1
    <2>3. CASE e = 3
      <3>1. src[s + 3] \notin Continuation /\ W = 4
        BY <1>0, <1>1, <1>3, <1>13, <2>3 DEF Goes, b
      <3> QED
        BY <1>8, <1>9, <1>13, <2>3, <3>1
    <2>4. e \in {1, 2, 3}
      BY <1>1, <1>3, <1>13
    <2> QED
      BY <2>1, <2>2, <2>3, <2>4
  <1> QED
    BY <1>1, <1>11, <1>12, <1>13 DEF D, W

\* The least position is the one with none before it.
LEMMA FirstIs ==
    ASSUME NEW a \in Int, NEW b \in Int, NEW c \in a .. b, NEW V \in SUBSET (a .. b), c \in V,
           \A d \in a .. c - 1 : d \notin V
    PROVE  First(V) = c
  <1>1. \A d \in V : d \in Int /\ c <= d
    <2> SUFFICES ASSUME NEW d \in V PROVE d \in Int /\ c <= d
      OBVIOUS
    <2>1. d \in a .. b /\ c \in Int
      OBVIOUS
    <2>2. d \notin a .. c - 1
      OBVIOUS
    <2> QED
      BY <2>1, <2>2
  <1>2. First(V) \in V /\ \A d \in V : First(V) <= d
    BY <1>1 DEF First
  <1>3. First(V) <= c /\ c <= First(V) /\ First(V) \in Int /\ c \in Int
    BY <1>1, <1>2
  <1> QED
    BY ONLY <1>3

\* The decoder's verdict on the sequence at s, which is e bytes long.
LEMMA VerdictIs ==
    ASSUME NEW src \in Seq(STRING), NEW s \in 1 .. Len(src), src[s] \in ASCII \cup NotASCII,
           NEW e, ExtentOf(src, s, e)
    PROVE  LET V == Verdicts(src, s)
               D == Decoding(src, s)
               good == Piece(src, s, e) \in WellFormed
           IN  /\ good => V # {} /\ First(V) = s + e - 1 /\ D[s + e - 1] = "accept"
               /\ ~good /\ src[s] \notin Leads => V # {} /\ First(V) = s /\ D[s] = "reject"
               /\ ~good /\ src[s] \in Leads /\ s + e <= Len(src) =>
                     V # {} /\ First(V) = s + e /\ D[s + e] = "reject"
               /\ ~good /\ src[s] \in Leads /\ s + e > Len(src) => V = {}
  <1> DEFINE V == Verdicts(src, s)
             D == Decoding(src, s)
             L == Len(src)
             b == src[s]
             good == Piece(src, s, e) \in WellFormed
  <1>0. L \in Nat /\ s \in Nat /\ s >= 1 /\ s <= L
    OBVIOUS
  <1>1. \A c : c \in V <=> c \in s .. L /\ D[c] \in {"accept", "reject"}
    BY DEF Verdicts
  <1>2. V \in SUBSET (s .. L)
    BY <1>1
  <1>3. D[s - 1] = "accept" /\ D[s] = decode("accept", b)
    BY <1>0, DecodingSteps
  <1>4. e \in 1 .. 4 /\ s + e - 1 <= L /\ (b \notin Leads => e = 1)
    BY DEF ExtentOf
  <1>5. good <=> \/ e = 1 /\ b \in ASCII
                 \/ b \in Leads /\ e = Width(b) /\ Goes(src, s, e)
    BY <1>4, PieceWellFormed
  <1>6. CASE b \in ASCII
    <2>1. e = 1 /\ good /\ b \notin Leads
      BY <1>4, <1>5, <1>6, ASCIIFacts
    <2>2. D[s] = "accept"
      BY <1>3, <1>6, ASCIIFacts DEF decode, Leads
    <2>3. s \in V /\ s \in s .. L /\ \A d \in s .. s - 1 : d \notin V
      BY <1>0, <1>1, <2>2
    <2> HIDE DEF V, D, L, b, good
    <2>4. First(V) = s
      BY <1>0, <1>2, <2>3, FirstIs
    <2>5. s + e - 1 = s
      BY <1>0, <2>1
    <2>6. V # {} /\ First(V) = s + e - 1 /\ D[s + e - 1] = "accept"
      BY <2>2, <2>3, <2>4, <2>5
    <2> QED
      BY <2>1, <2>6 DEF V, D, good
  <1>7. CASE b \notin ASCII /\ b \notin Leads
    <2>1. ~good
      BY <1>5, <1>7
    <2>2. b \in Continuation \cup {"FF"}
      BY <1>7 DEF NotASCII, Leads
    <2>3. D[s] = "reject"
      BY <1>3, <1>7, <2>2 DEF decode, Leads
    <2>4. s \in V /\ s \in s .. L /\ \A d \in s .. s - 1 : d \notin V
      BY <1>0, <1>1, <2>3
    <2> HIDE DEF V, D, L, good
    <2>5. First(V) = s
      BY <1>0, <1>2, <2>4, FirstIs
    <2> QED
      BY <1>7, <2>1, <2>3, <2>4, <2>5 DEF V, D, good
  <1>8. CASE b \in Leads
    <2> DEFINE W == Width(b)
    <2>1. /\ W \in 2 .. 4
          /\ \A n \in 1 .. e : n < W => D[s + n - 1] \notin {"accept", "reject"}
          /\ e = W => D[s + e - 1] = "accept"
          /\ e < W /\ s + e <= L => D[s + e] = "reject"
      BY <1>8, DecodingRuns
    <2>2. e <= W /\ Goes(src, s, e) /\ (good <=> e = W)
      <3>1. b \notin ASCII
        BY <1>8, ASCIIFacts
      <3> QED
        BY <1>5, <1>8, <3>1 DEF ExtentOf
    <2>3. b = src[s]
      OBVIOUS
    <2> HIDE DEF V, D, L, W, good, b
    <2>4. ASSUME NEW d \in Int, s <= d, d <= s + e - 1, d - s + 1 < W PROVE d \notin V
      <3>1. d - s + 1 \in 1 .. e /\ s + (d - s + 1) - 1 = d
        BY <1>0, <1>4, <2>4
      <3> QED
        BY <1>1, <2>1, <2>4, <3>1
    <2>5. CASE e = W
      <3> DEFINE c == s + e - 1
      <3>1. c \in s .. L /\ c \in V
        BY <1>0, <1>1, <1>4, <2>1, <2>5
      <3>2. \A d \in s .. c - 1 : d \notin V
        BY <1>0, <1>4, <2>4, <2>5
      <3> HIDE DEF c
      <3>3. First(V) = c
        BY <1>0, <1>2, <3>1, <3>2, FirstIs
      <3>4. V # {} /\ First(V) = s + e - 1 /\ D[s + e - 1] = "accept"
        BY <2>1, <2>5, <3>1, <3>3 DEF c
      <3> QED
        BY <2>2, <2>5, <3>4 DEF V, D, good
    <2>6. CASE e # W /\ s + e <= L
      <3> DEFINE c == s + e
      <3>0. e < W
        BY <1>4, <2>1, <2>2, <2>6
      <3>1. c \in s .. L /\ c \in V
        BY <1>0, <1>1, <1>4, <2>1, <2>6, <3>0
      <3>2. \A d \in s .. c - 1 : d \notin V
        BY <1>0, <1>4, <2>1, <2>4, <3>0
      <3> HIDE DEF c
      <3>3. First(V) = c
        BY <1>0, <1>2, <3>1, <3>2, FirstIs
      <3>4. V # {} /\ First(V) = s + e /\ D[s + e] = "reject"
        BY <2>1, <2>6, <3>0, <3>1, <3>3 DEF c
      <3>5. ~good /\ src[s] \in Leads /\ s + e <= Len(src) /\ ~(s + e > Len(src))
        BY <1>0, <1>4, <1>8, <2>2, <2>3, <2>6 DEF L
      <3> QED
        BY <3>4, <3>5 DEF V, D, good
    <2>7. CASE e # W /\ ~(s + e <= L)
      <3>0. e < W
        BY <1>4, <2>1, <2>2, <2>7
      <3>1. \A d \in s .. L : d \notin V
        BY <1>0, <1>4, <2>1, <2>4, <2>7, <3>0
      <3>2. V = {}
        BY <1>2, <3>1
      <3>5. ~good /\ src[s] \in Leads /\ ~(s + e <= Len(src)) /\ s + e > Len(src)
        BY <1>0, <1>4, <1>8, <2>2, <2>3, <2>7 DEF L
      <3> QED
        BY <3>2, <3>5 DEF V, D, good
    <2> QED
      BY <2>5, <2>6, <2>7
  <1> QED
    BY <1>6, <1>7, <1>8

\* Up to four bytes, written one after the other.
Written(src, s, n) ==
    IF n = 1 THEN src[s]
    ELSE IF n = 2 THEN src[s] \o src[s + 1]
    ELSE IF n = 3 THEN (src[s] \o src[s + 1]) \o src[s + 2]
    ELSE ((src[s] \o src[s + 1]) \o src[s + 2]) \o src[s + 3]

LEMMA SpelledIs ==
    ASSUME NEW src, NEW s \in Nat, NEW n \in 1 .. 4
    PROVE  Spelled(src, s, s + n - 1) = Written(src, s, n)
  <1> DEFINE to == s + n - 1
             IsText(f) == f = [c \in s .. to |-> IF c = s THEN src[c] ELSE f[c - 1] \o src[c]]
             g == [c \in s .. to |-> Written(src, s, c - s + 1)]
  <1>0. /\ Written(src, s, 1) = src[s]
        /\ Written(src, s, 2) = Written(src, s, 1) \o src[s + 1]
        /\ Written(src, s, 3) = Written(src, s, 2) \o src[s + 2]
        /\ Written(src, s, 4) = Written(src, s, 3) \o src[s + 3]
    <2>1. 2 # 1 /\ 3 # 1 /\ 3 # 2 /\ 4 # 1 /\ 4 # 2 /\ 4 # 3
      OBVIOUS
    <2> QED
      BY <2>1, Zenon DEF Written
  <1>1. \A c \in s .. to : c - s + 1 \in 1 .. 4
    OBVIOUS
  <1>2. ASSUME NEW c \in s .. to
        PROVE  g[c] = IF c = s THEN src[c] ELSE g[c - 1] \o src[c]
    <2>1. CASE c = s
      <3>1. c - s + 1 = 1
        BY <2>1
      <3> QED
        BY <2>1, <3>1 DEF Written
    <2>2. CASE c # s
      <3>1. c - 1 \in s .. to /\ c - s + 1 \in 2 .. 4 /\ (c - 1) - s + 1 = c - s
        BY <1>1, <2>2
      <3>2. g[c] = Written(src, s, c - s + 1) /\ g[c - 1] = Written(src, s, c - s)
        BY <3>1
      <3> HIDE DEF g
      <3>3. CASE c - s + 1 = 2
        <4>1. c - s = 1 /\ c = s + 1
          BY <3>1, <3>3
        <4> QED
          BY <1>0, <2>2, <3>2, <4>1
      <3>4. CASE c - s + 1 = 3
        <4>1. c - s = 2 /\ c = s + 2
          BY <3>1, <3>4
        <4> QED
          BY <1>0, <2>2, <3>2, <4>1
      <3>5. CASE c - s + 1 = 4
        <4>1. c - s = 3 /\ c = s + 3
          BY <3>1, <3>5
        <4> QED
          BY <1>0, <2>2, <3>2, <4>1
      <3> QED
        BY <3>1, <3>3, <3>4, <3>5
    <2> QED
      BY <2>1, <2>2
  <1>3. IsText(g)
    <2>1. g = [c \in s .. to |-> g[c]]
      OBVIOUS
    <2> HIDE DEF g
    <2> QED
      BY <1>2, <2>1
  <1>4. IsText(CHOOSE f : IsText(f))
    <2> HIDE DEF g, IsText
    <2> QED
      BY <1>3
  <1> DEFINE h == CHOOSE f : IsText(f)
  <1>5. Spelled(src, s, to) = h[to]
    BY DEF Spelled
  <1>6. h = [c \in s .. to |-> IF c = s THEN src[c] ELSE h[c - 1] \o src[c]]
    BY <1>4
  <1> HIDE DEF h, to
  <1>7. /\ h[s] = src[s]
        /\ \A c \in s .. to : c # s => h[c] = h[c - 1] \o src[c]
    <2>1. s \in s .. to
      BY DEF to
    <2> QED
      BY <1>6, <2>1
  <1>8. /\ s + 1 <= to => h[s + 1] = h[s] \o src[s + 1]
        /\ s + 2 <= to => h[s + 2] = h[s + 1] \o src[s + 2]
        /\ s + 3 <= to => h[s + 3] = h[s + 2] \o src[s + 3]
    <2>1. to \in Int /\ (s + 1) - 1 = s /\ (s + 2) - 1 = s + 1 /\ (s + 3) - 1 = s + 2
      BY DEF to
    <2>2. ASSUME s + 1 <= to PROVE h[s + 1] = h[s] \o src[s + 1]
      <3>1. s + 1 \in s .. to /\ s + 1 # s
        BY <2>1, <2>2
      <3> QED
        BY <1>7, <2>1, <3>1
    <2>3. ASSUME s + 2 <= to PROVE h[s + 2] = h[s + 1] \o src[s + 2]
      <3>1. s + 2 \in s .. to /\ s + 2 # s
        BY <2>1, <2>3
      <3> QED
        BY <1>7, <2>1, <3>1
    <2>4. ASSUME s + 3 <= to PROVE h[s + 3] = h[s + 2] \o src[s + 3]
      <3>1. s + 3 \in s .. to /\ s + 3 # s
        BY <2>1, <2>4
      <3> QED
        BY <1>7, <2>1, <3>1
    <2> QED
      BY <2>2, <2>3, <2>4
  <1>9. h[to] = Written(src, s, n)
    <2>1. CASE n = 1
      <3>1. to = s
        BY <2>1 DEF to
      <3> QED
        BY <1>0, <1>7, <2>1, <3>1
    <2>2. CASE n = 2
      <3>1. to = s + 1 /\ s + 1 <= to
        BY <2>2 DEF to
      <3> QED
        BY <1>0, <1>7, <1>8, <2>2, <3>1
    <2>3. CASE n = 3
      <3>1. to = s + 2 /\ s + 1 <= to /\ s + 2 <= to
        BY <2>3 DEF to
      <3> QED
        BY <1>0, <1>7, <1>8, <2>3, <3>1
    <2>4. CASE n = 4
      <3>1. to = s + 3 /\ s + 1 <= to /\ s + 2 <= to /\ s + 3 <= to
        BY <2>4 DEF to
      <3> QED
        BY <1>0, <1>7, <1>8, <2>4, <3>1
    <2> QED
      BY <2>1, <2>2, <2>3, <2>4
  <1> QED
    BY <1>5, <1>9 DEF to

\* A sequence is written in the same way wherever it stands.
LEMMA SpelledPiece ==
    ASSUME NEW src \in Seq(STRING), NEW s \in 1 .. Len(src), NEW n \in 1 .. 4,
           s + n - 1 <= Len(src)
    PROVE  Spelled(src, s, s + n - 1) = Spelled(Piece(src, s, n), 1, n)
  <1> DEFINE w == Piece(src, s, n)
  <1>1. \A i \in 1 .. n : w[i] = src[s + i - 1]
    BY PieceFields
  <1> HIDE DEF w
  <1>2. /\ w[1] = src[s]
        /\ n >= 2 => w[1 + 1] = src[s + 1]
        /\ n >= 3 => w[1 + 2] = src[s + 2]
        /\ n >= 4 => w[1 + 3] = src[s + 3]
    <2>1. w[1] = src[s + 1 - 1] /\ s + 1 - 1 = s
      BY <1>1
    <2>2. n >= 2 => w[2] = src[s + 2 - 1] /\ s + 2 - 1 = s + 1
      BY <1>1
    <2>3. n >= 3 => w[3] = src[s + 3 - 1] /\ s + 3 - 1 = s + 2
      BY <1>1
    <2>4. n >= 4 => w[4] = src[s + 4 - 1] /\ s + 4 - 1 = s + 3
      BY <1>1
    <2> QED
      BY <2>1, <2>2, <2>3, <2>4
  <1>3. Written(w, 1, n) = Written(src, s, n)
    BY <1>2 DEF Written
  <1>4. Spelled(w, 1, 1 + n - 1) = Written(w, 1, n) /\ 1 + n - 1 = n
    BY SpelledIs
  <1>5. Spelled(src, s, s + n - 1) = Written(src, s, n)
    BY SpelledIs
  <1> QED
    BY <1>3, <1>4, <1>5 DEF w

\* The source is of bytes, and the sequences have their length.
IsSource(src) == src \in Seq(STRING) /\ \A c \in 1 .. Len(src) : src[c] \in ASCII \cup NotASCII

LEMMA LineBreaksAreASCII ==
    ASSUME NEW b \in ASCII \cup NotASCII, b \in {"\n", "\r"}
    PROVE  b \in ASCII
  BY LeadsAre DEF NotASCII, Leads, Continuation

\* What CharAt says, with the length that Extent says.
LEMMA CharAtIs ==
    ASSUME NEW src, IsSource(src), NEW s \in 1 .. Len(src)
    PROVE  LET e == Extent(src, s)
           IN  /\ ExtentOf(src, s, e)
               /\ CharAt(src, s) = IF src[s] = "\r" THEN "\n"
                                   ELSE IF Piece(src, s, e) \in WellFormed
                                   THEN Spelled(src, s, s + e - 1)
                                   ELSE Replacement
               /\ src[s] \in ASCII =>
                    /\ e = 1 /\ Piece(src, s, e) \in WellFormed
                    /\ CharAt(src, s) = IF src[s] = "\r" THEN "\n" ELSE src[s]
               /\ src[s] \notin ASCII => CharAt(src, s) \notin ASCII \cup {"\n", "\t"}
               /\ CharAt(src, s) # EOF
  <1> DEFINE e == Extent(src, s)
             w == Piece(src, s, e)
  <1>0. src \in Seq(STRING) /\ src[s] \in ASCII \cup NotASCII /\ Len(src) \in Nat /\ s \in Nat
    BY DEF IsSource
  <1>1. ExtentOf(src, s, e)
    BY <1>0, ExtentIs
  <1>2. e \in 1 .. 4 /\ s + e - 1 <= Len(src) /\ (src[s] \notin Leads => e = 1)
    BY <1>1 DEF ExtentOf
  <1>3. w \in Seq(STRING) /\ Len(w) = e /\ w[1] = src[s]
    BY <1>0, <1>2, PieceFields
  <1>4. w \in WellFormed <=>
              \/ e = 1 /\ src[s] \in ASCII
              \/ src[s] \in Leads /\ e = Width(src[s]) /\ Goes(src, s, e)
    BY <1>0, <1>2, PieceWellFormed
  <1>5. CharAt(src, s) = IF w = <<"\r">> THEN "\n"
                         ELSE IF w \in WellFormed THEN Spelled(src, s, s + Len(w) - 1)
                         ELSE Replacement
    BY DEF CharAt, Piece
  <1>6. Spelled(src, s, s + e - 1) = Spelled(w, 1, e)
    BY <1>0, <1>2, SpelledPiece
  <1>7. Spelled(src, s, s + 1 - 1) = src[s]
    <2>1. Spelled(src, s, s + 1 - 1) = Written(src, s, 1)
      BY <1>0, SpelledIs
    <2> QED
      BY <2>1, Zenon DEF Written
  <1> HIDE DEF e, w
  <1>8. src[s] = "\r" => src[s] \in ASCII
    BY <1>0, LineBreaksAreASCII
  <1>9. src[s] \in ASCII => e = 1 /\ w \in WellFormed
    BY <1>2, <1>4, ASCIIFacts
  <1>10. w = <<"\r">> <=> src[s] = "\r"
    <2>1. w = <<"\r">> => src[s] = "\r"
      BY <1>3
    <2>2. src[s] = "\r" => w = <<"\r">>
      BY <1>3, <1>8, <1>9, OneByte
    <2> QED
      BY <2>1, <2>2
  <1>11. CharAt(src, s) = IF src[s] = "\r" THEN "\n"
                          ELSE IF w \in WellFormed THEN Spelled(src, s, s + e - 1)
                          ELSE Replacement
    BY <1>3, <1>5, <1>10
  <1>12. src[s] \in ASCII => CharAt(src, s) = IF src[s] = "\r" THEN "\n" ELSE src[s]
    BY <1>7, <1>9, <1>11
  <1>13. src[s] \notin ASCII => CharAt(src, s) \notin ASCII \cup {EOF, "\n", "\t"}
    <2> SUFFICES ASSUME src[s] \notin ASCII
                 PROVE  CharAt(src, s) \notin ASCII \cup {EOF, "\n", "\t"}
      OBVIOUS
    <2>1. CASE w \in WellFormed
      <3>1. e > 1
        <4>1. src[s] \in Leads /\ e = Width(src[s])
          BY <1>4, <2>1
        <4> QED
          BY <4>1, LeadTable
      <3>2. Spelled(w, 1, Len(w)) \notin ASCII \cup {EOF, Replacement, "\n", "\t"}
        BY <1>3, <2>1, <3>1, SpellingAssumption
      <3> QED
        BY <1>3, <1>6, <1>8, <1>11, <2>1, <3>2
    <2>2. CASE w \notin WellFormed
      <3>1. CharAt(src, s) = Replacement
        BY <1>8, <1>11, <2>2
      <3>2. Replacement # EOF /\ Replacement # "\n" /\ Replacement # "\t"
        BY DEF Replacement, EOF
      <3> QED
        BY <3>1, <3>2, ASCIIFacts
    <2> QED
      BY <2>1, <2>2
  <1>14. CharAt(src, s) # EOF
    <2>1. EOF # "\n"
      BY DEF EOF
    <2> QED
      BY <1>12, <1>13, <2>1, ASCIIFacts
  <1> QED
    BY <1>1, <1>9, <1>11, <1>12, <1>13, <1>14 DEF e, w

-----------------------------------------------------------------------------
(***************************************************************************)
(* The iterator at a character.                                            *)
(***************************************************************************)
Places == [line : Nat, column : Nat, offset : Nat]

Origin == [line |-> 1, column |-> 1, offset |-> 0]

\* Reading skips the first half of a pair.
Landing(src, s) == IF IsPair(src, s) THEN s + 1 ELSE s
Skipped(src, s, place) == IF IsPair(src, s) THEN [place EXCEPT !.offset = @ + 1] ELSE place

\* The place of the character behind that at s.
Behind(src, s, place) ==
    LET n == s + Extent(src, s)
    IN  Skipped(src, n, PlaceAfter(CharAt(src, s), place, n - 1))

Fields(i) ==
    /\ DOMAIN i = {"start", "width", "current", "pos", "mark", "mark_pos"}
    /\ i.pos \in Places

\* The iterator has read the character at s, or the end of the input.
AtChar(src, i, s, place) ==
    /\ Fields(i) /\ i.start = s /\ i.pos = place
    /\ s <= Len(src) => i.current = CharAt(src, s) /\ i.width = Extent(src, s)
    /\ s > Len(src) => i.current = EOF /\ i.width = 0

LEMMA PlaceFields ==
    ASSUME NEW place \in Places
    PROVE  /\ place.line \in Nat /\ place.column \in Nat /\ place.offset \in Nat
           /\ place = [line |-> place.line, column |-> place.column, offset |-> place.offset]
           /\ \A n \in Nat : [place EXCEPT !.offset = n] \in Places
           /\ \A n \in Nat : [place EXCEPT !.offset = n]
                               = [line |-> place.line, column |-> place.column, offset |-> n]
  BY DEF Places

LEMMA SkippedFields ==
    ASSUME NEW src \in Seq(STRING), NEW s \in 1 .. Len(src) + 1, NEW place \in Places,
           place.offset = s - 1
    PROVE  /\ Landing(src, s) \in 1 .. Len(src) + 1 /\ s <= Landing(src, s)
           /\ Skipped(src, s, place) \in Places
           /\ Skipped(src, s, place).offset = Landing(src, s) - 1
           /\ ~IsPair(src, Landing(src, s))
           /\ ~IsPair(src, s) => Landing(src, s) = s /\ Skipped(src, s, place) = place
  <1>0. Len(src) \in Nat /\ s \in Nat /\ s >= 1 /\ s <= Len(src) + 1
    OBVIOUS
  <1>1. CASE IsPair(src, s)
    <2>1. s < Len(src) /\ src[s + 1] = "\n"
      BY <1>1 DEF IsPair
    <2>2. ~IsPair(src, s + 1)
      BY <2>1 DEF IsPair
    <2>3. place.offset + 1 \in Nat /\ place.offset + 1 = s
      BY <1>0
    <2>4. Skipped(src, s, place) = [place EXCEPT !.offset = place.offset + 1]
      BY <1>1 DEF Skipped
    <2>5. Skipped(src, s, place) \in Places /\ Skipped(src, s, place).offset = s
      BY <2>3, <2>4, PlaceFields
    <2> QED
      BY <1>0, <1>1, <2>1, <2>2, <2>5 DEF Landing
  <1>2. CASE ~IsPair(src, s)
    BY <1>0, <1>2 DEF Landing, Skipped
  <1> QED
    BY <1>1, <1>2

LEMMA ReadCharIs ==
    ASSUME NEW src, IsSource(src), NEW i, Fields(i), i.start \in 1 .. Len(src) + 1,
           i.pos.offset = i.start - 1
    PROVE  LET r == read_char(src, i)
           IN  /\ AtChar(src, r, Landing(src, i.start), Skipped(src, i.start, i.pos))
               /\ KeepsMark(r, i)
  <1> DEFINE s == i.start
             r == read_char(src, i)
             L == Len(src)
             land == Landing(src, s)
             place == Skipped(src, s, i.pos)
  <1>0. src \in Seq(STRING) /\ L \in Nat /\ s \in Nat /\ s >= 1 /\ s <= L + 1
    BY DEF IsSource
  <1>1. land \in 1 .. L + 1 /\ place \in Places
        /\ (~IsPair(src, s) => land = s /\ place = i.pos)
    BY <1>0, SkippedFields DEF Fields
  <1> DEFINE Read(c, w) == /\ Fields(r) /\ r.start = s /\ r.pos = i.pos
                           /\ r.current = c /\ r.width = w /\ KeepsMark(r, i)
  <1>2. ASSUME NEW c, NEW w, r = [i EXCEPT !.current = c, !.width = w] PROVE Read(c, w)
    <2> HIDE DEF r
    <2> QED
      BY <1>2 DEF Fields, KeepsMark
  <1>3. CASE s > L
    <2>1. r = [i EXCEPT !.current = EOF, !.width = 0]
      BY <1>3 DEF read_char
    <2>2. ~IsPair(src, s)
      BY <1>0, <1>3 DEF IsPair
    <2>3. Read(EOF, 0)
      BY <1>2, <2>1
    <2> HIDE DEF r, land, place
    <2> QED
      BY <1>0, <1>1, <1>3, <2>2, <2>3 DEF AtChar, r, land, place
  <1>4. CASE s <= L
    <2> DEFINE e == Extent(src, s)
               V == Verdicts(src, s)
               D == Decoding(src, s)
               good == Piece(src, s, e) \in WellFormed
    <2>0. s \in 1 .. L /\ src[s] \in ASCII \cup NotASCII
      BY <1>0, <1>4 DEF IsSource
    <2>1. /\ ExtentOf(src, s, e)
          /\ CharAt(src, s) = IF src[s] = "\r" THEN "\n"
                              ELSE IF good THEN Spelled(src, s, s + e - 1) ELSE Replacement
          /\ src[s] \in ASCII => e = 1 /\ good
      BY <2>0, CharAtIs
    <2>2. e \in 1 .. 4 /\ s + e - 1 <= L /\ (src[s] \notin Leads => e = 1)
          /\ (src[s] \in Leads /\ good => e = Width(src[s]))
      <3>1. e \in 1 .. 4 /\ s + e - 1 <= L /\ (src[s] \notin Leads => e = 1)
        BY <2>1 DEF ExtentOf
      <3>2. good => \/ e = 1 /\ src[s] \in ASCII
                    \/ src[s] \in Leads /\ e = Width(src[s]) /\ Goes(src, s, e)
        BY <1>0, <2>0, <3>1, PieceWellFormed
      <3> QED
        BY <3>1, <3>2, ASCIIFacts
    <2>3. src[s] = "\r" => src[s] \in ASCII
      BY <2>0, LineBreaksAreASCII
    <2>4. /\ good => V # {} /\ First(V) = s + e - 1 /\ D[s + e - 1] = "accept"
          /\ ~good /\ src[s] \notin Leads => V # {} /\ First(V) = s /\ D[s] = "reject"
          /\ ~good /\ src[s] \in Leads /\ s + e <= L =>
                V # {} /\ First(V) = s + e /\ D[s + e] = "reject"
          /\ ~good /\ src[s] \in Leads /\ s + e > L => V = {}
      BY <1>0, <2>0, <2>1, VerdictIs
    <2>5. r = IF V = {} THEN Truncated(src, i)
              ELSE IF D[First(V)] = "accept" THEN Accepted(src, i, First(V)) ELSE Rejected(i, First(V))
      BY <1>0, <1>4 DEF read_char, Decoded, Decided
    <2> HIDE DEF V, D, e, good
    <2>6. CASE good /\ src[s] # "\r"
      <3>1. r = Accepted(src, i, s + e - 1)
        BY <2>4, <2>5, <2>6
      <3>2. (s + e - 1) - s + 1 = e
        BY <1>0, <2>2
      <3>3. r = [i EXCEPT !.current = Spelled(src, s, s + e - 1), !.width = e]
        BY <2>6, <3>1, <3>2 DEF Accepted
      <3>4. Read(CharAt(src, s), e)
        BY <1>2, <2>1, <2>6, <3>3
      <3>5. ~IsPair(src, s)
        BY <2>6 DEF IsPair
      <3> HIDE DEF r, land, place
      <3> QED
        BY <1>0, <1>1, <1>4, <3>4, <3>5 DEF AtChar, r, land, place, e
    <2>7. CASE ~good /\ V # {}
      <3>1. src[s] # "\r"
        BY <2>1, <2>3, <2>7
      <3>2. r = [i EXCEPT !.current = Replacement, !.width = e]
        <4>1. CASE src[s] \notin Leads
          <5>1. r = Rejected(i, s) /\ e = 1
            BY <2>2, <2>4, <2>5, <2>7, <4>1
          <5> QED
            BY <5>1 DEF Rejected
        <4>2. CASE src[s] \in Leads
          <5>1. s + e <= L \/ s + e > L
            BY <1>0, <2>2
          <5>2. r = Rejected(i, s + e)
            BY <2>4, <2>5, <2>7, <4>2, <5>1
          <5>3. s + e # s /\ (s + e) - s = e
            BY <1>0, <2>2
          <5> QED
            BY <5>2, <5>3 DEF Rejected
        <4> QED
          BY <4>1, <4>2
      <3>3. Read(CharAt(src, s), e)
        BY <1>2, <2>1, <2>7, <3>1, <3>2
      <3>4. ~IsPair(src, s)
        BY <3>1 DEF IsPair
      <3> HIDE DEF r, land, place
      <3> QED
        BY <1>0, <1>1, <1>4, <3>3, <3>4 DEF AtChar, r, land, place, e
    <2>8. CASE ~good /\ V = {}
      <3>1. src[s] # "\r"
        BY <2>1, <2>3, <2>8
      <3>2. s + e > L
        <4>1. src[s] \in Leads /\ ~(s + e <= L)
          BY <2>4, <2>8
        <4> QED
          BY <1>0, <2>2, <4>1
      <3>3. L + 1 - s = e
        <4>1. L \in Nat /\ s \in Nat /\ e \in Nat /\ s + e - 1 <= L /\ s + e > L
          BY <1>0, <2>2, <3>2
        <4> QED
          BY ONLY <4>1
      <3>4. r = [i EXCEPT !.current = Replacement, !.width = e]
        BY <2>5, <2>8, <3>3 DEF Truncated
      <3>5. Read(CharAt(src, s), e)
        BY <1>2, <2>1, <2>8, <3>1, <3>4
      <3>6. ~IsPair(src, s)
        BY <3>1 DEF IsPair
      <3> HIDE DEF r, land, place
      <3> QED
        BY <1>0, <1>1, <1>4, <3>5, <3>6 DEF AtChar, r, land, place, e
    <2>9. CASE good /\ src[s] = "\r"
      <3>1. r = CarriageReturn(src, i)
        <4>1. r = Accepted(src, i, s + e - 1)
          BY <2>4, <2>5, <2>9
        <4> QED
          BY <2>9, <4>1 DEF Accepted
      <3>2. CASE IsPair(src, s)
        <4>1. r = [i EXCEPT !.start = @ + 1, !.pos.offset = @ + 1, !.current = "\n", !.width = 1]
          BY <3>1, <3>2 DEF CarriageReturn, IsPair
        <4>2. /\ DOMAIN r = DOMAIN i /\ r.start = s + 1
              /\ r.pos = [i.pos EXCEPT !.offset = @ + 1]
              /\ r.current = "\n" /\ r.width = 1 /\ KeepsMark(r, i)
          <5> HIDE DEF r
          <5> QED
            BY <4>1 DEF Fields, KeepsMark
        <4>3. land = s + 1 /\ place = [i.pos EXCEPT !.offset = @ + 1] /\ s + 1 \in 1 .. L
              /\ src[s + 1] = "\n"
          BY <1>0, <3>2 DEF Landing, Skipped, IsPair
        <4>4. Extent(src, s + 1) = 1 /\ CharAt(src, s + 1) = "\n"
          <5>1. src[s + 1] \in ASCII
            BY <4>3, LineBreaksAreASCII DEF IsSource
          <5> QED
            BY <4>3, <5>1, CharAtIs
        <4> HIDE DEF r, land, place
        <4>5. Fields(r)
          BY <1>1, <4>2, <4>3 DEF Fields
        <4> QED
          BY <1>0, <4>2, <4>3, <4>4, <4>5 DEF AtChar, r, land, place
      <3>3. CASE ~IsPair(src, s)
        <4>1. r = [i EXCEPT !.current = "\n", !.width = 1]
          BY <2>9, <3>1, <3>3 DEF CarriageReturn, IsPair
        <4>2. e = 1 /\ CharAt(src, s) = "\n"
          BY <2>1, <2>3, <2>9
        <4>3. Read(CharAt(src, s), e)
          BY <1>2, <4>1, <4>2
        <4> HIDE DEF r, land, place
        <4> QED
          BY <1>0, <1>1, <1>4, <3>3, <4>3 DEF AtChar, r, land, place, e
      <3> QED
        BY <3>2, <3>3
    <2> QED
      BY <2>6, <2>7, <2>8, <2>9
  <1> QED
    BY <1>0, <1>3, <1>4

\* The next tab stop, computed in two ways.
LEMMA NextTabStop ==
    ASSUME NEW c \in Nat, NEW T \in Nat \ {0}
    PROVE  ((c \div T) + 1) * T = c + T - (c % T) /\ c + T - (c % T) \in Nat
  <1> DEFINE d == c \div T
             m == c % T
  <1>1. c = T * d + m /\ m \in 0 .. T - 1 /\ d \in Int
    OBVIOUS
  <1> HIDE DEF d, m
  <1>2. (d + 1) * T = T * d + T
    BY <1>1
  <1>3. (d + 1) * T = c + T - m /\ c + T - m \in Nat
    BY <1>1, <1>2
  <1> QED
    BY <1>3 DEF d, m

LEMMA PlaceAfterTyped ==
    ASSUME NEW char, NEW place \in Places, NEW n \in Nat
    PROVE  PlaceAfter(char, place, n) \in Places /\ PlaceAfter(char, place, n).offset = n
  <1>1. place.line \in Nat /\ place.column \in Nat
    BY DEF Places
  <1>2. place.column + TabStop - (place.column % TabStop) \in Nat
    BY <1>1, NextTabStop, TabStopAssumption
  <1> DEFINE l == place.line + (IF char = "\n" THEN 1 ELSE 0)
             c == CASE char = "\n"  -> 1
                    [] char = "\t" -> place.column + TabStop - (place.column % TabStop)
                    [] OTHER        -> place.column + 1
  <1>3. l \in Nat
    BY <1>1
  <1>4. c \in Nat
    BY <1>1, <1>2
  <1>5. PlaceAfter(char, place, n) = [line |-> l, column |-> c, offset |-> n]
    BY DEF PlaceAfter
  <1> HIDE DEF l, c
  <1> QED
    BY <1>3, <1>4, <1>5 DEF Places

\* update_position counts what it leaves behind.
LEMMA UpdatePositionIs ==
    ASSUME NEW i, Fields(i), i.width \in Nat
    PROVE  LET u == update_position(i)
           IN  /\ Fields(u) /\ u.start = i.start /\ u.width = i.width /\ KeepsMark(u, i)
               /\ i.current # EOF => u.pos = PlaceAfter(i.current, i.pos, i.pos.offset + i.width)
               /\ i.current = EOF => u.pos = [i.pos EXCEPT !.offset = @ + i.width]
  <1> DEFINE P == i.pos
             n == P.offset + i.width
             moved == [i EXCEPT !.pos.offset = @ + i.width]
             u == update_position(i)
  <1>0. /\ P \in Places /\ P.line \in Nat /\ P.column \in Nat /\ P.offset \in Nat /\ n \in Nat
        /\ P = [line |-> P.line, column |-> P.column, offset |-> P.offset]
    BY PlaceFields DEF Fields
  <1> DEFINE Same(j) == /\ DOMAIN j = DOMAIN i /\ j.start = i.start /\ j.width = i.width
                        /\ KeepsMark(j, i)
  <1>1. Same(moved) /\ moved.pos = [line |-> P.line, column |-> P.column, offset |-> n]
    <2>1. Same(moved) /\ moved.pos = [P EXCEPT !.offset = n]
      BY DEF Fields, KeepsMark
    <2>2. [P EXCEPT !.offset = n] = [line |-> P.line, column |-> P.column, offset |-> n]
      BY <1>0, PlaceFields
    <2> QED
      BY <2>1, <2>2
  <1>2. DOMAIN i = {"start", "width", "current", "pos", "mark", "mark_pos"}
    BY DEF Fields
  <1> HIDE DEF moved, n, P
  <1>3. EOF # "\n" /\ EOF # "\t"
    BY DEF EOF
  <1>4. CASE i.current = "\n"
    <2>1. u = [moved EXCEPT !.pos.line = @ + 1, !.pos.column = 1]
      BY <1>3, <1>4, Zenon DEF update_position, moved
    <2>2. Same(u) /\ u.pos = [line |-> P.line + 1, column |-> 1, offset |-> n]
      <3> HIDE DEF u
      <3>1. Same(u) /\ u.pos = [[moved.pos EXCEPT !.line = @ + 1] EXCEPT !.column = 1]
        BY <1>1, <1>2, <2>1 DEF KeepsMark
      <3>2. [moved.pos EXCEPT !.line = @ + 1]
              = [line |-> P.line + 1, column |-> P.column, offset |-> n]
        BY <1>1
      <3> QED
        BY <3>1, <3>2
    <2>3. PlaceAfter(i.current, P, n) = [line |-> P.line + 1, column |-> 1, offset |-> n]
      BY <1>4 DEF PlaceAfter
    <2> HIDE DEF u
    <2>4. u.pos = PlaceAfter(i.current, P, n) /\ u.pos \in Places
      BY <1>0, <2>2, <2>3, PlaceAfterTyped
    <2> QED
      BY <1>2, <1>3, <1>4, <2>2, <2>4 DEF Fields, P, n, u
  <1>5. CASE i.current = "\t"
    <2> DEFINE t == ((P.column \div TabStop) + 1) * TabStop
    <2>1. u = [moved EXCEPT !.pos.column = ((@ \div TabStop) + 1) * TabStop]
      BY <1>3, <1>5, Zenon DEF update_position, moved
    <2>2. Same(u) /\ u.pos = [line |-> P.line, column |-> t, offset |-> n]
      <3> HIDE DEF u
      <3>1. Same(u) /\ u.pos = [moved.pos EXCEPT !.column = ((@ \div TabStop) + 1) * TabStop]
        BY <1>1, <1>2, <2>1 DEF KeepsMark
      <3> QED
        BY <1>1, <3>1
    <2>3. t = P.column + TabStop - (P.column % TabStop)
      BY <1>0, NextTabStop, TabStopAssumption
    <2> HIDE DEF t
    <2>4. PlaceAfter(i.current, P, n) = [line |-> P.line, column |-> t, offset |-> n]
      <3>1. P.line + 0 = P.line
        BY <1>0
      <3> QED
        BY <1>5, <2>3, <3>1 DEF PlaceAfter
    <2> HIDE DEF u
    <2>5. u.pos = PlaceAfter(i.current, P, n) /\ u.pos \in Places
      BY <1>0, <2>2, <2>4, PlaceAfterTyped
    <2> QED
      BY <1>2, <1>3, <1>5, <2>2, <2>5 DEF Fields, P, n, u
  <1>6. CASE i.current = EOF
    <2>1. u = moved
      BY <1>3, <1>6 DEF update_position, moved
    <2>2. [P EXCEPT !.offset = n] = [line |-> P.line, column |-> P.column, offset |-> n]
          /\ [P EXCEPT !.offset = n] \in Places
      BY <1>0, PlaceFields
    <2> HIDE DEF u
    <2>3. u.pos = [P EXCEPT !.offset = n] /\ u.pos \in Places
      BY <1>1, <2>1, <2>2
    <2> QED
      BY <1>1, <1>2, <1>6, <2>1, <2>3 DEF Fields, P, n, u
  <1>7. CASE i.current \notin {"\n", "\t", EOF}
    <2>1. u = [moved EXCEPT !.pos.column = @ + 1]
      BY <1>7 DEF update_position, moved
    <2>2. Same(u) /\ u.pos = [line |-> P.line, column |-> P.column + 1, offset |-> n]
      <3> HIDE DEF u
      <3>1. Same(u) /\ u.pos = [moved.pos EXCEPT !.column = @ + 1]
        BY <1>1, <1>2, <2>1 DEF KeepsMark
      <3> QED
        BY <1>1, <3>1
    <2>3. PlaceAfter(i.current, P, n) = [line |-> P.line, column |-> P.column + 1, offset |-> n]
      <3>1. P.line + 0 = P.line
        BY <1>0
      <3> QED
        BY <1>7, <3>1 DEF PlaceAfter
    <2> HIDE DEF u
    <2>4. u.pos = PlaceAfter(i.current, P, n) /\ u.pos \in Places
      BY <1>0, <2>2, <2>3, PlaceAfterTyped
    <2> QED
      BY <1>2, <1>7, <2>2, <2>4 DEF Fields, P, n, u
  <1> QED
    BY <1>4, <1>5, <1>6, <1>7

\* The next character is the one behind; at the end nothing moves.
LEMMA NextIs ==
    ASSUME NEW src, IsSource(src), NEW s \in 1 .. Len(src) + 1, NEW place \in Places,
           place.offset = s - 1, ~IsPair(src, s), NEW i, AtChar(src, i, s, place)
    PROVE  LET r == utf8iterator_next(src, i)
               b == Behind(src, s, place)
           IN  /\ KeepsMark(r, i)
               /\ s > Len(src) => AtChar(src, r, s, place)
               /\ s <= Len(src) => AtChar(src, r, b.offset + 1, b)
  <1> DEFINE L == Len(src)
             u == update_position(i)
             v == [u EXCEPT !.start = @ + i.width]
             r == utf8iterator_next(src, i)
  <1>0. src \in Seq(STRING) /\ L \in Nat /\ s \in Nat /\ s >= 1 /\ s <= L + 1
    BY DEF IsSource
  <1>1. Fields(i) /\ i.start = s /\ i.pos = place
    BY DEF AtChar
  <1>2. i.width \in Nat /\ s + i.width <= L + 1
    <2>1. CASE s > L
      BY <1>0, <2>1 DEF AtChar
    <2>2. CASE s <= L
      <3>1. i.width = Extent(src, s) /\ ExtentOf(src, s, Extent(src, s))
        BY <1>0, <2>2, ExtentIs DEF AtChar
      <3> HIDE DEF L
      <3>2. i.width \in 1 .. 4 /\ s + i.width - 1 <= L /\ s \in Nat /\ L \in Nat
        BY <1>0, <3>1 DEF ExtentOf, L
      <3> QED
        BY ONLY <3>2
    <2> QED
      BY <1>0, <2>1, <2>2
  <1>3. /\ Fields(u) /\ u.start = i.start /\ u.width = i.width /\ KeepsMark(u, i)
        /\ i.current # EOF => u.pos = PlaceAfter(i.current, i.pos, i.pos.offset + i.width)
        /\ i.current = EOF => u.pos = [i.pos EXCEPT !.offset = @ + i.width]
    BY <1>1, <1>2, UpdatePositionIs
  <1>4. r = read_char(src, v)
    BY DEF utf8iterator_next
  <1> HIDE DEF u
  <1>5. Fields(v) /\ v.start = s + i.width /\ v.pos = u.pos /\ KeepsMark(v, i)
    BY <1>1, <1>3 DEF Fields, KeepsMark
  <1> HIDE DEF v, r
  <1>6. CASE s > L
    <2>1. i.current = EOF /\ i.width = 0
      BY <1>6 DEF AtChar
    <2>2. place.offset + 0 = place.offset /\ [place EXCEPT !.offset = place.offset] = place
      BY PlaceFields
    <2>3. v.pos = place /\ v.start = s
      BY <1>0, <1>1, <1>3, <1>5, <2>1, <2>2
    <2>4. AtChar(src, r, Landing(src, s), Skipped(src, s, place)) /\ KeepsMark(r, v)
      BY <1>0, <1>4, <1>5, <2>3, ReadCharIs
    <2>5. Landing(src, s) = s /\ Skipped(src, s, place) = place
      BY DEF Landing, Skipped
    <2> QED
      BY <1>5, <1>6, <2>4, <2>5 DEF KeepsMark, r
  <1>7. CASE s <= L
    <2> DEFINE n == s + Extent(src, s)
               q == PlaceAfter(CharAt(src, s), place, n - 1)
               b == Behind(src, s, place)
    <2>1. i.current = CharAt(src, s) /\ i.width = Extent(src, s) /\ i.current # EOF
      <3>1. s \in 1 .. L
        BY <1>0, <1>7
      <3> QED
        BY <1>7, <3>1, CharAtIs DEF AtChar
    <2>2. n \in 1 .. L + 1 /\ n - 1 \in Nat /\ place.offset + i.width = n - 1 /\ v.start = n
      BY <1>0, <1>2, <1>5, <2>1
    <2>3. v.pos = q
      BY <1>1, <1>3, <1>5, <2>1, <2>2
    <2>4. q \in Places /\ q.offset = n - 1
      BY <2>2, PlaceAfterTyped
    <2>5. AtChar(src, r, Landing(src, n), Skipped(src, n, q)) /\ KeepsMark(r, v)
      <3> HIDE DEF q, n
      <3> QED
        BY <1>0, <1>4, <1>5, <2>2, <2>3, <2>4, ReadCharIs
    <2>6. b = Skipped(src, n, q)
      BY DEF Behind
    <2> HIDE DEF q, n, b
    <2>7. b.offset + 1 = Landing(src, n)
      <3>1. Landing(src, n) \in 1 .. L + 1 /\ b.offset = Landing(src, n) - 1
        BY <1>0, <2>2, <2>4, <2>6, SkippedFields
      <3> QED
        BY <1>0, <3>1
    <2>8. AtChar(src, r, b.offset + 1, b) /\ KeepsMark(r, i)
      BY <1>5, <2>5, <2>6, <2>7 DEF KeepsMark
    <2> QED
      BY <1>0, <1>7, <2>8 DEF r, b
  <1> QED
    BY <1>0, <1>6, <1>7

-----------------------------------------------------------------------------
(***************************************************************************)
(* The text beside the source: character follows character.                *)
(***************************************************************************)
CharactersOf(src) == {CharAt(src, s) : s \in 1 .. Len(src)} \cup {EOF}
Entries(src) == [char : CharactersOf(src), place : Places]

\* A character of the source, at its place.
IsEntry(src, c) ==
    LET s == c.place.offset + 1
    IN  s \in 1 .. Len(src) /\ ~IsPair(src, s) /\ c.char = CharAt(src, s)

BehindEntry(src, c) == Behind(src, c.place.offset + 1, c.place)

\* t has the characters of the source from its beginning on, and the place of one more.
Linked(src, t) ==
    /\ t \in Seq(Entries(src)) /\ Len(t) >= 1
    /\ t[1].place = Skipped(src, 1, Origin)
    /\ \A j \in 1 .. Len(t) - 1 : IsEntry(src, t[j]) /\ t[j + 1].place = BehindEntry(src, t[j])

\* And it goes to the end.
IsTextOf(src, t) ==
    /\ Linked(src, t)
    /\ t[Len(t)] = [char |-> EOF, place |-> t[Len(t)].place]
    /\ t[Len(t)].place.offset = Len(src)

\* What the reference has read after some steps.
Readings(src) == [chars : Seq(Entries(src)), from : 1 .. Len(src) + 1, place : Places]

End(place) == [char |-> EOF, place |-> place]

ReadSoFar(src, r) ==
    /\ r \in Readings(src) /\ r.place.offset = r.from - 1
    /\ Linked(src, Append(r.chars, End(Skipped(src, r.from, r.place))))

LEMMA EndIsEntry ==
    ASSUME NEW src, NEW place \in Places
    PROVE  End(place) \in Entries(src) /\ End(place).place = place
  BY DEF End, Entries, CharactersOf

\* A character is added to a text that stops at its place.
LEMMA LinkAdds ==
    ASSUME NEW src, NEW c \in Seq(Entries(src)), NEW place \in Places,
           Linked(src, Append(c, End(place))),
           NEW x \in Entries(src), x.place = place, IsEntry(src, x),
           NEW next \in Places, next = BehindEntry(src, x)
    PROVE  Linked(src, Append(Append(c, x), End(next)))
  <1> DEFINE S == Entries(src)
             t == Append(c, End(place))
             y == End(next)
             u == Append(c, x)
             v == Append(u, y)
             k == Len(c)
  <1>1. y \in S /\ y.place = next /\ End(place) \in S /\ End(place).place = place
    BY EndIsEntry
  <1>2. c \in Seq(S) /\ x \in S
    OBVIOUS
  <1> HIDE DEF y
  <1>3. k \in Nat /\ t \in Seq(S) /\ Len(t) = k + 1 /\ t[k + 1] = End(place)
        /\ \A j \in 1 .. k : t[j] = c[j]
    <2> HIDE DEF S
    <2> QED
      BY <1>1, <1>2
  <1>4. u \in Seq(S) /\ Len(u) = k + 1 /\ u[k + 1] = x /\ \A j \in 1 .. k : u[j] = c[j]
    <2> HIDE DEF S
    <2> QED
      BY <1>1, <1>2
  <1> HIDE DEF t, u, k
  <1>5. v \in Seq(S) /\ Len(v) = k + 2 /\ v[k + 2] = y /\ \A j \in 1 .. k + 1 : v[j] = u[j]
    <2> HIDE DEF S
    <2> QED
      BY <1>1, <1>3, <1>4
  <1> HIDE DEF v
  <1>6. t[1].place = Skipped(src, 1, Origin)
        /\ \A j \in 1 .. k : IsEntry(src, t[j]) /\ t[j + 1].place = BehindEntry(src, t[j])
    BY <1>3 DEF Linked, t
  <1>7. \A j \in 1 .. k + 1 : v[j].place = t[j].place
    <2> SUFFICES ASSUME NEW j \in 1 .. k + 1 PROVE v[j].place = t[j].place
      OBVIOUS
    <2>1. CASE j = k + 1
      BY <1>1, <1>3, <1>4, <1>5, <2>1
    <2>2. CASE j # k + 1
      <3>1. j \in 1 .. k
        BY <1>3, <2>2
      <3> QED
        BY <1>3, <1>4, <1>5, <3>1
    <2> QED
      BY <2>1, <2>2
  <1>8. ASSUME NEW j \in 1 .. k + 1
        PROVE  IsEntry(src, v[j]) /\ v[j + 1].place = BehindEntry(src, v[j])
    <2>1. CASE j = k + 1
      <3>1. v[j] = x /\ v[j + 1] = y
        <4>1. j + 1 = k + 2
          BY <1>3, <2>1
        <4> QED
          BY <1>4, <1>5, <2>1, <4>1
      <3> QED
        BY <1>1, <3>1
    <2>2. CASE j # k + 1
      <3>1. j \in 1 .. k /\ j + 1 \in 1 .. k + 1
        BY <1>3, <2>2
      <3>2. v[j] = t[j] /\ v[j + 1].place = t[j + 1].place
        BY <1>3, <1>4, <1>5, <1>7, <3>1
      <3> QED
        BY <1>6, <3>1, <3>2
    <2> QED
      BY <2>1, <2>2
  <1>9. v[1].place = Skipped(src, 1, Origin)
    <2>1. 1 \in 1 .. k + 1
      BY <1>3
    <2> QED
      BY <1>6, <1>7, <2>1
  <1>10. Len(v) >= 1 /\ Len(v) - 1 = k + 1
    BY <1>3, <1>5
  <1>11. Linked(src, v)
    BY <1>5, <1>8, <1>9, <1>10 DEF Linked
  <1> QED
    BY <1>11 DEF u, v, y

\* A step of the reference.
LEMMA ReadOneTyped ==
    ASSUME NEW src, IsSource(src), NEW r \in Readings(src)
    PROVE  ReadOne(src, r) \in Readings(src)
  <1> DEFINE s == r.from
             L == Len(src)
             S == Entries(src)
  <1>0. src \in Seq(STRING) /\ L \in Nat
    BY DEF IsSource
  <1>1. r.chars \in Seq(S) /\ s \in 1 .. L + 1 /\ r.place \in Places
        /\ r = [chars |-> r.chars, from |-> s, place |-> r.place]
    BY DEF Readings
  <1>2. CASE s > L
    BY <1>2 DEF ReadOne
  <1>3. CASE ~(s > L) /\ IsPair(src, s)
    <2>1. ReadOne(src, r) = [r EXCEPT !.from = @ + 1, !.place.offset = @ + 1]
      BY <1>3 DEF ReadOne
    <2>2. s + 1 \in 1 .. L + 1
      BY <1>0, <1>1, <1>3
    <2>3. [r.place EXCEPT !.offset = @ + 1] \in Places
      BY <1>1 DEF Places
    <2>4. ReadOne(src, r)
            = [chars |-> r.chars, from |-> s + 1, place |-> [r.place EXCEPT !.offset = @ + 1]]
      BY <1>1, <2>1
    <2> QED
      BY <1>1, <2>2, <2>3, <2>4 DEF Readings
  <1>4. CASE ~(s > L) /\ ~IsPair(src, s)
    <2> DEFINE char == CharAt(src, s)
               next == s + Extent(src, s)
               x == [char |-> char, place |-> r.place]
               q == PlaceAfter(char, r.place, next - 1)
    <2>1. ReadOne(src, r) = [chars |-> Append(r.chars, x), from |-> next, place |-> q]
      BY <1>4 DEF ReadOne
    <2>2. s \in 1 .. L
      BY <1>0, <1>1, <1>4
    <2>3. next \in 1 .. L + 1 /\ next - 1 \in Nat
      <3>1. ExtentOf(src, s, Extent(src, s))
        BY <1>0, <2>2, ExtentIs
      <3> DEFINE e == Extent(src, s)
      <3> HIDE DEF e
      <3>2. e \in 1 .. 4 /\ s + e - 1 <= L
        BY <3>1 DEF ExtentOf, e
      <3>3. s + e \in 1 .. L + 1 /\ s + e - 1 \in Nat
        BY <1>0, <2>2, <3>2
      <3> QED
        BY <3>3 DEF e
    <2>4. x \in S
      BY <1>1, <2>2 DEF Entries, CharactersOf
    <2> HIDE DEF next, char
    <2>5. q \in Places
      BY <1>1, <2>3, PlaceAfterTyped
    <2> HIDE DEF x, q, S
    <2>6. Append(r.chars, x) \in Seq(S)
      BY <1>1, <2>4
    <2> QED
      BY <2>1, <2>3, <2>5, <2>6 DEF Readings, S
  <1> QED
    BY <1>2, <1>3, <1>4

LEMMA ReadOneLinks ==
    ASSUME NEW src, IsSource(src), NEW r, ReadSoFar(src, r)
    PROVE  /\ ReadSoFar(src, ReadOne(src, r))
           /\ r.from <= Len(src) => ReadOne(src, r).from > r.from
           /\ r.from > Len(src) => ReadOne(src, r) = r
  <1> DEFINE s == r.from
             L == Len(src)
             S == Entries(src)
             z == ReadOne(src, r)
  <1>0. src \in Seq(STRING) /\ L \in Nat
    BY DEF IsSource
  <1>1. r.chars \in Seq(S) /\ s \in 1 .. L + 1 /\ r.place \in Places /\ r.place.offset = s - 1
        /\ r = [chars |-> r.chars, from |-> s, place |-> r.place]
        /\ Linked(src, Append(r.chars, End(Skipped(src, s, r.place))))
    BY DEF Readings, ReadSoFar
  <1>a. z \in Readings(src)
    BY ReadOneTyped DEF ReadSoFar
  <1>2. CASE s > L
    BY <1>0, <1>1, <1>2 DEF ReadOne
  <1>3. CASE ~(s > L) /\ IsPair(src, s)
    <2> DEFINE q == [r.place EXCEPT !.offset = @ + 1]
    <2>1. z = [r EXCEPT !.from = @ + 1, !.place.offset = @ + 1]
      BY <1>3 DEF ReadOne
    <2>2. s + 1 \in 1 .. L + 1
      BY <1>0, <1>1, <1>3
    <2>3. q \in Places /\ q.offset = s
      <3>1. s \in Nat /\ r.place.offset + 1 = s
        BY <1>0, <1>1
      <3>2. q = [r.place EXCEPT !.offset = r.place.offset + 1]
        OBVIOUS
      <3> QED
        BY <1>1, <3>1, <3>2, PlaceFields
    <2> HIDE DEF z
    <2>4. z.chars = r.chars /\ z.from = s + 1 /\ z.place = q
      BY <1>1, <2>1
    <2>5. Skipped(src, s, r.place) = q
      BY <1>3 DEF Skipped
    <2>6. ~IsPair(src, s + 1)
      <3>1. src[s + 1] = "\n"
        BY <1>3 DEF IsPair
      <3> QED
        BY <3>1 DEF IsPair
    <2> HIDE DEF q
    <2>7. Skipped(src, s + 1, q) = q
      BY <2>6 DEF Skipped
    <2>8. z.place.offset = z.from - 1
      BY <1>1, <2>3, <2>4
    <2>9. ReadSoFar(src, z)
      BY <1>1, <1>a, <2>4, <2>5, <2>7, <2>8 DEF ReadSoFar
    <2> QED
      BY <1>0, <1>1, <1>3, <2>4, <2>9 DEF z
  <1>4. CASE ~(s > L) /\ ~IsPair(src, s)
    <2> DEFINE char == CharAt(src, s)
               next == s + Extent(src, s)
               x == [char |-> char, place |-> r.place]
               q == PlaceAfter(char, r.place, next - 1)
               b == Skipped(src, next, q)
    <2>1. z = [chars |-> Append(r.chars, x), from |-> next, place |-> q]
      BY <1>4 DEF ReadOne
    <2>2. s \in 1 .. L
      BY <1>0, <1>1, <1>4
    <2>3. next \in 1 .. L + 1 /\ next - 1 \in Nat /\ next > s
      <3>1. ExtentOf(src, s, Extent(src, s))
        BY <1>0, <2>2, ExtentIs
      <3> DEFINE e == Extent(src, s)
      <3> HIDE DEF e
      <3>2. e \in 1 .. 4 /\ s + e - 1 <= L
        BY <3>1 DEF ExtentOf, e
      <3>3. s + e \in 1 .. L + 1 /\ s + e - 1 \in Nat /\ s + e > s
        BY <1>0, <2>2, <3>2
      <3> QED
        BY <3>3 DEF e
    <2>4. x \in S /\ x.place = r.place
      BY <1>1, <2>2 DEF Entries, CharactersOf
    <2>5. Skipped(src, s, r.place) = r.place
      BY <1>4 DEF Skipped
    <2>6. r.place.offset + 1 = s
      BY <1>0, <1>1
    <2>7. IsEntry(src, x)
      BY <1>4, <2>2, <2>6 DEF IsEntry
    <2>8. b = BehindEntry(src, x)
      BY <2>6 DEF BehindEntry, Behind
    <2> HIDE DEF next, char
    <2>9. q \in Places /\ q.offset = next - 1
      BY <1>1, <2>3, PlaceAfterTyped
    <2> HIDE DEF x, q
    <2>10. b \in Places
      BY <1>0, <2>3, <2>9, SkippedFields
    <2> HIDE DEF b, S
    <2>11. Linked(src, Append(Append(r.chars, x), End(b)))
      BY <1>1, <2>4, <2>5, <2>7, <2>8, <2>10, LinkAdds DEF S
    <2> HIDE DEF z
    <2>12. z.chars = Append(r.chars, x) /\ z.from = next /\ z.place = q
      BY <2>1
    <2>13. ReadSoFar(src, z)
      BY <1>a, <2>9, <2>11, <2>12 DEF ReadSoFar, b
    <2> QED
      BY <1>4, <2>3, <2>12, <2>13 DEF z
  <1> QED
    BY <1>0, <1>1, <1>2, <1>3, <1>4

\* The reference reads the whole source.
LEMMA TextOfIs ==
    ASSUME NEW src, IsSource(src)
    PROVE  IsTextOf(src, TextOf(src))
  <1> DEFINE L == Len(src)
             S == Readings(src)
             first == [chars |-> <<>>, from |-> 1, place |-> Origin]
             F == [z \in Int \X S |-> ReadOne(src, z[2])]
             IsRead(f) == f = [n \in 0 .. L |-> IF n = 0 THEN first ELSE ReadOne(src, f[n - 1])]
             h == CHOOSE f : IsRead(f)
  <1>0. src \in Seq(STRING) /\ L \in Nat
    BY DEF IsSource
  <1>1. Origin \in Places /\ Origin.offset = 0
    BY DEF Origin, Places
  <1>2. first \in S
    <2>1. <<>> \in Seq(Entries(src)) /\ 1 \in 1 .. L + 1
      BY <1>0
    <2> QED
      BY <1>1, <2>1 DEF Readings
  <1>3. F \in [Int \X S -> S] /\ \A n \in Int, r \in S : F[<<n, r>>] = ReadOne(src, r)
    <2> HIDE DEF S
    <2>1. ASSUME NEW z \in Int \X S PROVE ReadOne(src, z[2]) \in S
      BY ReadOneTyped DEF S
    <2> QED
      BY <2>1
  <1>4. \E f : IsRead(f)
    <2> HIDE DEF S, F, first
    <2>1. 0 <= L /\ 0 \in Int /\ L \in Int
      BY <1>0
    <2> HIDE DEF L
    <2>2. PICK f \in [0 .. L -> S] : IsRecursion(f, 0, L, first, F)
      BY <1>2, <1>3, <2>1, RecursionExists
    <2>3. ASSUME NEW n \in 0 .. L, n # 0 PROVE F[<<n, f[n - 1]>>] = ReadOne(src, f[n - 1])
      <3>1. n - 1 \in 0 .. L /\ n \in Int
        BY <2>1, <2>3
      <3> QED
        BY <1>3, <3>1
    <2>4. IsRead(f)
      BY <2>2, <2>3 DEF IsRecursion
    <2> QED
      BY <2>4
  <1>5. IsRead(h)
    <2> HIDE DEF IsRead
    <2> QED
      BY <1>4
  <1>6. TextOf(src) = Append(h[L].chars, End(h[L].place))
    BY DEF TextOf, Origin, End
  <1> HIDE DEF h
  <1>7. h[0] = first /\ \A n \in 0 .. L - 1 : h[n + 1] = ReadOne(src, h[n])
    <2>1. h = [n \in 0 .. L |-> IF n = 0 THEN first ELSE ReadOne(src, h[n - 1])]
      BY <1>5
    <2>2. 0 \in 0 .. L
      BY <1>0
    <2> HIDE DEF first, L
    <2>3. h[0] = first
      BY <2>1, <2>2
    <2>4. ASSUME NEW n \in 0 .. L - 1 PROVE h[n + 1] = ReadOne(src, h[n])
      <3>1. n + 1 \in 0 .. L /\ n + 1 # 0 /\ (n + 1) - 1 = n
        BY <1>0 DEF L
      <3> QED
        BY <2>1, <3>1
    <2> QED
      BY <2>3, <2>4
  <1> DEFINE T == {n \in 0 .. L : ReadSoFar(src, h[n]) /\ n + 1 <= h[n].from}
  <1>8. 0 \in T
    <2> DEFINE q == Skipped(src, 1, Origin)
    <2>1. first.chars = <<>> /\ first.from = 1 /\ first.place = Origin
      OBVIOUS
    <2>2. q \in Places
      <3>1. 1 \in 1 .. Len(src) + 1 /\ Origin.offset = 1 - 1
        BY <1>0, <1>1
      <3> QED
        BY <1>0, <1>1, <3>1, SkippedFields
    <2> HIDE DEF q
    <2>3. End(q) \in Entries(src) /\ End(q).place = q
      BY <2>2, EndIsEntry
    <2> DEFINE t == Append(<<>>, End(q))
               E == Entries(src)
    <2>4. t \in Seq(E) /\ Len(t) = 1 /\ t[1] = End(q)
      <3> HIDE DEF E
      <3>1. End(q) \in E /\ <<>> \in Seq(E) /\ Len(<<>>) = 0
        BY <2>3 DEF E
      <3> QED
        BY <3>1
    <2> HIDE DEF t
    <2>5. Linked(src, t)
      BY <2>3, <2>4 DEF Linked, q
    <2>6. ReadSoFar(src, first)
      BY <1>1, <1>2, <2>1, <2>5 DEF ReadSoFar, t, q
    <2> HIDE DEF first
    <2> QED
      BY <1>0, <1>7, <2>1, <2>6
  <1>9. ASSUME NEW n \in 0 .. L - 1, n \in T PROVE n + 1 \in T
    <2> DEFINE r == h[n]
               z == h[n + 1]
    <2>1. ReadSoFar(src, r) /\ n + 1 <= r.from
      BY <1>9
    <2>2. z = ReadOne(src, r)
      BY <1>7
    <2> HIDE DEF r, z
    <2>3. /\ ReadSoFar(src, z)
          /\ r.from <= L => z.from > r.from
          /\ r.from > L => z = r
      BY <2>1, <2>2, ReadOneLinks
    <2>4. r.from \in 1 .. L + 1 /\ z.from \in 1 .. L + 1
      BY <2>1, <2>3 DEF ReadSoFar, Readings
    <2>5. (n + 1) + 1 <= z.from /\ n + 1 \in 0 .. L
      BY <1>0, <2>1, <2>3, <2>4
    <2> QED
      BY <2>3, <2>5 DEF z
  <1>10. L \in T
    <2> HIDE DEF T, L
    <2>1. \A n \in 0 .. L : n \in T
      BY <1>0, <1>8, <1>9, InductionUpTo
    <2> QED
      BY <1>0, <2>1
  <1> DEFINE r == h[L]
             t == TextOf(src)
             E == Entries(src)
  <1>11. ReadSoFar(src, r) /\ L + 1 <= r.from
    BY <1>10
  <1> HIDE DEF r
  <1>12. r.from = L + 1 /\ r.place.offset = L /\ r.place \in Places /\ r.chars \in Seq(E)
         /\ Linked(src, Append(r.chars, End(Skipped(src, r.from, r.place))))
    BY <1>0, <1>11 DEF ReadSoFar, Readings
  <1>13. Skipped(src, r.from, r.place) = r.place
    BY <1>0, <1>12 DEF Skipped, IsPair
  <1>14. t = Append(r.chars, End(r.place))
    BY <1>6 DEF r
  <1>15. End(r.place) \in E /\ End(r.place) = [char |-> EOF, place |-> r.place]
    BY <1>12, EndIsEntry DEF End
  <1> HIDE DEF t, E
  <1>16. t[Len(t)] = End(r.place)
    BY <1>12, <1>14, <1>15
  <1>17. Linked(src, t)
    BY <1>12, <1>13, <1>14
  <1> QED
    BY <1>12, <1>15, <1>16, <1>17 DEF IsTextOf, t

\* What a text says of its entries: their places are places of the source, one behind the other.
LEMMA TextFacts ==
    ASSUME NEW src, IsSource(src), NEW t, IsTextOf(src, t)
    PROVE  /\ Len(t) \in Nat /\ Len(t) >= 1 /\ DOMAIN t = 1 .. Len(t)
           /\ \A j \in 1 .. Len(t) :
                 /\ t[j].place \in Places /\ t[j].place.offset + 1 \in 1 .. Len(src) + 1
                 /\ t[j] = [char |-> t[j].char, place |-> t[j].place]
                 /\ ~IsPair(src, t[j].place.offset + 1)
           /\ \A j \in 1 .. Len(t) - 1 :
                 /\ IsEntry(src, t[j]) /\ t[j + 1].place = BehindEntry(src, t[j])
                 /\ t[j].place.offset < t[j + 1].place.offset
           /\ t[Len(t)].char = EOF /\ t[Len(t)].place.offset = Len(src)
  <1> DEFINE L == Len(src)
  <1>0. src \in Seq(STRING) /\ L \in Nat
    BY DEF IsSource
  <1>1. /\ t \in Seq(Entries(src)) /\ Len(t) >= 1
        /\ \A j \in 1 .. Len(t) - 1 : IsEntry(src, t[j]) /\ t[j + 1].place = BehindEntry(src, t[j])
        /\ t[Len(t)] = [char |-> EOF, place |-> t[Len(t)].place]
        /\ t[Len(t)].place.offset = L
    BY DEF IsTextOf, Linked
  <1>2. Len(t) \in Nat /\ DOMAIN t = 1 .. Len(t) /\ \A j \in 1 .. Len(t) : t[j] \in Entries(src)
    BY <1>1
  <1>3. \A j \in 1 .. Len(t) :
           t[j].place \in Places /\ t[j] = [char |-> t[j].char, place |-> t[j].place]
    BY <1>2 DEF Entries
  <1>4. t[Len(t)].char = EOF
    <2> DEFINE e == t[Len(t)]
    <2>1. e = [char |-> EOF, place |-> e.place]
      BY <1>1
    <2> HIDE DEF e
    <2>2. e.char = EOF
      BY <2>1
    <2> QED
      BY <2>2 DEF e
  <1>5. ASSUME NEW j \in 1 .. Len(t)
        PROVE  t[j].place.offset + 1 \in 1 .. L + 1 /\ ~IsPair(src, t[j].place.offset + 1)
    <2>1. CASE j = Len(t)
      <3>1. t[j].place.offset + 1 = L + 1
        BY <1>0, <1>1, <2>1
      <3> QED
        BY <1>0, <3>1 DEF IsPair
    <2>2. CASE j # Len(t)
      <3>0. Len(t) \in Nat /\ j \in 1 .. Len(t)
        BY <1>2
      <3>1. j \in 1 .. Len(t) - 1
        BY ONLY <2>2, <3>0
      <3>2. IsEntry(src, t[j])
        BY <1>1, <3>1
      <3> QED
        BY <1>0, <3>2 DEF IsEntry
    <2> QED
      BY <2>1, <2>2
  <1>6. ASSUME NEW j \in 1 .. Len(t) - 1 PROVE t[j].place.offset < t[j + 1].place.offset
    <2> DEFINE P == t[j].place
               s == P.offset + 1
               e == Extent(src, s)
               n == s + e
               q == PlaceAfter(CharAt(src, s), P, n - 1)
    <2>1. s \in 1 .. L /\ t[j + 1].place = Skipped(src, n, q)
      BY <1>1 DEF IsEntry, BehindEntry, Behind
    <2>2. P \in Places /\ P.offset \in Nat
      <3>1. j \in 1 .. Len(t)
        BY <1>2
      <3> QED
        BY <1>3, <3>1, PlaceFields
    <2>3. ExtentOf(src, s, e)
      BY <1>0, <2>1, ExtentIs
    <2> HIDE DEF e
    <2>4. e \in 1 .. 4 /\ s + e - 1 <= L
      BY <2>3 DEF ExtentOf
    <2>a. L \in Nat /\ s \in 1 .. L
      BY <1>0, <2>1
    <2>b. s = P.offset + 1 /\ n = s + e
      OBVIOUS
    <2> HIDE DEF s, L, P, n
    <2>c. ASSUME NEW o \in Nat, o = P.offset
          PROVE  n \in 1 .. L + 1 /\ n - 1 \in Nat /\ n - 1 > o
      <3>1. s = o + 1
        BY <2>b, <2>c
      <3> QED
        BY ONLY o \in Nat, <3>1, <2>a, <2>b, <2>4
    <2>5. n \in 1 .. L + 1 /\ n - 1 \in Nat /\ n - 1 > P.offset
      BY <2>2, <2>c
    <2>6. q \in Places /\ q.offset = n - 1
      BY <2>2, <2>5, PlaceAfterTyped
    <2> HIDE DEF q
    <2>7. n <= Landing(src, n) /\ Landing(src, n) \in 1 .. L + 1
          /\ Skipped(src, n, q).offset = Landing(src, n) - 1
      BY <1>0, <2>5, <2>6, SkippedFields DEF L
    <2>8. P.offset < Landing(src, n) - 1
      BY ONLY <2>2, <2>a, <2>5, <2>7
    <2> QED
      BY <2>1, <2>7, <2>8 DEF P, q
  <1> QED
    BY <1>1, <1>2, <1>3, <1>4, <1>5, <1>6

\* So a place of the text has one index.
LEMMA PlacesGrow ==
    ASSUME NEW src, IsSource(src), NEW t, IsTextOf(src, t), NEW j \in 1 .. Len(t),
           NEW k \in 1 .. Len(t), j < k
    PROVE  t[j].place.offset < t[k].place.offset
  <1> DEFINE off(i) == t[i].place.offset
             T == {d \in 0 .. Len(t) : j + d <= Len(t) /\ d > 0 => off(j) < off(j + d)}
  <1>0. Len(t) \in Nat /\ (\A i \in 1 .. Len(t) : off(i) \in Nat)
        /\ \A i \in 1 .. Len(t) - 1 : off(i) < off(i + 1)
    BY TextFacts, PlaceFields
  <1> HIDE DEF off
  <1>1. 0 \in T
    BY <1>0
  <1>2. ASSUME NEW d \in 0 .. Len(t) - 1, d \in T PROVE d + 1 \in T
    <2> SUFFICES ASSUME j + (d + 1) <= Len(t) PROVE off(j) < off(j + (d + 1))
      BY <1>0
    <2>1. j + d \in 1 .. Len(t) - 1 /\ (j + d) + 1 = j + (d + 1) /\ j + d <= Len(t)
      BY <1>0
    <2>2. off(j + d) < off(j + (d + 1))
      BY <1>0, <2>1
    <2>3. CASE d = 0
      <3>1. j + d = j
        BY <2>3
      <3> QED
        BY <2>2, <3>1
    <2>4. CASE d > 0
      <3>1. off(j) < off(j + d)
        BY <1>2, <2>1, <2>4
      <3>2. off(j) \in Nat /\ off(j + d) \in Nat /\ off(j + (d + 1)) \in Nat
        <4>1. j + d \in 1 .. Len(t) /\ j + (d + 1) \in 1 .. Len(t)
          BY <1>0, <2>1
        <4> QED
          BY <1>0, <4>1
      <3> QED
        BY <2>2, <3>1, <3>2
    <2>5. d = 0 \/ d > 0
      OBVIOUS
    <2> QED
      BY <2>3, <2>4, <2>5
  <1>3. k - j \in T
    <2> HIDE DEF T
    <2>1. \A d \in 0 .. Len(t) : d \in T
      BY <1>0, <1>1, <1>2, InductionUpTo
    <2>2. k - j \in 0 .. Len(t)
      BY <1>0
    <2> QED
      BY <2>1, <2>2
  <1>4. j + (k - j) = k /\ k - j > 0
    OBVIOUS
  <1> QED
    BY <1>0, <1>3, <1>4 DEF off

LEMMA IndexIs ==
    ASSUME NEW src, IsSource(src), NEW t, IsTextOf(src, t), NEW j \in 1 .. Len(t), NEW start,
           start = t[j].place.offset + 1
    PROVE  (CHOOSE i \in DOMAIN t : t[i].place.offset = start - 1) = j
  <1>0. Len(t) \in Nat /\ DOMAIN t = 1 .. Len(t)
        /\ \A i \in 1 .. Len(t) : t[i].place.offset \in Nat
    BY TextFacts, PlaceFields
  <1> DEFINE Is(i) == t[i].place.offset = start - 1
  <1>1. j \in DOMAIN t /\ Is(j)
    BY <1>0
  <1>2. ASSUME NEW i \in DOMAIN t, Is(i) PROVE i = j
    <2>1. t[i].place.offset = t[j].place.offset /\ i \in 1 .. Len(t)
      BY <1>0, <1>2
    <2>2. ~(i < j) /\ ~(j < i)
      BY <1>0, <2>1, PlacesGrow
    <2> QED
      BY <1>0, <2>1, <2>2
  <1> HIDE DEF Is
  <1>3. (CHOOSE i \in DOMAIN t : Is(i)) = j
    BY <1>1, <1>2
  <1> QED
    BY <1>3 DEF Is

-----------------------------------------------------------------------------
(***************************************************************************)
(* A literal is in the text where it is in the source.                     *)
(***************************************************************************)
Plain == ASCII \ {"\n", "\r"}

\* A plain byte is a character of its own.
LEMMA PlainByte ==
    ASSUME NEW src, IsSource(src), NEW t, IsTextOf(src, t), NEW j \in 1 .. Len(t),
           NEW s, s = t[j].place.offset + 1, s <= Len(src), src[s] \in Plain
    PROVE  /\ j < Len(t) /\ t[j].char = src[s]
           /\ t[j + 1].place.offset + 1 = Landing(src, s + 1)
  <1>a. src \in Seq(STRING) /\ Len(src) \in Nat
    BY DEF IsSource
  <1>b. /\ Len(t) \in Nat /\ t[Len(t)].place.offset = Len(src)
        /\ t[j].place \in Places /\ t[j].place.offset + 1 \in 1 .. Len(src) + 1
    BY TextFacts
  <1>0. src \in Seq(STRING) /\ Len(src) \in Nat /\ Len(t) \in Nat /\ t[j].place \in Places
        /\ t[Len(t)].place.offset = Len(src) /\ s \in 1 .. Len(src) + 1
    BY <1>a, <1>b
  <1>1. j < Len(t)
    BY <1>0
  <1>2. IsEntry(src, t[j]) /\ t[j + 1].place = BehindEntry(src, t[j])
    <2>1. j \in 1 .. Len(t) - 1
      BY <1>0, <1>1
    <2> QED
      BY <2>1, TextFacts
  <1>3. s \in 1 .. Len(src) /\ t[j].char = CharAt(src, s)
    BY <1>2 DEF IsEntry
  <1>4. Extent(src, s) = 1 /\ CharAt(src, s) = src[s]
    <2>1. src[s] \in ASCII /\ src[s] # "\r"
      BY DEF Plain
    <2> QED
      BY <1>3, <2>1, CharAtIs
  <1> DEFINE q == PlaceAfter(CharAt(src, s), t[j].place, (s + 1) - 1)
  <1>5. t[j + 1].place = Skipped(src, s + 1, q)
    BY <1>2, <1>4 DEF BehindEntry, Behind
  <1>6. q \in Places /\ q.offset = (s + 1) - 1 /\ s + 1 \in 1 .. Len(src) + 1
    <2>1. (s + 1) - 1 \in Nat /\ s + 1 \in 1 .. Len(src) + 1
      BY <1>0, <1>3
    <2> QED
      BY <1>0, <2>1, PlaceAfterTyped
  <1> HIDE DEF q
  <1>7. Skipped(src, s + 1, q).offset = Landing(src, s + 1) - 1
        /\ Landing(src, s + 1) \in 1 .. Len(src) + 1
    BY <1>0, <1>6, SkippedFields
  <1> QED
    BY <1>0, <1>1, <1>3, <1>4, <1>5, <1>7

\* And a plain character is a byte.
LEMMA PlainCharacter ==
    ASSUME NEW src, IsSource(src), NEW t, IsTextOf(src, t), NEW j \in 1 .. Len(t), j < Len(t),
           NEW s, s = t[j].place.offset + 1, t[j].char \in Plain
    PROVE  s \in 1 .. Len(src) /\ src[s] = t[j].char
  <1>1. IsEntry(src, t[j])
    <2>1. Len(t) \in Nat
      BY TextFacts
    <2>2. j \in 1 .. Len(t) - 1
      BY <2>1
    <2> QED
      BY <2>2, TextFacts
  <1>2. s \in 1 .. Len(src) /\ t[j].char = CharAt(src, s)
    BY <1>1 DEF IsEntry
  <1>3. /\ src[s] \in ASCII => CharAt(src, s) = IF src[s] = "\r" THEN "\n" ELSE src[s]
        /\ src[s] \notin ASCII => CharAt(src, s) \notin ASCII
    BY <1>2, CharAtIs
  <1> QED
    BY <1>2, <1>3 DEF Plain

LEMMA LiteralFollows ==
    ASSUME NEW src, IsSource(src), NEW t, IsTextOf(src, t), NEW j \in 1 .. Len(t),
           NEW s, s = t[j].place.offset + 1, NEW lit \in Seq(Plain)
    PROVE  (s + Len(lit) <= Len(src) + 1 /\ \A i \in DOMAIN lit : src[s + i - 1] = lit[i])
              <=> (j + Len(lit) <= Len(t) /\ \A i \in DOMAIN lit : t[j + i - 1].char = lit[i])
  <1> DEFINE N == Len(lit)
             L == Len(src)
             off(i) == t[i].place.offset
  <1>0. /\ N \in Nat /\ DOMAIN lit = 1 .. N /\ (\A i \in 1 .. N : lit[i] \in Plain)
        /\ L \in Nat /\ Len(t) \in Nat /\ j \in Nat /\ j >= 1 /\ j <= Len(t)
        /\ s \in Nat /\ s >= 1 /\ s = off(j) + 1 /\ s <= L + 1
    <2>1. /\ Len(t) \in Nat
          /\ t[j].place \in Places /\ t[j].place.offset + 1 \in 1 .. Len(src) + 1
      BY TextFacts
    <2>2. t[j].place.offset \in Nat
      BY <2>1, PlaceFields
    <2>3. L \in Nat
      BY DEF IsSource
    <2>4. N \in Nat /\ DOMAIN lit = 1 .. N /\ \A i \in 1 .. N : lit[i] \in Plain
      OBVIOUS
    <2> QED
      BY <2>1, <2>2, <2>3, <2>4
  <1> HIDE DEF off, N, L
  <1>1. ASSUME s + N <= L + 1, \A i \in 1 .. N : src[s + i - 1] = lit[i]
        PROVE  j + N <= Len(t) /\ \A i \in 1 .. N : t[j + i - 1].char = lit[i]
    <2> DEFINE T == {m \in 0 .. N : /\ j + m <= Len(t)
                                    /\ m < N => off(j + m) + 1 = s + m
                                    /\ \A i \in 1 .. m : t[j + i - 1].char = lit[i]}
    <2>1. 0 \in T
      BY <1>0
    <2>2. ASSUME NEW m \in 0 .. N - 1, m \in T PROVE m + 1 \in T
      <3>0. m \in Nat /\ m < N
        BY <1>0
      <3>1. /\ j + m \in 1 .. Len(t) /\ off(j + m) + 1 = s + m
            /\ \A i \in 1 .. m : t[j + i - 1].char = lit[i]
        BY <1>0, <3>0, <2>2
      <3>2. s + m <= L /\ src[s + m] = lit[m + 1] /\ src[s + m] \in Plain
        <4>0. s + N <= L + 1
          BY <1>1
        <4>1. m + 1 \in 1 .. N /\ s + (m + 1) - 1 = s + m /\ s + m <= L
          BY ONLY <1>0, <3>0, <4>0
        <4>2. src[s + (m + 1) - 1] = lit[m + 1] /\ lit[m + 1] \in Plain
          BY <1>0, <1>1, <4>1
        <4> QED
          BY <4>1, <4>2
      <3>3. j + m < Len(t) /\ t[j + m].char = lit[m + 1]
            /\ t[(j + m) + 1].place.offset + 1 = Landing(src, (s + m) + 1)
        <4> DEFINE k == j + m
                   c == s + m
        <4>1. k \in 1 .. Len(t) /\ c = t[k].place.offset + 1 /\ c <= Len(src) /\ src[c] \in Plain
          BY <3>1, <3>2 DEF off, L
        <4> HIDE DEF k, c
        <4>2. k < Len(t) /\ t[k].char = src[c] /\ t[k + 1].place.offset + 1 = Landing(src, c + 1)
          BY <4>1, PlainByte
        <4> QED
          BY <4>2, <3>2 DEF k, c
      <3>4. m + 1 < N => off(j + (m + 1)) + 1 = s + (m + 1)
        <4> SUFFICES ASSUME m + 1 < N PROVE off(j + (m + 1)) + 1 = s + (m + 1)
          OBVIOUS
        <4>1. m + 2 \in 1 .. N /\ s + (m + 2) - 1 = (s + m) + 1
              /\ (j + m) + 1 = j + (m + 1) /\ (s + m) + 1 = s + (m + 1)
          BY ONLY <1>0, <3>0, m + 1 < N
        <4>2. src[(s + m) + 1] # "\r"
          <5>1. src[s + (m + 2) - 1] = lit[m + 2] /\ lit[m + 2] \in Plain
            BY <1>0, <1>1, <4>1
          <5> QED
            BY <4>1, <5>1 DEF Plain
        <4>3. Landing(src, (s + m) + 1) = (s + m) + 1
          BY <4>2 DEF Landing, IsPair
        <4> QED
          BY <3>3, <4>1, <4>3 DEF off
      <3>5. \A i \in 1 .. m + 1 : t[j + i - 1].char = lit[i]
        <4> SUFFICES ASSUME NEW i \in 1 .. m + 1 PROVE t[j + i - 1].char = lit[i]
          OBVIOUS
        <4>1. CASE i = m + 1
          <5>1. j + i - 1 = j + m
            BY ONLY <1>0, <3>0, <4>1
          <5> QED
            BY <3>3, <4>1, <5>1
        <4>2. CASE i # m + 1
          <5>1. i \in 1 .. m
            BY <3>0, <4>2
          <5> QED
            BY <3>1, <5>1
        <4> QED
          BY <4>1, <4>2
      <3>6. m + 1 \in 0 .. N /\ j + (m + 1) <= Len(t)
        BY ONLY <1>0, <3>0, <3>3
      <3> QED
        BY <3>4, <3>5, <3>6
    <2>3. N \in T
      <3> HIDE DEF T
      <3>1. \A m \in 0 .. N : m \in T
        BY <1>0, <2>1, <2>2, InductionUpTo
      <3> QED
        BY <1>0, <3>1
    <2> QED
      BY <2>3
  <1>2. ASSUME j + N <= Len(t), \A i \in 1 .. N : t[j + i - 1].char = lit[i]
        PROVE  s + N <= L + 1 /\ \A i \in 1 .. N : src[s + i - 1] = lit[i]
    <2> DEFINE T == {m \in 0 .. N : /\ s + m <= L + 1
                                    /\ m < N => off(j + m) + 1 = s + m
                                    /\ \A i \in 1 .. m : src[s + i - 1] = lit[i]}
    <2>1. 0 \in T
      <3>1. s <= L + 1
        BY <1>0
      <3> QED
        BY <1>0, <3>1
    <2>a. ASSUME NEW m \in 0 .. N - 1
          PROVE  /\ j + m \in 1 .. Len(t) /\ j + m < Len(t) /\ t[j + m].char = lit[m + 1]
                 /\ lit[m + 1] \in Plain
                 /\ off(j + m) + 1 \in 1 .. L /\ src[off(j + m) + 1] = lit[m + 1]
      <3>0. m \in Nat /\ m < N /\ j + N <= Len(t)
        BY <1>0, <1>2
      <3>1. j + m \in 1 .. Len(t) /\ j + m < Len(t) /\ m + 1 \in 1 .. N
            /\ j + (m + 1) - 1 = j + m
        BY ONLY <1>0, <3>0
      <3>2. t[j + m].char = lit[m + 1] /\ lit[m + 1] \in Plain
        BY <1>0, <1>2, <3>1
      <3> DEFINE k == j + m
                 c == off(k) + 1
      <3>3. k \in 1 .. Len(t) /\ k < Len(t) /\ t[k].char \in Plain /\ c = t[k].place.offset + 1
        BY <3>1, <3>2 DEF off
      <3> HIDE DEF k, c
      <3>4. c \in 1 .. Len(src) /\ src[c] = t[k].char
        BY <3>3, PlainCharacter
      <3> QED
        BY <3>1, <3>2, <3>4 DEF k, c, L
    <2>2. ASSUME NEW m \in 0 .. N - 1, m \in T PROVE m + 1 \in T
      <3>0. m \in Nat /\ m < N
        BY <1>0
      <3>1. /\ off(j + m) + 1 = s + m
            /\ \A i \in 1 .. m : src[s + i - 1] = lit[i]
        BY <1>0, <3>0, <2>2
      <3>2. /\ j + m \in 1 .. Len(t) /\ s + m \in 1 .. L /\ src[s + m] = lit[m + 1]
            /\ src[s + m] \in Plain
        BY <2>a, <3>1
      <3>3. t[(j + m) + 1].place.offset + 1 = Landing(src, (s + m) + 1)
        <4> DEFINE k == j + m
                   c == s + m
        <4>1. k \in 1 .. Len(t) /\ c = t[k].place.offset + 1 /\ c <= Len(src) /\ src[c] \in Plain
          BY <3>1, <3>2 DEF off, L
        <4> HIDE DEF k, c
        <4>2. t[k + 1].place.offset + 1 = Landing(src, c + 1)
          BY <4>1, PlainByte
        <4> QED
          BY <4>2 DEF k, c
      <3>4. m + 1 < N => off(j + (m + 1)) + 1 = s + (m + 1)
        <4> SUFFICES ASSUME m + 1 < N PROVE off(j + (m + 1)) + 1 = s + (m + 1)
          OBVIOUS
        <4>1. m + 1 \in 0 .. N - 1 /\ (j + m) + 1 = j + (m + 1) /\ (s + m) + 1 = s + (m + 1)
          BY ONLY <1>0, <3>0, m + 1 < N
        <4>2. src[off(j + (m + 1)) + 1] \in Plain
          BY <2>a, <4>1
        <4>3. src[Landing(src, (s + m) + 1)] \in Plain
          BY <3>3, <4>1, <4>2 DEF off
        <4>4. ~IsPair(src, (s + m) + 1)
          BY <4>3 DEF Landing, IsPair, Plain
        <4> QED
          BY <3>3, <4>1, <4>4 DEF Landing, off
      <3>5. \A i \in 1 .. m + 1 : src[s + i - 1] = lit[i]
        <4> SUFFICES ASSUME NEW i \in 1 .. m + 1 PROVE src[s + i - 1] = lit[i]
          OBVIOUS
        <4>1. CASE i = m + 1
          <5>1. s + i - 1 = s + m
            BY ONLY <1>0, <3>0, <4>1
          <5> QED
            BY <3>2, <4>1, <5>1
        <4>2. CASE i # m + 1
          <5>1. i \in 1 .. m
            BY <3>0, <4>2
          <5> QED
            BY <3>1, <5>1
        <4> QED
          BY <4>1, <4>2
      <3>6. m + 1 \in 0 .. N /\ s + (m + 1) <= L + 1
        BY ONLY <1>0, <3>0, <3>2
      <3> QED
        BY <3>4, <3>5, <3>6
    <2>3. N \in T
      <3> HIDE DEF T
      <3>1. \A m \in 0 .. N : m \in T
        BY <1>0, <2>1, <2>2, InductionUpTo
      <3> QED
        BY <1>0, <3>1
    <2> QED
      BY <2>3
  <1> QED
    BY <1>0, <1>1, <1>2 DEF N, L

-----------------------------------------------------------------------------
(***************************************************************************)
(* The refinement: the iterator is at a character of the text, and what it *)
(* marked is the place of one.                                             *)
(***************************************************************************)
IndexOf(t, start) == CHOOSE i \in DOMAIN t : t[i].place.offset = start - 1

\* The iterator has read the character at k, with the turns of a loop ahead of it.
Reads(src, t, i, turns, k) ==
    /\ k \in 1 .. Len(t) /\ k + turns <= Len(t)
    /\ AtChar(src, i, t[k].place.offset + 1, t[k].place)

\* It has marked the character at m, or none.
Keeps(t, i, m) ==
    IF i.mark = Unmarked THEN m = 0
    ELSE m \in 1 .. Len(t) /\ i.mark = t[m].place.offset + 1 /\ i.mark_pos = t[m].place

CInv ==
    /\ IsSource(source) /\ IsTextOf(source, text) /\ left \in Nat
    /\ \E k \in 1 .. Len(text) : Reads(source, text, it, left, k)
    /\ \E m \in 0 .. Len(text) : Keeps(text, it, m)

\* What the mapping makes of such an iterator.
LEMMA MappingIs ==
    ASSUME NEW src, IsSource(src), NEW t, IsTextOf(src, t), NEW i, NEW turns \in Nat,
           NEW k, Reads(src, t, i, turns, k), NEW m, Keeps(t, i, m)
    PROVE  /\ IndexOf(t, i.start) = k
           /\ (IF i.mark = Unmarked THEN 0 ELSE IndexOf(t, i.mark)) = m
           /\ [char |-> i.current, place |-> i.pos] = t[k]
  <1>1. k \in 1 .. Len(t) /\ i.start = t[k].place.offset + 1 /\ i.pos = t[k].place
    BY DEF Reads, AtChar
  <1>2. IndexOf(t, i.start) = k
    BY <1>1, IndexIs DEF IndexOf
  <1>3. (IF i.mark = Unmarked THEN 0 ELSE IndexOf(t, i.mark)) = m
    <2>1. CASE i.mark = Unmarked
      BY <2>1 DEF Keeps
    <2>2. CASE i.mark # Unmarked
      <3>1. m \in 1 .. Len(t) /\ i.mark = t[m].place.offset + 1
        BY <2>2 DEF Keeps
      <3>2. IndexOf(t, i.mark) = m
        BY <3>1, IndexIs DEF IndexOf
      <3> QED
        BY <2>2, <3>2
    <2> QED
      BY <2>1, <2>2
  <1>4. i.current = t[k].char
    <2> DEFINE s == t[k].place.offset + 1
    <2>1. /\ Len(t) \in Nat /\ t[Len(t)].char = EOF /\ t[Len(t)].place.offset = Len(src)
          /\ \A j \in 1 .. Len(t) - 1 : IsEntry(src, t[j])
      BY TextFacts
    <2>2. Len(src) \in Nat
      BY DEF IsSource
    <2>3. CASE k = Len(t)
      <3>1. s > Len(src)
        BY <2>1, <2>2, <2>3
      <3> QED
        BY <2>1, <2>3, <3>1 DEF Reads, AtChar
    <2>4. CASE k # Len(t)
      <3>1. k \in 1 .. Len(t) - 1
        <4>1. k \in 1 .. Len(t) /\ Len(t) \in Nat
          BY <1>1, <2>1
        <4> QED
          BY ONLY <2>4, <4>1
      <3>2. s \in 1 .. Len(src) /\ t[k].char = CharAt(src, s)
        BY <2>1, <3>1 DEF IsEntry
      <3>3. s <= Len(src)
        BY <2>2, <3>2
      <3> QED
        BY <3>2, <3>3 DEF Reads, AtChar
    <2> QED
      BY <2>3, <2>4
  <1>5. t[k] = [char |-> t[k].char, place |-> t[k].place]
    BY <1>1, TextFacts
  <1> QED
    BY <1>1, <1>2, <1>3, <1>4, <1>5

\* utf8iterator_next goes from character to character, and stays at the end.
LEMMA NextReads ==
    ASSUME NEW src, IsSource(src), NEW t, IsTextOf(src, t), NEW i, NEW turns \in Nat,
           NEW k, Reads(src, t, i, turns, k), NEW m, Keeps(t, i, m)
    PROVE  LET r == utf8iterator_next(src, i)
           IN  /\ Keeps(t, r, m)
               /\ k = Len(t) => Reads(src, t, r, 0, k)
               /\ k < Len(t) => Reads(src, t, r, 0, k + 1)
  <1> DEFINE s == t[k].place.offset + 1
             r == utf8iterator_next(src, i)
             b == Behind(src, s, t[k].place)
  <1>1. k \in 1 .. Len(t) /\ AtChar(src, i, s, t[k].place)
    BY DEF Reads
  <1>2. /\ Len(t) \in Nat /\ t[Len(t)].place.offset = Len(src) /\ Len(src) \in Nat
        /\ t[k].place \in Places /\ s \in 1 .. Len(src) + 1 /\ ~IsPair(src, s)
    <2>1. /\ Len(t) \in Nat /\ t[Len(t)].place.offset = Len(src)
          /\ t[k].place \in Places /\ s \in 1 .. Len(src) + 1 /\ ~IsPair(src, s)
      BY <1>1, TextFacts
    <2>2. Len(src) \in Nat
      BY DEF IsSource
    <2> QED
      BY <2>1, <2>2
  <1>3. t[k].place.offset = s - 1
    <2>1. t[k].place.offset \in Nat
      BY <1>2, PlaceFields
    <2> QED
      BY <2>1
  <1>4. /\ KeepsMark(r, i)
        /\ s > Len(src) => AtChar(src, r, s, t[k].place)
        /\ s <= Len(src) => AtChar(src, r, b.offset + 1, b)
    <2> HIDE DEF s
    <2> QED
      BY <1>1, <1>2, <1>3, NextIs
  <1>5. Keeps(t, r, m)
    BY <1>4 DEF Keeps, KeepsMark
  <1>6. CASE k = Len(t)
    <2>1. s > Len(src)
      BY <1>2, <1>6
    <2>2. k + 0 <= Len(t)
      BY <1>2, <1>6
    <2> QED
      BY <1>1, <1>4, <1>5, <1>6, <2>1, <2>2 DEF Reads
  <1>7. CASE k < Len(t)
    <2>1. k \in 1 .. Len(t) - 1 /\ k + 1 \in 1 .. Len(t) /\ (k + 1) + 0 <= Len(t) /\ k # Len(t)
      BY <1>1, <1>2, <1>7
    <2>2. IsEntry(src, t[k]) /\ t[k + 1].place = b
      BY <2>1, TextFacts DEF BehindEntry
    <2>3. s <= Len(src)
      BY <1>2, <2>2 DEF IsEntry
    <2> QED
      BY <1>4, <1>5, <2>1, <2>2, <2>3 DEF Reads
  <1>8. k = Len(t) \/ k < Len(t)
    <2>1. k \in 1 .. Len(t) /\ Len(t) \in Nat
      BY <1>1, <1>2
    <2> QED
      BY ONLY <2>1
  <1>9. k = Len(t) => ~(k < Len(t))
    BY <1>2
  <1> QED
    BY <1>5, <1>6, <1>7, <1>8, <1>9

LEMMA ValuesNow ==
    ASSUME IsSource(source), IsTextOf(source, text), left \in Nat,
           NEW k, Reads(source, text, it, left, k), NEW m, Keeps(text, it, m)
    PROVE  MappedAt = k + left /\ MappedSaved = m /\ MappedSeen = text[k + left]
  <1>1. /\ IndexOf(text, it.start) = k
        /\ (IF it.mark = Unmarked THEN 0 ELSE IndexOf(text, it.mark)) = m
        /\ [char |-> it.current, place |-> it.pos] = text[k]
    BY MappingIs
  <1>2. MappedAt = k + left
    BY <1>1 DEF MappedAt, IndexAt, IndexOf
  <1>3. MappedSaved = m
    BY <1>1 DEF MappedSaved, IndexAt, IndexOf
  <1>4. k + 0 = k
    BY DEF Reads
  <1> QED
    BY <1>1, <1>2, <1>3, <1>4 DEF MappedSeen

LEMMA ValuesThen ==
    ASSUME IsSource(source'), IsTextOf(source', text'), left' \in Nat,
           NEW k, Reads(source', text', it', left', k), NEW m, Keeps(text', it', m)
    PROVE  MappedAt' = k + left' /\ MappedSaved' = m /\ MappedSeen' = text'[k + left']
  <1>1. /\ IndexOf(text', it'.start) = k
        /\ (IF it'.mark = Unmarked THEN 0 ELSE IndexOf(text', it'.mark)) = m
        /\ [char |-> it'.current, place |-> it'.pos] = text'[k]
    BY MappingIs
  <1>2. MappedAt' = k + left'
    BY <1>1 DEF MappedAt, IndexAt, IndexOf
  <1>3. MappedSaved' = m
    BY <1>1 DEF MappedSaved, IndexAt, IndexOf
  <1>4. k + 0 = k
    BY DEF Reads
  <1> QED
    BY <1>1, <1>2, <1>3, <1>4 DEF MappedSeen

LEMMA TextInitRefines ==
    ASSUME TextInit
    PROVE  CInv /\ Cursor!Init
  <1> DEFINE first == [start |-> 1, width |-> 0, current |-> EOF, pos |-> Origin,
                       mark |-> Unmarked, mark_pos |-> Origin]
  <1>1. IsSource(source)
    <2>1. source \in Seq(STRING) /\ source \in Seq(ASCII \cup NotASCII)
      BY SourcesAssumption, BytesAssumption DEF TextInit, Init
    <2> QED
      BY <2>1 DEF IsSource
  <1>2. text = TextOf(source) /\ it = read_char(source, first) /\ left = 0 /\ matched = FALSE
    BY DEF TextInit, Init, utf8iterator_init, Origin
  <1>3. IsTextOf(source, text)
    BY <1>1, <1>2, TextOfIs
  <1>4. Fields(first) /\ first.start = 1 /\ first.pos = Origin /\ first.mark = Unmarked
        /\ Origin \in Places /\ Origin.offset = 0
    BY DEF Fields, Origin, Places
  <1> HIDE DEF first
  <1>5. Len(source) \in Nat
    BY <1>1 DEF IsSource
  <1>6. AtChar(source, it, Landing(source, 1), Skipped(source, 1, Origin)) /\ KeepsMark(it, first)
    BY <1>1, <1>2, <1>4, <1>5, ReadCharIs
  <1>7. text[1].place = Skipped(source, 1, Origin) /\ Len(text) \in Nat /\ Len(text) >= 1
    BY <1>3 DEF IsTextOf, Linked
  <1>8. Skipped(source, 1, Origin).offset + 1 = Landing(source, 1)
    <2>1. Landing(source, 1) \in 1 .. Len(source) + 1
          /\ Skipped(source, 1, Origin).offset = Landing(source, 1) - 1
      BY <1>1, <1>4, <1>5, SkippedFields DEF IsSource
    <2> QED
      BY <1>5, <2>1
  <1>9. Reads(source, text, it, left, 1)
    BY <1>2, <1>6, <1>7, <1>8 DEF Reads
  <1>10. Keeps(text, it, 0)
    BY <1>4, <1>6 DEF Keeps, KeepsMark
  <1>11. CInv
    BY <1>1, <1>2, <1>3, <1>7, <1>9, <1>10 DEF CInv
  <1>12. MappedAt = 1 /\ MappedSaved = 0 /\ MappedSeen = text[1]
    BY <1>1, <1>2, <1>3, <1>9, <1>10, ValuesNow
  <1> QED
    BY <1>2, <1>11, <1>12 DEF Cursor!Init

\* What a step makes of the iterator gives the values behind it.
LEMMA StepValues ==
    ASSUME CInv, UNCHANGED <<source, text>>, left' \in Nat,
           NEW k, Reads(source, text, it', left', k), NEW m, Keeps(text, it', m)
    PROVE  /\ CInv'
           /\ MappedAt' = k + left' /\ MappedSaved' = m /\ MappedSeen' = text'[k + left']
  <1>1. /\ IsSource(source') /\ IsTextOf(source', text')
        /\ Reads(source', text', it', left', k) /\ Keeps(text', it', m)
    BY DEF CInv
  <1>2. k \in 1 .. Len(text')
    BY <1>1 DEF Reads
  <1>3. m \in 0 .. Len(text')
    <2>1. Len(text) \in Nat
      BY TextFacts DEF CInv
    <2> QED
      BY <1>1, <2>1 DEF Keeps
  <1>4. CInv'
    BY <1>1, <1>2, <1>3 DEF CInv
  <1> QED
    BY <1>1, <1>4, ValuesThen

LEMMA ForwardRefines ==
    ASSUME CInv, Forward, UNCHANGED text
    PROVE  CInv' /\ Cursor!Advance
  <1>1. /\ left = 0 /\ it' = utf8iterator_next(source, it)
        /\ UNCHANGED <<source, left, matched, text>>
    BY DEF Forward
  <1>2. PICK k \in 1 .. Len(text) : Reads(source, text, it, left, k)
    BY DEF CInv
  <1>3. PICK m \in 0 .. Len(text) : Keeps(text, it, m)
    BY DEF CInv
  <1>4. Len(text) \in Nat
    BY TextFacts DEF CInv
  <1> DEFINE n == IF k = Len(text) THEN k ELSE k + 1
  <1>5. Keeps(text, it', m) /\ Reads(source, text, it', 0, n)
    <2>1. k = Len(text) \/ k < Len(text)
      BY <1>4
    <2> QED
      BY <1>1, <1>2, <1>3, <1>4, <2>1, NextReads DEF CInv
  <1>6. MappedAt = k /\ MappedSaved = m /\ k + left = k
    <2>1. k + left = k
      BY <1>1
    <2> QED
      BY <1>2, <1>3, <2>1, ValuesNow DEF CInv
  <1>7. n \in Nat /\ left' \in Nat /\ left' = 0
    BY <1>1, <1>4
  <1> HIDE DEF n
  <1>8. /\ CInv'
        /\ MappedAt' = n + left' /\ MappedSaved' = m /\ MappedSeen' = text'[n + left']
    BY <1>1, <1>5, <1>7, StepValues
  <1>9. n + left' = n
    BY <1>7
  <1> QED
    BY <1>1, <1>6, <1>8, <1>9 DEF Cursor!Advance, Cursor!Move, n

LEMMA MarkRefines ==
    ASSUME CInv, Mark, UNCHANGED text
    PROVE  CInv' /\ Cursor!Save
  <1>1. /\ left = 0 /\ it' = [it EXCEPT !.mark = it.start, !.mark_pos = it.pos]
        /\ UNCHANGED <<source, left, matched, text>>
    BY DEF Mark, utf8iterator_mark
  <1>2. PICK k \in 1 .. Len(text) : Reads(source, text, it, left, k)
    BY DEF CInv
  <1>3. PICK m \in 0 .. Len(text) : Keeps(text, it, m)
    BY DEF CInv
  <1>4. text[k].place.offset + 1 \in 1 .. Len(source) + 1 /\ Len(source) \in Nat
    <2>1. Len(source) \in Nat
      BY DEF CInv, IsSource
    <2> QED
      BY <2>1, TextFacts DEF CInv
  <1>5. AtChar(source, it, text[k].place.offset + 1, text[k].place)
    BY <1>2 DEF Reads
  <1>6. /\ it'.mark = it.start /\ it'.mark_pos = it.pos /\ Fields(it')
        /\ it'.start = it.start /\ it'.pos = it.pos /\ it'.current = it.current
        /\ it'.width = it.width
    BY <1>1, <1>5 DEF AtChar, Fields
  <1>7. AtChar(source, it', text[k].place.offset + 1, text[k].place)
    BY <1>5, <1>6 DEF AtChar
  <1>8. Reads(source, text, it', left', k)
    BY <1>1, <1>2, <1>7 DEF Reads
  <1>9. Keeps(text, it', k)
    <2>1. it'.mark = text[k].place.offset + 1 /\ it'.mark_pos = text[k].place
      BY <1>5, <1>6 DEF AtChar
    <2> QED
      BY <1>2, <1>4, <2>1 DEF Keeps, Unmarked
  <1>10. k + left = k
    BY <1>1
  <1>11. MappedAt = k /\ MappedSeen = text[k]
    BY <1>2, <1>3, <1>10, ValuesNow DEF CInv
  <1>12. /\ CInv'
         /\ MappedAt' = k + left' /\ MappedSaved' = k /\ MappedSeen' = text'[k + left']
    <2>1. left' \in Nat
      BY <1>1
    <2> QED
      BY <1>1, <1>8, <1>9, <2>1, StepValues
  <1> QED
    BY <1>1, <1>10, <1>11, <1>12 DEF Cursor!Save

LEMMA ResetRefines ==
    ASSUME CInv, Reset, UNCHANGED text
    PROVE  CInv' /\ Cursor!Return
  <1> DEFINE back == [it EXCEPT !.start = it.mark, !.pos = it.mark_pos]
  <1>1. /\ left = 0 /\ it.mark # Unmarked /\ it' = read_char(source, back)
        /\ UNCHANGED <<source, left, matched, text>>
    BY DEF Reset, utf8iterator_reset
  <1>2. PICK k \in 1 .. Len(text) : Reads(source, text, it, left, k)
    BY DEF CInv
  <1>3. PICK m \in 0 .. Len(text) : Keeps(text, it, m)
    BY DEF CInv
  <1> DEFINE s == text[m].place.offset + 1
  <1>4. m \in 1 .. Len(text) /\ it.mark = s /\ it.mark_pos = text[m].place
    BY <1>1, <1>3 DEF Keeps
  <1>5. /\ text[m].place \in Places /\ s \in 1 .. Len(source) + 1 /\ ~IsPair(source, s)
        /\ Len(text) \in Nat
    BY <1>4, TextFacts DEF CInv
  <1>6. text[m].place.offset = s - 1
    <2>1. text[m].place.offset \in Nat
      BY <1>5, PlaceFields
    <2> QED
      BY <2>1
  <1>7. Fields(back) /\ back.start = s /\ back.pos = text[m].place /\ KeepsMark(back, it)
    <2>1. Fields(it)
      BY <1>2 DEF Reads, AtChar
    <2> QED
      BY <1>4, <1>5, <2>1 DEF Fields, KeepsMark
  <1> HIDE DEF back, s
  <1>8. /\ AtChar(source, it', Landing(source, s), Skipped(source, s, text[m].place))
        /\ KeepsMark(it', back)
    BY <1>1, <1>5, <1>6, <1>7, ReadCharIs DEF CInv
  <1>9. Landing(source, s) = s /\ Skipped(source, s, text[m].place) = text[m].place
    BY <1>5 DEF Landing, Skipped
  <1>10. Reads(source, text, it', left', m)
    <2>1. m + left' <= Len(text)
      BY <1>1, <1>4, <1>5
    <2> QED
      BY <1>4, <1>8, <1>9, <2>1 DEF Reads, s
  <1>11. Keeps(text, it', m)
    BY <1>3, <1>7, <1>8 DEF Keeps, KeepsMark
  <1>12. MappedSaved = m
    BY <1>2, <1>3, ValuesNow DEF CInv
  <1>13. left' \in Nat /\ m + left' = m /\ m # 0
    BY <1>1, <1>4
  <1>14. /\ CInv'
         /\ MappedAt' = m + left' /\ MappedSaved' = m /\ MappedSeen' = text'[m + left']
    BY <1>1, <1>10, <1>11, <1>13, StepValues
  <1> QED
    BY <1>1, <1>12, <1>13, <1>14 DEF Cursor!Return, Cursor!Move

LEMMA MatchRefines ==
    ASSUME CInv, NEW literal \in Literals, MaybeConsumeMatch(literal), UNCHANGED text
    PROVE  CInv' /\ Cursor!Consume(literal)
  <1>1. /\ left = 0 /\ matched' = Matches(source, it, literal)
        /\ left' = IF Matches(source, it, literal) THEN Len(literal) ELSE 0
        /\ UNCHANGED <<source, it, text>>
    BY DEF MaybeConsumeMatch
  <1>2. PICK k \in 1 .. Len(text) : Reads(source, text, it, left, k)
    BY DEF CInv
  <1>3. PICK m \in 0 .. Len(text) : Keeps(text, it, m)
    BY DEF CInv
  <1>4. literal \in Seq(Plain) /\ Len(literal) \in Nat
    <2>1. literal \in Seq(Plain)
      BY LiteralsAssumption DEF Plain
    <2> QED
      BY <2>1
  <1>5. it.start = text[k].place.offset + 1
    BY <1>2 DEF Reads, AtChar
  <1>6. k + left = k
    BY <1>1
  <1>7. MappedAt = k /\ MappedSaved = m /\ MappedSeen = text[k]
    BY <1>2, <1>3, <1>6, ValuesNow DEF CInv
  <1>8. Matches(source, it, literal) <=>
          (k + Len(literal) <= Len(text)
             /\ \A i \in DOMAIN literal : text[k + i - 1].char = literal[i])
    <2>1. Matches(source, it, literal) <=>
            (it.start + Len(literal) <= Len(source) + 1
               /\ \A i \in DOMAIN literal : source[it.start + i - 1] = literal[i])
      BY DEF Matches
    <2> DEFINE s == it.start
    <2>2. IsSource(source) /\ IsTextOf(source, text) /\ k \in 1 .. Len(text)
          /\ s = text[k].place.offset + 1 /\ literal \in Seq(Plain)
      BY <1>2, <1>4, <1>5 DEF CInv
    <2> HIDE DEF s
    <2>3. (s + Len(literal) <= Len(source) + 1
             /\ \A i \in DOMAIN literal : source[s + i - 1] = literal[i])
          <=> (k + Len(literal) <= Len(text)
                 /\ \A i \in DOMAIN literal : text[k + i - 1].char = literal[i])
      BY ONLY <2>2, LiteralFollows
    <2> QED
      BY <2>1, <2>3 DEF s
  <1>9. Cursor!Follows(literal) <=> Matches(source, it, literal)
    BY <1>7, <1>8 DEF Cursor!Follows
  <1>10. Len(text) \in Nat /\ left' \in Nat /\ k + left' <= Len(text)
    <2>1. Len(text) \in Nat
      BY TextFacts DEF CInv
    <2>2. CASE Matches(source, it, literal)
      BY <1>1, <1>4, <1>8, <2>1, <2>2
    <2>3. CASE ~Matches(source, it, literal)
      BY <1>1, <2>1, <2>3
    <2> QED
      BY <2>2, <2>3
  <1>11. Reads(source, text, it', left', k) /\ Keeps(text, it', m)
    BY <1>1, <1>2, <1>3, <1>10 DEF Reads
  <1>12. /\ CInv'
         /\ MappedAt' = k + left' /\ MappedSaved' = m /\ MappedSeen' = text'[k + left']
    BY <1>1, <1>10, <1>11, StepValues
  <1>13. k + left' = IF Cursor!Follows(literal) THEN k + Len(literal) ELSE k
    BY <1>1, <1>9
  <1>14. matched' = Cursor!Follows(literal)
    <2>1. Cursor!Follows(literal) \in BOOLEAN /\ Matches(source, it, literal) \in BOOLEAN
      BY DEF Cursor!Follows, Matches
    <2> QED
      BY <1>1, <1>9, <2>1
  <1> QED
    BY <1>1, <1>7, <1>12, <1>13, <1>14 DEF Cursor!Consume, Cursor!Move

LEMMA ConsumeOneRefines ==
    ASSUME CInv, ConsumeOne, UNCHANGED text
    PROVE  CInv' /\ UNCHANGED Cursor!vars
  <1>1. /\ left > 0 /\ it' = utf8iterator_next(source, it) /\ left' = left - 1
        /\ UNCHANGED <<source, matched, text>>
    BY DEF ConsumeOne
  <1>2. PICK k \in 1 .. Len(text) : Reads(source, text, it, left, k)
    BY DEF CInv
  <1>3. PICK m \in 0 .. Len(text) : Keeps(text, it, m)
    BY DEF CInv
  <1>4. Len(text) \in Nat /\ left \in Nat /\ k + left <= Len(text)
    BY <1>2, TextFacts DEF CInv, Reads
  <1>5. k < Len(text) /\ left' \in Nat /\ (k + 1) + left' = k + left
    BY <1>1, <1>4
  <1>6. Keeps(text, it', m) /\ Reads(source, text, it', 0, k + 1)
    BY <1>1, <1>2, <1>3, <1>4, <1>5, NextReads DEF CInv
  <1>7. Reads(source, text, it', left', k + 1)
    <2>1. (k + 1) + left' <= Len(text)
      BY <1>4, <1>5
    <2> QED
      BY <1>6, <2>1 DEF Reads
  <1>8. MappedAt = k + left /\ MappedSaved = m /\ MappedSeen = text[k + left]
    BY <1>2, <1>3, <1>4, ValuesNow DEF CInv
  <1>9. /\ CInv'
        /\ MappedAt' = (k + 1) + left' /\ MappedSaved' = m
        /\ MappedSeen' = text'[(k + 1) + left']
    BY <1>1, <1>5, <1>6, <1>7, StepValues
  <1> QED
    BY <1>1, <1>5, <1>8, <1>9 DEF Cursor!vars

LEMMA TextNextRefines ==
    ASSUME CInv, [TextNext]_<<vars, text>>
    PROVE  CInv' /\ [Cursor!Next]_Cursor!vars
  <1>1. CASE Forward /\ UNCHANGED text
    BY <1>1, ForwardRefines DEF Cursor!Next
  <1>2. CASE Mark /\ UNCHANGED text
    BY <1>2, MarkRefines DEF Cursor!Next
  <1>3. CASE Reset /\ UNCHANGED text
    BY <1>3, ResetRefines DEF Cursor!Next
  <1>4. CASE ConsumeOne /\ UNCHANGED text
    BY <1>4, ConsumeOneRefines
  <1>5. ASSUME NEW literal \in Literals, MaybeConsumeMatch(literal), UNCHANGED text
        PROVE  CInv' /\ [Cursor!Next]_Cursor!vars
    BY <1>5, MatchRefines DEF Cursor!Next
  <1>6. CASE UNCHANGED <<vars, text>>
    BY <1>6 DEF vars, CInv, Cursor!vars, MappedAt, MappedSaved, MappedSeen, IndexAt
  <1> QED
    BY <1>1, <1>2, <1>3, <1>4, <1>5, <1>6 DEF TextNext, Next

\* For its callers the iterator is a cursor over the characters of its input, as Unicode and
\* HTML define them: whatever they mark, reset and match, each character is read with the line,
\* column and offset it has, and a literal is found where the text goes on with it (utf8.c).
THEOREM IteratorIsCursor == TextSpec => IsCursor
  <1>1. TextInit => CInv /\ Cursor!Init
    BY TextInitRefines
  <1>2. CInv /\ [TextNext]_<<vars, text>> => CInv' /\ [Cursor!Next]_Cursor!vars
    BY TextNextRefines
  <1> QED
    BY <1>1, <1>2, PTL DEF TextSpec, IsCursor, Cursor!Spec
===============================================================================
