------------------------------- MODULE Utf8Text -------------------------------
(***************************************************************************)
(* The iterator implements the cursor of CharCursor: beside it, `text` is  *)
(* what Unicode and HTML say the characters of the source are.             *)
(***************************************************************************)
EXTENDS Utf8Iterator

CONSTANT ASCII   \* the bytes that are characters of their own

VARIABLE text    \* the characters of the source with their places, and the end

NotASCII == DOMAIN AfterLead \cup Continuation \cup {"FF"}

ASSUME BytesAssumption ==
    /\ ASCII \cap (NotASCII \cup {EOF, Replacement}) = {}
    /\ Sources \subseteq Seq(ASCII \cup NotASCII)

\* Line breaks may be read as another character than their byte.
ASSUME LiteralsAssumption == Literals \subseteq Seq(ASCII \ {"\n", "\r"})

(***************************************************************************)
(* The text of a source: Unicode's definition of well-formed sequences,    *)
(* with the longest start of one that does not go on, or else one byte, as *)
(* a replacement character; CR LF and CR are a line feed.                  *)
(***************************************************************************)
WellFormed ==
    {<<b>> : b \in ASCII}
      \cup ({"C2"} \X Continuation)
      \cup ({"E0"} \X {"A0"} \X Continuation)
      \cup ({"E1"} \X Continuation \X Continuation)
      \cup ({"ED"} \X {"80", "90"} \X Continuation)
      \cup ({"F0"} \X {"90", "A0"} \X Continuation \X Continuation)
      \cup ({"F1"} \X Continuation \X Continuation \X Continuation)
      \cup ({"F4"} \X {"80"} \X Continuation \X Continuation)

\* No character of several bytes has the name of another one.
ASSUME SpellingAssumption ==
    \A w \in WellFormed :
        Len(w) > 1 => Spelled(w, 1, Len(w)) \notin ASCII \cup {EOF, Replacement, "\n", "\t"}

Beginnings == UNION {{SubSeq(w, 1, n) : n \in 1 .. Len(w) - 1} : w \in WellFormed}

\* How long the sequence at `from` is: well-formed, or not.
Extent(src, from) ==
    LET here   == {n \in 1 .. 4 : from + n - 1 <= Len(src)}
        whole  == {n \in here : SubSeq(src, from, from + n - 1) \in WellFormed}
        begun  == {n \in here : SubSeq(src, from, from + n - 1) \in Beginnings}
        Most(s) == CHOOSE n \in s : \A m \in s : m <= n
    IN  IF whole # {} THEN Most(whole) ELSE IF begun # {} THEN Most(begun) ELSE 1

IsPair(src, from) == from < Len(src) /\ src[from] = "\r" /\ src[from + 1] = "\n"

CharAt(src, from) ==
    LET bytes == SubSeq(src, from, from + Extent(src, from) - 1)
    IN  IF bytes = <<"\r">> THEN "\n"
        ELSE IF bytes \in WellFormed THEN Spelled(src, from, from + Len(bytes) - 1)
        ELSE Replacement

PlaceAfter(char, place, offset) ==
    [line   |-> place.line + (IF char = "\n" THEN 1 ELSE 0),
     column |-> CASE char = "\n"  -> 1
                  [] char = "\t" -> place.column + TabStop - (place.column % TabStop)
                  [] OTHER        -> place.column + 1,
     offset |-> offset]

\* One step over the source: r.from is the next byte, r.place its place.
ReadOne(src, r) ==
    LET char == CharAt(src, r.from)
        next == r.from + Extent(src, r.from)
    IN  IF r.from > Len(src) THEN r
        ELSE IF IsPair(src, r.from) THEN [r EXCEPT !.from = @ + 1, !.place.offset = @ + 1]
        ELSE [chars |-> Append(r.chars, [char |-> char, place |-> r.place]),
              from  |-> next,
              place |-> PlaceAfter(char, r.place, next - 1)]

TextOf(src) ==
    LET origin == [line |-> 1, column |-> 1, offset |-> 0]
        read[n \in 0 .. Len(src)] ==
            IF n = 0 THEN [chars |-> <<>>, from |-> 1, place |-> origin]
            ELSE ReadOne(src, read[n - 1])
        all == read[Len(src)]
    IN  Append(all.chars, [char |-> EOF, place |-> all.place])

TextInit == Init /\ text = TextOf(source)
TextNext == Next /\ UNCHANGED text
TextSpec == TextInit /\ [][TextNext]_<<vars, text>>

-----------------------------------------------------------------------------
IndexAt(start) == CHOOSE i \in DOMAIN text : text[i].place.offset = start - 1

\* A match is consumed at once for the caller: while the loop runs, the cursor is behind it.
MappedAt == IndexAt(it.start) + left

MappedSaved == IF it.mark = Unmarked THEN 0 ELSE IndexAt(it.mark)

MappedSeen ==
    IF left > 0 THEN text[MappedAt] ELSE [char |-> it.current, place |-> it.pos]

Cursor == INSTANCE CharCursor WITH
            at    <- MappedAt,
            saved <- MappedSaved,
            seen  <- MappedSeen,
            found <- matched

\* For its callers the iterator is a cursor over the characters of the input: whatever they
\* mark, reset and match, each character has one line, column and offset.
IsCursor == Cursor!Spec
===============================================================================
