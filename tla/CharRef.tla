-------------------------------- MODULE CharRef --------------------------------
(***************************************************************************)
(* Character references, src/lib/char_ref.c: what "&" and the text behind  *)
(* it stand for, and where reading goes on.                                *)
(*                                                                         *)
(* The widths of the arithmetic are parameters, because TLC's integers end *)
(* below 2^32; the named references are a table, as in the code, where     *)
(* Ragel has turned it into a scanner.                                     *)
(***************************************************************************)
EXTENDS Utf8

CONSTANTS Entities,      \* the named references: each name's one or two characters
          WordSize,      \* one more than the largest uint32_t
          MaxCodePoint,  \* 0x10FFFF
          Surrogates,    \* 0xD800 .. 0xDFFF
          Ascii,         \* the characters of the code points that matter here
          Alnum          \* the letters and digits of the names and of the text

\* A named reference stands for one character or two.
ASSUME EntitiesAssumption ==
    \A name \in DOMAIN Entities :
        /\ name \in Seq(STRING) /\ name # <<>>
        /\ Entities[name] \in Seq(STRING) /\ Len(Entities[name]) \in 1 .. 2

Digits    == {"0", "1", "2", "3", "4", "5", "6", "7", "8", "9"}
HexDigits == {"a", "b", "c", "d", "e", "f", "A", "B", "C", "D", "E", "F"}

DigitValue ==
    [d \in Digits \cup HexDigits |->
        CASE d = "0" -> 0 [] d = "1" -> 1 [] d = "2" -> 2 [] d = "3" -> 3 [] d = "4" -> 4
          [] d = "5" -> 5 [] d = "6" -> 6 [] d = "7" -> 7 [] d = "8" -> 8 [] d = "9" -> 9
          [] d \in {"a", "A"} -> 10 [] d \in {"b", "B"} -> 11 [] d \in {"c", "C"} -> 12
          [] d \in {"d", "D"} -> 13 [] d \in {"e", "E"} -> 14 [] d \in {"f", "F"} -> 15]

IsDigit(c, hex) == c \in Digits \/ (hex /\ c \in HexDigits)

\* A code point as a character; those that have no name here are one.
Character(codepoint) == IF codepoint \in DOMAIN Ascii THEN Ascii[codepoint] ELSE "other"

\* kCharReplacements, with one character for those of the windows-1252 block.
NoReplacement == "none"

maybe_replace_codepoint(codepoint) ==
    CASE codepoint = 0           -> Replacement
      [] codepoint = 13          -> "\r"
      [] codepoint \in 128 .. 159 -> "windows-1252"
      [] OTHER                   -> NoReplacement

-----------------------------------------------------------------------------
(***************************************************************************)
(* What a call gives back: the iterator, and the characters of the         *)
(* reference, none if there is no reference.                               *)
(***************************************************************************)
Found(it, chars) == [it |-> it, chars |-> chars]

NoReference(source, it) == Found(utf8iterator_reset(source, it), <<>>)

Skip(source, it, n) ==
    LET after[i \in 0 .. n] == IF i = 0 THEN it ELSE utf8iterator_next(source, after[i - 1])
    IN  after[n]

\* The digits from the iterator on, one after the other in a word.
ReadNumber(source, it, hex) ==
    LET base == IF hex THEN 16 ELSE 10
        read[n \in 0 .. Len(source)] ==
            IF n = 0 THEN [it |-> it, codepoint |-> 0]
            ELSE LET r == read[n - 1]
                 IN  IF ~IsDigit(r.it.current, hex) THEN r
                     ELSE [it        |-> utf8iterator_next(source, r.it),
                           codepoint |-> (r.codepoint * base + DigitValue[r.it.current]) % WordSize]
    IN  read[Len(source)]

NumericCharacter(codepoint) ==
    IF maybe_replace_codepoint(codepoint) # NoReplacement THEN maybe_replace_codepoint(codepoint)
    ELSE IF codepoint \in Surrogates \/ codepoint > MaxCodePoint THEN Replacement
    ELSE Character(codepoint)

\* The iterator is behind the digits.
NumberEnds(source, it, codepoint) ==
    Found(IF it.current = ";" THEN utf8iterator_next(source, it) ELSE it,
          <<NumericCharacter(codepoint)>>)

\* The iterator is where the first digit should be.
Number(source, it, hex) ==
    LET number == ReadNumber(source, it, hex)
    IN  IF ~IsDigit(it.current, hex) THEN NoReference(source, it)
        ELSE NumberEnds(source, number.it, number.codepoint)

\* The iterator is behind the number sign.
NumberIn(source, it) ==
    IF it.current \in {"x", "X"} THEN Number(source, utf8iterator_next(source, it), TRUE)
    ELSE Number(source, it, FALSE)

\* The iterator is at the number sign.
consume_numeric_ref(source, it) == NumberIn(source, utf8iterator_next(source, it))

\* The names in the table that the text goes on with; the scanner takes the longest.
NamesAt(source, it) == {name \in DOMAIN Entities : Matches(source, it, name)}

Longest(names) == CHOOSE name \in names : \A other \in names : Len(other) <= Len(name)

\* The byte behind the name, which in a string of Lua's is a NUL at the end of the input.
ByteAfter(source, at) == IF at > Len(source) THEN "NUL" ELSE source[at]

consume_named_ref(source, it, is_in_attribute) ==
    LET names == NamesAt(source, it)
        name  == Longest(names)
        next  == ByteAfter(source, it.start + Len(name))
    IN  IF names = {} THEN NoReference(source, it)
        ELSE IF name[Len(name)] # ";" /\ is_in_attribute /\ (next = "=" \/ next \in Alnum)
             THEN NoReference(source, it)
             ELSE Found(Skip(source, it, Len(name)), Entities[name])

\* The iterator is behind the ampersand.
Reference(source, it, additional_allowed_char, is_in_attribute) ==
    IF it.current \in {additional_allowed_char, "\t", "\n", "\f", " ", "<", "&", EOF}
    THEN NoReference(source, it)
    ELSE IF it.current = "#" THEN consume_numeric_ref(source, it)
    ELSE consume_named_ref(source, it, is_in_attribute)

\* The iterator is at the ampersand.
gumbo_consume_char_ref(source, it, additional_allowed_char, is_in_attribute) ==
    Reference(source, utf8iterator_next(source, utf8iterator_mark(it)), additional_allowed_char,
              is_in_attribute)
===============================================================================
