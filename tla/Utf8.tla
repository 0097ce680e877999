--------------------------------- MODULE Utf8 ---------------------------------
(***************************************************************************)
(* The iterator over the input of the tokenizer, src/lib/utf8.c: it        *)
(* decodes UTF-8, turns carriage returns into line feeds, keeps the source *)
(* position, and can go back to a place it marked.                         *)
(*                                                                         *)
(* The source is a sequence of bytes.  A byte is a string: the name of an  *)
(* ASCII character, or one of "80" ... "FF", which stands for all bytes    *)
(* that the decoder's first table puts in its class.  A character is its   *)
(* bytes written one after the other.  A pointer into the source is an     *)
(* index from 1, and one more than its length at the end.                  *)
(***************************************************************************)
EXTENDS Integers, Sequences

CONSTANT TabStop   \* options.tab_stop

ASSUME TabStopAssumption == TabStop \in Nat \ {0}

EOF         == "EOF"
Replacement == "FFFD"

-----------------------------------------------------------------------------
(***************************************************************************)
(* The decoder's transition table: what state a first byte leads to, which *)
(* bytes a state goes on with, and where to.                               *)
(***************************************************************************)
Continuation == {"80", "90", "A0"}

AfterLead == [C2 |-> "one", E0 |-> "after E0", E1 |-> "two", ED |-> "after ED",
              F0 |-> "after F0", F1 |-> "three", F4 |-> "after F4"]

GoesOnWith(state) ==
    CASE state = "after E0" -> {"A0"}
      [] state = "after ED" -> {"80", "90"}
      [] state = "after F0" -> {"90", "A0"}
      [] state = "after F4" -> {"80"}
      [] state \in {"one", "two", "three"} -> Continuation
      [] OTHER -> {}

GoesOnTo(state) ==
    CASE state = "one" -> "accept"
      [] state \in {"two", "after E0", "after ED"} -> "one"
      [] OTHER -> "two"

decode(state, byte) ==
    IF state = "accept" THEN
        IF byte \in DOMAIN AfterLead THEN AfterLead[byte]
        ELSE IF byte \in Continuation \cup {"FF"} THEN "reject" ELSE "accept"
    ELSE IF byte \in GoesOnWith(state) THEN GoesOnTo(state) ELSE "reject"

\* The decoder's state after each byte from `from` on.
Decoding(source, from) ==
    LET state[c \in from - 1 .. Len(source)] ==
            IF c = from - 1 THEN "accept" ELSE decode(state[c - 1], source[c])
    IN  state

\* Where the decoder first accepts or rejects; it has not by the end of truncated input.
Verdicts(source, from) ==
    LET state == Decoding(source, from)
    IN  {c \in from .. Len(source) : state[c] \in {"accept", "reject"}}

First(positions) == CHOOSE c \in positions : \A d \in positions : c <= d

Spelled(source, from, to) ==
    LET text[c \in from .. to] == IF c = from THEN source[c] ELSE text[c - 1] \o source[c]
    IN  text[to]

-----------------------------------------------------------------------------
(***************************************************************************)
(* Utf8Iterator.  `mark` is 0 until something was marked: utf8iterator_init*)
(* leaves _mark as it is.                                                  *)
(***************************************************************************)
Unmarked == 0

Truncated(source, it) ==
    [it EXCEPT !.current = Replacement, !.width = Len(source) + 1 - it.start]

\* As Rejected, but the byte that does not go on the sequence is skipped with it.
Rejected_SkipsNext(it, c) ==
    [it EXCEPT !.current = Replacement, !.width = c - it.start + 1]

\* The byte that does not go on the sequence is kept for the next character.
Rejected(it, c) ==
    [it EXCEPT !.current = Replacement, !.width = IF c = it.start THEN 1 ELSE c - it.start]

CarriageReturn(source, it) ==
    IF it.start < Len(source) /\ source[it.start + 1] = "\n"
    THEN [it EXCEPT !.start = @ + 1, !.pos.offset = @ + 1, !.current = "\n", !.width = 1]
    ELSE [it EXCEPT !.current = "\n", !.width = 1]

Accepted(source, it, c) ==
    IF source[it.start] = "\r" THEN CarriageReturn(source, it)
    ELSE [it EXCEPT !.current = Spelled(source, it.start, c), !.width = c - it.start + 1]

Decided(source, it, c) ==
    IF Decoding(source, it.start)[c] = "accept" THEN Accepted(source, it, c) ELSE Rejected(it, c)

\* A character, at a place in the source.
Decoded(source, it, verdicts) ==
    IF verdicts = {} THEN Truncated(source, it) ELSE Decided(source, it, First(verdicts))

read_char(source, it) ==
    IF it.start > Len(source) THEN [it EXCEPT !.current = EOF, !.width = 0]
    ELSE Decoded(source, it, Verdicts(source, it.start))

update_position(it) ==
    LET moved == [it EXCEPT !.pos.offset = @ + it.width]
    IN  CASE it.current = "\n"  -> [moved EXCEPT !.pos.line = @ + 1, !.pos.column = 1]
          [] it.current = "\t" -> [moved EXCEPT !.pos.column = ((@ \div TabStop) + 1) * TabStop]
          [] it.current = EOF   -> moved
          [] OTHER              -> [moved EXCEPT !.pos.column = @ + 1]

utf8iterator_init(source) ==
    LET origin == [line |-> 1, column |-> 1, offset |-> 0]
    IN  read_char(source, [start |-> 1, width |-> 0, current |-> EOF, pos |-> origin,
                           mark |-> Unmarked, mark_pos |-> origin])

utf8iterator_next(source, it) ==
    read_char(source, [update_position(it) EXCEPT !.start = @ + it.width])

\* As utf8iterator_mark, but the position is not kept with the place.
utf8iterator_mark_PlaceOnly(it) == [it EXCEPT !.mark = it.start]

utf8iterator_mark(it) == [it EXCEPT !.mark = it.start, !.mark_pos = it.pos]

utf8iterator_reset(source, it) ==
    read_char(source, [it EXCEPT !.start = it.mark, !.pos = it.mark_pos])

\* The test of utf8iterator_maybe_consume_match; upper and lower case are one byte here.
Matches(source, it, prefix) ==
    /\ it.start + Len(prefix) <= Len(source) + 1
    /\ \A i \in DOMAIN prefix : source[it.start + i - 1] = prefix[i]
===============================================================================
