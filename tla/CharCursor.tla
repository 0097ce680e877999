------------------------------ MODULE CharCursor ------------------------------
(***************************************************************************)
(* What the iterator over the input promises its callers: a text whose     *)
(* characters they read one by one, each with its place in the source, and *)
(* a bookmark they can return to.  Nothing of bytes, widths and encoding   *)
(* is left.                                                                *)
(***************************************************************************)
EXTENDS Integers, Sequences

CONSTANT Literals   \* what the readers test for

VARIABLES text,    \* the characters with their places; the last one is the end of the text
          at,      \* the index of the character that is read
          saved,   \* the bookmark, 0 if there is none
          seen,    \* the character under the cursor, and its place
          found    \* what the last test for a literal said

vars == <<text, at, saved, seen, found>>

Move(to) == at' = to /\ seen' = text[to]

\* The text goes on with the characters of the literal.
Follows(literal) ==
    /\ at + Len(literal) <= Len(text)
    /\ \A i \in DOMAIN literal : text[at + i - 1].char = literal[i]

Init ==
    /\ at = 1
    /\ seen = text[1]
    /\ saved = 0
    /\ found = FALSE

Advance == Move(IF at = Len(text) THEN at ELSE at + 1) /\ UNCHANGED <<text, saved, found>>

Save == saved' = at /\ UNCHANGED <<text, at, seen, found>>

Return == saved # 0 /\ Move(saved) /\ UNCHANGED <<text, saved, found>>

Consume(literal) ==
    /\ found' = Follows(literal)
    /\ Move(IF Follows(literal) THEN at + Len(literal) ELSE at)
    /\ UNCHANGED <<text, saved>>

Next == Advance \/ Save \/ Return \/ \E literal \in Literals : Consume(literal)

Spec == Init /\ [][Next]_vars
===============================================================================
