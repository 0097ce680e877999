----------------------------- MODULE Utf8Iterator -----------------------------
(***************************************************************************)
(* The iterator of src/lib/utf8.c at work: its callers move it on, mark a  *)
(* place, go back to it and test for literals, in any order.               *)
(***************************************************************************)
EXTENDS Utf8

CONSTANTS Sources,   \* the inputs
          Literals   \* what callers test for: ASCII without line breaks or tabs

ASSUME SourcesAssumption == Sources \subseteq Seq(STRING)

VARIABLES source,    \* the input
          it,        \* the iterator
          left,      \* turns left of the loop in utf8iterator_maybe_consume_match
          matched    \* what its last call returned, or will return

vars == <<source, it, left, matched>>

Init ==
    /\ source \in Sources
    /\ it = utf8iterator_init(source)
    /\ left = 0
    /\ matched = FALSE

\* The calls; none is made while the loop of another one runs.
Forward ==
    /\ left = 0
    /\ it' = utf8iterator_next(source, it)
    /\ UNCHANGED <<source, left, matched>>

Mark ==
    /\ left = 0
    /\ it' = utf8iterator_mark(it)
    /\ UNCHANGED <<source, left, matched>>

\* Callers go back only to what they marked.
Reset ==
    /\ left = 0
    /\ it.mark # Unmarked
    /\ it' = utf8iterator_reset(source, it)
    /\ UNCHANGED <<source, left, matched>>

MaybeConsumeMatch(literal) ==
    /\ left = 0
    /\ matched' = Matches(source, it, literal)
    /\ left' = IF Matches(source, it, literal) THEN Len(literal) ELSE 0
    /\ UNCHANGED <<source, it>>

\* One turn of its loop.
ConsumeOne ==
    /\ left > 0
    /\ it' = utf8iterator_next(source, it)
    /\ left' = left - 1
    /\ UNCHANGED <<source, matched>>

Next ==
    \/ Forward \/ Mark \/ Reset \/ ConsumeOne
    \/ \E literal \in Literals : MaybeConsumeMatch(literal)

Spec == Init /\ [][Next]_vars

-----------------------------------------------------------------------------
(***************************************************************************)
(* Properties.                                                             *)
(***************************************************************************)

\* The iterator and the mark stay inside the buffer, the character under the cursor ends
\* inside it, only the end of the input has no width, and the offset that errors and tokens
\* report is where the iterator is (utf8.c: "Preserve the true offset").
InBounds ==
    /\ it.start \in 1 .. Len(source) + 1
    /\ it.width \in Nat
    /\ it.start + it.width <= Len(source) + 1
    /\ it.width = 0 <=> it.start = Len(source) + 1
    /\ it.pos.offset = it.start - 1
    /\ it.mark \in 0 .. Len(source) + 1
    /\ it.mark # Unmarked => it.mark_pos.offset = it.mark - 1
===============================================================================
