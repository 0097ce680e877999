-------------------------------- MODULE MCUtf8 --------------------------------
(***************************************************************************)
(* Instances of the iterator for TLC: every source of up to three bytes of *)
(* all classes, and longer ones of those that a lead of four bytes or the  *)
(* line breaks need.                                                       *)
(***************************************************************************)
EXTENDS Utf8Text, SequencesExt

Bytes == {"a", "\n", "\r", "\t", "80", "90", "A0", "C2", "E0", "E1", "ED", "F0", "F1", "F4", "FF"}

Characters == {"a", "-", "\n", "\r", "\t"}

ShortSources == BoundedSeq(Bytes, 3)

FourBytes == {"F0", "F1", "F4"} \X {"80", "90", "A0"} \X {"80", "A0", "C2"} \X {"80", "a", "F1"}

LineBreaks == [1..4 -> {"a", "\r", "\n", "\t"}]

Dashes == BoundedSeq({"-", "a", "C2"}, 4)

AllSources == ShortSources \cup FourBytes \cup LineBreaks \cup Dashes

DashDash == {<<"-", "-">>, <<"-", "a", "-">>}
===============================================================================
