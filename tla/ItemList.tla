------------------------------- MODULE ItemList -------------------------------
(***************************************************************************)
(* What the growing arrays of src/lib promise their callers: a list, whose *)
(* operations do to it what their names say, without a limit and without a *)
(* trace of the memory it is kept in.                                      *)
(***************************************************************************)
EXTENDS Integers, SequencesExt

CONSTANTS Elements,    \* the pointers a vector may hold
          Strings,     \* the strings of bytes that may be appended to a buffer
          Codepoints   \* the characters that may be

VARIABLES items,    \* the list
          result,   \* the tuple of what the last call returned
          alive     \* whether there is memory to be freed by its owner

listVars == <<items, result, alive>>

None == <<>>

Init == items = <<>> /\ result = None /\ alive = FALSE

Create == ~alive /\ items' = <<>> /\ result' = None /\ alive' = TRUE

Changed(list, value) == alive /\ items' = list /\ result' = value /\ UNCHANGED alive

Add(x) == Changed(Append(items, x), None)

Pop == IF items = <<>> THEN Changed(items, None) ELSE Changed(Front(items), <<Last(items)>>)

\* Positions are counted from 0.
Positions(x) == {i - 1 : i \in {j \in DOMAIN items : items[j] = x}}

IndexOf(x) ==
    \/ Positions(x) = {} /\ Changed(items, <<-1>>)
    \/ \E i \in Positions(x) : (\A j \in Positions(x) : i <= j) /\ Changed(items, <<i>>)

Insert(x, i) == Changed(InsertAt(items, i + 1, x), None)

TakeOut(i) == Changed(RemoveAt(items, i + 1), <<items[i + 1]>>)

\* The first x, if there is one.
Forget(x) == Changed(RemoveFirst(items, x), None)

AppendString(s) == Changed(items \o s, None)

(***************************************************************************)
(* The bytes s are the character c in UTF-8: the first byte says how many  *)
(* follow, each of these holds six bits, and fewer would not do.           *)
(***************************************************************************)
LeadOf  == <<0, 192, 224, 240>>
LeastOf == <<0, 128, 2048, 65536>>

Encodes(s, c) ==
    /\ Len(s) \in 1..4 /\ c >= LeastOf[Len(s)]
    /\ \A i \in 2..Len(s) : s[i] \in 128..191
    /\ LET Digit(i) == IF i = 1 THEN s[1] - LeadOf[Len(s)] ELSE s[i] - 128
           Value(sum, i) == sum * 64 + Digit(i)
       IN  FoldLeft(Value, 0, [i \in 1..Len(s) |-> i]) = c

AppendCodepoint(c) ==
    LET appended == SubSeq(items', Len(items) + 1, Len(items'))
    IN  Encodes(appended, c) /\ Changed(items \o appended, None)

Clear == Changed(<<>>, None)

\* The list is handed out; it stays as it is.
Copy == Changed(items, items)

\* More room, but nothing to see of it.
MakeRoom == Changed(items, None)

Release == alive /\ items' = <<>> /\ result' = None /\ alive' = FALSE

Next ==
    \/ Create \/ Pop \/ Clear \/ Copy \/ MakeRoom \/ Release
    \/ \E x \in Elements : Add(x) \/ IndexOf(x) \/ Forget(x)
    \/ \E x \in Elements : \E i \in 0..Len(items) : Insert(x, i)
    \/ \E i \in 0..(Len(items) - 1) : TakeOut(i)
    \/ \E s \in Strings : AppendString(s)
    \/ \E c \in Codepoints : AppendCodepoint(c)

Spec == Init /\ [][Next]_listVars
===============================================================================
