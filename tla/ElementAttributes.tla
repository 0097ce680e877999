------------------------- MODULE ElementAttributes -------------------------
(***************************************************************************)
(* The attributes of a Lua element: a table with the attributes in order   *)
(* and, under each name, the attribute that lookups by name find.  An      *)
(* attribute is a table of its own, so that both parts name the same one:  *)
(* `id` stands for its identity, 0 for none.  Its value counts only by     *)
(* whether the sanitizer allows it.  An element has such a table from its  *)
(* first attribute on; till then it shares an empty one with all others.   *)
(***************************************************************************)
EXTENDS Naturals, Sequences, SequencesExt

CONSTANTS Names, \* the attribute names
          lower  \* each name in lower case

ASSUME LowerAssumption == lower \in [Names -> Names]

Attribute(id, name, isAllowed) == [id |-> id, name |-> name, isAllowed |-> isAllowed]

Attributes == [id : Nat \ {0}, name : Names, isAllowed : BOOLEAN]

NoAttributes == [list |-> <<>>, byName |-> [name \in Names |-> 0], hasTable |-> FALSE]

\* The attributes that the parser found: of several with one name the last gets the name.
set_attributes(list) ==
    LET Indexed(byName, a) == [byName EXCEPT ![a.name] = a.id]
    IN  [list     |-> list,
         byName   |-> FoldLeft(Indexed, NoAttributes.byName, list),
         hasTable |-> list # <<>>]

\* The attribute of that identity, as a sequence of one or none.
WithId(list, id) == SelectSeq(list, LAMBDA a : a.id = id)

(***************************************************************************)
(* What attributes[name] is.  Where there is nothing under the name, the   *)
(* list itself answers "length", with the number of attributes.            *)
(***************************************************************************)
LookedUp(as, name) ==
    IF as.byName[name] # 0 THEN "attribute" ELSE IF name = "length" THEN "number" ELSE "nil"

\* The name that getAttribute looks for in an element of the namespace.
Key(ns, name) == IF ns = "html" THEN lower[name] ELSE name

\* How the call ends, and the identity of the attribute whose value it returns; a number has no value.
getAttribute(as, ns, name) ==
    LET found == LookedUp(as, Key(ns, name))
    IN  [outcome |-> IF found = "number" THEN "raises" ELSE "returns",
         id      |-> IF found = "attribute" THEN as.byName[Key(ns, name)] ELSE 0]

AddAttribute(as, a) ==
    [list |-> Append(as.list, a), byName |-> [as.byName EXCEPT ![a.name] = a.id], hasTable |-> TRUE]

(***************************************************************************)
(* A value for the name: for a new attribute, or for the one that has it.  *)
(* A number cannot be given one: that is an error, and nothing changes.    *)
(***************************************************************************)
setAttribute(as, name, isAllowed, newId) ==
    LET Changed(a) == IF a.id = as.byName[name] THEN [a EXCEPT !.isAllowed = isAllowed] ELSE a
    IN  IF ~as.hasTable \/ LookedUp(as, name) = "nil"
        THEN AddAttribute(as, Attribute(newId, name, isAllowed))
        ELSE IF LookedUp(as, name) = "attribute"
        THEN [as EXCEPT !.list = [i \in DOMAIN @ |-> Changed(@[i])]]
        ELSE as

\* As removeAttribute, but the name goes on finding the attribute.
removeAttribute_Named(as, name) == [as EXCEPT !.list = SelectSeq(@, LAMBDA a : a.name # name)]

\* The loop goes on behind the place where it took an attribute out.
removeAttribute(as, name) ==
    LET Round(l, i) == IF i \in DOMAIN l /\ l[i].name = name THEN RemoveAt(l, i) ELSE l
        list        == FoldLeftDomain(Round, as.list, as.list)
    IN  [as EXCEPT !.list = list,
                   !.byName = IF list = as.list THEN @ ELSE [@ EXCEPT ![name] = 0]]

-----------------------------------------------------------------------------
NamesDiffer(as) == \A i, j \in DOMAIN as.list : as.list[i].name = as.list[j].name => i = j

\* The names find what is in the list: all of it, and nothing else.
Agrees(as) ==
    /\ \A a \in ToSet(as.list) : as.byName[a.name] = a.id
    /\ \A name \in Names : as.byName[name] # 0 => \E a \in ToSet(as.list) : a.name = name
=============================================================================
