------------------------------- MODULE LuaTree -------------------------------
(***************************************************************************)
(* What gumbo/parse.c hands to Lua: push_document copies the parsed tree   *)
(* to tables, with a table for the doctype in front and one for the        *)
(* content of each template.  With it the tree that lib/parser.c builds    *)
(* becomes the DOM that LuaDom's methods work on.                          *)
(*                                                                         *)
(* The copy of the C node n is the table n; behind these come the table of *)
(* the doctype and the places for the contents, one for each node, of      *)
(* which only those of templates are used.  A comment is a text there, as  *)
(* in LuaDom.                                                              *)
(***************************************************************************)
EXTENDS TreeProperties

Templates == {n \in DOMAIN p.nodes : p.nodes[n].type = "template"}

DoctypeTable == Len(p.nodes) + 1
ContentOf(n) == DoctypeTable + n

\* As FirstIndex, but a doctype leaves no room for itself.
FirstIndex_One == 1

\* Where push_document puts the first child: a doctype comes before it.
FirstIndex == IF p.has_doctype THEN 2 ELSE 1

\* The array that set_children fills from `start` on.
set_children(kids, start) == [i \in start..(Len(kids) + start - 1) |-> kids[i - start + 1]]

Table(type) == [type |-> type, own |-> NULL, parent |-> NULL, kids |-> <<>>]

push_document ==
    LET kids == set_children(p.nodes[Document].kids, FirstIndex)
        AsFirst == [i \in {1} \cup DOMAIN kids |-> IF i = 1 THEN DoctypeTable ELSE kids[i]]
    IN  [Table("document") EXCEPT !.kids = IF p.has_doctype THEN AsFirst ELSE kids]

\* push_node makes the table, and set_children its parentNode.
push_node(n) ==
    LET up == p.nodes[n].parent
    IN  [Table(IF p.nodes[n].type \in ElementTypes THEN "element" ELSE "text") EXCEPT
            !.parent = IF up \in Templates THEN ContentOf(up) ELSE up,
            !.kids   = IF n \in Templates THEN <<>> ELSE set_children(p.nodes[n].kids, 1)]

\* The fragment in the field `content` of the template n.
push_content(n) == [Table("fragment") EXCEPT !.kids = set_children(p.nodes[n].kids, 1)]

\* What push_node gets: not a node that was freed, nor the context of a fragment.
Copied == Live \ {Document, p.ctx}

Pushed ==
    [t \in 1..(DoctypeTable + Len(p.nodes)) |->
        IF t = Document THEN push_document
        ELSE IF t \in Copied THEN push_node(t)
        ELSE IF t = DoctypeTable /\ p.has_doctype THEN Table("doctype")
        ELSE IF t - DoctypeTable \in Templates \cap Copied THEN push_content(t - DoctypeTable)
        ELSE Table("none")]

Dom == INSTANCE LuaDom WITH nodes <- Pushed, outcome <- "returns", Parsed <- {}, MaxDomNodes <- 0

-----------------------------------------------------------------------------
(***************************************************************************)
(* The DOM that a finished parse hands over is one that its methods keep   *)
(* in order (LuaDom): every list is an array from 1 on, and each node is   *)
(* in one list, that of its parentNode.  The doctype comes first, and the  *)
(* lists have the children of the parsed tree, those of a template in the  *)
(* fragment that is its content.                                           *)
(***************************************************************************)
DomMirrorsTree ==
    status = "finished" =>
        LET front == IF p.has_doctype THEN <<DoctypeTable>> ELSE <<>>
        IN  /\ \A t \in DOMAIN Pushed :
                  DOMAIN Pushed[t].kids = 1..Cardinality(DOMAIN Pushed[t].kids)
            /\ Dom!ListedByParent /\ Dom!ParentListsChild
            /\ Pushed[Document].kids = front \o p.nodes[Document].kids
            /\ \A n \in Copied :
                  Pushed[IF n \in Templates THEN ContentOf(n) ELSE n].kids = p.nodes[n].kids
=============================================================================
