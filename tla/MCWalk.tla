------------------------------- MODULE MCWalk -------------------------------
(***************************************************************************)
(* Instances of the walks for TLC: every tree of up to TreeSize nodes, the *)
(* topmost a document.  (A text below others would differ from an element  *)
(* that is allowed in nothing but its attributes.)                         *)
(***************************************************************************)
EXTENDS DomWalk

CONSTANT TreeSize

\* The tree in which every node but the first is the child of an earlier one, the children in order.
TreeOf(parent, texts) ==
    [n \in 1..(Len(parent) + 1) |->
        [type   |-> IF n = 1 THEN "document" ELSE IF n \in texts THEN "text" ELSE "element",
         own    |-> NULL,
         parent |-> IF n = 1 THEN NULL ELSE parent[n - 1],
         kids   |-> SelectSeq([i \in 1..Len(parent) |-> i + 1], LAMBDA m : parent[m - 1] = n)]]

ParentLists(size) == {p \in [1..(size - 1) -> 1..(size - 1)] : \A i \in DOMAIN p : p[i] <= i}

\* Every tree, of elements or with its last node a text.
AllTrees ==
    UNION {{TreeOf(p, texts) : p \in ParentLists(size), texts \in {{}, {size}}} : size \in 2..TreeSize}

\* "X" is the name with a capital.
Lower == [name \in Names |-> IF name = "X" THEN "x" ELSE name]

\* None; two to remove around one to keep (with a capital, as foreign elements may have it from the
\* parser); one name twice, side by side and apart, which they may have too.
SomeLists ==
    {<<>>,
     <<Attribute(1, "x", FALSE), Attribute(2, "y", TRUE), Attribute(3, "X", FALSE)>>,
     <<Attribute(1, "x", TRUE), Attribute(2, "x", FALSE)>>,
     <<Attribute(1, "x", FALSE), Attribute(2, "y", TRUE), Attribute(3, "x", FALSE)>>}
=============================================================================
