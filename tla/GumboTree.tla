---------------------------- MODULE GumboTree ----------------------------
(***************************************************************************)
(* The node table that lib/parser.c builds and the five operations that    *)
(* change its links: append_node, insert_node, remove_from_parent, the     *)
(* children swap of step 16 of the adoption agency algorithm, and          *)
(* tree_traverse, which frees a subtree by following index_within_parent.  *)
(*                                                                         *)
(* A table is a sequence of nodes, in allocation order; a pointer is a     *)
(* position in it and NULL is 0.  Everything else a GumboNode holds        *)
(* (source positions, parse flags, original text) is left out.             *)
(***************************************************************************)
EXTENDS Integers, Sequences, FiniteSets, SequencesExt

NULL == 0

\* index_within_parent of a node that has no parent: (unsigned int) -1.
Detached == -1

Indices == Nat \cup {Detached}

(***************************************************************************)
(* A node as create_node() leaves it.  `data` is the set of attributes of  *)
(* an element and the set of character classes of a text node.             *)
(***************************************************************************)
NewNode(type, ns, tag, data) ==
    [type |-> type, ns |-> ns, tag |-> tag, data |-> data,
     parent |-> NULL, idx |-> Detached, kids |-> <<>>]

\* The nodes that point only to these nodes, and have these types, names and contents.
NodesOf(pointers, types, names, tags, contents) ==
    [type : types, ns : names, tag : tags, data : contents,
     parent : pointers \cup {NULL}, idx : Indices, kids : Seq(pointers)]

ElementTypes == {"element", "template"}
TextTypes == {"text", "whitespace", "cdata"}
NodeTypes == {"document", "comment"} \cup ElementTypes \cup TextTypes

\* The node types that have a children vector.
IsContainer(node) == node.type \in ElementTypes \cup {"document"}

\* gumbo_vector_index_of, with the position counted from 1 and 0 for -1.
PositionIn(seq, x) ==
    IF \E i \in DOMAIN seq : seq[i] = x
    THEN CHOOSE i \in DOMAIN seq : seq[i] = x /\ \A j \in 1..(i - 1) : seq[j] # x
    ELSE 0

\* The loop that gives the children from position `from` on their index.
Renumber(nodes, kids, from) ==
    [n \in DOMAIN nodes |->
        IF \E j \in from..Len(kids) : kids[j] = n
        THEN [nodes[n] EXCEPT !.idx = (CHOOSE j \in from..Len(kids) : kids[j] = n) - 1]
        ELSE nodes[n]]

append_node(nodes, parent, n) ==
    [nodes EXCEPT ![n].parent = parent,
                  ![n].idx = Len(nodes[parent].kids),
                  ![parent].kids = Append(@, n)]

\* As insert_node, but the siblings behind n keep their index.
insert_node_NotRenumbered(nodes, n, loc) ==
    IF loc.index = -1
    THEN append_node(nodes, loc.target, n)
    ELSE [nodes EXCEPT ![n].parent = loc.target, ![n].idx = loc.index,
                       ![loc.target].kids = InsertAt(@, loc.index + 1, n)]

\* A location is [target, index]; index -1 means "after the last child".
insert_node(nodes, n, loc) ==
    IF loc.index = -1
    THEN append_node(nodes, loc.target, n)
    ELSE LET kids == InsertAt(nodes[loc.target].kids, loc.index + 1, n)
         IN  Renumber([nodes EXCEPT ![n].parent = loc.target, ![loc.target].kids = kids],
                      kids, loc.index + 1)

remove_from_parent(nodes, n) ==
    LET parent == nodes[n].parent
        at     == PositionIn(nodes[parent].kids, n)
        kids   == RemoveAt(nodes[parent].kids, at)
    IN  IF parent = NULL THEN nodes
        ELSE Renumber([nodes EXCEPT ![n].parent = NULL, ![n].idx = Detached,
                                    ![parent].kids = kids],
                      kids, at)

\* The children of n name n as their parent.
Reparented(nodes, n) ==
    [k \in DOMAIN nodes |->
        IF k \in ToSet(nodes[n].kids) THEN [nodes[k] EXCEPT !.parent = n] ELSE nodes[k]]

\* As move_children, but the children are moved one by one from the end.
move_children_Backwards(nodes, from, to) ==
    Reparented([nodes EXCEPT ![from].kids = nodes[to].kids,
                             ![to].kids = Reverse(nodes[from].kids)], to)

\* As move_children, but the children still name their old parent.
move_children_KeepsParents(nodes, from, to) ==
    [nodes EXCEPT ![from].kids = nodes[to].kids, ![to].kids = nodes[from].kids]

\* Step 16: `from` and `to` swap their children vectors; `to` has none before.
move_children(nodes, from, to) ==
    Reparented([nodes EXCEPT ![from].kids = nodes[to].kids,
                             ![to].kids = nodes[from].kids], to)

\* As TraverseStep, but the walk does not go into a template.
TraverseStep_NotTemplates(nodes, root, s) ==
    LET kids == nodes[s.at].kids
    IN  IF s.done \/ s.at = NULL THEN s
        ELSE IF nodes[s.at].type \in {"document", "element"} /\ s.offset < Len(kids)
        THEN [s EXCEPT !.at = kids[s.offset + 1], !.offset = 0]
        ELSE [at |-> nodes[s.at].parent, offset |-> nodes[s.at].idx + 1,
              freed |-> Append(s.freed, s.at), done |-> s.at = root, asserts |-> s.asserts]

(***************************************************************************)
(* tree_traverse: the order in which destroy_node frees the nodes below    *)
(* root.  The walk goes down to child `offset`, and after freeing a node   *)
(* goes on at offset index_within_parent + 1 of the parent the node names; *)
(* at NULL it can only stop, without being done.                           *)
(***************************************************************************)
TraverseStep(nodes, root, s) ==
    LET kids == nodes[s.at].kids
    IN  IF s.done \/ s.at = NULL THEN s
        ELSE IF IsContainer(nodes[s.at]) /\ s.offset < Len(kids)
        THEN [s EXCEPT !.at = kids[s.offset + 1], !.offset = 0]
        ELSE [at |-> nodes[s.at].parent, offset |-> nodes[s.at].idx + 1,
              freed |-> Append(s.freed, s.at), done |-> s.at = root,
              asserts |-> s.asserts /\ s.offset = Len(kids)]

\* Each node is entered once and left once, so 2 * Len(nodes) steps are enough.
tree_traverse(nodes, root) ==
    LET Step(s, i) == TraverseStep(nodes, root, s)
    IN  FoldLeft(Step, [at |-> root, offset |-> 0, freed |-> <<>>, done |-> FALSE, asserts |-> TRUE],
                 [i \in 1..(2 * Len(nodes)) |-> i])

-----------------------------------------------------------------------------
(***************************************************************************)
(* What a well-formed tree is.                                             *)
(***************************************************************************)

\* A node is a child of exactly the node its parent pointer names, once.
LinksAgree(nodes) ==
    /\ \A n \in DOMAIN nodes : \A i \in DOMAIN nodes[n].kids :
          /\ nodes[n].kids[i] \in DOMAIN nodes
          /\ nodes[nodes[n].kids[i]].parent = n
          /\ \A j \in DOMAIN nodes[n].kids : nodes[n].kids[i] = nodes[n].kids[j] => i = j
    /\ \A n \in DOMAIN nodes : nodes[n].parent # NULL =>
          /\ nodes[n].parent \in DOMAIN nodes
          /\ \E i \in DOMAIN nodes[nodes[n].parent].kids : nodes[nodes[n].parent].kids[i] = n

\* gumbo.h: "The index within the parent's children vector of this node."
IndexAgrees(nodes) ==
    \A n \in DOMAIN nodes : \A i \in DOMAIN nodes[n].kids :
        nodes[nodes[n].kids[i]].idx = i - 1

(***************************************************************************)
(* No node is its own ancestor: every set of nodes has one whose parent is *)
(* outside the set.                                                        *)
(***************************************************************************)
NoCycle(nodes) ==
    \A S \in SUBSET DOMAIN nodes :
        S # {} => \E n \in S : nodes[n].parent \notin S

\* The nodes from n up to its root, n included.
Ancestors(nodes, n) ==
    LET Up(s, i) == s \cup ({nodes[m].parent : m \in s} \ {NULL})
    IN  FoldLeft(Up, {n}, nodes)
=============================================================================
