------------------------------ MODULE NodeTree ------------------------------
(***************************************************************************)
(* What the parser may do to the node tree, in any order: the functions of *)
(* lib/parser.c that change its links, each under the conditions that it   *)
(* asserts and that its callers keep.  The handlers of TreeConstruction    *)
(* change the tree by these operations alone, save for one: the body that  *)
(* a frameset replaces is taken out of the root's children without them.   *)
(***************************************************************************)
EXTENDS GumboTree

CONSTANT MaxNodes    \* bound: how many nodes are ever created

ASSUME MaxNodesAssumption == MaxNodes \in Nat \ {0}

VARIABLE nodes       \* the node table, see GumboTree

Init == nodes = <<NewNode("document", "none", "", {})>>

(***************************************************************************)
(* Node m is not in the subtree of node n: there is a set of nodes that    *)
(* holds m and the parent of each of its members, and does not hold n.     *)
(***************************************************************************)
NotUnder(m, n) ==
    \E S \in SUBSET DOMAIN nodes :
        m \in S /\ n \notin S /\ \A k \in S : nodes[k].parent \in S \cup {NULL}

\* One kind of node with children and one without stand for all of them.
create_node(type) ==
    /\ Len(nodes) < MaxNodes
    /\ nodes' = Append(nodes, NewNode(type, "none", "", {}))

AppendNode(parent, n) ==
    /\ nodes[n].parent = NULL /\ IsContainer(nodes[parent])
    /\ NotUnder(parent, n)
    /\ nodes' = append_node(nodes, parent, n)

InsertNode(n, loc) ==
    /\ nodes[n].parent = NULL /\ IsContainer(nodes[loc.target])
    /\ NotUnder(loc.target, n)
    /\ loc.index # -1 => loc.index \in 0..(Len(nodes[loc.target].kids) - 1)
    /\ nodes' = insert_node(nodes, n, loc)

RemoveFromParent(n) ==
    /\ nodes[n].parent # NULL => nodes[nodes[n].parent].type = "element"
    /\ nodes' = remove_from_parent(nodes, n)

\* As MoveChildren, but `to` is appended to `from` (step 17) before the children move.
MoveChildren_AfterAppend(from, to) ==
    /\ from # to /\ IsContainer(nodes[from]) /\ IsContainer(nodes[to])
    /\ nodes[to].parent = NULL /\ nodes[to].kids = <<>>
    /\ nodes' = move_children(append_node(nodes, from, to), from, to)

\* Between the clone of a formatting element, which is new, and the furthest block.
MoveChildren(from, to) ==
    /\ from # to /\ IsContainer(nodes[from]) /\ IsContainer(nodes[to])
    /\ nodes[to].parent = NULL /\ nodes[to].kids = <<>>
    /\ nodes' = move_children(nodes, from, to)

Next ==
    \/ \E type \in {"element", "text"} : create_node(type)
    \/ \E n, parent \in DOMAIN nodes : AppendNode(parent, n)
    \/ \E n, target \in DOMAIN nodes :
          \E index \in -1..(Len(nodes[target].kids) - 1) :
              InsertNode(n, [target |-> target, index |-> index])
    \/ \E n \in DOMAIN nodes : RemoveFromParent(n)
    \/ \E from, to \in DOMAIN nodes : MoveChildren(from, to)

Spec == Init /\ [][Next]_nodes

-----------------------------------------------------------------------------
Node == NodesOf(Nat, NodeTypes, {"none"}, {""}, {{}})

\* The table holds nodes, at most MaxNodes of them.
TypeOK == nodes \in Seq(Node) /\ Len(nodes) \in 1..MaxNodes

(***************************************************************************)
(* However append_node, insert_node, remove_from_parent and the move of    *)
(* children follow one another, children vectors and parent pointers       *)
(* describe the same tree.                                                 *)
(***************************************************************************)
Linked == LinksAgree(nodes)

\* Every child's index_within_parent is its position, as insert_node and tree_traverse need.
Indexed == IndexAgrees(nodes)

\* No node becomes its own ancestor, so the loops up the tree end.
Acyclic == NoCycle(nodes)
=============================================================================
