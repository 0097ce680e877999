-------------------------- MODULE NodeTree_proofs --------------------------
(***************************************************************************)
(* Proofs about NodeTree, for every value of MaxNodes.                     *)
(*                                                                         *)
(* Linked and Indexed are not inductive: remove_from_parent and insert_node*)
(* renumber the children behind a position, so they keep the links only if *)
(* a child sits exactly where its index says, and nowhere twice.  Sound    *)
(* says that; with it the invariant IInv is inductive.                     *)
(***************************************************************************)
EXTENDS NodeTree, GumboTree_lemmas

-----------------------------------------------------------------------------
\* The nodes of this table may point to any number: that a pointer is a node, Sound says.
LEMMA NodesAreNodes == NodeSet(Node, Nat)
  BY DEF NodeSet, Node

(***************************************************************************)
(* Giving n the parent p makes no cycle when p lies in a set U that is     *)
(* closed under parents and does not hold n: a cycle would run inside U.   *)
(***************************************************************************)
LEMMA AttachKeepsNoCycle ==
    ASSUME NEW t \in Seq(Node), NEW u \in Seq(Node), NEW n \in DOMAIN t, NEW p \in DOMAIN t,
           NEW U \in SUBSET DOMAIN t,
           NoCycle(t), DOMAIN u = DOMAIN t,
           \A k \in DOMAIN t : u[k].parent = IF k = n THEN p ELSE t[k].parent,
           p \in U, n \notin U, \A k \in U : t[k].parent \in U \cup {NULL}
    PROVE  NoCycle(u)
  <1>1. NULL \notin DOMAIN t
    BY DEF NULL
  <1>2. ASSUME NEW S \in SUBSET DOMAIN t, S # {}
        PROVE  \E k \in S : u[k].parent \notin S
    <2>1. CASE S \cap U # {}
      <3>1. PICK k \in S \cap U : t[k].parent \notin S \cap U
        BY <2>1 DEF NoCycle
      <3>2. u[k].parent = t[k].parent /\ t[k].parent \in U \cup {NULL}
        BY <3>1
      <3> QED
        BY <1>1, <3>1, <3>2
    <2>2. CASE S \cap U = {}
      <3>1. PICK k \in S : t[k].parent \notin S
        BY <1>2 DEF NoCycle
      <3>2. u[k].parent = p \/ u[k].parent = t[k].parent
        OBVIOUS
      <3> QED
        BY <2>2, <3>1, <3>2
    <2> QED
      BY <2>1, <2>2
  <1> QED
    BY <1>2 DEF NoCycle

\* Taking the parent of a node away makes no cycle.
LEMMA DetachKeepsNoCycle ==
    ASSUME NEW t \in Seq(Node), NEW u \in Seq(Node), NEW n \in DOMAIN t,
           NoCycle(t), DOMAIN u = DOMAIN t,
           \A k \in DOMAIN t : u[k].parent = IF k = n THEN NULL ELSE t[k].parent
    PROVE  NoCycle(u)
  <1>1. NULL \notin DOMAIN t
    BY DEF NULL
  <1>2. ASSUME NEW S \in SUBSET DOMAIN t, S # {}
        PROVE  \E k \in S : u[k].parent \notin S
    <2>1. PICK k \in S : t[k].parent \notin S
      BY <1>2 DEF NoCycle
    <2> QED
      BY <1>1, <2>1
  <1> QED
    BY <1>2 DEF NoCycle

\* Giving nodes a parent that itself has none makes no cycle.
LEMMA MoveKeepsNoCycle ==
    ASSUME NEW t \in Seq(Node), NEW u \in Seq(Node), NEW to \in DOMAIN t,
           NoCycle(t), DOMAIN u = DOMAIN t, u[to].parent = NULL,
           \A k \in DOMAIN t : u[k].parent \in {to, t[k].parent}
    PROVE  NoCycle(u)
  <1>1. NULL \notin DOMAIN t
    BY DEF NULL
  <1>2. ASSUME NEW S \in SUBSET DOMAIN t, S # {}
        PROVE  \E k \in S : u[k].parent \notin S
    <2>1. CASE to \in S
      BY <1>1, <2>1
    <2>2. CASE to \notin S
      <3>1. PICK k \in S : t[k].parent \notin S
        BY <1>2 DEF NoCycle
      <3> QED
        BY <2>2, <3>1
    <2> QED
      BY <2>1, <2>2
  <1> QED
    BY <1>2 DEF NoCycle

\* create_node: a new node without links changes nothing in the tree.
LEMMA CreateKeepsTree ==
    ASSUME NEW t \in Seq(Node), NEW x \in Node, x.parent = NULL, x.kids = <<>>,
           Sound(t), NoCycle(t)
    PROVE  /\ Append(t, x) \in Seq(Node)
           /\ Len(Append(t, x)) = Len(t) + 1
           /\ Sound(Append(t, x)) /\ NoCycle(Append(t, x))
  <1> DEFINE u == Append(t, x)
  <1>1. /\ u \in Seq(Node) /\ Len(u) = Len(t) + 1
        /\ \A k \in DOMAIN t : u[k] = t[k]
        /\ u[Len(t) + 1] = x
    BY AppendProperties, LenProperties
  <1>2. Sound(u)
    BY CreateKeepsSound
  <1>3. /\ Len(t) \in Nat /\ DOMAIN t = 1..Len(t)
        /\ DOMAIN u = 1..(Len(t) + 1)
    BY <1>1, LenProperties
  <1> HIDE DEF u
  <1>4. \A k \in DOMAIN u : k \in DOMAIN t \/ k = Len(t) + 1
    BY <1>3
  <1>5. ASSUME NEW S \in SUBSET DOMAIN u, S # {}
        PROVE  \E k \in S : u[k].parent \notin S
    <2>1. NULL \notin DOMAIN u
      BY <1>3 DEF NULL
    <2>2. CASE Len(t) + 1 \in S
      BY <1>1, <1>5, <2>1, <2>2
    <2>3. CASE Len(t) + 1 \notin S
      <3>1. S \in SUBSET DOMAIN t
        BY <1>4, <1>5, <2>3
      <3>2. PICK k \in S : t[k].parent \notin S
        BY <1>5, <3>1 DEF NoCycle
      <3> QED
        BY <1>1, <3>1, <3>2
    <2> QED
      BY <2>2, <2>3
  <1> QED
    BY <1>1, <1>2, <1>5 DEF NoCycle, u

-----------------------------------------------------------------------------
\* The inductive invariant.
IInv == TypeOK /\ Sound(nodes) /\ Acyclic

\* A new node is a node, without a parent and without children.
LEMMA NewNodeFields ==
    ASSUME NEW type \in {"document", "element", "text"}
    PROVE  LET x == NewNode(type, "none", "", {})
           IN  x \in Node /\ x.parent = NULL /\ x.kids = <<>>
  <1>1. NULL \in Nat /\ Detached \in Int /\ <<>> \in Seq(Nat)
    BY DEF NULL, Detached
  <1>2. type \in NodeTypes
    BY DEF NodeTypes, ElementTypes, TextTypes
  <1> QED
    BY <1>1, <1>2 DEF NewNode, Node, NodesOf, Indices

\* The table that output_init builds, the document alone, satisfies the invariant.
LEMMA InitIInv == Init => IInv
  <1> SUFFICES ASSUME Init PROVE IInv
    OBVIOUS
  <1> DEFINE x == NewNode("document", "none", "", {})
  <1>1. x \in Node /\ x.parent = NULL /\ x.kids = <<>>
    BY NewNodeFields
  <1> HIDE DEF x
  <1>2. nodes = <<x>>
    BY DEF Init, x
  <1>3. nodes \in Seq(Node) /\ Len(nodes) = 1 /\ DOMAIN nodes = {1} /\ nodes[1] = x
    BY <1>1, <1>2
  <1>4. TypeOK
    BY <1>3, MaxNodesAssumption DEF TypeOK
  <1>5. DOMAIN x.kids = {}
    BY <1>1
  <1>6. Sound(nodes)
    BY <1>1, <1>3, <1>5 DEF Sound
  <1>7. Acyclic
    BY <1>1, <1>3 DEF Acyclic, NoCycle, NULL
  <1> QED
    BY <1>4, <1>6, <1>7 DEF IInv

\* Every operation on the tree keeps the invariant: one step for each action of Next.
LEMMA StepIInv == IInv /\ [Next]_nodes => IInv'
  <1> SUFFICES ASSUME IInv, [Next]_nodes PROVE IInv'
    OBVIOUS
  <1>1. /\ nodes \in Seq(Node) /\ Len(nodes) \in 1..MaxNodes /\ Sound(nodes) /\ NoCycle(nodes)
        /\ NodeSet(Node, Nat) /\ DOMAIN nodes \subseteq Nat
    <2>1. nodes \in Seq(Node) /\ Len(nodes) \in 1..MaxNodes /\ Sound(nodes) /\ NoCycle(nodes)
      BY DEF IInv, TypeOK, Acyclic
    <2> QED
      BY <2>1, NodesAreNodes
  <1>2. ASSUME nodes' \in Seq(Node), DOMAIN nodes' = DOMAIN nodes, Sound(nodes'), NoCycle(nodes')
        PROVE  IInv'
    <2>1. Len(nodes') = Len(nodes)
      BY <1>1, <1>2, SameLength
    <2> QED
      BY <1>1, <1>2, <2>1 DEF IInv, TypeOK, Acyclic
  <1>3. ASSUME NEW type \in {"element", "text"}, create_node(type)
        PROVE  IInv'
    <2> DEFINE x == NewNode(type, "none", "", {})
    <2>1. x \in Node /\ x.parent = NULL /\ x.kids = <<>>
      BY NewNodeFields
    <2>2. nodes' = Append(nodes, x) /\ Len(nodes) < MaxNodes
      BY <1>3 DEF create_node
    <2> HIDE DEF x
    <2>3. /\ nodes' \in Seq(Node) /\ Len(nodes') = Len(nodes) + 1
          /\ Sound(nodes') /\ NoCycle(nodes')
      BY <1>1, <2>1, <2>2, CreateKeepsTree
    <2>4. Len(nodes') \in 1..MaxNodes
      BY <1>1, <2>2, <2>3, MaxNodesAssumption
    <2> QED
      BY <2>3, <2>4 DEF IInv, TypeOK, Acyclic
  <1>4. ASSUME NEW n \in DOMAIN nodes, NEW parent \in DOMAIN nodes, AppendNode(parent, n)
        PROVE  IInv'
    <2>1. nodes[n].parent = NULL /\ nodes' = append_node(nodes, parent, n)
      BY <1>4 DEF AppendNode
    <2>2. PICK U \in SUBSET DOMAIN nodes :
             parent \in U /\ n \notin U /\ \A k \in U : nodes[k].parent \in U \cup {NULL}
      BY <1>4 DEF AppendNode, NotUnder
    <2>4. nodes' \in Seq(Node) /\ Sound(nodes')
      BY <1>1, <2>1, AppendKeepsSound
    <2>5. /\ DOMAIN nodes' = DOMAIN nodes
          /\ \A k \in DOMAIN nodes :
                nodes'[k].parent = IF k = n THEN parent ELSE nodes[k].parent
      BY <1>1, <2>1, AppendFields
    <2>6. NoCycle(nodes')
      BY <1>1, <2>2, <2>4, <2>5, AttachKeepsNoCycle
    <2> QED
      BY <1>2, <2>4, <2>5, <2>6
  <1>5. ASSUME NEW n \in DOMAIN nodes, NEW target \in DOMAIN nodes,
               NEW index \in -1..(Len(nodes[target].kids) - 1),
               InsertNode(n, [target |-> target, index |-> index])
        PROVE  IInv'
    <2>1. nodes[n].parent = NULL /\ nodes' = insert_node(nodes, n, [target |-> target, index |-> index])
      BY <1>5 DEF InsertNode
    <2>2. PICK U \in SUBSET DOMAIN nodes :
             target \in U /\ n \notin U /\ \A k \in U : nodes[k].parent \in U \cup {NULL}
      BY <1>5 DEF InsertNode, NotUnder
    <2>4. /\ nodes' \in Seq(Node) /\ Sound(nodes') /\ DOMAIN nodes' = DOMAIN nodes
          /\ \A k \in DOMAIN nodes :
                nodes'[k].parent = IF k = n THEN target ELSE nodes[k].parent
      <3>1. CASE index = -1
        <4>1. nodes' = append_node(nodes, target, n)
          BY <2>1, <3>1 DEF insert_node
        <4>2. nodes' \in Seq(Node) /\ Sound(nodes')
          BY <1>1, <2>1, <4>1, AppendKeepsSound
        <4> QED
          BY <1>1, <4>1, <4>2, AppendFields, SMTT(20)
      <3>2. CASE index # -1
        <4>1. index + 1 \in 1..Len(nodes[target].kids)
          <5>1. Len(nodes[target].kids) \in Nat
            BY <1>1, NodeFields
          <5> QED
            BY <3>2, <5>1
        <4>2. nodes' = Inserted(nodes, n, target, index + 1)
          BY <2>1, <3>2 DEF insert_node, Inserted
        <4> DEFINE at == index + 1
                   u  == Inserted(nodes, n, target, at)
        <4>3. /\ NodeSet(Node, Nat) /\ nodes \in Seq(Node) /\ DOMAIN nodes \subseteq Nat
              /\ n \in DOMAIN nodes /\ target \in DOMAIN nodes
              /\ at \in 1..Len(nodes[target].kids)
              /\ nodes[n].parent = NULL /\ Sound(nodes)
          BY <1>1, <2>1, <4>1
        <4> HIDE DEF at
        <4>4. Sound(u)
          BY ONLY <4>3, InsertKeepsSound
        <4>5. u \in Seq(Node) /\ PutIn(nodes, u, n, target, InsertAt(nodes[target].kids, at, n), at)
          BY ONLY <4>3, InsertFields
        <4> HIDE DEF u
        <4>6. nodes' = u
          BY <4>2 DEF u, at
        <4> QED
          BY <4>4, <4>5, <4>6 DEF PutIn
      <3> QED
        BY <3>1, <3>2
    <2>5. NoCycle(nodes')
      BY <1>1, <2>2, <2>4, AttachKeepsNoCycle
    <2> QED
      BY <1>2, <2>4, <2>5
  <1>6. ASSUME NEW n \in DOMAIN nodes, RemoveFromParent(n)
        PROVE  IInv'
    <2>1. nodes' = remove_from_parent(nodes, n)
      BY <1>6 DEF RemoveFromParent
    <2>2. CASE nodes[n].parent = NULL
      <3>1. nodes' = nodes
        BY <2>1, <2>2 DEF remove_from_parent
      <3> QED
        BY <1>1, <1>2, <3>1
    <2>3. CASE nodes[n].parent # NULL
      <3>1. /\ nodes' \in Seq(Node) /\ Sound(nodes') /\ DOMAIN nodes' = DOMAIN nodes
            /\ \A k \in DOMAIN nodes :
                  nodes'[k].parent = IF k = n THEN NULL ELSE nodes[k].parent
        BY <1>1, <2>1, <2>3, RemoveKeepsSound
      <3>2. NoCycle(nodes')
        BY <1>1, <3>1, DetachKeepsNoCycle
      <3> QED
        BY <1>2, <3>1, <3>2
    <2> QED
      BY <2>2, <2>3
  <1>7. ASSUME NEW from \in DOMAIN nodes, NEW to \in DOMAIN nodes, MoveChildren(from, to)
        PROVE  IInv'
    <2>1. /\ from # to /\ nodes[to].parent = NULL /\ nodes[to].kids = <<>>
          /\ nodes' = move_children(nodes, from, to)
      BY <1>7 DEF MoveChildren
    <2>3. /\ nodes' \in Seq(Node) /\ Sound(nodes') /\ DOMAIN nodes' = DOMAIN nodes
          /\ \A k \in DOMAIN nodes : nodes'[k].parent \in {to, nodes[k].parent}
          /\ nodes'[to].parent = NULL
      BY <1>1, <2>1, MoveKeepsSound
    <2>4. NoCycle(nodes')
      BY <1>1, <2>3, MoveKeepsNoCycle
    <2> QED
      BY <1>2, <2>3, <2>4
  <1>8. CASE UNCHANGED nodes
    BY <1>1, <1>2, <1>8
  <1> QED
    BY <1>3, <1>4, <1>5, <1>6, <1>7, <1>8 DEF Next

\* The inductive invariant holds in every state, for every bound MaxNodes.
THEOREM InductiveInvariant == Spec => []IInv
  BY InitIInv, StepIInv, PTL DEF Spec

\* The table always holds nodes, and never more than MaxNodes.
THEOREM TypeCorrect == Spec => []TypeOK
  <1>1. IInv => TypeOK
    BY DEF IInv
  <1> QED
    BY <1>1, InductiveInvariant, PTL

(***************************************************************************)
(* However append_node, insert_node, remove_from_parent and the move of    *)
(* children follow one another, a node is once, and only once, a child of  *)
(* the node its parent pointer names.                                      *)
(***************************************************************************)
THEOREM LinksCorrect == Spec => []Linked
  <1>1. IInv => Linked
    BY SoundAgrees, NodesAreNodes DEF IInv, TypeOK, Linked
  <1> QED
    BY <1>1, InductiveInvariant, PTL

(***************************************************************************)
(* gumbo.h: index_within_parent is "the index within the parent's children *)
(* vector of this node".  The four operations that touch it never break    *)
(* this, which tree_traverse and insert_node rely on.                      *)
(***************************************************************************)
THEOREM IndexCorrect == Spec => []Indexed
  <1>1. IInv => Indexed
    BY SoundAgrees, NodesAreNodes DEF IInv, TypeOK, Indexed
  <1> QED
    BY <1>1, InductiveInvariant, PTL

(***************************************************************************)
(* Callers that never hang a node below itself never get a cycle out of    *)
(* the four operations, so every walk up the parents ends.                 *)
(***************************************************************************)
THEOREM AcyclicCorrect == Spec => []Acyclic
  <1>1. IInv => Acyclic
    BY DEF IInv
  <1> QED
    BY <1>1, InductiveInvariant, PTL
=============================================================================
