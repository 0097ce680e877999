---------------------- MODULE TreeConstruction_proofs ----------------------
(***************************************************************************)
(* Proofs about TreeConstruction, for every set of inputs (contexts, token *)
(* sequences of any length, depths) and every bound: in all states that    *)
(* can be reached the parser's pointers are allocated, and as long as no   *)
(* assertion has failed and nothing is freed, the children vectors, the    *)
(* parent pointers and the indices describe one tree, the pointers lead to *)
(* elements, and the copy that Lua is given is a DOM in order.             *)
(*                                                                         *)
(* The first part is about the helpers of the parser (ParserState,         *)
(* Adoption): each one keeps a good state good, whatever its arguments.    *)
(* In a good state                                                         *)
(*   - every field has its type, and every pointer the parser keeps, on    *)
(*     the stack, on the list, or to the root, the head and the form, is   *)
(*     NULL or points to a node that is, or was, an element, and not the   *)
(*     context of the fragment;                                            *)
(*   - the table of nodes is sound (GumboTree_lemmas) and has its shape    *)
(*     (one document, leaves without children), unless an assertion has    *)
(*     failed or a node has been freed.                                    *)
(* What destroy_node makes of a table has its type, and may not be sound:  *)
(* when a frameset replaces the body, the indices behind it stay.          *)
(*                                                                         *)
(* The second part is about the handlers, which are compositions of the    *)
(* helpers: one lemma for each, with one step per arm that needs an        *)
(* argument.  A turn of the main loop is the handler's, and the invariant  *)
(* follows.  The third part is about the copy (LuaTree).                   *)
(*                                                                         *)
(* The fourth part is about what a token owns, when a document is parsed:  *)
(* the helpers leave the modes and the token alone, a handler has the      *)
(* token taken or released or leaves it whole to come again, and in the    *)
(* text of an element only tokens that own nothing can come.               *)
(***************************************************************************)
EXTENDS LuaTree, GumboTree_lemmas, FoldLemmas, TLAPS

Types == NodeTypes \cup {"freed"}
Spaces == {"none", "html", "mathml", "svg"}
Names == STRING \cup {"", "html", "head", "body", "p", "br", "colgroup", "tbody", "tr", "img"}
Contents == STRING \cup TokenTypes

Nodes(N) == NodesOf(1..N, Types, Spaces, Names, SUBSET Contents)
\* The nodes, other than a document, that hang nowhere and hold nothing.
Fresh == {x \in Nodes(0) : x.type # "document"}
\* The types of the nodes that the stack, the list and the pointers hold, or held.
Holders == ElementTypes \cup {"freed"}
FreshElements == {x \in Fresh : x.type \in Holders}

Tables == UNION {Seq(Nodes(N)) : N \in Nat}

Pending == [type : TextTypes, chars : SUBSET Contents]

Modes ==
    {"initial", "before_html", "before_head", "in_head", "in_head_noscript", "after_head",
     "in_body", "text", "in_table", "in_table_text", "in_caption", "in_column_group",
     "in_table_body", "in_row", "in_cell", "in_select", "in_select_in_table", "in_template",
     "after_body", "in_frameset", "after_frameset", "after_after_body", "after_after_frameset"}

LexerStates == {"data", "rcdata", "rawtext", "script", "plaintext", "cdata"}

Assertions ==
    {"append_node", "insert_node", "remove_from_parent", "tree_traverse", "token freed twice",
     "pop_current_node", "pop: stack exhausted", "reset_insertion_mode_appropriately",
     "close_current_cell: td and th", "close_current_cell: no cell",
     "adoption agency step 13.3", "adoption agency step 18", "</body>: second open element",
     "</form>: form pointer", "</form>: not open", "any other end tag", "</head>: current node",
     "noscript: current node", "after head: no head element", "in_table: text is pending",
     "in_template: CDATA", "start tag not released", "loop_count"}

States ==
    [nodes : Tables, root : Nat, mode : Modes, orig : Modes, open : Seq(Nat), afe : Seq(Int),
     tmodes : Seq(Modes), head : Nat, form : Nat, ctx : Nat, reprocess : BOOLEAN, fok : BOOLEAN,
     ignoreLF : BOOLEAN, foster : BOOLEAN, pending : Pending, quirks : BOOLEAN,
     has_doctype : BOOLEAN, owned : BOOLEAN, lexer : LexerStates, rawtag : Names,
     failed : Assertions \cup {""}]

Freed(nodes) == \E n \in DOMAIN nodes : nodes[n].type = "freed"

\* There is one document, it and the context hang nowhere, and only containers have children.
Shape(nodes, ctx) ==
    /\ nodes[Document].type = "document" /\ nodes[Document].parent = NULL
    /\ ctx # NULL => nodes[ctx].parent = NULL
    /\ \A n \in DOMAIN nodes :
          /\ nodes[n].type = "document" => n = Document
          /\ ~IsContainer(nodes[n]) => nodes[n].kids = <<>>

Built(nodes, failed, ctx) ==
    /\ nodes \in Seq(Nodes(Len(nodes)))
    /\ failed # "" \/ Freed(nodes) \/ (Sound(nodes) /\ Shape(nodes, ctx))

\* The elements of a table, but the context of the fragment.
ElementsOf(nodes, ctx) == {n \in DOMAIN nodes : nodes[n].type \in Holders /\ n # ctx}
Elems(q) == ElementsOf(q.nodes, q.ctx)

\* A node that may be moved: neither the document nor the context.
Movable(q, n) ==
    n \in 1..Len(q.nodes) /\ n # q.ctx /\ q.nodes[n].type # "document"

Points(nodes, open, afe, root, head, form, ctx) ==
    /\ Len(nodes) >= 1 /\ nodes[Document].type \in {"document", "freed"} /\ ctx # Document
    /\ open \in Seq(ElementsOf(nodes, ctx))
    /\ afe \in Seq(ElementsOf(nodes, ctx) \cup {Marker})
    /\ {root, head, form} \subseteq ElementsOf(nodes, ctx) \cup {NULL}
    /\ ctx # NULL => ctx \in DOMAIN nodes /\ nodes[ctx].type \in Holders

Good(q) ==
    /\ q \in States
    /\ Built(q.nodes, q.failed, q.ctx)
    /\ Points(q.nodes, q.open, q.afe, q.root, q.head, q.form, q.ctx)

Typed(q) ==
    /\ q \in States
    /\ q.nodes \in Seq(Nodes(Len(q.nodes)))
    /\ Points(q.nodes, q.open, q.afe, q.root, q.head, q.form, q.ctx)

-----------------------------------------------------------------------------
\* The nodes of the parser are nodes in the sense of the lemmas about tables.
LEMMA NodesAreNodes ==
    ASSUME NEW N \in Nat
    PROVE  NodeSet(Nodes(N), 1..N)
  BY DEF NodeSet, Nodes

\* A pointer to one of N nodes points to one of more.
LEMMA NodesWiden ==
    ASSUME NEW N \in Nat, NEW M \in Nat, N <= M
    PROVE  Nodes(N) \subseteq Nodes(M) /\ Seq(Nodes(N)) \subseteq Seq(Nodes(M))
  <1>1. 1..N \subseteq 1..M
    OBVIOUS
  <1>2. Seq(1..N) \subseteq Seq(1..M)
    BY <1>1
  <1>3. ASSUME NEW x \in Nodes(N) PROVE x \in Nodes(M)
    <2> HIDE DEF Indices
    <2>1. x.kids \in Seq(1..M) /\ x.parent \in 1..M \cup {NULL}
      BY <1>1, <1>2 DEF Nodes, NodesOf
    <2> QED
      BY <1>1, <1>2, <2>1 DEF Nodes, NodesOf
  <1> QED
    BY <1>3

\* What the type of a table says of its length and of its nodes.
LEMMA TypedTable ==
    ASSUME NEW t, t \in Seq(Nodes(Len(t)))
    PROVE  /\ Len(t) \in Nat /\ DOMAIN t = 1..Len(t)
           /\ t \in Tables
           /\ \A n \in DOMAIN t : t[n] \in Nodes(Len(t))
  <1>1. PICK S : t \in Seq(S) /\ S = Nodes(Len(t))
    OBVIOUS
  <1>2. Len(t) \in Nat /\ DOMAIN t = 1..Len(t) /\ \A n \in DOMAIN t : t[n] \in S
    BY <1>1
  <1> QED
    BY <1>1, <1>2 DEF Tables

(***************************************************************************)
(* The table u comes after t: no node is gone, none changes its type, and  *)
(* a sound table stays sound.                                              *)
(***************************************************************************)
Follows(t, u) ==
    /\ u \in Seq(Nodes(Len(u)))
    /\ Len(t) <= Len(u)
    /\ \A n \in DOMAIN t : u[n].type = t[n].type
    /\ Sound(t) => Sound(u)

\* A table of the same nodes comes after t when their types and its soundness are kept.
LEMMA FollowsTyped ==
    ASSUME NEW t, t \in Seq(Nodes(Len(t))), NEW u \in Seq(Nodes(Len(t))), DOMAIN u = DOMAIN t,
           \A n \in DOMAIN t : u[n].type = t[n].type, Sound(t) => Sound(u)
    PROVE  Follows(t, u) /\ Len(u) = Len(t)
  <1>1. Len(u) = Len(t) /\ Len(t) \in Nat
    BY TypedTable, SameLength
  <1> QED
    BY <1>1 DEF Follows

\* What comes after a table of the parser is one too.
LEMMA TableStep ==
    ASSUME NEW t, NEW failed, NEW ctx, t \in Seq(Nodes(Len(t))), Built(t, failed, ctx),
           NEW u, Follows(t, u), ~Freed(t) /\ Sound(t) /\ Shape(t, ctx) => Shape(u, ctx)
    PROVE  Built(u, failed, ctx)
  <1>1. u \in Seq(Nodes(Len(u))) /\ Len(t) <= Len(u) /\ Len(t) \in Nat
    BY TypedTable DEF Follows
  <1>2. DOMAIN t = 1..Len(t) /\ DOMAIN u = 1..Len(u) /\ Len(u) \in Nat
    BY <1>1, TypedTable
  <1>3. DOMAIN t \subseteq DOMAIN u
    BY <1>1, <1>2
  <1>4. Freed(t) => Freed(u)
    BY <1>3 DEF Freed, Follows
  <1> QED
    BY <1>1, <1>4 DEF Built, Follows

-----------------------------------------------------------------------------
(***************************************************************************)
(* The operations on the table.                                            *)
(***************************************************************************)

\* NewNode makes a fresh node of values that have their types.
LEMMA FreshNode ==
    ASSUME NEW type \in Types, NEW ns \in Spaces, NEW tag \in Names, NEW data \in SUBSET Contents
    PROVE  LET x == NewNode(type, ns, tag, data)
           IN  /\ x \in Nodes(0) /\ x.type = type
               /\ type # "document" => x \in Fresh
               /\ type \in Holders => x \in FreshElements
  <1> DEFINE x == NewNode(type, ns, tag, data)
  <1>1. <<>> \in Seq(1..0) /\ NULL \in 1..0 \cup {NULL} /\ Detached \in Indices
    BY DEF Indices
  <1>2. x \in Nodes(0) /\ x.type = type
    <2> HIDE DEF Indices
    <2> QED
      BY <1>1 DEF NewNode, Nodes, NodesOf
  <1> HIDE DEF x
  <1>3. type \in Holders => type # "document"
    BY DEF Holders, ElementTypes
  <1> QED
    BY <1>2, <1>3 DEF Fresh, FreshElements, x

\* A fresh node hangs nowhere and is a node of every table.
LEMMA FreshFields ==
    ASSUME NEW x \in Nodes(0)
    PROVE  /\ x.parent = NULL /\ x.kids = <<>>
           /\ \A N \in Nat : x \in Nodes(N)
  <1>1. 1..0 = {}
    OBVIOUS
  <1>2. ASSUME NEW s \in Seq(1..0) PROVE s = <<>>
    <2>1. Len(s) \in Nat /\ \A i \in 1..Len(s) : s[i] \in 1..0
      OBVIOUS
    <2>2. Len(s) = 0
      BY <1>1, <2>1
    <2> QED
      BY <2>2
  <1>3. x.parent = NULL /\ x.kids = <<>>
    BY <1>1, <1>2 DEF Nodes, NodesOf
  <1>4. \A N \in Nat : Nodes(0) \subseteq Nodes(N)
    BY NodesWiden
  <1> QED
    BY <1>3, <1>4

\* A node is appended to the table.
LEMMA CreateFollows ==
    ASSUME NEW t, t \in Seq(Nodes(Len(t))), NEW x \in Nodes(Len(t)), x.parent = NULL, x.kids = <<>>
    PROVE  /\ Follows(t, Append(t, x)) /\ Len(Append(t, x)) = Len(t) + 1
           /\ Append(t, x)[Len(t) + 1] = x
           /\ \A n \in DOMAIN t : Append(t, x)[n] = t[n]
  <1> DEFINE S == Nodes(Len(t))
             u == Append(t, x)
  <1>1. Len(t) \in Nat /\ DOMAIN t = 1..Len(t)
    BY TypedTable
  <1>2. t \in Seq(S) /\ x \in S
    OBVIOUS
  <1> HIDE DEF S
  <1>3. u \in Seq(S) /\ Len(u) = Len(t) + 1 /\ u[Len(t) + 1] = x
    BY <1>2
  <1>4. \A n \in DOMAIN t : u[n] = t[n]
    BY <1>1, <1>2
  <1>5. Sound(t) => Sound(u)
    BY <1>2, CreateKeepsSound
  <1> HIDE DEF u
  <1>6. S \subseteq Nodes(Len(t) + 1) /\ Seq(S) \subseteq Seq(Nodes(Len(t) + 1)) 
    BY <1>1, NodesWiden DEF S
  <1>7. u \in Seq(Nodes(Len(u)))
    BY <1>3, <1>6
  <1>8. Len(t) <= Len(u)
    BY <1>1, <1>3
  <1>9. Follows(t, u)
    BY <1>4, <1>5, <1>7, <1>8 DEF Follows
  <1> QED
    BY <1>3, <1>4, <1>9 DEF u

\* append_node, under its assertions.
LEMMA AppendFollows ==
    ASSUME NEW t, t \in Seq(Nodes(Len(t))), NEW parent \in DOMAIN t, NEW n \in DOMAIN t,
           t[n].parent = NULL
    PROVE  /\ Follows(t, append_node(t, parent, n))
           /\ Len(append_node(t, parent, n)) = Len(t)
  <1> DEFINE S == Nodes(Len(t))
             Ptr == 1..Len(t)
             u == append_node(t, parent, n)
  <1>1. NodeSet(S, Ptr) /\ t \in Seq(S) /\ DOMAIN t \subseteq Ptr
    BY TypedTable, NodesAreNodes
  <1> HIDE DEF S, Ptr
  <1>2. u \in Seq(S) /\ DOMAIN u = DOMAIN t /\ \A k \in DOMAIN t : u[k].type = t[k].type
    BY <1>1, AppendFields
  <1>3. Sound(t) => Sound(u)
    BY <1>1, AppendKeepsSound
  <1> HIDE DEF u
  <1>4. Follows(t, u) /\ Len(u) = Len(t)
    BY <1>2, <1>3, FollowsTyped DEF S
  <1> QED
    BY <1>4 DEF u

\* insert_node, under its assertions.
LEMMA InsertFollows ==
    ASSUME NEW t, t \in Seq(Nodes(Len(t))), NEW loc, loc.target \in DOMAIN t, NEW n \in DOMAIN t,
           t[n].parent = NULL, loc.index # -1 => loc.index \in 0..(Len(t[loc.target].kids) - 1)
    PROVE  /\ Follows(t, insert_node(t, n, loc))
           /\ Len(insert_node(t, n, loc)) = Len(t)
  <1>1. CASE loc.index = -1
    BY <1>1, AppendFollows DEF insert_node
  <1>2. CASE loc.index # -1
    <2> DEFINE S == Nodes(Len(t))
               Ptr == 1..Len(t)
               target == loc.target
               at == loc.index + 1
               u == Inserted(t, n, target, at)
    <2>1. NodeSet(S, Ptr) /\ t \in Seq(S) /\ DOMAIN t \subseteq Ptr
      BY TypedTable, NodesAreNodes
    <2>2. target \in DOMAIN t
      OBVIOUS
    <2>3. at \in 1..Len(t[target].kids)
      <3>1. t[target] \in S
        BY <2>1, <2>2
      <3> HIDE DEF S, Ptr
      <3>2. Len(t[target].kids) \in Nat
        BY <2>1, <3>1, NodeFields
      <3> QED
        BY <1>2, <3>2
    <2>4. insert_node(t, n, loc) = u
      BY <1>2 DEF insert_node, Inserted
    <2> HIDE DEF S, Ptr, target, at
    <2>5. u \in Seq(S) /\ PutIn(t, u, n, target, InsertAt(t[target].kids, at, n), at)
      BY <2>1, <2>2, <2>3, InsertFields
    <2>6. Sound(t) => Sound(u)
      BY <2>1, <2>2, <2>3, InsertKeepsSound
    <2> HIDE DEF u
    <2>7. DOMAIN u = DOMAIN t /\ \A k \in DOMAIN t : u[k].type = t[k].type
      BY <2>5 DEF PutIn
    <2>8. Follows(t, u) /\ Len(u) = Len(t)
      BY <2>5, <2>6, <2>7, FollowsTyped DEF S
    <2> QED
      BY <2>4, <2>8
  <1> QED
    BY <1>1, <1>2

\* remove_from_parent.
LEMMA RemoveFollows ==
    ASSUME NEW t, t \in Seq(Nodes(Len(t))), NEW n \in DOMAIN t
    PROVE  /\ Follows(t, remove_from_parent(t, n))
           /\ Len(remove_from_parent(t, n)) = Len(t)
  <1> DEFINE S == Nodes(Len(t))
             Ptr == 1..Len(t)
             u == remove_from_parent(t, n)
  <1>1. NodeSet(S, Ptr) /\ t \in Seq(S) /\ DOMAIN t \subseteq Ptr /\ DOMAIN t = Ptr
    BY TypedTable, NodesAreNodes
  <1>2. t[n].parent \in Ptr \cup {NULL}
    <2> HIDE DEF S, Ptr
    <2>1. t[n] \in S
      BY <1>1
    <2> QED
      BY <1>1, <2>1, NodeFields
  <1> HIDE DEF S, Ptr
  <1>3. CASE t[n].parent = NULL
    <2>1. u = t
      BY <1>3 DEF remove_from_parent
    <2> QED
      BY <2>1, FollowsTyped
  <1>4. CASE t[n].parent # NULL
    <2>1. t[n].parent \in DOMAIN t
      BY <1>1, <1>2, <1>4
    <2>2. u \in Seq(S) /\ DOMAIN u = DOMAIN t /\ \A k \in DOMAIN t : u[k].type = t[k].type
      BY <1>1, <1>4, <2>1, RemoveFields DEF KidRemoved
    <2>3. Sound(t) => Sound(u)
      BY <1>1, <1>4, RemoveKeepsSound
    <2> HIDE DEF u
    <2>4. Follows(t, u) /\ Len(u) = Len(t)
      BY <2>2, <2>3, FollowsTyped DEF S
    <2> QED
      BY <2>4 DEF u
  <1> QED
    BY <1>3, <1>4

\* A node leaves its parent and is appended to another (steps of the adoption agency).
LEMMA MoveFollows ==
    ASSUME NEW t, t \in Seq(Nodes(Len(t))), NEW from \in DOMAIN t, NEW to \in DOMAIN t, from # to,
           t[to].parent = NULL, t[to].kids = <<>>
    PROVE  /\ Follows(t, move_children(t, from, to))
           /\ Len(move_children(t, from, to)) = Len(t)
  <1> DEFINE S == Nodes(Len(t))
             Ptr == 1..Len(t)
             u == move_children(t, from, to)
  <1>1. NodeSet(S, Ptr) /\ t \in Seq(S) /\ DOMAIN t \subseteq Ptr /\ DOMAIN t = Ptr
    BY TypedTable, NodesAreNodes
  <1> HIDE DEF S, Ptr
  <1>2. u \in Seq(S) /\ Moved(t, u, from, to)
    BY <1>1, MoveFields
  <1>3. Sound(t) => Sound(u)
    BY <1>1, MoveKeepsSound
  <1> HIDE DEF u
  <1>4. Follows(t, u) /\ Len(u) = Len(t)
    BY <1>2, <1>3, FollowsTyped DEF S, Moved
  <1> QED
    BY <1>4 DEF u

\* Settled is the identity on tables.
LEMMA SettledSame ==
    ASSUME NEW S, NEW t \in Seq(S)
    PROVE  Settled(t) = t
  BY SubSeqProperties DEF Settled

\* merge_attributes: the nodes keep their links.
LEMMA DataFollows ==
    ASSUME NEW t, t \in Seq(Nodes(Len(t))), NEW n, NEW data \in SUBSET Contents
    PROVE  LET u == [t EXCEPT ![n].data = @ \cup data]
           IN  Follows(t, u) /\ Len(u) = Len(t)
  <1> DEFINE u == [t EXCEPT ![n].data = @ \cup data]
             S == Nodes(Len(t))
  <1>1. t \in Seq(S) /\ \A k \in DOMAIN t : t[k] \in S
    BY TypedTable
  <1>2. DOMAIN u = DOMAIN t /\ Len(t) \in Nat /\ DOMAIN t = 1..Len(t)
    BY TypedTable
  <1>3. ASSUME NEW k \in DOMAIN t
        PROVE  /\ u[k] \in S /\ u[k].type = t[k].type
               /\ u[k].parent = t[k].parent /\ u[k].idx = t[k].idx /\ u[k].kids = t[k].kids
    <2>1. u[k] = IF k = n THEN [t[k] EXCEPT !.data = @ \cup data] ELSE t[k]
      OBVIOUS
    <2>2. t[k] \in S
      BY <1>1
    <2>3. t[k].data \cup data \in SUBSET Contents
      BY <2>2 DEF S, Nodes, NodesOf
    <2> HIDE DEF u, Indices
    <2> QED
      BY <2>1, <2>2, <2>3 DEF S, Nodes, NodesOf
  <1> HIDE DEF u, S
  <1>4. u \in Seq(S)
    <2>1. u = [k \in 1..Len(t) |-> u[k]]
      BY <1>2 DEF u
    <2> QED
      BY <1>2, <1>3, <2>1
  <1>5. ASSUME Sound(t) PROVE Sound(u)
    <2>1. ASSUME NEW k \in DOMAIN u, NEW i \in DOMAIN u[k].kids
          PROVE  /\ u[k].kids[i] \in DOMAIN u
                 /\ u[u[k].kids[i]].parent = k
                 /\ u[u[k].kids[i]].idx = i - 1
      BY <1>2, <1>3, <1>5, <2>1 DEF Sound
    <2>2. ASSUME NEW k \in DOMAIN u, u[k].parent # NULL
          PROVE  /\ u[k].parent \in DOMAIN u
                 /\ u[k].idx + 1 \in DOMAIN u[u[k].parent].kids
                 /\ u[u[k].parent].kids[u[k].idx + 1] = k
      BY <1>2, <1>3, <1>5, <2>2 DEF Sound
    <2> QED
      BY <2>1, <2>2 DEF Sound
  <1>6. Follows(t, u) /\ Len(u) = Len(t)
    BY <1>2, <1>3, <1>4, <1>5, FollowsTyped DEF S
  <1> QED
    BY <1>6 DEF u

\* The table keeps its shape when the nodes that are added hang nowhere, hold nothing and are
\* no documents, and the others keep theirs.
LEMMA ShapeKept ==
    ASSUME NEW t, NEW ctx, NEW u, Document \in DOMAIN t, ctx # NULL => ctx \in DOMAIN t,
           Shape(t, ctx),
           \A n \in DOMAIN t : u[n].type = t[n].type /\ (n \in {Document, ctx} => u[n].parent = NULL),
           \A n \in DOMAIN t : ~IsContainer(t[n]) => u[n].kids = t[n].kids,
           \A n \in DOMAIN u \ DOMAIN t : u[n].type # "document" /\ u[n].kids = <<>>
    PROVE  Shape(u, ctx)
  BY DEF Shape, IsContainer

\* A node that is not the document, nor the context, is appended to a container.
LEMMA AppendShape ==
    ASSUME NEW t, t \in Seq(Nodes(Len(t))), NEW parent \in DOMAIN t, NEW n \in DOMAIN t,
           NEW ctx, Document \in DOMAIN t, ctx # NULL => ctx \in DOMAIN t,
           n \notin {Document, ctx}, IsContainer(t[parent]), Shape(t, ctx)
    PROVE  Shape(append_node(t, parent, n), ctx)
  <1> DEFINE S == Nodes(Len(t))
             Ptr == 1..Len(t)
             u == append_node(t, parent, n)
  <1>1. NodeSet(S, Ptr) /\ t \in Seq(S) /\ DOMAIN t \subseteq Ptr
    BY TypedTable, NodesAreNodes
  <1> HIDE DEF S, Ptr
  <1>2. /\ DOMAIN u = DOMAIN t
        /\ \A k \in DOMAIN t :
              /\ u[k].type = t[k].type
              /\ u[k].parent = IF k = n THEN parent ELSE t[k].parent
              /\ u[k].kids = IF k = parent THEN Append(t[k].kids, n) ELSE t[k].kids
    BY <1>1, AppendFields
  <1> HIDE DEF u
  <1>3. /\ \A k \in DOMAIN t : k \in {Document, ctx} => u[k].parent = NULL
        /\ \A k \in DOMAIN t : ~IsContainer(t[k]) => u[k].kids = t[k].kids
    BY <1>2 DEF Shape, NULL, Document
  <1>4. Shape(u, ctx)
    BY <1>2, <1>3, ShapeKept
  <1> QED
    BY <1>4 DEF u

\* Such a node is inserted into a container.
LEMMA InsertShape ==
    ASSUME NEW t, t \in Seq(Nodes(Len(t))), NEW loc, loc.target \in DOMAIN t, NEW n \in DOMAIN t,
           loc.index # -1 => loc.index \in 0..(Len(t[loc.target].kids) - 1),
           NEW ctx, Document \in DOMAIN t, ctx # NULL => ctx \in DOMAIN t,
           n \notin {Document, ctx}, IsContainer(t[loc.target]), Shape(t, ctx)
    PROVE  Shape(insert_node(t, n, loc), ctx)
  <1>1. CASE loc.index = -1
    BY <1>1, AppendShape DEF insert_node
  <1>2. CASE loc.index # -1
    <2> DEFINE S == Nodes(Len(t))
               Ptr == 1..Len(t)
               target == loc.target
               at == loc.index + 1
               u == Inserted(t, n, target, at)
    <2>1. NodeSet(S, Ptr) /\ t \in Seq(S) /\ DOMAIN t \subseteq Ptr
      BY TypedTable, NodesAreNodes
    <2>2. target \in DOMAIN t
      OBVIOUS
    <2>3. at \in 1..Len(t[target].kids)
      <3>1. t[target] \in S
        BY <2>1, <2>2
      <3> HIDE DEF S, Ptr
      <3>2. Len(t[target].kids) \in Nat
        BY <2>1, <3>1, NodeFields
      <3> QED
        BY <1>2, <3>2
    <2>4. insert_node(t, n, loc) = u
      BY <1>2 DEF insert_node, Inserted
    <2>5. IsContainer(t[target])
      OBVIOUS
    <2> HIDE DEF S, Ptr, target, at
    <2>6. PutIn(t, u, n, target, InsertAt(t[target].kids, at, n), at)
      BY <2>1, <2>2, <2>3, InsertFields
    <2> HIDE DEF u
    <2>7. /\ DOMAIN u = DOMAIN t
          /\ \A k \in DOMAIN t :
                /\ u[k].type = t[k].type
                /\ u[k].parent = IF k = n THEN target ELSE t[k].parent
                /\ k # target => u[k].kids = t[k].kids
      BY <2>6 DEF PutIn
    <2>8. /\ \A k \in DOMAIN t : k \in {Document, ctx} => u[k].parent = NULL
          /\ \A k \in DOMAIN t : ~IsContainer(t[k]) => u[k].kids = t[k].kids
      BY <2>5, <2>7 DEF Shape, NULL, Document
    <2>9. Shape(u, ctx)
      BY <2>7, <2>8, ShapeKept
    <2> QED
      BY <2>4, <2>9
  <1> QED
    BY <1>1, <1>2

\* A node leaves its parent, which is a container: it had a child.
LEMMA RemoveShape ==
    ASSUME NEW t, t \in Seq(Nodes(Len(t))), NEW n \in DOMAIN t,
           NEW ctx, Document \in DOMAIN t, ctx # NULL => ctx \in DOMAIN t, Sound(t), Shape(t, ctx)
    PROVE  Shape(remove_from_parent(t, n), ctx)
  <1> DEFINE S == Nodes(Len(t))
             Ptr == 1..Len(t)
             u == remove_from_parent(t, n)
             q == t[n].parent
  <1>1. NodeSet(S, Ptr) /\ t \in Seq(S) /\ DOMAIN t \subseteq Ptr
    BY TypedTable, NodesAreNodes
  <1> HIDE DEF S, Ptr
  <1>2. CASE q = NULL
    BY <1>2 DEF remove_from_parent
  <1>3. CASE q # NULL
    <2>1. q \in DOMAIN t /\ t[q].kids # <<>>
      BY <1>3 DEF Sound
    <2>2. IsContainer(t[q])
      BY <2>1 DEF Shape
    <2>3. KidRemoved(t, u, n, RemoveAt(t[q].kids, PositionIn(t[q].kids, n)), PositionIn(t[q].kids, n))
      BY <1>1, <1>3, <2>1, RemoveFields
    <2> HIDE DEF u
    <2>4. /\ DOMAIN u = DOMAIN t
          /\ \A k \in DOMAIN t :
                /\ u[k].type = t[k].type
                /\ u[k].parent = IF k = n THEN NULL ELSE t[k].parent
                /\ k # q => u[k].kids = t[k].kids
      BY <2>3 DEF KidRemoved
    <2>5. /\ \A k \in DOMAIN t : k \in {Document, ctx} => u[k].parent = NULL
          /\ \A k \in DOMAIN t : ~IsContainer(t[k]) => u[k].kids = t[k].kids
      BY <2>2, <2>4 DEF Shape, NULL, Document
    <2>6. Shape(u, ctx)
      BY <2>4, <2>5, ShapeKept
    <2> QED
      BY <2>6 DEF u
  <1> QED
    BY <1>2, <1>3

\* The children move to another container.
LEMMA MoveShape ==
    ASSUME NEW t, t \in Seq(Nodes(Len(t))), NEW from \in DOMAIN t, NEW to \in DOMAIN t, from # to,
           NEW ctx, Document \in DOMAIN t, ctx # NULL => ctx \in DOMAIN t, Sound(t), Shape(t, ctx),
           t[to].kids = <<>>, IsContainer(t[from]) => IsContainer(t[to])
    PROVE  Shape(move_children(t, from, to), ctx)
  <1> DEFINE S == Nodes(Len(t))
             Ptr == 1..Len(t)
             u == move_children(t, from, to)
  <1>1. NodeSet(S, Ptr) /\ t \in Seq(S) /\ DOMAIN t \subseteq Ptr
    BY TypedTable, NodesAreNodes
  <1> HIDE DEF S, Ptr
  <1>2. Moved(t, u, from, to)
    BY <1>1, MoveFields
  <1> HIDE DEF u
  <1>3. ASSUME NEW k \in DOMAIN t, k \in {Document, ctx} PROVE u[k].parent = NULL
    <2>1. t[k].parent = NULL
      BY <1>3 DEF Shape, NULL, Document
    <2>2. from # NULL
      BY <1>1, TypedTable DEF NULL
    <2>3. k \notin ToSet(t[from].kids)
      BY <2>1, <2>2 DEF ToSet, Sound
    <2> QED
      BY <1>2, <2>1, <2>3 DEF Moved
  <1>4. ASSUME NEW k \in DOMAIN t, ~IsContainer(t[k]) PROVE u[k].kids = t[k].kids
    BY <1>2, <1>4 DEF Moved, Shape
  <1>5. Shape(u, ctx)
    BY <1>2, <1>3, <1>4, ShapeKept DEF Moved
  <1> QED
    BY <1>5 DEF u

\* A node is added that is no document, hangs nowhere and holds nothing.
LEMMA CreateShape ==
    ASSUME NEW t, t \in Seq(Nodes(Len(t))), NEW x \in Fresh, NEW ctx,
           Document \in DOMAIN t, ctx # NULL => ctx \in DOMAIN t, Shape(t, ctx)
    PROVE  Shape(Append(t, x), ctx)
  <1> DEFINE u == Append(t, x)
  <1>1. x.parent = NULL /\ x.kids = <<>> /\ x.type # "document" /\ x \in Nodes(0)
    BY FreshFields DEF Fresh
  <1>2. x \in Nodes(Len(t)) /\ Len(t) \in Nat /\ DOMAIN t = 1..Len(t)
    BY <1>1, TypedTable, FreshFields
  <1>3. /\ \A n \in DOMAIN t : u[n] = t[n]
        /\ u[Len(t) + 1] = x
    BY <1>1, <1>2, CreateFollows
  <1>4. DOMAIN u = 1..(Len(t) + 1)
    BY <1>2
  <1> HIDE DEF u
  <1>5. \A n \in DOMAIN t : n \in {Document, ctx} => u[n].parent = NULL
    BY <1>3 DEF Shape, NULL, Document
  <1>6. ASSUME NEW n \in DOMAIN u \ DOMAIN t PROVE u[n] = x
    <2>1. n = Len(t) + 1
      BY <1>2, <1>4
    <2> QED
      BY <1>3, <2>1
  <1>7. Shape(u, ctx)
    BY <1>1, <1>3, <1>5, <1>6, ShapeKept
  <1> QED
    BY <1>7 DEF u

\* merge_attributes leaves the links.
LEMMA DataShape ==
    ASSUME NEW t, t \in Seq(Nodes(Len(t))), NEW n, NEW data, NEW ctx,
           Document \in DOMAIN t, ctx # NULL => ctx \in DOMAIN t, Shape(t, ctx)
    PROVE  Shape([t EXCEPT ![n].data = @ \cup data], ctx)
  <1> DEFINE u == [t EXCEPT ![n].data = @ \cup data]
  <1>1. \A k \in DOMAIN t : t[k] \in Nodes(Len(t))
    BY TypedTable
  <1>2. DOMAIN u = DOMAIN t
    OBVIOUS
  <1>3. ASSUME NEW k \in DOMAIN t
        PROVE  u[k].type = t[k].type /\ u[k].parent = t[k].parent /\ u[k].kids = t[k].kids
    <2>1. u[k] = IF k = n THEN [t[k] EXCEPT !.data = @ \cup data] ELSE t[k]
      OBVIOUS
    <2>2. t[k] \in Nodes(Len(t))
      BY <1>1
    <2> HIDE DEF u, Indices
    <2> QED
      BY <2>1, <2>2 DEF Nodes, NodesOf
  <1> HIDE DEF u
  <1>4. \A k \in DOMAIN t : k \in {Document, ctx} => u[k].parent = NULL
    BY <1>3 DEF Shape, NULL, Document
  <1>5. Shape(u, ctx)
    BY <1>2, <1>3, <1>4, ShapeKept
  <1> QED
    BY <1>5 DEF u

\* Sequences over a set are sequences over a larger one.
LEMMA SeqWiden ==
    ASSUME NEW A, NEW B, A \subseteq B
    PROVE  Seq(A) \subseteq Seq(B)
  OBVIOUS

\* What a good state says of its table and of the pointers into it.
LEMMA GoodFacts ==
    ASSUME NEW q, Good(q)
    PROVE  /\ Len(q.nodes) \in Nat /\ Len(q.nodes) >= 1 /\ DOMAIN q.nodes = 1..Len(q.nodes)
           /\ q.nodes \in Seq(Nodes(Len(q.nodes)))
           /\ \A n \in DOMAIN q.nodes : q.nodes[n] \in Nodes(Len(q.nodes))
           /\ Document \in DOMAIN q.nodes
           /\ q.open \in Seq(Elems(q)) /\ q.open \in Seq(1..Len(q.nodes))
           /\ q.afe \in Seq(Elems(q) \cup {Marker}) /\ q.afe \in Seq(1..Len(q.nodes) \cup {Marker})
           /\ {q.root, q.head, q.form} \subseteq Elems(q) \cup {NULL}
           /\ {q.root, q.head, q.form, q.ctx} \subseteq 1..Len(q.nodes) \cup {NULL}
           /\ Len(q.open) \in Nat /\ DOMAIN q.open = 1..Len(q.open)
           /\ Len(q.afe) \in Nat /\ DOMAIN q.afe = 1..Len(q.afe)
           /\ Elems(q) \subseteq 1..Len(q.nodes)
           /\ q.ctx # NULL => q.ctx \in DOMAIN q.nodes /\ q.nodes[q.ctx].type \in Holders
  <1>1. /\ q.open \in Seq(Elems(q))
        /\ q.afe \in Seq(Elems(q) \cup {Marker})
        /\ {q.root, q.head, q.form} \subseteq Elems(q) \cup {NULL}
        /\ q.ctx # NULL => q.ctx \in DOMAIN q.nodes /\ q.nodes[q.ctx].type \in Holders
        /\ Len(q.nodes) >= 1
    BY DEF Good, Points, Elems
  <1>2. /\ Len(q.nodes) \in Nat /\ DOMAIN q.nodes = 1..Len(q.nodes)
        /\ q.nodes \in Seq(Nodes(Len(q.nodes)))
        /\ \A n \in DOMAIN q.nodes : q.nodes[n] \in Nodes(Len(q.nodes))
    BY TypedTable DEF Good, Built
  <1>3. Elems(q) \subseteq 1..Len(q.nodes)
    BY <1>2 DEF Elems, ElementsOf
  <1>4. Document \in DOMAIN q.nodes
    BY ONLY <1>1, <1>2 DEF Document
  <1>5. q.open \in Seq(1..Len(q.nodes)) /\ q.afe \in Seq(1..Len(q.nodes) \cup {Marker})
    <2>1. Elems(q) \cup {Marker} \subseteq 1..Len(q.nodes) \cup {Marker}
      BY <1>3
    <2> QED
      BY <1>1, <1>3, <2>1, SeqWiden
  <1> DEFINE A == Elems(q)
             B == Elems(q) \cup {Marker}
  <1>6. q.open \in Seq(A) /\ q.afe \in Seq(B)
    BY <1>1
  <1> HIDE DEF A, B
  <1>7. /\ Len(q.open) \in Nat /\ DOMAIN q.open = 1..Len(q.open)
        /\ Len(q.afe) \in Nat /\ DOMAIN q.afe = 1..Len(q.afe)
    BY <1>6
  <1>8. {q.root, q.head, q.form, q.ctx} \subseteq 1..Len(q.nodes) \cup {NULL}
    BY <1>1, <1>2, <1>3
  <1> QED
    BY <1>1, <1>2, <1>3, <1>4, <1>5, <1>7, <1>8

\* The elements of the parser are nodes, and none of them is the document or the context.
LEMMA ElemsFacts ==
    ASSUME NEW q, Good(q)
    PROVE  /\ Elems(q) \subseteq Nat /\ Elems(q) \cup {NULL} \subseteq Nat
           /\ Elems(q) \cup {Marker} \subseteq Int
           /\ \A n \in Elems(q) :
                 /\ n \in Nat /\ n \in 1..Len(q.nodes) /\ n \in DOMAIN q.nodes
                 /\ n # q.ctx /\ n # NULL /\ n # Marker
                 /\ q.nodes[n].type \in Holders /\ q.nodes[n].type # "document"
                 /\ Movable(q, n)
  <1>1. Elems(q) \subseteq 1..Len(q.nodes) /\ Len(q.nodes) \in Nat /\ DOMAIN q.nodes = 1..Len(q.nodes)
    BY GoodFacts
  <1>2. 1..Len(q.nodes) \subseteq Nat /\ NULL \in Nat /\ Marker \in Int /\ Nat \subseteq Int
        /\ \A n \in 1..Len(q.nodes) : n # NULL /\ n # Marker
    BY ONLY <1>1 DEF NULL, Marker
  <1>3. ASSUME NEW n \in Elems(q)
        PROVE  n # q.ctx /\ q.nodes[n].type \in Holders
    BY DEF Elems, ElementsOf
  <1>4. \A x \in Holders : x # "document"
    BY DEF Holders, ElementTypes
  <1>5. \A n \in Elems(q) : Movable(q, n)
    BY <1>1, <1>3, <1>4 DEF Movable
  <1>6. Elems(q) \subseteq Nat
    BY <1>1, <1>2
  <1> HIDE DEF NULL, Marker
  <1>7. Elems(q) \cup {NULL} \subseteq Nat /\ Elems(q) \cup {Marker} \subseteq Int
    BY ONLY <1>2, <1>6
  <1> QED
    BY <1>1, <1>2, <1>3, <1>4, <1>5, <1>6, <1>7

\* The fields that are no pointers have their types.
LEMMA RecordFacts ==
    ASSUME NEW q, Good(q)
    PROVE  /\ q.mode \in Modes /\ q.orig \in Modes /\ q.lexer \in LexerStates /\ q.rawtag \in Names
           /\ q.tmodes \in Seq(Modes) /\ q.pending \in Pending /\ q.failed \in Assertions \cup {""}
           /\ q.reprocess \in BOOLEAN /\ q.owned \in BOOLEAN
  BY DEF Good, States

\* A field that is no pointer can take any value of its type.
LEMMA SetPlain ==
    ASSUME NEW q, Good(q)
    PROVE  /\ \A x \in Modes : Good([q EXCEPT !.mode = x])
           /\ \A x \in Modes : Good([q EXCEPT !.orig = x])
           /\ \A x \in LexerStates : Good([q EXCEPT !.lexer = x])
           /\ \A x \in Names : Good([q EXCEPT !.rawtag = x])
           /\ \A x \in Seq(Modes) : Good([q EXCEPT !.tmodes = x])
           /\ \A x \in Pending : Good([q EXCEPT !.pending = x])
           /\ \A x \in BOOLEAN : Good([q EXCEPT !.reprocess = x])
           /\ \A x \in BOOLEAN : Good([q EXCEPT !.fok = x])
           /\ \A x \in BOOLEAN : Good([q EXCEPT !.ignoreLF = x])
           /\ \A x \in BOOLEAN : Good([q EXCEPT !.foster = x])
           /\ \A x \in BOOLEAN : Good([q EXCEPT !.quirks = x])
           /\ \A x \in BOOLEAN : Good([q EXCEPT !.has_doctype = x])
           /\ \A x \in BOOLEAN : Good([q EXCEPT !.owned = x])
  <1>1. q \in States
    BY DEF Good
  <1>2. ASSUME NEW r \in States,
               r.nodes = q.nodes, r.failed = q.failed, r.ctx = q.ctx, r.open = q.open,
               r.afe = q.afe, r.root = q.root, r.head = q.head, r.form = q.form
        PROVE  Good(r)
    BY <1>2 DEF Good
  <1>3. \A x \in Modes : Good([q EXCEPT !.mode = x]) /\ Good([q EXCEPT !.orig = x])
    BY <1>1, <1>2 DEF States
  <1>4. \A x \in LexerStates : Good([q EXCEPT !.lexer = x])
    BY <1>1, <1>2 DEF States
  <1>5. \A x \in Names : Good([q EXCEPT !.rawtag = x])
    BY <1>1, <1>2 DEF States
  <1>6. \A x \in Seq(Modes) : Good([q EXCEPT !.tmodes = x])
    BY <1>1, <1>2 DEF States
  <1>7. \A x \in Pending : Good([q EXCEPT !.pending = x])
    BY <1>1, <1>2 DEF States
  <1>8. \A x \in BOOLEAN :
           /\ Good([q EXCEPT !.reprocess = x]) /\ Good([q EXCEPT !.fok = x])
           /\ Good([q EXCEPT !.ignoreLF = x]) /\ Good([q EXCEPT !.foster = x])
    BY <1>1, <1>2 DEF States
  <1>9. \A x \in BOOLEAN :
           /\ Good([q EXCEPT !.quirks = x]) /\ Good([q EXCEPT !.has_doctype = x])
           /\ Good([q EXCEPT !.owned = x])
    BY <1>1, <1>2 DEF States
  <1> QED
    BY <1>3, <1>4, <1>5, <1>6, <1>7, <1>8, <1>9

\* A pointer can be set to any element, or to NULL.
LEMMA SetPointer ==
    ASSUME NEW q, Good(q), NEW x \in Elems(q) \cup {NULL}
    PROVE  /\ Good([q EXCEPT !.root = x])
           /\ Good([q EXCEPT !.head = x])
           /\ Good([q EXCEPT !.form = x])
  <1>1. x \in Nat
    BY ElemsFacts
  <1>2. x \in ElementsOf(q.nodes, q.ctx) \cup {NULL}
    BY DEF Elems
  <1>3. /\ q \in States
        /\ Built(q.nodes, q.failed, q.ctx)
        /\ Points(q.nodes, q.open, q.afe, q.root, q.head, q.form, q.ctx)
    BY DEF Good
  <1>4. /\ Points(q.nodes, q.open, q.afe, x, q.head, q.form, q.ctx)
        /\ Points(q.nodes, q.open, q.afe, q.root, x, q.form, q.ctx)
        /\ Points(q.nodes, q.open, q.afe, q.root, q.head, x, q.ctx)
    BY <1>2, <1>3 DEF Points
  <1> QED
    BY <1>1, <1>3, <1>4 DEF Good, States

\* The stack can be any sequence of elements.
LEMMA SetOpen ==
    ASSUME NEW q, Good(q), NEW s \in Seq(Elems(q))
    PROVE  Good([q EXCEPT !.open = s])
  <1>1. s \in Seq(Nat)
    <2>1. Elems(q) \subseteq Nat
      BY ElemsFacts
    <2> QED
      BY <2>1, SeqWiden
  <1>2. Points(q.nodes, s, q.afe, q.root, q.head, q.form, q.ctx)
    BY DEF Good, Points, Elems
  <1> QED
    BY <1>1, <1>2 DEF Good, States

\* The list can be any sequence of elements and markers.
LEMMA SetAfe ==
    ASSUME NEW q, Good(q), NEW s \in Seq(Elems(q) \cup {Marker})
    PROVE  Good([q EXCEPT !.afe = s])
  <1>1. s \in Seq(Int)
    <2>1. Elems(q) \cup {Marker} \subseteq Int
      BY ElemsFacts
    <2> QED
      BY <2>1, SeqWiden
  <1>2. Points(q.nodes, q.open, s, q.root, q.head, q.form, q.ctx)
    BY DEF Good, Points, Elems
  <1> QED
    BY <1>1, <1>2 DEF Good, States

\* The table can be replaced by one that comes after it.
LEMMA SetNodes ==
    ASSUME NEW q, Good(q), NEW u, Follows(q.nodes, u),
           ~Freed(q.nodes) /\ Sound(q.nodes) /\ Shape(q.nodes, q.ctx) => Shape(u, q.ctx)
    PROVE  LET r == [q EXCEPT !.nodes = u]
           IN  /\ Good(r) /\ Elems(q) \subseteq Elems(r) /\ r.nodes = u
               /\ r.open = q.open /\ r.afe = q.afe /\ r.ctx = q.ctx
  <1> DEFINE r == [q EXCEPT !.nodes = u]
             A == ElementsOf(q.nodes, q.ctx)
             B == ElementsOf(u, q.ctx)
  <1>1. Built(u, q.failed, q.ctx)
    BY GoodFacts, TableStep DEF Good
  <1>2. u \in Tables /\ Len(q.nodes) <= Len(u) /\ Len(u) \in Nat /\ DOMAIN u = 1..Len(u)
    BY TypedTable DEF Follows
  <1>3. Len(q.nodes) \in Nat /\ Len(q.nodes) >= 1 /\ DOMAIN q.nodes = 1..Len(q.nodes)
        /\ Document \in DOMAIN q.nodes
    BY GoodFacts
  <1>4. DOMAIN q.nodes \subseteq DOMAIN u /\ \A n \in DOMAIN q.nodes : u[n].type = q.nodes[n].type
    BY <1>2, <1>3 DEF Follows
  <1>5. A \subseteq B
    BY <1>4 DEF ElementsOf
  <1>6. Points(q.nodes, q.open, q.afe, q.root, q.head, q.form, q.ctx)
    BY DEF Good
  <1>7. q.open \in Seq(A) /\ q.afe \in Seq(A \cup {Marker})
    BY <1>6 DEF Points
  <1> HIDE DEF A, B
  <1>8. q.open \in Seq(B) /\ q.afe \in Seq(B \cup {Marker})
    <2>1. A \cup {Marker} \subseteq B \cup {Marker}
      BY <1>5
    <2> QED
      BY <1>5, <1>7, <2>1, SeqWiden
  <1>9. Len(u) >= 1
    BY ONLY <1>2, <1>3
  <1>10. {q.root, q.head, q.form} \subseteq B \cup {NULL}
    BY <1>5, <1>6 DEF A, Points
  <1>11. Points(u, q.open, q.afe, q.root, q.head, q.form, q.ctx)
    BY <1>3, <1>4, <1>6, <1>8, <1>9, <1>10 DEF B, Points
  <1>12. Good(r)
    BY <1>1, <1>2, <1>11 DEF Good, States
  <1>13. r.nodes = u /\ r.open = q.open /\ r.afe = q.afe /\ r.ctx = q.ctx
    BY DEF Good, States
  <1> QED
    BY <1>5, <1>12, <1>13 DEF A, B, Elems

\* What Require makes of a state when its condition does not hold.
Failed(q, label) == [q EXCEPT !.failed = IF @ = "" THEN label ELSE @]

\* A state in which an assertion has failed is good: of its table only the type is asked.
LEMMA RequireFails ==
    ASSUME NEW q, Good(q), NEW label \in Assertions
    PROVE  Good(Failed(q, label))
  <1> DEFINE f == IF q.failed = "" THEN label ELSE q.failed
  <1>1. f \in Assertions
    BY RecordFacts
  <1> HIDE DEF f
  <1>0. f \in Assertions \cup {""} /\ f # ""
    BY <1>1 DEF Assertions
  <1>2. Built(q.nodes, f, q.ctx)
    BY <1>0 DEF Good, Built
  <1>3. Good([q EXCEPT !.failed = f])
    BY <1>0, <1>2 DEF Good, States
  <1> QED
    BY <1>3 DEF f, Failed

-----------------------------------------------------------------------------
\* Only the links of the table change.
Kept(q, r) ==
    /\ Len(r.nodes) = Len(q.nodes) /\ r.open = q.open /\ r.afe = q.afe
    /\ Elems(r) = Elems(q) /\ \A n : Movable(q, n) => Movable(r, n)

\* A failed assertion leaves the table, the stack and the list.
LEMMA RequireKeeps ==
    ASSUME NEW q, Good(q), NEW label
    PROVE  Kept(q, Failed(q, label))
  BY DEF Good, States, Kept, Failed, Elems, Movable

\* assert() gives a good state when both its outcomes are.
LEMMA RequireGood ==
    ASSUME NEW q, Good(q), NEW r, Good(r), NEW cond, NEW label \in Assertions
    PROVE  Good(Require(q, cond, label, r))
  <1>1. Good(Failed(q, label))
    BY RequireFails
  <1> QED
    BY <1>1 DEF Require, Failed

\* A new table of the same nodes leaves the stack and the list.
LEMMA NodesKept ==
    ASSUME NEW q, Good(q), NEW u, Follows(q.nodes, u), Len(u) = Len(q.nodes),
           ~Freed(q.nodes) /\ Sound(q.nodes) /\ Shape(q.nodes, q.ctx) => Shape(u, q.ctx)
    PROVE  LET r == [q EXCEPT !.nodes = u]
           IN  Good(r) /\ Kept(q, r) /\ r.nodes = u
  <1> DEFINE r == [q EXCEPT !.nodes = u]
  <1>1. Good(r) /\ r.nodes = u /\ r.open = q.open /\ r.afe = q.afe /\ r.ctx = q.ctx
    BY SetNodes
  <1> HIDE DEF r
  <1>2. DOMAIN u = DOMAIN q.nodes /\ \A n \in DOMAIN q.nodes : u[n].type = q.nodes[n].type
    <2>1. DOMAIN r.nodes = 1..Len(r.nodes) /\ DOMAIN q.nodes = 1..Len(q.nodes)
      BY <1>1, GoodFacts
    <2> QED
      BY <1>1, <2>1 DEF Follows
  <1>3. Elems(r) = Elems(q)
    BY <1>1, <1>2 DEF Elems, ElementsOf
  <1>4. ASSUME NEW n, Movable(q, n) PROVE Movable(r, n)
    <2>1. n \in DOMAIN q.nodes
      BY <1>4, GoodFacts DEF Movable
    <2> QED
      BY <1>1, <1>2, <1>4, <2>1 DEF Movable
  <1> QED
    BY <1>1, <1>3, <1>4 DEF Kept, r

\* append_node with its assertions.
LEMMA AppendToGood ==
    ASSUME NEW q, Good(q), NEW parent, NEW n, Movable(q, n)
    PROVE  Good(AppendTo(q, parent, n)) /\ Kept(q, AppendTo(q, parent, n))
  <1> DEFINE u == append_node(q.nodes, parent, n)
             r == [q EXCEPT !.nodes = u]
  <1>1. ASSUME parent \in DOMAIN q.nodes, q.nodes[n].parent = NULL, IsContainer(q.nodes[parent])
        PROVE  Good(r) /\ Kept(q, r)
    <2>1. n \in DOMAIN q.nodes
      BY GoodFacts DEF Movable
    <2>2. Follows(q.nodes, u) /\ Len(u) = Len(q.nodes)
      BY <1>1, <2>1, GoodFacts, AppendFollows
    <2>3. ASSUME Shape(q.nodes, q.ctx) PROVE Shape(u, q.ctx)
      <3>1. n \notin {Document, q.ctx}
        BY <2>3 DEF Movable, Shape
      <3> QED
        BY <1>1, <2>1, <2>3, <3>1, GoodFacts, AppendShape
    <2> HIDE DEF u
    <2> QED
      BY <2>2, <2>3, NodesKept
  <1> HIDE DEF r
  <1>2. /\ Good(Failed(q, "append_node"))
        /\ Kept(q, Failed(q, "append_node"))
    BY RequireFails, RequireKeeps DEF Assertions
  <1>3. AppendTo(q, parent, n) =
          IF /\ parent \in DOMAIN q.nodes
             /\ q.nodes[n].parent = NULL
             /\ IsContainer(q.nodes[parent])
          THEN r ELSE Failed(q, "append_node")
    BY DEF AppendTo, Require, Failed, r
  <1> QED
    BY <1>1, <1>2, <1>3

\* insert_node with its assertions.
LEMMA InsertAtLocationGood ==
    ASSUME NEW q, Good(q), NEW loc, NEW n, Movable(q, n)
    PROVE  Good(InsertAtLocation(q, n, loc)) /\ Kept(q, InsertAtLocation(q, n, loc))
  <1> DEFINE u == insert_node(q.nodes, n, loc)
             r == [q EXCEPT !.nodes = Settled(u)]
  <1>1. ASSUME Fits(q.nodes, n, loc)
        PROVE  Good(r) /\ Kept(q, r)
    <2>0. n \in DOMAIN q.nodes
      BY GoodFacts DEF Movable
    <2>1. Follows(q.nodes, u) /\ Len(u) = Len(q.nodes)
      BY <1>1, <2>0, GoodFacts, InsertFollows DEF Fits
    <2>2. Settled(u) = u
      BY <2>1, SettledSame DEF Follows
    <2>3. ASSUME Shape(q.nodes, q.ctx) PROVE Shape(u, q.ctx)
      <3>1. n \notin {Document, q.ctx}
        BY <2>3 DEF Movable, Shape
      <3> QED
        BY <1>1, <2>0, <2>3, <3>1, GoodFacts, InsertShape DEF Fits
    <2> HIDE DEF u
    <2> QED
      BY <2>1, <2>2, <2>3, NodesKept
  <1>2. /\ Good(Failed(q, "insert_node"))
        /\ Kept(q, Failed(q, "insert_node"))
    BY RequireFails, RequireKeeps DEF Assertions
  <1>3. InsertAtLocation(q, n, loc) =
          IF Fits(q.nodes, n, loc) THEN r ELSE Failed(q, "insert_node")
    BY DEF InsertAtLocation, Require, Failed
  <1> HIDE DEF r
  <1> QED
    BY <1>1, <1>2, <1>3

\* remove_from_parent with its assertion.
LEMMA DetachGood ==
    ASSUME NEW q, Good(q), NEW n \in 1..Len(q.nodes)
    PROVE  Good(Detach(q, n)) /\ Kept(q, Detach(q, n))
  <1> DEFINE u == remove_from_parent(q.nodes, n)
             r == [q EXCEPT !.nodes = Settled(u)]
  <1>1. Good(r) /\ Kept(q, r)
    <2>1. Follows(q.nodes, u) /\ Len(u) = Len(q.nodes)
      BY GoodFacts, RemoveFollows
    <2>2. Settled(u) = u
      BY <2>1, SettledSame DEF Follows
    <2>3. Sound(q.nodes) /\ Shape(q.nodes, q.ctx) => Shape(u, q.ctx)
      BY GoodFacts, RemoveShape
    <2> HIDE DEF u
    <2> QED
      BY <2>1, <2>2, <2>3, NodesKept
  <1>2. /\ Good(Failed(q, "remove_from_parent"))
        /\ Kept(q, Failed(q, "remove_from_parent"))
    BY RequireFails, RequireKeeps DEF Assertions
  <1>3. Detach(q, n) \in {r, Failed(q, "remove_from_parent")}
    BY DEF Detach, Require, Failed
  <1> HIDE DEF r
  <1> QED
    BY <1>1, <1>2, <1>3

\* A fresh node gets the next number.
LEMMA CreateGood ==
    ASSUME NEW q, Good(q), NEW x \in Fresh
    PROVE  LET r == Create(q, x)
           IN  /\ Good(r) /\ Len(r.nodes) = Len(q.nodes) + 1
               /\ r.open = q.open /\ r.afe = q.afe /\ r.ctx = q.ctx
               /\ r.nodes[Len(q.nodes) + 1] = x
               /\ \A n \in 1..Len(q.nodes) : r.nodes[n] = q.nodes[n]
               /\ NextId(q) = Len(q.nodes) + 1 /\ NextId(q) \in 1..Len(r.nodes)
               /\ Movable(r, NextId(q)) /\ Elems(q) \subseteq Elems(r)
               /\ x \in FreshElements => NextId(q) \in Elems(r)
  <1> DEFINE u == Append(q.nodes, x)
             r == [q EXCEPT !.nodes = u]
  <1>0. x \in Nodes(Len(q.nodes)) /\ x.parent = NULL /\ x.kids = <<>>
    BY GoodFacts, FreshFields DEF Fresh
  <1>1. /\ Follows(q.nodes, u) /\ Len(u) = Len(q.nodes) + 1
        /\ u[Len(q.nodes) + 1] = x
        /\ \A n \in 1..Len(q.nodes) : u[n] = q.nodes[n]
    <2> DEFINE t == q.nodes
    <2>1. t \in Seq(Nodes(Len(t))) /\ x \in Nodes(Len(t)) /\ DOMAIN t = 1..Len(t)
      BY <1>0, GoodFacts
    <2> HIDE DEF t
    <2>2. /\ Follows(t, Append(t, x)) /\ Len(Append(t, x)) = Len(t) + 1
          /\ Append(t, x)[Len(t) + 1] = x
          /\ \A n \in DOMAIN t : Append(t, x)[n] = t[n]
      BY ONLY <1>0, <2>1, CreateFollows
    <2> QED
      BY <2>1, <2>2 DEF t, u
  <1>5. Shape(q.nodes, q.ctx) => Shape(u, q.ctx)
    BY GoodFacts, CreateShape
  <1> HIDE DEF u
  <1>2. /\ Good(r) /\ r.nodes = u /\ r.open = q.open /\ r.afe = q.afe /\ r.ctx = q.ctx
        /\ Elems(q) \subseteq Elems(r)
    BY <1>1, <1>5, SetNodes
  <1>3. NextId(q) = Len(q.nodes) + 1 /\ Len(q.nodes) + 1 \in 1..(Len(q.nodes) + 1)
    BY GoodFacts DEF NextId
  <1>4. Create(q, x) = r
    BY DEF Create, r, u
  <1> HIDE DEF r
  <1>6. NextId(q) # q.ctx
    <2>1. q.ctx \in 1..Len(q.nodes) \cup {NULL} /\ Len(q.nodes) \in Nat
      BY GoodFacts
    <2> QED
      BY ONLY <1>3, <2>1 DEF NULL
  <1>7. NextId(q) \in DOMAIN r.nodes
    BY <1>1, <1>2, <1>3, GoodFacts
  <1>8. Movable(r, NextId(q)) /\ (x \in FreshElements => NextId(q) \in Elems(r))
    <2>1. r.nodes[NextId(q)] = x
      BY <1>1, <1>2, <1>3
    <2> QED
      BY <1>1, <1>2, <1>3, <1>6, <1>7, <2>1 DEF Movable, Elems, ElementsOf, Fresh, FreshElements
  <1> QED
    BY <1>1, <1>2, <1>3, <1>4, <1>8

\* clone_node gives a fresh node.
LEMMA CloneFresh ==
    ASSUME NEW q, Good(q), NEW n \in Elems(q)
    PROVE  clone_node(q, n) \in FreshElements /\ clone_node(q, n).type = q.nodes[n].type
  <1>1. q.nodes[n] \in Nodes(Len(q.nodes)) /\ q.nodes[n].type \in Holders
    BY GoodFacts DEF Elems, ElementsOf
  <1>2. <<>> \in Seq(1..0) /\ Detached \in Indices
    BY DEF Indices
  <1>3. clone_node(q, n) \in Nodes(0) /\ clone_node(q, n).type = q.nodes[n].type
    <2> HIDE DEF Indices
    <2> QED
      BY <1>1, <1>2 DEF clone_node, Nodes, NodesOf
  <1> HIDE DEF Indices
  <1> QED
    BY <1>1, <1>3 DEF Fresh, FreshElements, Holders, ElementTypes

\* The first n elements; none when n is 0 or less.
LEMMA FrontTyped ==
    ASSUME NEW S, NEW s \in Seq(S), NEW n \in Int, n <= Len(s)
    PROVE  SubSeq(s, 1, n) \in Seq(S) /\ SubSeq(s, 1, n) \in Seq(S)
  <1>1. CASE n >= 0
    BY <1>1, SubSeqProperties
  <1>2. CASE n < 0
    <2>1. SubSeq(s, 1, n) = <<>>
      BY <1>2
    <2> QED
      BY <2>1
  <1> QED
    BY <1>1, <1>2

\* gumbo_vector_remove keeps the elements' set.
LEMMA RemoveFirstTyped ==
    ASSUME NEW S, NEW s \in Seq(S), NEW e
    PROVE  RemoveFirst(s, e) \in Seq(S)
  <1> DEFINE I == {i \in 1..Len(s) : s[i] = e}
             at == IF I # {} THEN Min(I) ELSE 0
  <1>1. CASE I # {}
    <2>1. I \subseteq Nat
      OBVIOUS
    <2>2. Min(I) \in I
      BY <1>1, <2>1, LeastNumber DEF Min
    <2>3. RemoveAt(s, Min(I)) \in Seq(S)
      BY <2>2, RemoveAtProperties
    <2>4. RemoveFirst(s, e) = RemoveAt(s, Min(I))
      BY <1>1 DEF RemoveFirst, SelectInSeq
    <2> QED
      BY <2>3, <2>4
  <1>2. CASE I = {}
    BY <1>2 DEF RemoveFirst
  <1> QED
    BY <1>1, <1>2

\* Where the highest of these positions is, or 0.
Highest(I) == IF I # {} THEN Max(I) ELSE 0
Lowest(I)  == IF I # {} THEN Min(I) ELSE 0

\* A highest and a lowest position lie in the sequence.
LEMMA HighestTyped ==
    ASSUME NEW N \in Nat, NEW I \in SUBSET (1..N)
    PROVE  /\ Highest(I) \in 0..N /\ Lowest(I) \in 0..N
           /\ I # {} => Highest(I) \in I /\ Lowest(I) \in I
  <1>1. CASE I = {}
    BY <1>1 DEF Highest, Lowest
  <1>2. CASE I # {}
    <2>1. Max(I) \in I
      BY <1>2, MaxOfPositions
    <2>2. I \subseteq Nat
      OBVIOUS
    <2>3. Min(I) \in I
      BY <1>2, <2>2, LeastNumber DEF Min
    <2>4. Highest(I) = Max(I) /\ Lowest(I) = Min(I)
      BY <1>2 DEF Highest, Lowest
    <2>5. Max(I) \in 0..N /\ Min(I) \in 0..N
      <3>1. \A x \in I : x \in 0..N
        OBVIOUS
      <3> QED
        BY ONLY <2>1, <2>3, <3>1
    <2> QED
      BY ONLY <2>1, <2>3, <2>4, <2>5
  <1> QED
    BY <1>1, <1>2

\* The current node is allocated, or NULL.
LEMMA CurrentTyped ==
    ASSUME NEW q, Good(q)
    PROVE  /\ get_current_node(q) \in Elems(q) \cup {NULL}
           /\ get_current_node(q) \in 1..Len(q.nodes) \cup {NULL}
           /\ q.open # <<>> => get_current_node(q) \in Elems(q)
  <1>1. q.open \in Seq(Elems(q)) /\ Elems(q) \subseteq 1..Len(q.nodes)
    BY GoodFacts
  <1>2. CASE q.open = <<>>
    BY <1>2 DEF get_current_node
  <1>3. CASE q.open # <<>>
    <2>1. Len(q.open) \in Nat /\ Len(q.open) > 0
      BY <1>1, <1>3
    <2>2. q.open[Len(q.open)] \in Elems(q)
      BY <1>1, <2>1
    <2> QED
      BY <1>1, <1>3, <2>2 DEF get_current_node, Last
  <1> QED
    BY <1>2, <1>3

-----------------------------------------------------------------------------
\* Nodes may be added; the stack and the list stay.
Grown(q, r) ==
    /\ Len(q.nodes) <= Len(r.nodes) /\ r.open = q.open /\ r.afe = q.afe
    /\ Elems(q) \subseteq Elems(r)

\* The text buffer is emptied.
LEMMA NoTextGood ==
    ASSUME NEW q, Good(q)
    PROVE  Good([q EXCEPT !.pending = NoText]) /\ Kept(q, [q EXCEPT !.pending = NoText])
  <1>1. NoText \in Pending
    BY DEF NoText, Pending, TextTypes
  <1>2. Kept(q, [q EXCEPT !.pending = NoText])
    BY DEF Kept, Good, States, Elems, Movable
  <1> QED
    BY <1>1, <1>2, SetPlain

\* maybe_flush_text_node_buffer may add a text node, and leaves the stack and the list.
LEMMA FlushGood ==
    ASSUME NEW q, Good(q)
    PROVE  /\ Good(maybe_flush_text_node_buffer(q))
           /\ Grown(q, maybe_flush_text_node_buffer(q))
  <1> DEFINE loc  == get_appropriate_insertion_location(q, NULL)
             text == NewNode(q.pending.type, "none", "", q.pending.chars)
             e    == [q EXCEPT !.pending = NoText]
             r    == Create(e, text)
             s    == InsertAtLocation(r, NextId(q), loc)
  <1>1. Good(e) /\ Kept(q, e)
    BY NoTextGood
  <1>2. text \in Fresh
    <2>1. q.pending.type \in Types /\ q.pending.chars \in SUBSET Contents /\ q.pending.type # "document"
      BY RecordFacts DEF Pending, Types, NodeTypes, TextTypes
    <2> QED
      BY <2>1, FreshNode DEF Spaces, Names
  <1>3. maybe_flush_text_node_buffer(q) =
           IF q.pending.chars = {} THEN q ELSE IF loc.target = Document THEN e ELSE s
    BY DEF maybe_flush_text_node_buffer
  <1>4. NextId(e) = NextId(q)
    BY <1>1 DEF Kept, NextId
  <1> HIDE DEF text, e, loc
  <1>5. /\ Good(r) /\ Len(r.nodes) = Len(e.nodes) + 1
        /\ r.open = e.open /\ r.afe = e.afe /\ Movable(r, NextId(q)) /\ Elems(e) \subseteq Elems(r)
    BY <1>1, <1>2, <1>4, CreateGood
  <1> HIDE DEF r
  <1>6. Good(s) /\ Kept(r, s)
    BY <1>5, InsertAtLocationGood
  <1> HIDE DEF s
  <1>7. Len(q.nodes) \in Nat
    BY GoodFacts
  <1>8. Grown(q, q) /\ Grown(q, e) /\ Grown(q, s)
    BY <1>1, <1>5, <1>6, <1>7 DEF Kept, Grown
  <1> QED
    BY <1>1, <1>3, <1>6, <1>8

\* Elements are popped, and the text before them is flushed.
LEMMA PopToGood ==
    ASSUME NEW q, Good(q), NEW n \in Int
    PROVE  Good(PopTo(q, n))
  <1> DEFINE r == maybe_flush_text_node_buffer(q)
  <1>1. Good(r) /\ r.open = q.open
    BY FlushGood DEF Grown
  <1> HIDE DEF r
  <1>2. r.open \in Seq(Elems(r)) /\ Len(r.open) \in Nat
    BY <1>1, GoodFacts
  <1>3. ASSUME n <= Len(q.open) PROVE Good([r EXCEPT !.open = SubSeq(@, 1, n)])
    <2>1. SubSeq(r.open, 1, n) \in Seq(Elems(r))
      BY <1>1, <1>2, <1>3, FrontTyped
    <2> QED
      BY <1>1, <2>1, SetOpen
  <1>4. PopTo(q, n) = IF n >= Len(q.open) THEN q ELSE [r EXCEPT !.open = SubSeq(@, 1, n)]
    BY DEF PopTo, r
  <1> QED
    BY <1>1, <1>2, <1>3, <1>4

\* pop_current_node with its assertion.
LEMMA PopCurrentGood ==
    ASSUME NEW q, Good(q)
    PROVE  Good(pop_current_node(q))
  <1>1. Len(q.open) - 1 \in Int
    BY GoodFacts
  <1>2. Good(PopTo(q, Len(q.open) - 1))
    BY <1>1, PopToGood
  <1> QED
    BY <1>2, RequireGood DEF pop_current_node, Assertions

\* What has been appended to is not empty.
LEMMA AppendNotEmpty ==
    ASSUME NEW S, NEW s \in Seq(S), NEW x \in S
    PROVE  Append(s, x) # <<>>
  <1>1. Len(Append(s, x)) = Len(s) + 1 /\ Len(s) \in Nat /\ Len(<<>>) = 0
    OBVIOUS
  <1>2. Len(Append(s, x)) # Len(<<>>)
    BY <1>1
  <1> QED
    BY <1>2

\* insert_element, once the pending text is out.
LEMMA InsertNewGood ==
    ASSUME NEW q, Good(q), NEW node \in FreshElements, NEW loc
    PROVE  LET r == [InsertAtLocation(Create(q, node), NextId(q), loc)
                        EXCEPT !.open = Append(@, NextId(q))]
           IN  /\ Good(r) /\ r.afe = q.afe /\ r.open # <<>> /\ Len(r.nodes) = Len(q.nodes) + 1
               /\ NextId(q) \in Elems(r) /\ Elems(q) \subseteq Elems(r)
  <1> DEFINE c == Create(q, node)
             s == InsertAtLocation(c, NextId(q), loc)
             r == [s EXCEPT !.open = Append(@, NextId(q))]
  <1>0. node \in Fresh
    BY DEF FreshElements
  <1>1. /\ Good(c) /\ Len(c.nodes) = Len(q.nodes) + 1
        /\ c.open = q.open /\ c.afe = q.afe /\ Movable(c, NextId(q)) /\ NextId(q) \in Elems(c)
        /\ Elems(q) \subseteq Elems(c)
    BY <1>0, CreateGood
  <1> HIDE DEF c
  <1>2. Good(s) /\ Kept(c, s)
    BY <1>1, InsertAtLocationGood
  <1> HIDE DEF s
  <1>3. NextId(q) \in Elems(s) /\ s.open \in Seq(Elems(s))
    BY <1>1, <1>2, GoodFacts DEF Kept
  <1>4. Append(s.open, NextId(q)) \in Seq(Elems(s))
    BY <1>3
  <1>5. Good(r)
    BY <1>2, <1>4, SetOpen
  <1>6. r.afe = s.afe /\ r.nodes = s.nodes /\ r.ctx = s.ctx /\ r.open = Append(s.open, NextId(q))
    BY <1>2 DEF Good, States
  <1>8. Append(s.open, NextId(q)) # <<>>
    BY <1>3, AppendNotEmpty
  <1> HIDE DEF r
  <1>9. Elems(r) = Elems(s)
    BY <1>6 DEF Elems
  <1>7. r.afe = q.afe /\ r.open # <<>> /\ Len(r.nodes) = Len(q.nodes) + 1
        /\ NextId(q) \in Elems(r) /\ Elems(q) \subseteq Elems(r)
    BY <1>1, <1>2, <1>3, <1>6, <1>8, <1>9 DEF Kept
  <1> QED
    BY <1>5, <1>7 DEF r, s, c

\* insert_element, with the text flushed before or, when reconstructing, not.
LEMMA InsertElementGood ==
    ASSUME NEW q, Good(q), NEW node \in FreshElements
    PROVE  /\ Good(insert_element(q, node, FALSE)) /\ insert_element(q, node, FALSE).open # <<>>
           /\ Good(insert_element(q, node, TRUE))
           /\ insert_element(q, node, TRUE).afe = q.afe
           /\ Len(insert_element(q, node, TRUE).nodes) = Len(q.nodes) + 1
           /\ NextId(q) \in Elems(insert_element(q, node, TRUE))
           /\ Elems(q) \subseteq Elems(insert_element(q, node, TRUE))
  <1> DEFINE f == maybe_flush_text_node_buffer(q)
             At(s) == get_appropriate_insertion_location(Create(s, node), NULL)
             Insert(s) == [InsertAtLocation(Create(s, node), NextId(s), At(s))
                              EXCEPT !.open = Append(@, NextId(s))]
  <1>1. insert_element(q, node, FALSE) = Insert(f)
    BY DEF insert_element
  <1>2. insert_element(q, node, TRUE) = Insert(q)
    BY DEF insert_element
  <1>3. Good(f)
    BY FlushGood
  <1> HIDE DEF f, At
  <1>4. Good(Insert(f)) /\ Insert(f).open # <<>>
    BY <1>3, InsertNewGood
  <1>5. /\ Good(Insert(q)) /\ Insert(q).afe = q.afe /\ Len(Insert(q).nodes) = Len(q.nodes) + 1
        /\ NextId(q) \in Elems(Insert(q)) /\ Elems(q) \subseteq Elems(Insert(q))
    BY InsertNewGood
  <1> QED
    BY <1>1, <1>2, <1>4, <1>5

\* The token's parts are handed over.
LEMMA TakeTokenGood ==
    ASSUME NEW q, Good(q)
    PROVE  Good(TakeToken(q))
  BY SetPlain DEF TakeToken

\* ignore_token, which fails on a token that is freed already.
LEMMA IgnoreTokenGood ==
    ASSUME NEW q, Good(q), NEW t
    PROVE  Good(ignore_token(q, t))
  <1>1. Good([q EXCEPT !.owned = FALSE])
    BY SetPlain
  <1> QED
    BY <1>1, RequireGood DEF ignore_token, Assertions

\* append_comment_node, whatever the parent is.
LEMMA CommentGood ==
    ASSUME NEW q, Good(q), NEW parent
    PROVE  Good(append_comment_node(q, parent))
  <1> DEFINE f == maybe_flush_text_node_buffer(q)
             node == NewNode("comment", "none", "", {})
             c == Create(f, node)
             r == AppendTo(c, parent, NextId(f))
  <1>1. node \in Fresh
    BY FreshNode DEF Types, NodeTypes, Spaces, Names
  <1>2. append_comment_node(q, parent) = TakeToken(r)
    BY DEF append_comment_node
  <1>3. Good(f)
    BY FlushGood
  <1> HIDE DEF f, node
  <1>4. Good(c) /\ Movable(c, NextId(f))
    BY <1>1, <1>3, CreateGood
  <1> HIDE DEF c
  <1>5. Good(r)
    BY <1>4, AppendToGood
  <1> QED
    BY <1>2, <1>5, TakeTokenGood

\* merge_attributes, whatever the node is.
LEMMA MergeGood ==
    ASSUME NEW q, Good(q), NEW t, t.data \in SUBSET STRING, NEW n
    PROVE  Good(merge_attributes(q, t, n))
  <1> DEFINE u == [q.nodes EXCEPT ![n].data = @ \cup t.data]
  <1>1. Follows(q.nodes, u)
    BY GoodFacts, DataFollows DEF Contents
  <1>3. Shape(q.nodes, q.ctx) => Shape(u, q.ctx)
    BY GoodFacts, DataShape
  <1>2. merge_attributes(q, t, n) = TakeToken([q EXCEPT !.nodes = u])
    BY DEF merge_attributes
  <1> HIDE DEF u
  <1> QED
    BY <1>1, <1>2, <1>3, SetNodes, TakeTokenGood

\* A fold over a sequence stays in a set that each of its steps stays in.
LEMMA FoldStays ==
    ASSUME NEW N \in Nat, NEW S, NEW g, g[1..0] \in S,
           \A k \in 0..(N - 1) : g[1..k] \in S => g[1..(k + 1)] \in S
    PROVE  g[1..N] \in S
  <1> DEFINE T == {k \in 0..N : g[1..k] \in S}
  <1>1. 0 \in T
    OBVIOUS
  <1>2. \A k \in 0..N - 1 : k \in T => k + 1 \in T
    OBVIOUS
  <1> HIDE DEF T
  <1>3. N \in T
    <2>1. N \in 0..N
      OBVIOUS
    <2>2. \A k \in 0..N : k \in T
      BY ONLY <1>1, <1>2, N \in Nat, InductionUpTo
    <2> QED
      BY <2>1, <2>2
  <1> QED
    BY <1>3 DEF T

(***************************************************************************)
(* tree_traverse frees the node it starts from, if it ends at all.         *)
(***************************************************************************)
Walks(N, root) ==
    {s \in [at : 0..N, offset : Nat, freed : Seq(1..N), done : BOOLEAN, asserts : BOOLEAN] :
        s.done => \E i \in DOMAIN s.freed : s.freed[i] = root}

WalkStart(root) == [at |-> root, offset |-> 0, freed |-> <<>>, done |-> FALSE, asserts |-> TRUE]

\* A step of tree_traverse stays among the nodes of the table.
LEMMA TraverseStepTyped ==
    ASSUME NEW t, t \in Seq(Nodes(Len(t))), NEW root \in DOMAIN t,
           NEW s \in Walks(Len(t), root)
    PROVE  TraverseStep(t, root, s) \in Walks(Len(t), root)
  <1> DEFINE N == Len(t)
             kids == t[s.at].kids
             down == [s EXCEPT !.at = kids[s.offset + 1], !.offset = 0]
             up == [at |-> t[s.at].parent, offset |-> t[s.at].idx + 1,
                    freed |-> Append(s.freed, s.at), done |-> s.at = root,
                    asserts |-> s.asserts /\ s.offset = Len(kids)]
  <1>1. N \in Nat /\ DOMAIN t = 1..N /\ \A n \in 1..N : t[n] \in Nodes(N)
    BY TypedTable
  <1>2. TraverseStep(t, root, s) =
           IF s.done \/ s.at = NULL THEN s
           ELSE IF IsContainer(t[s.at]) /\ s.offset < Len(kids) THEN down ELSE up
    BY DEF TraverseStep
  <1>3. CASE s.done \/ s.at = NULL
    BY <1>2, <1>3
  <1>4. CASE ~(s.done \/ s.at = NULL)
    <2> HIDE DEF N
    <2>1. s.at \in 1..N /\ s.offset \in Nat /\ s.freed \in Seq(1..N) /\ s.asserts \in BOOLEAN
      BY <1>1, <1>4 DEF Walks, NULL, N
    <2>2. NodeSet(Nodes(N), 1..N) /\ t[s.at] \in Nodes(N)
      BY <1>1, <2>1, NodesAreNodes
    <2>3. /\ t[s.at].parent \in 1..N \cup {NULL} /\ t[s.at].idx \in Indices
          /\ kids \in Seq(1..N)
          /\ Len(kids) \in Nat /\ DOMAIN kids = 1..Len(kids)
      BY <2>2, NodeFields
    <2>4. ASSUME s.offset < Len(kids) PROVE down \in Walks(N, root)
      <3>1. kids[s.offset + 1] \in 1..N
        <4>1. s.offset + 1 \in 1..Len(kids)
          BY <2>1, <2>3, <2>4
        <4> HIDE DEF kids
        <4> QED
          BY <2>3, <4>1, ElementOfSeq
      <3>2. kids[s.offset + 1] \in 0..N
        BY <3>1
      <3> HIDE DEF kids
      <3>3. /\ down \in [at : 0..N, offset : Nat, freed : Seq(1..N), done : BOOLEAN, asserts : BOOLEAN]
            /\ down.done = s.done
        BY <3>2 DEF Walks, N
      <3> QED
        BY <1>4, <3>3 DEF Walks
    <2>5. up \in Walks(N, root)
      <3>1. t[s.at].parent \in 0..N
        BY <1>1, <2>3 DEF NULL
      <3>2. t[s.at].idx + 1 \in Nat
        BY <2>3 DEF Indices, Detached
      <3>3. /\ Append(s.freed, s.at) \in Seq(1..N)
            /\ Len(s.freed) + 1 \in DOMAIN Append(s.freed, s.at)
            /\ Append(s.freed, s.at)[Len(s.freed) + 1] = s.at
        BY <2>1
      <3> HIDE DEF kids
      <3>4. up \in [at : 0..N, offset : Nat, freed : Seq(1..N), done : BOOLEAN, asserts : BOOLEAN]
        BY <2>1, <3>1, <3>2, <3>3
      <3>5. up.done => \E i \in DOMAIN up.freed : up.freed[i] = root
        BY <3>3
      <3> QED
        BY <3>4, <3>5 DEF Walks
    <2> HIDE DEF down, up
    <2> QED
      BY <1>2, <1>4, <2>4, <2>5 DEF N
  <1> QED
    BY <1>3, <1>4

\* The fold that tree_traverse is.
LEMMA WalkFold ==
    ASSUME NEW t, NEW root
    PROVE  tree_traverse(t, root) =
             (CHOOSE f : f = [s \in SUBSET DOMAIN [i \in 1..(2 * Len(t)) |-> i] |->
                                IF s = {} THEN WalkStart(root)
                                ELSE TraverseStep(t, root, f[s \ {Max(s)}])])
             [DOMAIN [i \in 1..(2 * Len(t)) |-> i]]
  BY DEF tree_traverse, FoldLeft, MapThenFoldSet, WalkStart

\* What tree_traverse frees are nodes of the table.
LEMMA TraverseTyped ==
    ASSUME NEW t, t \in Seq(Nodes(Len(t))), NEW root \in DOMAIN t
    PROVE  tree_traverse(t, root) \in Walks(Len(t), root)
  <1> DEFINE M == 2 * Len(t)
             W == Walks(Len(t), root)
             Step == [x \in (1..M) \X W |-> TraverseStep(t, root, x[2])]
             Unfolds(f) == f = [s \in SUBSET (1..M) |->
                                  IF s = {} THEN WalkStart(root)
                                  ELSE TraverseStep(t, root, f[s \ {Max(s)}])]
             g == CHOOSE f : Unfolds(f)
  <1>1. Len(t) \in Nat /\ M \in Nat /\ root \in 1..Len(t)
    BY TypedTable
  <1>2. tree_traverse(t, root) = g[1..M]
    <2>1. DOMAIN [i \in 1..(2 * Len(t)) |-> i] = 1..M
      OBVIOUS
    <2> QED
      BY <2>1, WalkFold
  <1>3. WalkStart(root) \in W
    <2>1. <<>> \in Seq(1..Len(t)) /\ root \in 0..Len(t)
      BY <1>1
    <2> QED
      BY <2>1 DEF WalkStart, Walks
  <1>4. \A s \in W : TraverseStep(t, root, s) \in W
    BY TraverseStepTyped
  <1> HIDE DEF W, M
  <1>5. Unfolds(g)
    <2>1. Step \in [(1..M) \X W -> W]
      BY <1>4
    <2> HIDE DEF Step
    <2>2. PICK f \in [SUBSET (1..M) -> W] : IsFold(f, M, WalkStart(root), Step)
      BY <1>1, <1>3, <2>1, FoldExists
    <2>3. ASSUME NEW s \in SUBSET (1..M), s # {}
          PROVE  Step[<<Max(s), f[s \ {Max(s)}]>>] = TraverseStep(t, root, f[s \ {Max(s)}])
      <3>1. Max(s) \in s
        BY <1>1, <2>3, MaxOfPositions
      <3>2. Max(s) \in 1..M /\ s \ {Max(s)} \in SUBSET (1..M)
        BY <3>1
      <3>3. f[s \ {Max(s)}] \in W
        BY <2>2, <3>2
      <3> DEFINE x == <<Max(s), f[s \ {Max(s)}]>>
      <3>4. x \in (1..M) \X W /\ x[2] = f[s \ {Max(s)}]
        BY <3>2, <3>3
      <3> HIDE DEF x
      <3>5. Step[x] = TraverseStep(t, root, x[2])
        BY <3>4 DEF Step
      <3> QED
        BY <3>4, <3>5 DEF x
    <2>4. Unfolds(f)
      <3>1. f = [s \in SUBSET (1..M) |->
                    IF s = {} THEN WalkStart(root) ELSE Step[<<Max(s), f[s \ {Max(s)}]>>]]
        BY <2>2 DEF IsFold
      <3> QED
        BY <2>3, <3>1
    <2> HIDE DEF Unfolds
    <2> QED
      BY <2>4
  <1> HIDE DEF g
  <1>6. g[1..0] \in W
    <2>1. 1..0 = {} /\ {} \in SUBSET (1..M)
      OBVIOUS
    <2> QED
      BY <1>3, <1>5, <2>1
  <1>7. ASSUME NEW k \in 0..(M - 1), g[1..k] \in W PROVE g[1..(k + 1)] \in W
    <2>1. k + 1 \in Nat \ {0} /\ (k + 1) - 1 = k /\ 1..(k + 1) \in SUBSET (1..M)
      BY <1>1
    <2>2. 1..(k + 1) # {} /\ Max(1..(k + 1)) = k + 1 /\ (1..(k + 1)) \ {k + 1} = 1..k
      BY ONLY <2>1, MaxOfPrefix
    <2>3. g[1..(k + 1)] = TraverseStep(t, root, g[1..k])
      BY <1>5, <2>1, <2>2
    <2> QED
      BY <1>4, <1>7, <2>3
  <1>8. g[1..M] \in W
    BY <1>1, <1>6, <1>7, FoldStays
  <1> QED
    BY <1>2, <1>8 DEF W

-----------------------------------------------------------------------------
\* destroy_node makes nodes freed ones: of the table only the type is left.
LEMMA DestroyGood ==
    ASSUME NEW q, Typed(q), NEW n \in 1..Len(q.nodes)
    PROVE  Good(Destroy(q, n)) /\ (Destroy(q, n).failed # "" \/ Freed(Destroy(q, n).nodes))
  <1> DEFINE walk == tree_traverse(q.nodes, n)
             dead == NewNode("freed", "none", "", {})
             u == [x \in DOMAIN q.nodes |-> IF Contains(walk.freed, x) THEN dead ELSE q.nodes[x]]
             r == [q EXCEPT !.nodes = u]
             ends == walk.asserts /\ walk.done /\ IsInjective(walk.freed)
  <1>1. /\ q.nodes \in Seq(Nodes(Len(q.nodes)))
        /\ Len(q.nodes) \in Nat /\ DOMAIN q.nodes = 1..Len(q.nodes)
        /\ \A x \in 1..Len(q.nodes) : q.nodes[x] \in Nodes(Len(q.nodes))
    BY TypedTable DEF Typed
  <1>2. walk \in Walks(Len(q.nodes), n)
    BY <1>1, TraverseTyped
  <1>3. Destroy(q, n) = IF ends THEN r ELSE Failed(q, "tree_traverse")
    BY DEF Destroy, Require, Failed
  <1>4. Good(Failed(q, "tree_traverse")) /\ Failed(q, "tree_traverse").failed # ""
    <2> DEFINE f == IF q.failed = "" THEN "tree_traverse" ELSE q.failed
    <2>1. q.failed \in Assertions \cup {""}
      BY DEF Typed, States
    <2>2. f \in Assertions /\ f # ""
      BY <2>1 DEF Assertions
    <2>3. Built(q.nodes, f, q.ctx)
      BY <1>1, <2>2 DEF Built
    <2> HIDE DEF f
    <2>4. Good([q EXCEPT !.failed = f]) /\ [q EXCEPT !.failed = f].failed = f
      BY <2>2, <2>3 DEF Good, Typed, States
    <2> QED
      BY <2>2, <2>4 DEF f, Failed
  <1>5. ASSUME ends PROVE Good(r) /\ Freed(r.nodes)
    <2>1. dead \in Nodes(Len(q.nodes)) /\ dead.type = "freed"
      <3>1. dead \in Nodes(0) /\ dead.type = "freed"
        BY FreshNode DEF Types, Spaces, Names
      <3> QED
        BY <1>1, <3>1, FreshFields
    <2> HIDE DEF dead
    <2>2. DOMAIN u = DOMAIN q.nodes /\ \A x \in DOMAIN q.nodes : u[x] \in Nodes(Len(q.nodes))
      BY <1>1, <2>1
    <2>3. u \in Seq(Nodes(Len(q.nodes))) /\ Len(u) = Len(q.nodes)
      <3> HIDE DEF walk
      <3>1. u = [x \in 1..Len(q.nodes) |-> u[x]]
        BY <1>1
      <3> HIDE DEF u
      <3> DEFINE S == Nodes(Len(q.nodes))
                 N == Len(q.nodes)
      <3>a. N \in Nat /\ u = [x \in 1..N |-> u[x]] /\ \A x \in 1..N : u[x] \in S
        BY <1>1, <2>2, <3>1
      <3> HIDE DEF S, N
      <3>b. u \in Seq(S)
        BY ONLY <3>a
      <3>2. u \in Seq(Nodes(Len(q.nodes)))
        BY <3>b DEF S
      <3> QED
        BY <1>1, <2>2, <3>2, SameLength
    <2>4. Freed(u)
      <3>1. walk.freed \in Seq(1..Len(q.nodes)) /\ \E i \in DOMAIN walk.freed : walk.freed[i] = n
        <4> HIDE DEF walk
        <4> QED
          BY <1>2, <1>5 DEF Walks
      <3> HIDE DEF walk
      <3>2. Contains(walk.freed, n)
        BY <3>1 DEF Contains
      <3>3. u[n] = dead
        BY <1>1, <3>2
      <3> QED
        BY <1>1, <2>1, <2>2, <3>3 DEF Freed
    <2>6. \A x \in DOMAIN q.nodes : u[x].type \in {q.nodes[x].type, "freed"}
      BY <2>1
    <2> HIDE DEF u
    <2>5. Built(u, q.failed, q.ctx) /\ u \in Tables
      BY <2>3, <2>4, TypedTable DEF Built
    <2>7. Points(u, q.open, q.afe, q.root, q.head, q.form, q.ctx)
      <3> DEFINE A == ElementsOf(q.nodes, q.ctx)
                 B == ElementsOf(u, q.ctx)
      <3>1. A \subseteq B
        BY <2>2, <2>6 DEF ElementsOf, Holders
      <3>2. Points(q.nodes, q.open, q.afe, q.root, q.head, q.form, q.ctx)
        BY DEF Typed
      <3>3. q.open \in Seq(A) /\ q.afe \in Seq(A \cup {Marker}) /\ {q.root, q.head, q.form} \subseteq A \cup {NULL}
        BY <3>2 DEF Points
      <3> HIDE DEF A, B
      <3>4. q.open \in Seq(B) /\ q.afe \in Seq(B \cup {Marker}) /\ {q.root, q.head, q.form} \subseteq B \cup {NULL}
        <4>1. A \cup {Marker} \subseteq B \cup {Marker}
          BY <3>1
        <4> QED
          BY <3>1, <3>3, <4>1, SeqWiden
      <3>5. Len(u) >= 1 /\ Document \in DOMAIN q.nodes
        <4>1. Len(q.nodes) >= 1
          BY <3>2 DEF Points
        <4> QED
          BY ONLY <1>1, <2>3, <4>1 DEF Document
      <3>6. /\ u[Document].type \in {"document", "freed"} /\ q.ctx # Document
            /\ q.ctx # NULL => q.ctx \in DOMAIN u /\ u[q.ctx].type \in Holders
        BY <2>2, <2>6, <3>2, <3>5 DEF Points, Holders
      <3> QED
        BY <3>4, <3>5, <3>6 DEF Points, B
    <2>8. r.nodes = u
      BY DEF Typed, States
    <2> QED
      BY <2>3, <2>4, <2>5, <2>7, <2>8 DEF Good, Typed, States
  <1> HIDE DEF r, ends
  <1> QED
    BY <1>3, <1>4, <1>5

Tokens == [type : TokenTypes, tag : Names, data : SUBSET STRING, selfclosing : BOOLEAN]

-----------------------------------------------------------------------------
(***************************************************************************)
(* The stack of open elements.                                             *)
(***************************************************************************)

\* create_element_from_token gives a fresh node.
LEMMA CreateFromToken ==
    ASSUME NEW t \in Tokens, NEW ns \in Spaces
    PROVE  create_element_from_token(t, ns) \in FreshElements
  <1> DEFINE type == IF ns = "html" /\ t.tag = "template" THEN "template" ELSE "element"
  <1>1. type \in Types /\ type \in Holders /\ t.tag \in Names /\ t.data \in SUBSET Contents
    BY DEF Types, NodeTypes, ElementTypes, Holders, Tokens, Contents
  <1>2. create_element_from_token(t, ns) = NewNode(type, ns, t.tag, t.data)
    BY DEF create_element_from_token
  <1> HIDE DEF type
  <1> QED
    BY <1>1, <1>2, FreshNode

\* The element of a start tag is inserted, in any namespace.
LEMMA InsertTokenGood ==
    ASSUME NEW q, Good(q), NEW t \in Tokens, NEW ns \in Spaces
    PROVE  /\ Good(insert_element_from_token(q, t)) /\ insert_element_from_token(q, t).open # <<>>
           /\ Good(insert_foreign_element(q, t, ns))
  <1>1. "html" \in Spaces
    BY DEF Spaces
  <1>2. /\ create_element_from_token(t, "html") \in FreshElements
        /\ create_element_from_token(t, ns) \in FreshElements
    BY <1>1, CreateFromToken
  <1> DEFINE r == insert_element(q, create_element_from_token(t, "html"), FALSE)
             s == insert_element(q, create_element_from_token(t, ns), FALSE)
  <1>3. Good(r) /\ Good(s) /\ r.open # <<>>
    BY <1>2, InsertElementGood
  <1>4. insert_element_from_token(q, t) = TakeToken(r) /\ insert_foreign_element(q, t, ns) = TakeToken(s)
    BY DEF insert_element_from_token, insert_foreign_element
  <1> HIDE DEF r, s
  <1>5. TakeToken(r).open = r.open
    BY <1>3 DEF TakeToken, Good, States
  <1> QED
    BY <1>3, <1>4, <1>5, TakeTokenGood

\* insert_element_of_tag_type, for a tag that the token does not name.
LEMMA InsertTagGood ==
    ASSUME NEW q, Good(q), NEW tag \in Names
    PROVE  Good(insert_element_of_tag_type(q, tag)) /\ insert_element_of_tag_type(q, tag).open # <<>>
  <1>1. NewNode("element", "html", tag, {}) \in FreshElements
    BY FreshNode DEF Types, NodeTypes, ElementTypes, Spaces, Holders
  <1> QED
    BY <1>1, InsertElementGood DEF insert_element_of_tag_type

\* A loop that pops until, or through, the highest of some elements, or fails.
LEMMA PopGood ==
    ASSUME NEW q, Good(q), NEW I \in SUBSET (1..Len(q.open))
    PROVE  /\ Good(Require(q, Highest(I) # 0, "pop: stack exhausted", PopTo(q, Highest(I))))
           /\ Good(Require(q, Highest(I) # 0, "pop: stack exhausted", PopTo(q, Highest(I) - 1)))
  <1>1. Highest(I) \in Int /\ Highest(I) - 1 \in Int
    <2>1. Len(q.open) \in Nat
      BY GoodFacts
    <2> QED
      BY ONLY <2>1, HighestTyped, I \in SUBSET (1..Len(q.open))
  <1>2. Good(PopTo(q, Highest(I))) /\ Good(PopTo(q, Highest(I) - 1))
    BY <1>1, PopToGood
  <1> QED
    BY <1>2, RequireGood DEF Assertions

\* Pops through the highest element of a tag.
LEMMA PopThroughTagGood ==
    ASSUME NEW q, Good(q), NEW tag
    PROVE  Good(PopThroughTag(q, tag))
  <1> DEFINE I == {i \in 1..Len(q.open) : IsHtml(q, q.open[i], tag)}
  <1>1. PopThroughTag(q, tag) =
          Require(q, Highest(I) # 0, "pop: stack exhausted", PopTo(q, Highest(I) - 1))
    BY DEF PopThroughTag, PopThrough, TopOpen, SelectLastInSeq, Highest
  <1>2. I \in SUBSET (1..Len(q.open))
    OBVIOUS
  <1> HIDE DEF I
  <1> QED
    BY <1>1, <1>2, PopGood

\* Pops until the current node has one of these tags.
LEMMA ClearStackToGood ==
    ASSUME NEW q, Good(q), NEW tags
    PROVE  Good(ClearStackTo(q, tags))
  <1> DEFINE I == {i \in 1..Len(q.open) : Name(q, q.open[i]) \in Html(tags)}
  <1>1. ClearStackTo(q, tags) =
          Require(q, Highest(I) # 0, "pop: stack exhausted", PopTo(q, Highest(I)))
    BY DEF ClearStackTo, PopUntil, TopOpen, SelectLastInSeq, Highest
  <1>2. I \in SUBSET (1..Len(q.open))
    OBVIOUS
  <1> HIDE DEF I
  <1> QED
    BY <1>1, <1>2, PopGood

\* The three clear_stack_to_..._context functions.
LEMMA ClearStackGood ==
    ASSUME NEW q, Good(q)
    PROVE  /\ Good(clear_stack_to_table_context(q))
           /\ Good(clear_stack_to_table_body_context(q))
           /\ Good(clear_stack_to_table_row_context(q))
  BY ClearStackToGood DEF clear_stack_to_table_context, clear_stack_to_table_body_context,
                          clear_stack_to_table_row_context

\* generate_implied_end_tags.
LEMMA ImpliedEndTagsGood ==
    ASSUME NEW q, Good(q), NEW exception
    PROVE  Good(generate_implied_end_tags(q, exception))
  <1> DEFINE I == {i \in 1..Len(q.open) : \/ Name(q, q.open[i]) \notin ImpliedEnd
                                          \/ Name(q, q.open[i]) = <<"html", exception>>}
  <1>1. generate_implied_end_tags(q, exception) =
          Require(q, Highest(I) # 0, "pop: stack exhausted", PopTo(q, Highest(I)))
    BY DEF generate_implied_end_tags, PopUntil, TopOpen, SelectLastInSeq, Highest
  <1>2. I \in SUBSET (1..Len(q.open))
    OBVIOUS
  <1> HIDE DEF I
  <1> QED
    BY <1>1, <1>2, PopGood

\* generate_all_implied_end_tags_thoroughly.
LEMMA ImpliedEndThoroughlyGood ==
    ASSUME NEW q, Good(q)
    PROVE  Good(generate_all_implied_end_tags_thoroughly(q))
  <1> DEFINE I == {i \in 1..Len(q.open) : Name(q, q.open[i]) \notin ImpliedEndThorough}
  <1>1. generate_all_implied_end_tags_thoroughly(q) =
          Require(q, Highest(I) # 0, "pop: stack exhausted", PopTo(q, Highest(I)))
    BY DEF generate_all_implied_end_tags_thoroughly, PopUntil, TopOpen, SelectLastInSeq, Highest
  <1>2. I \in SUBSET (1..Len(q.open))
    OBVIOUS
  <1> HIDE DEF I
  <1> QED
    BY <1>1, <1>2, PopGood

\* implicitly_close_tags.
LEMMA ImplicitlyCloseGood ==
    ASSUME NEW q, Good(q), NEW ns, NEW tag
    PROVE  Good(implicitly_close_tags(q, ns, tag))
  <1> DEFINE r == generate_implied_end_tags(q, tag)
             I == {i \in 1..Len(r.open) : Name(q, r.open[i]) = <<ns, tag>>}
  <1>1. implicitly_close_tags(q, ns, tag) =
          Require(r, Highest(I) # 0, "pop: stack exhausted", PopTo(r, Highest(I) - 1))
    BY DEF implicitly_close_tags, PopThrough, TopOpen, SelectLastInSeq, Highest
  <1>2. I \in SUBSET (1..Len(r.open))
    OBVIOUS
  <1>3. Good(r)
    BY ImpliedEndTagsGood
  <1> HIDE DEF I, r
  <1> QED
    BY <1>1, <1>2, <1>3, PopGood

\* maybe_implicitly_close_p_tag.
LEMMA ClosePGood ==
    ASSUME NEW q, Good(q)
    PROVE  Good(maybe_implicitly_close_p_tag(q))
  BY ImplicitlyCloseGood DEF maybe_implicitly_close_p_tag

\* maybe_implicitly_close_list_tag.
LEMMA CloseListTagGood ==
    ASSUME NEW q, Good(q), NEW tags
    PROVE  Good(maybe_implicitly_close_list_tag(q, tags))
  <1> DEFINE f == [q EXCEPT !.fok = FALSE]
  <1>1. Good(f)
    BY SetPlain
  <1> HIDE DEF f
  <1>2. \A tag : Good(implicitly_close_tags(f, "html", tag))
    BY <1>1, ImplicitlyCloseGood
  <1> QED
    BY <1>1, <1>2 DEF maybe_implicitly_close_list_tag, f

-----------------------------------------------------------------------------
(***************************************************************************)
(* The list of active formatting elements.                                 *)
(***************************************************************************)

\* What follows the last marker on the list are nodes.
LEMMA LastMarkerTyped ==
    ASSUME NEW q, Good(q)
    PROVE  /\ LastMarker(q) \in 0..Len(q.afe)
           /\ \A i \in (LastMarker(q) + 1)..Len(q.afe) : q.afe[i] \in Elems(q)
  <1> DEFINE I == {i \in 1..Len(q.afe) : q.afe[i] = Marker}
  <1>1. LastMarker(q) = Highest(I)
    BY DEF LastMarker, SelectLastInSeq, Highest
  <1>2. I \in SUBSET (1..Len(q.afe)) /\ Len(q.afe) \in Nat
    BY GoodFacts
  <1>3. LastMarker(q) \in 0..Len(q.afe)
    BY <1>1, <1>2, HighestTyped
  <1>4. ASSUME NEW i \in (LastMarker(q) + 1)..Len(q.afe) PROVE q.afe[i] \in Elems(q)
    <2>1. i \in 1..Len(q.afe) /\ i > LastMarker(q)
      BY <1>2, <1>3
    <2>2. i \notin I
      <3>1. CASE I = {}
        BY <3>1
      <3>2. CASE I # {}
        <4>1. LastMarker(q) = Max(I)
          BY <1>1, <3>2 DEF Highest
        <4> HIDE DEF I
        <4>2. \A j \in I : j <= LastMarker(q)
          BY <1>2, <3>2, <4>1, MaxOfPositions
        <4> QED
          BY <1>2, <1>3, <2>1, <4>2
      <3> QED
        BY <3>1, <3>2
    <2>3. q.afe[i] \in Elems(q) \cup {Marker}
      <3>1. q.afe \in Seq(Elems(q) \cup {Marker})
        BY GoodFacts
      <3> QED
        BY <2>1, <3>1, ElementOfSeq
    <2> QED
      BY <2>1, <2>2, <2>3
  <1> QED
    BY <1>3, <1>4

\* A marker is pushed on the list.
LEMMA PushMarkerGood ==
    ASSUME NEW q, Good(q)
    PROVE  Good(PushMarker(q))
  <1> DEFINE A == Elems(q) \cup {Marker}
  <1>1. q.afe \in Seq(A) /\ Marker \in A
    BY GoodFacts
  <1> HIDE DEF A
  <1>2. Append(q.afe, Marker) \in Seq(A)
    BY <1>1, AppendProperties
  <1> QED
    BY <1>2, SetAfe DEF PushMarker, A

\* The list is cut below its last marker.
LEMMA ClearFormattingGood ==
    ASSUME NEW q, Good(q)
    PROVE  Good(clear_active_formatting_elements(q))
  <1>1. LastMarker(q) - 1 \in Int /\ LastMarker(q) - 1 <= Len(q.afe)
    BY GoodFacts, LastMarkerTyped
  <1>2. SubSeq(q.afe, 1, LastMarker(q) - 1) \in Seq(Elems(q) \cup {Marker})
    BY <1>1, GoodFacts, FrontTyped
  <1> QED
    BY <1>2, SetAfe DEF clear_active_formatting_elements

\* add_formatting_element, with or without an element that is evicted.
LEMMA AddFormattingGood ==
    ASSUME NEW q, Good(q), NEW n \in Elems(q)
    PROVE  Good(add_formatting_element(q, n))
  <1> DEFINE same == {i \in (LastMarker(q) + 1)..Len(q.afe) :
                        /\ Name(q, q.afe[i]) = Name(q, n)
                        /\ q.nodes[q.afe[i]].data = q.nodes[n].data}
             kept == IF Cardinality(same) >= 3 THEN RemoveAt(q.afe, Min(same)) ELSE q.afe
             A == Elems(q) \cup {Marker}
  <1>1. q.afe \in Seq(A) /\ Len(q.afe) \in Nat
    BY GoodFacts
  <1>2. same \in SUBSET (1..Len(q.afe))
    BY <1>1, LastMarkerTyped
  <1>3. add_formatting_element(q, n) = [q EXCEPT !.afe = Append(kept, n)]
    BY DEF add_formatting_element
  <1> HIDE DEF same
  <1>4. CASE Cardinality(same) >= 3
    <2>1. same # {}
      BY <1>4, FS_EmptySet
    <2>2. Min(same) \in 1..Len(q.afe)
      BY <1>1, <1>2, <2>1, HighestTyped DEF Lowest
    <2>3. kept \in Seq(A)
      BY <1>1, <1>4, <2>2, RemoveAtProperties
    <2> HIDE DEF kept
    <2>4. n \in A
      OBVIOUS
    <2>5. Append(kept, n) \in Seq(A)
      <3> HIDE DEF A
      <3> QED
        BY <2>3, <2>4
    <2> QED
      BY <1>3, <2>5, SetAfe
  <1>5. CASE ~(Cardinality(same) >= 3)
    <2>1. Append(kept, n) \in Seq(A)
      BY <1>1, <1>5
    <2> QED
      BY <1>3, <2>1, SetAfe
  <1> QED
    BY <1>4, <1>5

\* The entries above the last that is a marker or open are neither.
LEMMA AboveHighest ==
    ASSUME NEW N \in Nat, NEW I \in SUBSET (1..N), NEW i \in (Highest(I) + 1)..N
    PROVE  i \in 1..N /\ i \notin I
  <1>1. Highest(I) \in 0..N
    BY HighestTyped
  <1>2. i \in 1..N /\ i > Highest(I)
    BY <1>1
  <1>3. CASE I = {}
    BY <1>2, <1>3
  <1>4. CASE I # {}
    <2>1. Highest(I) = Max(I)
      BY <1>4 DEF Highest
    <2>2. \A j \in I : j <= Highest(I)
      BY <1>4, <2>1, MaxOfPositions
    <2> QED
      BY <1>1, <1>2, <2>2
  <1> QED
    BY <1>3, <1>4

-----------------------------------------------------------------------------
Reopen(q, i) ==
    [insert_element(q, clone_node(q, q.afe[i]), TRUE) EXCEPT !.afe[i] = NextId(q)]

\* The entries from `first` on are elements.
Reopening(A, first) ==
    {q \in States : Good(q) /\ Len(q.afe) = A /\ \A j \in first..A : q.afe[j] \in Elems(q)}

Put(s, i, x) == [s EXCEPT ![i] = x]
PutEntry(q, i, n) == [q EXCEPT !.afe[i] = n]

\* One element of a sequence is replaced.
LEMMA PutTyped ==
    ASSUME NEW S, NEW s \in Seq(S), NEW i, NEW x \in S
    PROVE  LET u == Put(s, i, x)
           IN  u \in Seq(S) /\ Len(u) = Len(s) /\ \A j \in 1..Len(s) : u[j] = IF j = i THEN x ELSE s[j]
  <1> DEFINE u == Put(s, i, x)
  <1>1. DOMAIN u = DOMAIN s /\ DOMAIN s = 1..Len(s) /\ Len(s) \in Nat
    BY DEF Put
  <1>2. \A j \in 1..Len(s) : u[j] = IF j = i THEN x ELSE s[j]
    BY <1>1 DEF Put
  <1>3. \A j \in 1..Len(s) : u[j] \in S
    BY <1>2
  <1>4. u = [j \in 1..Len(s) |-> u[j]]
    BY <1>1 DEF Put
  <1> HIDE DEF u
  <1>5. u \in Seq(S)
    BY <1>1, <1>3, <1>4
  <1>6. Len(u) = Len(s)
    BY <1>1, <1>5, SameLength
  <1> QED
    BY <1>2, <1>5, <1>6 DEF u

\* One entry of the list is replaced.
LEMMA PutEntryGood ==
    ASSUME NEW q, Good(q), NEW i, NEW n \in Elems(q)
    PROVE  LET r == PutEntry(q, i, n)
           IN  Good(r) /\ Len(r.afe) = Len(q.afe) /\ r.open = q.open /\ r.nodes = q.nodes
               /\ r.ctx = q.ctx /\ Elems(r) = Elems(q)
               /\ \A j \in 1..Len(q.afe) : r.afe[j] = IF j = i THEN n ELSE q.afe[j]
  <1> DEFINE A == Elems(q) \cup {Marker}
             s == Put(q.afe, i, n)
  <1>1. q.afe \in Seq(A) /\ n \in A
    BY GoodFacts
  <1> HIDE DEF A
  <1>2. s \in Seq(A) /\ Len(s) = Len(q.afe) /\ \A j \in 1..Len(q.afe) : s[j] = IF j = i THEN n ELSE q.afe[j]
    BY <1>1, PutTyped
  <1> HIDE DEF s
  <1>3. Good([q EXCEPT !.afe = s])
    BY <1>2, SetAfe DEF A
  <1>4. [q EXCEPT !.afe = s].afe = s /\ [q EXCEPT !.afe = s].open = q.open
        /\ [q EXCEPT !.afe = s].nodes = q.nodes /\ [q EXCEPT !.afe = s].ctx = q.ctx
    BY DEF Good, States
  <1>5. PutEntry(q, i, n) = [q EXCEPT !.afe = s]
    BY DEF s, Put, PutEntry
  <1> QED
    BY <1>2, <1>3, <1>4, <1>5 DEF Elems

\* One entry is cloned, inserted and replaced by its clone.
LEMMA ReopenTyped ==
    ASSUME NEW A \in Nat, NEW first \in 1..(A + 1), NEW i \in first..A, NEW q \in Reopening(A, first)
    PROVE  Reopen(q, i) \in Reopening(A, first)
  <1> DEFINE n == q.afe[i]
             r == insert_element(q, clone_node(q, n), TRUE)
             c == NextId(q)
             s == PutEntry(r, i, c)
  <1>1. Good(q) /\ Len(q.afe) = A /\ n \in Elems(q)
    BY DEF Reopening
  <1> HIDE DEF n
  <1>2. clone_node(q, n) \in FreshElements
    BY <1>1, CloneFresh
  <1>3. Good(r) /\ r.afe = q.afe /\ c \in Elems(r) /\ Elems(q) \subseteq Elems(r)
    BY <1>1, <1>2, InsertElementGood
  <1> HIDE DEF r, c
  <1>4. /\ Good(s) /\ Len(s.afe) = A /\ Elems(s) = Elems(r)
        /\ \A j \in 1..A : s.afe[j] = IF j = i THEN c ELSE q.afe[j]
    <2>1. /\ Good(s) /\ Len(s.afe) = Len(r.afe) /\ Elems(s) = Elems(r)
          /\ \A j \in 1..Len(r.afe) : s.afe[j] = IF j = i THEN c ELSE r.afe[j]
      BY <1>3, PutEntryGood
    <2> QED
      BY <1>1, <1>3, <2>1
  <1> HIDE DEF s
  <1>5. ASSUME NEW j \in first..A PROVE s.afe[j] \in Elems(s)
    <2>1. j \in 1..A /\ q.afe[j] \in Elems(q)
      BY DEF Reopening
    <2> QED
      BY <1>3, <1>4, <2>1
  <1>6. Reopen(q, i) = s
    BY DEF Reopen, PutEntry, s, r, n, c
  <1> QED
    BY <1>4, <1>5, <1>6 DEF Reopening, Good

\* The fold that reconstruct_active_formatting_elements is.
LEMMA ReconstructFold ==
    ASSUME NEW q
    PROVE  LET I == {i \in 1..Len(q.afe) : q.afe[i] = Marker \/ is_open_element(q, q.afe[i])}
               seq == [k \in 1..(Len(q.afe) - (Highest(I) + 1) + 1) |-> (Highest(I) + 1) + k - 1]
           IN  reconstruct_active_formatting_elements(q) =
                 (CHOOSE f : f = [s \in SUBSET DOMAIN seq |->
                                    IF s = {} THEN q
                                    ELSE Reopen(f[s \ {Max(s)}], seq[Max(s)])])
                 [DOMAIN seq]
  BY DEF reconstruct_active_formatting_elements, Reopen, FoldLeft, MapThenFoldSet,
         SelectLastInSeq, Highest

\* Where reconstruct_active_formatting_elements starts.
ClosedFrom(q) ==
    Highest({i \in 1..Len(q.afe) : q.afe[i] = Marker \/ is_open_element(q, q.afe[i])}) + 1

\* From there on the list holds elements only.
LEMMA ReconstructStarts ==
    ASSUME NEW q, Good(q)
    PROVE  /\ Len(q.afe) \in Nat /\ ClosedFrom(q) \in 1..(Len(q.afe) + 1)
           /\ q \in Reopening(Len(q.afe), ClosedFrom(q))
  <1> DEFINE I == {i \in 1..Len(q.afe) : q.afe[i] = Marker \/ is_open_element(q, q.afe[i])}
             A == Len(q.afe)
             first == Highest(I) + 1
  <1>1. A \in Nat /\ I \in SUBSET (1..A)
    BY GoodFacts
  <1>2. first \in 1..(A + 1)
    BY <1>1, HighestTyped
  <1>3. first = ClosedFrom(q)
    BY DEF ClosedFrom
  <1> HIDE DEF I, first
  <1>4. ASSUME NEW j \in first..A PROVE q.afe[j] \in Elems(q)
    <2>1. j \in (Highest(I) + 1)..A
      BY DEF first
    <2>2. j \in 1..A /\ j \notin I
      BY <1>1, <2>1, AboveHighest
    <2>3. q.afe[j] # Marker
      BY <2>2 DEF I
    <2>4. q.afe \in Seq(Elems(q) \cup {Marker})
      BY GoodFacts
    <2>5. q.afe[j] \in Elems(q) \cup {Marker}
      BY <2>2, <2>4, ElementOfSeq
    <2> QED
      BY <2>3, <2>5
  <1>5. q \in Reopening(A, first)
    BY <1>4 DEF Reopening, Good
  <1> QED
    BY <1>1, <1>2, <1>3, <1>5

\* The fold stays in a set that each of its steps stays in.
LEMMA ReconstructStays ==
    ASSUME NEW q, Good(q), NEW W, q \in W,
           \A i \in ClosedFrom(q)..Len(q.afe) : \A s \in W : Reopen(s, i) \in W
    PROVE  reconstruct_active_formatting_elements(q) \in W
  <1> DEFINE I == {i \in 1..Len(q.afe) : q.afe[i] = Marker \/ is_open_element(q, q.afe[i])}
             A == Len(q.afe)
             first == Highest(I) + 1
             M == A - first + 1
             seq == [k \in 1..M |-> first + k - 1]
             Step == [x \in (1..M) \X W |-> Reopen(x[2], seq[x[1]])]
             Unfolds(f) == f = [s \in SUBSET (1..M) |->
                                  IF s = {} THEN q
                                  ELSE Reopen(f[s \ {Max(s)}], seq[Max(s)])]
             g == CHOOSE f : Unfolds(f)
  <1>1. A \in Nat /\ I \in SUBSET (1..A)
    BY GoodFacts
  <1>2. first \in 1..(A + 1)
    BY <1>1, HighestTyped
  <1>11. first = ClosedFrom(q)
    BY DEF ClosedFrom
  <1>3. reconstruct_active_formatting_elements(q) = g[1..M]
    <2>1. DOMAIN seq = 1..M
      OBVIOUS
    <2> QED
      BY <2>1, ReconstructFold
  <1> HIDE DEF I, first
  <1>4. M \in Nat /\ \A k \in 1..M : seq[k] \in first..A
    BY <1>1, <1>2
  <1>5. q \in W
    OBVIOUS
  <1>6. \A k \in 1..M : \A s \in W : Reopen(s, seq[k]) \in W
    <2> HIDE DEF seq, M
    <2> QED
      BY <1>4, <1>11
  <1> HIDE DEF seq, M, A
  <1>7. Unfolds(g)
    <2>1. Step \in [(1..M) \X W -> W]
      BY <1>6
    <2> HIDE DEF Step
    <2>2. PICK f \in [SUBSET (1..M) -> W] : IsFold(f, M, q, Step)
      BY <1>4, <1>5, <2>1, FoldExists
    <2>3. ASSUME NEW s \in SUBSET (1..M), s # {}
          PROVE  Step[<<Max(s), f[s \ {Max(s)}]>>] = Reopen(f[s \ {Max(s)}], seq[Max(s)])
      <3>1. Max(s) \in s
        BY <1>4, <2>3, MaxOfPositions
      <3>2. Max(s) \in 1..M /\ s \ {Max(s)} \in SUBSET (1..M)
        BY <3>1
      <3>3. f[s \ {Max(s)}] \in W
        BY <2>2, <3>2
      <3> DEFINE x == <<Max(s), f[s \ {Max(s)}]>>
      <3>4. x \in (1..M) \X W /\ x[1] = Max(s) /\ x[2] = f[s \ {Max(s)}]
        BY <3>2, <3>3
      <3> HIDE DEF x
      <3>5. Step[x] = Reopen(x[2], seq[x[1]])
        BY <3>4 DEF Step
      <3> QED
        BY <3>4, <3>5 DEF x
    <2>4. Unfolds(f)
      <3>1. f = [s \in SUBSET (1..M) |->
                    IF s = {} THEN q ELSE Step[<<Max(s), f[s \ {Max(s)}]>>]]
        BY <2>2 DEF IsFold
      <3> QED
        BY <2>3, <3>1
    <2> HIDE DEF Unfolds
    <2> QED
      BY <2>4
  <1> HIDE DEF g
  <1>8. g[1..0] \in W
    <2>1. 1..0 = {} /\ {} \in SUBSET (1..M)
      OBVIOUS
    <2> QED
      BY <1>5, <1>7, <2>1
  <1>9. ASSUME NEW k \in 0..(M - 1), g[1..k] \in W PROVE g[1..(k + 1)] \in W
    <2>1. /\ k + 1 \in Nat \ {0} /\ (k + 1) - 1 = k
          /\ k + 1 \in 1..M /\ 1..(k + 1) \in SUBSET (1..M)
      BY <1>4
    <2>2. 1..(k + 1) # {} /\ Max(1..(k + 1)) = k + 1 /\ (1..(k + 1)) \ {k + 1} = 1..k
      BY ONLY <2>1, MaxOfPrefix
    <2>3. g[1..(k + 1)] = Reopen(g[1..k], seq[k + 1])
      BY <1>7, <2>1, <2>2
    <2> QED
      BY <1>6, <1>9, <2>1, <2>3
  <1>10. g[1..M] \in W
    BY <1>4, <1>8, <1>9, FoldStays
  <1> QED
    BY <1>3, <1>10

\* reconstruct_active_formatting_elements clones one entry after the other.
LEMMA ReconstructGood ==
    ASSUME NEW q, Good(q)
    PROVE  Good(reconstruct_active_formatting_elements(q))
  <1> DEFINE W == Reopening(Len(q.afe), ClosedFrom(q))
  <1>1. Len(q.afe) \in Nat /\ ClosedFrom(q) \in 1..(Len(q.afe) + 1) /\ q \in W
    BY ReconstructStarts
  <1>2. \A i \in ClosedFrom(q)..Len(q.afe) : \A s \in W : Reopen(s, i) \in W
    BY <1>1, ReopenTyped
  <1> HIDE DEF W
  <1>3. reconstruct_active_formatting_elements(q) \in W
    BY <1>1, <1>2, ReconstructStays
  <1> QED
    BY <1>3 DEF W, Reopening

-----------------------------------------------------------------------------
(***************************************************************************)
(* Insertion modes.                                                        *)
(***************************************************************************)

\* The last element of a sequence, and what is before it.
LEMMA LastTyped ==
    ASSUME NEW S, NEW s \in Seq(S), s # <<>>
    PROVE  Last(s) \in S /\ Front(s) \in Seq(S)
  <1>1. Len(s) \in Nat /\ Len(s) > 0
    OBVIOUS
  <1>2. s[Len(s)] \in S
    BY <1>1
  <1>3. SubSeq(s, 1, Len(s) - 1) \in Seq(S)
    BY <1>1, FrontTyped
  <1> QED
    BY <1>2, <1>3 DEF Last, Front

\* The current template insertion mode is a mode.
LEMMA TemplateModeTyped ==
    ASSUME NEW q, Good(q)
    PROVE  get_current_template_insertion_mode(q) \in Modes
  <1>1. q.tmodes \in Seq(Modes)
    BY RecordFacts
  <1>2. "initial" \in Modes
    BY DEF Modes
  <1> QED
    BY <1>1, <1>2, LastTyped DEF get_current_template_insertion_mode

\* Whatever the element is, the mode chosen for it is a mode.
LEMMA AppropriateModeTyped ==
    ASSUME NEW q, Good(q), NEW i
    PROVE  get_appropriate_insertion_mode(q, i) \in Modes
  <1>1. get_current_template_insertion_mode(q) \in Modes
    BY TemplateModeTyped
  <1> DEFINE m == get_current_template_insertion_mode(q)
  <1> HIDE DEF m
  <1>2. m \in Modes
    BY <1>1 DEF m
  <1>3. get_appropriate_insertion_mode(q, i) \in
          {m, "in_select", "in_select_in_table", "in_cell", "in_row", "in_table_body", "in_caption",
           "in_column_group", "in_table", "in_head", "in_body", "in_frameset", "after_head",
           "before_head", "initial"}
    BY DEF get_appropriate_insertion_mode, m
  <1> QED
    BY <1>2, <1>3 DEF Modes

\* reset_insertion_mode_appropriately with its assertion.
LEMMA ResetModeGood ==
    ASSUME NEW q, Good(q)
    PROVE  Good(reset_insertion_mode_appropriately(q))
  <1>1. \A i : Good(SetMode(q, get_appropriate_insertion_mode(q, i)))
    BY AppropriateModeTyped, SetPlain DEF SetMode
  <1> QED
    BY <1>1, RequireGood DEF reset_insertion_mode_appropriately, Assertions

\* The mode is set, with or without reprocessing the token.
LEMMA SetModeGood ==
    ASSUME NEW q, Good(q), NEW mode \in Modes
    PROVE  Good(SetMode(q, mode)) /\ Good(Reprocess(q, mode))
  <1>1. Good([q EXCEPT !.mode = mode])
    BY SetPlain
  <1>2. Good([[q EXCEPT !.mode = mode] EXCEPT !.reprocess = TRUE])
    BY <1>1, SetPlain
  <1> QED
    BY <1>1, <1>2 DEF SetMode, Reprocess

\* close_table and close_current_select.
LEMMA CloseTableGood ==
    ASSUME NEW q, Good(q)
    PROVE  Good(CloseTable(q)) /\ Good(close_current_select(q))
  BY PopThroughTagGood, ResetModeGood DEF CloseTable, close_current_select

\* close_table_cell.
LEMMA CloseCellGood ==
    ASSUME NEW q, Good(q), NEW tag
    PROVE  Good(close_table_cell(q, tag))
  <1> DEFINE r == PopThroughTag(generate_implied_end_tags(q, ""), tag)
  <1>1. Good(r)
    BY ImpliedEndTagsGood, PopThroughTagGood
  <1> HIDE DEF r
  <1>2. Good(clear_active_formatting_elements(r))
    BY <1>1, ClearFormattingGood
  <1>3. Good(SetMode(clear_active_formatting_elements(r), "in_row"))
    BY <1>2, SetModeGood DEF Modes
  <1> QED
    BY <1>3 DEF close_table_cell, r

\* close_current_cell with its two assertions.
LEMMA CloseCurrentCellGood ==
    ASSUME NEW q, Good(q)
    PROVE  Good(close_current_cell(q))
  <1>1. Good(close_table_cell(q, "td")) /\ Good(close_table_cell(q, "th"))
    BY CloseCellGood
  <1>2. \A cond : /\ Good(Require(q, cond, "close_current_cell: td and th", close_table_cell(q, "td")))
                  /\ Good(Require(q, cond, "close_current_cell: no cell", close_table_cell(q, "th")))
    BY <1>1, RequireGood DEF Assertions
  <1> QED
    BY <1>2 DEF close_current_cell

\* run_generic_parsing_algorithm, which selects the tokenizer's state.
LEMMA GenericParsingGood ==
    ASSUME NEW q, Good(q), NEW t \in Tokens, NEW lexer \in LexerStates
    PROVE  Good(run_generic_parsing_algorithm(q, t, lexer))
  <1> DEFINE r == insert_element_from_token(q, t)
             a == [r EXCEPT !.lexer = lexer]
             b == [a EXCEPT !.rawtag = t.tag]
             c == [b EXCEPT !.orig = q.mode]
             d == [c EXCEPT !.mode = "text"]
  <1>1. Good(r)
    BY InsertTokenGood DEF Spaces
  <1> HIDE DEF r
  <1>2. Good(a)
    BY <1>1, SetPlain
  <1>3. run_generic_parsing_algorithm(q, t, lexer) = d
    BY DEF run_generic_parsing_algorithm, r
  <1> HIDE DEF a
  <1>4. t.tag \in Names /\ q.mode \in Modes /\ "text" \in Modes
    BY RecordFacts DEF Tokens, Modes
  <1>5. Good(b)
    BY <1>2, <1>4, SetPlain
  <1> HIDE DEF b
  <1>6. Good(c)
    BY <1>4, <1>5, SetPlain
  <1> HIDE DEF c
  <1>7. Good(d)
    BY <1>4, <1>6, SetPlain
  <1> QED
    BY <1>3, <1>7

\* The text buffer takes the token.
LEMMA TextTokenGood ==
    ASSUME NEW q, Good(q), NEW t \in Tokens
    PROVE  Good(insert_text_token(q, t))
  <1> DEFINE type == CASE t.type = "character" -> "text"
                       [] t.type = "cdata" -> "cdata"
                       [] OTHER -> q.pending.type
             chars == q.pending.chars \cup {t.type}
             x == [q.pending EXCEPT !.chars = chars, !.type = type]
  <1>1. q.pending \in Pending /\ t.type \in Contents
    BY RecordFacts DEF Tokens, Contents
  <1>2. type \in TextTypes /\ chars \in SUBSET Contents
    BY <1>1 DEF Pending, TextTypes
  <1>3. insert_text_token(q, t) = [q EXCEPT !.pending = x]
    BY DEF insert_text_token, Good, States
  <1> HIDE DEF type, chars
  <1>4. x \in Pending
    BY <1>1, <1>2 DEF Pending
  <1> HIDE DEF x
  <1> QED
    BY <1>3, <1>4, SetPlain

-----------------------------------------------------------------------------
(***************************************************************************)
(* The adoption agency algorithm.                                          *)
(***************************************************************************)

\* Where an element is in a sequence, or 0.
LEMMA PositionTyped ==
    ASSUME NEW S, NEW s \in Seq(S), NEW x
    PROVE  /\ PositionIn(s, x) \in 0..Len(s)
           /\ PositionIn(s, x) # 0 => PositionIn(s, x) \in 1..Len(s) /\ s[PositionIn(s, x)] = x
  BY PositionInFinds

PutOpen(q, i, n) == [q EXCEPT !.open[i] = n]

\* One element of the stack is replaced.
LEMMA PutOpenGood ==
    ASSUME NEW q, Good(q), NEW i, NEW n \in Elems(q)
    PROVE  LET r == PutOpen(q, i, n)
           IN  Good(r) /\ Len(r.open) = Len(q.open) /\ r.afe = q.afe /\ r.nodes = q.nodes
               /\ r.ctx = q.ctx /\ Elems(r) = Elems(q)
  <1> DEFINE A == Elems(q)
             s == Put(q.open, i, n)
  <1>1. q.open \in Seq(A) /\ n \in A
    BY GoodFacts
  <1> HIDE DEF A
  <1>2. s \in Seq(A) /\ Len(s) = Len(q.open)
    BY <1>1, PutTyped
  <1> HIDE DEF s
  <1>3. Good([q EXCEPT !.open = s])
    BY <1>2, SetOpen DEF A
  <1>4. [q EXCEPT !.open = s].open = s /\ [q EXCEPT !.open = s].afe = q.afe
        /\ [q EXCEPT !.open = s].nodes = q.nodes /\ [q EXCEPT !.open = s].ctx = q.ctx
    BY DEF Good, States
  <1>5. PutOpen(q, i, n) = [q EXCEPT !.open = s]
    BY DEF s, Put, PutOpen
  <1> QED
    BY <1>2, <1>3, <1>4, <1>5 DEF Elems

Climber(q, node, last, saved, bookmark, round, done) ==
    [p |-> q, node |-> node, last |-> last, saved |-> saved, bookmark |-> bookmark,
     round |-> round, done |-> done]

\* What the local variables of the inner loop are; the elements E stay.
CanClimb(E, q, node, last, saved, bookmark) ==
    /\ Good(q) /\ E \subseteq Elems(q)
    /\ node \in Elems(q) /\ last \in Elems(q)
    /\ saved \in 0..(Len(q.open) + 1) /\ bookmark \in 0..Len(q.afe)

Climbs(E) ==
    {s \in [p : States, node : Nat, last : Nat, saved : Nat, bookmark : Nat, round : Nat,
            done : BOOLEAN] :
        CanClimb(E, s.p, s.node, s.last, s.saved, s.bookmark)}

\* What a state of the inner loop says of its parts.
LEMMA ClimberTyped ==
    ASSUME NEW E, NEW q, NEW node, NEW last, NEW saved, NEW bookmark, NEW round \in Nat,
           NEW done \in BOOLEAN, CanClimb(E, q, node, last, saved, bookmark)
    PROVE  Climber(q, node, last, saved, bookmark, round, done) \in Climbs(E)
  <1>1. q \in States /\ Len(q.open) \in Nat /\ Len(q.afe) \in Nat /\ Elems(q) \subseteq Nat
    BY GoodFacts, ElemsFacts DEF CanClimb, Good
  <1>2. node \in Nat /\ last \in Nat
    BY <1>1 DEF CanClimb
  <1>3. saved \in Nat /\ bookmark \in Nat
    BY <1>1 DEF CanClimb
  <1> QED
    BY <1>1, <1>2, <1>3 DEF Climber, Climbs

\* Step 13.4: an element leaves the list after three turns.
LEMMA ForgetTyped ==
    ASSUME NEW E, NEW q, NEW node, NEW last, NEW saved, NEW bookmark, NEW i \in 1..Len(q.afe),
           CanClimb(E, q, node, last, saved, bookmark)
    PROVE  CanClimb(E, [q EXCEPT !.afe = RemoveAt(@, i)], node, last, saved,
                    IF i - 1 < bookmark THEN bookmark - 1 ELSE bookmark)
  <1> DEFINE A == Elems(q) \cup {Marker}
             s == RemoveAt(q.afe, i)
             r == [q EXCEPT !.afe = s]
  <1>1. Good(q) /\ q.afe \in Seq(A) /\ Len(q.afe) \in Nat
    BY GoodFacts DEF CanClimb
  <1> HIDE DEF A
  <1>2. s \in Seq(A) /\ Len(s) = Len(q.afe) - 1
    BY <1>1, RemoveAtProperties
  <1> HIDE DEF s
  <1>3. Good(r)
    BY <1>1, <1>2, SetAfe DEF A
  <1>4. r.afe = s /\ r.open = q.open /\ Elems(r) = Elems(q)
    BY <1>1 DEF Good, States, Elems
  <1> HIDE DEF r
  <1>5. (IF i - 1 < bookmark THEN bookmark - 1 ELSE bookmark) \in 0..Len(s)
    BY <1>1, <1>2 DEF CanClimb
  <1>6. CanClimb(E, r, node, last, saved, IF i - 1 < bookmark THEN bookmark - 1 ELSE bookmark)
    BY <1>3, <1>4, <1>5 DEF CanClimb
  <1> QED
    BY <1>6 DEF r, s

\* Step 13.5: an element that is not on the list leaves the stack.
LEMMA DropTyped ==
    ASSUME NEW E, NEW q, NEW node, NEW last, NEW at \in 1..Len(q.open), NEW bookmark,
           CanClimb(E, q, node, last, at, bookmark)
    PROVE  CanClimb(E, [q EXCEPT !.open = RemoveAt(@, at)], node, last, at, bookmark)
  <1> DEFINE A == Elems(q)
             s == RemoveAt(q.open, at)
             r == [q EXCEPT !.open = s]
  <1>1. Good(q) /\ q.open \in Seq(A) /\ Len(q.open) \in Nat
    BY GoodFacts DEF CanClimb
  <1> HIDE DEF A
  <1>2. s \in Seq(A) /\ Len(s) = Len(q.open) - 1
    BY <1>1, RemoveAtProperties
  <1> HIDE DEF s
  <1>3. Good(r)
    BY <1>1, <1>2, SetOpen DEF A
  <1>4. r.open = s /\ r.afe = q.afe /\ Elems(r) = Elems(q)
    BY <1>1 DEF Good, States, Elems
  <1> HIDE DEF r
  <1>5. at \in 0..(Len(s) + 1)
    BY <1>1, <1>2
  <1>6. CanClimb(E, r, node, last, at, bookmark)
    BY <1>3, <1>4, <1>5 DEF CanClimb
  <1> QED
    BY <1>6 DEF r, s

\* Steps 13.7 to 13.10 of the inner loop.
Cloned(q, node, last, at, i) ==
    LET c == NextId(q)
        r == PutOpen(PutEntry(Create(q, clone_node(q, node)), i, c), at, c)
    IN  AppendTo(Detach(r, last), c, last)

\* Steps 13.6 to 13.8: the node is cloned, and the clone takes its places.
LEMMA CloneTyped ==
    ASSUME NEW E, NEW q, NEW node, NEW last, NEW saved, NEW bookmark, NEW at, NEW i,
           CanClimb(E, q, node, last, saved, bookmark)
    PROVE  LET c == NextId(q)
           IN  /\ CanClimb(E, Cloned(q, node, last, at, i), c, c, saved, bookmark)
               /\ Len(Cloned(q, node, last, at, i).afe) = Len(q.afe)
               /\ Len(Cloned(q, node, last, at, i).open) = Len(q.open)
  <1> DEFINE c == NextId(q)
             a == Create(q, clone_node(q, node))
             b == PutEntry(a, i, c)
             r == PutOpen(b, at, c)
             d == Detach(r, last)
             e == AppendTo(d, c, last)
  <1>1. Good(q) /\ node \in Elems(q) /\ last \in Elems(q) /\ E \subseteq Elems(q)
    BY DEF CanClimb
  <1>2. clone_node(q, node) \in FreshElements /\ clone_node(q, node) \in Fresh
    BY <1>1, CloneFresh DEF FreshElements
  <1>3. /\ Good(a) /\ Elems(q) \subseteq Elems(a) /\ c \in Elems(a)
        /\ a.open = q.open /\ a.afe = q.afe
    BY <1>1, <1>2, CreateGood
  <1> HIDE DEF a, c
  <1>4. Good(b) /\ Elems(b) = Elems(a) /\ Len(b.afe) = Len(q.afe) /\ b.open = q.open
    BY <1>3, PutEntryGood
  <1> HIDE DEF b
  <1>5. Good(r) /\ Elems(r) = Elems(a) /\ Len(r.afe) = Len(q.afe) /\ Len(r.open) = Len(q.open)
    BY <1>3, <1>4, PutOpenGood
  <1> HIDE DEF r
  <1>6. last \in Elems(r)
    BY <1>1, <1>3, <1>5
  <1>7. Good(d) /\ Kept(r, d)
    BY <1>5, <1>6, DetachGood, ElemsFacts
  <1> HIDE DEF d
  <1>8. Good(e) /\ Kept(d, e)
    <2>1. last \in Elems(d)
      BY <1>6, <1>7 DEF Kept
    <2>2. Movable(d, last)
      BY <1>7, <2>1, ElemsFacts
    <2> QED
      BY <1>7, <2>2, AppendToGood
  <1>9. Cloned(q, node, last, at, i) = e
    BY DEF Cloned, e, d, r, b, a, c
  <1> HIDE DEF e
  <1>10. /\ Elems(e) = Elems(a) /\ Len(e.afe) = Len(q.afe)
         /\ Len(e.open) = Len(q.open) /\ c \in Elems(e)
    BY <1>3, <1>5, <1>7, <1>8 DEF Kept
  <1>11. CanClimb(E, e, c, c, saved, bookmark)
    BY <1>1, <1>3, <1>8, <1>10 DEF CanClimb
  <1> QED
    BY <1>9, <1>10, <1>11 DEF c

\* What the arms of ClimbStack make of the local variables.
Halt(s, q)            == [s EXCEPT !.p = q, !.done = TRUE]
Advance(s, node, at, round) == [s EXCEPT !.node = node, !.saved = at, !.round = round]
Finish(s)             == [s EXCEPT !.done = TRUE]
WithState(s, q)       == [s EXCEPT !.p = q]
WithMark(s, q, b)     == [s EXCEPT !.p = q, !.bookmark = b]
WithClone(s, q, c, b) == [s EXCEPT !.p = q, !.node = c, !.last = c, !.bookmark = b]

Locals == [p : States, node : Nat, last : Nat, saved : Nat, bookmark : Nat, round : Nat,
           done : BOOLEAN]

\* The fields of a loop that has halted.
LEMMA HaltFields ==
    ASSUME NEW s \in Locals, NEW q \in States
    PROVE  LET r == Halt(s, q)
           IN  /\ r \in Locals /\ r.p = q /\ r.node = s.node /\ r.last = s.last
               /\ r.saved = s.saved /\ r.bookmark = s.bookmark
  BY DEF Locals, Halt

\* The fields of a loop that has gone one element down.
LEMMA AdvanceFields ==
    ASSUME NEW s \in Locals, NEW node \in Nat, NEW at \in Nat, NEW round \in Nat
    PROVE  LET r == Advance(s, node, at, round)
           IN  /\ r \in Locals /\ r.p = s.p /\ r.node = node /\ r.last = s.last
               /\ r.saved = at /\ r.bookmark = s.bookmark /\ r.round = round
  BY DEF Locals, Advance

\* The fields of a loop that has reached the formatting element.
LEMMA FinishFields ==
    ASSUME NEW s \in Locals
    PROVE  LET r == Finish(s)
           IN  /\ r \in Locals /\ r.p = s.p /\ r.node = s.node /\ r.last = s.last
               /\ r.saved = s.saved /\ r.bookmark = s.bookmark
  BY DEF Locals, Finish

\* The fields of a loop whose parser state is replaced.
LEMMA WithStateFields ==
    ASSUME NEW s \in Locals, NEW q \in States
    PROVE  LET r == WithState(s, q)
           IN  /\ r \in Locals /\ r.p = q /\ r.node = s.node /\ r.last = s.last
               /\ r.saved = s.saved /\ r.bookmark = s.bookmark
  BY DEF Locals, WithState

\* The fields of a loop whose bookmark is moved.
LEMMA WithMarkFields ==
    ASSUME NEW s \in Locals, NEW q \in States, NEW b \in Nat
    PROVE  LET r == WithMark(s, q, b)
           IN  /\ r \in Locals /\ r.p = q /\ r.node = s.node /\ r.last = s.last
               /\ r.saved = s.saved /\ r.bookmark = b
  BY DEF Locals, WithMark

\* The fields of a loop that has cloned a node.
LEMMA WithCloneFields ==
    ASSUME NEW s \in Locals, NEW q \in States, NEW c \in Nat, NEW b \in Nat
    PROVE  LET r == WithClone(s, q, c, b)
           IN  /\ r \in Locals /\ r.p = q /\ r.node = c /\ r.last = c
               /\ r.saved = s.saved /\ r.bookmark = b
  BY DEF Locals, WithClone

\* A turn of the inner loop is one of four.
LEMMA ClimbArms ==
    ASSUME NEW s, NEW formatting, NEW block
    PROVE  LET at == (IF is_open_element(s.p, s.node) THEN PositionIn(s.p.open, s.node)
                      ELSE s.saved) - 1
               node == s.p.open[at]
               i    == PositionIn(s.p.afe, node)
               r    == Advance(s, node, at, s.round + 1)
           IN  ClimbStack(s, formatting, block) =
                 IF s.done THEN s
                 ELSE IF at <= 1 \/ s.p.nodes[node].parent = NULL
                 THEN Halt(s, Require(s.p, FALSE, "adoption agency step 13.3", s.p))
                 ELSE CASE node = formatting             -> Finish(r)
                        [] node # formatting /\ i = 0   ->
                              WithState(r, [r.p EXCEPT !.open = RemoveAt(@, at)])
                        [] node # formatting /\ i # 0 /\ r.round > 3  -> ForgetFormatting(r, i)
                        [] node # formatting /\ i # 0 /\ r.round <= 3 -> ReplaceByClone(r, at, i, block)
  BY DEF ClimbStack, Advance, Halt, Finish, WithState

\* Step 13.4 as a change of the loop's fields.
LEMMA ForgetIs ==
    ASSUME NEW s, NEW i
    PROVE  ForgetFormatting(s, i) =
              WithMark(s, [s.p EXCEPT !.afe = RemoveAt(@, i)],
                       IF i - 1 < s.bookmark THEN s.bookmark - 1 ELSE s.bookmark)
  BY DEF WithMark, ForgetFormatting

\* Steps 13.6 to 13.10 as changes of the loop's fields.
LEMMA CloneIs ==
    ASSUME NEW s, NEW at, NEW i, NEW block
    PROVE  ReplaceByClone(s, at, i, block) =
              WithClone(s, Cloned(s.p, s.node, s.last, at, i), NextId(s.p),
                        IF s.last = block THEN i ELSE s.bookmark)
  <1> DEFINE q == s.p
             c == NextId(q)
             a == Create(q, clone_node(q, s.node))
             r == [a EXCEPT !.afe[i] = c, !.open[at] = c]
             e == AppendTo(Detach(r, s.last), c, s.last)
  <1>1. Cloned(q, s.node, s.last, at, i) = e
    <2>1. r = PutOpen(PutEntry(a, i, c), at, c)
      <3> HIDE DEF a, c
      <3> QED
        BY DEF PutOpen, PutEntry
    <2> HIDE DEF r, a, c
    <2> QED
      BY <2>1 DEF Cloned, a, c
  <1>2. ReplaceByClone(s, at, i, block) =
          WithClone(s, e, c, IF s.last = block THEN i ELSE s.bookmark)
    BY DEF ReplaceByClone, WithClone
  <1> HIDE DEF e
  <1> QED
    BY <1>1, <1>2

\* A turn of the inner loop keeps the type of its state.
LEMMA ClimbTyped ==
    ASSUME NEW E, NEW formatting, NEW block, NEW s \in Climbs(E)
    PROVE  ClimbStack(s, formatting, block) \in Climbs(E)
  <1> DEFINE q == s.p
             at == (IF is_open_element(q, s.node) THEN PositionIn(q.open, s.node) ELSE s.saved) - 1
             node == q.open[at]
             i == PositionIn(q.afe, node)
             k == s.round + 1
             r == Advance(s, node, at, k)
             f == Halt(s, Require(q, FALSE, "adoption agency step 13.3", q))
             B == WithState(r, [r.p EXCEPT !.open = RemoveAt(@, at)])
             C == ForgetFormatting(r, i)
             D == ReplaceByClone(r, at, i, block)
  <1>1. s \in Locals /\ CanClimb(E, q, s.node, s.last, s.saved, s.bookmark)
    BY DEF Climbs, Locals
  <1>2. /\ s.done \in BOOLEAN /\ s.saved \in Nat /\ s.round \in Nat
    BY <1>1 DEF Locals
  <1>3. ClimbStack(s, formatting, block) =
          IF s.done THEN s
          ELSE IF at <= 1 \/ q.nodes[node].parent = NULL THEN f
          ELSE CASE node = formatting                             -> Finish(r)
                 [] node # formatting /\ i = 0                   -> B
                 [] node # formatting /\ i # 0 /\ r.round > 3   -> C
                 [] node # formatting /\ i # 0 /\ r.round <= 3  -> D
    BY ClimbArms
  <1>4. f \in Climbs(E)
    <2> DEFINE u == Failed(q, "adoption agency step 13.3")
    <2>1. Good(u) /\ Kept(q, u)
      BY <1>1, RequireFails, RequireKeeps DEF CanClimb, Assertions
    <2>2. Require(q, FALSE, "adoption agency step 13.3", q) = u
      BY DEF Require, Failed
    <2> HIDE DEF u, q
    <2>3. u \in States /\ CanClimb(E, u, s.node, s.last, s.saved, s.bookmark)
      BY <1>1, <2>1 DEF CanClimb, Kept, Good
    <2>4. f = Halt(s, u)
      BY <2>2
    <2> HIDE DEF f
    <2>5. /\ f \in Locals /\ f.p = u /\ f.node = s.node /\ f.last = s.last
          /\ f.saved = s.saved /\ f.bookmark = s.bookmark
      BY <1>1, <2>3, <2>4, HaltFields
    <2> QED
      BY <2>3, <2>5 DEF Climbs, Locals
  <1>5. CASE ~s.done /\ ~(at <= 1)
    <2>1. /\ Good(q) /\ q.open \in Seq(Elems(q)) /\ Len(q.open) \in Nat
          /\ q.afe \in Seq(Elems(q) \cup {Marker}) /\ Len(q.nodes) \in Nat
      BY <1>1, GoodFacts DEF CanClimb
    <2>2. at \in 1..Len(q.open)
      <3>1. PositionIn(q.open, s.node) \in 0..Len(q.open)
        BY <2>1, PositionTyped
      <3> QED
        BY <1>1, <1>2, <1>5, <2>1, <3>1 DEF CanClimb
    <2> HIDE DEF at
    <2>3. node \in Elems(q)
      BY <2>1, <2>2, ElementOfSeq
    <2> HIDE DEF node
    <2>4. i # 0 => i \in 1..Len(q.afe)
      BY <2>1, PositionTyped
    <2> HIDE DEF i
    <2>5. CanClimb(E, q, node, s.last, at, s.bookmark)
      BY <1>1, <2>1, <2>2, <2>3 DEF CanClimb
    <2>6. /\ r \in Locals /\ r.p = q /\ r.node = node /\ r.last = s.last
          /\ r.saved = at /\ r.bookmark = s.bookmark /\ r.round \in Nat
      <3>1. node \in Nat /\ at \in Nat /\ k \in Nat
        <4>1. node \in Nat
          BY <2>1, <2>3, ElemsFacts
        <4> QED
          BY <1>2, <2>1, <2>2, <4>1
      <3> HIDE DEF k
      <3>2. s \in Locals
        BY <1>1
      <3>3. /\ r \in Locals /\ r.p = s.p /\ r.node = node /\ r.last = s.last
            /\ r.saved = at /\ r.bookmark = s.bookmark /\ r.round = k
        BY ONLY <3>1, <3>2, AdvanceFields
      <3> HIDE DEF r
      <3> QED
        BY <3>1, <3>3
    <2> HIDE DEF r
    <2>7. Finish(r) \in Climbs(E)
      <3> DEFINE a == Finish(r)
      <3>1. /\ a \in Locals /\ a.p = q /\ a.node = node /\ a.last = s.last
            /\ a.saved = at /\ a.bookmark = s.bookmark
        BY <2>6, FinishFields
      <3> HIDE DEF a
      <3> QED
        BY <2>5, <3>1 DEF Climbs, Locals, a
    <2>8. B \in Climbs(E)
      <3> DEFINE u == [q EXCEPT !.open = RemoveAt(@, at)]
      <3>1. CanClimb(E, u, node, s.last, at, s.bookmark)
        BY <2>2, <2>5, DropTyped
      <3>2. B = WithState(r, u)
        BY <2>6
      <3> HIDE DEF u, B
      <3>3. u \in States
        BY <3>1 DEF CanClimb, Good
      <3>4. /\ B \in Locals /\ B.p = u /\ B.node = node /\ B.last = s.last
            /\ B.saved = at /\ B.bookmark = s.bookmark
        BY <2>6, <3>2, <3>3, WithStateFields
      <3> QED
        BY <3>1, <3>4 DEF Climbs, Locals
    <2>9. ASSUME i # 0 PROVE C \in Climbs(E)
      <3> DEFINE u == [q EXCEPT !.afe = RemoveAt(@, i)]
                 b == IF i - 1 < s.bookmark THEN s.bookmark - 1 ELSE s.bookmark
      <3>1. CanClimb(E, u, node, s.last, at, b)
        BY <2>4, <2>5, <2>9, ForgetTyped
      <3>2. C = WithMark(r, u, b)
        BY <2>6, ForgetIs
      <3> HIDE DEF u, b, C
      <3>3. u \in States /\ b \in Nat
        <4>1. Good(u) /\ b \in 0..Len(u.afe)
          BY <3>1 DEF CanClimb
        <4>2. Len(u.afe) \in Nat
          BY <4>1, GoodFacts
        <4> QED
          BY <4>1, <4>2 DEF Good
      <3>4. /\ C \in Locals /\ C.p = u /\ C.node = node /\ C.last = s.last
            /\ C.saved = at /\ C.bookmark = b
        BY <2>6, <3>2, <3>3, WithMarkFields
      <3> QED
        BY <3>1, <3>4 DEF Climbs, Locals
    <2>10. ASSUME i # 0 PROVE D \in Climbs(E)
      <3> DEFINE b == IF s.last = block THEN i ELSE s.bookmark
                 c == NextId(q)
                 e == Cloned(q, node, s.last, at, i)
      <3>1. CanClimb(E, e, c, c, at, s.bookmark) /\ Len(e.afe) = Len(q.afe)
        BY <2>5, CloneTyped
      <3>2. D = WithClone(r, e, c, b)
        BY <2>6, CloneIs
      <3>3. b \in 0..Len(q.afe) /\ Len(q.afe) \in Nat
        BY <2>1, <2>4, <2>5, <2>10, GoodFacts DEF CanClimb
      <3> HIDE DEF b, c, e, D
      <3>4. CanClimb(E, e, c, c, at, b)
        BY <3>1, <3>3 DEF CanClimb
      <3>5. e \in States /\ b \in Nat /\ c \in Nat
        <4>1. Good(e) /\ c \in Elems(e)
          BY <3>1 DEF CanClimb
        <4>2. c \in Nat
          BY <4>1, ElemsFacts
        <4>3. b \in Nat
          BY ONLY <3>3
        <4> QED
          BY <4>1, <4>2, <4>3 DEF Good
      <3>6. /\ D \in Locals /\ D.p = e /\ D.node = c /\ D.last = c
            /\ D.saved = at /\ D.bookmark = b
        <4>1. r \in Locals /\ r.saved = at
          BY ONLY <2>6
        <4> DEFINE w == WithClone(r, e, c, b)
        <4>2. /\ w \in Locals /\ w.p = e /\ w.node = c /\ w.last = c
              /\ w.saved = r.saved /\ w.bookmark = b
          BY ONLY <4>1, <3>5, WithCloneFields
        <4> HIDE DEF w
        <4>3. D = w
          BY ONLY <3>2 DEF w
        <4> QED
          BY ONLY <4>1, <4>2, <4>3
      <3> QED
        BY <3>4, <3>6 DEF Climbs, Locals
    <2> HIDE DEF f, B, C, D
    <2>11. r.round > 3 \/ r.round <= 3
      BY <2>6
    <2> DEFINE F == Finish(r)
    <2> HIDE DEF F
    <2>12. F \in Climbs(E)
      BY <2>7 DEF F
    <2>13. ClimbStack(s, formatting, block) \in {s, f, F, B} \cup (IF i # 0 THEN {C, D} ELSE {})
      BY <1>3, <1>5, <2>11 DEF at, node, i, r, F
    <2> QED
      BY <1>4, <2>8, <2>9, <2>10, <2>12, <2>13
  <1> HIDE DEF f, B, C, D, r
  <1> QED
    BY <1>3, <1>4, <1>5

\* The inner loop.
Climbed(q, formatting, block, start) ==
    LET Climb(s, k) == ClimbStack(s, formatting, block) IN FoldLeft(Climb, start, q.open)

\* The inner loop is a fold over the numbers of its turns.
LEMMA ClimbFold ==
    ASSUME NEW q, NEW formatting, NEW block, NEW start
    PROVE  Climbed(q, formatting, block, start) =
             (CHOOSE f : f = [s \in SUBSET DOMAIN q.open |->
                                IF s = {} THEN start
                                ELSE ClimbStack(f[s \ {Max(s)}], formatting, block)])
             [DOMAIN q.open]
  BY DEF Climbed, FoldLeft, MapThenFoldSet

\* The inner loop stays in a set that each of its turns stays in.
LEMMA ClimbedStays ==
    ASSUME NEW q, Good(q), NEW formatting, NEW block, NEW W, NEW start \in W,
           \A s \in W : ClimbStack(s, formatting, block) \in W
    PROVE  Climbed(q, formatting, block, start) \in W
  <1> DEFINE M == Len(q.open)
             Step == [x \in (1..M) \X W |-> ClimbStack(x[2], formatting, block)]
             Unfolds(f) == f = [s \in SUBSET (1..M) |->
                                  IF s = {} THEN start
                                  ELSE ClimbStack(f[s \ {Max(s)}], formatting, block)]
             g == CHOOSE f : Unfolds(f)
  <1>1. M \in Nat /\ DOMAIN q.open = 1..M
    BY GoodFacts
  <1>2. Climbed(q, formatting, block, start) = g[1..M]
    BY <1>1, ClimbFold
  <1>4. \A s \in W : ClimbStack(s, formatting, block) \in W
    OBVIOUS
  <1>3. start \in W
    OBVIOUS
  <1> HIDE DEF M
  <1>5. Unfolds(g)
    <2>1. Step \in [(1..M) \X W -> W]
      BY <1>4
    <2> HIDE DEF Step
    <2>2. PICK f \in [SUBSET (1..M) -> W] : IsFold(f, M, start, Step)
      BY <1>1, <1>3, <2>1, FoldExists
    <2>3. ASSUME NEW s \in SUBSET (1..M), s # {}
          PROVE  Step[<<Max(s), f[s \ {Max(s)}]>>] = ClimbStack(f[s \ {Max(s)}], formatting, block)
      <3>1. Max(s) \in s
        BY <1>1, <2>3, MaxOfPositions
      <3>2. Max(s) \in 1..M /\ s \ {Max(s)} \in SUBSET (1..M)
        BY <3>1
      <3>3. f[s \ {Max(s)}] \in W
        BY <2>2, <3>2
      <3> DEFINE x == <<Max(s), f[s \ {Max(s)}]>>
      <3>4. x \in (1..M) \X W /\ x[2] = f[s \ {Max(s)}]
        BY <3>2, <3>3
      <3> HIDE DEF x
      <3>5. Step[x] = ClimbStack(x[2], formatting, block)
        BY <3>4 DEF Step
      <3> QED
        BY <3>4, <3>5 DEF x
    <2>4. Unfolds(f)
      <3>1. f = [s \in SUBSET (1..M) |->
                    IF s = {} THEN start ELSE Step[<<Max(s), f[s \ {Max(s)}]>>]]
        BY <2>2 DEF IsFold
      <3> QED
        BY <2>3, <3>1
    <2> HIDE DEF Unfolds
    <2> QED
      BY <2>4
  <1> HIDE DEF g
  <1>6. g[1..0] \in W
    <2>1. 1..0 = {} /\ {} \in SUBSET (1..M)
      OBVIOUS
    <2> QED
      BY <1>3, <1>5, <2>1
  <1>7. ASSUME NEW k \in 0..(M - 1), g[1..k] \in W PROVE g[1..(k + 1)] \in W
    <2>1. k + 1 \in Nat \ {0} /\ (k + 1) - 1 = k /\ 1..(k + 1) \in SUBSET (1..M)
      BY <1>1
    <2>2. 1..(k + 1) # {} /\ Max(1..(k + 1)) = k + 1 /\ (1..(k + 1)) \ {k + 1} = 1..k
      BY ONLY <2>1, MaxOfPrefix
    <2>3. g[1..(k + 1)] = ClimbStack(g[1..k], formatting, block)
      BY <1>5, <2>1, <2>2
    <2> QED
      BY <1>4, <1>7, <2>3
  <1>8. g[1..M] \in W
    BY <1>1, <1>6, <1>7, FoldStays
  <1> QED
    BY <1>2, <1>8

\* The inner loop keeps the type of its state, however often it turns.
LEMMA ClimbedTyped ==
    ASSUME NEW E, NEW q, Good(q), NEW formatting, NEW block, NEW start \in Climbs(E)
    PROVE  Climbed(q, formatting, block, start) \in Climbs(E)
  <1>1. \A s \in Climbs(E) : ClimbStack(s, formatting, block) \in Climbs(E)
    BY ClimbTyped
  <1> QED
    BY <1>1, ClimbedStays

-----------------------------------------------------------------------------
\* Steps 14 to 19, after the inner loop.
Adopted(s, formatting, block, ancestor) ==
    LET q == Detach(s.p, s.last)
        r == InsertAtLocation(q, s.last, get_appropriate_insertion_location(q, ancestor))
        c == NextId(r)
        u == Create(r, clone_node(r, formatting))
        v == AppendTo([u EXCEPT !.nodes = Settled(move_children(@, block, c))], block, c)
        at    == PositionIn(v.afe, formatting)
    IN  Require(v, at # 0, "adoption agency step 18",
                [v EXCEPT !.afe = ReplaceInList(@, at, s.bookmark, c),
                          !.open = ReplaceOnStack(@, formatting, block, c)])

\* What follows the inner loop, call by call.
LEMMA AdoptBlockIs ==
    ASSUME NEW q, NEW inList, NEW inStack, NEW blockAt
    PROVE  AdoptBlock(q, inList, inStack, blockAt) =
             Adopted(Climbed(q, q.open[inStack], q.open[blockAt],
                             Climber(q, q.open[blockAt], q.open[blockAt], blockAt, inList, 0, FALSE)),
                     q.open[inStack], q.open[blockAt], q.open[inStack - 1])
  BY DEF AdoptBlock, Adopted, Climbed, Climber

\* gumbo_vector_insert_at keeps the elements' set.
LEMMA InsertAtTyped ==
    ASSUME NEW S, NEW s \in Seq(S), NEW i \in 1..(Len(s) + 1), NEW e \in S
    PROVE  InsertAt(s, i, e) \in Seq(S)
  BY InsertAtProperties

\* Step 18: the formatting element's clone goes to the bookmark.
LEMMA ReplaceInListTyped ==
    ASSUME NEW S, NEW s \in Seq(S), NEW at \in 1..Len(s), NEW b \in 0..Len(s), NEW c \in S
    PROVE  ReplaceInList(s, at, b, c) \in Seq(S)
  <1> DEFINE r == RemoveAt(s, at)
             i == (IF at - 1 < b THEN b - 1 ELSE b) + 1
  <1>1. r \in Seq(S) /\ Len(r) = Len(s) - 1 /\ Len(s) \in Nat
    BY RemoveAtProperties
  <1> HIDE DEF r
  <1>2. i \in 1..(Len(r) + 1)
    BY <1>1
  <1> HIDE DEF i
  <1>3. InsertAt(r, i, c) \in Seq(S)
    BY <1>1, <1>2, InsertAtTyped
  <1> QED
    BY <1>3 DEF ReplaceInList, r, i

\* Step 19: the formatting element's clone goes above the furthest block.
LEMMA ReplaceOnStackTyped ==
    ASSUME NEW S, NEW s \in Seq(S), NEW formatting, NEW block, NEW c \in S
    PROVE  ReplaceOnStack(s, formatting, block, c) \in Seq(S)
  <1> DEFINE r == RemoveFirst(s, formatting)
             i == PositionIn(r, block) + 1
  <1>1. r \in Seq(S)
    BY RemoveFirstTyped
  <1> HIDE DEF r
  <1>2. i \in 1..(Len(r) + 1)
    <2>1. PositionIn(r, block) \in 0..Len(r) /\ Len(r) \in Nat
      BY <1>1, PositionTyped
    <2> QED
      BY <2>1
  <1> HIDE DEF i
  <1>3. InsertAt(r, i, c) \in Seq(S)
    BY <1>1, <1>2, InsertAtTyped
  <1> QED
    BY <1>3 DEF ReplaceOnStack, r, i

\* Step 16 and what follows: the children of the block go to the clone c.
LEMMA TakeChildrenGood ==
    ASSUME NEW r, Good(r), NEW formatting \in Elems(r), NEW block \in Elems(r)
    PROVE  LET c == NextId(r)
               u == Create(r, clone_node(r, formatting))
               w == [u EXCEPT !.nodes = Settled(move_children(@, block, c))]
           IN  Good(w) /\ w.afe = r.afe /\ w.open = r.open /\ Elems(r) \subseteq Elems(w)
               /\ c \in Elems(w)
  <1> DEFINE c == NextId(r)
             x == clone_node(r, formatting)
             u == Create(r, x)
             t == move_children(u.nodes, block, c)
             w == [u EXCEPT !.nodes = t]
  <1>1. x \in FreshElements /\ x \in Fresh
    BY CloneFresh DEF FreshElements
  <1> HIDE DEF x
  <1>2. x.parent = NULL /\ x.kids = <<>> /\ x.type \in Holders
    BY <1>1, FreshFields DEF FreshElements, Fresh
  <1>3. /\ Good(u) /\ Len(u.nodes) = Len(r.nodes) + 1 /\ u.open = r.open /\ u.afe = r.afe
        /\ u.nodes[Len(r.nodes) + 1] = x
        /\ c = Len(r.nodes) + 1 /\ c \in Elems(u) /\ Elems(r) \subseteq Elems(u)
    BY <1>1, CreateGood
  <1> HIDE DEF u, c
  <1>4. /\ Len(r.nodes) \in Nat /\ DOMAIN u.nodes = 1..Len(u.nodes)
        /\ u.nodes \in Seq(Nodes(Len(u.nodes))) /\ Document \in DOMAIN u.nodes
        /\ u.ctx # NULL => u.ctx \in DOMAIN u.nodes
    BY <1>3, GoodFacts
  <1>5. block \in DOMAIN u.nodes /\ c \in DOMAIN u.nodes /\ block # c
    <2>1. block \in 1..Len(r.nodes) /\ block \in Elems(u)
      BY <1>3, ElemsFacts
    <2>2. block \in DOMAIN u.nodes /\ c \in DOMAIN u.nodes
      BY <1>3, <2>1, ElemsFacts
    <2> QED
      BY ONLY <1>3, <1>4, <2>1, <2>2
  <1>6. u.nodes[c].parent = NULL /\ u.nodes[c].kids = <<>> /\ u.nodes[c].type \in Holders
    BY <1>2, <1>3
  <1>7. Follows(u.nodes, t) /\ Len(t) = Len(u.nodes)
    BY <1>4, <1>5, <1>6, MoveFollows
  <1>8. Settled(t) = t
    BY <1>7, SettledSame DEF Follows
  <1>9. ASSUME ~Freed(u.nodes), Sound(u.nodes), Shape(u.nodes, u.ctx)
        PROVE  Shape(t, u.ctx)
    <2>1. IsContainer(u.nodes[c])
      BY <1>5, <1>6, <1>9 DEF Freed, Holders, IsContainer
    <2> HIDE DEF t
    <2> QED
      BY <1>4, <1>5, <1>6, <1>9, <2>1, MoveShape DEF t
  <1> HIDE DEF t
  <1>10. Good(w) /\ Kept(u, w)
    BY <1>3, <1>7, <1>9, NodesKept
  <1>11. w = [u EXCEPT !.nodes = Settled(t)]
    BY <1>8
  <1> HIDE DEF w
  <1>12. Good(w) /\ w.afe = r.afe /\ w.open = r.open /\ Elems(r) \subseteq Elems(w) /\ c \in Elems(w)
    BY <1>3, <1>10 DEF Kept
  <1> QED
    BY <1>11, <1>12 DEF t, u, x, c

\* Steps 14 to 19, once the inner loop has ended.
LEMMA AdoptedGood ==
    ASSUME NEW E, NEW s \in Climbs(E), NEW formatting \in E, NEW block \in E, NEW ancestor
    PROVE  Good(Adopted(s, formatting, block, ancestor))
  <1> DEFINE q == Detach(s.p, s.last)
             loc == get_appropriate_insertion_location(q, ancestor)
             r == InsertAtLocation(q, s.last, loc)
             c == NextId(r)
             u == Create(r, clone_node(r, formatting))
             w == [u EXCEPT !.nodes = Settled(move_children(@, block, c))]
             v == AppendTo(w, block, c)
             at == PositionIn(v.afe, formatting)
             afe == ReplaceInList(v.afe, at, s.bookmark, c)
             open == ReplaceOnStack(v.open, formatting, block, c)
             e == [v EXCEPT !.afe = afe, !.open = open]
  <1>1. CanClimb(E, s.p, s.node, s.last, s.saved, s.bookmark)
    BY DEF Climbs
  <1>2. Adopted(s, formatting, block, ancestor) =
           IF at # 0 THEN e ELSE Failed(v, "adoption agency step 18")
    BY DEF Adopted, Require, Failed
  <1>3. Good(q) /\ Kept(s.p, q) /\ s.last \in Elems(q)
    <2>1. Good(s.p) /\ s.last \in Elems(s.p)
      BY <1>1 DEF CanClimb
    <2>2. s.last \in 1..Len(s.p.nodes)
      BY <2>1, ElemsFacts
    <2> QED
      BY <2>1, <2>2, DetachGood DEF Kept
  <1> HIDE DEF q, loc
  <1>4. Good(r) /\ Kept(q, r)
    BY <1>3, InsertAtLocationGood, ElemsFacts
  <1> HIDE DEF r
  <1>5. formatting \in Elems(r) /\ block \in Elems(r)
    BY <1>1, <1>3, <1>4 DEF CanClimb, Kept
  <1>6. Good(w) /\ w.afe = r.afe /\ w.open = r.open /\ c \in Elems(w)
    BY <1>4, <1>5, TakeChildrenGood
  <1> HIDE DEF w, c
  <1>7. Good(v) /\ Kept(w, v)
    BY <1>6, AppendToGood, ElemsFacts
  <1> HIDE DEF v
  <1>8. /\ c \in Elems(v) /\ s.bookmark \in 0..Len(v.afe)
        /\ v.open \in Seq(Elems(v)) /\ v.afe \in Seq(Elems(v) \cup {Marker})
    BY <1>1, <1>3, <1>4, <1>6, <1>7, GoodFacts DEF Kept, CanClimb
  <1>9. ASSUME at # 0 PROVE Good(e)
    <2>1. at \in 1..Len(v.afe)
      BY <1>8, <1>9, PositionTyped
    <2> HIDE DEF at
    <2>2. afe \in Seq(Elems(v) \cup {Marker})
      BY <1>8, <2>1, ReplaceInListTyped
    <2>3. open \in Seq(Elems(v))
      BY <1>8, ReplaceOnStackTyped
    <2> HIDE DEF afe, open
    <2> DEFINE a == [v EXCEPT !.afe = afe]
    <2>4. Good(a) /\ Elems(a) = Elems(v)
      <3>1. Elems(a) = Elems(v)
        BY <1>7 DEF Good, States, Elems
      <3> QED
        BY <1>7, <2>2, <3>1, SetAfe
    <2>5. e = [a EXCEPT !.open = open]
      OBVIOUS
    <2> HIDE DEF a
    <2> QED
      BY <2>3, <2>4, <2>5, SetOpen
  <1>10. Good(Failed(v, "adoption agency step 18"))
    BY <1>7, RequireFails DEF Assertions
  <1> HIDE DEF e, at
  <1> QED
    BY <1>2, <1>9, <1>10

\* Steps 12 to 19: what is done when there is a furthest block.
LEMMA AdoptBlockGood ==
    ASSUME NEW q, Good(q), NEW inList \in 1..Len(q.afe), NEW inStack \in 1..Len(q.open),
           NEW blockAt \in 1..Len(q.open)
    PROVE  Good(AdoptBlock(q, inList, inStack, blockAt))
  <1> DEFINE E == Elems(q)
             formatting == q.open[inStack]
             block == q.open[blockAt]
             ancestor == q.open[inStack - 1]
             start == Climber(q, block, block, blockAt, inList, 0, FALSE)
             s == Climbed(q, formatting, block, start)
  <1>1. Len(q.open) \in Nat /\ Len(q.afe) \in Nat /\ q.open \in Seq(E)
    BY GoodFacts
  <1>2. formatting \in E /\ block \in E
    <2> HIDE DEF E
    <2> QED
      BY <1>1, ElementOfSeq
  <1>3. AdoptBlock(q, inList, inStack, blockAt) = Adopted(s, formatting, block, ancestor)
    BY AdoptBlockIs
  <1> HIDE DEF formatting, block, ancestor
  <1>4. CanClimb(E, q, block, block, blockAt, inList)
    BY <1>1, <1>2 DEF CanClimb
  <1> HIDE DEF E
  <1>5. start \in Climbs(E)
    BY <1>4, ClimberTyped
  <1> HIDE DEF start
  <1>6. s \in Climbs(E)
    BY <1>1, <1>5, ClimbedTyped
  <1> HIDE DEF s
  <1> QED
    BY <1>1, <1>2, <1>3, <1>6, AdoptedGood

Rounds == {s \in [p : States, done : BOOLEAN] : Good(s.p)}

\* What a state of the outer loop says of its parts.
LEMMA RoundTyped ==
    ASSUME NEW q, Good(q), NEW done \in BOOLEAN
    PROVE  [p |-> q, done |-> done] \in Rounds
  BY DEF Rounds, Good

\* Steps 4 to 19: one turn of the outer loop that is not over.
LEMMA AdoptOnceTyped ==
    ASSUME NEW q, Good(q), NEW subject
    PROVE  AdoptOnce(q, subject) \in Rounds
  <1> DEFINE found     == FormattingOf(q, subject)
             inList    == Max(found)
             formatting == q.afe[inList]
             inStack   == PositionIn(q.open, formatting)
             I == {i \in inStack..Len(q.open) : Name(q, q.open[i]) \in Special}
             blockAt == Lowest(I)
             forgotten == [q EXCEPT !.afe = RemoveFirst(@, formatting)]
             popped == PopTo(forgotten, inStack - 1)
             adopted == AdoptBlock(q, inList, inStack, blockAt)
  <1>1. AdoptOnce(q, subject) =
          IF found = {} THEN [p |-> q, done |-> TRUE]
          ELSE IF inStack = 0 THEN [p |-> forgotten, done |-> TRUE]
          ELSE IF ~InDefaultScope(q, {subject}) THEN [p |-> q, done |-> TRUE]
          ELSE IF blockAt = 0 THEN [p |-> popped, done |-> TRUE]
          ELSE [p |-> adopted, done |-> FALSE]
    BY DEF AdoptOnce, SelectInSubSeq, Lowest
  <1>2. /\ q.afe \in Seq(Elems(q) \cup {Marker}) /\ Len(q.afe) \in Nat
        /\ q.open \in Seq(Elems(q)) /\ Len(q.open) \in Nat
    BY GoodFacts
  <1>3. inStack \in 0..Len(q.open)
    BY <1>2, PositionTyped
  <1>4. Good(forgotten)
    <2> DEFINE s == RemoveFirst(q.afe, formatting)
    <2>1. s \in Seq(Elems(q) \cup {Marker})
      BY <1>2, RemoveFirstTyped
    <2> HIDE DEF s
    <2>2. Good([q EXCEPT !.afe = s])
      BY <2>1, SetAfe
    <2> QED
      BY <2>2 DEF s
  <1> HIDE DEF forgotten
  <1>5. Good(popped)
    <2>1. inStack - 1 \in Int
      BY <1>3
    <2> QED
      BY <1>4, <2>1, PopToGood
  <1> HIDE DEF popped
  <1>6. ASSUME found # {}, inStack # 0, blockAt # 0 PROVE Good(adopted)
    <2>1. found \in SUBSET (1..Len(q.afe))
      BY <1>2, LastMarkerTyped DEF FormattingOf
    <2> HIDE DEF found
    <2>2. inList \in 1..Len(q.afe)
      BY <1>2, <1>6, <2>1, MaxOfPositions
    <2> HIDE DEF inList, formatting, inStack
    <2>3. I \in SUBSET (1..Len(q.open)) /\ inStack \in 1..Len(q.open)
      BY <1>2, <1>3, <1>6
    <2> HIDE DEF I
    <2>4. blockAt \in 1..Len(q.open)
      BY <1>2, <1>6, <2>3, HighestTyped
    <2> HIDE DEF blockAt
    <2> QED
      BY <2>2, <2>3, <2>4, AdoptBlockGood
  <1> HIDE DEF found, inList, formatting, inStack, I, blockAt, adopted
  <1>7. /\ [p |-> q, done |-> TRUE] \in Rounds /\ [p |-> forgotten, done |-> TRUE] \in Rounds
        /\ [p |-> popped, done |-> TRUE] \in Rounds
    BY <1>4, <1>5, RoundTyped
  <1>8. Good(adopted) => [p |-> adopted, done |-> FALSE] \in Rounds
    BY RoundTyped
  <1> QED
    BY <1>1, <1>6, <1>7, <1>8

\* One turn of the outer loop, or none when it is over.
Round(s, subject) == IF s.done \/ s.p.failed # "" THEN s ELSE AdoptOnce(s.p, subject)

\* A turn of the outer loop keeps the type of its state.
LEMMA RoundGood ==
    ASSUME NEW s \in Rounds, NEW subject
    PROVE  Round(s, subject) \in Rounds
  BY AdoptOnceTyped DEF Round, Rounds

Adoptions(q, subject) ==
    LET Turn1(s, i) == IF s.done \/ s.p.failed # "" THEN s ELSE AdoptOnce(s.p, subject)
    IN  FoldLeft(Turn1, [p |-> q, done |-> FALSE], [i \in 1..8 |-> i])

\* The outer loop is a fold over the numbers of its eight turns.
LEMMA AdoptionsFold ==
    ASSUME NEW q, NEW subject
    PROVE  Adoptions(q, subject) =
             (CHOOSE f : f = [s \in SUBSET DOMAIN [i \in 1..8 |-> i] |->
                                IF s = {} THEN [p |-> q, done |-> FALSE]
                                ELSE Round(f[s \ {Max(s)}], subject)])
             [DOMAIN [i \in 1..8 |-> i]]
  BY DEF Adoptions, FoldLeft, MapThenFoldSet, Round

\* The outer loop stays in a set that each of its turns stays in.
LEMMA AdoptionsStay ==
    ASSUME NEW q, NEW subject, NEW W, [p |-> q, done |-> FALSE] \in W,
           \A s \in W : Round(s, subject) \in W
    PROVE  Adoptions(q, subject) \in W
  <1> DEFINE M == 8
             start == [p |-> q, done |-> FALSE]
             Step == [x \in (1..M) \X W |-> Round(x[2], subject)]
             Unfolds(f) == f = [s \in SUBSET (1..M) |->
                                  IF s = {} THEN start
                                  ELSE Round(f[s \ {Max(s)}], subject)]
             g == CHOOSE f : Unfolds(f)
  <1>1. M \in Nat
    OBVIOUS
  <1>2. Adoptions(q, subject) = g[1..M]
    <2>1. DOMAIN [i \in 1..8 |-> i] = 1..M
      OBVIOUS
    <2> QED
      BY <2>1, AdoptionsFold
  <1>3. start \in W
    OBVIOUS
  <1>4. \A s \in W : Round(s, subject) \in W
    OBVIOUS
  <1> HIDE DEF M, start
  <1>5. Unfolds(g)
    <2>1. Step \in [(1..M) \X W -> W]
      BY <1>4
    <2> HIDE DEF Step
    <2>2. PICK f \in [SUBSET (1..M) -> W] : IsFold(f, M, start, Step)
      BY <1>1, <1>3, <2>1, FoldExists
    <2>3. ASSUME NEW s \in SUBSET (1..M), s # {}
          PROVE  Step[<<Max(s), f[s \ {Max(s)}]>>] = Round(f[s \ {Max(s)}], subject)
      <3>1. Max(s) \in s
        BY <1>1, <2>3, MaxOfPositions
      <3>2. Max(s) \in 1..M /\ s \ {Max(s)} \in SUBSET (1..M)
        BY <3>1
      <3>3. f[s \ {Max(s)}] \in W
        BY <2>2, <3>2
      <3> DEFINE x == <<Max(s), f[s \ {Max(s)}]>>
      <3>4. x \in (1..M) \X W /\ x[2] = f[s \ {Max(s)}]
        BY <3>2, <3>3
      <3> HIDE DEF x
      <3>5. Step[x] = Round(x[2], subject)
        BY <3>4 DEF Step
      <3> QED
        BY <3>4, <3>5 DEF x
    <2>4. Unfolds(f)
      <3>1. f = [s \in SUBSET (1..M) |->
                    IF s = {} THEN start ELSE Step[<<Max(s), f[s \ {Max(s)}]>>]]
        BY <2>2 DEF IsFold
      <3> QED
        BY <2>3, <3>1
    <2> HIDE DEF Unfolds
    <2> QED
      BY <2>4
  <1> HIDE DEF g
  <1>6. g[1..0] \in W
    <2>1. 1..0 = {} /\ {} \in SUBSET (1..M)
      OBVIOUS
    <2> QED
      BY <1>3, <1>5, <2>1
  <1>7. ASSUME NEW k \in 0..(M - 1), g[1..k] \in W PROVE g[1..(k + 1)] \in W
    <2>1. k + 1 \in Nat \ {0} /\ (k + 1) - 1 = k /\ 1..(k + 1) \in SUBSET (1..M)
      BY <1>1
    <2>2. 1..(k + 1) # {} /\ Max(1..(k + 1)) = k + 1 /\ (1..(k + 1)) \ {k + 1} = 1..k
      BY ONLY <2>1, MaxOfPrefix
    <2>3. g[1..(k + 1)] = Round(g[1..k], subject)
      BY <1>5, <2>1, <2>2
    <2> QED
      BY <1>4, <1>7, <2>3
  <1>8. g[1..M] \in W
    BY <1>1, <1>6, <1>7, FoldStays
  <1> QED
    BY <1>2, <1>8

\* The outer loop keeps the type of its state.
LEMMA AdoptionsTyped ==
    ASSUME NEW q, Good(q), NEW subject
    PROVE  Adoptions(q, subject) \in Rounds
  <1>1. [p |-> q, done |-> FALSE] \in Rounds
    BY RoundTyped
  <1>2. \A s \in Rounds : Round(s, subject) \in Rounds
    BY RoundGood
  <1> QED
    BY <1>1, <1>2, AdoptionsStay

\* adoption_agency_algorithm, whatever the tag.
LEMMA AdoptionGood ==
    ASSUME NEW q, Good(q), NEW subject
    PROVE  Good(adoption_agency_algorithm(q, subject))
  <1>1. adoption_agency_algorithm(q, subject) \in
          {pop_current_node(q), Adoptions(q, subject).p}
    BY DEF adoption_agency_algorithm, Adoptions
  <1>2. Good(pop_current_node(q)) /\ Good(Adoptions(q, subject).p)
    BY PopCurrentGood, AdoptionsTyped DEF Rounds
  <1> QED
    BY <1>1, <1>2

-----------------------------------------------------------------------------
(***************************************************************************)
(* The parts of the handlers.                                              *)
(***************************************************************************)

\* The element of a start tag is inserted, and is on the stack.
LEMMA InsertedGood ==
    ASSUME NEW q, Good(q), NEW t \in Tokens
    PROVE  Good(insert_element_from_token(q, t)) /\ insert_element_from_token(q, t).open # <<>>
  BY InsertTokenGood DEF Spaces

\* A frameset is no longer accepted.
LEMMA FramesetNotOkGood ==
    ASSUME NEW q, Good(q)
    PROVE  Good(FramesetNotOk(q))
  BY SetPlain DEF FramesetNotOk

\* The token is to be presented again.
LEMMA AgainGood ==
    ASSUME NEW q, Good(q)
    PROVE  Good([q EXCEPT !.reprocess = TRUE])
  BY SetPlain

\* An element without content is inserted and popped.
LEMMA InsertVoidGood ==
    ASSUME NEW q, Good(q), NEW t \in Tokens
    PROVE  Good(InsertVoid(q, t))
  BY InsertedGood, PopCurrentGood DEF InsertVoid

\* The list is reconstructed and an element inserted.
LEMMA ReconstructInsertGood ==
    ASSUME NEW q, Good(q), NEW t \in Tokens
    PROVE  Good(Reconstruct(q)) /\ Good(ReconstructAndInsert(q, t))
  BY ReconstructGood, InsertedGood DEF Reconstruct, ReconstructAndInsert

\* A p element is closed and an element inserted, which is then current.
LEMMA ClosePInsertGood ==
    ASSUME NEW q, Good(q), NEW t \in Tokens
    PROVE  Good(ClosePAndInsert(q, t)) /\ ClosePAndInsert(q, t).open # <<>>
  BY ClosePGood, InsertedGood DEF ClosePAndInsert

\* Over a stack that is not empty the current node is allocated.
LEMMA CurrentAllocated ==
    ASSUME NEW q, Good(q), q.open # <<>>
    PROVE  get_current_node(q) \in Elems(q)
  <1>1. q.open \in Seq(Elems(q))
    BY GoodFacts
  <1>2. Len(q.open) \in Nat /\ Len(q.open) > 0
    BY <1>1
  <1>3. q.open[Len(q.open)] \in Elems(q)
    BY <1>1, <1>2
  <1> QED
    BY <1>3 DEF get_current_node, Last

\* An element is inserted and put on the list.
LEMMA InsertFormattingGood ==
    ASSUME NEW q, Good(q), NEW t \in Tokens
    PROVE  Good(InsertFormatting(q, t))
  <1> DEFINE r == insert_element_from_token(q, t)
  <1>1. Good(r) /\ r.open # <<>>
    BY InsertedGood
  <1>2. InsertFormatting(q, t) = add_formatting_element(r, get_current_node(r))
    BY DEF InsertFormatting
  <1> HIDE DEF r
  <1> QED
    BY <1>1, <1>2, CurrentAllocated, AddFormattingGood

\* pop_template_insertion_mode, of an empty stack too.
LEMMA PopTemplateModeGood ==
    ASSUME NEW q, Good(q)
    PROVE  Good(pop_template_insertion_mode(q))
  <1>1. q.tmodes \in Seq(Modes)
    BY RecordFacts
  <1> DEFINE s == IF q.tmodes = <<>> THEN q.tmodes ELSE Front(q.tmodes)
  <1>2. s \in Seq(Modes)
    BY <1>1, LastTyped
  <1>3. pop_template_insertion_mode(q) = [q EXCEPT !.tmodes = s]
    BY DEF pop_template_insertion_mode
  <1> HIDE DEF s
  <1> QED
    BY <1>2, <1>3, SetPlain

\* push_template_insertion_mode.
LEMMA PushTemplateModeGood ==
    ASSUME NEW q, Good(q), NEW mode \in Modes
    PROVE  Good([q EXCEPT !.tmodes = Append(@, mode)])
  <1>1. q.tmodes \in Seq(Modes)
    BY RecordFacts
  <1>2. Append(q.tmodes, mode) \in Seq(Modes)
    BY <1>1
  <1> QED
    BY <1>2, SetPlain

\* What closing a template does.
LEMMA CloseTemplateGood ==
    ASSUME NEW q, Good(q)
    PROVE  Good(CloseTemplate(q))
  BY PopThroughTagGood, ClearFormattingGood, PopTemplateModeGood, ResetModeGood DEF CloseTemplate

\* The start tag of a template.
LEMMA StartTemplateGood ==
    ASSUME NEW q, Good(q), NEW t \in Tokens
    PROVE  Good(StartTemplate(q, t))
  <1> DEFINE r == PushMarker(insert_element_from_token(q, t))
             a == [r EXCEPT !.fok = FALSE]
             b == [a EXCEPT !.mode = "in_template"]
             s == Append(r.tmodes, "in_template")
             c == [b EXCEPT !.tmodes = s]
  <1>1. Good(r)
    BY InsertedGood, PushMarkerGood
  <1>2. StartTemplate(q, t) = c
    BY DEF StartTemplate
  <1> HIDE DEF r
  <1>3. "in_template" \in Modes
    BY DEF Modes
  <1>8. r.tmodes \in Seq(Modes)
    BY <1>1, RecordFacts
  <1>4. s \in Seq(Modes)
    BY <1>3, <1>8
  <1> HIDE DEF s
  <1>5. Good(a)
    BY <1>1, SetPlain
  <1> HIDE DEF a
  <1>6. Good(b)
    BY <1>3, <1>5, SetPlain
  <1> HIDE DEF b
  <1>7. Good(c)
    BY <1>4, <1>6, SetPlain
  <1> QED
    BY <1>2, <1>7

\* The end tag of a template, ignored when none is open.
LEMMA EndTemplateGood ==
    ASSUME NEW q, Good(q), NEW t \in Tokens
    PROVE  Good(EndTemplate(q, t))
  BY IgnoreTokenGood, ImpliedEndThoroughlyGood, CloseTemplateGood DEF EndTemplate

\* Only these tokens reach HeadElement.
HeadTokens ==
    {t \in Tokens : \/ t.type = "start" /\ t.tag \in HeadStartTags
                    \/ t.type = "end" /\ t.tag = "template"}

\* handle_in_head for the tags other modes hand to it.
LEMMA HeadElementGood ==
    ASSUME NEW q, Good(q), NEW t \in HeadTokens
    PROVE  Good(HeadElement(q, t))
  <1>1. t \in Tokens
    BY DEF HeadTokens
  <1>2. Good(InsertVoid(q, t)) /\ Good(StartTemplate(q, t)) /\ Good(EndTemplate(q, t))
    BY <1>1, InsertVoidGood, StartTemplateGood, EndTemplateGood
  <1>3. \A lexer \in {"rcdata", "rawtext", "script"} : Good(run_generic_parsing_algorithm(q, t, lexer))
    BY <1>1, GenericParsingGood DEF LexerStates
  <1>4. \/ IsStart(t, {"base", "basefont", "bgsound", "link", "meta"}) \/ IsStart(t, {"title"})
        \/ IsStart(t, {"noframes", "style"}) \/ IsStart(t, {"script"}) \/ IsStart(t, {"template"})
        \/ IsEnd(t, {"template"})
    BY DEF HeadTokens, HeadStartTags, IsStart, IsEnd
  <1> QED
    BY <1>2, <1>3, <1>4 DEF HeadElement

\* An html start tag in the body adds its attributes to the root.
LEMMA MergeIntoHtmlGood ==
    ASSUME NEW q, Good(q), NEW t \in Tokens
    PROVE  Good(MergeIntoHtml(q, t))
  <1>1. t.data \in SUBSET STRING
    BY DEF Tokens
  <1> QED
    BY <1>1, IgnoreTokenGood, MergeGood DEF MergeIntoHtml

\* A second body start tag adds its attributes to the body.
LEMMA MergeIntoBodyGood ==
    ASSUME NEW q, Good(q), NEW t \in Tokens
    PROVE  Good(MergeIntoBody(q, t))
  <1>1. t.data \in SUBSET STRING
    BY DEF Tokens
  <1>2. Good(merge_attributes(FramesetNotOk(q), t, q.open[2]))
    BY <1>1, FramesetNotOkGood, MergeGood
  <1> QED
    BY <1>2, IgnoreTokenGood DEF MergeIntoBody

\* A good state has its type.
LEMMA GoodIsTyped ==
    ASSUME NEW q, Good(q)
    PROVE  Typed(q)
  BY GoodFacts DEF Good, Typed

\* Everything above the root is popped.
LEMMA LeaveBodyGood ==
    ASSUME NEW q, Good(q)
    PROVE  Good(LeaveBody(q))
  BY PopToGood, ClearFormattingGood DEF LeaveBody

-----------------------------------------------------------------------------
(***************************************************************************)
(* The tags of handle_in_body.                                             *)
(***************************************************************************)

\* A heading start tag closes a p, and a heading that is current.
LEMMA HeadingGood ==
    ASSUME NEW q, Good(q), NEW t \in Tokens
    PROVE  Good(StartHeading(q, t))
  <1> DEFINE r == maybe_implicitly_close_p_tag(q)
  <1>1. Good(r) /\ Good(pop_current_node(r))
    BY ClosePGood, PopCurrentGood
  <1>2. Good(insert_element_from_token(r, t)) /\ Good(insert_element_from_token(pop_current_node(r), t))
    BY <1>1, InsertedGood
  <1> QED
    BY <1>2 DEF StartHeading

\* The start tag of a form sets the form pointer.
LEMMA StartFormGood ==
    ASSUME NEW q, Good(q), NEW t \in Tokens
    PROVE  Good(StartForm(q, t))
  <1> DEFINE r == ClosePAndInsert(q, t)
  <1>1. Good(r)
    BY ClosePInsertGood
  <1>2. StartForm(q, t) \in {ignore_token(q, t), r, [r EXCEPT !.form = get_current_node(r)]}
    BY DEF StartForm
  <1> HIDE DEF r
  <1>3. Good([r EXCEPT !.form = get_current_node(r)])
    BY <1>1, CurrentTyped, SetPointer
  <1> QED
    BY <1>1, <1>2, <1>3, IgnoreTokenGood

\* A button in scope is closed first.
LEMMA StartButtonGood ==
    ASSUME NEW q, Good(q), NEW t \in Tokens
    PROVE  Good(StartButton(q, t))
  <1>1. Good(implicitly_close_tags(q, "html", "button"))
    BY ImplicitlyCloseGood
  <1>2. Good(FramesetNotOk(ReconstructAndInsert(q, t)))
    BY ReconstructInsertGood, FramesetNotOkGood
  <1> QED
    BY <1>1, <1>2, AgainGood DEF StartButton

\* An a element on the list is adopted out of the way, and dropped if that leaves it.
LEMMA StartAGood ==
    ASSUME NEW q, Good(q), NEW t \in Tokens
    PROVE  Good(StartA(q, t))
  <1> DEFINE a == IF FormattingOf(q, "a") = {} THEN q ELSE adoption_agency_algorithm(q, "a")
             stale == FormattingOf(a, "a")
             s == RemoveAt(a.afe, Max(stale))
             open == RemoveFirst(a.open, a.afe[Max(stale)])
             b == [a EXCEPT !.afe = s]
             c == [b EXCEPT !.open = open]
  <1>1. Good(a)
    BY AdoptionGood
  <1>2. StartA(q, t) \in {InsertFormatting(Reconstruct(a), t),
                          InsertFormatting(Reconstruct(IF stale = {} THEN a ELSE c), t)}
    BY DEF StartA
  <1>3. stale \in SUBSET (1..Len(a.afe)) /\ Len(a.afe) \in Nat
    <2> HIDE DEF a
    <2> QED
      BY <1>1, GoodFacts, LastMarkerTyped DEF FormattingOf
  <1> HIDE DEF a, stale
  <1>4. ASSUME stale # {} PROVE Good(c)
    <2>1. Max(stale) \in 1..Len(a.afe)
      BY <1>3, <1>4, MaxOfPositions
    <2> DEFINE A == Elems(a) \cup {Marker}
    <2>2. a.afe \in Seq(A)
      BY <1>1, GoodFacts
    <2>3. s \in Seq(A)
      <3> HIDE DEF A
      <3> QED
        BY <2>1, <2>2, RemoveAtProperties
    <2>4. open \in Seq(Elems(a))
      BY <1>1, GoodFacts, RemoveFirstTyped
    <2> HIDE DEF s, open
    <2>5. Good(b)
      BY <1>1, <2>3, SetAfe
    <2>6. Elems(b) = Elems(a)
      BY <1>1 DEF Good, States, Elems
    <2> HIDE DEF b
    <2> QED
      BY <2>4, <2>5, <2>6, SetOpen
  <1> HIDE DEF c
  <1>5. Good(InsertFormatting(Reconstruct(a), t))
    BY <1>1, ReconstructInsertGood, InsertFormattingGood
  <1>6. Good(InsertFormatting(Reconstruct(IF stale = {} THEN a ELSE c), t))
    BY <1>1, <1>4, ReconstructInsertGood, InsertFormattingGood
  <1> QED
    BY <1>2, <1>5, <1>6

\* As for a, with nobr in scope.
LEMMA StartNobrGood ==
    ASSUME NEW q, Good(q), NEW t \in Tokens
    PROVE  Good(StartNobr(q, t))
  <1> DEFINE r == Reconstruct(q)
             s == Reconstruct(adoption_agency_algorithm(r, "nobr"))
  <1>1. Good(r)
    BY ReconstructInsertGood
  <1>2. Good(s)
    <2> HIDE DEF r
    <2> QED
      BY <1>1, AdoptionGood, ReconstructInsertGood
  <1>3. StartNobr(q, t) \in {InsertFormatting(s, t), InsertFormatting(r, t)}
    BY DEF StartNobr
  <1> HIDE DEF r, s
  <1> QED
    BY <1>1, <1>2, <1>3, InsertFormattingGood

\* The start tag of a select chooses between two modes.
LEMMA StartSelectGood ==
    ASSUME NEW q, Good(q), NEW t \in Tokens
    PROVE  Good(StartSelect(q, t))
  <1> DEFINE r == FramesetNotOk(ReconstructAndInsert(q, t))
  <1>1. Good(r)
    BY ReconstructInsertGood, FramesetNotOkGood
  <1> HIDE DEF r
  <1>2. Good(SetMode(r, "in_select_in_table")) /\ Good(SetMode(r, "in_select"))
    BY <1>1, SetModeGood DEF Modes
  <1> QED
    BY <1>2 DEF StartSelect, r

\* The current node is popped if it has the tag.
LEMMA PopIfGood ==
    ASSUME NEW q, Good(q), NEW tag
    PROVE  Good(PopIf(q, tag))
  BY PopCurrentGood DEF PopIf

\* Implied end tags are generated before rb, rp, rt and rtc.
LEMMA StartRubyGood ==
    ASSUME NEW q, Good(q), NEW t \in Tokens
    PROVE  Good(StartRuby(q, t))
  <1>1. \A tag : Good(insert_element_from_token(generate_implied_end_tags(q, tag), t))
    BY ImpliedEndTagsGood, InsertedGood
  <1> QED
    BY <1>1, InsertedGood DEF StartRuby

\* The start tags math and svg.
LEMMA StartForeignGood ==
    ASSUME NEW q, Good(q), NEW t \in Tokens, NEW ns \in Spaces
    PROVE  Good(StartForeign(q, t, ns))
  <1>1. Good(insert_foreign_element(Reconstruct(q), t, ns))
    BY ReconstructInsertGood, InsertTokenGood
  <1> QED
    BY <1>1, PopCurrentGood DEF StartForeign

\* The body that a frameset replaces is an open element.
LEMMA SecondAllocated ==
    ASSUME NEW q, Good(q), BodyIsSecond(q)
    PROVE  q.open[2] \in Elems(q)
  <1>1. q.open \in Seq(Elems(q)) /\ Len(q.open) >= 2
    BY GoodFacts DEF BodyIsSecond
  <1> QED
    BY <1>1

\* Popping the body may add a text node, and takes none away.
LEMMA LeaveBodyGrows ==
    ASSUME NEW q, Good(q)
    PROVE  Len(q.nodes) <= Len(LeaveBody(q).nodes)
  <1> DEFINE f == maybe_flush_text_node_buffer(q)
             r == PopTo(q, 1)
  <1>1. Len(q.nodes) <= Len(f.nodes) /\ Good(f) /\ Good(r) /\ Len(q.nodes) \in Nat
    BY FlushGood, PopToGood, GoodFacts DEF Grown
  <1>2. r.nodes \in {q.nodes, f.nodes}
    <2>1. PopTo(q, 1) \in {q, [f EXCEPT !.open = SubSeq(@, 1, 1)]}
      BY DEF PopTo
    <2> HIDE DEF f
    <2>2. [f EXCEPT !.open = SubSeq(@, 1, 1)].nodes = f.nodes
      BY <1>1 DEF Good, States
    <2> QED
      BY <2>1, <2>2
  <1>3. LeaveBody(q).nodes = r.nodes
    <2>1. LeaveBody(q) = [r EXCEPT !.afe = SubSeq(@, 1, LastMarker(r) - 1)]
      BY DEF LeaveBody, clear_active_formatting_elements
    <2> HIDE DEF r
    <2> QED
      BY <1>1, <2>1 DEF Good, States
  <1> QED
    BY <1>1, <1>2, <1>3

\* Children may be dropped from a node of a typed table.
LEMMA CutTyped ==
    ASSUME NEW q, Typed(q), NEW n, NEW e
    PROVE  LET r == [q EXCEPT !.nodes[n].kids = RemoveFirst(@, e)]
           IN  Typed(r) /\ Len(r.nodes) = Len(q.nodes)
  <1> DEFINE t == q.nodes
             u == [t EXCEPT ![n].kids = RemoveFirst(@, e)]
             r == [q EXCEPT !.nodes = u]
             S == Nodes(Len(t))
  <1>1. t \in Seq(S) /\ Len(t) \in Nat /\ DOMAIN t = 1..Len(t)
    BY TypedTable DEF Typed
  <1>2. u \in Seq(S) /\ Len(u) = Len(t)
    <2> HIDE DEF t
    <2>1. CASE n \notin DOMAIN t
      <3>1. u = t
        BY <1>1, <2>1
      <3> HIDE DEF u
      <3> QED
        BY <1>1, <3>1
    <2>2. CASE n \in DOMAIN t
      <3> DEFINE x == [t[n] EXCEPT !.kids = RemoveFirst(@, e)]
      <3>1. t[n] \in S
        BY <1>1, <2>2
      <3>2. t[n].kids \in Seq(1..Len(t))
        BY <3>1 DEF Nodes, NodesOf
      <3>3. RemoveFirst(t[n].kids, e) \in Seq(1..Len(t))
        BY <3>2, RemoveFirstTyped
      <3>4. x \in S
        BY <3>1, <3>3 DEF Nodes, NodesOf
      <3>5. u = [t EXCEPT ![n] = x]
        OBVIOUS
      <3> HIDE DEF x, S
      <3> QED
        BY <1>1, <2>2, <3>4, <3>5
    <2> QED
      BY <2>1, <2>2
  <1>3. DOMAIN u = DOMAIN t /\ \A k \in DOMAIN t : u[k].type = t[k].type
    <2>1. \A k \in DOMAIN t : t[k] \in S
      BY <1>1
    <2> QED
      BY <2>1 DEF Nodes, NodesOf
  <1> HIDE DEF u
  <1>4. u \in Tables /\ u \in Seq(Nodes(Len(u)))
    BY <1>1, <1>2 DEF Tables
  <1>5. r \in States /\ r.nodes = u /\ r.open = q.open /\ r.afe = q.afe /\ r.root = q.root
        /\ r.head = q.head /\ r.form = q.form /\ r.ctx = q.ctx
    BY <1>4 DEF Typed, States
  <1> HIDE DEF r, t
  <1>6. Points(t, q.open, q.afe, q.root, q.head, q.form, q.ctx) /\ Document \in DOMAIN t
    <2>1. Len(t) >= 1 /\ Points(t, q.open, q.afe, q.root, q.head, q.form, q.ctx)
      BY DEF Typed, Points, t
    <2> QED
      BY <1>1, <2>1 DEF Document
  <1>7. ElementsOf(u, q.ctx) = ElementsOf(t, q.ctx)
    BY <1>3 DEF ElementsOf
  <1>8. Points(u, q.open, q.afe, q.root, q.head, q.form, q.ctx)
    BY <1>2, <1>3, <1>6, <1>7 DEF Points
  <1>9. Typed(r)
    BY <1>4, <1>5, <1>8 DEF Typed
  <1> QED
    BY <1>2, <1>9 DEF u, t, r

\* A late frameset: the body is cut out of the root's children and destroyed.
LEMMA ReplaceBodyGood ==
    ASSUME NEW q, Good(q), NEW t \in Tokens
    PROVE  Good(ReplaceBodyByFrameset(q, t))
  <1> DEFINE body == q.open[2]
             r == LeaveBody(q)
             cut == [r EXCEPT !.nodes[q.root].kids = RemoveFirst(@, body)]
             d == Destroy(cut, body)
             s == SetMode(insert_element_from_token(d, t), "in_frameset")
  <1>1. ASSUME BodyIsSecond(q) PROVE Good(s)
    <2>1. body \in Elems(q) /\ Good(r) /\ Len(q.nodes) <= Len(r.nodes)
      BY <1>1, SecondAllocated, LeaveBodyGood, LeaveBodyGrows
    <2>2. Len(q.nodes) \in Nat /\ Len(r.nodes) \in Nat /\ body \in 1..Len(q.nodes)
      BY <2>1, GoodFacts
    <2> HIDE DEF r, body
    <2>3. Typed(cut) /\ Len(cut.nodes) = Len(r.nodes)
      BY <2>1, GoodIsTyped, CutTyped
    <2> HIDE DEF cut
    <2>4. body \in 1..Len(cut.nodes)
      BY <2>1, <2>2, <2>3
    <2>5. Good(d)
      BY <2>3, <2>4, DestroyGood
    <2> HIDE DEF d
    <2>6. Good(insert_element_from_token(d, t))
      BY <2>5, InsertedGood
    <2> QED
      BY <2>6, SetModeGood DEF Modes
  <1>2. ReplaceBodyByFrameset(q, t) =
          IF ~BodyIsSecond(q) \/ ~q.fok THEN ignore_token(q, t) ELSE s
    BY DEF ReplaceBodyByFrameset
  <1> HIDE DEF s
  <1> QED
    BY <1>1, <1>2, IgnoreTokenGood

\* The next line feed is dropped.
LEMMA IgnoreLineFeedGood ==
    ASSUME NEW q, Good(q)
    PROVE  Good([q EXCEPT !.ignoreLF = TRUE, !.fok = FALSE])
  <1> DEFINE a == [q EXCEPT !.ignoreLF = TRUE]
  <1>1. Good(a)
    BY SetPlain
  <1>2. [q EXCEPT !.ignoreLF = TRUE, !.fok = FALSE] = [a EXCEPT !.fok = FALSE]
    OBVIOUS
  <1> HIDE DEF a
  <1> QED
    BY <1>1, <1>2, SetPlain

\* Any start tag in the body.
LEMMA BodyStartTagGood ==
    ASSUME NEW q, Good(q), NEW t \in Tokens, t.type = "start"
    PROVE  Good(BodyStartTag(q, t))
  <1>1. /\ Good(MergeIntoHtml(q, t)) /\ Good(MergeIntoBody(q, t)) /\ Good(ReplaceBodyByFrameset(q, t))
        /\ Good(ClosePAndInsert(q, t)) /\ Good(StartHeading(q, t)) /\ Good(StartForm(q, t))
        /\ Good(StartButton(q, t)) /\ Good(StartA(q, t)) /\ Good(StartNobr(q, t))
        /\ Good(InsertVoid(q, t)) /\ Good(StartSelect(q, t)) /\ Good(StartRuby(q, t))
        /\ Good(ignore_token(q, t)) /\ Good(ReconstructAndInsert(q, t))
    BY MergeIntoHtmlGood, MergeIntoBodyGood, ReplaceBodyGood, ClosePInsertGood, HeadingGood,
       StartFormGood, StartButtonGood, StartAGood, StartNobrGood, InsertVoidGood, StartSelectGood,
       StartRubyGood, IgnoreTokenGood, ReconstructInsertGood
  <1>2. t.tag \in HeadStartTags => Good(HeadElement(q, t))
    BY HeadElementGood DEF HeadTokens
  <1>3. Good([ClosePAndInsert(q, t) EXCEPT !.ignoreLF = TRUE, !.fok = FALSE])
    BY <1>1, IgnoreLineFeedGood
  <1>4. \A tags : Good(ClosePAndInsert(maybe_implicitly_close_list_tag(q, tags), t))
    BY CloseListTagGood, ClosePInsertGood
  <1>5. Good([ClosePAndInsert(q, t) EXCEPT !.lexer = "plaintext"])
    BY <1>1, SetPlain DEF LexerStates
  <1>6. Good(InsertFormatting(Reconstruct(q), t))
    BY ReconstructInsertGood, InsertFormattingGood
  <1>7. Good(FramesetNotOk(PushMarker(ReconstructAndInsert(q, t))))
    BY <1>1, PushMarkerGood, FramesetNotOkGood
  <1>8. Good(FramesetNotOk(SetMode(IF q.quirks THEN insert_element_from_token(q, t)
                                   ELSE ClosePAndInsert(q, t), "in_table")))
    <2>1. \A r : Good(r) => Good(SetMode(r, "in_table"))
      BY SetModeGood DEF Modes
    <2> QED
      BY <1>1, <2>1, InsertedGood, FramesetNotOkGood
  <1>9. Good(FramesetNotOk(InsertVoid(Reconstruct(q), t)))
    BY ReconstructInsertGood, InsertVoidGood, FramesetNotOkGood
  <1>10. Good(FramesetNotOk(InsertVoid(Reconstruct(q), [t EXCEPT !.tag = "img"])))
    <2>1. [t EXCEPT !.tag = "img"] \in Tokens
      BY DEF Tokens, Names
    <2> QED
      BY <2>1, ReconstructInsertGood, InsertVoidGood, FramesetNotOkGood
  <1>11. Good(InsertVoid(Reconstruct(IF "type=hidden" \in t.data THEN q ELSE FramesetNotOk(q)), t))
    BY FramesetNotOkGood, ReconstructInsertGood, InsertVoidGood
  <1>12. Good(FramesetNotOk(InsertVoid(maybe_implicitly_close_p_tag(q), t)))
    BY ClosePGood, InsertVoidGood, FramesetNotOkGood
  <1>13. \A r : Good(r) => Good(run_generic_parsing_algorithm(r, t, "rcdata"))
                        /\ Good(run_generic_parsing_algorithm(r, t, "rawtext"))
    BY GenericParsingGood DEF LexerStates
  <1>14. Good([run_generic_parsing_algorithm(q, t, "rcdata") EXCEPT !.ignoreLF = TRUE, !.fok = FALSE])
    BY <1>13, IgnoreLineFeedGood
  <1>15. Good(run_generic_parsing_algorithm(
                FramesetNotOk(Reconstruct(maybe_implicitly_close_p_tag(q))), t, "rawtext"))
    BY <1>13, ClosePGood, ReconstructInsertGood, FramesetNotOkGood
  <1>16. Good(run_generic_parsing_algorithm(FramesetNotOk(q), t, "rawtext"))
    BY <1>13, FramesetNotOkGood
  <1>17. Good(ReconstructAndInsert(PopIf(q, "option"), t))
    BY PopIfGood, ReconstructInsertGood
  <1>18. Good(StartForeign(q, t, "mathml")) /\ Good(StartForeign(q, t, "svg"))
    BY StartForeignGood DEF Spaces
  <1> QED
    BY <1>1, <1>2, <1>3, <1>4, <1>5, <1>6, <1>7, <1>8, <1>9, <1>10, <1>11, <1>12, <1>13, <1>14,
       <1>15, <1>16, <1>17, <1>18 DEF BodyStartTag

-----------------------------------------------------------------------------
(***************************************************************************)
(* The end tags of handle_in_body.                                         *)
(***************************************************************************)

\* The end tags body and html.
LEMMA EndBodyGood ==
    ASSUME NEW q, Good(q), NEW t \in Tokens
    PROVE  Good(EndBodyOrHtml(q, t))
  <1>1. Good(Reprocess(q, "after_body")) /\ Good(SetMode(q, "after_body"))
    BY SetModeGood DEF Modes
  <1>2. \A cond : Good(Require(q, cond, "</body>: second open element", SetMode(q, "after_body")))
    BY <1>1, RequireGood DEF Assertions
  <1> QED
    BY <1>1, <1>2, IgnoreTokenGood DEF EndBodyOrHtml

\* An element is taken off the stack without being popped.
LEMMA DropOpenGood ==
    ASSUME NEW q, Good(q), NEW n
    PROVE  Good([q EXCEPT !.open = RemoveFirst(@, n)])
  <1>1. RemoveFirst(q.open, n) \in Seq(Elems(q))
    BY GoodFacts, RemoveFirstTyped
  <1> QED
    BY <1>1, SetOpen

\* The end tag of a form, in a template and outside.
LEMMA EndFormGood ==
    ASSUME NEW q, Good(q), NEW t \in Tokens
    PROVE  Good(EndForm(q, t))
  <1> DEFINE f == [q EXCEPT !.form = NULL]
             r == generate_implied_end_tags(f, "")
             s == generate_implied_end_tags(q, "")
             Stop(n) == n = q.form \/ Name(q, n) \in DefaultScope
             last == [r EXCEPT !.open = RemoveFirst(@, q.form)]
             closed == Require(r, is_open_element(r, q.form), "</form>: not open", last)
             there == is_open_element(q, q.form) /\ q.open[TopOpen(q, Stop)] = q.form
             rest == IF ~there THEN ignore_token(f, t) ELSE closed
  <1>1. Good(f)
    BY SetPointer
  <1>2. EndForm(q, t) =
          IF has_open_element(q, "template")
          THEN IF ~InDefaultScope(q, {"form"}) THEN ignore_token(q, t)
               ELSE IF ~IsHtml(s, get_current_node(s), "form") THEN s
               ELSE PopThroughTag(s, "form")
          ELSE IF q.form = NULL THEN ignore_token(f, t)
          ELSE Require(q, q.nodes[q.form].type = "element", "</form>: form pointer", rest)
    BY DEF EndForm
  <1> HIDE DEF f, Stop
  <1>3. Good(r) /\ Good(s) /\ Good(PopThroughTag(s, "form"))
    BY <1>1, ImpliedEndTagsGood, PopThroughTagGood
  <1> HIDE DEF r, s
  <1>4. Good(last)
    BY <1>3, DropOpenGood
  <1> HIDE DEF last
  <1>5. Good(closed)
    BY <1>3, <1>4, RequireGood DEF Assertions
  <1> HIDE DEF closed, there
  <1>6. Good(rest)
    BY <1>1, <1>5, IgnoreTokenGood
  <1> HIDE DEF rest
  <1>7. Good(Require(q, q.nodes[q.form].type = "element", "</form>: form pointer", rest))
    BY <1>6, RequireGood DEF Assertions
  <1> QED
    BY <1>1, <1>2, <1>3, <1>7, IgnoreTokenGood

\* The end tag p, which inserts a p when none is in scope.
LEMMA EndPGood ==
    ASSUME NEW q, Good(q)
    PROVE  Good(EndP(q))
  <1>1. Good(insert_element_of_tag_type(q, "p"))
    BY InsertTagGood DEF Names
  <1> QED
    BY <1>1, ImplicitlyCloseGood, AgainGood DEF EndP

\* The end tags h1 to h6 close any heading.
LEMMA EndHeadingGood ==
    ASSUME NEW q, Good(q), NEW t \in Tokens
    PROVE  Good(EndHeading(q, t))
  <1> DEFINE r == generate_implied_end_tags(q, "")
             I == {i \in 1..Len(r.open) : Name(r, r.open[i]) \in Html(HeadingTags)}
             done == Require(r, Highest(I) # 0, "pop: stack exhausted", PopTo(r, Highest(I) - 1))
  <1>1. EndHeading(q, t) \in {done, ignore_token(q, t)}
    BY DEF EndHeading, PopThrough, TopOpen, SelectLastInSeq, Highest
  <1>2. I \in SUBSET (1..Len(r.open))
    OBVIOUS
  <1>3. Good(r)
    BY ImpliedEndTagsGood
  <1> HIDE DEF I, r
  <1>4. Good(done)
    BY <1>2, <1>3, PopGood
  <1> QED
    BY <1>1, <1>4, IgnoreTokenGood

\* An end tag that closes its element if that is in scope.
LEMMA EndInScopeGood ==
    ASSUME NEW q, Good(q), NEW t \in Tokens, NEW inScope
    PROVE  Good(EndInScope(q, t, inScope))
  BY ImplicitlyCloseGood, IgnoreTokenGood DEF EndInScope

\* The end tags applet, marquee and object, which clear the list to its marker.
LEMMA EndScopedGood ==
    ASSUME NEW q, Good(q), NEW t \in Tokens
    PROVE  Good(EndScoped(q, t))
  BY ImplicitlyCloseGood, ClearFormattingGood, IgnoreTokenGood DEF EndScoped

\* An end tag without a rule of its own.
LEMMA AnyOtherEndTagGood ==
    ASSUME NEW q, Good(q), NEW t \in Tokens
    PROVE  Good(AnyOtherEndTag(q, t))
  <1> DEFINE Stop(n) == Name(q, n) \in Html({t.tag}) \cup Special
             top == TopOpen(q, Stop)
             node == q.open[top]
             r == generate_implied_end_tags(q, t.tag)
             I == {i \in 1..Len(r.open) : r.open[i] = node}
             done == Require(r, Highest(I) # 0, "pop: stack exhausted", PopTo(r, Highest(I) - 1))
             ignored == Require(q, top # 0, "any other end tag", ignore_token(q, t))
  <1>1. AnyOtherEndTag(q, t) \in {done, ignored}
    BY DEF AnyOtherEndTag, PopThrough, TopOpen, SelectLastInSeq, Highest
  <1>2. I \in SUBSET (1..Len(r.open))
    OBVIOUS
  <1>3. Good(r)
    BY ImpliedEndTagsGood
  <1> HIDE DEF I, r, top
  <1>4. Good(done)
    BY <1>2, <1>3, PopGood
  <1>5. Good(ignored)
    BY IgnoreTokenGood, RequireGood DEF Assertions
  <1> QED
    BY <1>1, <1>4, <1>5

\* Any end tag in the body.
LEMMA BodyEndTagGood ==
    ASSUME NEW q, Good(q), NEW t \in Tokens, t.type = "end"
    PROVE  Good(BodyEndTag(q, t))
  <1>1. /\ Good(EndBodyOrHtml(q, t)) /\ Good(EndForm(q, t)) /\ Good(EndP(q)) /\ Good(EndHeading(q, t))
        /\ Good(EndScoped(q, t)) /\ Good(AnyOtherEndTag(q, t))
        /\ Good(adoption_agency_algorithm(q, t.tag))
    BY EndBodyGood, EndFormGood, EndPGood, EndHeadingGood, EndScopedGood, AnyOtherEndTagGood,
       AdoptionGood
  <1>2. \A inScope : Good(EndInScope(q, t, inScope))
    BY EndInScopeGood
  <1>3. t.tag = "template" => Good(HeadElement(q, t))
    BY HeadElementGood DEF HeadTokens
  <1>4. Good(pop_current_node(insert_element_of_tag_type(Reconstruct(q), "br")))
    <2>1. Good(insert_element_of_tag_type(Reconstruct(q), "br"))
      BY ReconstructInsertGood, ReconstructGood, InsertTagGood DEF Names, Reconstruct
    <2> QED
      BY <2>1, PopCurrentGood
  <1> QED
    BY <1>1, <1>2, <1>3, <1>4 DEF BodyEndTag

\* The end of the input in a template.
LEMMA TemplateEofGood ==
    ASSUME NEW q, Good(q)
    PROVE  Good(TemplateEof(q))
  BY CloseTemplateGood, AgainGood DEF TemplateEof

\* handle_in_body.
LEMMA InBodyGood ==
    ASSUME NEW q, Good(q), NEW t \in Tokens
    PROVE  Good(handle_in_body(q, t))
  <1>1. Good(Reconstruct(q))
    BY ReconstructInsertGood
  <1>2. /\ Good(ignore_token(q, t)) /\ Good(insert_text_token(Reconstruct(q), t))
        /\ Good(FramesetNotOk(insert_text_token(Reconstruct(q), t)))
        /\ Good(append_comment_node(q, get_current_node(q))) /\ Good(TemplateEof(q))
    BY <1>1, IgnoreTokenGood, TextTokenGood, FramesetNotOkGood, CommentGood, TemplateEofGood
  <1>3. t.type = "start" => Good(BodyStartTag(q, t))
    BY BodyStartTagGood
  <1>4. t.type = "end" => Good(BodyEndTag(q, t))
    BY BodyEndTagGood
  <1>5. t.type \in TokenTypes
    BY DEF Tokens
  <1> QED
    BY <1>2, <1>3, <1>4, <1>5 DEF handle_in_body, TokenTypes

-----------------------------------------------------------------------------
(***************************************************************************)
(* Before the body.                                                        *)
(***************************************************************************)

\* A comment is appended to the current node.
LEMMA CommentHereGood ==
    ASSUME NEW q, Good(q)
    PROVE  Good(Comment(q))
  BY CommentGood DEF Comment

\* The current node is popped and the token presented again.
LEMMA PopAndReprocessGood ==
    ASSUME NEW q, Good(q), NEW mode \in Modes
    PROVE  Good(PopCurrentAndReprocess(q, mode))
  BY PopCurrentGood, SetModeGood DEF PopCurrentAndReprocess

\* handle_initial.
LEMMA InitialGood ==
    ASSUME NEW q, Good(q), NEW t \in Tokens
    PROVE  Good(handle_initial(q, t))
  <1> DEFINE a == TakeToken(SetMode(q, "before_html"))
             b == [a EXCEPT !.has_doctype = TRUE]
             quirks == "quirks" \in t.data
             c == [b EXCEPT !.quirks = quirks]
             d == Reprocess(q, "before_html")
  <1>1. Good(a) /\ Good(d)
    BY SetModeGood, TakeTokenGood DEF Modes
  <1>2. handle_initial(q, t) \in
          {ignore_token(q, t), append_comment_node(q, Document), c, [d EXCEPT !.quirks = TRUE]}
    BY DEF handle_initial
  <1>3. quirks \in BOOLEAN
    OBVIOUS
  <1> HIDE DEF a, d, quirks
  <1>4. Good(b) /\ Good([d EXCEPT !.quirks = TRUE])
    BY <1>1, SetPlain
  <1> HIDE DEF b
  <1>5. Good(c)
    BY <1>3, <1>4, SetPlain
  <1> HIDE DEF c
  <1> QED
    BY <1>2, <1>4, <1>5, IgnoreTokenGood, CommentGood

\* The root and head pointers are set to the element just inserted.
LEMMA SetRootGood ==
    ASSUME NEW q, Good(q)
    PROVE  Good(SetRoot(q)) /\ Good(SetHead(q))
  <1> DEFINE a == SetMode(q, "before_head")
             b == SetMode(q, "in_head")
  <1>1. Good(a) /\ Good(b)
    BY SetModeGood DEF Modes
  <1>2. Elems(a) = Elems(q) /\ Elems(b) = Elems(q)
    BY DEF SetMode, Good, States, Elems
  <1>3. SetRoot(q) = [a EXCEPT !.root = get_current_node(q)]
        /\ SetHead(q) = [b EXCEPT !.head = get_current_node(q)]
    BY DEF SetRoot, SetHead
  <1> HIDE DEF a, b
  <1> DEFINE n == get_current_node(q)
  <1>4. n \in Elems(a) \cup {NULL} /\ n \in Elems(b) \cup {NULL}
    BY <1>2, CurrentTyped
  <1> HIDE DEF n
  <1>5. Good([a EXCEPT !.root = n]) /\ Good([b EXCEPT !.head = n])
    BY <1>1, <1>4, SetPointer
  <1> QED
    BY <1>3, <1>5 DEF n

\* handle_before_html.
LEMMA BeforeHtmlGood ==
    ASSUME NEW q, Good(q), NEW t \in Tokens
    PROVE  Good(handle_before_html(q, t))
  <1>1. Good(SetRoot(insert_element_from_token(q, t)))
    BY InsertedGood, SetRootGood
  <1>2. Good([SetRoot(insert_element_of_tag_type(q, "html")) EXCEPT !.reprocess = TRUE])
    <2>1. Good(insert_element_of_tag_type(q, "html"))
      BY InsertTagGood DEF Names
    <2> QED
      BY <2>1, SetRootGood, AgainGood
  <1> QED
    BY <1>1, <1>2, IgnoreTokenGood, CommentGood DEF handle_before_html

\* handle_before_head.
LEMMA BeforeHeadGood ==
    ASSUME NEW q, Good(q), NEW t \in Tokens
    PROVE  Good(handle_before_head(q, t))
  <1>1. Good(SetHead(insert_element_from_token(q, t)))
    BY InsertedGood, SetRootGood
  <1>2. Good([SetHead(insert_element_of_tag_type(q, "head")) EXCEPT !.reprocess = TRUE])
    <2>1. Good(insert_element_of_tag_type(q, "head"))
      BY InsertTagGood DEF Names
    <2> QED
      BY <2>1, SetRootGood, AgainGood
  <1> QED
    BY <1>1, <1>2, IgnoreTokenGood, CommentHereGood DEF handle_before_head

\* The tags for which handle_in_head is called from another mode are its own.
LEMMA HeadTagGood ==
    ASSUME NEW q, Good(q), NEW t \in Tokens
    PROVE  /\ \A tags : IsStart(t, tags) /\ tags \subseteq HeadStartTags => Good(HeadElement(q, t))
           /\ IsEnd(t, {"template"}) => Good(HeadElement(q, t))
  <1>1. \A tags : IsStart(t, tags) /\ tags \subseteq HeadStartTags => t \in HeadTokens
    BY DEF IsStart, HeadTokens
  <1>2. IsEnd(t, {"template"}) => t \in HeadTokens
    BY DEF IsEnd, HeadTokens
  <1> QED
    BY <1>1, <1>2, HeadElementGood

\* handle_in_head.
LEMMA InHeadGood ==
    ASSUME NEW q, Good(q), NEW t \in Tokens
    PROVE  Good(handle_in_head(q, t))
  <1>1. Good(insert_text_token(q, t)) /\ Good(ignore_token(q, t)) /\ Good(Comment(q))
        /\ Good(handle_in_body(q, t))
    BY TextTokenGood, IgnoreTokenGood, CommentHereGood, InBodyGood
  <1>2. Good(SetMode(insert_element_from_token(q, t), "in_head_noscript"))
    BY InsertedGood, SetModeGood DEF Modes
  <1>3. Good(Require(q, IsHtml(q, get_current_node(q), "head"), "</head>: current node",
                     SetMode(pop_current_node(q), "after_head")))
    <2>1. Good(SetMode(pop_current_node(q), "after_head"))
      BY PopCurrentGood, SetModeGood DEF Modes
    <2> QED
      BY <2>1, RequireGood DEF Assertions
  <1>4. Good(PopCurrentAndReprocess(q, "after_head"))
    BY PopAndReprocessGood DEF Modes
  <1>5. IsStart(t, HeadStartTags) \/ IsEnd(t, {"template"}) => Good(HeadElement(q, t))
    BY HeadTagGood
  <1> QED
    BY <1>1, <1>2, <1>3, <1>4, <1>5 DEF handle_in_head

\* handle_in_head_noscript.
LEMMA InHeadNoscriptGood ==
    ASSUME NEW q, Good(q), NEW t \in Tokens
    PROVE  Good(handle_in_head_noscript(q, t))
  <1> DEFINE r == [pop_current_node(q) EXCEPT !.mode = "in_head"]
             leave == Require(q, IsHtml(q, get_current_node(q), "noscript"), "noscript: current node", r)
  <1>1. Good(r)
    BY PopCurrentGood, SetPlain DEF Modes
  <1>2. handle_in_head_noscript(q, t) \in
          {q, handle_in_body(q, t), leave, handle_in_head(q, t), ignore_token(q, t),
           [leave EXCEPT !.reprocess = TRUE]}
    BY DEF handle_in_head_noscript
  <1> HIDE DEF r
  <1>3. Good(leave)
    BY <1>1, RequireGood DEF Assertions
  <1> HIDE DEF leave
  <1>4. Good([leave EXCEPT !.reprocess = TRUE])
    BY <1>3, AgainGood
  <1> QED
    BY <1>2, <1>3, <1>4, InBodyGood, InHeadGood, IgnoreTokenGood

\* The head element is pushed again, and taken off the stack afterwards.
LEMMA AfterHeadElementGood ==
    ASSUME NEW q, Good(q), NEW t \in Tokens, IsStart(t, HeadStartTags)
    PROVE  Good(AfterHeadElement(q, t))
  <1> DEFINE f == maybe_flush_text_node_buffer(q)
             o == [f EXCEPT !.open = Append(@, q.head)]
             h == HeadElement(o, t)
             r == [h EXCEPT !.open = RemoveFirst(@, q.head)]
  <1>1. AfterHeadElement(q, t) = IF q.head # NULL THEN r ELSE Failed(q, "after head: no head element")
    BY DEF AfterHeadElement, Require, Failed
  <1>2. Good(f) /\ Elems(q) \subseteq Elems(f)
    BY FlushGood DEF Grown
  <1> HIDE DEF f
  <1>3. ASSUME q.head # NULL PROVE Good(r)
    <2>1. q.head \in Elems(q)
      BY <1>3, GoodFacts
    <2>2. q.head \in Elems(f)
      BY <1>2, <2>1
    <2>3. f.open \in Seq(Elems(f))
      BY <1>2, GoodFacts
    <2> DEFINE A == Elems(f)
    <2>4. Append(f.open, q.head) \in Seq(A)
      <3> HIDE DEF A
      <3> QED
        BY <2>2, <2>3, AppendProperties DEF A
    <2>5. Good(o)
      BY <1>2, <2>4, SetOpen
    <2> HIDE DEF o
    <2>6. Good(h)
      BY <1>1, <2>5, HeadTagGood
    <2> HIDE DEF h
    <2> QED
      BY <2>6, DropOpenGood
  <1> HIDE DEF r
  <1>4. Good(Failed(q, "after head: no head element"))
    BY RequireFails DEF Assertions
  <1> QED
    BY <1>1, <1>3, <1>4

\* handle_after_head.
LEMMA AfterHeadGood ==
    ASSUME NEW q, Good(q), NEW t \in Tokens
    PROVE  Good(handle_after_head(q, t))
  <1>1. Good(insert_text_token(q, t)) /\ Good(ignore_token(q, t)) /\ Good(Comment(q))
        /\ Good(handle_in_body(q, t))
    BY TextTokenGood, IgnoreTokenGood, CommentHereGood, InBodyGood
  <1>2. Good(FramesetNotOk(SetMode(insert_element_from_token(q, t), "in_body")))
        /\ Good(SetMode(insert_element_from_token(q, t), "in_frameset"))
    BY InsertedGood, SetModeGood, FramesetNotOkGood DEF Modes
  <1>3. Good(Reprocess(insert_element_of_tag_type(q, "body"), "in_body"))
    <2>1. Good(insert_element_of_tag_type(q, "body"))
      BY InsertTagGood DEF Names
    <2> QED
      BY <2>1, SetModeGood DEF Modes
  <1>4. IsStart(t, HeadStartTags) => Good(AfterHeadElement(q, t))
    BY AfterHeadElementGood
  <1>5. IsEnd(t, {"template"}) => Good(HeadElement(q, t))
    BY HeadTagGood
  <1> QED
    BY <1>1, <1>2, <1>3, <1>4, <1>5 DEF handle_after_head

-----------------------------------------------------------------------------
(***************************************************************************)
(* Text and tables.                                                        *)
(***************************************************************************)

\* handle_text.
LEMMA HandleTextGood ==
    ASSUME NEW q, Good(q), NEW t \in Tokens
    PROVE  Good(handle_text(q, t))
  <1> DEFINE r == pop_current_node(q)
             a == [r EXCEPT !.mode = q.orig]
             again == r.reprocess \/ t.type = "eof"
             b == [a EXCEPT !.reprocess = again]
  <1>1. handle_text(q, t) \in {insert_text_token(q, t), b}
    BY DEF handle_text
  <1>2. Good(r)
    BY PopCurrentGood
  <1> HIDE DEF r
  <1>3. q.orig \in Modes /\ again \in BOOLEAN
    BY <1>2, RecordFacts
  <1> HIDE DEF again
  <1>4. Good(a)
    BY <1>2, <1>3, SetPlain
  <1> HIDE DEF a
  <1>5. Good(b)
    BY <1>3, <1>4, SetPlain
  <1> QED
    BY <1>1, <1>5, TextTokenGood

\* handle_in_body with foster parenting.
LEMMA FosterInBodyGood ==
    ASSUME NEW q, Good(q), NEW t \in Tokens
    PROVE  Good(FosterInBody(q, t))
  <1> DEFINE a == [q EXCEPT !.foster = TRUE]
             b == handle_in_body(a, t)
  <1>1. Good(a)
    BY SetPlain
  <1> HIDE DEF a
  <1>2. Good(b)
    BY <1>1, InBodyGood
  <1> HIDE DEF b
  <1>3. Good([b EXCEPT !.foster = FALSE])
    BY <1>2, SetPlain
  <1> QED
    BY <1>3 DEF FosterInBody, a, b

\* The start tag of a caption.
LEMMA StartCaptionGood ==
    ASSUME NEW q, Good(q), NEW t \in Tokens
    PROVE  Good(StartCaption(q, t))
  <1>1. Good(insert_element_from_token(PushMarker(clear_stack_to_table_context(q)), t))
    BY ClearStackGood, PushMarkerGood, InsertedGood
  <1> QED
    BY <1>1, SetModeGood DEF StartCaption, Modes

\* A form in a table is popped at once, and the form pointer keeps it.
LEMMA TableFormGood ==
    ASSUME NEW q, Good(q), NEW t \in Tokens
    PROVE  Good(TableForm(q, t))
  <1> DEFINE r == insert_element_from_token(q, t)
             s == [r EXCEPT !.form = get_current_node(r)]
  <1>1. Good(r)
    BY InsertedGood
  <1>2. TableForm(q, t) \in {ignore_token(q, t), pop_current_node(s)}
    BY DEF TableForm
  <1> HIDE DEF r
  <1>3. Good(s)
    BY <1>1, CurrentTyped, SetPointer
  <1> HIDE DEF s
  <1> QED
    BY <1>2, <1>3, IgnoreTokenGood, PopCurrentGood

\* handle_in_table.
LEMMA InTableGood ==
    ASSUME NEW q, Good(q), NEW t \in Tokens
    PROVE  Good(handle_in_table(q, t))
  <1> DEFINE clear == clear_stack_to_table_context(q)
  <1>1. Good(clear)
    BY ClearStackGood
  <1>2. Good(Require(q, q.pending.chars = {}, "in_table: text is pending",
                     [Reprocess(q, "in_table_text") EXCEPT !.orig = q.mode]))
    <2>1. Good(Reprocess(q, "in_table_text"))
      BY SetModeGood DEF Modes
    <2>2. Good([Reprocess(q, "in_table_text") EXCEPT !.orig = q.mode])
      BY <2>1, SetPlain, RecordFacts
    <2> QED
      BY <2>2, RequireGood DEF Assertions
  <1>3. /\ Good(ignore_token(q, t)) /\ Good(Comment(q)) /\ Good(StartCaption(q, t))
        /\ Good(CloseTable(q)) /\ Good([CloseTable(q) EXCEPT !.reprocess = TRUE])
        /\ Good(InsertVoid(q, t)) /\ Good(TableForm(q, t)) /\ Good(handle_in_body(q, t))
        /\ Good(FosterInBody(q, t))
    BY IgnoreTokenGood, CommentHereGood, StartCaptionGood, CloseTableGood, AgainGood,
       InsertVoidGood, TableFormGood, InBodyGood, FosterInBodyGood
  <1>4. Good(SetMode(insert_element_from_token(clear, t), "in_column_group"))
        /\ Good(SetMode(insert_element_from_token(clear, t), "in_table_body"))
    <2>1. Good(insert_element_from_token(clear, t))
      BY <1>1, InsertedGood
    <2> QED
      BY <2>1, SetModeGood DEF Modes
  <1>5. Good(Reprocess(insert_element_of_tag_type(clear, "colgroup"), "in_column_group"))
        /\ Good(Reprocess(insert_element_of_tag_type(clear, "tbody"), "in_table_body"))
    <2>1. Good(insert_element_of_tag_type(clear, "colgroup"))
          /\ Good(insert_element_of_tag_type(clear, "tbody"))
      BY <1>1, InsertTagGood DEF Names
    <2> QED
      BY <2>1, SetModeGood DEF Modes
  <1>6. IsStart(t, {"style", "script", "template"}) \/ IsEnd(t, {"template"}) => Good(HeadElement(q, t))
    <2>1. {"style", "script", "template"} \subseteq HeadStartTags
      BY DEF HeadStartTags
    <2> QED
      BY <2>1, HeadTagGood
  <1> QED
    BY <1>2, <1>3, <1>4, <1>5, <1>6 DEF handle_in_table

\* handle_in_table_text.
LEMMA InTableTextGood ==
    ASSUME NEW q, Good(q), NEW t \in Tokens
    PROVE  Good(handle_in_table_text(q, t))
  <1> DEFINE r == IF q.pending.chars \subseteq {"whitespace"} THEN q
                  ELSE Reconstruct([q EXCEPT !.foster = TRUE])
             f == Reprocess(maybe_flush_text_node_buffer(r), q.orig)
             g == [f EXCEPT !.foster = FALSE]
  <1>1. handle_in_table_text(q, t) \in {ignore_token(q, t), insert_text_token(q, t), g}
    BY DEF handle_in_table_text
  <1>2. Good(r)
    <2>1. Good([q EXCEPT !.foster = TRUE])
      BY SetPlain
    <2> QED
      BY <2>1, ReconstructGood DEF Reconstruct
  <1> HIDE DEF r
  <1>3. Good(f)
    BY <1>2, FlushGood, SetModeGood, RecordFacts
  <1> HIDE DEF f
  <1>4. Good(g)
    BY <1>3, SetPlain
  <1> QED
    BY <1>1, <1>4, IgnoreTokenGood, TextTokenGood

\* handle_in_caption.
LEMMA InCaptionGood ==
    ASSUME NEW q, Good(q), NEW t \in Tokens
    PROVE  Good(handle_in_caption(q, t))
  <1> DEFINE Close(r) == SetMode(clear_active_formatting_elements(PopThroughTag(r, "caption")), "in_table")
  <1>1. \A r : Good(r) => Good(Close(r))
    BY PopThroughTagGood, ClearFormattingGood, SetModeGood DEF Modes
  <1>2. handle_in_caption(q, t) \in
          {ignore_token(q, t), [Close(q) EXCEPT !.reprocess = TRUE],
           Close(generate_implied_end_tags(q, "")), handle_in_body(q, t)}
    BY DEF handle_in_caption
  <1> HIDE DEF Close
  <1> QED
    BY <1>1, <1>2, AgainGood, ImpliedEndTagsGood, IgnoreTokenGood, InBodyGood

\* handle_in_column_group.
LEMMA InColumnGroupGood ==
    ASSUME NEW q, Good(q), NEW t \in Tokens
    PROVE  Good(handle_in_column_group(q, t))
  <1>1. /\ Good(insert_text_token(q, t)) /\ Good(ignore_token(q, t)) /\ Good(Comment(q))
        /\ Good(handle_in_body(q, t)) /\ Good(InsertVoid(q, t))
    BY TextTokenGood, IgnoreTokenGood, CommentHereGood, InBodyGood, InsertVoidGood
  <1>2. Good(SetMode(pop_current_node(q), "in_table")) /\ Good(PopCurrentAndReprocess(q, "in_table"))
    BY PopCurrentGood, SetModeGood, PopAndReprocessGood DEF Modes
  <1>3. IsStart(t, {"template"}) \/ IsEnd(t, {"template"}) => Good(HeadElement(q, t))
    <2>1. {"template"} \subseteq HeadStartTags
      BY DEF HeadStartTags
    <2> QED
      BY <2>1, HeadTagGood
  <1> QED
    BY <1>1, <1>2, <1>3 DEF handle_in_column_group

\* handle_in_table_body.
LEMMA InTableBodyGood ==
    ASSUME NEW q, Good(q), NEW t \in Tokens
    PROVE  Good(handle_in_table_body(q, t))
  <1> DEFINE clear == clear_stack_to_table_body_context(q)
             leave == SetMode(pop_current_node(clear), "in_table")
             tr == insert_element_of_tag_type(clear, "tr")
  <1>1. Good(clear)
    BY ClearStackGood
  <1>2. handle_in_table_body(q, t) \in
          {SetMode(insert_element_from_token(clear, t), "in_row"), Reprocess(tr, "in_row"), leave,
           [leave EXCEPT !.reprocess = TRUE], ignore_token(q, t), handle_in_table(q, t)}
    BY DEF handle_in_table_body
  <1> HIDE DEF clear
  <1>3. Good(SetMode(insert_element_from_token(clear, t), "in_row"))
    BY <1>1, InsertedGood, SetModeGood DEF Modes
  <1>4. Good(tr)
    BY <1>1, InsertTagGood DEF Names
  <1> HIDE DEF tr
  <1>5. Good(Reprocess(tr, "in_row"))
    BY <1>4, SetModeGood DEF Modes
  <1>6. Good(leave)
    BY <1>1, PopCurrentGood, SetModeGood DEF Modes
  <1> HIDE DEF leave
  <1> QED
    BY <1>2, <1>3, <1>5, <1>6, AgainGood, IgnoreTokenGood, InTableGood

\* handle_in_row.
LEMMA InRowGood ==
    ASSUME NEW q, Good(q), NEW t \in Tokens
    PROVE  Good(handle_in_row(q, t))
  <1> DEFINE clear == clear_stack_to_table_row_context(q)
             leave == SetMode(pop_current_node(clear), "in_table_body")
  <1>1. Good(clear)
    BY ClearStackGood
  <1>2. handle_in_row(q, t) \in
          {PushMarker(SetMode(insert_element_from_token(clear, t), "in_cell")), leave,
           [leave EXCEPT !.reprocess = TRUE], ignore_token(q, t), handle_in_table(q, t)}
    BY DEF handle_in_row
  <1> HIDE DEF clear
  <1>3. Good(SetMode(insert_element_from_token(clear, t), "in_cell"))
    BY <1>1, InsertedGood, SetModeGood DEF Modes
  <1>6. Good(leave)
    BY <1>1, PopCurrentGood, SetModeGood DEF Modes
  <1> HIDE DEF leave
  <1> QED
    BY <1>2, <1>3, <1>6, PushMarkerGood, AgainGood, IgnoreTokenGood, InTableGood

\* handle_in_cell.
LEMMA InCellGood ==
    ASSUME NEW q, Good(q), NEW t \in Tokens
    PROVE  Good(handle_in_cell(q, t))
  <1>1. handle_in_cell(q, t) \in
          {close_table_cell(q, t.tag), [close_current_cell(q) EXCEPT !.reprocess = TRUE],
           ignore_token(q, t), handle_in_body(q, t)}
    BY DEF handle_in_cell
  <1> QED
    BY <1>1, CloseCellGood, CloseCurrentCellGood, AgainGood, IgnoreTokenGood, InBodyGood

-----------------------------------------------------------------------------
(***************************************************************************)
(* Select and template.                                                    *)
(***************************************************************************)

\* The end tag optgroup.
LEMMA EndOptgroupGood ==
    ASSUME NEW q, Good(q), NEW t \in Tokens
    PROVE  Good(EndOptgroup(q, t))
  <1> DEFINE r == IF Len(q.open) >= 2 /\ IsHtml(q, q.open[Len(q.open) - 1], "optgroup")
                  THEN PopIf(q, "option") ELSE q
  <1>1. Good(r)
    BY PopIfGood
  <1>2. EndOptgroup(q, t) \in {pop_current_node(r), ignore_token(r, t)}
    BY DEF EndOptgroup
  <1> HIDE DEF r
  <1> QED
    BY <1>1, <1>2, PopCurrentGood, IgnoreTokenGood

\* handle_in_select.
LEMMA InSelectGood ==
    ASSUME NEW q, Good(q), NEW t \in Tokens
    PROVE  Good(handle_in_select(q, t))
  <1>1. /\ Good(insert_text_token(q, t)) /\ Good(ignore_token(q, t)) /\ Good(Comment(q))
        /\ Good(handle_in_body(q, t)) /\ Good(EndOptgroup(q, t)) /\ Good(pop_current_node(q))
        /\ Good(close_current_select(q)) /\ Good([close_current_select(q) EXCEPT !.reprocess = TRUE])
        /\ Good(close_current_select(ignore_token(q, t)))
    BY TextTokenGood, IgnoreTokenGood, CommentHereGood, InBodyGood, EndOptgroupGood,
       PopCurrentGood, CloseTableGood, AgainGood
  <1>2. /\ Good(insert_element_from_token(PopIf(q, "option"), t))
        /\ Good(insert_element_from_token(PopIf(PopIf(q, "option"), "optgroup"), t))
    BY PopIfGood, InsertedGood
  <1>3. IsStart(t, {"script", "template"}) \/ IsEnd(t, {"template"}) => Good(HeadElement(q, t))
    <2>1. {"script", "template"} \subseteq HeadStartTags
      BY DEF HeadStartTags
    <2> QED
      BY <2>1, HeadTagGood
  <1> QED
    BY <1>1, <1>2, <1>3 DEF handle_in_select

\* handle_in_select_in_table.
LEMMA InSelectInTableGood ==
    ASSUME NEW q, Good(q), NEW t \in Tokens
    PROVE  Good(handle_in_select_in_table(q, t))
  <1>1. handle_in_select_in_table(q, t) \in
          {[close_current_select(q) EXCEPT !.reprocess = TRUE], ignore_token(q, t),
           handle_in_select(q, t)}
    BY DEF handle_in_select_in_table
  <1> QED
    BY <1>1, CloseTableGood, AgainGood, IgnoreTokenGood, InSelectGood

\* The template's insertion mode is replaced.
LEMMA SwitchTemplateGood ==
    ASSUME NEW q, Good(q), NEW mode \in Modes
    PROVE  Good(SwitchTemplateMode(q, mode))
  <1> DEFINE r == Reprocess(q, mode)
             s == IF r.tmodes = <<>> THEN r.tmodes ELSE Front(r.tmodes)
             u == Append(s, mode)
  <1>1. Good(r)
    BY SetModeGood
  <1>2. SwitchTemplateMode(q, mode) = [r EXCEPT !.tmodes = u]
    BY DEF SwitchTemplateMode
  <1> HIDE DEF r
  <1>3. r.tmodes \in Seq(Modes)
    BY <1>1, RecordFacts
  <1>4. s \in Seq(Modes)
    BY <1>3, LastTyped
  <1> HIDE DEF s
  <1>5. u \in Seq(Modes)
    BY <1>4
  <1> HIDE DEF u
  <1> QED
    BY <1>1, <1>2, <1>5, SetPlain

\* handle_in_template.
LEMMA InTemplateGood ==
    ASSUME NEW q, Good(q), NEW t \in Tokens
    PROVE  Good(handle_in_template(q, t))
  <1>1. TemplateMode(t.tag) \in Modes
    BY DEF TemplateMode, Modes
  <1>2. /\ Good(handle_in_body(q, t)) /\ Good(SwitchTemplateMode(q, TemplateMode(t.tag)))
        /\ Good(ignore_token(q, t)) /\ Good(TemplateEof(q))
        /\ Good(Require(q, FALSE, "in_template: CDATA", q))
    <2>1. Good(SwitchTemplateMode(q, TemplateMode(t.tag)))
      BY <1>1, SwitchTemplateGood
    <2>2. Good(Require(q, FALSE, "in_template: CDATA", q))
      BY RequireGood DEF Assertions
    <2> QED
      BY <2>1, <2>2, InBodyGood, IgnoreTokenGood, TemplateEofGood
  <1>3. IsStart(t, HeadStartTags) \/ IsEnd(t, {"template"}) => Good(HeadElement(q, t))
    BY HeadTagGood
  <1>4. t.type \in TokenTypes
    BY DEF Tokens
  <1> QED
    BY <1>2, <1>3, <1>4 DEF handle_in_template, TokenTypes, IsStart, IsEnd

-----------------------------------------------------------------------------
(***************************************************************************)
(* After the body, and framesets.                                          *)
(***************************************************************************)

\* handle_after_body.
LEMMA AfterBodyGood ==
    ASSUME NEW q, Good(q), NEW t \in Tokens
    PROVE  Good(handle_after_body(q, t))
  <1>1. handle_after_body(q, t) \in
          {handle_in_body(q, t), append_comment_node(q, q.root), ignore_token(q, t),
           SetMode(q, "after_after_body"), q, Reprocess(q, "in_body")}
    BY DEF handle_after_body
  <1>2. Good(SetMode(q, "after_after_body")) /\ Good(Reprocess(q, "in_body"))
    BY SetModeGood DEF Modes
  <1> QED
    BY <1>1, <1>2, InBodyGood, CommentGood, IgnoreTokenGood

\* The end tag frameset.
LEMMA EndFramesetGood ==
    ASSUME NEW q, Good(q), NEW t \in Tokens
    PROVE  Good(EndFrameset(q, t))
  <1>1. EndFrameset(q, t) \in
          {ignore_token(q, t), SetMode(pop_current_node(q), "after_frameset"), pop_current_node(q)}
    BY DEF EndFrameset
  <1>2. Good(pop_current_node(q)) /\ Good(SetMode(pop_current_node(q), "after_frameset"))
    BY PopCurrentGood, SetModeGood DEF Modes
  <1> QED
    BY <1>1, <1>2, IgnoreTokenGood

\* handle_in_head knows noframes.
LEMMA NoframesGood ==
    ASSUME NEW q, Good(q), NEW t \in Tokens
    PROVE  IsStart(t, {"noframes"}) => Good(HeadElement(q, t))
  <1>1. {"noframes"} \subseteq HeadStartTags
    BY DEF HeadStartTags
  <1> QED
    BY <1>1, HeadTagGood

\* handle_in_frameset.
LEMMA InFramesetGood ==
    ASSUME NEW q, Good(q), NEW t \in Tokens
    PROVE  Good(handle_in_frameset(q, t))
  <1>1. /\ Good(insert_text_token(q, t)) /\ Good(Comment(q)) /\ Good(handle_in_body(q, t))
        /\ Good(insert_element_from_token(q, t)) /\ Good(EndFrameset(q, t))
        /\ Good(InsertVoid(q, t)) /\ Good(ignore_token(q, t))
    BY TextTokenGood, CommentHereGood, InBodyGood, InsertedGood, EndFramesetGood, InsertVoidGood,
       IgnoreTokenGood
  <1> QED
    BY <1>1, NoframesGood DEF handle_in_frameset

\* handle_after_frameset.
LEMMA AfterFramesetGood ==
    ASSUME NEW q, Good(q), NEW t \in Tokens
    PROVE  Good(handle_after_frameset(q, t))
  <1>1. /\ Good(insert_text_token(q, t)) /\ Good(Comment(q)) /\ Good(handle_in_body(q, t))
        /\ Good(ignore_token(q, t))
    BY TextTokenGood, CommentHereGood, InBodyGood, IgnoreTokenGood
  <1>2. Good(SetMode(q, "after_after_frameset"))
    BY SetModeGood DEF Modes
  <1> QED
    BY <1>1, <1>2, NoframesGood DEF handle_after_frameset

\* handle_after_after_body and handle_after_after_frameset.
LEMMA AfterAfterGood ==
    ASSUME NEW q, Good(q), NEW t \in Tokens
    PROVE  Good(handle_after_after_body(q, t)) /\ Good(handle_after_after_frameset(q, t))
  <1>1. /\ Good(append_comment_node(q, Document)) /\ Good(handle_in_body(q, t))
        /\ Good(ignore_token(q, t))
    BY CommentGood, InBodyGood, IgnoreTokenGood
  <1>2. Good(Reprocess(q, "in_body"))
    BY SetModeGood DEF Modes
  <1>3. Good(handle_after_after_body(q, t))
    BY <1>1, <1>2 DEF handle_after_after_body
  <1>4. Good(handle_after_after_frameset(q, t))
    BY <1>1, NoframesGood DEF handle_after_after_frameset
  <1> QED
    BY <1>3, <1>4

-----------------------------------------------------------------------------
(***************************************************************************)
(* Foreign content.                                                        *)
(***************************************************************************)

\* An HTML start tag pops its way out of foreign content.
LEMMA BreakOutGood ==
    ASSUME NEW q, Good(q)
    PROVE  Good(BreakOut(q))
  <1> DEFINE I == {i \in 1..(Len(q.open) - 1) : \/ q.nodes[q.open[i]].ns = "html"
                                                \/ is_mathml_integration_point(q, q.open[i])
                                                \/ is_html_integration_point(q, q.open[i])}
             below == Highest(I)
  <1>1. BreakOut(q) = [PopTo(q, below) EXCEPT !.reprocess = TRUE]
    BY DEF BreakOut, SelectLastInSubSeq, Highest
  <1>2. Len(q.open) \in Nat
    BY GoodFacts
  <1>3. I \in SUBSET (1..Len(q.open))
    BY <1>2
  <1> HIDE DEF I
  <1>4. below \in Int
    BY <1>2, <1>3, HighestTyped
  <1> HIDE DEF below
  <1> QED
    BY <1>1, <1>4, PopToGood, AgainGood

\* The adjusted current node is allocated, or NULL.
LEMMA AdjustedTyped ==
    ASSUME NEW q, Good(q)
    PROVE  get_adjusted_current_node(q) \in 1..Len(q.nodes) \cup {NULL}
  BY CurrentTyped, GoodFacts DEF get_adjusted_current_node

\* handle_in_foreign_content, for the tokens that handle_token gives it.
LEMMA ForeignGood ==
    ASSUME NEW q, Good(q), NEW t \in Tokens, t.type # "eof", get_adjusted_current_node(q) # NULL
    PROVE  Good(handle_in_foreign_content(q, t))
  <1> DEFINE n == get_adjusted_current_node(q)
             ns == q.nodes[n].ns
             r == insert_foreign_element(q, t, ns)
             I == {i \in 1..Len(q.open) : \/ q.nodes[q.open[i]].ns = "html"
                                         \/ TextNames(t, q.nodes[q.open[i]].tag)}
             top == Highest(I)
  <1>1. handle_in_foreign_content(q, t) \in
          {insert_text_token(q, t), FramesetNotOk(insert_text_token(q, t)), Comment(q),
           ignore_token(q, t), BreakOut(q), r, pop_current_node(r), PopTo(q, ForeignMatch(q, t) - 1)}
    <2>1. t.type \in TokenTypes
      BY DEF Tokens
    <2> QED
      BY <2>1 DEF handle_in_foreign_content, TokenTypes
  <1>2. n \in 1..Len(q.nodes)
    BY AdjustedTyped
  <1> HIDE DEF n
  <1>3. ns \in Spaces
    <2>1. q.nodes[n] \in Nodes(Len(q.nodes))
      BY <1>2, GoodFacts
    <2> QED
      BY <2>1 DEF Nodes, NodesOf
  <1> HIDE DEF ns
  <1>4. Good(r)
    BY <1>3, InsertTokenGood
  <1> HIDE DEF r
  <1>5. ForeignMatch(q, t) = top
    BY DEF ForeignMatch, TopOpen, SelectLastInSeq, Highest
  <1>6. I \in SUBSET (1..Len(q.open)) /\ Len(q.open) \in Nat
    BY GoodFacts
  <1> HIDE DEF I
  <1>7. top - 1 \in Int
    BY <1>6, HighestTyped
  <1> HIDE DEF top
  <1>8. Good(PopTo(q, ForeignMatch(q, t) - 1))
    BY <1>5, <1>7, PopToGood
  <1> QED
    BY <1>1, <1>4, <1>8, TextTokenGood, FramesetNotOkGood, CommentHereGood, IgnoreTokenGood,
       BreakOutGood, PopCurrentGood

-----------------------------------------------------------------------------
(***************************************************************************)
(* The initial states.                                                     *)
(***************************************************************************)

\* The tokens of the inputs, and the end of the input, are tokens.
LEMMA TokensTyped ==
    Token \subseteq Tokens /\ Eof \in Tokens
  <1>1. STRING \subseteq Names
    BY DEF Names
  <1>2. Token \subseteq Tokens
    BY <1>1 DEF Token, Tokens
  <1>3. Eof \in Tokens
    BY DEF Eof, Tok, Tokens, TokenTypes, Names
  <1> QED
    BY <1>2, <1>3

\* output_init and parser_state_init.
LEMMA InitialStateGood == Good(InitialState)
  <1> DEFINE x == NewNode("document", "none", "", {})
             u == <<x>>
  <1>1. x \in Nodes(0) /\ x.type = "document" /\ x.parent = NULL /\ x.kids = <<>>
    <2>1. x \in Nodes(0) /\ x.type = "document"
      BY FreshNode DEF Types, NodeTypes, Spaces, Names
    <2> QED
      BY <2>1, FreshFields
  <1>2. u = Append(<<>>, x)
    OBVIOUS
  <1> HIDE DEF x
  <1>3. Follows(<<>>, u) /\ Len(u) = 1
    <2>1. <<>> \in Seq(Nodes(Len(<<>>))) /\ Len(<<>>) = 0
      OBVIOUS
    <2>2. Follows(<<>>, Append(<<>>, x)) /\ Len(Append(<<>>, x)) = Len(<<>>) + 1
      BY <1>1, <2>1, CreateFollows
    <2> QED
      BY <1>2, <2>1, <2>2
  <1>4. Sound(<<>>)
    BY DEF Sound
  <1>5. DOMAIN u = {Document} /\ u[Document] = x
    BY DEF Document
  <1>6. Shape(u, NULL)
    BY <1>1, <1>5 DEF Shape, IsContainer
  <1>7. Built(u, "", NULL) /\ u \in Tables
    BY <1>3, <1>4, <1>6, TypedTable DEF Built, Follows
  <1>8. NoText \in Pending
    BY DEF NoText, Pending, TextTypes
  <1>9. InitialState.nodes = u
    BY DEF InitialState, x
  <1>10. /\ InitialState.failed = "" /\ InitialState.open = <<>> /\ InitialState.afe = <<>>
         /\ InitialState.root = NULL /\ InitialState.head = NULL /\ InitialState.form = NULL
         /\ InitialState.ctx = NULL
    BY DEF InitialState
  <1>11. Points(u, <<>>, <<>>, NULL, NULL, NULL, NULL)
    BY <1>1, <1>3, <1>5 DEF Points, NULL, Document
  <1> HIDE DEF u
  <1>12. InitialState \in States
    <2>1. "initial" \in Modes /\ "data" \in LexerStates /\ "" \in Names
      BY DEF Modes, LexerStates, Names
    <2>2. NULL \in Nat /\ <<>> \in Seq(Nat) /\ <<>> \in Seq(Int) /\ <<>> \in Seq(Modes)
      BY DEF NULL
    <2> DEFINE s == InitialState.nodes
    <2>3. s \in Tables
      BY <1>7, <1>9
    <2>4. InitialState = [nodes |-> s, root |-> NULL,
     mode |-> "initial", orig |-> "initial", open |-> <<>>, afe |-> <<>>, tmodes |-> <<>>,
     head |-> NULL, form |-> NULL, ctx |-> NULL, reprocess |-> FALSE, fok |-> TRUE,
     ignoreLF |-> FALSE, foster |-> FALSE, pending |-> NoText, quirks |-> FALSE,
     has_doctype |-> FALSE, owned |-> FALSE, lexer |-> "data", rawtag |-> "", failed |-> ""]
      BY DEF InitialState
    <2> HIDE DEF s
    <2> QED
      BY <1>8, <2>1, <2>2, <2>3, <2>4 DEF States
  <1> QED
    BY <1>7, <1>9, <1>10, <1>11, <1>12 DEF Good

\* The context element is created, and no pointer of the parser leads to it.
LEMMA ContextGood ==
    ASSUME NEW x \in FreshElements
    PROVE  Good([Create(InitialState, x) EXCEPT !.ctx = NextId(InitialState)])
  <1> DEFINE q == InitialState
             c == Create(q, x)
             n == NextId(q)
             r == [c EXCEPT !.ctx = n]
  <1>1. Good(q) /\ q.open = <<>> /\ q.afe = <<>> /\ q.root = NULL /\ q.head = NULL
        /\ q.form = NULL /\ q.ctx = NULL /\ q.failed = "" /\ Len(q.nodes) = 1
    BY InitialStateGood DEF InitialState
  <1> HIDE DEF q
  <1>2. x \in Fresh /\ x.type \in Holders /\ x.parent = NULL
    BY FreshFields DEF FreshElements, Fresh
  <1>3. c = [q EXCEPT !.nodes = Append(@, x)] /\ n = Len(q.nodes) + 1
    BY DEF Create, NextId
  <1>4. /\ c.open = <<>> /\ c.afe = <<>> /\ c.root = NULL /\ c.head = NULL
        /\ c.form = NULL /\ c.ctx = NULL /\ c.nodes = Append(q.nodes, x)
    BY <1>1, <1>3 DEF Good, States
  <1>5. /\ Good(c) /\ Len(c.nodes) = Len(q.nodes) + 1 /\ c.nodes[Len(q.nodes) + 1] = x
        /\ n \in 1..Len(c.nodes)
    BY <1>1, <1>2, CreateGood
  <1> HIDE DEF c
  <1>6. n = 2 /\ n \in DOMAIN c.nodes /\ Document \in DOMAIN c.nodes /\ c.nodes[n] = x
    <2>1. Len(q.nodes) = 1 /\ n = Len(q.nodes) + 1 /\ c.nodes[Len(q.nodes) + 1] = x
      BY <1>1, <1>3, <1>5
    <2> HIDE DEF n
    <2>3. n = 2 /\ c.nodes[n] = x
      BY ONLY <2>1
    <2>2. DOMAIN c.nodes = 1..Len(c.nodes) /\ Document \in DOMAIN c.nodes
      BY <1>5, GoodFacts
    <2> QED
      BY <1>5, <2>2, <2>3
  <1> HIDE DEF n
  <1>7. Built(c.nodes, c.failed, n)
    <2>1. Built(c.nodes, c.failed, NULL)
      BY <1>4, <1>5 DEF Good
    <2>2. Shape(c.nodes, NULL) => Shape(c.nodes, n)
      BY <1>2, <1>6 DEF Shape
    <2> QED
      BY <2>1, <2>2 DEF Built
  <1>8. Points(c.nodes, c.open, c.afe, c.root, c.head, c.form, n)
    <2>1. Points(c.nodes, c.open, c.afe, c.root, c.head, c.form, NULL)
      BY <1>4, <1>5 DEF Good
    <2> QED
      BY <1>2, <1>4, <1>5, <1>6, <2>1 DEF Points, Document
  <1>9. Good(r)
    BY <1>5, <1>6, <1>7, <1>8 DEF Good, States
  <1> QED
    BY <1>9 DEF q, c, n

\* fragment_parser_init.
LEMMA FragmentGood ==
    ASSUME NEW ns \in {"html", "mathml", "svg"}, NEW tag \in STRING
    PROVE  Good(fragment_parser_init(InitialState, ns, tag))
  <1> DEFINE q == InitialState
             x == NewNode("element", ns, tag, {})
             c == Create(q, x)
             lexer == FragmentLexer(ns, tag)
             a == [c EXCEPT !.ctx = NextId(q)]
             b == [a EXCEPT !.lexer = lexer]
             r == insert_element_of_tag_type(b, "html")
             modes == IF tag = "template" THEN <<"in_template">> ELSE <<>>
             s == [r EXCEPT !.root = get_current_node(r)]
             u == [s EXCEPT !.tmodes = modes]
  <1>1. fragment_parser_init(q, ns, tag) = reset_insertion_mode_appropriately(u)
    BY DEF fragment_parser_init
  <1>2. x \in FreshElements
    <2>1. "element" \in Types /\ "element" \in Holders
          /\ ns \in Spaces /\ tag \in Names /\ {} \in SUBSET Contents
      BY DEF Types, NodeTypes, ElementTypes, Holders, Spaces, Names
    <2> QED
      BY <2>1, FreshNode
  <1>3. lexer \in LexerStates
    BY DEF FragmentLexer, LexerStates
  <1>4. modes \in Seq(Modes)
    <2>1. "in_template" \in Modes
      BY DEF Modes
    <2> HIDE DEF Modes
    <2> QED
      BY <2>1
  <1> HIDE DEF x, lexer, modes
  <1>6. Good(a)
    BY <1>2, ContextGood
  <1> HIDE DEF a, q
  <1>7. Good(b)
    BY <1>3, <1>6, SetPlain
  <1> HIDE DEF b
  <1>8. Good(r)
    BY <1>7, InsertTagGood DEF Names
  <1> HIDE DEF r
  <1>9. Good(s)
    BY <1>8, CurrentTyped, SetPointer
  <1> HIDE DEF s
  <1>10. Good(u)
    BY <1>4, <1>9, SetPlain
  <1> HIDE DEF u
  <1> QED
    BY <1>1, <1>10, ResetModeGood DEF q

-----------------------------------------------------------------------------
(***************************************************************************)
(* The inductive invariant.                                                *)
(***************************************************************************)

InTheLoop == {"parsing", "ended", "too_deep", "aborted"}
Statuses == InTheLoop \cup {"finished", "partial", "destroyed"}

\* Once the parser state is destroyed, so is the context of a fragment.
ContextGone ==
    status \in {"finished", "partial"} => p.ctx = NULL \/ p.failed # "" \/ Freed(p.nodes)

IInv ==
    /\ Good(p)
    /\ token \in Tokens \cup {NoToken}
    /\ fed \in Nat
    /\ loop_count \in Nat
    /\ input \in Inputs
    /\ status \in Statuses
    /\ ContextGone

\* The initial states.
LEMMA InitIInv == Init => IInv
  <1> SUFFICES ASSUME Init PROVE IInv
    OBVIOUS
  <1>1. input \in Inputs
    BY DEF Init
  <1>2. input.context \in {<<>>} \cup ({"html", "mathml", "svg"} \X STRING)
    BY <1>1, InputsAssumption
  <1>3. Good(p)
    <2>1. CASE input.context = <<>>
      BY <2>1, InitialStateGood DEF Init
    <2>2. CASE input.context # <<>>
      <3>1. input.context[1] \in {"html", "mathml", "svg"} /\ input.context[2] \in STRING
        BY <1>2, <2>2
      <3> QED
        BY <2>2, <3>1, InitialStateGood, FragmentGood DEF Init
    <2> QED
      BY <2>1, <2>2
  <1> QED
    BY <1>1, <1>3 DEF Init, IInv, Statuses, InTheLoop, ContextGone

\* What the tokenizer delivers, or the main loop presents again, is a token.
LEMMA NextTokensTyped ==
    ASSUME IInv, NEW t \in NextTokens
    PROVE  t \in Tokens
  <1>1. input.prefix \in Seq(Token) /\ input.alphabet \subseteq Token
    BY InputsAssumption DEF IInv
  <1>2. CASE token # NoToken
    BY <1>2 DEF NextTokens, IInv
  <1>3. CASE token = NoToken /\ fed < Len(input.prefix) /\ Lexes(input.prefix[fed + 1])
    <2>1. fed + 1 \in 1..Len(input.prefix)
      BY <1>1, <1>3 DEF IInv
    <2>2. input.prefix[fed + 1] \in Token
      BY <1>1, <2>1
    <2> QED
      BY <1>3, <2>2, TokensTyped DEF NextTokens
  <1>4. CASE token = NoToken /\ ~(fed < Len(input.prefix) /\ Lexes(input.prefix[fed + 1]))
    BY <1>1, <1>4, TokensTyped DEF NextTokens
  <1> QED
    BY <1>2, <1>3, <1>4

\* The state in which a handler gets the token.
Handled(t) == [Present(t) EXCEPT !.ignoreLF = FALSE]

\* Four fields whose change leaves the stack and the context.
LEMMA PlainKeeps ==
    ASSUME NEW q, Good(q), NEW x
    PROVE  /\ [q EXCEPT !.reprocess = x].open = q.open /\ [q EXCEPT !.reprocess = x].ctx = q.ctx
           /\ [q EXCEPT !.owned = x].open = q.open /\ [q EXCEPT !.owned = x].ctx = q.ctx
           /\ [q EXCEPT !.lexer = x].open = q.open /\ [q EXCEPT !.lexer = x].ctx = q.ctx
           /\ [q EXCEPT !.ignoreLF = x].open = q.open /\ [q EXCEPT !.ignoreLF = x].ctx = q.ctx
  BY DEF Good, States

\* A turn begins with a good state.
LEMMA HandledGood ==
    ASSUME IInv, NEW t \in Tokens
    PROVE  Good(Handled(t)) /\ Handled(t).open = p.open /\ Handled(t).ctx = p.ctx
  <1> DEFINE lexer == LexerAfter(t)
             owned == IF token # NoToken THEN p.owned ELSE t.type \in OwningTypes
             a == [p EXCEPT !.reprocess = FALSE]
             b == [a EXCEPT !.owned = owned]
             c == [b EXCEPT !.lexer = lexer]
             d == [c EXCEPT !.ignoreLF = FALSE]
  <1>0. Good(p)
    BY DEF IInv
  <1>1. lexer \in LexerStates
    <2>1. p.lexer \in LexerStates
      BY <1>0, RecordFacts
    <2>2. lexer \in {"cdata", "data", p.lexer}
      BY DEF LexerAfter
    <2> QED
      BY <2>1, <2>2 DEF LexerStates
  <1>2. owned \in BOOLEAN
    <2>1. p.owned \in BOOLEAN
      BY <1>0, RecordFacts
    <2>2. (t.type \in OwningTypes) \in BOOLEAN
      OBVIOUS
    <2> QED
      BY ONLY <2>1, <2>2
  <1>3. Handled(t) = d
    BY DEF Handled, Present
  <1> HIDE DEF lexer, owned
  <1>4. Good(a) /\ a.open = p.open /\ a.ctx = p.ctx
    BY <1>0, SetPlain, PlainKeeps
  <1> HIDE DEF a
  <1>5. Good(b) /\ b.open = p.open /\ b.ctx = p.ctx
    BY <1>2, <1>4, SetPlain, PlainKeeps
  <1> HIDE DEF b
  <1>6. Good(c) /\ c.open = p.open /\ c.ctx = p.ctx
    BY <1>1, <1>5, SetPlain, PlainKeeps
  <1> HIDE DEF c
  <1>7. Good(d) /\ d.open = p.open /\ d.ctx = p.ctx
    BY <1>6, SetPlain, PlainKeeps
  <1> QED
    BY <1>3, <1>7

\* What a turn does once its handler has made r of the state.
TurnsInto(r, t) ==
    /\ p' = EndOfTurn(r, t)
    /\ token' \in {t, NoToken}
    /\ fed' \in {fed, fed + 1}
    /\ loop_count' = loop_count + 1
    /\ status' \in InTheLoop
    /\ input' = input

\* The two assertions at the end of a turn.
LEMMA EndOfTurnGood ==
    ASSUME NEW r, Good(r), NEW t
    PROVE  Good(EndOfTurn(r, t))
  <1> DEFINE a == Require(r, TooDeep(r) \/ loop_count + 1 < MaxLoopCount, "loop_count", r)
  <1>1. Good(a)
    BY RequireGood DEF Assertions
  <1>2. EndOfTurn(r, t) = Require(r, r.reprocess \/ t.type # "start" \/ ~r.owned, "start tag not released", a)
    BY DEF EndOfTurn
  <1> HIDE DEF a
  <1> QED
    BY <1>1, <1>2, RequireGood DEF Assertions

\* A turn whose handler keeps the state good keeps the invariant.
LEMMA TurnIInv ==
    ASSUME IInv, NEW t \in Tokens, NEW r, Good(r), TurnsInto(r, t)
    PROVE  IInv'
  <1>1. Good(EndOfTurn(r, t))
    BY EndOfTurnGood
  <1>2. Good(p)'
    BY <1>1 DEF TurnsInto
  <1>3. (status \in Statuses)' /\ ContextGone'
    BY DEF TurnsInto, Statuses, InTheLoop, ContextGone
  <1> QED
    BY <1>2, <1>3 DEF TurnsInto, IInv

-----------------------------------------------------------------------------
(***************************************************************************)
(* The steps.                                                              *)
(***************************************************************************)

\* Every turn of the main loop keeps the invariant.
LEMMA MainLoopIInv ==
    ASSUME IInv, MainLoop
    PROVE  IInv'
  <1>1. ASSUME NEW t \in NextTokens, NEW r, TurnsInto(r, t), Good(Handled(t)) /\ t \in Tokens => Good(r)
        PROVE  IInv'
    BY <1>1, NextTokensTyped, HandledGood, TurnIInv
  <1>2. CASE HandleInitial
    <2>1. PICK t \in NextTokens : TurnsInto(handle_initial(Handled(t), t), t)
      BY <1>2 DEF HandleInitial, Turn, TurnsInto, Handled, InTheLoop
    <2>2. Good(Handled(t)) /\ t \in Tokens => Good(handle_initial(Handled(t), t))
      BY InitialGood
    <2> QED
      BY <1>1, <2>1, <2>2
  <1>3. CASE HandleBeforeHtml
    <2>1. PICK t \in NextTokens : TurnsInto(handle_before_html(Handled(t), t), t)
      BY <1>3 DEF HandleBeforeHtml, Turn, TurnsInto, Handled, InTheLoop
    <2>2. Good(Handled(t)) /\ t \in Tokens => Good(handle_before_html(Handled(t), t))
      BY BeforeHtmlGood
    <2> QED
      BY <1>1, <2>1, <2>2
  <1>4. CASE HandleBeforeHead
    <2>1. PICK t \in NextTokens : TurnsInto(handle_before_head(Handled(t), t), t)
      BY <1>4 DEF HandleBeforeHead, Turn, TurnsInto, Handled, InTheLoop
    <2>2. Good(Handled(t)) /\ t \in Tokens => Good(handle_before_head(Handled(t), t))
      BY BeforeHeadGood
    <2> QED
      BY <1>1, <2>1, <2>2
  <1>5. CASE HandleInHead
    <2>1. PICK t \in NextTokens : TurnsInto(handle_in_head(Handled(t), t), t)
      BY <1>5 DEF HandleInHead, Turn, TurnsInto, Handled, InTheLoop
    <2>2. Good(Handled(t)) /\ t \in Tokens => Good(handle_in_head(Handled(t), t))
      BY InHeadGood
    <2> QED
      BY <1>1, <2>1, <2>2
  <1>6. CASE HandleInHeadNoscript
    <2>1. PICK t \in NextTokens : TurnsInto(handle_in_head_noscript(Handled(t), t), t)
      BY <1>6 DEF HandleInHeadNoscript, Turn, TurnsInto, Handled, InTheLoop
    <2>2. Good(Handled(t)) /\ t \in Tokens => Good(handle_in_head_noscript(Handled(t), t))
      BY InHeadNoscriptGood
    <2> QED
      BY <1>1, <2>1, <2>2
  <1>7. CASE HandleAfterHead
    <2>1. PICK t \in NextTokens : TurnsInto(handle_after_head(Handled(t), t), t)
      BY <1>7 DEF HandleAfterHead, Turn, TurnsInto, Handled, InTheLoop
    <2>2. Good(Handled(t)) /\ t \in Tokens => Good(handle_after_head(Handled(t), t))
      BY AfterHeadGood
    <2> QED
      BY <1>1, <2>1, <2>2
  <1>8. CASE HandleInBody
    <2>1. PICK t \in NextTokens : TurnsInto(handle_in_body(Handled(t), t), t)
      BY <1>8 DEF HandleInBody, Turn, TurnsInto, Handled, InTheLoop
    <2>2. Good(Handled(t)) /\ t \in Tokens => Good(handle_in_body(Handled(t), t))
      BY InBodyGood
    <2> QED
      BY <1>1, <2>1, <2>2
  <1>9. CASE HandleText
    <2>1. PICK t \in NextTokens : TurnsInto(handle_text(Handled(t), t), t)
      BY <1>9 DEF HandleText, Turn, TurnsInto, Handled, InTheLoop
    <2>2. Good(Handled(t)) /\ t \in Tokens => Good(handle_text(Handled(t), t))
      BY HandleTextGood
    <2> QED
      BY <1>1, <2>1, <2>2
  <1>10. CASE HandleInTable
    <2>1. PICK t \in NextTokens : TurnsInto(handle_in_table(Handled(t), t), t)
      BY <1>10 DEF HandleInTable, Turn, TurnsInto, Handled, InTheLoop
    <2>2. Good(Handled(t)) /\ t \in Tokens => Good(handle_in_table(Handled(t), t))
      BY InTableGood
    <2> QED
      BY <1>1, <2>1, <2>2
  <1>11. CASE HandleInTableText
    <2>1. PICK t \in NextTokens : TurnsInto(handle_in_table_text(Handled(t), t), t)
      BY <1>11 DEF HandleInTableText, Turn, TurnsInto, Handled, InTheLoop
    <2>2. Good(Handled(t)) /\ t \in Tokens => Good(handle_in_table_text(Handled(t), t))
      BY InTableTextGood
    <2> QED
      BY <1>1, <2>1, <2>2
  <1>12. CASE HandleInCaption
    <2>1. PICK t \in NextTokens : TurnsInto(handle_in_caption(Handled(t), t), t)
      BY <1>12 DEF HandleInCaption, Turn, TurnsInto, Handled, InTheLoop
    <2>2. Good(Handled(t)) /\ t \in Tokens => Good(handle_in_caption(Handled(t), t))
      BY InCaptionGood
    <2> QED
      BY <1>1, <2>1, <2>2
  <1>13. CASE HandleInColumnGroup
    <2>1. PICK t \in NextTokens : TurnsInto(handle_in_column_group(Handled(t), t), t)
      BY <1>13 DEF HandleInColumnGroup, Turn, TurnsInto, Handled, InTheLoop
    <2>2. Good(Handled(t)) /\ t \in Tokens => Good(handle_in_column_group(Handled(t), t))
      BY InColumnGroupGood
    <2> QED
      BY <1>1, <2>1, <2>2
  <1>14. CASE HandleInTableBody
    <2>1. PICK t \in NextTokens : TurnsInto(handle_in_table_body(Handled(t), t), t)
      BY <1>14 DEF HandleInTableBody, Turn, TurnsInto, Handled, InTheLoop
    <2>2. Good(Handled(t)) /\ t \in Tokens => Good(handle_in_table_body(Handled(t), t))
      BY InTableBodyGood
    <2> QED
      BY <1>1, <2>1, <2>2
  <1>15. CASE HandleInRow
    <2>1. PICK t \in NextTokens : TurnsInto(handle_in_row(Handled(t), t), t)
      BY <1>15 DEF HandleInRow, Turn, TurnsInto, Handled, InTheLoop
    <2>2. Good(Handled(t)) /\ t \in Tokens => Good(handle_in_row(Handled(t), t))
      BY InRowGood
    <2> QED
      BY <1>1, <2>1, <2>2
  <1>16. CASE HandleInCell
    <2>1. PICK t \in NextTokens : TurnsInto(handle_in_cell(Handled(t), t), t)
      BY <1>16 DEF HandleInCell, Turn, TurnsInto, Handled, InTheLoop
    <2>2. Good(Handled(t)) /\ t \in Tokens => Good(handle_in_cell(Handled(t), t))
      BY InCellGood
    <2> QED
      BY <1>1, <2>1, <2>2
  <1>17. CASE HandleInSelect
    <2>1. PICK t \in NextTokens : TurnsInto(handle_in_select(Handled(t), t), t)
      BY <1>17 DEF HandleInSelect, Turn, TurnsInto, Handled, InTheLoop
    <2>2. Good(Handled(t)) /\ t \in Tokens => Good(handle_in_select(Handled(t), t))
      BY InSelectGood
    <2> QED
      BY <1>1, <2>1, <2>2
  <1>18. CASE HandleInSelectInTable
    <2>1. PICK t \in NextTokens : TurnsInto(handle_in_select_in_table(Handled(t), t), t)
      BY <1>18 DEF HandleInSelectInTable, Turn, TurnsInto, Handled, InTheLoop
    <2>2. Good(Handled(t)) /\ t \in Tokens => Good(handle_in_select_in_table(Handled(t), t))
      BY InSelectInTableGood
    <2> QED
      BY <1>1, <2>1, <2>2
  <1>19. CASE HandleInTemplate
    <2>1. PICK t \in NextTokens : TurnsInto(handle_in_template(Handled(t), t), t)
      BY <1>19 DEF HandleInTemplate, Turn, TurnsInto, Handled, InTheLoop
    <2>2. Good(Handled(t)) /\ t \in Tokens => Good(handle_in_template(Handled(t), t))
      BY InTemplateGood
    <2> QED
      BY <1>1, <2>1, <2>2
  <1>20. CASE HandleAfterBody
    <2>1. PICK t \in NextTokens : TurnsInto(handle_after_body(Handled(t), t), t)
      BY <1>20 DEF HandleAfterBody, Turn, TurnsInto, Handled, InTheLoop
    <2>2. Good(Handled(t)) /\ t \in Tokens => Good(handle_after_body(Handled(t), t))
      BY AfterBodyGood
    <2> QED
      BY <1>1, <2>1, <2>2
  <1>21. CASE HandleInFrameset
    <2>1. PICK t \in NextTokens : TurnsInto(handle_in_frameset(Handled(t), t), t)
      BY <1>21 DEF HandleInFrameset, Turn, TurnsInto, Handled, InTheLoop
    <2>2. Good(Handled(t)) /\ t \in Tokens => Good(handle_in_frameset(Handled(t), t))
      BY InFramesetGood
    <2> QED
      BY <1>1, <2>1, <2>2
  <1>22. CASE HandleAfterFrameset
    <2>1. PICK t \in NextTokens : TurnsInto(handle_after_frameset(Handled(t), t), t)
      BY <1>22 DEF HandleAfterFrameset, Turn, TurnsInto, Handled, InTheLoop
    <2>2. Good(Handled(t)) /\ t \in Tokens => Good(handle_after_frameset(Handled(t), t))
      BY AfterFramesetGood
    <2> QED
      BY <1>1, <2>1, <2>2
  <1>23. CASE HandleAfterAfterBody
    <2>1. PICK t \in NextTokens : TurnsInto(handle_after_after_body(Handled(t), t), t)
      BY <1>23 DEF HandleAfterAfterBody, Turn, TurnsInto, Handled, InTheLoop
    <2>2. Good(Handled(t)) /\ t \in Tokens => Good(handle_after_after_body(Handled(t), t))
      BY AfterAfterGood
    <2> QED
      BY <1>1, <2>1, <2>2
  <1>24. CASE HandleAfterAfterFrameset
    <2>1. PICK t \in NextTokens : TurnsInto(handle_after_after_frameset(Handled(t), t), t)
      BY <1>24 DEF HandleAfterAfterFrameset, Turn, TurnsInto, Handled, InTheLoop
    <2>2. Good(Handled(t)) /\ t \in Tokens => Good(handle_after_after_frameset(Handled(t), t))
      BY AfterAfterGood
    <2> QED
      BY <1>1, <2>1, <2>2
  <1>25. CASE HandleForeignContent
    <2>1. PICK t \in NextTokens : /\ HandlerOf(p, t) = "foreign"
                                  /\ TurnsInto(handle_in_foreign_content(Handled(t), t), t)
      BY <1>25 DEF HandleForeignContent, Turn, TurnsInto, Handled, InTheLoop
    <2>2. ~UsesInsertionMode(p, t)
      <3>1. p.mode \in Modes
        BY RecordFacts DEF IInv
      <3>2. p.mode # "foreign"
        BY <3>1 DEF Modes
      <3> QED
        BY <2>1, <3>2 DEF HandlerOf
    <2>3. t.type # "eof" /\ get_adjusted_current_node(p) # NULL
      BY <2>2 DEF UsesInsertionMode
    <2>4. t \in Tokens => get_adjusted_current_node(Handled(t)) # NULL
      BY <2>3, HandledGood DEF get_adjusted_current_node, get_current_node
    <2>5. Good(Handled(t)) /\ t \in Tokens => Good(handle_in_foreign_content(Handled(t), t))
      BY <2>3, <2>4, ForeignGood
    <2> QED
      BY <1>1, <2>1, <2>5
  <1>26. CASE DropLineFeed
    <2>1. PICK t \in NextTokens : TurnsInto(ignore_token(Handled(t), t), t)
      BY <1>26 DEF DropLineFeed, Turn, TurnsInto, Handled, InTheLoop
    <2>2. Good(Handled(t)) /\ t \in Tokens => Good(ignore_token(Handled(t), t))
      BY IgnoreTokenGood
    <2> QED
      BY <1>1, <2>1, <2>2
  <1> QED
    BY <1>2, <1>3, <1>4, <1>5, <1>6, <1>7, <1>8, <1>9, <1>10, <1>11, <1>12, <1>13, <1>14,
       <1>15, <1>16, <1>17, <1>18, <1>19, <1>20, <1>21, <1>22, <1>23, <1>24, <1>25,
       <1>26 DEF MainLoop

\* parser_state_destroy frees the context element.
LEMMA DestroyContextGood ==
    ASSUME NEW q, Good(q)
    PROVE  LET r == DestroyContext(q)
           IN  Good(r) /\ (r.ctx = NULL \/ r.failed # "" \/ Freed(r.nodes))
  <1>1. CASE q.ctx = NULL
    BY <1>1 DEF DestroyContext
  <1>2. CASE q.ctx # NULL
    <2>1. q.ctx \in 1..Len(q.nodes)
      BY <1>2, GoodFacts
    <2> QED
      BY <1>2, <2>1, GoodIsTyped, DestroyGood DEF DestroyContext
  <1> QED
    BY <1>1, <1>2

\* gumbo_destroy_output frees the document.
LEMMA DestroyDocumentGood ==
    ASSUME NEW q, Good(q)
    PROVE  Good(Destroy(q, Document))
  <1>0. Len(q.nodes) \in Nat /\ Len(q.nodes) >= 1
    BY GoodFacts
  <1>1. Document \in 1..Len(q.nodes)
    BY ONLY <1>0 DEF Document
  <1> QED
    BY <1>1, GoodIsTyped, DestroyGood

\* Every step keeps the invariant.
LEMMA StepIInv ==
    ASSUME IInv, [Next]_vars
    PROVE  IInv'
  <1>0. Good(p)
    BY DEF IInv
  <1>1. CASE MainLoop
    BY <1>1, MainLoopIInv
  <1>2. CASE FinishParsing
    <2>1. Good(PopTo(maybe_flush_text_node_buffer(p), 0))
      BY <1>0, FlushGood, PopToGood
    <2>2. Good(p)' /\ ContextGone'
      BY <1>2, <2>1, DestroyContextGood DEF FinishParsing, ContextGone
    <2> QED
      BY <1>2, <2>2 DEF FinishParsing, IInv, Statuses, InTheLoop
  <1>3. CASE gumbo_destroy_output
    <2>1. Good(p)'
      BY <1>0, <1>3, DestroyDocumentGood DEF gumbo_destroy_output
    <2> QED
      BY <1>3, <2>1 DEF gumbo_destroy_output, IInv, Statuses, InTheLoop, ContextGone
  <1>4. CASE UNCHANGED vars
    BY <1>4 DEF vars, IInv, ContextGone
  <1> QED
    BY <1>1, <1>2, <1>3, <1>4 DEF Next, Over

(***************************************************************************)
(* The invariant holds in every state: in particular no operation of the   *)
(* parser leaves a field with a value of another type, or a pointer to a   *)
(* node that was never created, not even when an assertion fails.          *)
(***************************************************************************)
THEOREM InductiveInvariant == Spec => []IInv
  <1>1. Init => IInv
    BY InitIInv
  <1>2. IInv /\ [Next]_vars => IInv'
    BY StepIInv
  <1> QED
    BY <1>1, <1>2, PTL DEF Spec

-----------------------------------------------------------------------------
(***************************************************************************)
(* What the invariant means.                                               *)
(***************************************************************************)

\* Each pointer of the parser, and of the tree, is NULL or points to a node that was created.
PointersAllocated ==
    /\ ToSet(p.open) \subseteq DOMAIN p.nodes
    /\ ToSet(p.afe) \subseteq DOMAIN p.nodes \cup {Marker}
    /\ {p.root, p.head, p.form, p.ctx} \subseteq DOMAIN p.nodes \cup {NULL}
    /\ Document \in DOMAIN p.nodes
    /\ \A n \in DOMAIN p.nodes :
          /\ p.nodes[n].parent \in DOMAIN p.nodes \cup {NULL}
          /\ ToSet(p.nodes[n].kids) \subseteq DOMAIN p.nodes

(***************************************************************************)
(* Whatever the input, and whatever the handlers, the adoption agency and  *)
(* foster parenting make of it: every pointer of the parser and of the     *)
(* tree is NULL or points to a node that was created.                      *)
(***************************************************************************)
THEOREM AlwaysAllocated == Spec => []PointersAllocated
  <1>1. IInv => PointersAllocated
    <2> SUFFICES ASSUME IInv PROVE PointersAllocated
      OBVIOUS
    <2> DEFINE A == DOMAIN p.nodes
    <2>1. Good(p)
      BY DEF IInv
    <2>2. A = 1..Len(p.nodes)
      BY <2>1, GoodFacts
    <2>3. p.open \in Seq(A) /\ p.afe \in Seq(A \cup {Marker})
      BY <2>1, <2>2, GoodFacts
    <2>4. {p.root, p.head, p.form, p.ctx} \subseteq A \cup {NULL} /\ Document \in A
      BY <2>1, <2>2, GoodFacts
    <2>5. \A n \in A : p.nodes[n] \in Nodes(Len(p.nodes))
      BY <2>1, GoodFacts
    <2>6. \A n \in A : p.nodes[n].parent \in A \cup {NULL} /\ p.nodes[n].kids \in Seq(A)
      BY <2>2, <2>5 DEF Nodes, NodesOf
    <2>7. \A S : \A s \in Seq(S) : ToSet(s) \subseteq S
      BY DEF ToSet
    <2> HIDE DEF A
    <2>8. /\ ToSet(p.open) \subseteq A /\ ToSet(p.afe) \subseteq A \cup {Marker}
          /\ \A n \in A : ToSet(p.nodes[n].kids) \subseteq A
      BY <2>3, <2>6, <2>7
    <2> QED
      BY <2>4, <2>6, <2>8 DEF A, PointersAllocated
  <1> QED
    BY <1>1, InductiveInvariant, PTL

\* No node has been freed: no late frameset has replaced the body, and parsing is not over.
NothingFreed == Live = DOMAIN p.nodes

\* Each pointer that the parser keeps is NULL or leads to an element in the tree's table.
PointersToElements ==
    /\ OpenSet \subseteq Elements \ {p.ctx}
    /\ ToSet(p.afe) \subseteq (Elements \ {p.ctx}) \cup {Marker}
    /\ {p.root, p.head, p.form} \subseteq (Elements \ {p.ctx}) \cup {NULL}
    /\ p.ctx \in Elements \cup {NULL}

(***************************************************************************)
(* The handlers read the tag and the namespace of what they find on the    *)
(* stack and on the list without asking for its type: as long as nothing   *)
(* has been freed, all of it are elements, never a comment, a text or the  *)
(* document; and none is the context of the fragment, which is allocated   *)
(* outside the tree and freed on its own.                                  *)
(***************************************************************************)
THEOREM AlwaysElements == Spec => [](NothingFreed => PointersToElements)
  <1>1. IInv => (NothingFreed => PointersToElements)
    <2> SUFFICES ASSUME IInv, NothingFreed PROVE PointersToElements
      OBVIOUS
    <2> DEFINE A == Elems(p)
    <2>1. Good(p)
      BY DEF IInv
    <2>2. \A n \in DOMAIN p.nodes : p.nodes[n].type # "freed"
      BY DEF NothingFreed, Live
    <2>3. A \subseteq Elements \ {p.ctx}
      BY <2>2 DEF Elems, ElementsOf, Elements, Holders
    <2>4. p.open \in Seq(A) /\ p.afe \in Seq(A \cup {Marker})
      BY <2>1, GoodFacts
    <2>5. {p.root, p.head, p.form} \subseteq A \cup {NULL}
      BY <2>1, GoodFacts
    <2>6. p.ctx \in Elements \cup {NULL}
      BY <2>1, <2>2, GoodFacts DEF Elements, Holders
    <2>7. \A S : \A s \in Seq(S) : ToSet(s) \subseteq S
      BY DEF ToSet
    <2> HIDE DEF A
    <2>8. OpenSet \subseteq A /\ ToSet(p.afe) \subseteq A \cup {Marker}
      BY <2>4, <2>7 DEF OpenSet
    <2> QED
      BY <2>3, <2>5, <2>6, <2>8 DEF PointersToElements
  <1> QED
    BY <1>1, InductiveInvariant, PTL

\* While no assertion has failed and nothing is freed, the table is sound.
LEMMA TableSound ==
    ASSUME IInv, NoAssertFails, NothingFreed
    PROVE  LinksConsistent /\ IndexConsistent
  <1>1. Good(p) /\ p.failed = "" /\ ~Freed(p.nodes)
    BY DEF IInv, NoAssertFails, NothingFreed, Live, Freed
  <1>2. Sound(p.nodes) /\ p.nodes \in Seq(Nodes(Len(p.nodes))) /\ Len(p.nodes) \in Nat
    BY <1>1, GoodFacts DEF Good, Built
  <1>3. LinksAgree(p.nodes) /\ IndexAgrees(p.nodes)
    BY <1>2, NodesAreNodes, SoundAgrees
  <1>4. BehindBody = {}
    BY DEF BehindBody, NothingFreed
  <1> QED
    BY <1>3, <1>4 DEF LinksConsistent, IndexConsistent, IndexAgrees

(***************************************************************************)
(* Children vectors and parent pointers describe the same tree in every    *)
(* state of a parse in which no assertion has failed and nothing has been  *)
(* freed, whatever was appended, inserted, moved or cloned before.         *)
(***************************************************************************)
THEOREM LinksHold == Spec => [](NoAssertFails /\ NothingFreed => LinksConsistent)
  <1>1. IInv => (NoAssertFails /\ NothingFreed => LinksConsistent)
    BY TableSound
  <1> QED
    BY <1>1, InductiveInvariant, PTL

(***************************************************************************)
(* gumbo.h: "The index within the parent's children vector of this node."  *)
(* It is, in the same states: every operation that moves a child renumbers *)
(* the ones behind it.  (A late frameset is the one that does not.)        *)
(***************************************************************************)
THEOREM IndicesHold == Spec => [](NoAssertFails /\ NothingFreed => IndexConsistent)
  <1>1. IInv => (NoAssertFails /\ NothingFreed => IndexConsistent)
    BY TableSound
  <1> QED
    BY <1>1, InductiveInvariant, PTL

-----------------------------------------------------------------------------
(***************************************************************************)
(* The copy of the tree that push_document makes (LuaTree).                *)
(***************************************************************************)

\* The table whose childNodes are the children of the node n.
Keeper(n) == IF n \in Templates THEN ContentOf(n) ELSE n

\* set_children copies an array, from its first place on.
LEMMA SetChildrenCopies ==
    ASSUME NEW S, NEW kids \in Seq(S)
    PROVE  set_children(kids, 1) = kids
  <1>1. Len(kids) \in Nat /\ kids \in [1..Len(kids) -> S]
    OBVIOUS
  <1>2. Len(kids) + 1 - 1 = Len(kids) /\ \A i \in 1..Len(kids) : i - 1 + 1 = i
    BY ONLY <1>1
  <1> QED
    BY <1>1, <1>2 DEF set_children

\* From the second place on, it leaves room for one in front.
LEMMA SetChildrenShifts ==
    ASSUME NEW S, NEW kids \in Seq(S), NEW x
    PROVE  LET k == set_children(kids, 2)
           IN  [i \in {1} \cup DOMAIN k |-> IF i = 1 THEN x ELSE k[i]] = <<x>> \o kids
  <1> DEFINE k == set_children(kids, 2)
             f == [i \in {1} \cup DOMAIN k |-> IF i = 1 THEN x ELSE k[i]]
             g == <<x>> \o kids
             N == Len(kids)
  <1>1. N \in Nat /\ kids \in [1..N -> S]
    OBVIOUS
  <1>2. k = [i \in 2..(N + 1) |-> kids[i - 1]]
    <2>1. N + 2 - 1 = N + 1 /\ \A i \in 2..(N + 1) : i - 2 + 1 = i - 1
      BY ONLY <1>1
    <2> QED
      BY <2>1 DEF set_children
  <1> HIDE DEF k
  <1>3. {1} \cup DOMAIN k = 1..(N + 1)
    BY <1>1, <1>2
  <1>4. f = [i \in 1..(N + 1) |-> IF i = 1 THEN x ELSE kids[i - 1]]
    <2>1. \A i \in 1..(N + 1) : i # 1 => i \in 2..(N + 1)
      BY <1>1
    <2> QED
      BY <1>2, <1>3, <2>1
  <1>5. g = [i \in 1..(N + 1) |-> IF i = 1 THEN x ELSE kids[i - 1]]
    <2>1. <<x>> \in Seq(S \cup {x}) /\ kids \in Seq(S \cup {x})
      BY <1>1
    <2>2. g \in Seq(S \cup {x}) /\ Len(g) = N + 1
          /\ \A i \in 1..(N + 1) : g[i] = IF i = 1 THEN x ELSE kids[i - 1]
      <3>1. Len(<<x>>) = 1 /\ <<x>>[1] = x
        OBVIOUS
      <3> QED
        BY <1>1, <2>1, <3>1
    <2> HIDE DEF g
    <2>3. DOMAIN g = 1..(N + 1) /\ g = [i \in DOMAIN g |-> g[i]]
      BY <2>2
    <2> QED
      BY <2>2, <2>3
  <1> HIDE DEF f, g
  <1> QED
    BY <1>4, <1>5 DEF f, g, k

\* What is handed over is a table of nodes that hang together, with one document.
Whole(t, N) ==
    /\ N \in Nat /\ 1 <= N /\ DOMAIN t = 1..N
    /\ \A n \in 1..N :
          /\ t[n].kids \in Seq(1..N) /\ t[n].parent \in 1..N \cup {NULL}
          /\ IsInjective(t[n].kids)
          /\ \A k \in ToSet(t[n].kids) : t[k].parent = n
          /\ t[n].parent # NULL => n \in ToSet(t[t[n].parent].kids)
          /\ ~IsContainer(t[n]) => t[n].kids = <<>>
          /\ t[n].type = "document" => n = Document
          /\ t[n].type # "freed"
    /\ t[Document].type = "document" /\ t[Document].parent = NULL

LEMMA TableWhole ==
    ASSUME IInv, NoAssertFails, NothingFreed, status = "finished"
    PROVE  /\ Whole(p.nodes, Len(p.nodes)) /\ p.has_doctype \in BOOLEAN
           /\ Copied = (1..Len(p.nodes)) \ {Document}
  <1> DEFINE t == p.nodes
             N == Len(p.nodes)
  <1>1. Good(p) /\ p.failed = "" /\ \A n \in DOMAIN t : t[n].type # "freed"
    BY DEF IInv, NoAssertFails, NothingFreed, Live
  <1>2. ~Freed(t)
    BY <1>1 DEF Freed
  <1>3. p.ctx = NULL /\ p.has_doctype \in BOOLEAN
    BY <1>1, <1>2 DEF IInv, ContextGone, Good, States
  <1>4. N \in Nat /\ N >= 1 /\ DOMAIN t = 1..N /\ \A n \in DOMAIN t : t[n] \in Nodes(N)
    BY <1>1, GoodFacts
  <1>5. Sound(t) /\ Shape(t, p.ctx) /\ t \in Seq(Nodes(N))
    BY <1>1, <1>2, GoodFacts DEF Good, Built
  <1>6. LinksAgree(t)
    BY <1>4, <1>5, NodesAreNodes, SoundAgrees
  <1> HIDE DEF t, N
  <1>7. \A n \in 1..N : t[n].kids \in Seq(1..N) /\ t[n].parent \in 1..N \cup {NULL}
    BY <1>4 DEF Nodes, NodesOf
  <1>8. ASSUME NEW n \in 1..N
        PROVE  /\ IsInjective(t[n].kids)
               /\ \A k \in ToSet(t[n].kids) : t[k].parent = n
               /\ t[n].parent # NULL => n \in ToSet(t[t[n].parent].kids)
    <2>1. IsInjective(t[n].kids)
      BY <1>4, <1>6 DEF LinksAgree, IsInjective
    <2>2. \A k \in ToSet(t[n].kids) : t[k].parent = n
      BY <1>4, <1>6 DEF LinksAgree, ToSet
    <2>3. t[n].parent # NULL => n \in ToSet(t[t[n].parent].kids)
      BY <1>4, <1>6 DEF LinksAgree, ToSet
    <2> QED
      BY <2>1, <2>2, <2>3
  <1>9. Whole(t, N)
    BY <1>1, <1>4, <1>5, <1>7, <1>8 DEF Whole, Shape
  <1>10. Copied = (1..N) \ {Document}
    <2>1. p.ctx \notin 1..N
      BY <1>3, <1>4 DEF NULL
    <2> QED
      BY <1>1, <1>4, <2>1 DEF Copied, Live, t
  <1> QED
    BY <1>3, <1>9, <1>10 DEF t, N

\* What stands in each table of a parse that is over.
LEMMA PushedTables ==
    ASSUME Whole(p.nodes, Len(p.nodes)), p.has_doctype \in BOOLEAN,
           Copied = (1..Len(p.nodes)) \ {Document}
    PROVE  LET t == p.nodes
               N == Len(t)
               front == IF p.has_doctype THEN <<DoctypeTable>> ELSE <<>>
           IN  /\ DOMAIN Pushed = 1..(2 * N + 1)
               /\ Pushed[Document] = [type |-> "document", own |-> NULL, parent |-> NULL,
                                      kids |-> front \o t[Document].kids]
               /\ \A n \in Copied :
                     Pushed[n] = [type |-> IF t[n].type \in ElementTypes THEN "element" ELSE "text",
                                  own |-> NULL,
                                  parent |-> IF t[n].parent = NULL THEN NULL ELSE Keeper(t[n].parent),
                                  kids |-> IF n \in Templates THEN <<>> ELSE t[n].kids]
               /\ \A n \in Templates :
                     Pushed[ContentOf(n)] = [type |-> "fragment", own |-> NULL, parent |-> NULL,
                                             kids |-> t[n].kids]
               /\ p.has_doctype => Pushed[DoctypeTable] = Table("doctype")
               /\ \A m \in (N + 1)..(2 * N + 1) :
                     \/ m = DoctypeTable /\ p.has_doctype
                     \/ \E n \in Templates : m = ContentOf(n)
                     \/ Pushed[m] = Table("none")
  <1> DEFINE t == p.nodes
             N == Len(t)
             front == IF p.has_doctype THEN <<DoctypeTable>> ELSE <<>>
  <1>1. /\ N \in Nat /\ 1 <= N /\ DOMAIN t = 1..N
        /\ \A n \in 1..N : t[n].kids \in Seq(1..N) /\ t[n].parent \in 1..N \cup {NULL}
        /\ t[Document].type = "document"
    BY DEF Whole
  <1> HIDE DEF t, N
  <1>2. DoctypeTable = N + 1 /\ Document \in 1..N /\ Copied = (1..N) \ {Document}
    BY <1>1 DEF DoctypeTable, Document, N, t
  <1>3. Templates \subseteq Copied /\ Templates \cap Copied = Templates
    <2>1. Document \notin Templates
      BY <1>1 DEF Templates, t
    <2> QED
      BY <1>1, <1>2, <2>1 DEF Templates, t
  <1>4. DOMAIN Pushed = 1..(2 * N + 1)
    <2>1. DoctypeTable + N = 2 * N + 1
      BY ONLY <1>1, <1>2
    <2> QED
      BY <2>1 DEF Pushed, N, t
  <1>5. \A m \in 1..(2 * N + 1) :
           Pushed[m] = IF m = Document THEN push_document
                       ELSE IF m \in Copied THEN push_node(m)
                       ELSE IF m = DoctypeTable /\ p.has_doctype THEN Table("doctype")
                       ELSE IF m - DoctypeTable \in Templates THEN push_content(m - DoctypeTable)
                       ELSE Table("none")
    BY <1>3, <1>4 DEF Pushed
  <1>6. 1..N \subseteq 1..(2 * N + 1) /\ (N + 1)..(2 * N + 1) \subseteq 1..(2 * N + 1)
    BY <1>1
  <1>7. Pushed[Document] = [type |-> "document", own |-> NULL, parent |-> NULL,
                            kids |-> front \o t[Document].kids]
    <2> DEFINE kids == t[Document].kids
    <2>1. kids \in Seq(1..N)
      BY <1>1, <1>2
    <2> HIDE DEF kids
    <2>2. CASE p.has_doctype
      <3>1. FirstIndex = 2
        BY <2>2 DEF FirstIndex
      <3> DEFINE k == set_children(kids, 2)
                 f == [i \in {1} \cup DOMAIN k |-> IF i = 1 THEN DoctypeTable ELSE k[i]]
      <3>2. f = <<DoctypeTable>> \o kids
        BY <2>1, SetChildrenShifts
      <3>3. push_document = [Table("document") EXCEPT !.kids = f]
        BY <2>2, <3>1 DEF push_document, kids, t
      <3> HIDE DEF f
      <3>4. push_document.kids = <<DoctypeTable>> \o kids /\ push_document.type = "document"
        BY <3>2, <3>3 DEF Table
      <3>5. push_document = [type |-> "document", own |-> NULL, parent |-> NULL, kids |-> f]
        BY <3>3 DEF Table
      <3> QED
        BY <1>2, <1>5, <1>6, <2>2, <3>2, <3>5 DEF kids
    <2>3. CASE ~p.has_doctype
      <3>1. FirstIndex = 1
        BY <2>3 DEF FirstIndex
      <3>2. set_children(kids, 1) = kids
        BY <2>1, SetChildrenCopies
      <3>3. push_document = [Table("document") EXCEPT !.kids = kids]
        BY <2>3, <3>1, <3>2 DEF push_document, kids, t
      <3>4. front \o kids = kids
        BY <2>1, <2>3
      <3>5. push_document = [type |-> "document", own |-> NULL, parent |-> NULL, kids |-> kids]
        BY <3>3 DEF Table
      <3> QED
        BY <1>2, <1>5, <1>6, <3>4, <3>5 DEF kids
    <2> QED
      BY <2>2, <2>3
  <1>8. ASSUME NEW n \in Copied
        PROVE  Pushed[n] = [type |-> IF t[n].type \in ElementTypes THEN "element" ELSE "text",
                            own |-> NULL,
                            parent |-> IF t[n].parent = NULL THEN NULL ELSE Keeper(t[n].parent),
                            kids |-> IF n \in Templates THEN <<>> ELSE t[n].kids]
    <2>1. Pushed[n] = push_node(n)
      BY <1>2, <1>5, <1>6
    <2>2. set_children(t[n].kids, 1) = t[n].kids
      BY <1>1, <1>2, SetChildrenCopies
    <2>3. NULL \notin Templates
      BY <1>1 DEF Templates, NULL, t
    <2> QED
      BY <2>1, <2>2, <2>3 DEF push_node, Table, Keeper, t
  <1>9. ASSUME NEW n \in Templates
        PROVE  Pushed[ContentOf(n)] = [type |-> "fragment", own |-> NULL, parent |-> NULL,
                                       kids |-> t[n].kids]
    <2>1. n \in 1..N
      BY <1>2, <1>3
    <2> DEFINE m == ContentOf(n)
    <2>2. m = N + 1 + n
      BY <1>2 DEF ContentOf
    <2> HIDE DEF m
    <2>3. m \in 1..(2 * N + 1) /\ m \notin 1..N /\ m # N + 1 /\ m - (N + 1) = n
      BY ONLY <1>1, <2>1, <2>2
    <2>4. Pushed[m] = push_content(n)
      BY <1>2, <1>5, <2>3
    <2>5. set_children(t[n].kids, 1) = t[n].kids
      BY <1>1, <2>1, SetChildrenCopies
    <2> QED
      BY <2>4, <2>5 DEF push_content, Table, m, t
  <1>10. p.has_doctype => Pushed[DoctypeTable] = Table("doctype")
    <2>1. DoctypeTable \in 1..(2 * N + 1) /\ DoctypeTable \notin 1..N
      BY ONLY <1>1, <1>2
    <2> QED
      BY <1>2, <1>5, <2>1
  <1>11. ASSUME NEW m \in (N + 1)..(2 * N + 1)
         PROVE  \/ m = DoctypeTable /\ p.has_doctype
                \/ \E n \in Templates : m = ContentOf(n)
                \/ Pushed[m] = Table("none")
    <2>1. m \in 1..(2 * N + 1) /\ m \notin 1..N
      BY ONLY <1>1
    <2>2. ASSUME m - DoctypeTable \in Templates PROVE \E n \in Templates : m = ContentOf(n)
      <3>1. DoctypeTable + (m - DoctypeTable) = m
        BY ONLY <1>1, <1>2
      <3> QED
        BY <2>2, <3>1 DEF ContentOf
    <2> QED
      BY <1>2, <1>5, <2>1, <2>2
  <1> QED
    BY <1>4, <1>7, <1>8, <1>9, <1>10, <1>11 DEF t, N

\* What each list of the copy is: in front of the children of a node, but the doctype.
LEMMA PushedLists ==
    ASSUME Whole(p.nodes, Len(p.nodes)), p.has_doctype \in BOOLEAN,
           Copied = (1..Len(p.nodes)) \ {Document}
    PROVE  LET t == p.nodes
               N == Len(t)
               front == IF p.has_doctype THEN <<DoctypeTable>> ELSE <<>>
           IN  /\ Templates \subseteq Copied /\ DoctypeTable = N + 1
               /\ \A n \in 1..N : Keeper(n) \in DOMAIN Pushed
               /\ \A n, k \in 1..N : Keeper(n) = Keeper(k) => n = k
               /\ Keeper(Document) = Document
               /\ Pushed[Document].kids = front \o t[Document].kids
               /\ \A n \in Copied : Pushed[Keeper(n)].kids = t[n].kids
               /\ \A n \in 1..N : IsContainer(t[n]) =>
                     Dom!implementsParentNode(Pushed[Keeper(n)])
               /\ \A m \in DOMAIN Pushed :
                     Pushed[m].kids # <<>> => \E n \in 1..N : m = Keeper(n)
               /\ \A m \in DOMAIN Pushed :
                     Pushed[m].parent # NULL => m \in Copied /\ t[m].parent # NULL
               /\ \A n \in Copied :
                     /\ Pushed[n].type \in {"element", "text"}
                     /\ t[n].parent # NULL => Pushed[n].parent = Keeper(t[n].parent)
               /\ p.has_doctype => Pushed[DoctypeTable].type = "doctype"
               /\ Pushed[Document].type = "document"
  <1> DEFINE t == p.nodes
             N == Len(t)
             front == IF p.has_doctype THEN <<DoctypeTable>> ELSE <<>>
  <1>1. /\ N \in Nat /\ 1 <= N /\ DOMAIN t = 1..N /\ t[Document].type = "document"
        /\ Copied = (1..N) \ {Document} /\ Document \in 1..N
    BY DEF Whole, Document
  <1>2. /\ DOMAIN Pushed = 1..(2 * N + 1)
        /\ Pushed[Document] = [type |-> "document", own |-> NULL, parent |-> NULL,
                               kids |-> front \o t[Document].kids]
        /\ \A n \in Copied :
              Pushed[n] = [type |-> IF t[n].type \in ElementTypes THEN "element" ELSE "text",
                           own |-> NULL,
                           parent |-> IF t[n].parent = NULL THEN NULL ELSE Keeper(t[n].parent),
                           kids |-> IF n \in Templates THEN <<>> ELSE t[n].kids]
        /\ \A n \in Templates :
              Pushed[ContentOf(n)] = [type |-> "fragment", own |-> NULL, parent |-> NULL,
                                      kids |-> t[n].kids]
        /\ p.has_doctype => Pushed[DoctypeTable] = Table("doctype")
        /\ \A m \in (N + 1)..(2 * N + 1) :
              \/ m = DoctypeTable /\ p.has_doctype
              \/ \E n \in Templates : m = ContentOf(n)
              \/ Pushed[m] = Table("none")
    BY PushedTables
  <1> HIDE DEF front
  <1>14. /\ Pushed[Document].type = "document" /\ Pushed[Document].parent = NULL
         /\ Pushed[Document].kids = front \o t[Document].kids
    BY ONLY <1>2
  <1>15. ASSUME NEW n \in Copied
         PROVE  /\ Pushed[n].type = IF t[n].type \in ElementTypes THEN "element" ELSE "text"
                /\ Pushed[n].parent = IF t[n].parent = NULL THEN NULL ELSE Keeper(t[n].parent)
                /\ Pushed[n].kids = IF n \in Templates THEN <<>> ELSE t[n].kids
    <2> DEFINE x == [type |-> IF t[n].type \in ElementTypes THEN "element" ELSE "text",
                     own |-> NULL,
                     parent |-> IF t[n].parent = NULL THEN NULL ELSE Keeper(t[n].parent),
                     kids |-> IF n \in Templates THEN <<>> ELSE t[n].kids]
    <2>1. Pushed[n] = x
      BY <1>2
    <2>2. /\ x.type = IF t[n].type \in ElementTypes THEN "element" ELSE "text"
          /\ x.parent = IF t[n].parent = NULL THEN NULL ELSE Keeper(t[n].parent)
          /\ x.kids = IF n \in Templates THEN <<>> ELSE t[n].kids
      OBVIOUS
    <2> HIDE DEF x
    <2> QED
      BY ONLY <2>1, <2>2
  <1>16. ASSUME NEW n \in Templates
         PROVE  /\ Pushed[ContentOf(n)].type = "fragment" /\ Pushed[ContentOf(n)].parent = NULL
                /\ Pushed[ContentOf(n)].kids = t[n].kids
    <2>1. Pushed[ContentOf(n)] = [type |-> "fragment", own |-> NULL, parent |-> NULL,
                                  kids |-> t[n].kids]
      BY <1>2
    <2> QED
      BY ONLY <2>1
  <1>3. Templates = {n \in 1..N : t[n].type = "template"}
    BY <1>1 DEF Templates
  <1> HIDE DEF t, N
  <1>4. DoctypeTable = N + 1 /\ \A n \in 1..N : ContentOf(n) = N + 1 + n
    BY DEF DoctypeTable, ContentOf, N, t
  <1>5. Templates \subseteq Copied /\ Document \notin Templates
    BY <1>1, <1>3
  <1>6. \A n \in 1..N : Keeper(n) = IF n \in Templates THEN N + 1 + n ELSE n
    BY <1>4 DEF Keeper
  <1>7. \A n \in 1..N : Keeper(n) \in 1..(2 * N + 1)
    BY <1>1, <1>6
  <1>8. \A n, k \in 1..N : Keeper(n) = Keeper(k) => n = k
    BY <1>1, <1>6
  <1>9. Keeper(Document) = Document
    BY <1>1, <1>5, <1>6
  <1>10. ASSUME NEW n \in Copied PROVE Pushed[Keeper(n)].kids = t[n].kids
    <2>1. CASE n \in Templates
      BY <1>16, <2>1 DEF Keeper
    <2>2. CASE n \notin Templates
      BY <1>15, <2>2 DEF Keeper
    <2> QED
      BY <2>1, <2>2
  <1>11. ASSUME NEW n \in 1..N, IsContainer(t[n]) PROVE Dom!implementsParentNode(Pushed[Keeper(n)])
    <2>1. CASE n = Document
      BY <1>9, <1>14, <2>1 DEF Dom!implementsParentNode
    <2>2. CASE n \in Templates
      BY <1>16, <2>2 DEF Keeper, Dom!implementsParentNode
    <2>3. CASE n # Document /\ n \notin Templates
      <3>1. n \in Copied /\ Keeper(n) = n
        BY <1>1, <2>3 DEF Keeper
      <3>2. t[n].type \in ElementTypes
        <4>1. t[n].type = "document" => n = Document
          BY DEF Whole, t, N
        <4> QED
          BY <1>11, <2>3, <4>1 DEF IsContainer
      <3> QED
        BY <1>15, <3>1, <3>2 DEF Dom!implementsParentNode
    <2> QED
      BY <2>1, <2>2, <2>3
  <1>12. ASSUME NEW m \in 1..(2 * N + 1)
         PROVE  /\ Pushed[m].kids # <<>> => \E n \in 1..N : m = Keeper(n)
                /\ Pushed[m].parent # NULL => m \in Copied /\ t[m].parent # NULL
    <2>1. m \in 1..N \/ m \in (N + 1)..(2 * N + 1)
      BY <1>1
    <2>2. CASE m = Document
      BY <1>1, <1>9, <1>14, <2>2
    <2>3. CASE m \in Copied
      <3>1. m \in 1..N
        BY <1>1, <2>3
      <3>2. Pushed[m].kids # <<>> => m = Keeper(m)
        BY <1>15, <2>3 DEF Keeper
      <3> QED
        BY <1>15, <2>3, <3>1, <3>2
    <2>4. CASE m \in (N + 1)..(2 * N + 1)
      <3>1. CASE m = DoctypeTable /\ p.has_doctype
        BY <1>2, <3>1 DEF Table
      <3>2. ASSUME NEW n \in Templates, m = ContentOf(n)
            PROVE  n \in 1..N /\ m = Keeper(n) /\ Pushed[m].parent = NULL
        BY <1>16, <1>3, <3>2 DEF Keeper
      <3>3. CASE Pushed[m] = Table("none")
        BY <3>3 DEF Table
      <3> QED
        BY <1>2, <2>4, <3>1, <3>2, <3>3
    <2> QED
      BY <1>1, <2>1, <2>2, <2>3, <2>4
  <1>13. Pushed[Document].kids = front \o t[Document].kids
    BY <1>14
  <1>17. DOMAIN Pushed = 1..(2 * N + 1)
    BY <1>2
  <1>18. ASSUME NEW n \in Copied
         PROVE  /\ Pushed[n].type \in {"element", "text"}
                /\ t[n].parent # NULL => Pushed[n].parent = Keeper(t[n].parent)
    BY <1>15
  <1>19. p.has_doctype => Pushed[DoctypeTable].type = "doctype"
    BY <1>2 DEF Table
  <1>20. Pushed[Document].type = "document"
    BY <1>14
  <1> QED
    BY <1>17, <1>4, <1>5, <1>7, <1>8, <1>9, <1>10, <1>11, <1>12, <1>13, <1>18, <1>19, <1>20 DEF t, N, front

\* The lists of the copy: what stands in each of them, and how.
LEMMA PushedKids ==
    ASSUME Whole(p.nodes, Len(p.nodes)), p.has_doctype \in BOOLEAN,
           Copied = (1..Len(p.nodes)) \ {Document}, NEW n \in 1..Len(p.nodes)
    PROVE  LET kids == Pushed[Keeper(n)].kids
           IN  /\ kids \in Seq(1..(Len(p.nodes) + 1)) /\ IsInjective(kids)
               /\ \A m \in ToSet(kids) :
                     \/ m \in ToSet(p.nodes[n].kids)
                     \/ m = DoctypeTable /\ p.has_doctype /\ n = Document
               /\ \A m \in ToSet(p.nodes[n].kids) : m \in ToSet(kids)
  <1> DEFINE t == p.nodes
             N == Len(t)
             kids == t[n].kids
             all == Pushed[Keeper(n)].kids
  <1>1. N \in Nat /\ kids \in Seq(1..N) /\ IsInjective(kids)
    BY DEF Whole
  <1>2. /\ DoctypeTable = N + 1 /\ Keeper(Document) = Document
        /\ Pushed[Document].kids =
             (IF p.has_doctype THEN <<DoctypeTable>> ELSE <<>>) \o t[Document].kids
        /\ n # Document => Pushed[Keeper(n)].kids = kids
    BY PushedLists
  <1>3. CASE n # Document \/ ~p.has_doctype
    <2>1. all = kids
      <3>1. <<>> \o kids = kids
        BY <1>1
      <3> QED
        BY <1>2, <1>3, <3>1
    <2>2. 1..N \subseteq 1..(N + 1)
      BY <1>1
    <2> HIDE DEF kids, all, N
    <2>3. kids \in Seq(1..(N + 1))
      BY <1>1, <2>2
    <2> QED
      BY <1>1, <2>1, <2>3 DEF kids, all, N, t
  <1>4. CASE n = Document /\ p.has_doctype
    <2>1. all = <<DoctypeTable>> \o kids
      BY <1>2, <1>4
    <2> HIDE DEF kids, all, N
    <2>2. 1..N \subseteq 1..(N + 1) /\ DoctypeTable \in 1..(N + 1)
      BY <1>1, <1>2
    <2>3. kids \in Seq(1..(N + 1)) /\ <<DoctypeTable>> \in Seq(1..(N + 1))
      BY <1>1, <2>2
    <2>4. /\ all \in Seq(1..(N + 1)) /\ Len(all) = Len(kids) + 1 /\ Len(kids) \in Nat
          /\ \A i \in 1..Len(all) : all[i] = IF i = 1 THEN DoctypeTable ELSE kids[i - 1]
      <3>1. Len(<<DoctypeTable>>) = 1 /\ <<DoctypeTable>>[1] = DoctypeTable
        OBVIOUS
      <3> HIDE DEF Document
      <3> QED
        BY <2>1, <2>3, <3>1
    <2>5. DOMAIN all = 1..(Len(kids) + 1) /\ DOMAIN kids = 1..Len(kids)
      BY <2>3, <2>4
    <2>6. \A i \in DOMAIN kids : kids[i] \in 1..N /\ kids[i] # DoctypeTable
      BY <1>1, <1>2
    <2>7. \A i \in DOMAIN all : i = 1 \/ i - 1 \in DOMAIN kids
      BY <2>4, <2>5
    <2>8. \A i, j \in DOMAIN all : all[i] = all[j] => i = j
      <3>1. \A i, j \in DOMAIN kids : kids[i] = kids[j] => i = j
        BY <1>1 DEF IsInjective
      <3> QED
        BY <2>4, <2>5, <2>6, <2>7, <3>1
    <2>9. ToSet(all) = {DoctypeTable} \cup ToSet(kids)
      <3>1. ToSet(all) \subseteq {DoctypeTable} \cup ToSet(kids)
        BY <2>4, <2>5, <2>7 DEF ToSet
      <3>2. ASSUME NEW i \in DOMAIN kids PROVE kids[i] \in ToSet(all)
        <4>1. i + 1 \in DOMAIN all /\ all[i + 1] = kids[i]
          BY <2>4, <2>5
        <4> QED
          BY <4>1 DEF ToSet
      <3>3. DoctypeTable \in ToSet(all)
        <4>1. 1 \in DOMAIN all /\ all[1] = DoctypeTable
          BY <2>4, <2>5
        <4> QED
          BY <4>1 DEF ToSet
      <3> QED
        BY <3>1, <3>2, <3>3 DEF ToSet
    <2>10. IsInjective(all)
      BY <2>8 DEF IsInjective
    <2> QED
      BY <1>4, <2>4, <2>9, <2>10 DEF all, kids, N, t
  <1> QED
    BY <1>3, <1>4

\* An array of n things has the domain 1..n.
LEMMA ArrayDomain ==
    ASSUME NEW S, NEW s \in Seq(S)
    PROVE  DOMAIN s = 1..Cardinality(DOMAIN s)
  <1>1. DOMAIN s = 1..Len(s) /\ Len(s) \in Nat
    OBVIOUS
  <1>2. Cardinality(1..Len(s)) = Len(s)
    <2>1. Cardinality(1..Len(s)) = IF 1 > Len(s) THEN 0 ELSE Len(s) - 1 + 1
      BY <1>1, FS_Interval
    <2> QED
      BY ONLY <1>1, <2>1
  <1> QED
    BY <1>1, <1>2

\* In the copy of a tree that hangs together each node is in one list, that of its parent.
LEMMA CopyMirrors ==
    ASSUME Whole(p.nodes, Len(p.nodes)), p.has_doctype \in BOOLEAN,
           Copied = (1..Len(p.nodes)) \ {Document}
    PROVE  /\ \A m \in DOMAIN Pushed :
                  DOMAIN Pushed[m].kids = 1..Cardinality(DOMAIN Pushed[m].kids)
           /\ Dom!ListedByParent /\ Dom!ParentListsChild
  <1> DEFINE t == p.nodes
             N == Len(t)
  <1>1. /\ N \in Nat /\ 1 <= N /\ Document \in 1..N
        /\ \A n \in 1..N :
              /\ t[n].kids \in Seq(1..N) /\ t[n].parent \in 1..N \cup {NULL}
              /\ \A k \in ToSet(t[n].kids) : t[k].parent = n
              /\ t[n].parent # NULL => n \in ToSet(t[t[n].parent].kids)
              /\ ~IsContainer(t[n]) => t[n].kids = <<>>
        /\ t[Document].type = "document" /\ t[Document].parent = NULL
    BY DEF Whole, Document
  <1>2. /\ DoctypeTable = N + 1
        /\ \A n \in 1..N : Keeper(n) \in DOMAIN Pushed
        /\ \A n, k \in 1..N : Keeper(n) = Keeper(k) => n = k
        /\ Keeper(Document) = Document
        /\ \A n \in Copied : Pushed[Keeper(n)].kids = t[n].kids
        /\ \A n \in 1..N : IsContainer(t[n]) => Dom!implementsParentNode(Pushed[Keeper(n)])
        /\ \A m \in DOMAIN Pushed : Pushed[m].kids # <<>> => \E n \in 1..N : m = Keeper(n)
        /\ \A m \in DOMAIN Pushed : Pushed[m].parent # NULL => m \in Copied /\ t[m].parent # NULL
        /\ \A n \in Copied :
              /\ Pushed[n].type \in {"element", "text"}
              /\ t[n].parent # NULL => Pushed[n].parent = Keeper(t[n].parent)
        /\ p.has_doctype => Pushed[DoctypeTable].type = "doctype"
        /\ Pushed[Document].type = "document"
    BY PushedLists
  <1>3. \A n \in 1..N :
           /\ Pushed[Keeper(n)].kids \in Seq(1..(N + 1)) /\ IsInjective(Pushed[Keeper(n)].kids)
           /\ \A m \in ToSet(Pushed[Keeper(n)].kids) :
                 \/ m \in ToSet(t[n].kids)
                 \/ m = DoctypeTable /\ p.has_doctype /\ n = Document
           /\ \A m \in ToSet(t[n].kids) : m \in ToSet(Pushed[Keeper(n)].kids)
    BY PushedKids
  <1> HIDE DEF t, N
  <1>4. Copied = (1..N) \ {Document}
    BY DEF N, t
  <1>5. ASSUME NEW n \in 1..N, NEW m \in ToSet(Pushed[Keeper(n)].kids)
        PROVE  \/ /\ m \in Copied /\ t[m].parent = n /\ Pushed[m].parent = Keeper(n)
                  /\ Pushed[m].type \in {"element", "text"}
               \/ m = DoctypeTable /\ p.has_doctype /\ n = Document /\ Pushed[m].type = "doctype"
    <2>1. CASE m \in ToSet(t[n].kids)
      <3>1. m \in 1..N
        <4>1. t[n].kids \in Seq(1..N)
          BY <1>1
        <4>2. \A S : \A s \in Seq(S) : ToSet(s) \subseteq S
          BY DEF ToSet
        <4> QED
          BY ONLY <2>1, <4>1, <4>2
      <3>2. t[m].parent = n /\ n # NULL
        BY <1>1, <2>1 DEF NULL
      <3>3. m # Document
        BY <1>1, <3>2
      <3> QED
        BY <1>2, <1>4, <3>1, <3>2, <3>3
    <2>2. CASE m = DoctypeTable /\ p.has_doctype /\ n = Document
      BY <1>2, <2>2
    <2> QED
      BY <1>3, <2>1, <2>2
  <1>6. \A m \in Copied : m \in 1..N /\ m # DoctypeTable
    <2>1. N \in Nat /\ DoctypeTable = N + 1
      BY <1>1, <1>2
    <2>2. \A m \in 1..N : m # DoctypeTable
      BY ONLY <2>1
    <2> QED
      BY <1>4, <2>2
  <1>7. ASSUME NEW m \in DOMAIN Pushed
        PROVE  DOMAIN Pushed[m].kids = 1..Cardinality(DOMAIN Pushed[m].kids)
    <2>1. CASE Pushed[m].kids = <<>>
      <3>1. <<>> \in Seq({})
        OBVIOUS
      <3> QED
        BY <2>1, <3>1, ArrayDomain
    <2>2. CASE Pushed[m].kids # <<>>
      <3>1. Pushed[m].kids \in Seq(1..(N + 1))
        BY <1>2, <1>3, <2>2
      <3> QED
        BY <3>1, ArrayDomain
    <2> QED
      BY <2>1, <2>2
  <1>8. Dom!ParentListsChild
    <2> SUFFICES ASSUME NEW m \in DOMAIN Pushed, Pushed[m].parent # NULL
                 PROVE  m \in ToSet(Pushed[Pushed[m].parent].kids)
      BY DEF Dom!ParentListsChild, Dom!Nodes, Dom!ToSet, ToSet, Dom!NULL, NULL
    <2>1. m \in Copied /\ t[m].parent # NULL /\ m \in 1..N
      BY <1>2, <1>6
    <2>2. t[m].parent \in 1..N /\ m \in ToSet(t[t[m].parent].kids)
      BY <1>1, <2>1
    <2> QED
      BY <1>2, <1>3, <2>1, <2>2
  <1>9. Dom!Listed(Pushed)
    <2> SUFFICES ASSUME NEW x \in DOMAIN Pushed
                 PROVE  /\ IsInjective(Pushed[x].kids)
                        /\ Pushed[x].kids # <<>> => Dom!implementsParentNode(Pushed[x])
                        /\ \A m \in ToSet(Pushed[x].kids) :
                              /\ Dom!implementsChildNode(Pushed[m])
                              /\ IF Pushed[m].type = "doctype" THEN Pushed[x].type = "document"
                                 ELSE Pushed[m].parent = x
                        /\ \A k \in DOMAIN Pushed \ {x} :
                              ToSet(Pushed[x].kids) \cap ToSet(Pushed[k].kids) = {}
      BY DEF Dom!Listed, Dom!ToSet, ToSet, Dom!IsInjective, IsInjective
    <2>1. CASE Pushed[x].kids = <<>>
      <3>1. DOMAIN <<>> = {}
        OBVIOUS
      <3>2. IsInjective(Pushed[x].kids) /\ ToSet(Pushed[x].kids) = {}
        BY <2>1, <3>1, Zenon DEF IsInjective, ToSet
      <3> QED
        BY <2>1, <3>2
    <2>2. CASE Pushed[x].kids # <<>>
      <3>1. PICK n \in 1..N : x = Keeper(n)
        BY <1>2, <2>2
      <3>2. IsInjective(Pushed[x].kids)
        BY <1>3, <3>1
      <3>3. Dom!implementsParentNode(Pushed[x])
        <4>1. CASE IsContainer(t[n])
          BY <1>2, <3>1, <4>1
        <4>2. CASE ~IsContainer(t[n])
          <5>1. n # Document
            BY <1>1, <4>2 DEF IsContainer
          <5>2. t[n].kids = <<>> /\ n \in Copied
            BY <1>1, <1>4, <4>2, <5>1
          <5> QED
            BY <1>2, <2>2, <3>1, <5>2
        <4> QED
          BY <4>1, <4>2
      <3>4. ASSUME NEW m \in ToSet(Pushed[x].kids)
            PROVE  /\ Dom!implementsChildNode(Pushed[m])
                   /\ IF Pushed[m].type = "doctype" THEN Pushed[x].type = "document"
                      ELSE Pushed[m].parent = x
        BY <1>2, <1>5, <3>1, <3>4 DEF Dom!implementsChildNode
      <3>5. ASSUME NEW k \in DOMAIN Pushed \ {x},
                   NEW m \in ToSet(Pushed[x].kids), m \in ToSet(Pushed[k].kids)
            PROVE  FALSE
        <4>1. Pushed[k].kids # <<>>
          <5>1. DOMAIN <<>> = {}
            OBVIOUS
          <5> QED
            BY <3>5, <5>1, Zenon DEF ToSet
        <4>2. PICK j \in 1..N : k = Keeper(j)
          BY <1>2, <4>1
        <4>3. m \in ToSet(Pushed[Keeper(n)].kids) /\ m \in ToSet(Pushed[Keeper(j)].kids)
          BY <3>1, <3>5, <4>2
        <4>4. n = j
          BY <1>5, <1>6, <4>3
        <4> QED
          BY <3>1, <4>2, <4>4
      <3> QED
        BY <3>2, <3>3, <3>4, <3>5
    <2> QED
      BY <2>1, <2>2
  <1>10. Dom!ListedByParent
    BY <1>9 DEF Dom!ListedByParent
  <1> QED
    BY <1>7, <1>8, <1>10

(***************************************************************************)
(* What push_document hands over of a parse that is over, in which no      *)
(* assertion has failed and nothing was freed: a DOM in which each node is *)
(* in one list, that of its parentNode, the doctype first, and with the    *)
(* children of the parsed tree.  Whatever the input was, and however the   *)
(* adoption agency and foster parenting moved the nodes about.             *)
(***************************************************************************)
THEOREM DomHandedOver == Spec => [](NoAssertFails /\ NothingFreed => DomMirrorsTree)
  <1>1. IInv => (NoAssertFails /\ NothingFreed => DomMirrorsTree)
    <2> SUFFICES ASSUME IInv, NoAssertFails, NothingFreed, status = "finished"
                 PROVE  DomMirrorsTree
      BY DEF DomMirrorsTree
    <2>1. /\ Whole(p.nodes, Len(p.nodes)) /\ p.has_doctype \in BOOLEAN
          /\ Copied = (1..Len(p.nodes)) \ {Document}
      BY TableWhole
    <2>2. /\ \A t \in DOMAIN Pushed : DOMAIN Pushed[t].kids = 1..Cardinality(DOMAIN Pushed[t].kids)
          /\ Dom!ListedByParent /\ Dom!ParentListsChild
      BY <2>1, CopyMirrors
    <2>3. /\ Pushed[Document].kids =
               (IF p.has_doctype THEN <<DoctypeTable>> ELSE <<>>) \o p.nodes[Document].kids
          /\ \A n \in Copied : Pushed[Keeper(n)].kids = p.nodes[n].kids
      BY <2>1, PushedLists
    <2> QED
      BY <2>2, <2>3 DEF DomMirrorsTree, Keeper
  <1> QED
    BY <1>1, InductiveInvariant, PTL

-----------------------------------------------------------------------------
(***************************************************************************)
(* The token's parts.                                                      *)
(*                                                                         *)
(* A token that owns heap-allocated parts must be taken, or released, once *)
(* and not twice, before the next one is read.  The helpers leave alone    *)
(* what this depends on: the modes, the flag that the token is to be       *)
(* reprocessed, and the one that it still owns its parts.                  *)
(***************************************************************************)
\* The assertions about the token's parts.
Freeing == {"token freed twice", "start tag not released"}

ControlFields ==
    {"mode", "orig", "tmodes", "reprocess", "owned", "ctx", "failed", "nodes", "open", "lexer"}
Control(q)    == <<q.mode, q.orig, q.tmodes, q.reprocess, q.owned, q.ctx>>

\* The control fields have one of the values K, and neither assertion has failed.
Under(q, K) ==
    /\ ControlFields \subseteq DOMAIN q
    /\ Control(q) \in K
    /\ q.failed \notin Freeing

\* The other fields can take any value.
LEMMA UnderSet ==
    ASSUME NEW K, NEW q, Under(q, K), NEW x
    PROVE  /\ Under([q EXCEPT !.nodes = x], K) /\ Under([q EXCEPT !.root = x], K)
           /\ Under([q EXCEPT !.open = x], K) /\ Under([q EXCEPT !.afe = x], K)
           /\ Under([q EXCEPT !.head = x], K) /\ Under([q EXCEPT !.form = x], K)
           /\ Under([q EXCEPT !.fok = x], K) /\ Under([q EXCEPT !.ignoreLF = x], K)
           /\ Under([q EXCEPT !.foster = x], K) /\ Under([q EXCEPT !.pending = x], K)
           /\ Under([q EXCEPT !.quirks = x], K) /\ Under([q EXCEPT !.has_doctype = x], K)
           /\ Under([q EXCEPT !.lexer = x], K) /\ Under([q EXCEPT !.rawtag = x], K)
  BY DEF Under, Control, ControlFields

\* assert() keeps the control fields, and one of the others may fail.
LEMMA UnderRequire ==
    ASSUME NEW K, NEW q, Under(q, K), NEW r, Under(r, K), NEW cond, NEW label, label \notin Freeing
    PROVE  Under(Require(q, cond, label, r), K)
  BY DEF Under, Control, ControlFields, Require

\* A fresh node, and a node that is hung up or taken down.
LEMMA UnderTable ==
    ASSUME NEW K, NEW q, Under(q, K), NEW x, NEW n, NEW parent, NEW loc
    PROVE  /\ Under(Create(q, x), K)
           /\ Under(AppendTo(q, parent, n), K)
           /\ Under(InsertAtLocation(q, n, loc), K)
           /\ Under(Detach(q, n), K)
  <1>1. Under(Create(q, x), K)
    BY UnderSet DEF Create
  <1>2. Under(AppendTo(q, parent, n), K)
    BY UnderSet, UnderRequire DEF AppendTo, Freeing
  <1>3. Under(InsertAtLocation(q, n, loc), K)
    BY UnderSet, UnderRequire DEF InsertAtLocation, Freeing
  <1>4. Under(Detach(q, n), K)
    BY UnderSet, UnderRequire DEF Detach, Freeing
  <1> QED
    BY <1>1, <1>2, <1>3, <1>4

\* maybe_flush_text_node_buffer.
LEMMA UnderFlush ==
    ASSUME NEW K, NEW q, Under(q, K)
    PROVE  Under(maybe_flush_text_node_buffer(q), K)
  <1> DEFINE loc  == get_appropriate_insertion_location(q, NULL)
             text == NewNode(q.pending.type, "none", "", q.pending.chars)
             e    == [q EXCEPT !.pending = NoText]
             r    == Create(e, text)
             s    == InsertAtLocation(r, NextId(q), loc)
  <1>1. maybe_flush_text_node_buffer(q) =
           IF q.pending.chars = {} THEN q ELSE IF loc.target = Document THEN e ELSE s
    BY DEF maybe_flush_text_node_buffer
  <1>2. Under(e, K)
    BY UnderSet
  <1> HIDE DEF loc, text, e
  <1>3. Under(r, K)
    BY <1>2, UnderTable
  <1> HIDE DEF r
  <1>4. Under(s, K)
    BY <1>3, UnderTable
  <1> QED
    BY <1>1, <1>2, <1>4

\* Elements are popped.
LEMMA UnderPopTo ==
    ASSUME NEW K, NEW q, Under(q, K), NEW n
    PROVE  Under(PopTo(q, n), K)
  <1> DEFINE r == maybe_flush_text_node_buffer(q)
             s == [r EXCEPT !.open = SubSeq(@, 1, n)]
  <1>1. Under(r, K)
    BY UnderFlush
  <1>2. PopTo(q, n) = IF n >= Len(q.open) THEN q ELSE s
    BY DEF PopTo
  <1> HIDE DEF r
  <1>3. Under(s, K)
    BY <1>1, UnderSet
  <1> QED
    BY <1>2, <1>3

\* pop_current_node, and the loops that pop until, or through, an element.
LEMMA UnderPop ==
    ASSUME NEW K, NEW q, Under(q, K), NEW cond, NEW n
    PROVE  /\ Under(pop_current_node(q), K)
           /\ Under(Require(q, cond, "pop: stack exhausted", PopTo(q, n)), K)
  <1>1. \A m : Under(PopTo(q, m), K)
    BY UnderPopTo
  <1>2. Under(pop_current_node(q), K)
    BY <1>1, UnderRequire DEF pop_current_node, Freeing
  <1>3. Under(Require(q, cond, "pop: stack exhausted", PopTo(q, n)), K)
    BY <1>1, UnderRequire DEF Freeing
  <1> QED
    BY <1>2, <1>3

LEMMA UnderPopLoops ==
    ASSUME NEW K, NEW q, Under(q, K), NEW tag, NEW tags
    PROVE  /\ Under(PopThroughTag(q, tag), K)
           /\ Under(ClearStackTo(q, tags), K)
           /\ Under(generate_implied_end_tags(q, tag), K)
           /\ Under(generate_all_implied_end_tags_thoroughly(q), K)
  <1>1. Under(PopThroughTag(q, tag), K)
    BY UnderPop DEF PopThroughTag, PopThrough
  <1>2. Under(ClearStackTo(q, tags), K)
    BY UnderPop DEF ClearStackTo, PopUntil
  <1>3. Under(generate_implied_end_tags(q, tag), K)
    BY UnderPop DEF generate_implied_end_tags, PopUntil
  <1>4. Under(generate_all_implied_end_tags_thoroughly(q), K)
    BY UnderPop DEF generate_all_implied_end_tags_thoroughly, PopUntil
  <1> QED
    BY <1>1, <1>2, <1>3, <1>4

\* implicitly_close_tags, and the calls that close a paragraph or a list item.
LEMMA UnderClose ==
    ASSUME NEW K, NEW q, Under(q, K), NEW ns, NEW tag, NEW tags
    PROVE  /\ Under(implicitly_close_tags(q, ns, tag), K)
           /\ Under(maybe_implicitly_close_p_tag(q), K)
           /\ Under(maybe_implicitly_close_list_tag(q, tags), K)
  <1>1. ASSUME NEW r, Under(r, K), NEW a, NEW b
        PROVE  Under(implicitly_close_tags(r, a, b), K)
    <2> DEFINE s == generate_implied_end_tags(r, b)
    <2>1. Under(s, K)
      BY <1>1, UnderPopLoops
    <2>2. implicitly_close_tags(r, a, b) = PopThrough(s, LAMBDA n : Name(r, n) = <<a, b>>)
      BY DEF implicitly_close_tags
    <2> HIDE DEF s
    <2> QED
      BY <2>1, <2>2, UnderPop DEF PopThrough
  <1>2. Under(maybe_implicitly_close_p_tag(q), K)
    BY <1>1 DEF maybe_implicitly_close_p_tag
  <1>3. Under(maybe_implicitly_close_list_tag(q, tags), K)
    <2> DEFINE r == [q EXCEPT !.fok = FALSE]
    <2>1. Under(r, K)
      BY UnderSet
    <2>2. \E n : maybe_implicitly_close_list_tag(q, tags) \in {implicitly_close_tags(r, "html", n), r}
      BY DEF maybe_implicitly_close_list_tag
    <2> HIDE DEF r
    <2> QED
      BY <1>1, <2>1, <2>2
  <1> QED
    BY <1>1, <1>2, <1>3

\* insert_element, whether the text is flushed before or not.
LEMMA UnderInsert ==
    ASSUME NEW K, NEW q, Under(q, K), NEW node
    PROVE  /\ Under(insert_element(q, node, TRUE), K)
           /\ Under(insert_element(q, node, FALSE), K)
  <1>1. ASSUME NEW r, Under(r, K)
        PROVE  Under([InsertAtLocation(Create(r, node), NextId(r),
                         get_appropriate_insertion_location(Create(r, node), NULL))
                         EXCEPT !.open = Append(@, NextId(r))], K)
    <2> DEFINE c == Create(r, node)
               loc == get_appropriate_insertion_location(c, NULL)
               s == InsertAtLocation(c, NextId(r), loc)
    <2>1. Under(c, K)
      BY <1>1, UnderTable
    <2> HIDE DEF c, loc
    <2>2. Under(s, K)
      BY <2>1, UnderTable
    <2> HIDE DEF s
    <2>3. Under([s EXCEPT !.open = Append(@, NextId(r))], K)
      BY <2>2, UnderSet
    <2> QED
      BY <2>3 DEF s, c, loc
  <1>2. Under(maybe_flush_text_node_buffer(q), K)
    BY UnderFlush
  <1> QED
    BY <1>1, <1>2 DEF insert_element

LEMMA UnderInsertTag ==
    ASSUME NEW K, NEW q, Under(q, K), NEW tag
    PROVE  Under(insert_element_of_tag_type(q, tag), K)
  BY UnderInsert DEF insert_element_of_tag_type

\* The text buffer takes a token.
LEMMA UnderText ==
    ASSUME NEW K, NEW q, Under(q, K), NEW t
    PROVE  Under(insert_text_token(q, t), K)
  BY DEF insert_text_token, Under, Control, ControlFields

\* The list of active formatting elements.
LEMMA UnderList ==
    ASSUME NEW K, NEW q, Under(q, K), NEW n
    PROVE  /\ Under(PushMarker(q), K)
           /\ Under(clear_active_formatting_elements(q), K)
           /\ Under(add_formatting_element(q, n), K)
  <1>1. Under(PushMarker(q), K)
    BY UnderSet DEF PushMarker
  <1>2. Under(clear_active_formatting_elements(q), K)
    BY UnderSet DEF clear_active_formatting_elements
  <1>3. Under(add_formatting_element(q, n), K)
    BY UnderSet DEF add_formatting_element
  <1> QED
    BY <1>1, <1>2, <1>3

\* destroy_node.
LEMMA UnderDestroy ==
    ASSUME NEW K, NEW q, Under(q, K), NEW n
    PROVE  Under(Destroy(q, n), K)
  <1>1. \A u : Under([q EXCEPT !.nodes = u], K)
    BY UnderSet
  <1> QED
    BY <1>1, UnderRequire DEF Destroy, Freeing

\* reconstruct_active_formatting_elements.
LEMMA UnderReconstruct ==
    ASSUME NEW K, NEW q, Good(q), Under(q, K)
    PROVE  Under(Reconstruct(q), K)
  <1> DEFINE T == Reopening(Len(q.afe), ClosedFrom(q))
             W == {s \in T : Under(s, K)}
  <1>1. Len(q.afe) \in Nat /\ ClosedFrom(q) \in 1..(Len(q.afe) + 1) /\ q \in T
    BY ReconstructStarts
  <1>2. \A i \in ClosedFrom(q)..Len(q.afe) : \A s \in T : Reopen(s, i) \in T
    BY <1>1, ReopenTyped
  <1>3. ASSUME NEW s, Under(s, K), NEW i PROVE Under(Reopen(s, i), K)
    <2> DEFINE r == insert_element(s, clone_node(s, s.afe[i]), TRUE)
    <2>1. Under(r, K)
      BY <1>3, UnderInsert
    <2>2. Reopen(s, i) = [r EXCEPT !.afe = [r.afe EXCEPT ![i] = NextId(s)]]
      BY DEF Reopen
    <2> HIDE DEF r
    <2>3. \A x : Under([r EXCEPT !.afe = x], K)
      BY <2>1, UnderSet
    <2> QED
      BY <2>2, <2>3
  <1> HIDE DEF T
  <1>4. q \in W /\ \A i \in ClosedFrom(q)..Len(q.afe) : \A s \in W : Reopen(s, i) \in W
    BY <1>1, <1>2, <1>3
  <1> HIDE DEF W
  <1>5. reconstruct_active_formatting_elements(q) \in W
    BY <1>4, ReconstructStays
  <1> QED
    BY <1>5 DEF Reconstruct, W

-----------------------------------------------------------------------------
(***************************************************************************)
(* The adoption agency algorithm.                                          *)
(***************************************************************************)
\* The parser state after each change of the inner loop's local variables.
LEMMA StateOfLoop ==
    ASSUME NEW s, "p" \in DOMAIN s
    PROVE  /\ \A node, at, k : /\ "p" \in DOMAIN Advance(s, node, at, k)
                               /\ Advance(s, node, at, k).p = s.p
           /\ Finish(s).p = s.p
           /\ \A q : Halt(s, q).p = q /\ WithState(s, q).p = q
           /\ \A q, b : WithMark(s, q, b).p = q
           /\ \A q, c, b : WithClone(s, q, c, b).p = q
  BY DEF Advance, Halt, Finish, WithState, WithMark, WithClone

\* A clone takes a node's place.
LEMMA UnderCloned ==
    ASSUME NEW K, NEW q, Under(q, K), NEW node, NEW last, NEW at, NEW i
    PROVE  Under(Cloned(q, node, last, at, i), K)
  <1> DEFINE c == NextId(q)
             a == Create(q, clone_node(q, node))
             b == PutEntry(a, i, c)
             r == PutOpen(b, at, c)
             d == Detach(r, last)
  <1>1. Under(a, K)
    BY UnderTable
  <1> HIDE DEF a
  <1>2. b = [a EXCEPT !.afe = [a.afe EXCEPT ![i] = c]]
    BY DEF PutEntry
  <1>3. r = [b EXCEPT !.open = [b.open EXCEPT ![at] = c]]
    BY DEF PutOpen
  <1>4. Under(b, K)
    <2>1. \A x : Under([a EXCEPT !.afe = x], K)
      BY <1>1, UnderSet
    <2> HIDE DEF b
    <2> QED
      BY <1>2, <2>1
  <1> HIDE DEF b
  <1>5. Under(r, K)
    <2>1. \A x : Under([b EXCEPT !.open = x], K)
      BY <1>4, UnderSet
    <2> HIDE DEF r
    <2> QED
      BY <1>3, <2>1
  <1> HIDE DEF r
  <1>6. Under(d, K)
    BY <1>5, UnderTable
  <1> HIDE DEF d
  <1>7. Under(AppendTo(d, c, last), K)
    BY <1>6, UnderTable
  <1>8. Cloned(q, node, last, at, i) = AppendTo(d, c, last)
    BY DEF Cloned, d, r, b, a
  <1> QED
    BY <1>7, <1>8

\* A turn of the inner loop.
LEMMA UnderClimb ==
    ASSUME NEW K, NEW s \in Locals, Under(s.p, K), NEW formatting, NEW block
    PROVE  Under(ClimbStack(s, formatting, block).p, K)
  <1> DEFINE at == (IF is_open_element(s.p, s.node) THEN PositionIn(s.p.open, s.node)
                    ELSE s.saved) - 1
             node == s.p.open[at]
             i    == PositionIn(s.p.afe, node)
             r    == Advance(s, node, at, s.round + 1)
             f    == Require(s.p, FALSE, "adoption agency step 13.3", s.p)
             b    == [r.p EXCEPT !.open = RemoveAt(@, at)]
             c    == [r.p EXCEPT !.afe = RemoveAt(@, i)]
             d    == Cloned(r.p, r.node, r.last, at, i)
  <1>1. ClimbStack(s, formatting, block) =
          IF s.done THEN s
          ELSE IF at <= 1 \/ s.p.nodes[node].parent = NULL THEN Halt(s, f)
          ELSE CASE node = formatting                            -> Finish(r)
                 [] node # formatting /\ i = 0                   -> WithState(r, b)
                 [] node # formatting /\ i # 0 /\ r.round > 3    -> ForgetFormatting(r, i)
                 [] node # formatting /\ i # 0 /\ r.round <= 3   -> ReplaceByClone(r, at, i, block)
    BY ClimbArms
  <1>0. "p" \in DOMAIN s /\ s.round + 1 \in Nat
    BY DEF Locals
  <1>2. "p" \in DOMAIN r /\ r.p = s.p
    <2> HIDE DEF at, node
    <2> QED
      BY <1>0, StateOfLoop
  <1>3. r.round > 3 \/ r.round <= 3
    <2> HIDE DEF at, node
    <2>1. r.round = s.round + 1
      BY DEF r, Advance, Locals
    <2> QED
      BY <1>0, <2>1
  <1> HIDE DEF r, at, node, i
  <1>4. Under(f, K) /\ Under(b, K) /\ Under(c, K) /\ Under(d, K)
    <2>1. Under(f, K)
      BY UnderRequire DEF Freeing
    <2>2. Under(b, K) /\ Under(c, K)
      BY <1>2, UnderSet
    <2>3. Under(d, K)
      BY <1>2, UnderCloned
    <2> QED
      BY <2>1, <2>2, <2>3
  <1>5. /\ ForgetFormatting(r, i).p = c
        /\ ReplaceByClone(r, at, i, block).p = d
    <2>1. \A x, z : WithMark(r, x, z).p = x
      BY <1>2, StateOfLoop
    <2>4. \A x, y, z : WithClone(r, x, y, z).p = x
      BY <1>2, StateOfLoop
    <2>2. ForgetFormatting(r, i).p = c
      BY <2>1, ForgetIs
    <2>3. ReplaceByClone(r, at, i, block).p = d
      BY <2>4, CloneIs
    <2> QED
      BY <2>2, <2>3
  <1>6. Halt(s, f).p = f /\ Finish(r).p = r.p /\ WithState(r, b).p = b
    <2>1. Halt(s, f).p = f
      BY <1>0, StateOfLoop
    <2>2. Finish(r).p = r.p /\ WithState(r, b).p = b
      BY <1>2, StateOfLoop
    <2> QED
      BY <2>1, <2>2
  <1> HIDE DEF f, b, c, d
  <1> QED
    BY <1>1, <1>2, <1>3, <1>4, <1>5, <1>6

\* What follows the inner loop.
LEMMA UnderAdopted ==
    ASSUME NEW K, NEW s, Under(s.p, K), NEW formatting, NEW block, NEW ancestor
    PROVE  Under(Adopted(s, formatting, block, ancestor), K)
  <1> DEFINE q == Detach(s.p, s.last)
             loc == get_appropriate_insertion_location(q, ancestor)
             r == InsertAtLocation(q, s.last, loc)
             c == NextId(r)
             u == Create(r, clone_node(r, formatting))
             moved == Settled(move_children(u.nodes, block, c))
             w == [u EXCEPT !.nodes = moved]
             v == AppendTo(w, block, c)
             at == PositionIn(v.afe, formatting)
             afe == ReplaceInList(v.afe, at, s.bookmark, c)
             open == ReplaceOnStack(v.open, formatting, block, c)
             e == [v EXCEPT !.afe = afe]
  <1>1. Adopted(s, formatting, block, ancestor) =
           Require(v, at # 0, "adoption agency step 18", [e EXCEPT !.open = open])
    BY DEF Adopted
  <1>2. Under(q, K)
    BY UnderTable
  <1> HIDE DEF q, loc
  <1>3. Under(r, K)
    BY <1>2, UnderTable
  <1> HIDE DEF r
  <1>4. Under(u, K)
    BY <1>3, UnderTable
  <1> HIDE DEF u, c, moved
  <1>5. Under(w, K)
    BY <1>4, UnderSet
  <1> HIDE DEF w
  <1>6. Under(v, K)
    BY <1>5, UnderTable
  <1> HIDE DEF v, at, afe, open
  <1>7. Under(e, K)
    BY <1>6, UnderSet
  <1> HIDE DEF e
  <1>8. Under([e EXCEPT !.open = open], K)
    BY <1>7, UnderSet
  <1> QED
    BY <1>1, <1>6, <1>8, UnderRequire DEF Freeing

LEMMA UnderAdoptBlock ==
    ASSUME NEW K, NEW q, Good(q), Under(q, K), NEW inList \in 1..Len(q.afe),
           NEW inStack \in 1..Len(q.open), NEW blockAt \in 1..Len(q.open)
    PROVE  Under(AdoptBlock(q, inList, inStack, blockAt), K)
  <1> DEFINE E == Elems(q)
             formatting == q.open[inStack]
             block == q.open[blockAt]
             ancestor == q.open[inStack - 1]
             start == Climber(q, block, block, blockAt, inList, 0, FALSE)
             s == Climbed(q, formatting, block, start)
             W == {x \in Climbs(E) : Under(x.p, K)}
  <1>1. Len(q.open) \in Nat /\ Len(q.afe) \in Nat /\ q.open \in Seq(E)
    BY GoodFacts
  <1>2. formatting \in E /\ block \in E
    <2> HIDE DEF E
    <2> QED
      BY <1>1, ElementOfSeq
  <1>3. AdoptBlock(q, inList, inStack, blockAt) = Adopted(s, formatting, block, ancestor)
    BY AdoptBlockIs
  <1> HIDE DEF formatting, block, ancestor
  <1>4. CanClimb(E, q, block, block, blockAt, inList)
    BY <1>1, <1>2 DEF CanClimb
  <1> HIDE DEF E
  <1>5. start \in Climbs(E)
    BY <1>4, ClimberTyped
  <1>6. start.p = q
    BY DEF Climber
  <1> HIDE DEF start
  <1>7. start \in W
    BY <1>5, <1>6
  <1>8. ASSUME NEW x \in W PROVE ClimbStack(x, formatting, block) \in W
    <2>1. x \in Climbs(E) /\ Under(x.p, K)
      OBVIOUS
    <2>2. x \in Locals
      BY <2>1 DEF Climbs, Locals
    <2> QED
      BY <2>1, <2>2, ClimbTyped, UnderClimb
  <1> HIDE DEF W
  <1>9. s \in W
    BY <1>7, <1>8, ClimbedStays
  <1> HIDE DEF s
  <1>10. Under(s.p, K)
    BY <1>9 DEF W
  <1> QED
    BY <1>3, <1>10, UnderAdopted

\* A turn of the outer loop.
LEMMA UnderAdoptOnce ==
    ASSUME NEW K, NEW q, Good(q), Under(q, K), NEW subject
    PROVE  Under(AdoptOnce(q, subject).p, K)
  <1> DEFINE found     == FormattingOf(q, subject)
             inList    == Max(found)
             formatting == q.afe[inList]
             inStack   == PositionIn(q.open, formatting)
             I == {i \in inStack..Len(q.open) : Name(q, q.open[i]) \in Special}
             blockAt == Lowest(I)
             forgotten == [q EXCEPT !.afe = RemoveFirst(@, formatting)]
             popped == PopTo(forgotten, inStack - 1)
             adopted == AdoptBlock(q, inList, inStack, blockAt)
  <1>1. AdoptOnce(q, subject) =
          IF found = {} THEN [p |-> q, done |-> TRUE]
          ELSE IF inStack = 0 THEN [p |-> forgotten, done |-> TRUE]
          ELSE IF ~InDefaultScope(q, {subject}) THEN [p |-> q, done |-> TRUE]
          ELSE IF blockAt = 0 THEN [p |-> popped, done |-> TRUE]
          ELSE [p |-> adopted, done |-> FALSE]
    BY DEF AdoptOnce, SelectInSubSeq, Lowest
  <1>2. /\ q.afe \in Seq(Elems(q) \cup {Marker}) /\ Len(q.afe) \in Nat
        /\ q.open \in Seq(Elems(q)) /\ Len(q.open) \in Nat
    BY GoodFacts
  <1>3. inStack \in 0..Len(q.open)
    BY <1>2, PositionTyped
  <1>4. Under(forgotten, K)
    BY UnderSet
  <1> HIDE DEF forgotten
  <1>5. Under(popped, K)
    BY <1>4, UnderPopTo
  <1> HIDE DEF popped
  <1>6. ASSUME found # {}, inStack # 0, blockAt # 0 PROVE Under(adopted, K)
    <2>1. found \in SUBSET (1..Len(q.afe))
      BY <1>2, LastMarkerTyped DEF FormattingOf
    <2> HIDE DEF found
    <2>2. inList \in 1..Len(q.afe)
      BY <1>2, <1>6, <2>1, MaxOfPositions
    <2> HIDE DEF inList, formatting, inStack
    <2>3. I \in SUBSET (1..Len(q.open)) /\ inStack \in 1..Len(q.open)
      BY <1>2, <1>3, <1>6
    <2> HIDE DEF I
    <2>4. blockAt \in 1..Len(q.open)
      BY <1>2, <1>6, <2>3, HighestTyped
    <2> HIDE DEF blockAt
    <2> QED
      BY <2>2, <2>3, <2>4, UnderAdoptBlock
  <1> HIDE DEF found, inList, formatting, inStack, I, blockAt, adopted
  <1> QED
    BY <1>1, <1>4, <1>5, <1>6

\* adoption_agency_algorithm, whatever the tag.
LEMMA UnderAdoption ==
    ASSUME NEW K, NEW q, Good(q), Under(q, K), NEW subject
    PROVE  Under(adoption_agency_algorithm(q, subject), K)
  <1> DEFINE W == {s \in Rounds : Under(s.p, K)}
  <1>1. [p |-> q, done |-> FALSE] \in W
    BY RoundTyped
  <1>2. ASSUME NEW s \in W PROVE Round(s, subject) \in W
    <2>1. s \in Rounds /\ Good(s.p) /\ Under(s.p, K)
      BY DEF Rounds
    <2>2. Round(s, subject) \in Rounds
      BY <2>1, RoundGood
    <2>3. Under(AdoptOnce(s.p, subject).p, K)
      BY <2>1, UnderAdoptOnce
    <2> QED
      BY <2>1, <2>2, <2>3 DEF Round
  <1> HIDE DEF W
  <1>3. Adoptions(q, subject) \in W
    BY <1>1, <1>2, AdoptionsStay
  <1>4. Under(Adoptions(q, subject).p, K)
    BY <1>3 DEF W
  <1>5. Under(pop_current_node(q), K)
    BY UnderPop
  <1>6. adoption_agency_algorithm(q, subject) \in {pop_current_node(q), Adoptions(q, subject).p}
    BY DEF adoption_agency_algorithm, Adoptions
  <1> QED
    BY <1>4, <1>5, <1>6

-----------------------------------------------------------------------------
(***************************************************************************)
(* What a handler may make of the state it gets with a token.              *)
(***************************************************************************)
NotText == Modes \ {"text"}

\* The token owns heap-allocated parts when the tokenizer delivers it.
Own(t) == t.type \in OwningTypes

\* The control fields in one of the modes M, the token in state o, to be reprocessed or not.
Controls(M, again, o) == M \X NotText \X Seq(NotText) \X {again} \X {o} \X {NULL}

\* The parser of a document rests in a mode other than "text"; o says whether a token is owned.
Calm(q, o) == Under(q, Controls(NotText, FALSE, o))

\* The token is to be reprocessed, and nothing of it is gone.
Again(q, t) == Under(q, Controls(NotText, TRUE, Own(t)))

\* An assertion has failed: the program is over.
Stuck(q) == ControlFields \subseteq DOMAIN q /\ q.failed \notin Freeing \cup {""}

\* The text of an HTML element is read, and only its end tag or the end of the input follow it.
Reads(q) ==
    /\ Under(q, Controls({"text"}, FALSE, FALSE))
    /\ q.lexer \in {"rcdata", "rawtext", "script"}
    /\ q.open # <<>> /\ q.nodes[Last(q.open)].ns = "html"

\* A handler has the token taken or released, or the token comes again as it was.
Disposed(q, t) == Calm(q, FALSE) \/ Again(q, t) \/ Stuck(q) \/ Reads(q)

\* The state a handler gets with a token.
Ready(q, t) == Good(q) /\ Calm(q, Own(t))

\* The control fields one by one.
LEMMA ControlsAre ==
    ASSUME NEW q, NEW M, NEW again, NEW o
    PROVE  Under(q, Controls(M, again, o)) <=>
             /\ ControlFields \subseteq DOMAIN q
             /\ q.mode \in M /\ q.orig \in NotText /\ q.tmodes \in Seq(NotText)
             /\ q.reprocess = again /\ q.owned = o /\ q.ctx = NULL
             /\ q.failed \notin Freeing
  BY DEF Under, Controls, Control

\* The modes are set, and the token is to come again.
LEMMA CalmModes ==
    ASSUME NEW q, NEW o, Calm(q, o), NEW m \in NotText, NEW s \in Seq(NotText)
    PROVE  /\ Calm([q EXCEPT !.mode = m], o)
           /\ Calm([q EXCEPT !.orig = m], o)
           /\ Calm([q EXCEPT !.tmodes = s], o)
           /\ Calm([q EXCEPT !.owned = FALSE], FALSE)
           /\ Calm(SetMode(q, m), o)
           /\ Calm(TakeToken(q), FALSE)
  BY DEF Calm, Under, Controls, Control, ControlFields, SetMode, TakeToken

LEMMA CalmAgain ==
    ASSUME NEW q, NEW t, Calm(q, Own(t)), NEW m \in NotText
    PROVE  /\ Again([q EXCEPT !.reprocess = TRUE], t)
           /\ Again(Reprocess(q, m), t)
  BY DEF Calm, Again, Under, Controls, Control, ControlFields, Reprocess

LEMMA AgainModes ==
    ASSUME NEW q, NEW t, Again(q, t), NEW m \in NotText, NEW s \in Seq(NotText)
    PROVE  /\ Again([q EXCEPT !.orig = m], t)
           /\ Again([q EXCEPT !.tmodes = s], t)
  BY DEF Again, Under, Controls, Control, ControlFields

\* ignore_token, on a token that is whole.
LEMMA CalmIgnore ==
    ASSUME NEW q, NEW t, Calm(q, Own(t))
    PROVE  Calm(ignore_token(q, t), FALSE)
  <1>1. q.owned = Own(t)
    BY DEF Calm, Under, Controls, Control
  <1>2. ignore_token(q, t) = [q EXCEPT !.owned = FALSE]
    BY <1>1 DEF ignore_token, Require, Own
  <1>3. "in_body" \in NotText /\ <<>> \in Seq(NotText)
    BY DEF NotText, Modes
  <1> QED
    BY <1>2, <1>3, CalmModes

\* The token becomes an element, a comment or attributes.
LEMMA CalmTake ==
    ASSUME NEW q, NEW o, Calm(q, o), NEW t, NEW n, NEW ns
    PROVE  /\ Calm(insert_element_from_token(q, t), FALSE)
           /\ Calm(insert_foreign_element(q, t, ns), FALSE)
           /\ Calm(append_comment_node(q, n), FALSE)
           /\ Calm(merge_attributes(q, t, n), FALSE)
  <1>0. "in_body" \in NotText /\ <<>> \in Seq(NotText)
    BY DEF NotText, Modes
  <1>1. ASSUME NEW r, Calm(r, o) PROVE Calm(TakeToken(r), FALSE)
    BY <1>0, <1>1, CalmModes
  <1>2. Calm(insert_element_from_token(q, t), FALSE)
    <2>1. Calm(insert_element(q, create_element_from_token(t, "html"), FALSE), o)
      BY UnderInsert DEF Calm
    <2> QED
      BY <1>1, <2>1 DEF insert_element_from_token
  <1>3. Calm(insert_foreign_element(q, t, ns), FALSE)
    <2>1. Calm(insert_element(q, create_element_from_token(t, ns), FALSE), o)
      BY UnderInsert DEF Calm
    <2> QED
      BY <1>1, <2>1 DEF insert_foreign_element
  <1>4. Calm(append_comment_node(q, n), FALSE)
    <2> DEFINE f == maybe_flush_text_node_buffer(q)
               c == Create(f, NewNode("comment", "none", "", {}))
    <2>1. Calm(f, o)
      BY UnderFlush DEF Calm
    <2> HIDE DEF f
    <2>2. Calm(c, o)
      BY <2>1, UnderTable DEF Calm
    <2> HIDE DEF c
    <2>3. Calm(AppendTo(c, n, NextId(f)), o)
      BY <2>2, UnderTable DEF Calm
    <2> QED
      BY <1>1, <2>3 DEF append_comment_node, c, f
  <1>5. Calm(merge_attributes(q, t, n), FALSE)
    <2> DEFINE u == [q.nodes EXCEPT ![n].data = @ \cup t.data]
    <2>1. merge_attributes(q, t, n) = TakeToken([q EXCEPT !.nodes = u])
      BY DEF merge_attributes
    <2> HIDE DEF u
    <2>2. Calm([q EXCEPT !.nodes = u], o)
      BY UnderSet DEF Calm
    <2> QED
      BY <1>1, <2>1, <2>2
  <1> QED
    BY <1>2, <1>3, <1>4, <1>5

\* Whatever the element is, the mode chosen for it is not "text".
LEMMA AppropriateModeCalm ==
    ASSUME NEW q, q.tmodes \in Seq(NotText), NEW i
    PROVE  get_appropriate_insertion_mode(q, i) \in NotText
  <1> DEFINE m == get_current_template_insertion_mode(q)
  <1>1. m \in NotText
    <2>1. "initial" \in NotText
      BY DEF NotText, Modes
    <2> HIDE DEF NotText
    <2> QED
      BY <2>1, LastTyped DEF get_current_template_insertion_mode
  <1> HIDE DEF m
  <1>2. get_appropriate_insertion_mode(q, i) \in
          {m, "in_select", "in_select_in_table", "in_cell", "in_row", "in_table_body", "in_caption",
           "in_column_group", "in_table", "in_head", "in_body", "in_frameset", "after_head",
           "before_head", "initial"}
    BY DEF get_appropriate_insertion_mode, m
  <1> QED
    BY <1>1, <1>2 DEF Modes, NotText

\* reset_insertion_mode_appropriately, and what ends with it.
LEMMA CalmReset ==
    ASSUME NEW q, NEW o, Calm(q, o)
    PROVE  Calm(reset_insertion_mode_appropriately(q), o)
  <1>1. q.tmodes \in Seq(NotText)
    BY DEF Calm, Under, Controls, Control
  <1>2. \A i : Calm(SetMode(q, get_appropriate_insertion_mode(q, i)), o)
    BY <1>1, AppropriateModeCalm, CalmModes
  <1> QED
    BY <1>2, UnderRequire DEF reset_insertion_mode_appropriately, Calm, Freeing

LEMMA CalmCloses ==
    ASSUME NEW q, NEW o, Calm(q, o), NEW tag
    PROVE  /\ Calm(CloseTable(q), o)
           /\ Calm(close_current_select(q), o)
           /\ Calm(close_table_cell(q, tag), o)
           /\ Calm(close_current_cell(q), o)
  <1>1. \A a : Calm(PopThroughTag(q, a), o)
    BY UnderPopLoops DEF Calm
  <1>2. Calm(CloseTable(q), o) /\ Calm(close_current_select(q), o)
    BY <1>1, CalmReset DEF CloseTable, close_current_select
  <1>3. \A a : Calm(close_table_cell(q, a), o)
    <2> TAKE a
    <2> DEFINE g == generate_implied_end_tags(q, "")
               r == PopThroughTag(g, a)
               c == clear_active_formatting_elements(r)
    <2>1. Calm(g, o)
      BY UnderPopLoops DEF Calm
    <2> HIDE DEF g
    <2>2. Calm(r, o)
      BY <2>1, UnderPopLoops DEF Calm
    <2> HIDE DEF r
    <2>3. Calm(c, o)
      BY <2>2, UnderList DEF Calm
    <2> HIDE DEF c
    <2>4. "in_row" \in NotText /\ <<>> \in Seq(NotText)
      BY DEF NotText, Modes
    <2>5. Calm(SetMode(c, "in_row"), o)
      BY <2>3, <2>4, CalmModes
    <2> QED
      BY <2>5 DEF close_table_cell, c, r, g
  <1>4. Calm(close_current_cell(q), o)
    BY <1>3, UnderRequire DEF close_current_cell, Calm, Freeing
  <1> QED
    BY <1>2, <1>3, <1>4

-----------------------------------------------------------------------------
(***************************************************************************)
(* The element whose text is read.                                         *)
(***************************************************************************)
\* The nodes keep their namespace.
SpacesKept(t, u) ==
    DOMAIN u = DOMAIN t /\ \A k \in DOMAIN t : "ns" \in DOMAIN u[k] /\ u[k].ns = t[k].ns

LEMMA LinkKeepsSpaces ==
    ASSUME NEW t, \A k \in DOMAIN t : "ns" \in DOMAIN t[k], NEW n, NEW x
    PROVE  /\ SpacesKept(t, [t EXCEPT ![n].parent = x])
           /\ SpacesKept(t, [t EXCEPT ![n].idx = x])
           /\ SpacesKept(t, [t EXCEPT ![n].kids = x])
  BY DEF SpacesKept

LEMMA InsertKeepsSpaces ==
    ASSUME NEW t, \A k \in DOMAIN t : "ns" \in DOMAIN t[k], NEW n, NEW loc
    PROVE  SpacesKept(t, insert_node(t, n, loc))
  <1>1. ASSUME NEW parent PROVE SpacesKept(t, append_node(t, parent, n))
    <2> DEFINE a == [t EXCEPT ![n].parent = parent]
               b == [a EXCEPT ![n].idx = Len(t[parent].kids)]
               c == [b EXCEPT ![parent].kids = Append(@, n)]
    <2>1. append_node(t, parent, n) = c
      BY DEF append_node
    <2>2. SpacesKept(t, a)
      BY LinkKeepsSpaces
    <2> HIDE DEF a
    <2>3. SpacesKept(a, b)
      BY <2>2, LinkKeepsSpaces DEF SpacesKept
    <2> HIDE DEF b
    <2>4. SpacesKept(b, c)
      BY <2>3, LinkKeepsSpaces DEF SpacesKept
    <2> HIDE DEF c
    <2> QED
      BY <2>1, <2>2, <2>3, <2>4 DEF SpacesKept
  <1>2. CASE loc.index # -1
    <2> DEFINE kids == InsertAt(t[loc.target].kids, loc.index + 1, n)
               a == [t EXCEPT ![n].parent = loc.target]
               b == [a EXCEPT ![loc.target].kids = kids]
               c == Renumber(b, kids, loc.index + 1)
    <2>1. insert_node(t, n, loc) = c
      BY <1>2 DEF insert_node
    <2>2. SpacesKept(t, a)
      BY LinkKeepsSpaces
    <2> HIDE DEF a, kids
    <2>3. SpacesKept(a, b)
      BY <2>2, LinkKeepsSpaces DEF SpacesKept
    <2> HIDE DEF b
    <2>4. SpacesKept(b, c)
      BY <2>3 DEF SpacesKept, Renumber
    <2> HIDE DEF c
    <2> QED
      BY <2>1, <2>2, <2>3, <2>4 DEF SpacesKept
  <1> QED
    BY <1>1, <1>2 DEF insert_node

\* The element of a start tag is a new HTML element on top of the stack.
LEMMA InsertTokenTop ==
    ASSUME NEW q, Good(q), NEW t \in Tokens
    PROVE  LET r == insert_element_from_token(q, t)
           IN  \E n \in Nat : /\ n > Len(q.nodes) /\ r.nodes[n].ns = "html"
                              /\ r.open = Append(q.open, n)
  <1> DEFINE f == maybe_flush_text_node_buffer(q)
             x == create_element_from_token(t, "html")
             n == NextId(f)
             c == Create(f, x)
             loc == get_appropriate_insertion_location(c, NULL)
             s == InsertAtLocation(c, n, loc)
             u == insert_node(c.nodes, n, loc)
  <1>1. insert_element_from_token(q, t) = TakeToken([s EXCEPT !.open = Append(@, n)])
    BY DEF insert_element_from_token, insert_element
  <1>2. Good(f) /\ Len(q.nodes) <= Len(f.nodes) /\ f.open = q.open
    BY FlushGood DEF Grown
  <1>3. x \in Fresh /\ x.ns = "html"
    <2>1. x \in Fresh
      BY CreateFromToken DEF Spaces, FreshElements
    <2> QED
      BY <2>1 DEF create_element_from_token, NewNode
  <1> HIDE DEF f, x
  <1>4. /\ Good(c) /\ c.open = f.open /\ c.nodes[n] = x
        /\ n = Len(f.nodes) + 1 /\ n \in 1..Len(c.nodes) /\ Movable(c, n)
    BY <1>2, <1>3, CreateGood
  <1>5. n \in Nat /\ n > Len(q.nodes)
    BY <1>2, <1>4, GoodFacts
  <1> HIDE DEF c, n, loc
  <1>6. c.nodes \in Seq(Nodes(Len(c.nodes))) /\ n \in DOMAIN c.nodes
        /\ \A k \in DOMAIN c.nodes : "ns" \in DOMAIN c.nodes[k]
    <2>1. \A k \in DOMAIN c.nodes : c.nodes[k] \in Nodes(Len(c.nodes))
      BY <1>4, GoodFacts
    <2>2. \A N : \A y \in Nodes(N) : "ns" \in DOMAIN y
      BY DEF Nodes, NodesOf
    <2> QED
      BY <1>4, <2>1, <2>2, GoodFacts
  <1>7. Good(s) /\ s.open = c.open
    BY <1>4, InsertAtLocationGood DEF Kept
  <1>8. s.nodes[n].ns = "html"
    <2>1. ASSUME Fits(c.nodes, n, loc) PROVE Settled(u) = u
      <3>1. Follows(c.nodes, u)
        BY <1>6, <2>1, InsertFollows DEF Fits
      <3> HIDE DEF u
      <3> QED
        BY <3>1, SettledSame DEF Follows
    <2>2. u[n].ns = "html"
      <3>1. SpacesKept(c.nodes, u)
        BY <1>6, InsertKeepsSpaces
      <3> HIDE DEF u
      <3> QED
        BY <1>3, <1>4, <1>6, <3>1 DEF SpacesKept
    <2> HIDE DEF u
    <2>3. c \in States
      BY <1>4 DEF Good
    <2>4. s = IF Fits(c.nodes, n, loc) THEN [c EXCEPT !.nodes = Settled(u)]
              ELSE Failed(c, "insert_node")
      BY DEF s, u, InsertAtLocation, Require, Failed
    <2> HIDE DEF s
    <2>5. CASE Fits(c.nodes, n, loc)
      <3>1. s.nodes = u
        BY <2>1, <2>3, <2>4, <2>5 DEF States
      <3> QED
        BY <2>2, <3>1
    <2>6. CASE ~Fits(c.nodes, n, loc)
      <3>1. s.nodes = c.nodes
        BY <2>3, <2>4, <2>6 DEF States, Failed
      <3> QED
        BY <1>3, <1>4, <3>1
    <2> QED
      BY <2>5, <2>6
  <1> HIDE DEF s
  <1> DEFINE r == TakeToken([s EXCEPT !.open = Append(@, n)])
  <1>9. r.nodes = s.nodes /\ r.open = Append(s.open, n)
    BY <1>7 DEF TakeToken, Good, States
  <1> HIDE DEF r
  <1>10. r.nodes[n].ns = "html" /\ r.open = Append(q.open, n)
    BY <1>2, <1>4, <1>7, <1>8, <1>9
  <1> QED
    BY <1>1, <1>5, <1>10 DEF r

-----------------------------------------------------------------------------
(***************************************************************************)
(* What is disposed of stays so.                                           *)
(***************************************************************************)
\* "in_body" and no template modes, as examples of what the lemmas about modes ask for.
LEMMA ModesAtHand ==
    /\ <<>> \in Seq(NotText)
    /\ Modes = NotText \cup {"text"} /\ "text" \notin NotText
    /\ {"in_body", "in_table", "in_row", "in_cell", "in_select", "in_caption", "in_head",
        "after_head", "in_template", "in_frameset", "after_frameset", "in_table_body",
        "in_column_group", "in_table_text", "in_select_in_table", "in_head_noscript",
        "before_html", "before_head", "after_body", "after_after_body",
        "after_after_frameset", "initial"} \subseteq NotText
  BY DEF NotText, Modes

\* An assertion other than the two leaves the program stuck.
LEMMA StuckFails ==
    ASSUME NEW K, NEW q, Under(q, K), NEW label, label \notin Freeing \cup {""}
    PROVE  Stuck(Failed(q, label))
  BY DEF Under, Stuck, Failed, ControlFields

LEMMA DisposedRequire ==
    ASSUME NEW K, NEW q, Under(q, K), NEW t, NEW r, Disposed(r, t), NEW cond,
           NEW label, label \notin Freeing \cup {""}
    PROVE  Disposed(Require(q, cond, label, r), t)
  <1>1. Stuck(Failed(q, label))
    BY StuckFails
  <1> QED
    BY <1>1 DEF Require, Failed, Disposed

\* Three flags that handlers set last.
LEMMA DisposedFlags ==
    ASSUME NEW t, NEW r, Disposed(r, t), NEW x
    PROVE  /\ Disposed([r EXCEPT !.fok = x], t)
           /\ Disposed([r EXCEPT !.foster = x], t)
           /\ Disposed([r EXCEPT !.ignoreLF = x], t)
           /\ Disposed(FramesetNotOk(r), t)
  <1>1. ASSUME Calm(r, FALSE)
        PROVE  Calm([r EXCEPT !.fok = x], FALSE) /\ Calm([r EXCEPT !.foster = x], FALSE)
               /\ Calm([r EXCEPT !.ignoreLF = x], FALSE) /\ Calm([r EXCEPT !.fok = FALSE], FALSE)
    BY <1>1, UnderSet DEF Calm
  <1>2. ASSUME Again(r, t)
        PROVE  Again([r EXCEPT !.fok = x], t) /\ Again([r EXCEPT !.foster = x], t)
               /\ Again([r EXCEPT !.ignoreLF = x], t) /\ Again([r EXCEPT !.fok = FALSE], t)
    BY <1>2, UnderSet DEF Again
  <1>3. ASSUME Stuck(r)
        PROVE  Stuck([r EXCEPT !.fok = x]) /\ Stuck([r EXCEPT !.foster = x])
               /\ Stuck([r EXCEPT !.ignoreLF = x]) /\ Stuck([r EXCEPT !.fok = FALSE])
    BY <1>3 DEF Stuck, ControlFields
  <1>4. ASSUME Reads(r), NEW s,
               s \in {[r EXCEPT !.fok = x], [r EXCEPT !.foster = x],
                      [r EXCEPT !.ignoreLF = x], [r EXCEPT !.fok = FALSE]}
        PROVE  Reads(s)
    <2> DEFINE K == Controls({"text"}, FALSE, FALSE)
    <2>3. Under(r, K)
      BY <1>4 DEF Reads
    <2> HIDE DEF K
    <2>4. /\ \A y : Under([r EXCEPT !.fok = y], K)
          /\ \A y : Under([r EXCEPT !.foster = y], K)
          /\ \A y : Under([r EXCEPT !.ignoreLF = y], K)
      BY <2>3, UnderSet
    <2>1. Under(s, K)
      BY <1>4, <2>4
    <2>2. s.lexer = r.lexer /\ s.open = r.open /\ s.nodes = r.nodes
      BY <1>4 DEF Reads, Under, ControlFields
    <2> QED
      BY <1>4, <2>1, <2>2 DEF Reads, K
  <1> QED
    BY <1>1, <1>2, <1>3, <1>4 DEF Disposed, FramesetNotOk

\* A parser at rest that comes from one at rest.
LEMMA CalmDisposed ==
    ASSUME NEW q, NEW t, Calm(q, FALSE) \/ Again(q, t)
    PROVE  Disposed(q, t)
  BY DEF Disposed

-----------------------------------------------------------------------------
(***************************************************************************)
(* The parts of the handlers.                                              *)
(***************************************************************************)
\* run_generic_parsing_algorithm.
LEMMA ReadsText ==
    ASSUME NEW q, Good(q), NEW o, Calm(q, o), NEW t \in Tokens, NEW lexer \in {"rcdata", "rawtext", "script"}
    PROVE  LET r == run_generic_parsing_algorithm(q, t, lexer)
           IN  /\ Reads(r)
               /\ \E n \in Nat : n > Len(q.nodes) /\ r.open = Append(q.open, n)
  <1> DEFINE r == insert_element_from_token(q, t)
             a == [r EXCEPT !.lexer = lexer]
             b == [a EXCEPT !.rawtag = t.tag]
             c == [b EXCEPT !.orig = q.mode]
             d == [c EXCEPT !.mode = "text"]
  <1>1. run_generic_parsing_algorithm(q, t, lexer) = d
    BY DEF run_generic_parsing_algorithm, r
  <1>2. PICK n \in Nat : n > Len(q.nodes) /\ r.nodes[n].ns = "html" /\ r.open = Append(q.open, n)
    BY InsertTokenTop
  <1>3. Calm(r, FALSE)
    BY CalmTake
  <1> HIDE DEF r
  <1>4. Calm(a, FALSE) /\ a.lexer = lexer /\ a.nodes = r.nodes /\ a.open = r.open
    <2>1. Calm(a, FALSE)
      BY <1>3, UnderSet DEF Calm
    <2> QED
      BY <1>3, <2>1 DEF Calm, Under, ControlFields
  <1> HIDE DEF a
  <1>5. Calm(b, FALSE) /\ b.lexer = a.lexer /\ b.nodes = a.nodes /\ b.open = a.open
    <2>1. Calm(b, FALSE)
      BY <1>4, UnderSet DEF Calm
    <2> QED
      BY <1>4, <2>1 DEF Calm, Under, ControlFields
  <1> HIDE DEF b
  <1>6. q.mode \in NotText
    BY DEF Calm, Under, Controls, Control
  <1>7. Calm(c, FALSE) /\ c.lexer = b.lexer /\ c.nodes = b.nodes /\ c.open = b.open
    <2>1. Calm(c, FALSE)
      BY <1>5, <1>6, CalmModes, ModesAtHand
    <2> QED
      BY <1>5, <2>1 DEF Calm, Under, ControlFields
  <1> HIDE DEF c
  <1>8. Under(d, Controls({"text"}, FALSE, FALSE))
        /\ d.lexer = c.lexer /\ d.nodes = c.nodes /\ d.open = c.open
    BY <1>7 DEF Calm, Under, Controls, Control, ControlFields
  <1> HIDE DEF d
  <1>9. d.open = Append(q.open, n) /\ d.nodes[n].ns = "html" /\ d.lexer = lexer
    BY <1>2, <1>4, <1>5, <1>7, <1>8
  <1>10. Append(q.open, n) # <<>> /\ Last(Append(q.open, n)) = n
    <2> DEFINE S == Nat
    <2>1. q.open \in Seq(S) /\ n \in S
      <3>1. q.open \in Seq(1..Len(q.nodes))
        BY GoodFacts
      <3>2. 1..Len(q.nodes) \subseteq S
        OBVIOUS
      <3> QED
        BY <3>1, <3>2, SeqWiden
    <2> HIDE DEF S
    <2> QED
      BY <2>1, AppendNotEmpty DEF Last
  <1>11. Reads(d)
    BY <1>8, <1>9, <1>10 DEF Reads
  <1> QED
    BY <1>1, <1>2, <1>9, <1>11

\* Which tokens own parts.
LEMMA OwnOf ==
    ASSUME NEW t
    PROVE  /\ t.type \in {"start", "comment", "doctype"} => Own(t) = TRUE
           /\ t.type \in {"end", "eof", "whitespace", "character", "cdata", "null"} => Own(t) = FALSE
  BY DEF Own, OwningTypes

\* A token without parts leaves the parser at rest.
LEMMA NothingOwned ==
    ASSUME NEW q, NEW t, Calm(q, Own(t)),
           t.type \in {"end", "eof", "whitespace", "character", "cdata", "null"}
    PROVE  Calm(q, FALSE)
  <1>1. Own(t) = FALSE
    BY OwnOf
  <1> QED
    BY <1>1

\* The helpers, for a parser at rest.
LEMMA CalmHelpers ==
    ASSUME NEW q, NEW o, Calm(q, o), NEW t, NEW n, NEW tag, NEW tags
    PROVE  /\ Calm(maybe_flush_text_node_buffer(q), o)
           /\ Calm(PopTo(q, n), o) /\ Calm(pop_current_node(q), o)
           /\ Calm(PopThroughTag(q, tag), o) /\ Calm(ClearStackTo(q, tags), o)
           /\ Calm(generate_implied_end_tags(q, tag), o)
           /\ Calm(generate_all_implied_end_tags_thoroughly(q), o)
           /\ Calm(implicitly_close_tags(q, "html", tag), o)
           /\ Calm(maybe_implicitly_close_p_tag(q), o)
           /\ Calm(maybe_implicitly_close_list_tag(q, tags), o)
           /\ Calm(insert_element_of_tag_type(q, tag), o)
           /\ Calm(insert_text_token(q, t), o)
           /\ Calm(PushMarker(q), o) /\ Calm(clear_active_formatting_elements(q), o)
           /\ Calm(add_formatting_element(q, n), o)
           /\ Calm(Destroy(q, n), o) /\ Calm(FramesetNotOk(q), o)
  <1> DEFINE K == Controls(NotText, FALSE, o)
  <1>1. Under(q, K)
    BY DEF Calm
  <1>2. \A r : Calm(r, o) <=> Under(r, K)
    BY DEF Calm
  <1> HIDE DEF K
  <1>3. Under(maybe_flush_text_node_buffer(q), K)
    BY <1>1, UnderFlush
  <1>4. Under(PopTo(q, n), K)
    BY <1>1, UnderPopTo
  <1>5. Under(pop_current_node(q), K)
    BY <1>1, UnderPop
  <1>6. /\ Under(PopThroughTag(q, tag), K) /\ Under(ClearStackTo(q, tags), K)
        /\ Under(generate_implied_end_tags(q, tag), K)
        /\ Under(generate_all_implied_end_tags_thoroughly(q), K)
    BY <1>1, UnderPopLoops
  <1>7. /\ Under(implicitly_close_tags(q, "html", tag), K)
        /\ Under(maybe_implicitly_close_p_tag(q), K)
        /\ Under(maybe_implicitly_close_list_tag(q, tags), K)
    BY <1>1, UnderClose
  <1>8. Under(insert_element_of_tag_type(q, tag), K) /\ Under(insert_text_token(q, t), K)
    BY <1>1, UnderInsertTag, UnderText
  <1>9. /\ Under(PushMarker(q), K) /\ Under(clear_active_formatting_elements(q), K)
        /\ Under(add_formatting_element(q, n), K)
    BY <1>1, UnderList
  <1>10. Under(Destroy(q, n), K) /\ Under(FramesetNotOk(q), K)
    BY <1>1, UnderDestroy, UnderSet DEF FramesetNotOk
  <1> QED
    BY <1>2, <1>3, <1>4, <1>5, <1>6, <1>7, <1>8, <1>9, <1>10

\* The helpers that are folds.
LEMMA CalmFolds ==
    ASSUME NEW q, Good(q), NEW o, Calm(q, o), NEW subject
    PROVE  /\ Good(Reconstruct(q)) /\ Calm(Reconstruct(q), o)
           /\ Good(adoption_agency_algorithm(q, subject))
           /\ Calm(adoption_agency_algorithm(q, subject), o)
  BY ReconstructGood, AdoptionGood, UnderReconstruct, UnderAdoption DEF Calm, Reconstruct

\* The fields that are set apart from helpers.
LEMMA CalmFields ==
    ASSUME NEW q, NEW o, Calm(q, o)
    PROVE  \A x : /\ Calm([q EXCEPT !.nodes = x], o) /\ Calm([q EXCEPT !.root = x], o)
                  /\ Calm([q EXCEPT !.open = x], o) /\ Calm([q EXCEPT !.afe = x], o)
                  /\ Calm([q EXCEPT !.head = x], o) /\ Calm([q EXCEPT !.form = x], o)
                  /\ Calm([q EXCEPT !.fok = x], o) /\ Calm([q EXCEPT !.foster = x], o)
                  /\ Calm([q EXCEPT !.quirks = x], o) /\ Calm([q EXCEPT !.has_doctype = x], o)
                  /\ Calm([q EXCEPT !.lexer = x], o) /\ Calm([q EXCEPT !.ignoreLF = x], o)
  BY UnderSet DEF Calm

\* The start tag's element is inserted, in one way or another.
LEMMA CalmInserts ==
    ASSUME NEW q, NEW o, Calm(q, o), NEW t
    PROVE  /\ Calm(InsertVoid(q, t), FALSE)
           /\ Calm(ClosePAndInsert(q, t), FALSE)
           /\ Calm(InsertFormatting(q, t), FALSE)
           /\ Calm(StartTemplate(q, t), FALSE)
  <1> DEFINE r == insert_element_from_token(q, t)
  <1>1. Calm(r, FALSE)
    BY CalmTake
  <1>2. Calm(InsertVoid(q, t), FALSE)
    BY <1>1, CalmHelpers DEF InsertVoid
  <1>3. Calm(ClosePAndInsert(q, t), FALSE)
    BY CalmHelpers, CalmTake DEF ClosePAndInsert
  <1>4. Calm(InsertFormatting(q, t), FALSE)
    BY <1>1, CalmHelpers DEF InsertFormatting
  <1>5. Calm(StartTemplate(q, t), FALSE)
    <2> DEFINE a == PushMarker(r)
               b == [a EXCEPT !.fok = FALSE]
               c == [b EXCEPT !.mode = "in_template"]
               modes == Append(c.tmodes, "in_template")
    <2>1. StartTemplate(q, t) = [c EXCEPT !.tmodes = modes]
      BY DEF StartTemplate
    <2> HIDE DEF r
    <2>2. Calm(a, FALSE)
      BY <1>1, CalmHelpers
    <2> HIDE DEF a
    <2>3. Calm(b, FALSE)
      BY <2>2, CalmFields
    <2> HIDE DEF b
    <2>4. Calm(c, FALSE)
      BY <2>3, CalmModes, ModesAtHand
    <2> HIDE DEF c
    <2>5. c.tmodes \in Seq(NotText) /\ "in_template" \in NotText
      BY <2>4, ModesAtHand DEF Calm, Under, Controls, Control
    <2>6. modes \in Seq(NotText)
      BY <2>5
    <2> HIDE DEF modes
    <2>7. Calm([c EXCEPT !.tmodes = modes], FALSE)
      BY <2>4, <2>5, <2>6, CalmModes
    <2> QED
      BY <2>1, <2>7
  <1> QED
    BY <1>2, <1>3, <1>4, <1>5

\* The mode of a template is dropped.
LEMMA CalmPopTemplate ==
    ASSUME NEW q, NEW o, Calm(q, o)
    PROVE  Calm(pop_template_insertion_mode(q), o)
  <1> DEFINE modes == IF q.tmodes = <<>> THEN q.tmodes ELSE Front(q.tmodes)
  <1>1. q.tmodes \in Seq(NotText)
    BY DEF Calm, Under, Controls, Control
  <1>2. modes \in Seq(NotText)
    BY <1>1, LastTyped
  <1>3. pop_template_insertion_mode(q) = [q EXCEPT !.tmodes = modes]
    BY DEF pop_template_insertion_mode
  <1> HIDE DEF modes
  <1>4. "in_body" \in NotText
    BY ModesAtHand
  <1>5. \A s \in Seq(NotText) : Calm([q EXCEPT !.tmodes = s], o)
    BY <1>4, CalmModes
  <1> QED
    BY <1>2, <1>3, <1>5

\* The end of a template, by its tag or by that of the input.
LEMMA CalmTemplate ==
    ASSUME NEW q, NEW o, Calm(q, o)
    PROVE  Calm(CloseTemplate(q), o)
  <1> DEFINE a == PopThroughTag(q, "template")
             b == clear_active_formatting_elements(a)
             c == pop_template_insertion_mode(b)
  <1>1. Calm(a, o)
    BY CalmHelpers
  <1> HIDE DEF a
  <1>2. Calm(b, o)
    BY <1>1, CalmHelpers
  <1> HIDE DEF b
  <1>3. Calm(c, o)
    BY <1>2, CalmPopTemplate
  <1> HIDE DEF c
  <1>4. Calm(reset_insertion_mode_appropriately(c), o)
    BY <1>3, CalmReset
  <1> QED
    BY <1>4 DEF CloseTemplate, c, b, a

LEMMA EndTemplateDisposes ==
    ASSUME NEW q, NEW t, t.type = "end", Calm(q, Own(t))
    PROVE  Calm(EndTemplate(q, t), FALSE)
  <1> DEFINE r == generate_all_implied_end_tags_thoroughly(q)
  <1>1. Calm(ignore_token(q, t), FALSE)
    BY CalmIgnore
  <1>2. Calm(r, FALSE)
    BY NothingOwned, CalmHelpers
  <1> HIDE DEF r
  <1>3. Calm(CloseTemplate(r), FALSE)
    BY <1>2, CalmTemplate
  <1> QED
    BY <1>1, <1>3 DEF EndTemplate, r

\* handle_in_head for the tags of the head: all is well, or the text of a new element follows.
LEMMA HeadElementTakes ==
    ASSUME NEW q, Good(q), NEW t \in Tokens, Calm(q, Own(t)),
           IsStart(t, HeadStartTags) \/ IsEnd(t, {"template"})
    PROVE  LET r == HeadElement(q, t)
           IN  \/ Calm(r, FALSE)
               \/ Reads(r) /\ \E n \in Nat : n > Len(q.nodes) /\ r.open = Append(q.open, n)
  <1>1. CASE IsStart(t, {"base", "basefont", "bgsound", "link", "meta"})
    <2>1. HeadElement(q, t) = InsertVoid(q, t)
      BY <1>1 DEF HeadElement, IsStart, IsEnd
    <2> QED
      BY <2>1, CalmInserts
  <1>2. CASE IsStart(t, {"title", "noframes", "style", "script"})
    <2>1. \E lexer \in {"rcdata", "rawtext", "script"} :
             HeadElement(q, t) = run_generic_parsing_algorithm(q, t, lexer)
      BY <1>2 DEF HeadElement, IsStart, IsEnd
    <2>2. PICK lexer \in {"rcdata", "rawtext", "script"} :
             HeadElement(q, t) = run_generic_parsing_algorithm(q, t, lexer)
      BY <2>1
    <2> QED
      BY <2>2, ReadsText
  <1>3. CASE IsStart(t, {"template"})
    <2>1. HeadElement(q, t) = StartTemplate(q, t)
      BY <1>3 DEF HeadElement, IsStart, IsEnd
    <2> QED
      BY <2>1, CalmInserts
  <1>4. CASE IsEnd(t, {"template"})
    <2>1. HeadElement(q, t) = EndTemplate(q, t) /\ t.type = "end"
      BY <1>4 DEF HeadElement, IsStart, IsEnd
    <2> QED
      BY <2>1, EndTemplateDisposes
  <1> QED
    BY <1>1, <1>2, <1>3, <1>4 DEF IsStart, HeadStartTags

-----------------------------------------------------------------------------
(***************************************************************************)
(* The start tags of handle_in_body.                                       *)
(***************************************************************************)
\* The modes that handlers set are not "text".
LEMMA CalmSetMode ==
    ASSUME NEW q, NEW o, Calm(q, o), NEW m \in NotText
    PROVE  Calm(SetMode(q, m), o)
  <1>1. <<>> \in Seq(NotText)
    BY ModesAtHand
  <1> QED
    BY <1>1, CalmModes

\* The token is kept, and is to come again.
LEMMA ComesAgain ==
    ASSUME NEW q, NEW t, Calm(q, Own(t)), NEW m \in NotText
    PROVE  /\ Disposed([q EXCEPT !.reprocess = TRUE], t)
           /\ Disposed(Reprocess(q, m), t)
  BY CalmAgain DEF Disposed

LEMMA AgainDisposed ==
    ASSUME NEW q, NEW t, Calm(q, Own(t))
    PROVE  Disposed([q EXCEPT !.reprocess = TRUE], t)
  <1>1. "in_body" \in NotText
    BY ModesAtHand
  <1> QED
    BY <1>1, ComesAgain

LEMMA MergeDisposes ==
    ASSUME NEW q, NEW t, Calm(q, Own(t))
    PROVE  Calm(MergeIntoHtml(q, t), FALSE) /\ Calm(MergeIntoBody(q, t), FALSE)
  <1>1. Calm(ignore_token(q, t), FALSE)
    BY CalmIgnore
  <1>2. \A n : Calm(merge_attributes(q, t, n), FALSE)
    BY CalmTake
  <1>3. Calm(FramesetNotOk(q), Own(t))
    BY CalmHelpers
  <1>4. \A n : Calm(merge_attributes(FramesetNotOk(q), t, n), FALSE)
    BY <1>3, CalmTake
  <1> QED
    BY <1>1, <1>2, <1>4 DEF MergeIntoHtml, MergeIntoBody

LEMMA ReplaceBodyDisposes ==
    ASSUME NEW q, NEW t, Calm(q, Own(t))
    PROVE  Calm(ReplaceBodyByFrameset(q, t), FALSE)
  <1> DEFINE body == q.open[2]
             p1 == PopTo(q, 1)
             r == clear_active_formatting_elements(p1)
             cut == [r EXCEPT !.nodes[q.root].kids = RemoveFirst(@, body)]
             d == Destroy(cut, body)
             i == insert_element_from_token(d, t)
             u == [r.nodes EXCEPT ![q.root].kids = RemoveFirst(@, body)]
  <1>1. ReplaceBodyByFrameset(q, t) =
          IF ~BodyIsSecond(q) \/ ~q.fok THEN ignore_token(q, t) ELSE SetMode(i, "in_frameset")
    BY DEF ReplaceBodyByFrameset, LeaveBody
  <1>2. Calm(p1, Own(t))
    BY CalmHelpers
  <1> HIDE DEF p1
  <1>3. Calm(r, Own(t))
    BY <1>2, CalmHelpers
  <1> HIDE DEF r, body
  <1>4. cut = [r EXCEPT !.nodes = u]
    OBVIOUS
  <1> HIDE DEF cut, u
  <1>5. Calm(cut, Own(t))
    BY <1>3, <1>4, CalmFields
  <1>6. Calm(d, Own(t))
    BY <1>5, CalmHelpers
  <1> HIDE DEF d
  <1>7. Calm(i, FALSE)
    BY <1>6, CalmTake
  <1> HIDE DEF i
  <1>8. "in_frameset" \in NotText
    BY ModesAtHand
  <1> QED
    BY <1>1, <1>7, <1>8, CalmSetMode, CalmIgnore

LEMMA HeadingTakes ==
    ASSUME NEW q, NEW t, Calm(q, Own(t))
    PROVE  Calm(StartHeading(q, t), FALSE)
  <1> DEFINE r == maybe_implicitly_close_p_tag(q)
  <1>1. Calm(r, Own(t))
    BY CalmHelpers
  <1>2. Calm(pop_current_node(r), Own(t))
    BY <1>1, CalmHelpers
  <1>3. Calm(insert_element_from_token(r, t), FALSE)
        /\ Calm(insert_element_from_token(pop_current_node(r), t), FALSE)
    BY <1>1, <1>2, CalmTake
  <1> QED
    BY <1>3 DEF StartHeading

LEMMA StartFormDisposes ==
    ASSUME NEW q, NEW t, Calm(q, Own(t))
    PROVE  Calm(StartForm(q, t), FALSE)
  <1> DEFINE r == ClosePAndInsert(q, t)
  <1>1. Calm(r, FALSE)
    BY CalmInserts
  <1>2. StartForm(q, t) \in {ignore_token(q, t), r, [r EXCEPT !.form = get_current_node(r)]}
    BY DEF StartForm
  <1> HIDE DEF r
  <1>3. Calm([r EXCEPT !.form = get_current_node(r)], FALSE)
    BY <1>1, CalmFields
  <1> QED
    BY <1>1, <1>2, <1>3, CalmIgnore

\* The list is rebuilt before the element is inserted.
LEMMA ReconstructTakes ==
    ASSUME NEW q, Good(q), NEW t, NEW o, Calm(q, o)
    PROVE  /\ Calm(ReconstructAndInsert(q, t), FALSE)
           /\ Calm(InsertFormatting(Reconstruct(q), t), FALSE)
           /\ Calm(InsertVoid(Reconstruct(q), t), FALSE)
           /\ Calm(insert_foreign_element(Reconstruct(q), t, "svg"), FALSE)
           /\ Calm(insert_foreign_element(Reconstruct(q), t, "mathml"), FALSE)
  <1>1. Calm(Reconstruct(q), o)
    BY CalmFolds
  <1>2. Calm(insert_element_from_token(Reconstruct(q), t), FALSE)
    BY <1>1, CalmTake
  <1>3. \A ns : Calm(insert_foreign_element(Reconstruct(q), t, ns), FALSE)
    BY <1>1, CalmTake
  <1> QED
    BY <1>1, <1>2, <1>3, CalmInserts DEF ReconstructAndInsert

LEMMA StartButtonDisposes ==
    ASSUME NEW q, NEW t, Ready(q, t)
    PROVE  Disposed(StartButton(q, t), t)
  <1>1. Calm(implicitly_close_tags(q, "html", "button"), Own(t))
    BY CalmHelpers DEF Ready
  <1>2. Calm(ReconstructAndInsert(q, t), FALSE)
    BY ReconstructTakes DEF Ready
  <1>3. Calm(FramesetNotOk(ReconstructAndInsert(q, t)), FALSE)
    BY <1>2, CalmHelpers
  <1> QED
    BY <1>1, <1>3, AgainDisposed, CalmDisposed DEF StartButton

LEMMA StartATakes ==
    ASSUME NEW q, NEW t, Ready(q, t)
    PROVE  Calm(StartA(q, t), FALSE)
  <1> DEFINE a == IF FormattingOf(q, "a") = {} THEN q ELSE adoption_agency_algorithm(q, "a")
             stale == FormattingOf(a, "a")
             s == RemoveAt(a.afe, Max(stale))
             open == RemoveFirst(a.open, a.afe[Max(stale)])
             b == [a EXCEPT !.afe = s]
             c == [b EXCEPT !.open = open]
  <1>1. Good(a) /\ Calm(a, Own(t))
    BY CalmFolds DEF Ready
  <1>2. StartA(q, t) \in {InsertFormatting(Reconstruct(a), t),
                          InsertFormatting(Reconstruct(IF stale = {} THEN a ELSE c), t)}
    BY DEF StartA
  <1>3. stale \in SUBSET (1..Len(a.afe)) /\ Len(a.afe) \in Nat
    <2> HIDE DEF a
    <2> QED
      BY <1>1, GoodFacts, LastMarkerTyped DEF FormattingOf
  <1> HIDE DEF a, stale
  <1>4. ASSUME stale # {} PROVE Good(c) /\ Calm(c, Own(t))
    <2>1. Max(stale) \in 1..Len(a.afe)
      BY <1>3, <1>4, MaxOfPositions
    <2> DEFINE A == Elems(a) \cup {Marker}
    <2>2. a.afe \in Seq(A)
      BY <1>1, GoodFacts
    <2>3. s \in Seq(A)
      <3> HIDE DEF A
      <3> QED
        BY <2>1, <2>2, RemoveAtProperties
    <2>4. open \in Seq(Elems(a))
      BY <1>1, GoodFacts, RemoveFirstTyped
    <2> HIDE DEF s, open
    <2>5. Good(b) /\ Calm(b, Own(t))
      BY <1>1, <2>3, SetAfe, CalmFields
    <2>6. Elems(b) = Elems(a)
      BY <1>1 DEF Good, States, Elems
    <2> HIDE DEF b
    <2> QED
      BY <2>4, <2>5, <2>6, SetOpen, CalmFields
  <1> HIDE DEF c
  <1>5. Calm(InsertFormatting(Reconstruct(a), t), FALSE)
    BY <1>1, ReconstructTakes
  <1>6. Calm(InsertFormatting(Reconstruct(IF stale = {} THEN a ELSE c), t), FALSE)
    BY <1>1, <1>4, ReconstructTakes
  <1> QED
    BY <1>2, <1>5, <1>6

LEMMA StartNobrTakes ==
    ASSUME NEW q, NEW t, Ready(q, t)
    PROVE  Calm(StartNobr(q, t), FALSE)
  <1> DEFINE r == Reconstruct(q)
             a == adoption_agency_algorithm(r, "nobr")
             s == Reconstruct(a)
  <1>1. Good(r) /\ Calm(r, Own(t))
    BY CalmFolds DEF Ready
  <1>2. Good(a) /\ Calm(a, Own(t))
    <2> HIDE DEF r
    <2> QED
      BY <1>1, CalmFolds
  <1>3. Good(s) /\ Calm(s, Own(t))
    <2> HIDE DEF a
    <2> QED
      BY <1>2, CalmFolds
  <1>4. StartNobr(q, t) \in {InsertFormatting(s, t), InsertFormatting(r, t)}
    BY DEF StartNobr
  <1> HIDE DEF r, s
  <1> QED
    BY <1>1, <1>3, <1>4, CalmInserts

LEMMA StartSelectTakes ==
    ASSUME NEW q, NEW t, Ready(q, t)
    PROVE  Calm(StartSelect(q, t), FALSE)
  <1> DEFINE r == FramesetNotOk(ReconstructAndInsert(q, t))
  <1>1. Calm(ReconstructAndInsert(q, t), FALSE)
    BY ReconstructTakes DEF Ready
  <1>2. Calm(r, FALSE)
    BY <1>1, CalmHelpers
  <1> HIDE DEF r
  <1>3. "in_select_in_table" \in NotText /\ "in_select" \in NotText
    BY ModesAtHand
  <1>4. Calm(SetMode(r, "in_select_in_table"), FALSE) /\ Calm(SetMode(r, "in_select"), FALSE)
    BY <1>2, <1>3, CalmSetMode
  <1> QED
    BY <1>4 DEF StartSelect, r

\* The current node may be popped, or implied end tags generated, before the element is inserted.
LEMMA CalmPopIf ==
    ASSUME NEW q, NEW o, Calm(q, o), NEW tag
    PROVE  Calm(PopIf(q, tag), o)
  BY CalmHelpers DEF PopIf

LEMMA StartRubyTakes ==
    ASSUME NEW q, NEW t, NEW o, Calm(q, o)
    PROVE  Calm(StartRuby(q, t), FALSE)
  <1>1. \A tag : Calm(generate_implied_end_tags(q, tag), o)
    BY CalmHelpers
  <1>2. \A tag : Calm(insert_element_from_token(generate_implied_end_tags(q, tag), t), FALSE)
    BY <1>1, CalmTake
  <1>3. Calm(insert_element_from_token(q, t), FALSE)
    BY CalmTake
  <1> QED
    BY <1>2, <1>3 DEF StartRuby

LEMMA StartForeignTakes ==
    ASSUME NEW q, NEW t, Ready(q, t)
    PROVE  Calm(StartForeign(q, t, "svg"), FALSE) /\ Calm(StartForeign(q, t, "mathml"), FALSE)
  <1>1. Calm(insert_foreign_element(Reconstruct(q), t, "svg"), FALSE)
        /\ Calm(insert_foreign_element(Reconstruct(q), t, "mathml"), FALSE)
    BY ReconstructTakes DEF Ready
  <1>2. Calm(pop_current_node(insert_foreign_element(Reconstruct(q), t, "svg")), FALSE)
        /\ Calm(pop_current_node(insert_foreign_element(Reconstruct(q), t, "mathml")), FALSE)
    BY <1>1, CalmHelpers
  <1> QED
    BY <1>1, <1>2 DEF StartForeign

\* The line feed that follows is to be dropped.
LEMMA DropsNext ==
    ASSUME NEW r, NEW t, Disposed(r, t)
    PROVE  Disposed([r EXCEPT !.ignoreLF = TRUE, !.fok = FALSE], t)
  <1> DEFINE a == [r EXCEPT !.ignoreLF = TRUE]
  <1>1. Disposed(a, t)
    BY DisposedFlags
  <1>2. [r EXCEPT !.ignoreLF = TRUE, !.fok = FALSE] = [a EXCEPT !.fok = FALSE]
    OBVIOUS
  <1> HIDE DEF a
  <1> QED
    BY <1>1, <1>2, DisposedFlags

\* The text of an element follows.
LEMMA TextFollows ==
    ASSUME NEW q, Good(q), NEW o, Calm(q, o), NEW t \in Tokens
    PROVE  Disposed(run_generic_parsing_algorithm(q, t, "rcdata"), t)
           /\ Disposed(run_generic_parsing_algorithm(q, t, "rawtext"), t)
  <1>1. Reads(run_generic_parsing_algorithm(q, t, "rcdata"))
        /\ Reads(run_generic_parsing_algorithm(q, t, "rawtext"))
    BY ReadsText
  <1> QED
    BY <1>1 DEF Disposed

\* handle_in_head for its own tags disposes of the token.
LEMMA HeadElementDisposes ==
    ASSUME NEW q, NEW t \in Tokens, Ready(q, t)
    PROVE  /\ IsStart(t, HeadStartTags) \/ IsEnd(t, {"template"}) => Disposed(HeadElement(q, t), t)
           /\ \A tags : IsStart(t, tags) /\ tags \subseteq HeadStartTags => Disposed(HeadElement(q, t), t)
  <1>1. IsStart(t, HeadStartTags) \/ IsEnd(t, {"template"}) => Disposed(HeadElement(q, t), t)
    BY HeadElementTakes DEF Disposed, Ready
  <1>2. \A tags : IsStart(t, tags) /\ tags \subseteq HeadStartTags => IsStart(t, HeadStartTags)
    BY DEF IsStart
  <1> QED
    BY <1>1, <1>2

LEMMA BodyStartDisposes ==
    ASSUME NEW q, NEW t \in Tokens, t.type = "start", Ready(q, t)
    PROVE  Disposed(BodyStartTag(q, t), t)
  <1> DEFINE D(r) == Disposed(r, t)
  <1>0. \A r : Calm(r, FALSE) => D(r)
    BY DEF Disposed
  <1>00. \A r : D(r) => D(FramesetNotOk(r))
    BY DisposedFlags
  <1>q. Good(q) /\ Calm(q, Own(t))
    BY DEF Ready
  <1>1. /\ Calm(MergeIntoHtml(q, t), FALSE) /\ Calm(MergeIntoBody(q, t), FALSE)
        /\ Calm(ReplaceBodyByFrameset(q, t), FALSE)
        /\ Calm(ClosePAndInsert(q, t), FALSE) /\ Calm(StartHeading(q, t), FALSE)
        /\ Calm(StartForm(q, t), FALSE)
    BY <1>q, MergeDisposes, ReplaceBodyDisposes, CalmInserts, HeadingTakes, StartFormDisposes
  <1>2. /\ Calm(StartA(q, t), FALSE) /\ Calm(StartNobr(q, t), FALSE)
        /\ Calm(InsertVoid(q, t), FALSE) /\ Calm(StartSelect(q, t), FALSE)
        /\ Calm(StartRuby(q, t), FALSE)
        /\ Calm(ignore_token(q, t), FALSE) /\ Calm(ReconstructAndInsert(q, t), FALSE)
        /\ Calm(InsertFormatting(Reconstruct(q), t), FALSE)
    BY <1>q, StartATakes, StartNobrTakes, CalmInserts, StartSelectTakes, StartRubyTakes, CalmIgnore,
       ReconstructTakes
  <1>3. D(StartButton(q, t))
    BY StartButtonDisposes
  <1>4. t.tag \in HeadStartTags => D(HeadElement(q, t))
    BY HeadElementDisposes DEF IsStart
  <1>5. D([ClosePAndInsert(q, t) EXCEPT !.ignoreLF = TRUE, !.fok = FALSE])
    BY <1>0, <1>1, DropsNext
  <1>6. \A tags : Calm(ClosePAndInsert(maybe_implicitly_close_list_tag(q, tags), t), FALSE)
    <2>1. \A tags : Calm(maybe_implicitly_close_list_tag(q, tags), Own(t))
      BY <1>q, CalmHelpers
    <2> QED
      BY <2>1, CalmInserts
  <1>7. Calm([ClosePAndInsert(q, t) EXCEPT !.lexer = "plaintext"], FALSE)
    BY <1>1, CalmFields
  <1>8. Calm(PushMarker(ReconstructAndInsert(q, t)), FALSE)
    BY <1>2, CalmHelpers
  <1>9. Calm(SetMode(IF q.quirks THEN insert_element_from_token(q, t)
                     ELSE ClosePAndInsert(q, t), "in_table"), FALSE)
    <2>1. Calm(insert_element_from_token(q, t), FALSE) /\ "in_table" \in NotText
      BY <1>q, CalmTake, ModesAtHand
    <2>2. Calm(SetMode(insert_element_from_token(q, t), "in_table"), FALSE)
          /\ Calm(SetMode(ClosePAndInsert(q, t), "in_table"), FALSE)
      BY <1>1, <2>1, CalmSetMode
    <2> QED
      BY <2>2
  <1>10. Calm(InsertVoid(Reconstruct(q), t), FALSE)
         /\ Calm(InsertVoid(Reconstruct(q), [t EXCEPT !.tag = "img"]), FALSE)
    BY <1>q, ReconstructTakes
  <1>11. Calm(InsertVoid(Reconstruct(IF "type=hidden" \in t.data THEN q ELSE FramesetNotOk(q)), t), FALSE)
    <2>1. Good(FramesetNotOk(q)) /\ Calm(FramesetNotOk(q), Own(t))
      BY <1>q, FramesetNotOkGood, CalmHelpers
    <2>2. Calm(InsertVoid(Reconstruct(FramesetNotOk(q)), t), FALSE)
      BY <2>1, ReconstructTakes
    <2> QED
      BY <1>10, <2>2
  <1>12. Calm(InsertVoid(maybe_implicitly_close_p_tag(q), t), FALSE)
    <2>1. Calm(maybe_implicitly_close_p_tag(q), Own(t))
      BY <1>q, CalmHelpers
    <2> QED
      BY <2>1, CalmInserts
  <1>13. D(run_generic_parsing_algorithm(q, t, "rcdata")) /\ D(run_generic_parsing_algorithm(q, t, "rawtext"))
    BY <1>q, TextFollows
  <1>14. D([run_generic_parsing_algorithm(q, t, "rcdata") EXCEPT !.ignoreLF = TRUE, !.fok = FALSE])
    BY <1>13, DropsNext
  <1>15. D(run_generic_parsing_algorithm(
                FramesetNotOk(Reconstruct(maybe_implicitly_close_p_tag(q))), t, "rawtext"))
    <2> DEFINE a == maybe_implicitly_close_p_tag(q)
               b == Reconstruct(a)
    <2>1. Good(a) /\ Calm(a, Own(t))
      BY <1>q, ClosePGood, CalmHelpers
    <2> HIDE DEF a
    <2>2. Good(b) /\ Calm(b, Own(t))
      BY <2>1, CalmFolds
    <2> HIDE DEF b
    <2>3. Good(FramesetNotOk(b)) /\ Calm(FramesetNotOk(b), Own(t))
      BY <2>2, FramesetNotOkGood, CalmHelpers
    <2>4. D(run_generic_parsing_algorithm(FramesetNotOk(b), t, "rawtext"))
      BY <2>3, TextFollows
    <2> QED
      BY <2>4 DEF a, b
  <1>16. D(run_generic_parsing_algorithm(FramesetNotOk(q), t, "rawtext"))
    <2>1. Good(FramesetNotOk(q)) /\ Calm(FramesetNotOk(q), Own(t))
      BY <1>q, FramesetNotOkGood, CalmHelpers
    <2> QED
      BY <2>1, TextFollows
  <1>17. Calm(ReconstructAndInsert(PopIf(q, "option"), t), FALSE)
    <2>1. Good(PopIf(q, "option")) /\ Calm(PopIf(q, "option"), Own(t))
      BY <1>q, PopIfGood, CalmPopIf
    <2> QED
      BY <2>1, ReconstructTakes
  <1>18. Calm(StartForeign(q, t, "mathml"), FALSE) /\ Calm(StartForeign(q, t, "svg"), FALSE)
    BY StartForeignTakes
  <1> HIDE DEF D
  <1>19. /\ D(MergeIntoHtml(q, t)) /\ D(MergeIntoBody(q, t)) /\ D(ReplaceBodyByFrameset(q, t))
         /\ D(ClosePAndInsert(q, t)) /\ D(StartHeading(q, t)) /\ D(StartForm(q, t))
         /\ D(StartA(q, t)) /\ D(StartNobr(q, t)) /\ D(InsertVoid(q, t)) /\ D(StartSelect(q, t))
         /\ D(StartRuby(q, t)) /\ D(ignore_token(q, t)) /\ D(ReconstructAndInsert(q, t))
         /\ D(InsertFormatting(Reconstruct(q), t))
    BY <1>0, <1>1, <1>2
  <1>20. /\ \A tags : D(ClosePAndInsert(maybe_implicitly_close_list_tag(q, tags), t))
         /\ D([ClosePAndInsert(q, t) EXCEPT !.lexer = "plaintext"])
         /\ D(FramesetNotOk(PushMarker(ReconstructAndInsert(q, t))))
         /\ D(FramesetNotOk(SetMode(IF q.quirks THEN insert_element_from_token(q, t)
                                    ELSE ClosePAndInsert(q, t), "in_table")))
         /\ D(FramesetNotOk(InsertVoid(Reconstruct(q), t)))
         /\ D(FramesetNotOk(InsertVoid(Reconstruct(q), [t EXCEPT !.tag = "img"])))
    BY <1>0, <1>00, <1>6, <1>7, <1>8, <1>9, <1>10
  <1>21. /\ D(InsertVoid(Reconstruct(IF "type=hidden" \in t.data THEN q ELSE FramesetNotOk(q)), t))
         /\ D(FramesetNotOk(InsertVoid(maybe_implicitly_close_p_tag(q), t)))
         /\ D(ReconstructAndInsert(PopIf(q, "option"), t))
         /\ D(StartForeign(q, t, "mathml")) /\ D(StartForeign(q, t, "svg"))
    BY <1>0, <1>00, <1>11, <1>12, <1>17, <1>18
  <1>22. D(BodyStartTag(q, t))
    BY <1>3, <1>4, <1>5, <1>13, <1>14, <1>15, <1>16, <1>19, <1>20, <1>21 DEF BodyStartTag
  <1> QED
    BY <1>22 DEF D

-----------------------------------------------------------------------------
(***************************************************************************)
(* The end tags of handle_in_body, and its other tokens.                   *)
(***************************************************************************)
\* An end tag owns nothing: the parser is at rest with it as without it.
LEMMA EndTagCalm ==
    ASSUME NEW q, NEW t, Calm(q, Own(t)), t.type = "end"
    PROVE  Calm(q, FALSE) /\ Own(t) = FALSE /\ Calm(ignore_token(q, t), FALSE)
  BY NothingOwned, OwnOf, CalmIgnore

LEMMA EndBodyDisposes ==
    ASSUME NEW q, NEW t, Calm(q, Own(t)), t.type = "end"
    PROVE  Disposed(EndBodyOrHtml(q, t), t)
  <1>1. "after_body" \in NotText
    BY ModesAtHand
  <1>2. Calm(q, FALSE) /\ Calm(SetMode(q, "after_body"), FALSE) /\ Calm(ignore_token(q, t), FALSE)
    BY <1>1, EndTagCalm, CalmSetMode
  <1>3. Disposed(Reprocess(q, "after_body"), t)
    BY <1>1, ComesAgain
  <1>4. \A cond : Disposed(Require(q, cond, "</body>: second open element", SetMode(q, "after_body")), t)
    BY <1>2, CalmDisposed, DisposedRequire DEF Calm, Freeing
  <1> QED
    BY <1>2, <1>3, <1>4, CalmDisposed DEF EndBodyOrHtml

LEMMA EndFormDisposes ==
    ASSUME NEW q, NEW t, Calm(q, Own(t)), t.type = "end"
    PROVE  Disposed(EndForm(q, t), t)
  <1> DEFINE f == [q EXCEPT !.form = NULL]
             r == generate_implied_end_tags(f, "")
             s == generate_implied_end_tags(q, "")
             Stop(n) == n = q.form \/ Name(q, n) \in DefaultScope
             last == [r EXCEPT !.open = RemoveFirst(@, q.form)]
             closed == Require(r, is_open_element(r, q.form), "</form>: not open", last)
             there == is_open_element(q, q.form) /\ q.open[TopOpen(q, Stop)] = q.form
             rest == IF ~there THEN ignore_token(f, t) ELSE closed
  <1>1. Calm(q, FALSE) /\ Calm(f, FALSE) /\ Calm(f, Own(t)) /\ Calm(ignore_token(q, t), FALSE)
    BY EndTagCalm, CalmFields
  <1>2. EndForm(q, t) =
          IF has_open_element(q, "template")
          THEN IF ~InDefaultScope(q, {"form"}) THEN ignore_token(q, t)
               ELSE IF ~IsHtml(s, get_current_node(s), "form") THEN s
               ELSE PopThroughTag(s, "form")
          ELSE IF q.form = NULL THEN ignore_token(f, t)
          ELSE Require(q, q.nodes[q.form].type = "element", "</form>: form pointer", rest)
    BY DEF EndForm
  <1> HIDE DEF f, Stop
  <1>3. Calm(r, FALSE) /\ Calm(s, FALSE)
    BY <1>1, CalmHelpers
  <1> HIDE DEF r, s
  <1>4. Calm(PopThroughTag(s, "form"), FALSE)
    BY <1>3, CalmHelpers
  <1>5. Calm(last, FALSE)
    BY <1>3, CalmFields
  <1> HIDE DEF last
  <1>6. Disposed(closed, t)
    BY <1>3, <1>5, CalmDisposed, DisposedRequire DEF Calm, Freeing
  <1> HIDE DEF closed, there
  <1>7. Disposed(ignore_token(f, t), t)
    BY <1>1, CalmIgnore, CalmDisposed
  <1>8. Disposed(rest, t)
    BY <1>6, <1>7
  <1> HIDE DEF rest
  <1>9. Disposed(Require(q, q.nodes[q.form].type = "element", "</form>: form pointer", rest), t)
    BY <1>1, <1>8, DisposedRequire DEF Calm, Freeing
  <1>10. Disposed(s, t) /\ Disposed(PopThroughTag(s, "form"), t) /\ Disposed(ignore_token(q, t), t)
    BY <1>1, <1>3, <1>4, CalmDisposed
  <1> QED
    BY <1>2, <1>7, <1>9, <1>10

LEMMA EndPDisposes ==
    ASSUME NEW q, NEW t, Calm(q, Own(t)), t.type = "end"
    PROVE  Disposed(EndP(q), t)
  <1>1. Calm(implicitly_close_tags(q, "html", "p"), FALSE)
        /\ Calm(insert_element_of_tag_type(q, "p"), Own(t))
    BY EndTagCalm, CalmHelpers
  <1> QED
    BY <1>1, AgainDisposed, CalmDisposed DEF EndP

LEMMA EndHeadingDisposes ==
    ASSUME NEW q, NEW t, Calm(q, Own(t)), t.type = "end"
    PROVE  Calm(EndHeading(q, t), FALSE)
  <1> DEFINE r == generate_implied_end_tags(q, "")
             Test(n) == Name(r, n) \in Html(HeadingTags)
             top == TopOpen(r, Test)
             done == Require(r, top # 0, "pop: stack exhausted", PopTo(r, top - 1))
  <1>1. EndHeading(q, t) \in {done, ignore_token(q, t)}
    BY DEF EndHeading, PopThrough
  <1>2. Calm(r, FALSE) /\ Calm(ignore_token(q, t), FALSE)
    BY EndTagCalm, CalmHelpers
  <1> HIDE DEF top, r
  <1>3. Calm(done, FALSE)
    BY <1>2, UnderPop DEF Calm
  <1> QED
    BY <1>1, <1>2, <1>3

LEMMA EndScopesDispose ==
    ASSUME NEW q, NEW t, Calm(q, Own(t)), t.type = "end", NEW inScope
    PROVE  Calm(EndInScope(q, t, inScope), FALSE) /\ Calm(EndScoped(q, t), FALSE)
  <1>1. Calm(implicitly_close_tags(q, "html", t.tag), FALSE) /\ Calm(ignore_token(q, t), FALSE)
    BY EndTagCalm, CalmHelpers
  <1>2. Calm(clear_active_formatting_elements(implicitly_close_tags(q, "html", t.tag)), FALSE)
    BY <1>1, CalmHelpers
  <1> QED
    BY <1>1, <1>2 DEF EndInScope, EndScoped

LEMMA OtherEndDisposes ==
    ASSUME NEW q, NEW t, Calm(q, Own(t)), t.type = "end"
    PROVE  Disposed(AnyOtherEndTag(q, t), t)
  <1> DEFINE Stop(n) == Name(q, n) \in Html({t.tag}) \cup Special
             top == TopOpen(q, Stop)
             node == q.open[top]
             r == generate_implied_end_tags(q, t.tag)
             Same(n) == n = node
             at == TopOpen(r, Same)
             done == Require(r, at # 0, "pop: stack exhausted", PopTo(r, at - 1))
             ignored == Require(q, top # 0, "any other end tag", ignore_token(q, t))
  <1>1. AnyOtherEndTag(q, t) \in {done, ignored}
    BY DEF AnyOtherEndTag, PopThrough
  <1>2. Calm(q, FALSE) /\ Calm(r, FALSE) /\ Calm(ignore_token(q, t), FALSE)
    BY EndTagCalm, CalmHelpers
  <1> HIDE DEF r, top, at
  <1>3. Calm(done, FALSE)
    BY <1>2, UnderPop DEF Calm
  <1>4. Disposed(ignored, t)
    BY <1>2, CalmDisposed, DisposedRequire DEF Calm, Freeing
  <1> QED
    BY <1>1, <1>3, <1>4, CalmDisposed

LEMMA BodyEndDisposes ==
    ASSUME NEW q, NEW t \in Tokens, t.type = "end", Ready(q, t)
    PROVE  Disposed(BodyEndTag(q, t), t)
  <1>q. Good(q) /\ Calm(q, Own(t)) /\ Calm(q, FALSE)
    BY EndTagCalm DEF Ready
  <1>1. /\ Disposed(EndBodyOrHtml(q, t), t) /\ Disposed(EndForm(q, t), t) /\ Disposed(EndP(q), t)
        /\ Disposed(AnyOtherEndTag(q, t), t)
    BY <1>q, EndBodyDisposes, EndFormDisposes, EndPDisposes, OtherEndDisposes
  <1>2. /\ Disposed(EndHeading(q, t), t) /\ Disposed(EndScoped(q, t), t)
        /\ \A inScope : Disposed(EndInScope(q, t, inScope), t)
    BY <1>q, EndHeadingDisposes, EndScopesDispose, CalmDisposed
  <1>3. Disposed(adoption_agency_algorithm(q, t.tag), t)
    BY <1>q, CalmFolds, CalmDisposed
  <1>4. t.tag = "template" => Disposed(HeadElement(q, t), t)
    BY HeadElementDisposes DEF IsEnd
  <1>5. Disposed(pop_current_node(insert_element_of_tag_type(Reconstruct(q), "br")), t)
    <2>1. Calm(Reconstruct(q), FALSE)
      BY <1>q, CalmFolds
    <2>2. Calm(insert_element_of_tag_type(Reconstruct(q), "br"), FALSE)
      BY <2>1, CalmHelpers
    <2>3. Calm(pop_current_node(insert_element_of_tag_type(Reconstruct(q), "br")), FALSE)
      BY <2>2, CalmHelpers
    <2> QED
      BY <2>3, CalmDisposed
  <1> QED
    BY <1>1, <1>2, <1>3, <1>4, <1>5 DEF BodyEndTag

LEMMA TemplateEofDisposes ==
    ASSUME NEW q, NEW t, t.type = "eof", Calm(q, Own(t))
    PROVE  Disposed(TemplateEof(q), t)
  <1>1. Calm(q, FALSE) /\ Calm(CloseTemplate(q), Own(t))
    BY NothingOwned, CalmTemplate
  <1> QED
    BY <1>1, AgainDisposed, CalmDisposed DEF TemplateEof

\* Text, white space or other, that is inserted.
LEMMA TextDisposes ==
    ASSUME NEW q, NEW t, Calm(q, Own(t)), t.type \in {"whitespace", "character", "cdata", "null"}
    PROVE  Disposed(insert_text_token(q, t), t) /\ Disposed(FramesetNotOk(insert_text_token(q, t)), t)
  <1>1. Calm(q, FALSE)
    BY NothingOwned
  <1>2. Calm(insert_text_token(q, t), FALSE)
    BY <1>1, CalmHelpers
  <1> QED
    BY <1>2, CalmDisposed, DisposedFlags

LEMMA InBodyDisposes ==
    ASSUME NEW q, NEW t \in Tokens, Ready(q, t)
    PROVE  Disposed(handle_in_body(q, t), t)
  <1>q. Good(q) /\ Calm(q, Own(t)) /\ Good(Reconstruct(q)) /\ Calm(Reconstruct(q), Own(t))
    BY CalmFolds DEF Ready
  <1>1. t.type \in {"null", "doctype"} => Disposed(handle_in_body(q, t), t)
    BY <1>q, CalmIgnore, CalmDisposed DEF handle_in_body
  <1>2. t.type \in {"whitespace", "character", "cdata"} => Disposed(handle_in_body(q, t), t)
    BY <1>q, TextDisposes DEF handle_in_body
  <1>3. t.type = "comment" => Disposed(handle_in_body(q, t), t)
    <2>1. Calm(append_comment_node(q, get_current_node(q)), FALSE)
      BY <1>q, CalmTake
    <2> QED
      BY <2>1, CalmDisposed DEF handle_in_body
  <1>4. t.type = "eof" => Disposed(handle_in_body(q, t), t)
    BY <1>q, TemplateEofDisposes, NothingOwned, CalmDisposed DEF handle_in_body
  <1>5. t.type = "start" => Disposed(handle_in_body(q, t), t)
    BY BodyStartDisposes DEF handle_in_body
  <1>6. t.type = "end" => Disposed(handle_in_body(q, t), t)
    BY BodyEndDisposes DEF handle_in_body
  <1>7. t.type \in TokenTypes
    BY DEF Tokens
  <1> QED
    BY <1>1, <1>2, <1>3, <1>4, <1>5, <1>6, <1>7 DEF TokenTypes

-----------------------------------------------------------------------------
(***************************************************************************)
(* The tokens of the other modes.                                          *)
(***************************************************************************)
LEMMA CommentDisposes ==
    ASSUME NEW q, NEW o, Calm(q, o), NEW t, NEW n
    PROVE  Disposed(Comment(q), t) /\ Disposed(append_comment_node(q, n), t)
  <1>1. \A x : Calm(append_comment_node(q, x), FALSE)
    BY CalmTake
  <1> QED
    BY <1>1, CalmDisposed DEF Comment

LEMMA IgnoreDisposes ==
    ASSUME NEW q, NEW t, Calm(q, Own(t))
    PROVE  Disposed(ignore_token(q, t), t)
  BY CalmIgnore, CalmDisposed

\* The mode is set when the element is inserted.
LEMMA InsertAndSet ==
    ASSUME NEW q, NEW o, Calm(q, o), NEW t, NEW m \in NotText
    PROVE  /\ Calm(SetMode(insert_element_from_token(q, t), m), FALSE)
           /\ Disposed(SetMode(insert_element_from_token(q, t), m), t)
  <1>1. Calm(insert_element_from_token(q, t), FALSE)
    BY CalmTake
  <1> QED
    BY <1>1, CalmSetMode, CalmDisposed

\* An element the token does not name is inserted before the token comes again.
LEMMA InsertAndReprocess ==
    ASSUME NEW q, NEW t, Calm(q, Own(t)), NEW tag, NEW m \in NotText
    PROVE  Disposed(Reprocess(insert_element_of_tag_type(q, tag), m), t)
  <1>1. Calm(insert_element_of_tag_type(q, tag), Own(t))
    BY CalmHelpers
  <1> QED
    BY <1>1, ComesAgain

LEMMA PopAndReprocessDisposes ==
    ASSUME NEW q, NEW t, Calm(q, Own(t)), NEW m \in NotText
    PROVE  Disposed(PopCurrentAndReprocess(q, m), t)
  <1>1. Calm(pop_current_node(q), Own(t))
    BY CalmHelpers
  <1> QED
    BY <1>1, ComesAgain DEF PopCurrentAndReprocess

LEMMA PopAndSet ==
    ASSUME NEW q, NEW o, Calm(q, o), NEW m \in NotText
    PROVE  Calm(SetMode(pop_current_node(q), m), o)
  <1>1. Calm(pop_current_node(q), o)
    BY CalmHelpers
  <1> QED
    BY <1>1, CalmSetMode

LEMMA InitialDisposes ==
    ASSUME NEW q, NEW t \in Tokens, Ready(q, t)
    PROVE  Disposed(handle_initial(q, t), t)
  <1> DEFINE quirks == "quirks" \in t.data
             a == TakeToken(SetMode(q, "before_html"))
             b == [a EXCEPT !.has_doctype = TRUE]
             c == [b EXCEPT !.quirks = quirks]
             d == [q EXCEPT !.quirks = TRUE]
  <1>0. Calm(q, Own(t)) /\ "before_html" \in NotText /\ <<>> \in Seq(NotText)
    BY ModesAtHand DEF Ready
  <1>1. handle_initial(q, t) \in
          {ignore_token(q, t), append_comment_node(q, Document), c, Reprocess(d, "before_html")}
    BY DEF handle_initial, Reprocess
  <1>2. Calm(SetMode(q, "before_html"), Own(t))
    BY <1>0, CalmSetMode
  <1>3. Calm(a, FALSE)
    BY <1>0, <1>2, CalmModes
  <1> HIDE DEF a, quirks
  <1>4. Calm(b, FALSE)
    BY <1>3, CalmFields
  <1> HIDE DEF b
  <1>5. Calm(c, FALSE)
    BY <1>4, CalmFields
  <1>6. Calm(d, Own(t))
    BY <1>0, CalmFields
  <1> HIDE DEF c, d
  <1>7. Disposed(Reprocess(d, "before_html"), t)
    BY <1>0, <1>6, ComesAgain
  <1> QED
    BY <1>0, <1>1, <1>5, <1>7, IgnoreDisposes, CommentDisposes, CalmDisposed

LEMMA CalmRoots ==
    ASSUME NEW q, NEW o, Calm(q, o)
    PROVE  Calm(SetRoot(q), o) /\ Calm(SetHead(q), o)
  <1>1. "before_head" \in NotText /\ "in_head" \in NotText
    BY ModesAtHand
  <1>2. Calm(SetMode(q, "before_head"), o) /\ Calm(SetMode(q, "in_head"), o)
    BY <1>1, CalmSetMode
  <1>3. /\ \A x : Calm([SetMode(q, "before_head") EXCEPT !.root = x], o)
        /\ \A x : Calm([SetMode(q, "in_head") EXCEPT !.head = x], o)
    BY <1>2, CalmFields
  <1> QED
    BY <1>3 DEF SetRoot, SetHead

LEMMA BeforeHtmlDisposes ==
    ASSUME NEW q, NEW t \in Tokens, Ready(q, t)
    PROVE  Disposed(handle_before_html(q, t), t)
  <1>0. Calm(q, Own(t))
    BY DEF Ready
  <1>1. Disposed(SetRoot(insert_element_from_token(q, t)), t)
    <2>1. Calm(insert_element_from_token(q, t), FALSE)
      BY <1>0, CalmTake
    <2> QED
      BY <2>1, CalmRoots, CalmDisposed
  <1>2. Disposed([SetRoot(insert_element_of_tag_type(q, "html")) EXCEPT !.reprocess = TRUE], t)
    <2>1. Calm(insert_element_of_tag_type(q, "html"), Own(t))
      BY <1>0, CalmHelpers
    <2>2. Calm(SetRoot(insert_element_of_tag_type(q, "html")), Own(t))
      BY <2>1, CalmRoots
    <2> QED
      BY <2>2, AgainDisposed
  <1>3. Disposed(ignore_token(q, t), t) /\ Disposed(append_comment_node(q, Document), t)
    BY <1>0, IgnoreDisposes, CommentDisposes
  <1> QED
    BY <1>1, <1>2, <1>3 DEF handle_before_html

LEMMA BeforeHeadDisposes ==
    ASSUME NEW q, NEW t \in Tokens, Ready(q, t)
    PROVE  Disposed(handle_before_head(q, t), t)
  <1>0. Calm(q, Own(t))
    BY DEF Ready
  <1>1. Disposed(SetHead(insert_element_from_token(q, t)), t)
    <2>1. Calm(insert_element_from_token(q, t), FALSE)
      BY <1>0, CalmTake
    <2> QED
      BY <2>1, CalmRoots, CalmDisposed
  <1>2. Disposed([SetHead(insert_element_of_tag_type(q, "head")) EXCEPT !.reprocess = TRUE], t)
    <2>1. Calm(insert_element_of_tag_type(q, "head"), Own(t))
      BY <1>0, CalmHelpers
    <2>2. Calm(SetHead(insert_element_of_tag_type(q, "head")), Own(t))
      BY <2>1, CalmRoots
    <2> QED
      BY <2>2, AgainDisposed
  <1>3. Disposed(ignore_token(q, t), t) /\ Disposed(Comment(q), t)
    BY <1>0, IgnoreDisposes, CommentDisposes
  <1> QED
    BY <1>1, <1>2, <1>3 DEF handle_before_head

LEMMA InHeadDisposes ==
    ASSUME NEW q, NEW t \in Tokens, Ready(q, t)
    PROVE  Disposed(handle_in_head(q, t), t)
  <1>0. Calm(q, Own(t)) /\ {"in_head_noscript", "after_head"} \subseteq NotText
    BY ModesAtHand DEF Ready
  <1>1. t.type = "whitespace" => Disposed(insert_text_token(q, t), t)
    BY <1>0, TextDisposes
  <1>2. /\ Disposed(ignore_token(q, t), t) /\ Disposed(Comment(q), t)
        /\ Disposed(handle_in_body(q, t), t)
        /\ Disposed(SetMode(insert_element_from_token(q, t), "in_head_noscript"), t)
        /\ Disposed(PopCurrentAndReprocess(q, "after_head"), t)
    BY <1>0, IgnoreDisposes, CommentDisposes, InBodyDisposes, InsertAndSet, PopAndReprocessDisposes
  <1>3. t.type = "end" => Disposed(Require(q, IsHtml(q, get_current_node(q), "head"), "</head>: current node",
                                           SetMode(pop_current_node(q), "after_head")), t)
    <2>1. t.type = "end" => Calm(q, FALSE)
      BY <1>0, NothingOwned
    <2>2. t.type = "end" => Disposed(SetMode(pop_current_node(q), "after_head"), t)
      BY <1>0, <2>1, PopAndSet, CalmDisposed
    <2> QED
      BY <1>0, <2>2, DisposedRequire DEF Calm, Freeing
  <1>4. IsStart(t, HeadStartTags) \/ IsEnd(t, {"template"}) => Disposed(HeadElement(q, t), t)
    BY HeadElementDisposes
  <1> QED
    BY <1>1, <1>2, <1>3, <1>4 DEF handle_in_head, IsEnd

\* handle_in_head_noscript forgets the strings of a doctype, and disposes of other tokens.
LEMMA InHeadNoscriptDisposes ==
    ASSUME NEW q, NEW t \in Tokens, Ready(q, t)
    PROVE  \/ Disposed(handle_in_head_noscript(q, t), t)
           \/ t.type = "doctype" /\ handle_in_head_noscript(q, t) = q
  <1> DEFINE a == pop_current_node(q)
             r == [a EXCEPT !.mode = "in_head"]
             leave == Require(q, IsHtml(q, get_current_node(q), "noscript"), "noscript: current node", r)
             again == [leave EXCEPT !.reprocess = TRUE]
  <1>0. Calm(q, Own(t)) /\ "in_head" \in NotText
    BY ModesAtHand DEF Ready
  <1>1. \/ handle_in_head_noscript(q, t) \in
             {handle_in_body(q, t), handle_in_head(q, t), ignore_token(q, t), again}
        \/ t.type = "end" /\ handle_in_head_noscript(q, t) = leave
        \/ t.type = "doctype" /\ handle_in_head_noscript(q, t) = q
    <2> HIDE DEF leave, again
    <2> DEFINE b == handle_in_body(q, t)
               c == handle_in_head(q, t)
               d == ignore_token(q, t)
    <2>1. handle_in_head_noscript(q, t) =
            CASE t.type = "doctype" -> q
              [] IsStart(t, {"html"}) -> b
              [] IsEnd(t, {"noscript"}) -> leave
              [] \/ t.type \in {"whitespace", "comment"}
                 \/ IsStart(t, {"basefont", "bgsound", "link", "meta", "noframes", "style"}) -> c
              [] \/ IsStart(t, {"head", "noscript"})
                 \/ t.type = "end" /\ t.tag \notin {"noscript", "br"} -> d
              [] OTHER -> again
      BY DEF handle_in_head_noscript, leave, again
    <2> HIDE DEF b, c, d
    <2> QED
      BY <2>1 DEF IsEnd, b, c, d
  <1>2. r = SetMode(a, "in_head") /\ Calm(r, Own(t))
    <2>1. r = SetMode(a, "in_head")
      BY DEF SetMode
    <2> QED
      BY <1>0, <2>1, PopAndSet
  <1> HIDE DEF a, r
  <1>3. Calm(leave, Own(t))
    BY <1>0, <1>2, UnderRequire DEF Calm, Freeing
  <1> HIDE DEF leave
  <1>4. Disposed(again, t)
    BY <1>3, AgainDisposed
  <1> HIDE DEF again
  <1>5. t.type = "end" => Disposed(leave, t)
    BY <1>3, NothingOwned, CalmDisposed
  <1>6. Disposed(handle_in_body(q, t), t) /\ Disposed(handle_in_head(q, t), t)
        /\ Disposed(ignore_token(q, t), t)
    BY <1>0, InBodyDisposes, InHeadDisposes, IgnoreDisposes
  <1> QED
    BY <1>1, <1>4, <1>5, <1>6

\* Taking another element off the stack leaves the current one.
LEMMA DropKeepsLast ==
    ASSUME NEW S, NEW s \in Seq(S), NEW n \in S, NEW h, h # n
    PROVE  LET r == RemoveFirst(Append(s, n), h) IN r # <<>> /\ Last(r) = n
  <1> DEFINE o == Append(s, n)
             I == {i \in 1..Len(o) : o[i] = h}
  <1>1. o \in Seq(S) /\ Len(o) = Len(s) + 1 /\ Len(s) \in Nat /\ o[Len(s) + 1] = n
    BY AppendProperties
  <1> HIDE DEF o
  <1>2. CASE I # {}
    <2>1. I \subseteq Nat
      OBVIOUS
    <2>2. Min(I) \in I
      BY <1>2, <2>1, LeastNumber DEF Min
    <2> DEFINE i == Min(I)
               r == RemoveAt(o, i)
    <2>3. RemoveFirst(o, h) = r
      BY <1>2 DEF RemoveFirst, SelectInSeq
    <2> HIDE DEF i
    <2>4. i \in 1..Len(o) /\ i # Len(s) + 1
      BY <1>1, <2>2 DEF i
    <2>5. i \in 1..Len(s)
      BY <1>1, <2>4
    <2>6. /\ r \in Seq(S) /\ Len(r) = Len(o) - 1
          /\ \A j \in 1..(Len(o) - 1) : r[j] = IF j < i THEN o[j] ELSE o[j + 1]
      BY <1>1, <2>4, RemoveAtProperties
    <2> HIDE DEF r
    <2>7. Len(r) = Len(s) /\ Len(s) \in 1..(Len(o) - 1) /\ ~(Len(s) < i)
      BY <1>1, <2>5, <2>6
    <2>8. r[Len(r)] = n
      BY <1>1, <2>6, <2>7
    <2>9. r # <<>>
      BY <2>5, <2>7
    <2> QED
      BY <2>3, <2>8, <2>9 DEF o, Last
  <1>3. CASE I = {}
    <2>1. RemoveFirst(o, h) = o
      BY <1>3 DEF RemoveFirst
    <2>2. o # <<>> /\ o[Len(o)] = n
      BY <1>1
    <2> QED
      BY <2>1, <2>2 DEF o, Last
  <1> QED
    BY <1>2, <1>3

LEMMA AfterHeadElementDisposes ==
    ASSUME NEW q, NEW t \in Tokens, Ready(q, t), IsStart(t, HeadStartTags)
    PROVE  Disposed(AfterHeadElement(q, t), t)
  <1> DEFINE f == maybe_flush_text_node_buffer(q)
             o == [f EXCEPT !.open = Append(@, q.head)]
             h == HeadElement(o, t)
             r == [h EXCEPT !.open = RemoveFirst(@, q.head)]
  <1>1. AfterHeadElement(q, t) = Require(q, q.head # NULL, "after head: no head element", r)
    BY DEF AfterHeadElement
  <1>2. Good(q) /\ Good(f) /\ Elems(q) \subseteq Elems(f) /\ Calm(f, Own(t)) /\ Calm(q, Own(t))
    BY FlushGood, CalmHelpers DEF Grown, Ready
  <1> HIDE DEF f
  <1>3. ASSUME q.head # NULL PROVE Disposed(r, t)
    <2>1. q.head \in Elems(q)
      BY <1>2, <1>3, GoodFacts
    <2>2. q.head \in Elems(f)
      BY <1>2, <2>1
    <2>3. f.open \in Seq(Elems(f))
      BY <1>2, GoodFacts
    <2> DEFINE A == Elems(f)
    <2>4. Append(f.open, q.head) \in Seq(A)
      <3> HIDE DEF A
      <3> QED
        BY <2>2, <2>3, AppendProperties DEF A
    <2>5. Good(o) /\ Calm(o, Own(t))
      BY <1>2, <2>4, SetOpen, CalmFields
    <2>6. o.nodes = f.nodes /\ q.head \in 1..Len(f.nodes) /\ Len(f.nodes) \in Nat
      BY <1>2, <2>2, GoodFacts DEF Good, States
    <2> HIDE DEF o, A
    <2>7. \/ Calm(h, FALSE)
          \/ Reads(h) /\ \E n \in Nat : n > Len(o.nodes) /\ h.open = Append(o.open, n)
      BY <2>5, HeadElementTakes
    <2> HIDE DEF h
    <2>8. CASE Calm(h, FALSE)
      BY <2>8, CalmFields, CalmDisposed
    <2>9. CASE Reads(h) /\ \E n \in Nat : n > Len(o.nodes) /\ h.open = Append(o.open, n)
      <3>1. PICK n \in Nat : n > Len(o.nodes) /\ h.open = Append(o.open, n)
        BY <2>9
      <3>2. n # q.head
        BY <2>6, <3>1
      <3> DEFINE S == Nat
      <3>3. o.open \in Seq(S) /\ n \in S
        <4>1. o.open \in Seq(1..Len(o.nodes))
          BY <2>5, GoodFacts
        <4>2. 1..Len(o.nodes) \subseteq S
          OBVIOUS
        <4> QED
          BY <4>1, <4>2, SeqWiden
      <3> HIDE DEF S
      <3> DEFINE s == RemoveFirst(h.open, q.head)
      <3>4. s # <<>> /\ Last(s) = n
        BY <3>1, <3>2, <3>3, DropKeepsLast
      <3>5. Last(h.open) = n
        BY <3>1, <3>3, AppendNotEmpty DEF Last
      <3> HIDE DEF s
      <3>6. r = [h EXCEPT !.open = s]
        BY DEF s
      <3> HIDE DEF r
      <3>7. /\ Under(r, Controls({"text"}, FALSE, FALSE))
            /\ r.lexer = h.lexer /\ r.nodes = h.nodes /\ r.open = s
        <4>1. Under(h, Controls({"text"}, FALSE, FALSE))
          BY <2>9 DEF Reads
        <4>2. \A x : Under([h EXCEPT !.open = x], Controls({"text"}, FALSE, FALSE))
          BY <4>1, UnderSet
        <4>3. r.lexer = h.lexer /\ r.nodes = h.nodes /\ r.open = s
          BY <3>6, <4>1 DEF Under, ControlFields
        <4> QED
          BY <3>6, <4>2, <4>3
      <3>8. Reads(r)
        BY <2>9, <3>4, <3>5, <3>7 DEF Reads
      <3> QED
        BY <3>8 DEF Disposed
    <2> QED
      BY <2>7, <2>8, <2>9
  <1> HIDE DEF r
  <1>4. CASE q.head # NULL
    BY <1>1, <1>3, <1>4 DEF Require
  <1>5. CASE q.head = NULL
    <2>1. AfterHeadElement(q, t) = Failed(q, "after head: no head element")
      BY <1>1, <1>5 DEF Require, Failed
    <2>2. Stuck(Failed(q, "after head: no head element"))
      BY <1>2, StuckFails DEF Calm, Freeing
    <2> QED
      BY <2>1, <2>2 DEF Disposed
  <1> QED
    BY <1>4, <1>5

LEMMA AfterHeadDisposes ==
    ASSUME NEW q, NEW t \in Tokens, Ready(q, t)
    PROVE  Disposed(handle_after_head(q, t), t)
  <1>0. Calm(q, Own(t)) /\ {"in_body", "in_frameset"} \subseteq NotText
    BY ModesAtHand DEF Ready
  <1>1. t.type = "whitespace" => Disposed(insert_text_token(q, t), t)
    BY <1>0, TextDisposes
  <1>2. /\ Disposed(ignore_token(q, t), t) /\ Disposed(Comment(q), t)
        /\ Disposed(handle_in_body(q, t), t)
        /\ Disposed(SetMode(insert_element_from_token(q, t), "in_frameset"), t)
        /\ Disposed(SetMode(insert_element_from_token(q, t), "in_body"), t)
        /\ Disposed(Reprocess(insert_element_of_tag_type(q, "body"), "in_body"), t)
    BY <1>0, IgnoreDisposes, CommentDisposes, InBodyDisposes, InsertAndSet, InsertAndReprocess
  <1>3. Disposed(FramesetNotOk(SetMode(insert_element_from_token(q, t), "in_body")), t)
    BY <1>2, DisposedFlags
  <1>4. IsStart(t, HeadStartTags) => Disposed(AfterHeadElement(q, t), t)
    BY AfterHeadElementDisposes
  <1>5. IsEnd(t, {"template"}) => Disposed(HeadElement(q, t), t)
    BY HeadElementDisposes
  <1> QED
    BY <1>1, <1>2, <1>3, <1>4, <1>5 DEF handle_after_head

-----------------------------------------------------------------------------
(***************************************************************************)
(* The tokens of the table modes.                                          *)
(***************************************************************************)
LEMMA FosterDisposes ==
    ASSUME NEW q, NEW t \in Tokens, Ready(q, t)
    PROVE  Disposed(FosterInBody(q, t), t)
  <1> DEFINE a == [q EXCEPT !.foster = TRUE]
             b == handle_in_body(a, t)
  <1>1. Ready(a, t)
    BY SetPlain, CalmFields DEF Ready
  <1> HIDE DEF a
  <1>2. Disposed(b, t)
    BY <1>1, InBodyDisposes
  <1> HIDE DEF b
  <1>3. Disposed([b EXCEPT !.foster = FALSE], t)
    BY <1>2, DisposedFlags
  <1> QED
    BY <1>3 DEF FosterInBody, a, b

LEMMA StartCaptionTakes ==
    ASSUME NEW q, NEW o, Calm(q, o), NEW t
    PROVE  Disposed(StartCaption(q, t), t)
  <1> DEFINE a == clear_stack_to_table_context(q)
             b == PushMarker(a)
  <1>1. Calm(a, o)
    BY CalmHelpers DEF clear_stack_to_table_context
  <1> HIDE DEF a
  <1>2. Calm(b, o)
    BY <1>1, CalmHelpers
  <1> HIDE DEF b
  <1>3. "in_caption" \in NotText
    BY ModesAtHand
  <1>4. Disposed(SetMode(insert_element_from_token(b, t), "in_caption"), t)
    BY <1>2, <1>3, InsertAndSet
  <1> QED
    BY <1>4 DEF StartCaption, a, b

LEMMA TableFormDisposes ==
    ASSUME NEW q, NEW t, Calm(q, Own(t))
    PROVE  Disposed(TableForm(q, t), t)
  <1> DEFINE r == insert_element_from_token(q, t)
             n == get_current_node(r)
             s == [r EXCEPT !.form = n]
  <1>1. TableForm(q, t) \in {ignore_token(q, t), pop_current_node(s)}
    BY DEF TableForm
  <1>2. Calm(r, FALSE)
    BY CalmTake
  <1> HIDE DEF r, n
  <1>3. Calm(s, FALSE)
    BY <1>2, CalmFields
  <1> HIDE DEF s
  <1>4. Calm(pop_current_node(s), FALSE)
    BY <1>3, CalmHelpers
  <1> QED
    BY <1>1, <1>4, IgnoreDisposes, CalmDisposed

LEMMA InTableDisposes ==
    ASSUME NEW q, NEW t \in Tokens, Ready(q, t)
    PROVE  Disposed(handle_in_table(q, t), t)
  <1> DEFINE clear == clear_stack_to_table_context(q)
             r == Reprocess(q, "in_table_text")
             s == [r EXCEPT !.orig = q.mode]
  <1>0. Calm(q, Own(t)) /\ q.mode \in NotText
        /\ {"in_column_group", "in_table_body", "in_table_text"} \subseteq NotText
        /\ <<>> \in Seq(NotText)
    BY ModesAtHand DEF Ready, Calm, Under, Controls, Control
  <1>1. Calm(clear, Own(t))
    BY <1>0, CalmHelpers DEF clear_stack_to_table_context
  <1>2. Disposed(Require(q, q.pending.chars = {}, "in_table: text is pending", s), t)
    <2>1. Again(r, t)
      BY <1>0, CalmAgain
    <2> HIDE DEF r
    <2>2. Again(s, t)
      BY <1>0, <2>1, AgainModes
    <2> HIDE DEF s
    <2> QED
      BY <1>0, <2>2, CalmDisposed, DisposedRequire DEF Calm, Freeing
  <1> HIDE DEF clear
  <1>3. /\ Disposed(ignore_token(q, t), t) /\ Disposed(Comment(q), t) /\ Disposed(StartCaption(q, t), t)
        /\ Disposed(TableForm(q, t), t) /\ Disposed(handle_in_body(q, t), t)
        /\ Disposed(FosterInBody(q, t), t)
    BY <1>0, IgnoreDisposes, CommentDisposes, StartCaptionTakes, TableFormDisposes,
       InBodyDisposes, FosterDisposes
  <1>4. Disposed(InsertVoid(q, t), t)
    BY <1>0, CalmInserts, CalmDisposed
  <1>5. /\ Disposed(SetMode(insert_element_from_token(clear, t), "in_column_group"), t)
        /\ Disposed(SetMode(insert_element_from_token(clear, t), "in_table_body"), t)
        /\ Disposed(Reprocess(insert_element_of_tag_type(clear, "colgroup"), "in_column_group"), t)
        /\ Disposed(Reprocess(insert_element_of_tag_type(clear, "tbody"), "in_table_body"), t)
    BY <1>0, <1>1, InsertAndSet, InsertAndReprocess
  <1>6. Disposed([CloseTable(q) EXCEPT !.reprocess = TRUE], t)
    BY <1>0, CalmCloses, AgainDisposed
  <1>7. t.type = "end" => Disposed(CloseTable(q), t) /\ Disposed(q, t)
    <2>1. t.type = "end" => Calm(q, FALSE)
      BY <1>0, NothingOwned
    <2> QED
      BY <2>1, CalmCloses, CalmDisposed
  <1>8. IsStart(t, {"style", "script", "template"}) \/ IsEnd(t, {"template"}) => Disposed(HeadElement(q, t), t)
    <2>1. {"style", "script", "template"} \subseteq HeadStartTags
      BY DEF HeadStartTags
    <2> QED
      BY <2>1, HeadElementDisposes
  <1> HIDE DEF s
  <1>9. IsEnd(t, {"table"}) => t.type = "end"
    BY DEF IsEnd
  <1> QED
    BY <1>2, <1>3, <1>4, <1>5, <1>6, <1>7, <1>8, <1>9 DEF handle_in_table, clear, r, s

LEMMA InTableTextDisposes ==
    ASSUME NEW q, NEW t \in Tokens, Ready(q, t)
    PROVE  Disposed(handle_in_table_text(q, t), t)
  <1> DEFINE a == [q EXCEPT !.foster = TRUE]
             r == IF q.pending.chars \subseteq {"whitespace"} THEN q ELSE Reconstruct(a)
             f == maybe_flush_text_node_buffer(r)
             e == Reprocess(f, q.orig)
             g == [e EXCEPT !.foster = FALSE]
  <1>0. Good(q) /\ Calm(q, Own(t)) /\ q.orig \in NotText
    BY DEF Ready, Calm, Under, Controls, Control
  <1>1. handle_in_table_text(q, t) =
          IF t.type = "null" THEN ignore_token(q, t)
          ELSE IF IsText(t) THEN insert_text_token(q, t) ELSE g
    BY DEF handle_in_table_text
  <1>2. Good(a) /\ Calm(a, Own(t))
    BY <1>0, SetPlain, CalmFields
  <1> HIDE DEF a
  <1>3. Calm(r, Own(t))
    BY <1>0, <1>2, CalmFolds
  <1> HIDE DEF r
  <1>4. Calm(f, Own(t))
    BY <1>3, CalmHelpers
  <1> HIDE DEF f
  <1>5. Disposed(e, t)
    BY <1>0, <1>4, ComesAgain
  <1> HIDE DEF e
  <1>6. Disposed(g, t)
    BY <1>5, DisposedFlags
  <1> HIDE DEF g
  <1>7. IsText(t) => Disposed(insert_text_token(q, t), t)
    BY <1>0, TextDisposes DEF IsText
  <1> QED
    BY <1>0, <1>1, <1>6, <1>7, IgnoreDisposes

LEMMA InCaptionDisposes ==
    ASSUME NEW q, NEW t \in Tokens, Ready(q, t)
    PROVE  Disposed(handle_in_caption(q, t), t)
  <1> DEFINE Close(r) == SetMode(clear_active_formatting_elements(PopThroughTag(r, "caption")), "in_table")
             g == generate_implied_end_tags(q, "")
  <1>0. Calm(q, Own(t)) /\ "in_table" \in NotText
    BY ModesAtHand DEF Ready
  <1>1. \A o : \A r : Calm(r, o) => Calm(Close(r), o)
    <2> TAKE o, r
    <2> HAVE Calm(r, o)
    <2>1. Calm(PopThroughTag(r, "caption"), o)
      BY CalmHelpers
    <2>2. Calm(clear_active_formatting_elements(PopThroughTag(r, "caption")), o)
      BY <2>1, CalmHelpers
    <2> QED
      BY <1>0, <2>2, CalmSetMode
  <1>2. \/ handle_in_caption(q, t) \in
             {ignore_token(q, t), [Close(q) EXCEPT !.reprocess = TRUE], handle_in_body(q, t)}
        \/ t.type = "end" /\ handle_in_caption(q, t) = Close(g)
    BY DEF handle_in_caption, IsEnd
  <1>3. t.type = "end" => Calm(g, FALSE)
    BY <1>0, NothingOwned, CalmHelpers
  <1> HIDE DEF Close, g
  <1>4. t.type = "end" => Disposed(Close(g), t)
    BY <1>1, <1>3, CalmDisposed
  <1>5. Disposed([Close(q) EXCEPT !.reprocess = TRUE], t)
    BY <1>0, <1>1, AgainDisposed
  <1> QED
    BY <1>0, <1>2, <1>4, <1>5, IgnoreDisposes, InBodyDisposes

LEMMA InColumnGroupDisposes ==
    ASSUME NEW q, NEW t \in Tokens, Ready(q, t)
    PROVE  Disposed(handle_in_column_group(q, t), t)
  <1>0. Calm(q, Own(t)) /\ "in_table" \in NotText
    BY ModesAtHand DEF Ready
  <1>1. t.type = "whitespace" => Disposed(insert_text_token(q, t), t)
    BY <1>0, TextDisposes
  <1>2. /\ Disposed(ignore_token(q, t), t) /\ Disposed(Comment(q), t)
        /\ Disposed(handle_in_body(q, t), t) /\ Disposed(PopCurrentAndReprocess(q, "in_table"), t)
    BY <1>0, IgnoreDisposes, CommentDisposes, InBodyDisposes, PopAndReprocessDisposes
  <1>3. Disposed(InsertVoid(q, t), t)
    BY <1>0, CalmInserts, CalmDisposed
  <1>4. IsEnd(t, {"colgroup"}) => Disposed(SetMode(pop_current_node(q), "in_table"), t)
    <2>1. IsEnd(t, {"colgroup"}) => Calm(q, FALSE)
      BY <1>0, NothingOwned DEF IsEnd
    <2> QED
      BY <1>0, <2>1, PopAndSet, CalmDisposed
  <1>5. IsStart(t, {"template"}) \/ IsEnd(t, {"template"}) => Disposed(HeadElement(q, t), t)
    <2>1. {"template"} \subseteq HeadStartTags
      BY DEF HeadStartTags
    <2> QED
      BY <2>1, HeadElementDisposes
  <1> QED
    BY <1>1, <1>2, <1>3, <1>4, <1>5 DEF handle_in_column_group

LEMMA InTableBodyDisposes ==
    ASSUME NEW q, NEW t \in Tokens, Ready(q, t)
    PROVE  Disposed(handle_in_table_body(q, t), t)
  <1> DEFINE clear == clear_stack_to_table_body_context(q)
             leave == SetMode(pop_current_node(clear), "in_table")
             started == SetMode(insert_element_from_token(clear, t), "in_row")
             implied == Reprocess(insert_element_of_tag_type(clear, "tr"), "in_row")
             again == [leave EXCEPT !.reprocess = TRUE]
  <1>0. Calm(q, Own(t)) /\ {"in_table", "in_row"} \subseteq NotText
    BY ModesAtHand DEF Ready
  <1>1. Calm(clear, Own(t))
    BY <1>0, CalmHelpers DEF clear_stack_to_table_body_context
  <1>2. \/ handle_in_table_body(q, t) \in
             {started, implied, again, ignore_token(q, t), handle_in_table(q, t)}
        \/ t.type = "end" /\ handle_in_table_body(q, t) = leave
    <2> DEFINE d == ignore_token(q, t)
               e == handle_in_table(q, t)
               InGroup == \E tag \in RowGroups : InTableScope(q, tag)
    <2>1. handle_in_table_body(q, t) =
            CASE IsStart(t, {"tr"}) -> started
              [] IsStart(t, Cells)  -> implied
              [] IsEnd(t, RowGroups) -> IF InTableScope(q, t.tag) THEN leave ELSE d
              [] IsStart(t, RowGroups \cup {"caption", "col", "colgroup"}) \/ IsEnd(t, {"table"}) ->
                    IF InGroup THEN again ELSE d
              [] IsEnd(t, {"body", "caption", "col", "tr", "colgroup", "html", "td", "th"}) -> d
              [] OTHER -> e
      BY DEF handle_in_table_body
    <2> HIDE DEF started, implied, again, leave, d, e, InGroup
    <2> QED
      BY <2>1 DEF IsEnd, d, e
  <1> HIDE DEF clear
  <1>3. Disposed(started, t) /\ Disposed(implied, t)
    BY <1>0, <1>1, InsertAndSet, InsertAndReprocess
  <1>4. Calm(leave, Own(t))
    BY <1>0, <1>1, PopAndSet
  <1> HIDE DEF started, implied, leave
  <1>5. Disposed(again, t)
    BY <1>4, AgainDisposed
  <1> HIDE DEF again
  <1>6. t.type = "end" => Disposed(leave, t)
    BY <1>4, NothingOwned, CalmDisposed
  <1> QED
    BY <1>0, <1>2, <1>3, <1>5, <1>6, IgnoreDisposes, InTableDisposes

LEMMA InRowDisposes ==
    ASSUME NEW q, NEW t \in Tokens, Ready(q, t)
    PROVE  Disposed(handle_in_row(q, t), t)
  <1> DEFINE clear == clear_stack_to_table_row_context(q)
             leave == SetMode(pop_current_node(clear), "in_table_body")
             cell == SetMode(insert_element_from_token(clear, t), "in_cell")
             started == PushMarker(cell)
             again == [leave EXCEPT !.reprocess = TRUE]
  <1>0. Calm(q, Own(t)) /\ {"in_table_body", "in_cell"} \subseteq NotText
    BY ModesAtHand DEF Ready
  <1>1. Calm(clear, Own(t))
    BY <1>0, CalmHelpers DEF clear_stack_to_table_row_context
  <1>2. \/ handle_in_row(q, t) \in {started, again, ignore_token(q, t), handle_in_table(q, t)}
        \/ t.type = "end" /\ handle_in_row(q, t) = leave
    <2> DEFINE d == ignore_token(q, t)
               e == handle_in_table(q, t)
               InRow == InTableScope(q, "tr")
    <2>1. handle_in_row(q, t) =
            CASE IsStart(t, Cells) -> started
              [] IsEnd(t, {"tr"})  -> IF InRow THEN leave ELSE d
              [] IsStart(t, TablePieces \ Cells) \/ IsEnd(t, RowGroups \cup {"table"}) ->
                    IF InRow /\ (IsEnd(t, RowGroups) => InTableScope(q, t.tag)) THEN again ELSE d
              [] IsEnd(t, {"body", "caption", "col", "colgroup", "html", "td", "th"}) -> d
              [] OTHER -> e
      BY DEF handle_in_row
    <2> HIDE DEF started, again, leave, d, e, InRow
    <2> QED
      BY <2>1 DEF IsEnd, d, e
  <1> HIDE DEF clear
  <1>3. Calm(cell, FALSE)
    BY <1>0, <1>1, InsertAndSet
  <1> HIDE DEF cell
  <1>4. Disposed(started, t)
    BY <1>3, CalmHelpers, CalmDisposed
  <1>5. Calm(leave, Own(t))
    BY <1>0, <1>1, PopAndSet
  <1> HIDE DEF started, leave
  <1>6. Disposed(again, t)
    BY <1>5, AgainDisposed
  <1> HIDE DEF again
  <1>7. t.type = "end" => Disposed(leave, t)
    BY <1>5, NothingOwned, CalmDisposed
  <1> QED
    BY <1>0, <1>2, <1>4, <1>6, <1>7, IgnoreDisposes, InTableDisposes

LEMMA InCellDisposes ==
    ASSUME NEW q, NEW t \in Tokens, Ready(q, t)
    PROVE  Disposed(handle_in_cell(q, t), t)
  <1> DEFINE close == close_table_cell(q, t.tag)
             again == [close_current_cell(q) EXCEPT !.reprocess = TRUE]
  <1>0. Calm(q, Own(t))
    BY DEF Ready
  <1>1. \/ handle_in_cell(q, t) \in {again, ignore_token(q, t), handle_in_body(q, t)}
        \/ t.type = "end" /\ handle_in_cell(q, t) = close
    <2> DEFINE d == ignore_token(q, t)
               e == handle_in_body(q, t)
               InCell == \E tag \in Cells : InTableScope(q, tag)
    <2>1. handle_in_cell(q, t) =
            CASE IsEnd(t, Cells) -> IF InTableScope(q, t.tag) THEN close ELSE d
              [] IsStart(t, TablePieces) -> IF InCell THEN again ELSE d
              [] IsEnd(t, {"body", "caption", "col", "colgroup", "html"}) -> d
              [] IsEnd(t, RowGroups \cup {"table", "tr"}) ->
                    IF InTableScope(q, t.tag) THEN again ELSE d
              [] OTHER -> e
      BY DEF handle_in_cell
    <2> HIDE DEF again, close, d, e, InCell
    <2> QED
      BY <2>1 DEF IsEnd, d, e
  <1>2. Calm(close_current_cell(q), Own(t)) /\ Calm(close, Own(t))
    BY <1>0, CalmCloses
  <1>3. Disposed(again, t)
    BY <1>2, AgainDisposed
  <1> HIDE DEF again, close
  <1>4. t.type = "end" => Disposed(close, t)
    BY <1>2, NothingOwned, CalmDisposed
  <1> QED
    BY <1>0, <1>1, <1>3, <1>4, IgnoreDisposes, InBodyDisposes

-----------------------------------------------------------------------------
(***************************************************************************)
(* The tokens of select, of templates, and of what follows the body.       *)
(***************************************************************************)
LEMMA EndOptgroupDisposes ==
    ASSUME NEW q, NEW t, Calm(q, Own(t)), t.type = "end"
    PROVE  Disposed(EndOptgroup(q, t), t)
  <1> DEFINE r == IF Len(q.open) >= 2 /\ IsHtml(q, q.open[Len(q.open) - 1], "optgroup")
                  THEN PopIf(q, "option") ELSE q
  <1>1. Calm(r, Own(t))
    BY CalmPopIf
  <1>2. EndOptgroup(q, t) \in {pop_current_node(r), ignore_token(r, t)}
    BY DEF EndOptgroup
  <1> HIDE DEF r
  <1>3. Calm(r, FALSE)
    BY <1>1, NothingOwned
  <1>4. Calm(pop_current_node(r), FALSE)
    BY <1>3, CalmHelpers
  <1> QED
    BY <1>1, <1>2, <1>4, IgnoreDisposes, CalmDisposed

LEMMA InSelectDisposes ==
    ASSUME NEW q, NEW t \in Tokens, Ready(q, t)
    PROVE  Disposed(handle_in_select(q, t), t)
  <1>0. Calm(q, Own(t))
    BY DEF Ready
  <1>1. IsText(t) => Disposed(insert_text_token(q, t), t)
    BY <1>0, TextDisposes DEF IsText
  <1>2. /\ Disposed(ignore_token(q, t), t) /\ Disposed(Comment(q), t)
        /\ Disposed(handle_in_body(q, t), t)
    BY <1>0, IgnoreDisposes, CommentDisposes, InBodyDisposes
  <1>3. /\ Disposed(insert_element_from_token(PopIf(q, "option"), t), t)
        /\ Disposed(insert_element_from_token(PopIf(PopIf(q, "option"), "optgroup"), t), t)
    <2>1. Calm(PopIf(q, "option"), Own(t))
      BY <1>0, CalmPopIf
    <2>2. Calm(PopIf(PopIf(q, "option"), "optgroup"), Own(t))
      BY <2>1, CalmPopIf
    <2> QED
      BY <2>1, <2>2, CalmTake, CalmDisposed
  <1>4. t.type = "end" => /\ Disposed(EndOptgroup(q, t), t) /\ Disposed(pop_current_node(q), t)
                          /\ Disposed(close_current_select(q), t)
    <2>1. t.type = "end" => Calm(q, FALSE)
      BY <1>0, NothingOwned
    <2>2. t.type = "end" => Calm(pop_current_node(q), FALSE) /\ Calm(close_current_select(q), FALSE)
      BY <2>1, CalmHelpers, CalmCloses
    <2>3. t.type = "end" => Disposed(EndOptgroup(q, t), t)
      BY <1>0, EndOptgroupDisposes
    <2> QED
      BY <2>2, <2>3, CalmDisposed
  <1>5. Disposed(close_current_select(ignore_token(q, t)), t)
    BY <1>0, CalmIgnore, CalmCloses, CalmDisposed
  <1>6. Disposed([close_current_select(q) EXCEPT !.reprocess = TRUE], t)
    BY <1>0, CalmCloses, AgainDisposed
  <1>7. IsStart(t, {"script", "template"}) \/ IsEnd(t, {"template"}) => Disposed(HeadElement(q, t), t)
    <2>1. {"script", "template"} \subseteq HeadStartTags
      BY DEF HeadStartTags
    <2> QED
      BY <2>1, HeadElementDisposes
  <1>8. \A tags : IsEnd(t, tags) => t.type = "end"
    BY DEF IsEnd
  <1> QED
    BY <1>1, <1>2, <1>3, <1>4, <1>5, <1>6, <1>7, <1>8 DEF handle_in_select

LEMMA InSelectInTableDisposes ==
    ASSUME NEW q, NEW t \in Tokens, Ready(q, t)
    PROVE  Disposed(handle_in_select_in_table(q, t), t)
  <1>0. Calm(q, Own(t))
    BY DEF Ready
  <1>1. handle_in_select_in_table(q, t) \in
          {[close_current_select(q) EXCEPT !.reprocess = TRUE], ignore_token(q, t),
           handle_in_select(q, t)}
    BY DEF handle_in_select_in_table
  <1>2. Disposed([close_current_select(q) EXCEPT !.reprocess = TRUE], t)
    BY <1>0, CalmCloses, AgainDisposed
  <1> QED
    BY <1>0, <1>1, <1>2, IgnoreDisposes, InSelectDisposes

LEMMA SwitchTemplateDisposes ==
    ASSUME NEW q, NEW t, Calm(q, Own(t)), NEW mode \in NotText
    PROVE  Disposed(SwitchTemplateMode(q, mode), t)
  <1> DEFINE r == Reprocess(q, mode)
             s == IF r.tmodes = <<>> THEN r.tmodes ELSE Front(r.tmodes)
             u == Append(s, mode)
  <1>1. Again(r, t)
    BY CalmAgain
  <1>2. SwitchTemplateMode(q, mode) = [r EXCEPT !.tmodes = u]
    BY DEF SwitchTemplateMode
  <1> HIDE DEF r
  <1>3. r.tmodes \in Seq(NotText)
    BY <1>1 DEF Again, Under, Controls, Control
  <1>4. s \in Seq(NotText)
    BY <1>3, LastTyped
  <1> HIDE DEF s
  <1>5. u \in Seq(NotText)
    BY <1>4
  <1> HIDE DEF u
  <1> QED
    BY <1>1, <1>2, <1>5, AgainModes, CalmDisposed

LEMMA InTemplateDisposes ==
    ASSUME NEW q, NEW t \in Tokens, Ready(q, t)
    PROVE  Disposed(handle_in_template(q, t), t)
  <1>0. Calm(q, Own(t))
    BY DEF Ready
  <1>1. Disposed(SwitchTemplateMode(q, TemplateMode(t.tag)), t)
    <2>1. TemplateMode(t.tag) \in NotText
      BY ModesAtHand DEF TemplateMode
    <2> QED
      BY <1>0, <2>1, SwitchTemplateDisposes
  <1>2. Disposed(handle_in_body(q, t), t) /\ Disposed(ignore_token(q, t), t)
    BY <1>0, InBodyDisposes, IgnoreDisposes
  <1>3. t.type = "eof" => Disposed(TemplateEof(q), t)
    BY <1>0, TemplateEofDisposes
  <1>4. Disposed(Require(q, FALSE, "in_template: CDATA", q), t)
    <2>1. Stuck(Failed(q, "in_template: CDATA"))
      BY <1>0, StuckFails DEF Calm, Freeing
    <2> QED
      BY <2>1 DEF Require, Failed, Disposed
  <1>5. IsStart(t, HeadStartTags) \/ IsEnd(t, {"template"}) => Disposed(HeadElement(q, t), t)
    BY HeadElementDisposes
  <1>6. t.type \in TokenTypes
    BY DEF Tokens
  <1> QED
    BY <1>1, <1>2, <1>3, <1>4, <1>5, <1>6 DEF handle_in_template, TokenTypes, IsStart, IsEnd

LEMMA AfterBodyDisposes ==
    ASSUME NEW q, NEW t \in Tokens, Ready(q, t)
    PROVE  Disposed(handle_after_body(q, t), t)
  <1>0. Calm(q, Own(t)) /\ {"after_after_body", "in_body"} \subseteq NotText
    BY ModesAtHand DEF Ready
  <1>1. \/ handle_after_body(q, t) \in
             {handle_in_body(q, t), append_comment_node(q, q.root), ignore_token(q, t),
              Reprocess(q, "in_body")}
        \/ t.type \in {"end", "eof"} /\ handle_after_body(q, t) \in {q, SetMode(q, "after_after_body")}
    BY DEF handle_after_body, IsEnd
  <1>2. t.type \in {"end", "eof"} => Calm(q, FALSE)
    BY <1>0, NothingOwned
  <1>3. t.type \in {"end", "eof"} => Disposed(q, t) /\ Disposed(SetMode(q, "after_after_body"), t)
    BY <1>0, <1>2, CalmSetMode, CalmDisposed
  <1>4. Disposed(Reprocess(q, "in_body"), t)
    BY <1>0, ComesAgain
  <1> QED
    BY <1>0, <1>1, <1>3, <1>4, InBodyDisposes, CommentDisposes, IgnoreDisposes

LEMMA EndFramesetDisposes ==
    ASSUME NEW q, NEW t, Calm(q, Own(t)), t.type = "end"
    PROVE  Disposed(EndFrameset(q, t), t)
  <1>1. EndFrameset(q, t) \in
          {ignore_token(q, t), SetMode(pop_current_node(q), "after_frameset"), pop_current_node(q)}
    BY DEF EndFrameset
  <1>2. Calm(q, FALSE) /\ "after_frameset" \in NotText
    BY NothingOwned, ModesAtHand
  <1>3. Calm(pop_current_node(q), FALSE) /\ Calm(SetMode(pop_current_node(q), "after_frameset"), FALSE)
    BY <1>2, CalmHelpers, PopAndSet
  <1> QED
    BY <1>1, <1>3, IgnoreDisposes, CalmDisposed

LEMMA FramesetModesDispose ==
    ASSUME NEW q, NEW t \in Tokens, Ready(q, t)
    PROVE  Disposed(handle_in_frameset(q, t), t) /\ Disposed(handle_after_frameset(q, t), t)
  <1>0. Calm(q, Own(t)) /\ "after_after_frameset" \in NotText
    BY ModesAtHand DEF Ready
  <1>1. t.type = "whitespace" => Disposed(insert_text_token(q, t), t)
    BY <1>0, TextDisposes
  <1>2. /\ Disposed(ignore_token(q, t), t) /\ Disposed(Comment(q), t)
        /\ Disposed(handle_in_body(q, t), t)
    BY <1>0, IgnoreDisposes, CommentDisposes, InBodyDisposes
  <1>3. Disposed(insert_element_from_token(q, t), t) /\ Disposed(InsertVoid(q, t), t)
    BY <1>0, CalmTake, CalmInserts, CalmDisposed
  <1>4. t.type \in {"end", "eof"} => Disposed(q, t) /\ Disposed(SetMode(q, "after_after_frameset"), t)
    <2>1. t.type \in {"end", "eof"} => Calm(q, FALSE)
      BY <1>0, NothingOwned
    <2> QED
      BY <1>0, <2>1, CalmSetMode, CalmDisposed
  <1>5. t.type = "end" => Disposed(EndFrameset(q, t), t)
    BY <1>0, EndFramesetDisposes
  <1>6. IsStart(t, {"noframes"}) => Disposed(HeadElement(q, t), t)
    <2>1. {"noframes"} \subseteq HeadStartTags
      BY DEF HeadStartTags
    <2> QED
      BY <2>1, HeadElementDisposes
  <1>7. \A tags : IsEnd(t, tags) => t.type = "end"
    BY DEF IsEnd
  <1>8. Disposed(handle_in_frameset(q, t), t)
    BY <1>1, <1>2, <1>3, <1>4, <1>5, <1>6, <1>7 DEF handle_in_frameset
  <1>9. Disposed(handle_after_frameset(q, t), t)
    BY <1>1, <1>2, <1>4, <1>6, <1>7 DEF handle_after_frameset
  <1> QED
    BY <1>8, <1>9

LEMMA AfterAfterDisposes ==
    ASSUME NEW q, NEW t \in Tokens, Ready(q, t)
    PROVE  Disposed(handle_after_after_body(q, t), t) /\ Disposed(handle_after_after_frameset(q, t), t)
  <1>0. Calm(q, Own(t)) /\ "in_body" \in NotText
    BY ModesAtHand DEF Ready
  <1>1. /\ Disposed(append_comment_node(q, Document), t) /\ Disposed(handle_in_body(q, t), t)
        /\ Disposed(ignore_token(q, t), t) /\ Disposed(Reprocess(q, "in_body"), t)
    BY <1>0, CommentDisposes, InBodyDisposes, IgnoreDisposes, ComesAgain
  <1>2. t.type = "eof" => Disposed(q, t)
    BY <1>0, NothingOwned, CalmDisposed
  <1>3. IsStart(t, {"noframes"}) => Disposed(HeadElement(q, t), t)
    <2>1. {"noframes"} \subseteq HeadStartTags
      BY DEF HeadStartTags
    <2> QED
      BY <2>1, HeadElementDisposes
  <1>4. Disposed(handle_after_after_body(q, t), t)
    BY <1>1, <1>2 DEF handle_after_after_body
  <1>5. Disposed(handle_after_after_frameset(q, t), t)
    BY <1>1, <1>2, <1>3 DEF handle_after_after_frameset
  <1> QED
    BY <1>4, <1>5

LEMMA ForeignDisposes ==
    ASSUME NEW q, NEW t \in Tokens, Ready(q, t), t.type # "eof"
    PROVE  Disposed(handle_in_foreign_content(q, t), t)
  <1> DEFINE r == insert_foreign_element(q, t, q.nodes[get_adjusted_current_node(q)].ns)
             s == PopTo(q, ForeignMatch(q, t) - 1)
             d == ignore_token(q, t)
             u == insert_text_token(q, t)
             c == Comment(q)
             b == BreakOut(q)
             e == IF t.selfclosing THEN pop_current_node(r) ELSE r
  <1>0. Calm(q, Own(t))
    BY DEF Ready
  <1>1. handle_in_foreign_content(q, t) =
          CASE t.type \in {"null", "whitespace"}  -> u
            [] t.type \in {"cdata", "character"}  -> FramesetNotOk(u)
            [] t.type = "comment" -> c
            [] t.type = "doctype" -> d
            [] t.type = "start" /\ BreaksOut(t) /\ ~is_fragment_parser(q) -> b
            [] t.type = "start" /\ (BreaksOut(t) => is_fragment_parser(q)) -> e
            [] t.type = "end" -> s
    BY DEF handle_in_foreign_content
  <1>2. t.type \in {"null", "whitespace", "cdata", "character"} => Disposed(u, t) /\ Disposed(FramesetNotOk(u), t)
    BY <1>0, TextDisposes
  <1>3. Disposed(c, t) /\ Disposed(d, t)
    BY <1>0, CommentDisposes, IgnoreDisposes
  <1>4. Disposed(b, t)
    <2>1. \A n : Calm(PopTo(q, n), Own(t))
      BY <1>0, CalmHelpers
    <2>2. \A n : Disposed([PopTo(q, n) EXCEPT !.reprocess = TRUE], t)
      BY <2>1, AgainDisposed
    <2> QED
      BY <2>2 DEF BreakOut
  <1>5. Disposed(e, t)
    <2>1. Calm(r, FALSE)
      BY <1>0, CalmTake
    <2> HIDE DEF r
    <2> QED
      BY <2>1, CalmHelpers, CalmDisposed
  <1>6. t.type = "end" => Disposed(s, t)
    <2>1. t.type = "end" => Calm(q, FALSE)
      BY <1>0, NothingOwned
    <2> QED
      BY <2>1, CalmHelpers, CalmDisposed
  <1> HIDE DEF r, s, d, u, c, b, e
  <1>7. t.type \in TokenTypes
    BY DEF Tokens
  <1> QED
    BY <1>1, <1>2, <1>3, <1>4, <1>5, <1>6, <1>7 DEF TokenTypes

-----------------------------------------------------------------------------
(***************************************************************************)
(* The text of an element.                                                 *)
(***************************************************************************)
\* The tokens that can come while the text of an element is read.
LEMMA ReadsOn ==
    ASSUME NEW q, Reads(q), NEW t, IsText(t)
    PROVE  Reads(insert_text_token(q, t)) /\ Reads(ignore_token(q, t))
  <1> DEFINE K == Controls({"text"}, FALSE, FALSE)
             r == insert_text_token(q, t)
             d == ignore_token(q, t)
  <1>1. Under(q, K) /\ q.owned = FALSE
    BY DEF Reads, Under, Controls, Control
  <1>2. d = [q EXCEPT !.owned = FALSE]
    BY DEF ignore_token, Require, IsText, OwningTypes
  <1>3. Under(r, K)
    BY <1>1, UnderText
  <1>4. Under(d, K) /\ d.lexer = q.lexer /\ d.open = q.open /\ d.nodes = q.nodes
    BY <1>1, <1>2 DEF Under, Controls, Control, ControlFields
  <1>5. r.lexer = q.lexer /\ r.open = q.open /\ r.nodes = q.nodes
    BY <1>1 DEF insert_text_token, Under, ControlFields
  <1> QED
    BY <1>3, <1>4, <1>5 DEF Reads

\* The parser is in an element's text, and nothing is owned.
InText(q) == Under(q, Controls({"text"}, FALSE, FALSE))

\* handle_text, when the text ends.
LEMMA TextEnds ==
    ASSUME NEW q, InText(q), NEW t, t.type \in {"end", "eof"}
    PROVE  Disposed(handle_text(q, t), t)
  <1> DEFINE r == pop_current_node(q)
             a == [r EXCEPT !.mode = q.orig]
             again == r.reprocess \/ t.type = "eof"
             b == [a EXCEPT !.reprocess = again]
  <1>1. handle_text(q, t) = b
    BY DEF handle_text, IsText
  <1>2. Under(r, Controls({"text"}, FALSE, FALSE)) /\ q.orig \in NotText
    <2> DEFINE K == Controls({"text"}, FALSE, FALSE)
    <2>1. Under(q, K) /\ q.orig \in NotText
      BY DEF InText, Under, Controls, Control
    <2> HIDE DEF K
    <2>2. Under(r, K)
      BY <2>1, UnderPop
    <2> QED
      BY <2>1, <2>2 DEF K
  <1> HIDE DEF r
  <1>3. Calm(a, FALSE)
    BY <1>2 DEF Calm, Under, Controls, Control, ControlFields
  <1>4. r.reprocess = FALSE
    BY <1>2 DEF Under, Controls, Control
  <1> HIDE DEF a
  <1>5. Own(t) = FALSE
    BY OwnOf
  <1>6. CASE t.type = "eof"
    <2>0. again = TRUE
      BY <1>6
    <2> HIDE DEF again
    <2>1. b = [a EXCEPT !.reprocess = TRUE]
      BY <2>0
    <2>2. Calm(a, Own(t))
      BY <1>3, <1>5
    <2>3. Disposed([a EXCEPT !.reprocess = TRUE], t)
      BY <2>2, AgainDisposed
    <2> QED
      BY <1>1, <2>1, <2>3
  <1>7. CASE t.type = "end"
    <2>0. again = FALSE
      BY <1>4, <1>7
    <2> HIDE DEF again
    <2>1. b = [a EXCEPT !.reprocess = FALSE]
      BY <2>0
    <2>2. Calm([a EXCEPT !.reprocess = FALSE], FALSE)
      BY <1>3 DEF Calm, Under, Controls, Control, ControlFields
    <2> QED
      BY <1>1, <2>1, <2>2, CalmDisposed
  <1> QED
    BY <1>6, <1>7

-----------------------------------------------------------------------------
(***************************************************************************)
(* The invariant of the parser of a document.                              *)
(***************************************************************************)
\* The one handler that can drop a token with its parts is handle_in_head_noscript.
Leaks(q) == Calm(q, TRUE) /\ q.mode = "in_head_noscript"

\* The parser waits for the next token.
Rests(q) == Calm(q, FALSE) \/ Reads(q) \/ Leaks(q)

Released(q) == q.mode # "in_head_noscript" => q.owned = FALSE

TokenInv ==
    /\ ControlFields \subseteq DOMAIN p
    /\ p.failed \notin Freeing
    /\ status = "parsing" => IF token = NoToken THEN Rests(p) ELSE Again(p, token)
    /\ status # "aborted" => p.ctx = NULL /\ (token = NoToken => Released(p))

\* In a state of rest nothing waits to be released.
LEMMA RestReleased ==
    ASSUME NEW q, Rests(q)
    PROVE  /\ ControlFields \subseteq DOMAIN q
           /\ q.failed \notin Freeing /\ q.ctx = NULL /\ q.reprocess = FALSE
           /\ Released(q)
  <1>1. CASE Calm(q, FALSE)
    BY <1>1, ControlsAre DEF Calm, Released
  <1>2. CASE Reads(q)
    <2>1. Under(q, Controls({"text"}, FALSE, FALSE))
      BY <1>2 DEF Reads
    <2>2. /\ ControlFields \subseteq DOMAIN q /\ q.failed \notin Freeing /\ q.ctx = NULL
          /\ q.reprocess = FALSE /\ q.owned = FALSE
      BY <2>1, ControlsAre
    <2> QED
      BY <2>2 DEF Released
  <1>3. CASE Leaks(q)
    BY <1>3, ControlsAre DEF Calm, Leaks, Released
  <1> QED
    BY <1>1, <1>2, <1>3 DEF Rests

\* What a turn does with the token once its handler has made r of the state.
MovesTo(r, t) ==
    /\ p' = EndOfTurn(r, t)
    /\ token' = IF p'.reprocess THEN t ELSE NoToken
    /\ status' = IF p'.failed # "" THEN "aborted"
                 ELSE IF TooDeep(p') THEN "too_deep"
                 ELSE IF t = Eof /\ ~p'.reprocess THEN "ended" ELSE "parsing"

\* What a handler makes of a state: the token is disposed of, or a doctype is dropped.
Comes(r, t) == Disposed(r, t) \/ (t.type = "doctype" /\ Leaks(r))

\* The assertions at the end of a turn: the first one holds.
LEMMA EndOfTurnIs ==
    ASSUME NEW r, NEW t, Comes(r, t)
    PROVE  EndOfTurn(r, t) = r \/ Stuck(EndOfTurn(r, t))
  <1> DEFINE e == EndOfTurn(r, t)
             a == Require(r, TooDeep(r) \/ loop_count + 1 < MaxLoopCount, "loop_count", r)
             kept == r.reprocess \/ t.type # "start" \/ ~r.owned
  <1>1. e = Require(r, kept, "start tag not released", a)
    BY DEF EndOfTurn
  <1>2. a = r \/ a = Failed(r, "loop_count")
    BY DEF Require, Failed
  <1>3. e = a \/ (~kept /\ e = Failed(r, "start tag not released"))
    BY <1>1 DEF Require, Failed
  <1> HIDE DEF e, a
  <1>4. CASE Stuck(r)
    <2>1. ASSUME NEW q, Stuck(q), NEW label
          PROVE  Stuck(Failed(q, label))
      BY <2>1 DEF Failed, Stuck, ControlFields
    <2>2. Stuck(a)
      BY <1>2, <1>4, <2>1
    <2>3. Failed(r, "start tag not released") = r \/ Stuck(Failed(r, "start tag not released"))
      BY <1>4, <2>1
    <2>4. Stuck(e)
      BY <1>3, <1>4, <2>2, <2>3
    <2> QED
      BY <2>4 DEF e
  <1>5. CASE ~Stuck(r)
    <2>1. r.reprocess = TRUE \/ r.owned = FALSE \/ t.type = "doctype"
      <3>1. Calm(r, FALSE) \/ Again(r, t) \/ Reads(r) \/ t.type = "doctype"
        BY <1>5 DEF Comes, Disposed
      <3>2. Calm(r, FALSE) => r.owned = FALSE
        BY ControlsAre DEF Calm
      <3>3. Again(r, t) => r.reprocess = TRUE
        BY ControlsAre DEF Again
      <3>4. Reads(r) => r.owned = FALSE
        <4>1. Reads(r) => Under(r, Controls({"text"}, FALSE, FALSE))
          BY DEF Reads
        <4> QED
          BY <4>1, ControlsAre
      <3> QED
        BY <3>1, <3>2, <3>3, <3>4
    <2>2. kept
      BY <2>1
    <2> HIDE DEF kept
    <2>3. Under(r, {Control(r)})
      BY <1>5 DEF Comes, Disposed, Calm, Again, Reads, Leaks, Under
    <2>4. Stuck(Failed(r, "loop_count"))
      BY <2>3, StuckFails DEF Freeing
    <2> QED
      BY <1>2, <1>3, <2>2, <2>4 DEF e
  <1> QED
    BY <1>4, <1>5

\* A token presented again is the token; at rest there is none.
LEMMA TurnTokenInv ==
    ASSUME NEW t \in Tokens, NEW r, MovesTo(r, t), Comes(r, t)
    PROVE  TokenInv'
  <1> DEFINE e == EndOfTurn(r, t)
  <1>1. e = r \/ Stuck(e)
    BY EndOfTurnIs
  <1>2. p' = e
    BY DEF MovesTo
  <1>3. t # NoToken
    <2>1. t.type \in TokenTypes /\ NoToken.type = "none"
      BY DEF Tokens, NoToken, Tok
    <2>2. "none" \notin TokenTypes
      BY DEF TokenTypes
    <2> QED
      BY <2>1, <2>2
  <1> HIDE DEF e
  <1>4. CASE Stuck(e)
    <2>1. ControlFields \subseteq DOMAIN e /\ e.failed \notin Freeing /\ e.failed # ""
      BY <1>4 DEF Stuck
    <2>2. status' = "aborted"
      BY <1>2, <2>1 DEF MovesTo
    <2> QED
      BY <1>2, <2>1, <2>2 DEF TokenInv
  <1>5. CASE ~Stuck(e) /\ Again(r, t)
    <2>1. /\ ControlFields \subseteq DOMAIN r /\ r.failed \notin Freeing /\ r.ctx = NULL
          /\ r.reprocess = TRUE
      BY <1>5, ControlsAre DEF Again
    <2>2. token' = t
      BY <1>1, <1>2, <1>5, <2>1 DEF MovesTo
    <2> QED
      BY <1>1, <1>2, <1>3, <1>5, <2>1, <2>2 DEF TokenInv
  <1>6. CASE ~Stuck(e) /\ Rests(r)
    <2>1. token' = NoToken
      BY <1>1, <1>2, <1>6, RestReleased DEF MovesTo
    <2> QED
      BY <1>1, <1>2, <1>6, <2>1, RestReleased DEF TokenInv
  <1> QED
    BY <1>1, <1>4, <1>5, <1>6 DEF Comes, Disposed, Rests

\* How the parser is presented with the next token.
LEMMA HandledControls ==
    ASSUME NEW M, NEW again, NEW o, Under(p, Controls(M, again, o)), NEW t
    PROVE  /\ Under(Handled(t), Controls(M, FALSE, IF token # NoToken THEN o ELSE Own(t)))
           /\ Handled(t).mode = p.mode
           /\ Handled(t).open = p.open /\ Handled(t).nodes = p.nodes
           /\ Handled(t).lexer = LexerAfter(t)
  <1> DEFINE lexer == LexerAfter(t)
             owned == IF token # NoToken THEN p.owned ELSE t.type \in OwningTypes
             a == [p EXCEPT !.reprocess = FALSE]
             b == [a EXCEPT !.owned = owned]
             c == [b EXCEPT !.lexer = lexer]
             d == [c EXCEPT !.ignoreLF = FALSE]
             last == IF token # NoToken THEN o ELSE Own(t)
  <1>1. Handled(t) = d
    BY DEF Handled, Present
  <1>2. owned = last
    BY ControlsAre DEF Own
  <1> HIDE DEF lexer, owned, last
  <1>3. Under(a, Controls(M, FALSE, o)) /\ a.mode = p.mode /\ a.open = p.open /\ a.nodes = p.nodes
    BY DEF Under, Controls, Control, ControlFields
  <1> HIDE DEF a
  <1>4. Under(b, Controls(M, FALSE, last)) /\ b.mode = a.mode /\ b.open = a.open /\ b.nodes = a.nodes
    BY <1>2, <1>3 DEF Under, Controls, Control, ControlFields
  <1> HIDE DEF b
  <1>5. Under(c, Controls(M, FALSE, last)) /\ c.mode = b.mode /\ c.open = b.open /\ c.nodes = b.nodes
        /\ c.lexer = lexer
    BY <1>4 DEF Under, Controls, Control, ControlFields
  <1> HIDE DEF c
  <1>6. Under(d, Controls(M, FALSE, last)) /\ d.mode = c.mode /\ d.open = c.open /\ d.nodes = c.nodes
        /\ d.lexer = c.lexer
    BY <1>5 DEF Under, Controls, Control, ControlFields
  <1> HIDE DEF d
  <1> QED
    BY <1>1, <1>3, <1>4, <1>5, <1>6 DEF lexer, last

\* A token that comes outside of an element's text.
LEMMA TurnReady ==
    ASSUME IInv, TokenInv, status = "parsing", ~Reads(p), NEW t \in NextTokens
    PROVE  /\ t \in Tokens /\ Ready(Handled(t), t)
           /\ Handled(t).mode = p.mode /\ p.mode \in NotText
  <1>1. t \in Tokens
    BY NextTokensTyped
  <1>2. Good(Handled(t))
    BY <1>1, HandledGood
  <1>3. CASE token = NoToken
    <2>1. PICK o \in BOOLEAN : Calm(p, o)
      BY <1>3 DEF TokenInv, Rests, Leaks
    <2>2. Under(p, Controls(NotText, FALSE, o))
      BY <2>1 DEF Calm
    <2>3. Under(Handled(t), Controls(NotText, FALSE, Own(t))) /\ Handled(t).mode = p.mode
      BY <1>3, <2>2, HandledControls
    <2>4. p.mode \in NotText
      BY <2>2, ControlsAre
    <2> QED
      BY <1>1, <1>2, <2>3, <2>4 DEF Ready, Calm
  <1>4. CASE token # NoToken
    <2>1. t = token
      BY <1>4 DEF NextTokens
    <2>2. Under(p, Controls(NotText, TRUE, Own(t)))
      BY <1>4, <2>1 DEF TokenInv, Again
    <2>3. Under(Handled(t), Controls(NotText, FALSE, Own(t))) /\ Handled(t).mode = p.mode
      BY <1>4, <2>2, HandledControls
    <2>4. p.mode \in NotText
      BY <2>2, ControlsAre
    <2> QED
      BY <1>1, <1>2, <2>3, <2>4 DEF Ready, Calm
  <1> QED
    BY <1>3, <1>4

\* A token that comes in an element's text.
LEMMA TurnInText ==
    ASSUME IInv, TokenInv, status = "parsing", Reads(p), NEW t \in NextTokens
    PROVE  /\ t \in Tokens
           /\ HandlerOf(p, t) \in {"text", "line_feed"}
           /\ IsText(t) => Reads(Handled(t))
           /\ ~IsText(t) => /\ t.type \in {"end", "eof"}
                            /\ InText(Handled(t))
                            /\ HandlerOf(p, t) = "text"
  <1> DEFINE K == Controls({"text"}, FALSE, FALSE)
  <1>1. t \in Tokens
    BY NextTokensTyped
  <1>2. /\ Under(p, K) /\ p.lexer \in {"rcdata", "rawtext", "script"}
        /\ p.open # <<>> /\ p.nodes[Last(p.open)].ns = "html"
    BY DEF Reads
  <1>3. p.mode = "text" /\ p.ctx = NULL
    BY <1>2 DEF Under, Controls, Control
  <1>4. token = NoToken
    <2>1. token # NoToken => p.mode \in NotText
      BY ControlsAre DEF TokenInv, Again
    <2> QED
      BY <1>3, <2>1 DEF NotText
  <1>5. IsText(t) \/ t.type \in {"end", "eof"}
    <2>1. Lexes(t) \/ t = Eof
      BY <1>4 DEF NextTokens
    <2>2. Lexes(t) => IsText(t) \/ t.type = "end"
      BY <1>2 DEF Lexes, IsEnd
    <2>3. Eof.type = "eof"
      BY DEF Eof, Tok
    <2> QED
      BY <2>1, <2>2, <2>3
  <1>6. Own(t) = FALSE
    <2>1. t.type \in {"end", "eof", "whitespace", "character"}
      BY <1>5 DEF IsText
    <2> QED
      BY <2>1, OwnOf
  <1>7. Under(Handled(t), K) /\ Handled(t).open = p.open /\ Handled(t).nodes = p.nodes
        /\ Handled(t).lexer = LexerAfter(t)
    BY <1>2, <1>4, <1>6, HandledControls
  <1>8. IsText(t) => LexerAfter(t) = p.lexer
    BY <1>2 DEF LexerAfter, IsText, IsEnd
  <1>9. get_adjusted_current_node(p) = Last(p.open)
    BY <1>2, <1>3 DEF get_adjusted_current_node, get_current_node
  <1>10. UsesInsertionMode(p, t)
    BY <1>2, <1>9 DEF UsesInsertionMode
  <1>11. HandlerOf(p, t) = IF DropsLineFeed(p, t) THEN "line_feed" ELSE "text"
    BY <1>3, <1>10 DEF HandlerOf
  <1>12. DropsLineFeed(p, t) => IsText(t)
    BY DEF DropsLineFeed, IsText
  <1>13. IsText(t) => Reads(Handled(t))
    BY <1>2, <1>7, <1>8 DEF Reads
  <1>14. InText(Handled(t))
    BY <1>7 DEF InText
  <1> QED
    BY <1>1, <1>5, <1>11, <1>12, <1>13, <1>14

\* The turns of the main loop.
LEMMA MainLoopTokenInv ==
    ASSUME IInv, TokenInv, MainLoop
    PROVE  TokenInv'
  <1>1. ASSUME status = "parsing", NEW t \in NextTokens, NEW r, MovesTo(r, t), NEW h, HandlerOf(p, t) = h,
               h \notin {"text", "line_feed"},
               t \in Tokens /\ Ready(Handled(t), t) => Comes(r, t)
        PROVE  TokenInv'
    <2>1. ~Reads(p)
      BY <1>1, TurnInText
    <2> QED
      BY <1>1, <2>1, TurnReady, TurnTokenInv
  <1>2. CASE HandleInitial
    <2>1. PICK t \in NextTokens : /\ status = "parsing" /\ HandlerOf(p, t) = "initial"
                                  /\ MovesTo(handle_initial(Handled(t), t), t)
      BY <1>2 DEF HandleInitial, Turn, MovesTo, Handled
    <2>2. t \in Tokens /\ Ready(Handled(t), t) => Comes(handle_initial(Handled(t), t), t)
      BY InitialDisposes DEF Comes
    <2> QED
      BY <1>1, <2>1, <2>2
  <1>3. CASE HandleBeforeHtml
    <2>1. PICK t \in NextTokens : /\ status = "parsing" /\ HandlerOf(p, t) = "before_html"
                                  /\ MovesTo(handle_before_html(Handled(t), t), t)
      BY <1>3 DEF HandleBeforeHtml, Turn, MovesTo, Handled
    <2>2. t \in Tokens /\ Ready(Handled(t), t) => Comes(handle_before_html(Handled(t), t), t)
      BY BeforeHtmlDisposes DEF Comes
    <2> QED
      BY <1>1, <2>1, <2>2
  <1>4. CASE HandleBeforeHead
    <2>1. PICK t \in NextTokens : /\ status = "parsing" /\ HandlerOf(p, t) = "before_head"
                                  /\ MovesTo(handle_before_head(Handled(t), t), t)
      BY <1>4 DEF HandleBeforeHead, Turn, MovesTo, Handled
    <2>2. t \in Tokens /\ Ready(Handled(t), t) => Comes(handle_before_head(Handled(t), t), t)
      BY BeforeHeadDisposes DEF Comes
    <2> QED
      BY <1>1, <2>1, <2>2
  <1>5. CASE HandleInHead
    <2>1. PICK t \in NextTokens : /\ status = "parsing" /\ HandlerOf(p, t) = "in_head"
                                  /\ MovesTo(handle_in_head(Handled(t), t), t)
      BY <1>5 DEF HandleInHead, Turn, MovesTo, Handled
    <2>2. t \in Tokens /\ Ready(Handled(t), t) => Comes(handle_in_head(Handled(t), t), t)
      BY InHeadDisposes DEF Comes
    <2> QED
      BY <1>1, <2>1, <2>2
  <1>6. CASE HandleInHeadNoscript
    <2>1. PICK t \in NextTokens : /\ status = "parsing" /\ HandlerOf(p, t) = "in_head_noscript"
                                  /\ MovesTo(handle_in_head_noscript(Handled(t), t), t)
      BY <1>6 DEF HandleInHeadNoscript, Turn, MovesTo, Handled
    <2>2. ~Reads(p)
      BY <2>1, TurnInText
    <2>3. t \in Tokens /\ Ready(Handled(t), t) /\ Handled(t).mode = "in_head_noscript"
      <3>1. p.mode \in NotText
        BY <2>1, <2>2, TurnReady
      <3>2. p.mode = "in_head_noscript"
        BY <2>1 DEF HandlerOf
      <3> QED
        BY <2>1, <2>2, <3>2, TurnReady
    <2>4. CASE Disposed(handle_in_head_noscript(Handled(t), t), t)
      BY <2>1, <2>3, <2>4, TurnTokenInv DEF Comes
    <2>5. CASE t.type = "doctype" /\ handle_in_head_noscript(Handled(t), t) = Handled(t)
      <3>1. Own(t) = TRUE
        BY <2>5, OwnOf
      <3>2. Leaks(Handled(t))
        BY <2>3, <3>1 DEF Ready, Leaks
      <3> QED
        BY <2>1, <2>3, <2>5, <3>2, TurnTokenInv DEF Comes
    <2> QED
      BY <2>3, <2>4, <2>5, InHeadNoscriptDisposes
  <1>7. CASE HandleAfterHead
    <2>1. PICK t \in NextTokens : /\ status = "parsing" /\ HandlerOf(p, t) = "after_head"
                                  /\ MovesTo(handle_after_head(Handled(t), t), t)
      BY <1>7 DEF HandleAfterHead, Turn, MovesTo, Handled
    <2>2. t \in Tokens /\ Ready(Handled(t), t) => Comes(handle_after_head(Handled(t), t), t)
      BY AfterHeadDisposes DEF Comes
    <2> QED
      BY <1>1, <2>1, <2>2
  <1>8. CASE HandleInBody
    <2>1. PICK t \in NextTokens : /\ status = "parsing" /\ HandlerOf(p, t) = "in_body"
                                  /\ MovesTo(handle_in_body(Handled(t), t), t)
      BY <1>8 DEF HandleInBody, Turn, MovesTo, Handled
    <2>2. t \in Tokens /\ Ready(Handled(t), t) => Comes(handle_in_body(Handled(t), t), t)
      BY InBodyDisposes DEF Comes
    <2> QED
      BY <1>1, <2>1, <2>2
  <1>9. CASE HandleText
    <2>1. PICK t \in NextTokens : /\ status = "parsing" /\ HandlerOf(p, t) = "text"
                                  /\ MovesTo(handle_text(Handled(t), t), t)
      BY <1>9 DEF HandleText, Turn, MovesTo, Handled
    <2>2. Reads(p)
      <3>1. SUFFICES ASSUME ~Reads(p) PROVE FALSE
        OBVIOUS
      <3>2. p.mode = "text"
        BY <2>1 DEF HandlerOf
      <3>3. p.mode \in NotText
        BY <2>1, <3>1, TurnReady
      <3> QED
        BY <3>2, <3>3 DEF NotText
    <2>3. t \in Tokens
      BY <2>1, <2>2, TurnInText
    <2>4. CASE IsText(t)
      <3>1. Reads(Handled(t))
        BY <2>1, <2>2, <2>4, TurnInText
      <3>2. handle_text(Handled(t), t) = insert_text_token(Handled(t), t)
        BY <2>4 DEF handle_text
      <3>3. Comes(handle_text(Handled(t), t), t)
        BY <2>4, <3>1, <3>2, ReadsOn DEF Comes, Disposed
      <3> QED
        BY <2>1, <2>3, <3>3, TurnTokenInv
    <2>5. CASE ~IsText(t)
      <3>1. t.type \in {"end", "eof"} /\ InText(Handled(t))
        BY <2>1, <2>2, <2>5, TurnInText
      <3>2. Disposed(handle_text(Handled(t), t), t)
        BY <3>1, TextEnds
      <3>3. Comes(handle_text(Handled(t), t), t)
        BY <3>2 DEF Comes
      <3> QED
        BY <2>1, <2>3, <3>3, TurnTokenInv
    <2> QED
      BY <2>4, <2>5
  <1>10. CASE HandleInTable
    <2>1. PICK t \in NextTokens : /\ status = "parsing" /\ HandlerOf(p, t) = "in_table"
                                  /\ MovesTo(handle_in_table(Handled(t), t), t)
      BY <1>10 DEF HandleInTable, Turn, MovesTo, Handled
    <2>2. t \in Tokens /\ Ready(Handled(t), t) => Comes(handle_in_table(Handled(t), t), t)
      BY InTableDisposes DEF Comes
    <2> QED
      BY <1>1, <2>1, <2>2
  <1>11. CASE HandleInTableText
    <2>1. PICK t \in NextTokens : /\ status = "parsing" /\ HandlerOf(p, t) = "in_table_text"
                                  /\ MovesTo(handle_in_table_text(Handled(t), t), t)
      BY <1>11 DEF HandleInTableText, Turn, MovesTo, Handled
    <2>2. t \in Tokens /\ Ready(Handled(t), t) => Comes(handle_in_table_text(Handled(t), t), t)
      BY InTableTextDisposes DEF Comes
    <2> QED
      BY <1>1, <2>1, <2>2
  <1>12. CASE HandleInCaption
    <2>1. PICK t \in NextTokens : /\ status = "parsing" /\ HandlerOf(p, t) = "in_caption"
                                  /\ MovesTo(handle_in_caption(Handled(t), t), t)
      BY <1>12 DEF HandleInCaption, Turn, MovesTo, Handled
    <2>2. t \in Tokens /\ Ready(Handled(t), t) => Comes(handle_in_caption(Handled(t), t), t)
      BY InCaptionDisposes DEF Comes
    <2> QED
      BY <1>1, <2>1, <2>2
  <1>13. CASE HandleInColumnGroup
    <2>1. PICK t \in NextTokens : /\ status = "parsing" /\ HandlerOf(p, t) = "in_column_group"
                                  /\ MovesTo(handle_in_column_group(Handled(t), t), t)
      BY <1>13 DEF HandleInColumnGroup, Turn, MovesTo, Handled
    <2>2. t \in Tokens /\ Ready(Handled(t), t) => Comes(handle_in_column_group(Handled(t), t), t)
      BY InColumnGroupDisposes DEF Comes
    <2> QED
      BY <1>1, <2>1, <2>2
  <1>14. CASE HandleInTableBody
    <2>1. PICK t \in NextTokens : /\ status = "parsing" /\ HandlerOf(p, t) = "in_table_body"
                                  /\ MovesTo(handle_in_table_body(Handled(t), t), t)
      BY <1>14 DEF HandleInTableBody, Turn, MovesTo, Handled
    <2>2. t \in Tokens /\ Ready(Handled(t), t) => Comes(handle_in_table_body(Handled(t), t), t)
      BY InTableBodyDisposes DEF Comes
    <2> QED
      BY <1>1, <2>1, <2>2
  <1>15. CASE HandleInRow
    <2>1. PICK t \in NextTokens : /\ status = "parsing" /\ HandlerOf(p, t) = "in_row"
                                  /\ MovesTo(handle_in_row(Handled(t), t), t)
      BY <1>15 DEF HandleInRow, Turn, MovesTo, Handled
    <2>2. t \in Tokens /\ Ready(Handled(t), t) => Comes(handle_in_row(Handled(t), t), t)
      BY InRowDisposes DEF Comes
    <2> QED
      BY <1>1, <2>1, <2>2
  <1>16. CASE HandleInCell
    <2>1. PICK t \in NextTokens : /\ status = "parsing" /\ HandlerOf(p, t) = "in_cell"
                                  /\ MovesTo(handle_in_cell(Handled(t), t), t)
      BY <1>16 DEF HandleInCell, Turn, MovesTo, Handled
    <2>2. t \in Tokens /\ Ready(Handled(t), t) => Comes(handle_in_cell(Handled(t), t), t)
      BY InCellDisposes DEF Comes
    <2> QED
      BY <1>1, <2>1, <2>2
  <1>17. CASE HandleInSelect
    <2>1. PICK t \in NextTokens : /\ status = "parsing" /\ HandlerOf(p, t) = "in_select"
                                  /\ MovesTo(handle_in_select(Handled(t), t), t)
      BY <1>17 DEF HandleInSelect, Turn, MovesTo, Handled
    <2>2. t \in Tokens /\ Ready(Handled(t), t) => Comes(handle_in_select(Handled(t), t), t)
      BY InSelectDisposes DEF Comes
    <2> QED
      BY <1>1, <2>1, <2>2
  <1>18. CASE HandleInSelectInTable
    <2>1. PICK t \in NextTokens : /\ status = "parsing" /\ HandlerOf(p, t) = "in_select_in_table"
                                  /\ MovesTo(handle_in_select_in_table(Handled(t), t), t)
      BY <1>18 DEF HandleInSelectInTable, Turn, MovesTo, Handled
    <2>2. t \in Tokens /\ Ready(Handled(t), t) => Comes(handle_in_select_in_table(Handled(t), t), t)
      BY InSelectInTableDisposes DEF Comes
    <2> QED
      BY <1>1, <2>1, <2>2
  <1>19. CASE HandleInTemplate
    <2>1. PICK t \in NextTokens : /\ status = "parsing" /\ HandlerOf(p, t) = "in_template"
                                  /\ MovesTo(handle_in_template(Handled(t), t), t)
      BY <1>19 DEF HandleInTemplate, Turn, MovesTo, Handled
    <2>2. t \in Tokens /\ Ready(Handled(t), t) => Comes(handle_in_template(Handled(t), t), t)
      BY InTemplateDisposes DEF Comes
    <2> QED
      BY <1>1, <2>1, <2>2
  <1>20. CASE HandleAfterBody
    <2>1. PICK t \in NextTokens : /\ status = "parsing" /\ HandlerOf(p, t) = "after_body"
                                  /\ MovesTo(handle_after_body(Handled(t), t), t)
      BY <1>20 DEF HandleAfterBody, Turn, MovesTo, Handled
    <2>2. t \in Tokens /\ Ready(Handled(t), t) => Comes(handle_after_body(Handled(t), t), t)
      BY AfterBodyDisposes DEF Comes
    <2> QED
      BY <1>1, <2>1, <2>2
  <1>21. CASE HandleInFrameset
    <2>1. PICK t \in NextTokens : /\ status = "parsing" /\ HandlerOf(p, t) = "in_frameset"
                                  /\ MovesTo(handle_in_frameset(Handled(t), t), t)
      BY <1>21 DEF HandleInFrameset, Turn, MovesTo, Handled
    <2>2. t \in Tokens /\ Ready(Handled(t), t) => Comes(handle_in_frameset(Handled(t), t), t)
      BY FramesetModesDispose DEF Comes
    <2> QED
      BY <1>1, <2>1, <2>2
  <1>22. CASE HandleAfterFrameset
    <2>1. PICK t \in NextTokens : /\ status = "parsing" /\ HandlerOf(p, t) = "after_frameset"
                                  /\ MovesTo(handle_after_frameset(Handled(t), t), t)
      BY <1>22 DEF HandleAfterFrameset, Turn, MovesTo, Handled
    <2>2. t \in Tokens /\ Ready(Handled(t), t) => Comes(handle_after_frameset(Handled(t), t), t)
      BY FramesetModesDispose DEF Comes
    <2> QED
      BY <1>1, <2>1, <2>2
  <1>23. CASE HandleAfterAfterBody
    <2>1. PICK t \in NextTokens : /\ status = "parsing" /\ HandlerOf(p, t) = "after_after_body"
                                  /\ MovesTo(handle_after_after_body(Handled(t), t), t)
      BY <1>23 DEF HandleAfterAfterBody, Turn, MovesTo, Handled
    <2>2. t \in Tokens /\ Ready(Handled(t), t) => Comes(handle_after_after_body(Handled(t), t), t)
      BY AfterAfterDisposes DEF Comes
    <2> QED
      BY <1>1, <2>1, <2>2
  <1>24. CASE HandleAfterAfterFrameset
    <2>1. PICK t \in NextTokens : /\ status = "parsing" /\ HandlerOf(p, t) = "after_after_frameset"
                                  /\ MovesTo(handle_after_after_frameset(Handled(t), t), t)
      BY <1>24 DEF HandleAfterAfterFrameset, Turn, MovesTo, Handled
    <2>2. t \in Tokens /\ Ready(Handled(t), t) => Comes(handle_after_after_frameset(Handled(t), t), t)
      BY AfterAfterDisposes DEF Comes
    <2> QED
      BY <1>1, <2>1, <2>2
  <1>25. CASE HandleForeignContent
    <2>1. PICK t \in NextTokens : /\ status = "parsing" /\ HandlerOf(p, t) = "foreign"
                                  /\ MovesTo(handle_in_foreign_content(Handled(t), t), t)
      BY <1>25 DEF HandleForeignContent, Turn, MovesTo, Handled
    <2>2. t.type # "eof"
      <3>1. ~Reads(p)
        BY <2>1, TurnInText
      <3>2. p.mode # "foreign"
        BY <2>1, <3>1, TurnReady DEF NotText, Modes
      <3>3. ~UsesInsertionMode(p, t)
        BY <2>1, <3>2 DEF HandlerOf
      <3> QED
        BY <3>3 DEF UsesInsertionMode
    <2>3. t \in Tokens /\ Ready(Handled(t), t) => Comes(handle_in_foreign_content(Handled(t), t), t)
      BY <2>2, ForeignDisposes DEF Comes
    <2> QED
      BY <1>1, <2>1, <2>3
  <1>26. CASE DropLineFeed
    <2>1. PICK t \in NextTokens : /\ status = "parsing" /\ HandlerOf(p, t) = "line_feed"
                                  /\ MovesTo(ignore_token(Handled(t), t), t)
      BY <1>26 DEF DropLineFeed, Turn, MovesTo, Handled
    <2>2. CASE Reads(p)
      <3>1. t \in Tokens /\ IsText(t) /\ Reads(Handled(t))
        BY <2>1, <2>2, TurnInText
      <3>2. Comes(ignore_token(Handled(t), t), t)
        BY <3>1, ReadsOn DEF Comes, Disposed
      <3> QED
        BY <2>1, <3>1, <3>2, TurnTokenInv
    <2>3. CASE ~Reads(p)
      <3>1. t \in Tokens /\ Calm(Handled(t), Own(t))
        BY <2>1, <2>3, TurnReady DEF Ready
      <3>2. Comes(ignore_token(Handled(t), t), t)
        BY <3>1, IgnoreDisposes DEF Comes
      <3> QED
        BY <2>1, <3>1, <3>2, TurnTokenInv
    <2> QED
      BY <2>2, <2>3
  <1> QED
    BY <1>2, <1>3, <1>4, <1>5, <1>6, <1>7, <1>8, <1>9, <1>10, <1>11, <1>12, <1>13,
       <1>14, <1>15, <1>16, <1>17, <1>18, <1>19, <1>20, <1>21, <1>22, <1>23, <1>24, <1>25, <1>26 DEF MainLoop

\* The documents: the parser starts at rest.
LEMMA InitTokenInv ==
    ASSUME Init, input.context = <<>>
    PROVE  TokenInv
  <1>1. p = InitialState /\ token = NoToken /\ status = "parsing"
    BY DEF Init
  <1>2. "initial" \in NotText /\ <<>> \in Seq(NotText)
    BY ModesAtHand
  <1>3. Calm(InitialState, FALSE)
    BY <1>2 DEF Calm, Under, Controls, Control, ControlFields, InitialState, Freeing
  <1>4. Rests(p)
    BY <1>1, <1>3 DEF Rests
  <1> QED
    BY <1>1, <1>4, RestReleased DEF TokenInv

\* Every step of a document's parse keeps the invariant.
LEMMA StepTokenInv ==
    ASSUME IInv, TokenInv, [Next]_vars
    PROVE  TokenInv'
  <1> DEFINE K == {Control(p)}
  <1>0. Under(p, K)
    BY DEF Under, TokenInv
  <1>1. CASE MainLoop
    BY <1>1, MainLoopTokenInv
  <1>2. CASE FinishParsing
    <2> DEFINE r == maybe_flush_text_node_buffer(p)
               s == PopTo(r, 0)
    <2>1. Under(s, K)
      BY <1>0, UnderFlush, UnderPopTo
    <2>2. p' = DestroyContext(s) /\ status' # "parsing" /\ status # "aborted" /\ token' = token
      BY <1>2 DEF FinishParsing
    <2> HIDE DEF s
    <2>3. s.ctx = p.ctx /\ s.mode = p.mode /\ s.owned = p.owned
      BY <2>1 DEF Under, Control
    <2>4. p' = s
      BY <2>2, <2>3 DEF TokenInv, DestroyContext
    <2> QED
      BY <2>1, <2>2, <2>3, <2>4 DEF TokenInv, Under, Released
  <1>3. CASE gumbo_destroy_output
    <2> DEFINE s == Destroy(p, Document)
    <2>1. Under(s, K)
      BY <1>0, UnderDestroy
    <2>2. p' = s /\ status' # "parsing" /\ status # "aborted" /\ token' = token
      BY <1>3 DEF gumbo_destroy_output
    <2> HIDE DEF s
    <2>3. s.ctx = p.ctx /\ s.mode = p.mode /\ s.owned = p.owned
      BY <2>1 DEF Under, Control
    <2> QED
      BY <2>1, <2>2, <2>3 DEF TokenInv, Under, Released
  <1>4. CASE UNCHANGED vars
    BY <1>4 DEF vars, TokenInv
  <1> QED
    BY <1>1, <1>2, <1>3, <1>4 DEF Next, Over

\* The input is the same from the first state to the last.
LEMMA InputStays ==
    ASSUME [Next]_vars
    PROVE  input' = input
  <1>1. MainLoop => input' = input
    BY DEF MainLoop, Turn, HandleInitial, HandleBeforeHtml, HandleBeforeHead, HandleInHead,
       HandleInHeadNoscript, HandleAfterHead, HandleInBody, HandleText, HandleInTable,
       HandleInTableText, HandleInCaption, HandleInColumnGroup, HandleInTableBody, HandleInRow,
       HandleInCell, HandleInSelect, HandleInSelectInTable, HandleInTemplate, HandleAfterBody,
       HandleInFrameset, HandleAfterFrameset, HandleAfterAfterBody, HandleAfterAfterFrameset,
       HandleForeignContent, DropLineFeed
  <1> QED
    BY <1>1 DEF Next, FinishParsing, gumbo_destroy_output, Over, vars

(***************************************************************************)
(* Documents: the invariant holds in every state.                          *)
(***************************************************************************)
LEMMA TokenInvariant == Spec => [](IInv /\ (input.context = <<>> => TokenInv))
  <1>1. Init => IInv /\ (input.context = <<>> => TokenInv)
    BY InitIInv, InitTokenInv
  <1>2. IInv /\ (input.context = <<>> => TokenInv) /\ [Next]_vars
           => (IInv /\ (input.context = <<>> => TokenInv))'
    BY StepIInv, StepTokenInv, InputStays
  <1> QED
    BY <1>1, <1>2, PTL DEF Spec

(***************************************************************************)
(* When a document is parsed, whatever its tokens and however long, what a *)
(* token owns is taken or released once: by the time the next token is     *)
(* read nothing is left of it.  One case is not covered, and leaks: the    *)
(* doctype that handle_in_head_noscript drops without releasing it.        *)
(***************************************************************************)
THEOREM TokensReleased ==
    Spec => [](input.context = <<>> => (p.mode # "in_head_noscript" => TokenReleased))
  <1>1. IInv /\ (input.context = <<>> => TokenInv)
           => (input.context = <<>> => (p.mode # "in_head_noscript" => TokenReleased))
    BY DEF TokenInv, Released, TokenReleased
  <1> QED
    BY <1>1, TokenInvariant, PTL

(***************************************************************************)
(* Nor is a token released twice: the assertions in ignore_token and at    *)
(* the end of a turn of the main loop never fail for a document.           *)
(***************************************************************************)
ReleasedOnce == p.failed \notin Freeing

THEOREM TokensReleasedOnce == Spec => [](input.context = <<>> => ReleasedOnce)
  <1>1. IInv /\ (input.context = <<>> => TokenInv) => (input.context = <<>> => ReleasedOnce)
    BY DEF TokenInv, ReleasedOnce
  <1> QED
    BY <1>1, TokenInvariant, PTL
=============================================================================
