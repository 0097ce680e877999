-------------------------------- MODULE LuaDom --------------------------------
(***************************************************************************)
(* The DOM that gumbo/dom/*.lua puts on top of a parsed tree: nodes with   *)
(* childNodes and parentNode, and the methods of Node, ChildNode, Document *)
(* and Element that change them, called in any order on any nodes.         *)
(*                                                                         *)
(* A Lua table that is a node is a position in `nodes`, nil is NULL.  A    *)
(* method either returns, raises an error (which the caller may catch, so  *)
(* that whatever the call did before it stays), or never ends.             *)
(***************************************************************************)
EXTENDS GumboTree

CONSTANTS Parsed,     \* the node tables to begin with: documents as the parser hands them over
          MaxDomNodes \* bound: how many nodes there ever are

VARIABLES nodes,      \* the nodes, see DomNode
          outcome     \* how the last call ended

vars == <<nodes, outcome>>

(***************************************************************************)
(* `own` is the field ownerDocument of the table itself, NULL if it has    *)
(* none: only createElement and its like and Element:cloneNode set it.     *)
(***************************************************************************)
DomNode(type, own) == [type |-> type, own |-> own, parent |-> NULL, kids |-> <<>>]

DomNodes(size) ==
    [type : {"document", "element", "text", "doctype", "fragment"},
     own : 0..size, parent : 0..size, kids : Seq(1..size)]

implementsParentNode(node) == node.type \in {"document", "element", "fragment"}
implementsChildNode(node)  == node.type \in {"element", "text", "doctype"}

Result(t, out) == [nodes |-> t, outcome |-> out]
Returned(t) == Result(t, "returns")
Raised(t)   == Result(t, "raises")
Hung(t)     == Result(t, "hangs")

-----------------------------------------------------------------------------
(***************************************************************************)
(* What a DOM is.                                                          *)
(***************************************************************************)

\* The nodes below n, n included.
Below(t, n) ==
    LET Down(s, i) == s \cup UNION {ToSet(t[m].kids) : m \in s}
    IN  FoldLeft(Down, {n}, t)

\* A table of nodes; that documents have no ownerDocument is why nothing is put into one.
IsDom(t) ==
    /\ t \in Seq(DomNodes(Len(t)))
    /\ \A n \in DOMAIN t : t[n].type = "document" => t[n].own = NULL

(***************************************************************************)
(* A node is in at most one childNodes, once, and it names the owner of    *)
(* that list as its parentNode: removeChild can take it out again.  (The   *)
(* doctype that the parser puts in front of a document's children has no   *)
(* parentNode.)  Only nodes that may have children have any, and only      *)
(* those that may be children are.                                         *)
(***************************************************************************)
Listed(t) ==
    \A n \in DOMAIN t :
        /\ IsInjective(t[n].kids)
        /\ t[n].kids # <<>> => implementsParentNode(t[n])
        /\ \A m \in ToSet(t[n].kids) :
              /\ implementsChildNode(t[m])
              /\ IF t[m].type = "doctype" THEN t[n].type = "document" ELSE t[m].parent = n
        /\ \A k \in DOMAIN t \ {n} : ToSet(t[n].kids) \cap ToSet(t[k].kids) = {}

\* No node lies below itself.
EndsBelow(t) == \A n \in DOMAIN t : \A m \in ToSet(t[n].kids) : n \notin Below(t, m)

ASSUME ParsedAssumption == \A t \in Parsed : IsDom(t) /\ Listed(t) /\ EndsBelow(t)

-----------------------------------------------------------------------------
(***************************************************************************)
(* What a method reads.                                                    *)
(***************************************************************************)

\* The chain of parents of n does not end: a loop up it ends only at a node it looks for.
Endless(t, n) == \A m \in Ancestors(t, n) : t[m].parent # NULL

Top(t, n) == CHOOSE m \in Ancestors(t, n) : t[m].parent = NULL

\* The field if there is one, else the getter; a document's getter gives nil.
ownerDocument(t, n) ==
    IF t[n].own # NULL \/ t[n].type = "document" THEN t[n].own
    ELSE IF t[Top(t, n)].type = "document" THEN Top(t, n) ELSE t[Top(t, n)].own

ownerDocumentHangs(t, n) == t[n].own = NULL /\ Endless(t, n)

nextSibling(t, n) ==
    LET siblings == t[t[n].parent].kids
        at       == PositionIn(siblings, n)
    IN  IF t[n].parent = NULL \/ at \in {0, Len(siblings)} THEN NULL ELSE siblings[at + 1]

\* As contains, but only the parent of `other` is looked at.
contains_Child(t, self, other) == self = other \/ t[other].parent = self

contains(t, self, other) ==
    self = other \/ (t[self].kids # <<>> /\ self \in Ancestors(t, other))

containsHangs(t, self, other) ==
    t[self].kids # <<>> /\ self \notin Ancestors(t, other) /\ Endless(t, other)

(***************************************************************************)
(* The checks of preInsert, and in the same order of replaceChild.  What   *)
(* they check of a document's children besides is left out: with a         *)
(* document as parent both raise an error anyway when they look for its    *)
(* ownerDocument, and have changed nothing by then.                        *)
(***************************************************************************)
ensurePreInsertionValidity(t, node, parent, child) ==
    IF ~implementsParentNode(t[parent]) \/ parent = node THEN "raises"
    ELSE IF containsHangs(t, node, parent) THEN "hangs"
    ELSE IF /\ ~contains(t, node, parent)
            /\ child = NULL \/ t[child].parent = parent
            /\ implementsChildNode(t[node])
            /\ t[parent].type = "document" \/ t[node].type # "doctype"
         THEN "returns" ELSE "raises"

-----------------------------------------------------------------------------
(***************************************************************************)
(* The methods: the nodes afterwards and how the call ends.                *)
(***************************************************************************)
\* As removeChild, but the child keeps its parentNode.
removeChild_KeepsParent(t, self, child) ==
    LET at == PositionIn(t[self].kids, child)
    IN  IF t[child].parent # self \/ at = 0 THEN Raised(t)
        ELSE Returned([t EXCEPT ![self].kids = RemoveAt(@, at)])

removeChild(t, self, child) ==
    LET at == PositionIn(t[self].kids, child)
    IN  IF t[child].parent # self \/ at = 0 THEN Raised(t)
        ELSE Returned([t EXCEPT ![self].kids = RemoveAt(@, at), ![child].parent = NULL])

remove(t, n) == IF t[n].parent = NULL THEN Returned(t) ELSE removeChild(t, t[n].parent, n)

\* node.ownerDocument = doc: ignored as read-only unless the table has the field.
SetOwner(t, n, doc) == IF t[n].own = NULL THEN t ELSE [t EXCEPT ![n].own = doc]

\* As adoptNode, but the node stays among the children of its old parent.
adoptNode_KeepsPlace(t, doc, n) ==
    IF t[n].type = "document" THEN Raised(t)
    ELSE Returned(SetOwner([t EXCEPT ![n].parent = NULL], n, doc))

adoptNode(t, doc, n) ==
    LET removed == remove(t, n)
    IN  IF t[n].type = "document" THEN Raised(t)
        ELSE IF removed.outcome # "returns" THEN removed
        ELSE Returned(SetOwner(removed.nodes, n, doc))

\* The call parent.ownerDocument:adoptNode(node), with what it may find instead of a document.
AdoptFor(t, parent, node) ==
    IF ownerDocumentHangs(t, parent) THEN Hung(t)
    ELSE IF ownerDocument(t, parent) = NULL THEN Raised(t)
    ELSE adoptNode(t, ownerDocument(t, parent), node)

\* As PlaceBefore, but behind the reference child.
PlaceBefore_Behind(t, parent, node, ref) ==
    LET at == IF ref = NULL THEN Len(t[parent].kids) ELSE PositionIn(t[parent].kids, ref)
    IN  IF ref # NULL /\ at = 0 THEN Raised(t)
        ELSE Returned([t EXCEPT ![parent].kids = InsertAt(@, at + 1, node), ![node].parent = parent])

PlaceBefore(t, parent, node, ref) ==
    LET at == IF ref = NULL THEN Len(t[parent].kids) + 1 ELSE PositionIn(t[parent].kids, ref)
    IN  IF at = 0 THEN Raised(t)
        ELSE Returned([t EXCEPT ![parent].kids = InsertAt(@, at, node), ![node].parent = parent])

(***************************************************************************)
(* insertBefore, and with child = NULL appendChild.  The node may be taken *)
(* from among the children of the same parent.                             *)
(***************************************************************************)
preInsert(t, node, parent, child) ==
    LET valid   == ensurePreInsertionValidity(t, node, parent, child)
        ref     == IF child = node THEN nextSibling(t, node) ELSE child
        adopted == AdoptFor(t, parent, node)
    IN  IF valid # "returns" THEN Result(t, valid)
        ELSE IF adopted.outcome # "returns" THEN adopted
        ELSE PlaceBefore(adopted.nodes, parent, node, ref)

\* As SiblingAfter, without looking whether it is the node that is about to move.
SiblingAfter_Itself(t, node, child) == nextSibling(t, child)

\* The reference child of replaceChild.
SiblingAfter(t, node, child) ==
    IF nextSibling(t, child) = node THEN nextSibling(t, node) ELSE nextSibling(t, child)

replaceChild(t, parent, node, child) ==
    LET valid   == ensurePreInsertionValidity(t, node, parent, child)
        ref     == SiblingAfter(t, node, child)
        adopted == AdoptFor(t, parent, node)
        removed == remove(adopted.nodes, child)
    IN  IF valid # "returns" THEN Result(t, valid)
        ELSE IF adopted.outcome # "returns" THEN adopted
        ELSE IF removed.outcome # "returns" THEN removed
        ELSE preInsert(removed.nodes, node, parent, ref)

(***************************************************************************)
(* The setter of textContent: removeAll empties the list and leaves the    *)
(* children alone, so they still name n as their parent.                   *)
(***************************************************************************)
setTextContent(t, n, hasValue) ==
    LET cleared == [t EXCEPT ![n].kids = <<>>]
        text    == DomNode("text", ownerDocument(cleared, n))
    IN  IF t[n].type \notin {"element", "fragment"} THEN Returned(t)
        ELSE IF ~hasValue THEN Returned(cleared)
        ELSE IF ownerDocumentHangs(cleared, n) THEN Hung(cleared)
        ELSE IF ownerDocument(cleared, n) = NULL THEN Raised(cleared)
        ELSE preInsert(Append(cleared, text), Len(t) + 1, n, NULL)

(***************************************************************************)
(* cloneNode.  The clones of `copied` are appended in one order or other.  *)
(***************************************************************************)
CloneOf(t, m, n, id) ==
    [DomNode(t[m].type, IF t[m].type = "element" THEN ownerDocument(t, m) ELSE NULL)
        EXCEPT !.parent = IF m = n THEN NULL ELSE id[t[m].parent],
               !.kids = [i \in DOMAIN t[m].kids |-> id[t[m].kids[i]]]]

cloneNode(t, n, deep) ==
    LET copied  == SetToSeq(IF deep THEN Below(t, n) ELSE {n})
        id == [m \in ToSet(copied) |-> Len(t) + PositionIn(copied, m)]
        from    == IF deep THEN t ELSE [t EXCEPT ![n].kids = <<>>]
    IN  IF ~implementsChildNode(t[n]) THEN Raised(t)
        ELSE IF \E m \in ToSet(copied) : t[m].type = "element" /\ ownerDocumentHangs(t, m)
        THEN Hung(t)
        ELSE Returned(t \o [i \in DOMAIN copied |-> CloneOf(from, copied[i], n, id)])

-----------------------------------------------------------------------------
(***************************************************************************)
(* The program: any sequence of calls, until one does not end.             *)
(***************************************************************************)
Nodes == DOMAIN nodes
DocumentNodes == {n \in Nodes : nodes[n].type = "document"}

Init == nodes \in Parsed /\ outcome = "returns"

Call(result) ==
    /\ outcome # "hangs" /\ Len(result.nodes) <= MaxDomNodes
    /\ nodes' = result.nodes /\ outcome' = result.outcome

\* createTextNode stands for createComment too: the tree treats the two alike.
createElement(doc)  == Call(Returned(Append(nodes, DomNode("element", doc))))
createTextNode(doc) == Call(Returned(Append(nodes, DomNode("text", doc))))

\* The constructors Text() and Comment(): no ownerDocument.
Text == Call(Returned(Append(nodes, DomNode("text", NULL))))

AdoptNode(doc, n)               == Call(adoptNode(nodes, doc, n))
AppendChild(self, n)            == Call(preInsert(nodes, n, self, NULL))
InsertBefore(self, n, child)    == Call(preInsert(nodes, n, self, child))
ReplaceChild(self, n, child)    == Call(replaceChild(nodes, self, n, child))
RemoveChild(self, child)        == Call(removeChild(nodes, self, child))
RemoveNode(n)                   == Call(remove(nodes, n))
SetTextContent(n, hasValue)     == Call(setTextContent(nodes, n, hasValue))
CloneNode(n, deep)              == Call(cloneNode(nodes, n, deep))

Next ==
    \/ \E doc \in DocumentNodes : createElement(doc) \/ createTextNode(doc)
    \/ Text
    \/ \E doc \in DocumentNodes, n \in Nodes : AdoptNode(doc, n)
    \/ \E self, n \in Nodes : AppendChild(self, n)
    \/ \E self, n, child \in Nodes : InsertBefore(self, n, child)
    \/ \E self, n, child \in Nodes : ReplaceChild(self, n, child)
    \/ \E self, child \in Nodes : RemoveChild(self, child)
    \/ \E n \in Nodes : implementsChildNode(nodes[n]) /\ RemoveNode(n)
    \/ \E n \in Nodes, hasValue \in BOOLEAN : SetTextContent(n, hasValue)
    \/ \E n \in Nodes, deep \in BOOLEAN : CloneNode(n, deep)

Spec == Init /\ [][Next]_vars

-----------------------------------------------------------------------------
(***************************************************************************)
(* What has to stay true of the nodes.                                     *)
(***************************************************************************)

\* However the calls follow one another, childNodes and parentNode fit each other (Listed).
ListedByParent == Listed(nodes)

\* No node comes to lie below itself, so that walk, serialization and cloneNode end.
WalksEnd == EndsBelow(nodes)

(***************************************************************************)
(* docs/api.md: parentNode is the parent of the node if it has one,        *)
(* otherwise nil; so the node is among its children.  (The setter of       *)
(* textContent leaves it stale.)                                           *)
(***************************************************************************)
ParentListsChild ==
    \A n \in Nodes : nodes[n].parent # NULL => n \in ToSet(nodes[nodes[n].parent].kids)

\* The list without n.
Without(list, n) ==
    IF n \in ToSet(list) THEN RemoveAt(list, PositionIn(list, n)) ELSE list

\* Node n has moved to the children of parent, which are now `kids`; all else is as it was.
MovedTo(r, n, parent, kids) ==
    /\ r.nodes[n].parent = parent /\ r.nodes[parent].kids = kids
    /\ \A m \in Nodes \ {parent} : r.nodes[m].kids = Without(nodes[m].kids, n)

InsertsInPlace ==
    \A n, parent \in Nodes : \A child \in Nodes \cup {NULL} :
        LET r      == preInsert(nodes, n, parent, child)
            others == Without(nodes[parent].kids, n)
            kids   == IF child = n THEN nodes[parent].kids
                      ELSE IF child = NULL THEN Append(others, n)
                      ELSE InsertAt(others, PositionIn(others, child), n)
        IN  r.outcome = "returns" => MovedTo(r, n, parent, kids)

ReplacesInPlace ==
    \A parent, n, child \in Nodes :
        LET r      == replaceChild(nodes, parent, n, child)
            others == Without(nodes[parent].kids, n)
            kids   == IF child = n THEN nodes[parent].kids
                      ELSE [others EXCEPT ![PositionIn(others, child)] = n]
        IN  r.outcome = "returns" =>
              MovedTo(r, n, parent, kids) /\ (child # n => r.nodes[child].parent = NULL)

(***************************************************************************)
(* An insertion that returns puts the node right before the reference      *)
(* child, or last, and leaves all else in its order: also when the node    *)
(* was in the same list before the reference child, or is that child.  A   *)
(* replacement puts it where the replaced child was, whichever of the two  *)
(* came first, and leaves that child without a parent.                     *)
(***************************************************************************)
MovesInPlace == InsertsInPlace /\ ReplacesInPlace

(***************************************************************************)
(* While every parentNode is honoured by its list, each of these calls     *)
(* ends, and one that raises an error has changed nothing, although the    *)
(* methods take nodes out of the tree before they have put others in.      *)
(***************************************************************************)
CallsAreAtomic ==
    ParentListsChild =>
        \A a, b \in Nodes :
            \A r \in {removeChild(nodes, a, b)}
                       \cup {preInsert(nodes, a, b, c) : c \in Nodes \cup {NULL}}
                       \cup {replaceChild(nodes, a, b, c) : c \in Nodes} :
                r.outcome = "returns" \/ (r.outcome = "raises" /\ r.nodes = nodes)

=============================================================================
