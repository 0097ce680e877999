-------------------------- MODULE TreeProperties --------------------------
(***************************************************************************)
(* What tree construction has to keep true, whatever the input.            *)
(***************************************************************************)
EXTENDS TreeConstruction

\* The nodes that have not been freed.
Live == {n \in DOMAIN p.nodes : p.nodes[n].type # "freed"}
Elements == {n \in DOMAIN p.nodes : p.nodes[n].type \in ElementTypes}
OpenSet == ToSet(p.open)
Running == status \in {"parsing", "ended", "too_deep"}

-----------------------------------------------------------------------------
(***************************************************************************)
(* The node tree.                                                          *)
(***************************************************************************)

\* No assert() of parser.c fails, no loop runs off the stack, no token is freed twice.
NoAssertFails == p.failed = ""

\* Children vectors and parent pointers describe the same tree, whatever moves in it.
LinksConsistent == LinksAgree(p.nodes)

\* The children of the root that stood behind the body when a frameset replaced it: made
\* after the body, which is freed, and before the frameset.
BehindBody ==
    IF p.root = NULL THEN {}
    ELSE LET kids == ToSet(p.nodes[p.root].kids)
         IN  {m \in kids : \E body \in DOMAIN p.nodes \ (Live \cup {p.ctx}), frameset \in kids :
                 body < m /\ m < frameset /\ Name(p, frameset) = <<"html", "frameset">>}

(***************************************************************************)
(* gumbo.h: "The index within the parent's children vector of this node."  *)
(* It is, through every insertion, removal and swap of children, but for   *)
(* the nodes behind a body that a frameset replaces: that takes the body   *)
(* out by gumbo_vector_remove_at alone, and their index stays one too high *)
(* for good.                                                               *)
(***************************************************************************)
IndexConsistent ==
    \A n \in DOMAIN p.nodes : \A i \in DOMAIN p.nodes[n].kids :
        LET kid == p.nodes[n].kids[i]
        IN  p.nodes[kid].idx = IF n = p.root /\ kid \in BehindBody THEN i ELSE i - 1

\* Every node that is not freed hangs from the document, or is the fragment's context:
\* no subtree that the adoption agency detaches, or the frameset replaces, is lost.
NothingStrays ==
    Running => LET Down(s, i) == s \cup {n \in DOMAIN p.nodes : p.nodes[n].parent \in s}
               IN  Live \ {p.ctx} \subseteq FoldLeft(Down, {Document}, p.nodes)

(***************************************************************************)
(* The outline of a document: comments and the root below the document; in *)
(* the root the head, then one body or one frameset, and noframes elements *)
(* only behind a frameset.  Whatever order the tags come in, and whatever  *)
(* the adoption agency, foster parenting or a late frameset move about.    *)
(***************************************************************************)
ElementKids(n) ==
    LET IsElement(m) == m \in Elements IN SelectSeq(p.nodes[n].kids, IsElement)

DocumentShape ==
    LET shape == [i \in DOMAIN ElementKids(p.root) |-> Name(p, ElementKids(p.root)[i])]
    IN  /\ \A i \in DOMAIN p.nodes[Document].kids :
              LET n == p.nodes[Document].kids[i]
              IN  p.nodes[n].type = "comment" \/ n = p.root
        /\ input.context = <<>> /\ Running /\ p.root # NULL =>
              /\ Len(shape) >= 1 => shape[1] = <<"html", "head">>
              /\ Len(shape) >= 2 => shape[2] \in Html({"body", "frameset"})
              /\ Len(shape) >= 3 => shape[2] = <<"html", "frameset">>
              /\ \A i \in 3..Len(shape) : shape[i] = <<"html", "noframes">>

\* What a table, or a part of one, holds directly: anything else is fostered out of it.
TablesHoldTableParts ==
    \A n \in Elements : Name(p, n) \in FosterTargets =>
        \A i \in DOMAIN p.nodes[n].kids :
            LET kid == p.nodes[n].kids[i]
            IN  \/ Name(p, kid) \in Html(TablePieces \cup {"form", "input", "script", "style", "template"})
                \/ p.nodes[kid].type = "comment"
                \/ p.nodes[kid].type = "whitespace"

(***************************************************************************)
(* The adoption agency moves subtrees but not text: the leaves of the tree *)
(* are in the order in which they were created, that of the source.        *)
(* (Foster parenting moves them, and so does a comment after the body.)    *)
(***************************************************************************)
LeavesInSourceOrder ==
    Running => LET IsLeaf(n) == ~IsContainer(p.nodes[n])
                   leaves    == SelectSeq(tree_traverse(p.nodes, Document).freed, IsLeaf)
               IN  \A i, j \in DOMAIN leaves : i < j => leaves[i] < leaves[j]

\* Whether a child of the root is passed over: the child before it was not, and its index is
\* one too high, which is where tree_traverse goes on behind it.
PassedOver ==
    LET kids == p.nodes[p.root].kids
        passed[i \in DOMAIN kids] == i > 1 /\ kids[i - 1] \in BehindBody /\ ~passed[i - 1]
    IN  passed

\* The nodes that no walk from the document comes to.
OutOfReach ==
    {n \in Live : \E i \in DOMAIN PassedOver :
        PassedOver[i] /\ p.nodes[p.root].kids[i] \in Ancestors(p.nodes, n)}

(***************************************************************************)
(* gumbo_destroy_output frees every node that the parse allocated, but for *)
(* those that an index which is too high makes tree_traverse pass over     *)
(* (the frameset, behind one comment).  And no token is left, unless the   *)
(* depth limit has ended the loop while one waited to be reprocessed.      *)
(***************************************************************************)
DestroyFreesAll ==
    [][ gumbo_destroy_output /\ status' = "destroyed" =>
            Live' = OutOfReach /\ (p'.owned => status = "partial" /\ token # NoToken) ]_vars

\* The forms that </form> has taken off the stack from below the elements in them.
ClosedForms == {n \in Elements : IsHtml(p, n, "form")} \ OpenSet

\* An element that its own tag closes (<col>, <svg/>, the p of a stray </p>) is off the stack
\* again when the loop looks at it.
ClosedAtOnce(n) == n \notin OpenSet /\ p.nodes[n].kids = <<>>

(***************************************************************************)
(* gumbo.h: "Maximum allowed depth for the parse tree."  The loop compares *)
(* it with the stack, and unless it ends the parse no element lies deeper  *)
(* in the tree, which also grows by clones and implied elements.  There    *)
(* are two exceptions.  An element closed at once may lie one level        *)
(* deeper; and a form that has left the stack while elements in it stay    *)
(* open does not count, so that <form><div></form>, again and again, nests *)
(* beyond the limit.                                                       *)
(***************************************************************************)
DepthBounded ==
    status \in {"parsing", "ended", "finished"} =>
        \A n \in Elements :
            LET depth == Cardinality(Ancestors(p.nodes, n) \ ({Document} \cup ClosedForms))
            IN  depth <= input.max_tree_depth + (IF ClosedAtOnce(n) THEN 1 ELSE 0)

-----------------------------------------------------------------------------
(***************************************************************************)
(* The stack of open elements and the list of active formatting elements.  *)
(***************************************************************************)

(***************************************************************************)
(* No pointer that the handlers follow outlives its node, or is on the     *)
(* stack twice (the body that a frameset replaces is destroyed in          *)
(* mid-parse); and the root stays at the bottom of the stack, which is     *)
(* empty only before the root exists.                                      *)
(***************************************************************************)
PointersLive ==
    /\ Running => /\ OpenSet \subseteq Elements
                  /\ IsInjective(p.open)
                  /\ ToSet(p.afe) \subseteq Elements \cup {Marker}
                  /\ {p.root, p.head, p.ctx} \subseteq Elements \cup {NULL}
                  /\ p.form \in Elements \cup {NULL} \/ p.mode \notin {"in_body", "in_table"}
    /\ status = "parsing" => IF p.open = <<>> THEN p.root = NULL ELSE p.open[1] = p.root

(***************************************************************************)
(* The stack is a path down the tree: every open element lies under the    *)
(* one below it on the stack.  The adoption agency has to rebuild both     *)
(* alike.  Left out are formatting elements no longer on the list: step    *)
(* 13.5 of the adoption agency goes on to the next element without taking  *)
(* such an element off the stack.  (Foster parenting breaks the path, see  *)
(* GUMBO_INSERTION_FOSTER_PARENTED in gumbo.h.)                            *)
(***************************************************************************)
StackIsPath ==
    Running => LET OnPath(n) == Name(p, n) \in Html(FormattingTags) => n \in ToSet(p.afe)
                   path == SelectSeq(p.open, OnPath)
               IN  \A i \in 2..Len(path) : path[i - 1] \in Ancestors(p.nodes, path[i])

\* The formatting elements that are open are on the list in the order of the stack.
ListFollowsStack ==
    Running => \A i, j \in DOMAIN p.afe :
        i < j /\ {p.afe[i], p.afe[j]} \subseteq OpenSet =>
            PositionIn(p.open, p.afe[i]) < PositionIn(p.open, p.afe[j])

\* Noah's Ark: at most three equal elements after the last marker.
NoahsArk ==
    Running =>
        LET recent == (LastMarker(p) + 1)..Len(p.afe)
            Equal(i, j) == /\ Name(p, p.afe[i]) = Name(p, p.afe[j])
                           /\ p.nodes[p.afe[i]].data = p.nodes[p.afe[j]].data
        IN  \A i \in recent : Cardinality({j \in recent : Equal(i, j)}) <= 3

(***************************************************************************)
(* Each open td, th, caption, template, applet, marquee or object has put  *)
(* a marker on the list, which keeps what is inside it from closing or     *)
(* reopening formatting elements outside.  (Markers can outnumber them:    *)
(* </template> closes a cell without clearing to the cell's marker.)       *)
(***************************************************************************)
MarkersMatch ==
    status = "parsing" =>
        Cardinality({i \in DOMAIN p.afe : p.afe[i] = Marker})
          >= Cardinality({n \in OpenSet :
                Name(p, n) \in Html({"td", "th", "caption", "template"} \cup ScopedTags)})

-----------------------------------------------------------------------------
(***************************************************************************)
(* The insertion mode.                                                     *)
(***************************************************************************)
OnStack(tags) == \E n \in OpenSet : Name(p, n) \in Html(tags)

\* The mode that a token in the text modes goes back to.
Mode == IF p.mode \in {"text", "in_table_text"} THEN p.orig ELSE p.mode

(***************************************************************************)
(* The insertion mode and the stack agree: a mode whose handlers pop       *)
(* "until a cell", "until a select" and so on is in force only when such   *)
(* an element is there to be found.  (In a fragment the context element    *)
(* stands in for it.)  And each open template, or template context, has    *)
(* its template insertion mode.                                            *)
(***************************************************************************)
ModeFitsStack ==
    /\ Mode = "in_cell" => InTableScope(p, "td") \/ InTableScope(p, "th")
    /\ Mode = "in_caption" => InTableScope(p, "caption")
    /\ Mode = "in_row" => OnStack({"tr", "template"})
    /\ Mode = "in_table_body" => OnStack({"tbody", "thead", "tfoot", "template"})
    /\ Mode \in {"in_table", "in_column_group"} => OnStack({"table", "template"})
    /\ Mode \in {"in_select", "in_select_in_table"} => InSelectScope(p, "select")
    /\ Mode = "in_select_in_table" => OnStack({"table", "template"})
    /\ Mode = "in_template" => OnStack({"template"})
    /\ Mode = "in_head_noscript" => IsHtml(p, p.open[3], "noscript")

TemplateModesFitStack ==
    Len(p.tmodes) = Cardinality({n \in OpenSet : IsHtml(p, n, "template")})
                    + IF p.ctx # NULL /\ p.nodes[p.ctx].tag = "template" THEN 1 ELSE 0

\* While tokens are handled, both kinds of modes find their elements on the stack.
ModesMatchStack ==
    status = "parsing" => TemplateModesFitStack /\ (input.context = <<>> => ModeFitsStack)

\* HTML elements are in foreign content only at an integration point, but for the empty
\* elements that </p> and </br> make anywhere: an end tag that closes no foreign
\* element is left to the HTML rules.
ForeignHoldsNoHtml ==
    \A n \in Elements : LET parent == p.nodes[n].parent IN
        p.nodes[n].ns = "html" /\ parent \in Elements /\ p.nodes[parent].ns # "html" =>
            \/ is_html_integration_point(p, parent) \/ is_mathml_integration_point(p, parent)
            \/ p.nodes[n].tag \in {"p", "br"} /\ p.nodes[n].kids = <<>>

-----------------------------------------------------------------------------
(***************************************************************************)
(* Tokens and text.                                                        *)
(***************************************************************************)

(***************************************************************************)
(* What a token owns is handed to a node or freed by the time the next     *)
(* token is read: "if no element is emitted ..., we need to free it here   *)
(* to prevent a memory leak" (ignore_token).                               *)
(***************************************************************************)
TokenReleased == status # "aborted" /\ token = NoToken => ~p.owned

(***************************************************************************)
(* Text goes where it was read: the place of the pending characters is     *)
(* that of the turn before, or a clone that the adoption agency puts below *)
(* it; and a text node made of them becomes a child of one of the two.     *)
(* (Characters in a table wait for their place, and are left out.)         *)
(***************************************************************************)
TextPlace == get_appropriate_insertion_location(p, NULL).target

FlushedWhereRead ==
    [][ p.pending.chars # {} /\ p.mode # "in_table_text" =>
        LET fresh  == DOMAIN p'.nodes \ DOMAIN p.nodes
            texts  == {n \in fresh : p'.nodes[n].type \in TextTypes}
            places == {TextPlace} \cup {n \in fresh : p'.nodes[n].parent = TextPlace}
        IN  /\ \A n \in texts : p'.nodes[n].parent \in places
            /\ texts = {} /\ p'.pending.chars # {} => TextPlace' \in places
      ]_vars

(***************************************************************************)
(* The parse of a finite input ends: no token is reprocessed for ever.     *)
(***************************************************************************)
ParseEnds == <>(status = "destroyed")
=============================================================================
