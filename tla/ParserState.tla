--------------------------- MODULE ParserState ---------------------------
(***************************************************************************)
(* The state of lib/parser.c and the helpers its token handlers share: the *)
(* stack of open elements, the list of active formatting elements, the     *)
(* text buffer, insertion locations, scopes and implied end tags.          *)
(*                                                                         *)
(* The state is one record p, so that a handler is written as in C: a      *)
(* composition of calls, each taking the state the previous one left.      *)
(*   nodes  the node table (GumboTree); node 1 is the document             *)
(*   open, afe, tmodes  _open_elements, _active_formatting_elements,       *)
(*          _template_insertion_modes, last element at the top             *)
(*   pending  the text buffer: node type and classes of its characters     *)
(*   owned  the current token still owns its heap-allocated parts          *)
(*   has_doctype  the document has one                                   *)
(*   lexer, rawtag  the tokenizer state handlers select, and the start     *)
(*          tag whose end tag leaves it                                    *)
(*   failed  the first assert() that does not hold, or ""                  *)
(* Parse errors, source positions and parse flags are left out.            *)
(***************************************************************************)
EXTENDS GumboTree

Document == 1

\* &kActiveFormattingScopeMarker, in the list of active formatting elements.
Marker == -1

Html(tags)   == {"html"} \X tags
MathML(tags) == {"mathml"} \X tags
Svg(tags)    == {"svg"} \X tags

HeadingTags == {"h1", "h2", "h3", "h4", "h5", "h6"}

DefaultScope ==
    Html({"applet", "caption", "html", "table", "td", "th", "marquee", "object", "template"})
      \cup MathML({"mi", "mo", "mn", "ms", "mtext", "annotation-xml"})
      \cup Svg({"foreignobject", "desc", "title"})

Special ==
    Html({"address", "applet", "area", "article", "aside", "base", "basefont", "bgsound",
          "blockquote", "body", "br", "button", "caption", "center", "col", "colgroup", "dd",
          "details", "dir", "div", "dl", "dt", "embed", "fieldset", "figcaption", "figure",
          "footer", "form", "frame", "frameset", "head", "header", "hgroup", "hr", "html",
          "iframe", "img", "input", "li", "link", "listing", "marquee", "menu", "meta", "nav",
          "noembed", "noframes", "noscript", "object", "ol", "p", "param", "plaintext", "pre",
          "script", "section", "select", "style", "summary", "table", "tbody", "td", "template",
          "textarea", "tfoot", "th", "thead", "title", "tr", "ul", "wbr", "xmp"}
         \cup HeadingTags)
      \cup MathML({"mi", "mo", "mn", "ms", "mtext", "annotation-xml"})
      \cup Svg({"foreignobject", "desc", "title"})

ImpliedEnd == Html({"dd", "dt", "li", "option", "optgroup", "p", "rp", "rb", "rt", "rtc"})

ImpliedEndThorough ==
    Html({"caption", "colgroup", "dd", "dt", "li", "option", "optgroup", "p", "rp", "rt", "rtc",
          "tbody", "td", "tfoot", "th", "head", "tr"})

FosterTargets == Html({"table", "tbody", "tfoot", "thead", "tr"})

-----------------------------------------------------------------------------
\* assert(): goes on with q when the condition holds, records the failure otherwise.
Require(p, cond, label, q) ==
    IF cond THEN q ELSE [p EXCEPT !.failed = IF @ = "" THEN label ELSE @]

Name(p, n) == <<p.nodes[n].ns, p.nodes[n].tag>>
IsHtml(p, n, tag) == n # NULL /\ Name(p, n) = <<"html", tag>>
node_tag_in_set(p, n, set) == n # NULL /\ Name(p, n) \in set

get_current_node(p) == IF p.open = <<>> THEN NULL ELSE Last(p.open)

get_adjusted_current_node(p) ==
    IF Len(p.open) = 1 /\ p.ctx # NULL THEN p.ctx ELSE get_current_node(p)

is_open_element(p, n) == PositionIn(p.open, n) # 0

\* The highest position of the stack whose element passes the test, or 0.
TopOpen(p, Test(_)) == SelectLastInSeq(p.open, Test)

\* has_an_element_in_specific_scope, for the scopes that end at a listed element.
InScope(p, tags, scope) ==
    LET Stop(n) == Name(p, n) \in Html(tags) \cup scope
        top     == TopOpen(p, Stop)
    IN  top # 0 /\ Name(p, p.open[top]) \in Html(tags)

has_open_element(p, tag)  == InScope(p, {tag}, Html({"html"}))
InDefaultScope(p, tags)   == InScope(p, tags, DefaultScope)
InListScope(p, tag)       == InScope(p, {tag}, DefaultScope \cup Html({"ol", "ul"}))
InButtonScope(p, tag)     == InScope(p, {tag}, DefaultScope \cup Html({"button"}))
InTableScope(p, tag)      == InScope(p, {tag}, Html({"html", "table", "template"}))

\* Select scope is negated: it ends at any element other than these two.
InSelectScope(p, tag) ==
    LET Stop(n) == Name(p, n) = <<"html", tag>> \/ Name(p, n) \notin Html({"optgroup", "option"})
        top     == TopOpen(p, Stop)
    IN  top # 0 /\ IsHtml(p, p.open[top], tag)

-----------------------------------------------------------------------------
(***************************************************************************)
(* Where a node goes.                                                      *)
(***************************************************************************)
get_appropriate_insertion_location(p, override) ==
    LET target    == IF override # NULL THEN override
                     ELSE IF p.root = NULL THEN Document ELSE get_current_node(p)
        IsTemplate(n) == IsHtml(p, n, "template")
        IsTable(n)    == IsHtml(p, n, "table")
        template  == TopOpen(p, IsTemplate)
        table     == TopOpen(p, IsTable)
        AtEnd(n)  == [target |-> n, index |-> -1]
    IN  IF ~p.foster \/ Name(p, target) \notin FosterTargets THEN AtEnd(target)
        ELSE IF template > table THEN AtEnd(p.open[template])
        ELSE IF table = 0 THEN AtEnd(p.open[1])
        ELSE IF p.nodes[p.open[table]].parent # NULL
        THEN [target |-> p.nodes[p.open[table]].parent, index |-> p.nodes[p.open[table]].idx]
        ELSE AtEnd(p.open[table - 1])

\* The id the next node created gets.
NextId(p) == Len(p.nodes) + 1

\* The same table.  TLC evaluates a function given by a rule at every use, and a tuple once.
Settled(nodes) == SubSeq(nodes, 1, Len(nodes))

Create(p, node) == [p EXCEPT !.nodes = Append(@, node)]

AppendTo(p, parent, n) ==
    Require(p, /\ parent \in DOMAIN p.nodes
              /\ p.nodes[n].parent = NULL
              /\ IsContainer(p.nodes[parent]), "append_node",
           [p EXCEPT !.nodes = append_node(@, parent, n)])

\* The assertions of insert_node.
Fits(nodes, n, loc) ==
    /\ loc.target \in DOMAIN nodes
    /\ nodes[n].parent = NULL
    /\ IsContainer(nodes[loc.target])
    /\ loc.index # -1 =>
          /\ nodes[loc.target].type = "document" => nodes[loc.target].kids = <<>>
          /\ loc.index \in 0..(Len(nodes[loc.target].kids) - 1)

InsertAtLocation(p, n, loc) ==
    Require(p, Fits(p.nodes, n, loc), "insert_node",
           [p EXCEPT !.nodes = Settled(insert_node(@, n, loc))])

NoText == [type |-> "whitespace", chars |-> {}]

\* Text whose place is the document is destroyed before it is inserted.
maybe_flush_text_node_buffer(p) ==
    LET loc  == get_appropriate_insertion_location(p, NULL)
        text == NewNode(p.pending.type, "none", "", p.pending.chars)
    IN  IF p.pending.chars = {} THEN p
        ELSE IF loc.target = Document THEN [p EXCEPT !.pending = NoText]
        ELSE InsertAtLocation(Create([p EXCEPT !.pending = NoText], text), NextId(p), loc)

\* A NULL token is inserted as U+FFFD and leaves the buffer's node type alone.
insert_text_token(p, t) ==
    [p EXCEPT !.pending.chars = @ \cup {t.type},
              !.pending.type = CASE t.type = "character" -> "text"
                                 [] t.type = "cdata" -> "cdata"
                                 [] OTHER -> @]

-----------------------------------------------------------------------------
(***************************************************************************)
(* The token: its heap-allocated parts are handed to a node, or freed.     *)
(***************************************************************************)
TakeToken(p) == [p EXCEPT !.owned = FALSE]

OwningTypes == {"start", "comment", "doctype"}

\* As ignore_token, but only comments are freed.
ignore_token_CommentsOnly(p, t) == [p EXCEPT !.owned = @ /\ t.type # "comment"]

\* gumbo_token_destroy leaves the freed pointers in the token.
ignore_token(p, t) ==
    Require(p, t.type \in OwningTypes => p.owned, "token freed twice", [p EXCEPT !.owned = FALSE])

append_comment_node(p, parent) ==
    LET q == maybe_flush_text_node_buffer(p)
    IN  TakeToken(AppendTo(Create(q, NewNode("comment", "none", "", {})), parent, NextId(q)))

merge_attributes(p, t, n) ==
    TakeToken([p EXCEPT !.nodes[n].data = @ \cup t.data])

-----------------------------------------------------------------------------
(***************************************************************************)
(* The stack of open elements.                                             *)
(***************************************************************************)
\* Inserts node number NextId(q) at the current place and pushes it.
insert_element(p, node, reconstructing) ==
    LET q == IF reconstructing THEN p ELSE maybe_flush_text_node_buffer(p)
        n == NextId(q)
        r == Create(q, node)
    IN  [InsertAtLocation(r, n, get_appropriate_insertion_location(r, NULL))
            EXCEPT !.open = Append(@, n)]

create_element_from_token(t, ns) ==
    NewNode(IF ns = "html" /\ t.tag = "template" THEN "template" ELSE "element",
            ns, t.tag, t.data)

insert_element_from_token(p, t) ==
    TakeToken(insert_element(p, create_element_from_token(t, "html"), FALSE))

insert_element_of_tag_type(p, tag) ==
    insert_element(p, NewNode("element", "html", tag, {}), FALSE)

insert_foreign_element(p, t, ns) ==
    TakeToken(insert_element(p, create_element_from_token(t, ns), FALSE))

\* As PopTo, but text is left in the buffer.
PopTo_NotFlushed(p, n) ==
    IF n >= Len(p.open) THEN p ELSE [p EXCEPT !.open = SubSeq(@, 1, n)]

\* Pops until n elements are left; popping one flushes the text buffer first.
PopTo(p, n) ==
    IF n >= Len(p.open) THEN p
    ELSE [maybe_flush_text_node_buffer(p) EXCEPT !.open = SubSeq(@, 1, n)]

pop_current_node(p) ==
    Require(p, p.open = <<>> \/ IsHtml(p, p.open[1], "html"), "pop_current_node",
           PopTo(p, Len(p.open) - 1))

(***************************************************************************)
(* The loops that pop until the current node (PopUntil), or the node just  *)
(* popped (PopThrough), passes a test.  Running out of elements reaches    *)
(* assert(node) with a NULL node.                                          *)
(***************************************************************************)
PopUntil(p, Test(_)) ==
    Require(p, TopOpen(p, Test) # 0, "pop: stack exhausted", PopTo(p, TopOpen(p, Test)))

PopThrough(p, Test(_)) ==
    Require(p, TopOpen(p, Test) # 0, "pop: stack exhausted", PopTo(p, TopOpen(p, Test) - 1))

PopThroughTag(p, tag) ==
    LET Test(n) == IsHtml(p, n, tag) IN PopThrough(p, Test)

ClearStackTo(p, tags) ==
    LET Test(n) == Name(p, n) \in Html(tags) IN PopUntil(p, Test)

clear_stack_to_table_context(p)      == ClearStackTo(p, {"html", "table", "template"})
clear_stack_to_table_body_context(p) == ClearStackTo(p, {"html", "tbody", "tfoot", "thead", "template"})
clear_stack_to_table_row_context(p)  == ClearStackTo(p, {"html", "tr", "template"})

generate_implied_end_tags(p, exception) ==
    LET Test(n) == Name(p, n) \notin ImpliedEnd \/ Name(p, n) = <<"html", exception>>
    IN  PopUntil(p, Test)

generate_all_implied_end_tags_thoroughly(p) ==
    LET Test(n) == Name(p, n) \notin ImpliedEndThorough IN PopUntil(p, Test)

implicitly_close_tags(p, ns, tag) ==
    LET Test(n) == Name(p, n) = <<ns, tag>>
    IN  PopThrough(generate_implied_end_tags(p, tag), Test)

maybe_implicitly_close_p_tag(p) ==
    IF InButtonScope(p, "p") THEN implicitly_close_tags(p, "html", "p") ELSE p

maybe_implicitly_close_list_tag(p, tags) ==
    LET q       == [p EXCEPT !.fok = FALSE]
        Stop(n) == \/ Name(p, n) \in Html(tags)
                   \/ Name(p, n) \in Special \ Html({"address", "div", "p"})
        top     == TopOpen(p, Stop)
    IN  IF top # 0 /\ Name(p, p.open[top]) \in Html(tags)
        THEN implicitly_close_tags(q, "html", p.nodes[p.open[top]].tag) ELSE q

-----------------------------------------------------------------------------
(***************************************************************************)
(* The list of active formatting elements.                                 *)
(***************************************************************************)
LastMarker(p) == LET Test(n) == n = Marker IN SelectLastInSeq(p.afe, Test)

\* The list entries after the last marker that have this tag, by position.
FormattingOf(p, tag) ==
    {i \in (LastMarker(p) + 1)..Len(p.afe) : IsHtml(p, p.afe[i], tag)}

PushMarker(p) == [p EXCEPT !.afe = Append(@, Marker)]

\* As add_formatting_element, but a fifth identical element evicts the earliest.
add_formatting_element_Fifth(p, n) ==
    LET same == {i \in (LastMarker(p) + 1)..Len(p.afe) :
                    /\ Name(p, p.afe[i]) = Name(p, n)
                    /\ p.nodes[p.afe[i]].data = p.nodes[n].data}
        kept == IF Cardinality(same) >= 4 THEN RemoveAt(p.afe, Min(same)) ELSE p.afe
    IN  [p EXCEPT !.afe = Append(kept, n)]

\* Noah's Ark clause: a fourth identical element evicts the earliest.
add_formatting_element(p, n) ==
    LET same == {i \in (LastMarker(p) + 1)..Len(p.afe) :
                    /\ Name(p, p.afe[i]) = Name(p, n)
                    /\ p.nodes[p.afe[i]].data = p.nodes[n].data}
        kept == IF Cardinality(same) >= 3 THEN RemoveAt(p.afe, Min(same)) ELSE p.afe
    IN  [p EXCEPT !.afe = Append(kept, n)]

\* As clear_active_formatting_elements, but the first marker is taken for the last.
clear_active_formatting_elements_First(p) ==
    [p EXCEPT !.afe = IF Marker \in Range(@) THEN SubSeq(@, 1, PositionIn(@, Marker) - 1) ELSE <<>>]

clear_active_formatting_elements(p) ==
    [p EXCEPT !.afe = SubSeq(@, 1, LastMarker(p) - 1)]

clone_node(p, n) == [p.nodes[n] EXCEPT !.parent = NULL, !.idx = Detached, !.kids = <<>>]

\* Clones the entries after the last one that is a marker or still open.
reconstruct_active_formatting_elements(p) ==
    LET Done(n) == n = Marker \/ is_open_element(p, n)
        first   == SelectLastInSeq(p.afe, Done) + 1
        Reopen(q, i) == [insert_element(q, clone_node(q, q.afe[i]), TRUE)
                            EXCEPT !.afe[i] = NextId(q)]
    IN  FoldLeft(Reopen, p, [k \in 1..(Len(p.afe) - first + 1) |-> first + k - 1])

-----------------------------------------------------------------------------
(***************************************************************************)
(* Insertion modes.                                                        *)
(***************************************************************************)
SetMode(p, mode) == [p EXCEPT !.mode = mode]

\* "Reprocess the token" in the given mode.
Reprocess(p, mode) == [p EXCEPT !.mode = mode, !.reprocess = TRUE]

\* run_generic_parsing_algorithm also selects the tokenizer's state.
run_generic_parsing_algorithm(p, t, lexer) ==
    [insert_element_from_token(p, t) EXCEPT !.lexer = lexer, !.rawtag = t.tag,
                                            !.orig = p.mode, !.mode = "text"]

get_current_template_insertion_mode(p) ==
    IF p.tmodes = <<>> THEN "initial" ELSE Last(p.tmodes)

\* "initial" says that the element at this position decides nothing.
get_appropriate_insertion_mode(p, i) ==
    LET last     == i = 1
        node     == IF last /\ p.ctx # NULL THEN p.ctx ELSE p.open[i]
        tag      == p.nodes[node].tag
        Decides(n) == IsHtml(p, n, "template") \/ IsHtml(p, n, "table")
        above    == SelectLastInSubSeq(p.open, 2, i, Decides)
        Default  == IF last THEN "in_body" ELSE "initial"
    IN  IF p.nodes[node].ns # "html" THEN Default
        ELSE CASE tag = "select" ->
                    IF ~last /\ above # 0 /\ IsHtml(p, p.open[above], "table")
                    THEN "in_select_in_table" ELSE "in_select"
               [] tag \in {"td", "th"} -> IF last THEN Default ELSE "in_cell"
               [] tag = "tr" -> "in_row"
               [] tag \in {"tbody", "thead", "tfoot"} -> "in_table_body"
               [] tag = "caption" -> "in_caption"
               [] tag = "colgroup" -> "in_column_group"
               [] tag = "table" -> "in_table"
               [] tag = "template" -> get_current_template_insertion_mode(p)
               [] tag = "head" -> IF last THEN Default ELSE "in_head"
               [] tag = "body" -> "in_body"
               [] tag = "frameset" -> "in_frameset"
               [] tag = "html" -> IF p.head # NULL THEN "after_head" ELSE "before_head"
               [] OTHER -> Default

reset_insertion_mode_appropriately(p) ==
    LET Decided(i) == get_appropriate_insertion_mode(p, i) # "initial"
        deciding   == {i \in DOMAIN p.open : Decided(i)}
    IN  Require(p, deciding # {}, "reset_insertion_mode_appropriately",
               SetMode(p, get_appropriate_insertion_mode(p, Max(deciding))))

\* close_table, once its caller has checked that a table is in table scope.
CloseTable(p) == reset_insertion_mode_appropriately(PopThroughTag(p, "table"))

\* As close_current_select, but the insertion mode stays.
close_current_select_KeepsMode(p) == PopThroughTag(p, "select")

close_current_select(p) == reset_insertion_mode_appropriately(PopThroughTag(p, "select"))

close_table_cell(p, tag) ==
    SetMode(clear_active_formatting_elements(
                PopThroughTag(generate_implied_end_tags(p, ""), tag)), "in_row")

close_current_cell(p) ==
    IF InTableScope(p, "td")
    THEN Require(p, ~InTableScope(p, "th"), "close_current_cell: td and th",
                close_table_cell(p, "td"))
    ELSE Require(p, InTableScope(p, "th"), "close_current_cell: no cell",
                close_table_cell(p, "th"))
=============================================================================
