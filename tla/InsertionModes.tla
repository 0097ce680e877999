-------------------------- MODULE InsertionModes --------------------------
(***************************************************************************)
(* The token handlers of lib/parser.c that belong to one insertion mode,   *)
(* the rules for foreign content, and handle_token, which chooses between  *)
(* them.  handle_in_body and the tags of handle_in_head are in InBody.     *)
(***************************************************************************)
EXTENDS InBody

IsText(t) == t.type \in {"character", "whitespace"}

HeadBodyHtmlBr == {"head", "body", "html", "br"}
RowGroups      == {"tbody", "tfoot", "thead"}
Cells          == {"td", "th"}

is_fragment_parser(p) == p.ctx # NULL

Comment(p) == append_comment_node(p, get_current_node(p))

\* As PopCurrentAndReprocess, but the insertion mode stays.
PopCurrentAndReprocess_SameMode(p, mode) == Reprocess(pop_current_node(p), p.mode)

PopCurrentAndReprocess(p, mode) == Reprocess(pop_current_node(p), mode)

-----------------------------------------------------------------------------
(***************************************************************************)
(* Before the body.                                                        *)
(***************************************************************************)
handle_initial(p, t) ==
    CASE t.type = "whitespace" -> ignore_token(p, t)
      [] t.type = "comment"    -> append_comment_node(p, Document)
      [] t.type = "doctype"    ->
            [TakeToken(SetMode(p, "before_html"))
                EXCEPT !.has_doctype = TRUE, !.quirks = "quirks" \in t.data]
      [] OTHER -> [Reprocess(p, "before_html") EXCEPT !.quirks = TRUE]

\* The root is set after the element is inserted, so its place is the document.
SetRoot(p) == [SetMode(p, "before_head") EXCEPT !.root = get_current_node(p)]

handle_before_html(p, t) ==
    CASE t.type \in {"doctype", "whitespace"} -> ignore_token(p, t)
      [] t.type = "comment"   -> append_comment_node(p, Document)
      [] IsStart(t, {"html"}) -> SetRoot(insert_element_from_token(p, t))
      [] t.type = "end" /\ t.tag \notin HeadBodyHtmlBr -> ignore_token(p, t)
      [] OTHER -> [SetRoot(insert_element_of_tag_type(p, "html")) EXCEPT !.reprocess = TRUE]

SetHead(p) == [SetMode(p, "in_head") EXCEPT !.head = get_current_node(p)]

handle_before_head(p, t) ==
    CASE t.type \in {"doctype", "whitespace"} -> ignore_token(p, t)
      [] t.type = "comment"   -> Comment(p)
      [] IsStart(t, {"head"}) -> SetHead(insert_element_from_token(p, t))
      [] t.type = "end" /\ t.tag \notin HeadBodyHtmlBr -> ignore_token(p, t)
      [] OTHER -> [SetHead(insert_element_of_tag_type(p, "head")) EXCEPT !.reprocess = TRUE]

handle_in_head(p, t) ==
    CASE t.type = "whitespace" -> insert_text_token(p, t)
      [] t.type = "doctype"    -> ignore_token(p, t)
      [] t.type = "comment"    -> Comment(p)
      [] IsStart(t, {"html"})  -> handle_in_body(p, t)
      [] IsStart(t, HeadStartTags) \/ IsEnd(t, {"template"}) -> HeadElement(p, t)
      [] IsStart(t, {"noscript"}) ->
            SetMode(insert_element_from_token(p, t), "in_head_noscript")
      [] IsEnd(t, {"head"}) ->
            Require(p, IsHtml(p, get_current_node(p), "head"), "</head>: current node",
                    SetMode(pop_current_node(p), "after_head"))
      [] IsEnd(t, {"body", "html", "br"}) -> PopCurrentAndReprocess(p, "after_head")
      [] IsStart(t, {"head"}) \/ (t.type = "end" /\ t.tag \notin HeadBodyHtmlBr \cup {"template"}) ->
            ignore_token(p, t)
      [] OTHER -> PopCurrentAndReprocess(p, "after_head")

\* A doctype is reported here, and nothing releases its strings.
handle_in_head_noscript(p, t) ==
    LET Leave(q) == Require(p, IsHtml(p, get_current_node(p), "noscript"), "noscript: current node",
                            [pop_current_node(q) EXCEPT !.mode = "in_head"])
    IN  CASE t.type = "doctype" -> p
          [] IsStart(t, {"html"}) -> handle_in_body(p, t)
          [] IsEnd(t, {"noscript"}) -> Leave(p)
          [] \/ t.type \in {"whitespace", "comment"}
             \/ IsStart(t, {"basefont", "bgsound", "link", "meta", "noframes", "style"}) ->
                handle_in_head(p, t)
          [] \/ IsStart(t, {"head", "noscript"})
             \/ t.type = "end" /\ t.tag \notin {"noscript", "br"} -> ignore_token(p, t)
          [] OTHER -> [Leave(p) EXCEPT !.reprocess = TRUE]

\* As AfterHeadElement, but the element goes where the parser is.
AfterHeadElement_NotInHead(p, t) == HeadElement(p, t)

\* The head element is back on the stack while handle_in_head runs.
AfterHeadElement(p, t) ==
    LET q == [maybe_flush_text_node_buffer(p) EXCEPT !.open = Append(@, p.head)]
    IN  Require(p, p.head # NULL, "after head: no head element",
                [HeadElement(q, t) EXCEPT !.open = RemoveFirst(@, p.head)])

handle_after_head(p, t) ==
    CASE t.type = "whitespace"     -> insert_text_token(p, t)
      [] t.type = "doctype"        -> ignore_token(p, t)
      [] t.type = "comment"        -> Comment(p)
      [] IsStart(t, {"html"})      -> handle_in_body(p, t)
      [] IsStart(t, {"body"})      ->
            FramesetNotOk(SetMode(insert_element_from_token(p, t), "in_body"))
      [] IsStart(t, {"frameset"})  -> SetMode(insert_element_from_token(p, t), "in_frameset")
      [] IsStart(t, HeadStartTags) -> AfterHeadElement(p, t)
      [] IsEnd(t, {"template"})    -> HeadElement(p, t)
      [] \/ IsStart(t, {"head"})
         \/ t.type = "end" /\ t.tag \notin {"template", "body", "html", "br"} -> ignore_token(p, t)
      [] OTHER -> Reprocess(insert_element_of_tag_type(p, "body"), "in_body")

-----------------------------------------------------------------------------
(***************************************************************************)
(* Text and tables.                                                        *)
(***************************************************************************)
handle_text(p, t) ==
    IF IsText(t) THEN insert_text_token(p, t)
    ELSE [pop_current_node(p) EXCEPT !.mode = p.orig, !.reprocess = @ \/ t.type = "eof"]

\* As FosterInBody, but foster parenting is not enabled.
FosterInBody_InPlace(p, t) == handle_in_body(p, t)

\* Anything else in a table is in_body's, with foster parenting.
FosterInBody(p, t) == [handle_in_body([p EXCEPT !.foster = TRUE], t) EXCEPT !.foster = FALSE]

StartCaption(p, t) ==
    SetMode(insert_element_from_token(PushMarker(clear_stack_to_table_context(p)), t),
            "in_caption")

TableForm(p, t) ==
    LET q == insert_element_from_token(p, t)
    IN  IF p.form # NULL \/ has_open_element(p, "template") THEN ignore_token(p, t)
        ELSE pop_current_node([q EXCEPT !.form = get_current_node(q)])

handle_in_table(p, t) ==
    LET Clear  == clear_stack_to_table_context(p)
        Hidden == IsStart(t, {"input"}) /\ "type=hidden" \in t.data
        InTable == InTableScope(p, "table")
    IN
    CASE IsText(t) ->
            Require(p, p.pending.chars = {}, "in_table: text is pending",
                    [Reprocess(p, "in_table_text") EXCEPT !.orig = p.mode])
      [] t.type = "doctype" -> ignore_token(p, t)
      [] t.type = "comment" -> Comment(p)
      [] IsStart(t, {"caption"})  -> StartCaption(p, t)
      [] IsStart(t, {"colgroup"}) -> SetMode(insert_element_from_token(Clear, t), "in_column_group")
      [] IsStart(t, {"col"}) ->
            Reprocess(insert_element_of_tag_type(Clear, "colgroup"), "in_column_group")
      [] IsStart(t, RowGroups) -> SetMode(insert_element_from_token(Clear, t), "in_table_body")
      [] IsStart(t, Cells \cup {"tr"}) ->
            Reprocess(insert_element_of_tag_type(Clear, "tbody"), "in_table_body")
      [] IsStart(t, {"table"}) ->
            IF InTable THEN [CloseTable(p) EXCEPT !.reprocess = TRUE] ELSE ignore_token(p, t)
      [] IsEnd(t, {"table"}) -> IF InTable THEN CloseTable(p) ELSE p
      [] IsEnd(t, TablePieces \cup {"body", "html"}) -> ignore_token(p, t)
      [] IsStart(t, {"style", "script", "template"}) \/ IsEnd(t, {"template"}) -> HeadElement(p, t)
      [] Hidden -> InsertVoid(p, t)
      [] IsStart(t, {"form"}) -> TableForm(p, t)
      [] t.type = "eof" -> handle_in_body(p, t)
      [] OTHER -> FosterInBody(p, t)

\* Text other than white space is fostered out of the table.
handle_in_table_text(p, t) ==
    LET q == IF p.pending.chars \subseteq {"whitespace"} THEN p
             ELSE Reconstruct([p EXCEPT !.foster = TRUE])
    IN  IF t.type = "null" THEN ignore_token(p, t)
        ELSE IF IsText(t) THEN insert_text_token(p, t)
        ELSE [Reprocess(maybe_flush_text_node_buffer(q), p.orig) EXCEPT !.foster = FALSE]

handle_in_caption(p, t) ==
    LET Close(q) == SetMode(clear_active_formatting_elements(PopThroughTag(q, "caption")),
                            "in_table")
        Closes   == \/ IsStart(t, TablePieces)
                    \/ IsEnd(t, {"table"})
    IN  IF IsEnd(t, {"caption"}) \/ Closes
        THEN IF ~InTableScope(p, "caption") THEN ignore_token(p, t)
             ELSE IF Closes THEN [Close(p) EXCEPT !.reprocess = TRUE]
             ELSE Close(generate_implied_end_tags(p, ""))
        ELSE IF IsEnd(t, TablePieces \cup {"body", "html"}) THEN ignore_token(p, t)
        ELSE handle_in_body(p, t)

handle_in_column_group(p, t) ==
    LET InGroup == IsHtml(p, get_current_node(p), "colgroup")
    IN
    CASE t.type = "whitespace" -> insert_text_token(p, t)
      [] t.type = "doctype"    -> ignore_token(p, t)
      [] t.type = "comment"    -> Comment(p)
      [] IsStart(t, {"html"})  -> handle_in_body(p, t)
      [] IsStart(t, {"col"})   -> InsertVoid(p, t)
      [] IsEnd(t, {"colgroup"}) ->
            IF InGroup THEN SetMode(pop_current_node(p), "in_table") ELSE ignore_token(p, t)
      [] IsEnd(t, {"col"}) -> ignore_token(p, t)
      [] IsStart(t, {"template"}) \/ IsEnd(t, {"template"}) -> HeadElement(p, t)
      [] t.type = "eof" -> handle_in_body(p, t)
      [] OTHER ->
            IF InGroup THEN PopCurrentAndReprocess(p, "in_table") ELSE ignore_token(p, t)

handle_in_table_body(p, t) ==
    LET Clear   == clear_stack_to_table_body_context(p)
        Leave   == SetMode(pop_current_node(Clear), "in_table")
        InGroup == \E tag \in RowGroups : InTableScope(p, tag)
    IN
    CASE IsStart(t, {"tr"}) -> SetMode(insert_element_from_token(Clear, t), "in_row")
      [] IsStart(t, Cells)  -> Reprocess(insert_element_of_tag_type(Clear, "tr"), "in_row")
      [] IsEnd(t, RowGroups) -> IF InTableScope(p, t.tag) THEN Leave ELSE ignore_token(p, t)
      [] IsStart(t, RowGroups \cup {"caption", "col", "colgroup"}) \/ IsEnd(t, {"table"}) ->
            IF InGroup THEN [Leave EXCEPT !.reprocess = TRUE] ELSE ignore_token(p, t)
      [] IsEnd(t, {"body", "caption", "col", "tr", "colgroup", "html", "td", "th"}) ->
            ignore_token(p, t)
      [] OTHER -> handle_in_table(p, t)

handle_in_row(p, t) ==
    LET Clear == clear_stack_to_table_row_context(p)
        Leave == SetMode(pop_current_node(Clear), "in_table_body")
        InRow == InTableScope(p, "tr")
    IN
    CASE IsStart(t, Cells) -> PushMarker(SetMode(insert_element_from_token(Clear, t), "in_cell"))
      [] IsEnd(t, {"tr"})  -> IF InRow THEN Leave ELSE ignore_token(p, t)
      [] IsStart(t, TablePieces \ Cells) \/ IsEnd(t, RowGroups \cup {"table"}) ->
            IF InRow /\ (IsEnd(t, RowGroups) => InTableScope(p, t.tag))
            THEN [Leave EXCEPT !.reprocess = TRUE] ELSE ignore_token(p, t)
      [] IsEnd(t, {"body", "caption", "col", "colgroup", "html", "td", "th"}) -> ignore_token(p, t)
      [] OTHER -> handle_in_table(p, t)

handle_in_cell(p, t) ==
    LET CloseAndReprocess == [close_current_cell(p) EXCEPT !.reprocess = TRUE]
    IN
    CASE IsEnd(t, Cells) ->
            IF InTableScope(p, t.tag) THEN close_table_cell(p, t.tag) ELSE ignore_token(p, t)
      [] IsStart(t, TablePieces) ->
            IF \E tag \in Cells : InTableScope(p, tag) THEN CloseAndReprocess
            ELSE ignore_token(p, t)
      [] IsEnd(t, {"body", "caption", "col", "colgroup", "html"}) -> ignore_token(p, t)
      [] IsEnd(t, RowGroups \cup {"table", "tr"}) ->
            IF InTableScope(p, t.tag) THEN CloseAndReprocess ELSE ignore_token(p, t)
      [] OTHER -> handle_in_body(p, t)

-----------------------------------------------------------------------------
(***************************************************************************)
(* Select and template.                                                    *)
(***************************************************************************)
\* </optgroup> first closes an option that is directly inside an optgroup.
EndOptgroup(p, t) ==
    LET nested == Len(p.open) >= 2 /\ IsHtml(p, p.open[Len(p.open) - 1], "optgroup")
        q == IF nested THEN PopIf(p, "option") ELSE p
    IN  IF IsHtml(q, get_current_node(q), "optgroup") THEN pop_current_node(q)
        ELSE ignore_token(q, t)

handle_in_select(p, t) ==
    LET InSelect == InSelectScope(p, "select")
    IN
    CASE t.type \in {"null", "doctype"} -> ignore_token(p, t)
      [] IsText(t) -> insert_text_token(p, t)
      [] t.type = "comment"       -> Comment(p)
      [] IsStart(t, {"html"})     -> handle_in_body(p, t)
      [] IsStart(t, {"option"})   -> insert_element_from_token(PopIf(p, "option"), t)
      [] IsStart(t, {"optgroup"}) ->
            insert_element_from_token(PopIf(PopIf(p, "option"), "optgroup"), t)
      [] IsEnd(t, {"optgroup"}) -> EndOptgroup(p, t)
      [] IsEnd(t, {"option"}) ->
            IF IsHtml(p, get_current_node(p), "option") THEN pop_current_node(p)
            ELSE ignore_token(p, t)
      [] IsEnd(t, {"select"}) -> IF InSelect THEN close_current_select(p) ELSE ignore_token(p, t)
      [] IsStart(t, {"select"}) ->
            LET q == ignore_token(p, t) IN IF InSelect THEN close_current_select(q) ELSE q
      [] IsStart(t, {"input", "keygen", "textarea"}) ->
            IF InSelect THEN [close_current_select(p) EXCEPT !.reprocess = TRUE]
            ELSE ignore_token(p, t)
      [] IsStart(t, {"script", "template"}) \/ IsEnd(t, {"template"}) -> HeadElement(p, t)
      [] t.type = "eof" -> handle_in_body(p, t)
      [] OTHER -> ignore_token(p, t)

handle_in_select_in_table(p, t) ==
    LET Tags  == RowGroups \cup Cells \cup {"caption", "table", "tr"}
        Close == [close_current_select(p) EXCEPT !.reprocess = TRUE]
    IN  IF IsStart(t, Tags) THEN Close
        ELSE IF IsEnd(t, Tags)
        THEN IF InTableScope(p, t.tag) THEN Close ELSE ignore_token(p, t)
        ELSE handle_in_select(p, t)

\* The mode that a template's first start tag selects.
TemplateMode(tag) ==
    CASE tag \in RowGroups \cup {"caption", "colgroup"} -> "in_table"
      [] tag = "col"     -> "in_column_group"
      [] tag = "tr"      -> "in_table_body"
      [] tag \in Cells   -> "in_row"
      [] OTHER           -> "in_body"

SwitchTemplateMode(p, mode) ==
    [Reprocess(p, mode) EXCEPT !.tmodes = Append(IF @ = <<>> THEN @ ELSE Front(@), mode)]

handle_in_template(p, t) ==
    CASE t.type \in {"whitespace", "character", "comment", "null", "doctype"} -> handle_in_body(p, t)
      [] IsStart(t, HeadStartTags) \/ IsEnd(t, {"template"}) -> HeadElement(p, t)
      [] t.type = "start" /\ t.tag \notin HeadStartTags -> SwitchTemplateMode(p, TemplateMode(t.tag))
      [] t.type = "end" /\ t.tag # "template" -> ignore_token(p, t)
      [] t.type = "eof" -> TemplateEof(p)
      [] t.type = "cdata" -> Require(p, FALSE, "in_template: CDATA", p)

-----------------------------------------------------------------------------
(***************************************************************************)
(* After the body, and framesets.                                          *)
(***************************************************************************)
handle_after_body(p, t) ==
    CASE t.type = "whitespace" \/ IsStart(t, {"html"}) -> handle_in_body(p, t)
      [] t.type = "comment" -> append_comment_node(p, p.root)
      [] t.type = "doctype" -> ignore_token(p, t)
      [] IsEnd(t, {"html"}) ->
            IF is_fragment_parser(p) THEN ignore_token(p, t) ELSE SetMode(p, "after_after_body")
      [] t.type = "eof" -> p
      [] OTHER -> Reprocess(p, "in_body")

EndFrameset(p, t) ==
    LET q == pop_current_node(p)
    IN  IF IsHtml(p, get_current_node(p), "html") THEN ignore_token(p, t)
        ELSE IF ~is_fragment_parser(p) /\ ~IsHtml(q, get_current_node(q), "frameset")
        THEN SetMode(q, "after_frameset") ELSE q

handle_in_frameset(p, t) ==
    CASE t.type = "whitespace"     -> insert_text_token(p, t)
      [] t.type = "comment"        -> Comment(p)
      [] IsStart(t, {"html"})      -> handle_in_body(p, t)
      [] IsStart(t, {"frameset"})  -> insert_element_from_token(p, t)
      [] IsEnd(t, {"frameset"})    -> EndFrameset(p, t)
      [] IsStart(t, {"frame"})     -> InsertVoid(p, t)
      [] IsStart(t, {"noframes"})  -> HeadElement(p, t)
      [] t.type = "eof"            -> p
      [] OTHER                     -> ignore_token(p, t)

handle_after_frameset(p, t) ==
    CASE t.type = "whitespace"     -> insert_text_token(p, t)
      [] t.type = "comment"        -> Comment(p)
      [] IsStart(t, {"html"})      -> handle_in_body(p, t)
      [] IsEnd(t, {"html"})        -> SetMode(p, "after_after_frameset")
      [] IsStart(t, {"noframes"})  -> HeadElement(p, t)
      [] t.type = "eof"            -> p
      [] OTHER                     -> ignore_token(p, t)

handle_after_after_body(p, t) ==
    CASE t.type = "comment" -> append_comment_node(p, Document)
      [] t.type \in {"doctype", "whitespace"} \/ IsStart(t, {"html"}) -> handle_in_body(p, t)
      [] t.type = "eof" -> p
      [] OTHER -> Reprocess(p, "in_body")

handle_after_after_frameset(p, t) ==
    CASE t.type = "comment" -> append_comment_node(p, Document)
      [] t.type \in {"doctype", "whitespace"} \/ IsStart(t, {"html"}) -> handle_in_body(p, t)
      [] t.type = "eof" -> p
      [] IsStart(t, {"noframes"}) -> HeadElement(p, t)
      [] OTHER -> ignore_token(p, t)

-----------------------------------------------------------------------------
(***************************************************************************)
(* Foreign content.                                                        *)
(***************************************************************************)
is_mathml_integration_point(p, n) == Name(p, n) \in MathML({"mi", "mo", "mn", "ms", "mtext"})

is_html_integration_point(p, n) ==
    \/ Name(p, n) \in Svg({"foreignobject", "desc", "title"})
    \/ Name(p, n) = <<"mathml", "annotation-xml">> /\ "encoding=html" \in p.nodes[n].data

BreakoutTags ==
    {"b", "big", "blockquote", "body", "br", "center", "code", "dd", "div", "dl", "dt", "em",
     "embed", "head", "hr", "i", "img", "li", "listing", "menu", "meta", "nobr", "ol", "p", "pre",
     "ruby", "s", "small", "span", "strong", "strike", "sub", "sup", "table", "tt", "u", "ul",
     "var"} \cup HeadingTags

BreaksOut(t) ==
    \/ IsStart(t, BreakoutTags)
    \/ IsStart(t, {"font"}) /\ t.data \cap {"color", "face", "size"} # {}

BreakOut(p) ==
    LET Back(n) == \/ p.nodes[n].ns = "html"
                   \/ is_mathml_integration_point(p, n)
                   \/ is_html_integration_point(p, n)
        below   == SelectLastInSubSeq(p.open, 1, Len(p.open) - 1, Back)
    IN  [PopTo(p, below) EXCEPT !.reprocess = TRUE]

\* The name found in the text of an end tag is not the tag's if something else is written
\* between the name and ">".
TextNames(t, name) == t.tag = name /\ "blank" \notin t.data

\* The highest element that the text of the end tag names, or that is an HTML element.
ForeignMatch(p, t) ==
    LET Stop(n) == p.nodes[n].ns = "html" \/ TextNames(t, p.nodes[n].tag) IN TopOpen(p, Stop)

handle_in_foreign_content(p, t) ==
    CASE t.type \in {"null", "whitespace"}  -> insert_text_token(p, t)
      [] t.type \in {"cdata", "character"}  -> FramesetNotOk(insert_text_token(p, t))
      [] t.type = "comment" -> Comment(p)
      [] t.type = "doctype" -> ignore_token(p, t)
      [] t.type = "start" /\ BreaksOut(t) /\ ~is_fragment_parser(p) -> BreakOut(p)
      [] t.type = "start" /\ (BreaksOut(t) => is_fragment_parser(p)) ->
            LET q == insert_foreign_element(p, t, p.nodes[get_adjusted_current_node(p)].ns)
            IN  IF t.selfclosing THEN pop_current_node(q) ELSE q
      [] t.type = "end" -> PopTo(p, ForeignMatch(p, t) - 1)

-----------------------------------------------------------------------------
\* As AtMathText, but every MathML element is taken for an integration point.
AtMathText_AnyMath(p, n, t) ==
    /\ p.nodes[n].ns = "mathml"
    /\ \/ t.type \in {"character", "whitespace", "null"}
       \/ t.type = "start" /\ t.tag \notin {"mglyph", "malignmark"}

AtMathText(p, n, t) ==
    /\ is_mathml_integration_point(p, n)
    /\ \/ t.type \in {"character", "whitespace", "null"}
       \/ t.type = "start" /\ t.tag \notin {"mglyph", "malignmark"}

AtHtmlText(p, n, t) ==
    /\ is_html_integration_point(p, n)
    /\ t.type \in {"start", "character", "null", "whitespace"}

(***************************************************************************)
(* handle_token: whether a token goes by the rules of the insertion mode   *)
(* or by those for foreign content, which hand an end tag that no foreign  *)
(* element matches back to the insertion mode.                             *)
(***************************************************************************)
UsesInsertionMode(p, t) ==
    LET n == get_adjusted_current_node(p)
    IN  \/ n = NULL
        \/ t.type = "eof"
        \/ p.nodes[n].ns = "html"
        \/ AtMathText(p, n, t)
        \/ Name(p, n) = <<"mathml", "annotation-xml">> /\ IsStart(t, {"svg"})
        \/ AtHtmlText(p, n, t)
        \/ t.type = "end" /\ p.nodes[p.open[ForeignMatch(p, t)]].ns = "html"

\* The line feed that directly follows <pre>, <listing> or <textarea> is dropped.
DropsLineFeed(p, t) == p.ignoreLF /\ t.type = "whitespace" /\ t.tag = "\n"

\* The handler that gets the token: that of an insertion mode, or one of two others.
HandlerOf(p, t) ==
    IF DropsLineFeed(p, t) THEN "line_feed"
    ELSE IF UsesInsertionMode(p, t) THEN p.mode ELSE "foreign"
=============================================================================
