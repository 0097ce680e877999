------------------------------ MODULE InBody ------------------------------
(***************************************************************************)
(* The handlers of lib/parser.c that the other insertion modes fall back   *)
(* on: handle_in_head, handle_in_template and handle_in_body, which call   *)
(* one another.  A handler maps the parser state and the token to the      *)
(* parser state; p.reprocess says that the main loop is to present the     *)
(* token again, in the mode now set.                                       *)
(*                                                                         *)
(* A token is [type, tag, data, selfclosing]: data is the set of a start   *)
(* tag's attributes, "\n" as the tag of a white space token is a line feed.*)
(***************************************************************************)
EXTENDS Adoption

IsStart(t, tags) == t.type = "start" /\ t.tag \in tags
IsEnd(t, tags)   == t.type = "end" /\ t.tag \in tags

\* An element that never has content.
InsertVoid(p, t) == pop_current_node(insert_element_from_token(p, t))

Reconstruct(p) == reconstruct_active_formatting_elements(p)

ReconstructAndInsert(p, t) == insert_element_from_token(Reconstruct(p), t)

FramesetNotOk(p) == [p EXCEPT !.fok = FALSE]

ClosePAndInsert(p, t) == insert_element_from_token(maybe_implicitly_close_p_tag(p), t)

InsertFormatting(p, t) ==
    LET q == insert_element_from_token(p, t) IN add_formatting_element(q, get_current_node(q))

pop_template_insertion_mode(p) == [p EXCEPT !.tmodes = IF @ = <<>> THEN @ ELSE Front(@)]

\* What the end of a template, or of the input in one, does.
CloseTemplate(p) ==
    reset_insertion_mode_appropriately(
        pop_template_insertion_mode(
            clear_active_formatting_elements(PopThroughTag(p, "template"))))

-----------------------------------------------------------------------------
HeadStartTags == {"base", "basefont", "bgsound", "link", "meta", "noframes", "script", "style",
                  "template", "title"}

StartTemplate(p, t) ==
    [PushMarker(insert_element_from_token(p, t))
        EXCEPT !.fok = FALSE, !.mode = "in_template", !.tmodes = Append(@, "in_template")]

\* As EndTemplate, but nothing asks whether a template is open.
EndTemplate_Unguarded(p, t) == CloseTemplate(generate_all_implied_end_tags_thoroughly(p))

EndTemplate(p, t) ==
    IF ~has_open_element(p, "template") THEN ignore_token(p, t)
    ELSE CloseTemplate(generate_all_implied_end_tags_thoroughly(p))

\* handle_in_head for the tags that other modes hand to it as well.
HeadElement(p, t) ==
    CASE IsStart(t, {"base", "basefont", "bgsound", "link", "meta"}) -> InsertVoid(p, t)
      [] IsStart(t, {"title"})             -> run_generic_parsing_algorithm(p, t, "rcdata")
      [] IsStart(t, {"noframes", "style"}) -> run_generic_parsing_algorithm(p, t, "rawtext")
      [] IsStart(t, {"script"})            -> run_generic_parsing_algorithm(p, t, "script")
      [] IsStart(t, {"template"})          -> StartTemplate(p, t)
      [] IsEnd(t, {"template"})            -> EndTemplate(p, t)

-----------------------------------------------------------------------------
(***************************************************************************)
(* handle_in_body.                                                         *)
(***************************************************************************)
BlockTags == {"address", "article", "aside", "blockquote", "center", "details", "dialog", "dir",
              "div", "dl", "fieldset", "figcaption", "figure", "footer", "header", "hgroup",
              "main", "menu", "nav", "ol", "section", "summary", "ul"}
FormattingTags == {"a", "b", "big", "code", "em", "font", "i", "nobr", "s", "small", "strike",
                   "strong", "tt", "u"}
ScopedTags  == {"applet", "marquee", "object"}
TablePieces == {"caption", "col", "colgroup", "tbody", "td", "tfoot", "th", "thead", "tr"}

BodyIsSecond(p) == Len(p.open) >= 2 /\ IsHtml(p, p.open[2], "body")

MergeIntoHtml(p, t) ==
    IF has_open_element(p, "template") THEN ignore_token(p, t)
    ELSE merge_attributes(p, t, p.root)

MergeIntoBody(p, t) ==
    IF ~BodyIsSecond(p) \/ has_open_element(p, "template") THEN ignore_token(p, t)
    ELSE merge_attributes(FramesetNotOk(p), t, p.open[2])

\* As Destroy, but only the node itself is freed.
Destroy_NodeOnly(p, n) == [p EXCEPT !.nodes[n] = NewNode("freed", "none", "", {})]

\* destroy_node: what tree_traverse visits is freed, and visited once.
Destroy(p, n) ==
    LET walk == tree_traverse(p.nodes, n)
    IN  Require(p, walk.asserts /\ walk.done /\ IsInjective(walk.freed), "tree_traverse",
                [p EXCEPT !.nodes = [x \in DOMAIN p.nodes |->
                    IF Contains(walk.freed, x) THEN NewNode("freed", "none", "", {})
                    ELSE p.nodes[x]]])

\* As LeaveBody, but the list of active formatting elements keeps what was in the body.
LeaveBody_KeepsList(p) == PopTo(p, 1)

LeaveBody(p) == clear_active_formatting_elements(PopTo(p, 1))

\* The body is taken out of root's children and destroyed: no index changes.
ReplaceBodyByFrameset(p, t) ==
    LET body == p.open[2]
        cut  == [LeaveBody(p) EXCEPT !.nodes[p.root].kids = RemoveFirst(@, body)]
    IN  IF ~BodyIsSecond(p) \/ ~p.fok THEN ignore_token(p, t)
        ELSE SetMode(insert_element_from_token(Destroy(cut, body), t), "in_frameset")

StartHeading(p, t) ==
    LET q == maybe_implicitly_close_p_tag(p)
    IN  insert_element_from_token(
            IF node_tag_in_set(q, get_current_node(q), Html(HeadingTags))
            THEN pop_current_node(q) ELSE q, t)

StartForm(p, t) ==
    LET q == ClosePAndInsert(p, t)
    IN  IF p.form # NULL /\ ~has_open_element(p, "template") THEN ignore_token(p, t)
        ELSE IF has_open_element(q, "template") THEN q
        ELSE [q EXCEPT !.form = get_current_node(q)]

StartButton(p, t) ==
    IF InDefaultScope(p, {"button"})
    THEN [implicitly_close_tags(p, "html", "button") EXCEPT !.reprocess = TRUE]
    ELSE FramesetNotOk(ReconstructAndInsert(p, t))

StartA(p, t) ==
    LET q     == IF FormattingOf(p, "a") = {} THEN p ELSE adoption_agency_algorithm(p, "a")
        stale == FormattingOf(q, "a")
        r     == IF FormattingOf(p, "a") = {} \/ stale = {} THEN q
                 ELSE [q EXCEPT !.afe = RemoveAt(@, Max(stale)),
                                !.open = RemoveFirst(@, q.afe[Max(stale)])]
    IN  InsertFormatting(Reconstruct(r), t)

StartNobr(p, t) ==
    LET q == Reconstruct(p)
    IN  InsertFormatting(IF InDefaultScope(q, {"nobr"})
                         THEN Reconstruct(adoption_agency_algorithm(q, "nobr")) ELSE q, t)

StartSelect(p, t) ==
    SetMode(FramesetNotOk(ReconstructAndInsert(p, t)),
            IF p.mode \in {"in_table", "in_caption", "in_table_body", "in_row", "in_cell"}
            THEN "in_select_in_table" ELSE "in_select")

PopIf(p, tag) == IF IsHtml(p, get_current_node(p), tag) THEN pop_current_node(p) ELSE p

StartRuby(p, t) ==
    insert_element_from_token(
        IF InDefaultScope(p, {"ruby"})
        THEN generate_implied_end_tags(p, IF t.tag \in {"rt", "rp"} THEN "rtc" ELSE "") ELSE p, t)

StartForeign(p, t, ns) ==
    LET q == insert_foreign_element(Reconstruct(p), t, ns)
    IN  IF t.selfclosing THEN pop_current_node(q) ELSE q

BodyStartTag(p, t) ==
    CASE t.tag = "html" -> MergeIntoHtml(p, t)
      [] t.tag \in HeadStartTags -> HeadElement(p, t)
      [] t.tag = "body" -> MergeIntoBody(p, t)
      [] t.tag = "frameset" -> ReplaceBodyByFrameset(p, t)
      [] t.tag \in BlockTags \cup {"p"} -> ClosePAndInsert(p, t)
      [] t.tag \in HeadingTags -> StartHeading(p, t)
      [] t.tag \in {"pre", "listing"} ->
            [ClosePAndInsert(p, t) EXCEPT !.ignoreLF = TRUE, !.fok = FALSE]
      [] t.tag = "form" -> StartForm(p, t)
      [] t.tag = "li" -> ClosePAndInsert(maybe_implicitly_close_list_tag(p, {"li"}), t)
      [] t.tag \in {"dd", "dt"} ->
            ClosePAndInsert(maybe_implicitly_close_list_tag(p, {"dd", "dt"}), t)
      [] t.tag = "plaintext" -> [ClosePAndInsert(p, t) EXCEPT !.lexer = "plaintext"]
      [] t.tag = "button" -> StartButton(p, t)
      [] t.tag = "a" -> StartA(p, t)
      [] t.tag = "nobr" -> StartNobr(p, t)
      [] t.tag \in FormattingTags \ {"a", "nobr"} -> InsertFormatting(Reconstruct(p), t)
      [] t.tag \in ScopedTags -> FramesetNotOk(PushMarker(ReconstructAndInsert(p, t)))
      [] t.tag = "table" ->
            FramesetNotOk(SetMode(IF p.quirks THEN insert_element_from_token(p, t)
                                  ELSE ClosePAndInsert(p, t), "in_table"))
      [] t.tag \in {"area", "br", "embed", "img", "keygen", "wbr"} ->
            FramesetNotOk(InsertVoid(Reconstruct(p), t))
      [] t.tag = "image" -> FramesetNotOk(InsertVoid(Reconstruct(p), [t EXCEPT !.tag = "img"]))
      [] t.tag = "input" ->
            InsertVoid(Reconstruct(IF "type=hidden" \in t.data THEN p ELSE FramesetNotOk(p)), t)
      [] t.tag \in {"param", "source", "track"} -> InsertVoid(p, t)
      [] t.tag = "hr" -> FramesetNotOk(InsertVoid(maybe_implicitly_close_p_tag(p), t))
      [] t.tag = "textarea" ->
            [run_generic_parsing_algorithm(p, t, "rcdata") EXCEPT !.ignoreLF = TRUE, !.fok = FALSE]
      [] t.tag = "xmp" ->
            run_generic_parsing_algorithm(
                FramesetNotOk(Reconstruct(maybe_implicitly_close_p_tag(p))), t, "rawtext")
      [] t.tag = "iframe" -> run_generic_parsing_algorithm(FramesetNotOk(p), t, "rawtext")
      [] t.tag = "noembed" -> run_generic_parsing_algorithm(p, t, "rawtext")
      [] t.tag = "select" -> StartSelect(p, t)
      [] t.tag \in {"option", "optgroup"} -> ReconstructAndInsert(PopIf(p, "option"), t)
      [] t.tag \in {"rb", "rp", "rt", "rtc"} -> StartRuby(p, t)
      [] t.tag = "math" -> StartForeign(p, t, "mathml")
      [] t.tag = "svg" -> StartForeign(p, t, "svg")
      [] t.tag \in TablePieces \cup {"frame", "head"} -> ignore_token(p, t)
      [] OTHER -> ReconstructAndInsert(p, t)

-----------------------------------------------------------------------------
EndBodyOrHtml(p, t) ==
    IF ~InDefaultScope(p, {"body"}) THEN ignore_token(p, t)
    ELSE IF t.tag = "html" THEN Reprocess(p, "after_body")
    ELSE Require(p, BodyIsSecond(p), "</body>: second open element", SetMode(p, "after_body"))

\* </form> outside a template takes only the form off the stack, without popping.
EndForm(p, t) ==
    LET form  == p.form
        q     == [p EXCEPT !.form = NULL]
        r     == generate_implied_end_tags(q, "")
        s     == generate_implied_end_tags(p, "")
    IN  IF has_open_element(p, "template")
        THEN IF ~InDefaultScope(p, {"form"}) THEN ignore_token(p, t)
             ELSE IF ~IsHtml(s, get_current_node(s), "form") THEN s
             ELSE PopThroughTag(s, "form")
        ELSE IF form = NULL THEN ignore_token(q, t)
        ELSE Require(p, p.nodes[form].type = "element", "</form>: form pointer",
             IF ~(is_open_element(p, form)
                  /\ LET Stop(n) == n = form \/ Name(p, n) \in DefaultScope
                     IN  p.open[TopOpen(p, Stop)] = form)
             THEN ignore_token(q, t)
             ELSE Require(r, is_open_element(r, form), "</form>: not open",
                          [r EXCEPT !.open = RemoveFirst(@, form)]))

EndP(p) ==
    IF InButtonScope(p, "p") THEN implicitly_close_tags(p, "html", "p")
    ELSE [insert_element_of_tag_type(p, "p") EXCEPT !.reprocess = TRUE]

EndHeading(p, t) ==
    LET q == generate_implied_end_tags(p, "")
        Test(n) == Name(q, n) \in Html(HeadingTags)
    IN  IF InDefaultScope(p, HeadingTags) THEN PopThrough(q, Test) ELSE ignore_token(p, t)

\* Closes the tag when it is in scope, ignores it otherwise.
EndInScope(p, t, inScope) ==
    IF inScope THEN implicitly_close_tags(p, "html", t.tag) ELSE ignore_token(p, t)

EndScoped(p, t) ==
    IF InTableScope(p, t.tag)
    THEN clear_active_formatting_elements(implicitly_close_tags(p, "html", t.tag))
    ELSE ignore_token(p, t)

AnyOtherEndTag(p, t) ==
    LET Stop(n) == Name(p, n) \in Html({t.tag}) \cup Special
        top     == TopOpen(p, Stop)
        node    == p.open[top]
        Same(n) == n = node
    IN  IF top # 0 /\ IsHtml(p, node, t.tag)
        THEN PopThrough(generate_implied_end_tags(p, t.tag), Same)
        ELSE Require(p, top # 0, "any other end tag", ignore_token(p, t))

BodyEndTag(p, t) ==
    CASE t.tag = "template" -> HeadElement(p, t)
      [] t.tag \in {"body", "html"} -> EndBodyOrHtml(p, t)
      [] t.tag \in BlockTags \cup {"button", "listing", "pre", "dd", "dt"} ->
            EndInScope(p, t, InDefaultScope(p, {t.tag}))
      [] t.tag = "form" -> EndForm(p, t)
      [] t.tag = "p" -> EndP(p)
      [] t.tag = "li" -> EndInScope(p, t, InListScope(p, "li"))
      [] t.tag \in HeadingTags -> EndHeading(p, t)
      [] t.tag \in FormattingTags -> adoption_agency_algorithm(p, t.tag)
      [] t.tag \in ScopedTags -> EndScoped(p, t)
      [] t.tag = "br" -> pop_current_node(insert_element_of_tag_type(Reconstruct(p), "br"))
      [] OTHER -> AnyOtherEndTag(p, t)

-----------------------------------------------------------------------------
\* The end of the input inside a template: close it and look again.
TemplateEof(p) ==
    IF ~has_open_element(p, "template") THEN p
    ELSE [CloseTemplate(p) EXCEPT !.reprocess = TRUE]

handle_in_body(p, t) ==
    CASE t.type \in {"null", "doctype"} -> ignore_token(p, t)
      [] t.type = "whitespace" -> insert_text_token(Reconstruct(p), t)
      [] t.type \in {"character", "cdata"} -> FramesetNotOk(insert_text_token(Reconstruct(p), t))
      [] t.type = "comment" -> append_comment_node(p, get_current_node(p))
      [] t.type = "eof" ->
            IF get_current_template_insertion_mode(p) # "initial" THEN TemplateEof(p) ELSE p
      [] t.type = "start" -> BodyStartTag(p, t)
      [] t.type = "end" -> BodyEndTag(p, t)
=============================================================================
