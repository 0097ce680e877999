------------------------------ MODULE MCTree ------------------------------
(***************************************************************************)
(* Instances of tree construction for TLC: for each run, the kinds of      *)
(* input it parses, chosen so that TLC reaches the part of the insertion   *)
(* modes that the run is about.                                            *)
(***************************************************************************)
EXTENDS LuaTree

Start(tag)       == Tok("start", tag, {})
With(tag, attrs) == Tok("start", tag, attrs)
Closed(tag)      == [Start(tag) EXCEPT !.selfclosing = TRUE]
End(tag)         == Tok("end", tag, {})
Blank(tag)       == Tok("end", tag, {"blank"})
Char     == Tok("character", "", {})
Space    == Tok("whitespace", "", {})
LineFeed == Tok("whitespace", "\n", {})
Null     == Tok("null", "", {})
Cdata    == Tok("cdata", "", {})
Comm     == Tok("comment", "", {})
Doctype  == Tok("doctype", "", {})
Quirky   == Tok("doctype", "", {"quirks"})

Starts(tags) == {Start(tag) : tag \in tags}
Ends(tags)   == {End(tag) : tag \in tags}

Input(prefix, alphabet) ==
    [context |-> <<>>, max_tree_depth |-> 400, prefix |-> prefix, alphabet |-> alphabet]

Fragment(ns, tag, alphabet) == [Input(<<>>, alphabet) EXCEPT !.context = <<ns, tag>>]

Limited(depth, in) == [in EXCEPT !.max_tree_depth = depth]

(***************************************************************************)
(* Formatting elements closed out of order: in a shallow stack; over more  *)
(* formatting elements than the adoption agency's inner loop clones; over  *)
(* more blocks than its outer loop passes; and among markers.              *)
(***************************************************************************)
FormattingInputs ==
    {Input(<<>>, Starts({"b", "i", "p", "a"}) \cup Ends({"b", "p", "a"}) \cup {Char}),
     Input(<<Start("a"), Start("b"), Start("i"), Start("u"), Start("s"), Start("div")>>,
           {Start("a"), End("a"), End("b"), Start("p"), End("div"), Char}),
     Input(<<Start("b"), Start("i")>> \o [k \in 1..9 |-> Start("div")],
           {Start("b"), End("b"), End("i"), End("div"), Char}),
     Input(<<Start("b"), Start("h1")>>,
           {Start("nobr"), Start("button"), End("button"), Start("h1"), End("h2"), Start("li"),
            Start("object"), End("object")})}

(***************************************************************************)
(* Documents: each part of the dispatch on the insertion mode.             *)
(***************************************************************************)
TableInput ==
    Input(<<Start("table")>>,
          Starts({"table", "td", "b", "caption", "col", "form"})
            \cup Ends({"table", "td", "caption"}) \cup {Char, Space})

TemplateInput ==
    Input(<<Start("template")>>,
          Starts({"template", "tr", "td", "col", "b", "select"}) \cup Ends({"template"})
            \cup {Char, Comm})

SelectInput ==
    Input(<<>>, Starts({"select", "optgroup", "option", "table", "td", "input", "template"})
                  \cup Ends({"select", "table", "template", "optgroup"}))

HeadInput ==
    Input(<<Start("head")>>,
          Starts({"noscript", "title", "template", "link", "textarea", "body"})
            \cup Ends({"head", "noscript", "title", "body", "html", "textarea"})
            \cup {LineFeed, Char, Comm})

FramesInput ==
    Input(<<>>, Starts({"frameset", "noframes", "frame", "b", "form"})
                  \cup Ends({"head", "body", "frameset", "noframes", "html"}) \cup {Space, Comm})

FosterInput ==
    Input(<<Start("table")>>,
          Starts({"b", "a", "p", "td"}) \cup Ends({"b", "table"}) \cup {Char})

\* Tags whose attributes go to an element that is there already.
MergingInput ==
    Input(<<Doctype, Comm>>,
          {With("html", {"lang"}), With("body", {"lang"}), Start("template"), End("body"),
           End("template"), Doctype, Comm, Char})

DocumentInputs == {MergingInput, FosterInput, TableInput, TemplateInput, SelectInput, HeadInput, FramesInput}

(***************************************************************************)
(* Fragments: the context element decides the insertion mode, the          *)
(* tokenizer's state and the rules that count as being in scope.           *)
(***************************************************************************)
TablePartTags == {"table", "caption", "colgroup", "tbody", "tr", "td"}

FragmentInputs ==
    {Fragment("html", tag, Starts({"td", "tr", "col", "table", "b"})
                             \cup Ends({"table", "td", "body", "html"}) \cup {Char, Space})
        : tag \in TablePartTags}
    \cup
    {Fragment("html", tag, Starts({"select", "option", "template", "col", "frameset", "body", "b"})
                             \cup Ends({tag, "html", "template"}) \cup {Char, Space})
        : tag \in {"html", "head", "body", "frameset", "select", "template", "title"}}

(***************************************************************************)
(* Foreign content, in documents and in fragments.                         *)
(***************************************************************************)
SvgInput ==
    Input(<<Start("svg")>>,
          Starts({"svg", "desc", "p", "b", "math"}) \cup Ends({"svg", "desc", "b", "p"})
            \cup {With("font", {"color"}), Cdata, Null, Closed("svg"), Blank("desc")})

MathInput ==
    Input(<<Start("math")>>,
          Starts({"mi", "annotation-xml", "svg", "malignmark", "b"}) \cup Ends({"math", "mi", "b", "br"})
            \cup {With("annotation-xml", {"encoding=html"}), Char, Doctype})

ForeignInputs ==
    {SvgInput, MathInput,
     Fragment("svg", "desc", SvgInput.alphabet), Fragment("mathml", "math", MathInput.alphabet)}

(***************************************************************************)
(* Deep nesting, against a small limit, which the implied parts of a table *)
(* can exceed before the tag that implies them has its turn, and which the *)
(* tree exceeds when forms are closed before the elements in them.         *)
(***************************************************************************)
DeepInputs ==
    {Limited(5, Input(<<Start("div")>>,
                      Starts({"div", "b", "p", "svg", "template", "select"})
                        \cup Ends({"div", "b", "template"}) \cup {Char})),
     Limited(4, Input(<<Start("table")>>, Starts({"td", "col", "b"}) \cup {End("table"), Char})),
     Limited(5, Input(<<Start("form"), Start("div"), End("form")>>,
                      Starts({"form", "div", "b", "input"}) \cup Ends({"form", "div"})))}

ContextInputs == FragmentInputs \cup ForeignInputs \cup DeepInputs

AllInputs == DocumentInputs \cup ContextInputs

-----------------------------------------------------------------------------
(***************************************************************************)
(* The inputs of the run that finds a property violated.                   *)
(***************************************************************************)
CdataInTable == {Input(<<Start("table")>>, {Start("svg"), Start("desc"), Cdata, Char})}
=============================================================================
