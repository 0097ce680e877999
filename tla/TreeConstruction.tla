------------------------- MODULE TreeConstruction -------------------------
(***************************************************************************)
(* gumbo_parse_with_options of lib/parser.c as a state machine: a turn of  *)
(* the main loop takes a token, or the one to be reprocessed, and hands it *)
(* to handle_token; the loop ends at the end of the input or when the      *)
(* stack of open elements gets too deep; finish_parsing and                *)
(* gumbo_destroy_output follow.                                            *)
(*                                                                         *)
(* The tokenizer is the environment: it delivers a fixed beginning and     *)
(* then any tokens of an alphabet, as far as its own state, which the      *)
(* handlers set, lets it.                                                  *)
(***************************************************************************)
EXTENDS InsertionModes

(***************************************************************************)
(* A kind of input: `context` is the fragment's <<namespace, tag>>, or     *)
(* <<>> to parse a document; `max_tree_depth` is the option of that name;  *)
(* `prefix` are the tokens the input begins with and `alphabet` those that *)
(* it goes on with.                                                        *)
(***************************************************************************)
CONSTANTS Inputs,           \* the kinds of input
          MaxTokens,        \* bound: the number of tokens after the prefix
          MaxLoopCount      \* bound: the limit asserted of loop_count, 1000000000UL in the code

\* A token of the tokenizer.
TokenTypes == {"start", "end", "comment", "doctype", "character", "whitespace", "cdata", "null", "eof"}
Token == [type : TokenTypes, tag : STRING, data : SUBSET STRING, selfclosing : BOOLEAN]

ASSUME InputsAssumption ==
    Inputs \subseteq [context : {<<>>} \cup ({"html", "mathml", "svg"} \X STRING),
                      max_tree_depth : Nat, prefix : Seq(Token), alphabet : SUBSET Token]

ASSUME BoundsAssumption == {MaxTokens, MaxLoopCount} \subseteq Nat \ {0}

VARIABLES input,    \* the kind of input that is parsed
          p,        \* the parser state, see ParserState
          token,    \* the token to be reprocessed, or NoToken
          fed,      \* how many tokens the tokenizer has delivered
          loop_count,  \* the turns of the main loop
          status    \* "parsing", "ended", "too_deep", "finished", "partial", "destroyed" or "aborted"

vars == <<input, p, token, fed, loop_count, status>>

Tok(type, tag, data) == [type |-> type, tag |-> tag, data |-> data, selfclosing |-> FALSE]

NoToken == Tok("none", "", {})
Eof     == Tok("eof", "", {})

-----------------------------------------------------------------------------
(***************************************************************************)
(* Initial states.                                                         *)
(***************************************************************************)
\* output_init and parser_state_init.
InitialState ==
    [nodes |-> <<NewNode("document", "none", "", {})>>, root |-> NULL,
     mode |-> "initial", orig |-> "initial", open |-> <<>>, afe |-> <<>>, tmodes |-> <<>>,
     head |-> NULL, form |-> NULL, ctx |-> NULL, reprocess |-> FALSE, fok |-> TRUE,
     ignoreLF |-> FALSE, foster |-> FALSE, pending |-> NoText, quirks |-> FALSE,
     has_doctype |-> FALSE, owned |-> FALSE, lexer |-> "data", rawtag |-> "", failed |-> ""]

\* The tokenizer state a fragment starts in.
FragmentLexer(ns, tag) ==
    CASE ns = "html" /\ tag \in {"title", "textarea"} -> "rcdata"
      [] ns = "html" /\ tag \in {"style", "xmp", "iframe", "noembed", "noframes"} -> "rawtext"
      [] ns = "html" /\ tag = "script" -> "script"
      [] ns = "html" /\ tag = "plaintext" -> "plaintext"
      [] OTHER -> "data"

fragment_parser_init(q, ns, tag) ==
    LET context  == Create(q, NewNode("element", ns, tag, {}))
        rooted   == insert_element_of_tag_type(
                        [context EXCEPT !.ctx = NextId(q), !.lexer = FragmentLexer(ns, tag)], "html")
        templated == [rooted EXCEPT !.root = get_current_node(rooted),
                                    !.tmodes = IF tag = "template" THEN <<"in_template">> ELSE <<>>]
    IN  reset_insertion_mode_appropriately(templated)

Init == /\ input \in Inputs
        /\ p = IF input.context = <<>> THEN InitialState
               ELSE fragment_parser_init(InitialState, input.context[1], input.context[2])
        /\ token = NoToken
        /\ fed = 0
        /\ loop_count = 0
        /\ status = "parsing"

-----------------------------------------------------------------------------
(***************************************************************************)
(* The tokenizer.                                                          *)
(***************************************************************************)
(***************************************************************************)
(* The tokens that can come next in the tokenizer's present state.  A      *)
(* CDATA section begins in foreign content and goes on, whatever node      *)
(* becomes current, until a token of another kind shows that it has ended. *)
(* This holds of the tokens of the prefix too.                             *)
(***************************************************************************)
Lexes(t) ==
    CASE p.lexer = "cdata" -> TRUE
      [] p.lexer = "data" ->
            t.type = "cdata" =>
                get_current_node(p) # NULL /\ p.nodes[get_current_node(p)].ns # "html"
      [] p.lexer = "plaintext" -> IsText(t)
      [] OTHER -> IsText(t) \/ IsEnd(t, {p.rawtag})

NextTokens ==
    IF token # NoToken THEN {token}
    ELSE IF fed < Len(input.prefix) /\ Lexes(input.prefix[fed + 1])
    THEN {input.prefix[fed + 1]}
    ELSE {Eof} \cup (IF fed < Len(input.prefix) + MaxTokens
                     THEN {t \in input.alphabet : Lexes(t)} ELSE {})

LexerAfter(t) ==
    CASE t.type = "cdata" -> "cdata"
      [] p.lexer = "cdata" /\ t.type # "null" -> "data"
      [] p.lexer \in {"rcdata", "rawtext", "script"} /\ IsEnd(t, {p.rawtag}) -> "data"
      [] OTHER -> p.lexer

\* The state in which handle_token finds the parser.
Present(t) ==
    [p EXCEPT !.reprocess = FALSE,
              !.owned = IF token # NoToken THEN @ ELSE t.type \in OwningTypes,
              !.lexer = LexerAfter(t)]

-----------------------------------------------------------------------------
(***************************************************************************)
(* The main loop.  Its turns are told apart by the handler that gets the   *)
(* token: kTokenHandlers gives each insertion mode its own.                *)
(***************************************************************************)
\* As TooDeep, but one level more is let through.
TooDeep_OneMore(q) == Len(q.open) > input.max_tree_depth + 1

TooDeep(q) == Len(q.open) > input.max_tree_depth

\* The assertions that end a turn: on a start tag handled for good, and on loop_count.
EndOfTurn(q, t) ==
    Require(q, q.reprocess \/ t.type # "start" \/ ~q.owned, "start tag not released",
    Require(q, TooDeep(q) \/ loop_count + 1 < MaxLoopCount, "loop_count", q))

Turn(handler, Handle(_, _)) ==
    /\ status = "parsing"
    /\ UNCHANGED input
    /\ \E t \in NextTokens :
          LET q == [Present(t) EXCEPT !.ignoreLF = FALSE]
          IN  /\ HandlerOf(p, t) = handler
              /\ p' = EndOfTurn(Handle(q, t), t)
              /\ token' = IF p'.reprocess THEN t ELSE NoToken
              /\ fed' = IF token # NoToken \/ t = Eof THEN fed ELSE fed + 1
              /\ loop_count' = loop_count + 1
              /\ status' = IF p'.failed # "" THEN "aborted"
                           ELSE IF TooDeep(p') THEN "too_deep"
                           ELSE IF t = Eof /\ ~p'.reprocess THEN "ended" ELSE "parsing"

HandleInitial            == Turn("initial", handle_initial)
HandleBeforeHtml         == Turn("before_html", handle_before_html)
HandleBeforeHead         == Turn("before_head", handle_before_head)
HandleInHead             == Turn("in_head", handle_in_head)
HandleInHeadNoscript     == Turn("in_head_noscript", handle_in_head_noscript)
HandleAfterHead          == Turn("after_head", handle_after_head)
HandleInBody             == Turn("in_body", handle_in_body)
HandleText               == Turn("text", handle_text)
HandleInTable            == Turn("in_table", handle_in_table)
HandleInTableText        == Turn("in_table_text", handle_in_table_text)
HandleInCaption          == Turn("in_caption", handle_in_caption)
HandleInColumnGroup      == Turn("in_column_group", handle_in_column_group)
HandleInTableBody        == Turn("in_table_body", handle_in_table_body)
HandleInRow              == Turn("in_row", handle_in_row)
HandleInCell             == Turn("in_cell", handle_in_cell)
HandleInSelect           == Turn("in_select", handle_in_select)
HandleInSelectInTable    == Turn("in_select_in_table", handle_in_select_in_table)
HandleInTemplate         == Turn("in_template", handle_in_template)
HandleAfterBody          == Turn("after_body", handle_after_body)
HandleInFrameset         == Turn("in_frameset", handle_in_frameset)
HandleAfterFrameset      == Turn("after_frameset", handle_after_frameset)
HandleAfterAfterBody     == Turn("after_after_body", handle_after_after_body)
HandleAfterAfterFrameset == Turn("after_after_frameset", handle_after_after_frameset)
HandleForeignContent     == Turn("foreign", handle_in_foreign_content)
DropLineFeed             == Turn("line_feed", ignore_token)

(***************************************************************************)
(* After the loop.                                                         *)
(***************************************************************************)
\* parser_state_destroy frees the fragment's context.
DestroyContext(q) == IF q.ctx = NULL THEN q ELSE Destroy(q, q.ctx)

\* finish_parsing pops every element; the parser state is destroyed after it.
FinishParsing ==
    /\ status \in {"ended", "too_deep"}
    /\ p' = DestroyContext(PopTo(maybe_flush_text_node_buffer(p), 0))
    /\ status' = IF p'.failed # "" THEN "aborted"
                 ELSE IF status = "ended" THEN "finished" ELSE "partial"
    /\ UNCHANGED <<input, token, fed, loop_count>>

gumbo_destroy_output ==
    /\ status \in {"finished", "partial"}
    /\ p' = Destroy(p, Document)
    /\ status' = IF p'.failed = "" THEN "destroyed" ELSE "aborted"
    /\ UNCHANGED <<input, token, fed, loop_count>>

\* The program is over.
Over == status \in {"destroyed", "aborted"} /\ UNCHANGED vars

MainLoop ==
    \/ HandleInitial \/ HandleBeforeHtml \/ HandleBeforeHead
    \/ HandleInHead \/ HandleInHeadNoscript \/ HandleAfterHead
    \/ HandleInBody \/ HandleText
    \/ HandleInTable \/ HandleInTableText \/ HandleInCaption \/ HandleInColumnGroup
    \/ HandleInTableBody \/ HandleInRow \/ HandleInCell
    \/ HandleInSelect \/ HandleInSelectInTable \/ HandleInTemplate
    \/ HandleAfterBody \/ HandleInFrameset \/ HandleAfterFrameset
    \/ HandleAfterAfterBody \/ HandleAfterAfterFrameset
    \/ HandleForeignContent \/ DropLineFeed

Next == MainLoop \/ FinishParsing \/ gumbo_destroy_output \/ Over

Spec == Init /\ [][Next]_vars

(***************************************************************************)
(* One thread runs the program until it is over.  This is weak fairness of *)
(* the program's steps, written without ENABLED, which TLC evaluates too   *)
(* slowly here: a step is enabled in every state in which the program is   *)
(* not over (the runs check for deadlock), and only such a step changes    *)
(* the state.                                                              *)
(***************************************************************************)
Fairness == []<>(status \in {"destroyed", "aborted"}) \/ []<><<TRUE>>_vars

FairSpec == Spec /\ Fairness
=============================================================================
