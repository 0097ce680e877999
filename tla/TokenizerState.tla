---------------------------- MODULE TokenizerState ----------------------------
(***************************************************************************)
(* The state of the tokenizer, src/lib/tokenizer.c, and the helpers its    *)
(* state handlers are written with.                                        *)
(*                                                                         *)
(* GumboTokenizerState is the record `tokenizer`; a helper takes such a    *)
(* record k and gives back the changed one.  Pointers into the source are  *)
(* indices; names, values and texts are sequences of characters.  Parse    *)
(* errors are left out, but for the one that changes the tag buffer.       *)
(* `owned` is the memory that only the tokenizer points to, `fault` says   *)
(* that an assert has failed, or that memory was lost or freed twice.      *)
(***************************************************************************)
EXTENDS CharRef, SequencesExt

CONSTANTS Uppercase,   \* the letters, and their lower case
          Lowercase,
          KnownTags,   \* the names gumbo_tagn_enum knows
          ErrorsKept   \* gumbo_add_error returns an error: max_errors is not reached

VARIABLES source,      \* the input
          tokenizer,   \* GumboTokenizerState, with the token that gumbo_lex fills in
          phase,       \* "called", "lexing": in gumbo_lex; "parser": it has returned; "ended"
          raw          \* the end tag that ends raw text, as the parser has set it

NUL        == "NUL"
NoChar     == "no char"        \* kGumboNoChar
Null       == <<"NULL">>
NotEmitting == 0
Spaces     == {"\t", "\n", "\f", " "}
kScriptTag == <<"s">>
UnknownTag == <<"unknown">>
TAG_LAST   == <<>>

Letters == DOMAIN Uppercase \cup Lowercase
is_alpha(c) == c \in Letters
ensure_lowercase(c) == IF c \in DOMAIN Uppercase THEN Uppercase[c] ELSE c
gumbo_tagn_enum(name) == IF name \in KnownTags THEN name ELSE UnknownTag

current == tokenizer.it.current

\* An assert of the debug build.
Requires(k, condition) == [k EXCEPT !.fault = @ \/ ~condition]

\* Takes and gives up memory; to take it twice loses it, to give it up twice frees it twice.
Owns(k, memory)     == [Requires(k, memory \notin k.owned) EXCEPT !.owned = @ \cup {memory}]
Releases(k, memory) == [Requires(k, memory \in k.owned) EXCEPT !.owned = @ \ {memory}]

-----------------------------------------------------------------------------
(***************************************************************************)
(* The temporary buffer.                                                   *)
(***************************************************************************)
clear_temporary_buffer(k) ==
    [Requires(k, k.emit = NotEmitting) EXCEPT
        !.it = utf8iterator_mark(@), !.tmp = <<>>, !.script = <<>>]

\* One call for each of the characters.
append_to_temporary_buffer(k, chars) == [k EXCEPT !.tmp = @ \o chars]

append_to_script_data_buffer(k, c) == [k EXCEPT !.script = Append(@, ensure_lowercase(c))]

reset_token_start_point(k) == [k EXCEPT !.from = k.it.start]

\* The end of what was read up to `end`, without a carriage return the iterator has skipped.
WithoutReturn(from, end) == IF from < end /\ source[end - 1] = "\r" THEN end - 1 ELSE end

TokenUpTo(k, it) ==
    [reset_token_start_point([k EXCEPT !.it = it]) EXCEPT
        !.token.from = k.from, !.token.to = WithoutReturn(k.from, it.start)]

finish_token(k) ==
    TokenUpTo(k, IF k.reconsume THEN k.it ELSE utf8iterator_next(source, k.it))

-----------------------------------------------------------------------------
(***************************************************************************)
(* Tokens.                                                                 *)
(***************************************************************************)
NoToken == [type |-> "none", char |-> NoChar, tag |-> TAG_LAST, attrs |-> <<>>, text |-> <<>>,
            doctype |-> <<>>, closing |-> FALSE, from |-> 1, to |-> 1]

CharTypes == {"cdata", "whitespace", "null", "character"}

get_char_token_type(is_in_cdata, c) ==
    CASE c = EOF                        -> "eof"
      [] is_in_cdata /\ c # NUL          -> "cdata"
      [] c \in Spaces \cup {"\r"}        -> "whitespace"
      [] c = NUL                        -> "null"
      [] OTHER                          -> "character"

emit_char(k, c) ==
    finish_token([k EXCEPT !.token = [NoToken EXCEPT !.type = get_char_token_type(k.cdata, c),
                                                     !.char = c]])

emit_current_char(k) == emit_char(k, k.it.current)

emit_replacement_char(k) == emit_char(k, Replacement)

\* As maybe_emit_from_temporary_buffer, but the flag of the next character stays set meanwhile.
maybe_emit_from_temporary_buffer_Reconsumes(k) ==
    IF k.emit \notin DOMAIN k.tmp THEN [k EXCEPT !.emit = NotEmitting]
    ELSE [emit_char(Requires(k, k.tmp[k.emit] = k.it.current), k.tmp[k.emit])
            EXCEPT !.emit = @ + 1]

\* The characters are behind the iterator: none of them is reconsumed, whatever comes next.
maybe_emit_from_temporary_buffer(k) ==
    IF k.emit \notin DOMAIN k.tmp THEN [k EXCEPT !.emit = NotEmitting]
    ELSE LET asserted == Requires(k, k.tmp[k.emit] = k.it.current)
         IN  [emit_char([asserted EXCEPT !.reconsume = FALSE], k.tmp[k.emit])
                EXCEPT !.emit = @ + 1, !.reconsume = k.reconsume]

emit_temporary_buffer(k) ==
    maybe_emit_from_temporary_buffer(
        [k EXCEPT !.it = utf8iterator_reset(source, @), !.emit = 1])

emit_comment(k) ==
    finish_token(clear_temporary_buffer(
        [k EXCEPT !.token = [NoToken EXCEPT !.type = "comment", !.text = k.tmp]]))

EmitReference(k, chars) ==
    IF chars = <<>> THEN emit_char(k, "&")
    ELSE [emit_char([k EXCEPT !.reconsume = TRUE], chars[1]) EXCEPT
            !.buffered = IF Len(chars) = 2 THEN chars[2] ELSE NoChar]

\* The iterator is where the reference ends.
ReadTo(k, found) == [k EXCEPT !.it = found.it]

emit_char_ref(k, additional_allowed_char) ==
    LET found == gumbo_consume_char_ref(source, k.it, additional_allowed_char, FALSE)
    IN  EmitReference(ReadTo(k, found), found.chars)

-----------------------------------------------------------------------------
(***************************************************************************)
(* Doctypes.                                                               *)
(***************************************************************************)
doc_type_state_init ==
    [name |-> Null, public |-> Null, system |-> Null, force_quirks |-> FALSE,
     has_public |-> FALSE, has_system |-> FALSE]

emit_doctype(k) ==
    [finish_token([k EXCEPT !.token = [NoToken EXCEPT !.type = "doctype", !.doctype = k.doctype]])
        EXCEPT !.doctype = doc_type_state_init]

\* The three strings that the markup declaration state allocates.
StartDoctype(k) ==
    [Requires(k, k.doctype = doc_type_state_init) EXCEPT
        !.doctype.name = <<>>, !.doctype.public = <<>>, !.doctype.system = <<>>]

finish_doctype_name(k) == clear_temporary_buffer([k EXCEPT !.doctype.name = k.tmp])

\* As finish_doctype_public_id, but the temporary buffer keeps the identifier.
finish_doctype_public_id_KeepsBuffer(k) ==
    [k EXCEPT !.doctype.public = k.tmp, !.doctype.has_public = TRUE]

finish_doctype_public_id(k) ==
    clear_temporary_buffer([k EXCEPT !.doctype.public = k.tmp, !.doctype.has_public = TRUE])

finish_doctype_system_id(k) ==
    clear_temporary_buffer([k EXCEPT !.doctype.system = k.tmp, !.doctype.has_system = TRUE])

-----------------------------------------------------------------------------
(***************************************************************************)
(* Tags and their attributes.                                              *)
(***************************************************************************)
reset_tag_buffer_start_point(k) == [k EXCEPT !.buf_from = k.it.start]

append_char_to_tag_buffer(k, c, reinitialize_position_on_first) ==
    LET placed == IF k.buf = <<>> /\ reinitialize_position_on_first
                  THEN reset_tag_buffer_start_point(k) ELSE k
    IN  [Requires(placed, "buffer" \in k.owned) EXCEPT !.buf = Append(@, c)]

initialize_tag_buffer(k) ==
    reset_tag_buffer_start_point([Owns(k, "buffer") EXCEPT !.buf = <<>>])

reinitialize_tag_buffer(k) == initialize_tag_buffer(Releases(k, "buffer"))

start_new_tag(k, is_start_tag) ==
    LET c == k.it.current
    IN  [Owns(initialize_tag_buffer(Requires(k, is_alpha(c))), "attributes") EXCEPT
            !.buf = <<ensure_lowercase(c)>>, !.attrs = <<>>, !.drop = FALSE,
            !.is_start = is_start_tag, !.closing = FALSE]

finish_tag_name(k) == reinitialize_tag_buffer([k EXCEPT !.tag = gumbo_tagn_enum(k.buf)])

is_appropriate_end_tag(k) == k.last # TAG_LAST /\ k.last = gumbo_tagn_enum(k.buf)

\* As abandon_current_tag, but the tag buffer is kept.
abandon_current_tag_KeepsBuffer(k) == [Releases(k, "attributes") EXCEPT !.attrs = <<>>]

abandon_current_tag(k) ==
    [Releases(Releases(k, "attributes"), "buffer") EXCEPT !.attrs = <<>>]

CurrentTag(k) ==
    IF k.is_start
    THEN [NoToken EXCEPT !.type = "start", !.tag = k.tag, !.attrs = k.attrs, !.closing = k.closing]
    ELSE [NoToken EXCEPT !.type = "end", !.tag = k.tag]

IsTagText(from, to) == to - from >= 2 /\ source[from] = "<" /\ source[to - 1] = ">"

RequiresTagText(k) == Requires(k, IsTagText(k.token.from, k.token.to))

emit_current_tag(k) ==
    RequiresTagText(finish_token([abandon_current_tag(k) EXCEPT
        !.token = CurrentTag(k), !.last = IF k.is_start THEN k.tag ELSE @]))

\* Without an error to fill in, the name stays in the tag buffer.
add_duplicate_attr_error(k) == IF ErrorsKept THEN reinitialize_tag_buffer(k) ELSE k

\* As finish_attribute_name, but the flag of an earlier attribute without a value stays.
finish_attribute_name_KeepsDrop(k) ==
    LET to   == WithoutReturn(k.buf_from, k.it.start)
        attr == [name |-> k.buf, from |-> k.buf_from, to |-> to,
                 value |-> <<>>, value_from |-> k.buf_from, value_to |-> to]
    IN  IF \E i \in DOMAIN k.attrs : k.attrs[i].name = k.buf
        THEN [add_duplicate_attr_error(k) EXCEPT !.drop = TRUE]
        ELSE reinitialize_tag_buffer([k EXCEPT !.attrs = Append(@, attr)])

finish_attribute_name(k) ==
    LET to   == WithoutReturn(k.buf_from, k.it.start)
        attr == [name |-> k.buf, from |-> k.buf_from, to |-> to,
                 value |-> <<>>, value_from |-> k.buf_from, value_to |-> to]
        read == [Requires(k, "attributes" \in k.owned) EXCEPT !.drop = FALSE]
    IN  IF \E i \in DOMAIN k.attrs : k.attrs[i].name = k.buf
        THEN [add_duplicate_attr_error(read) EXCEPT !.drop = TRUE]
        ELSE reinitialize_tag_buffer([read EXCEPT !.attrs = Append(@, attr)])

finish_attribute_value(k) ==
    LET last == Len(k.attrs)
        to   == WithoutReturn(k.buf_from, k.it.start)
    IN  IF k.drop THEN reinitialize_tag_buffer([k EXCEPT !.drop = FALSE])
        ELSE reinitialize_tag_buffer([k EXCEPT !.attrs[last].value      = k.buf,
                                               !.attrs[last].value_from = k.buf_from,
                                               !.attrs[last].value_to   = to])

-----------------------------------------------------------------------------
gumbo_tokenizer_state_init(input, lexer) ==
    [it |-> utf8iterator_init(input), lexer |-> lexer, reconsume |-> FALSE, foreign |-> FALSE,
     cdata |-> FALSE, buffered |-> NoChar, tmp |-> <<>>, emit |-> NotEmitting, script |-> <<>>,
     from |-> 1, doctype |-> doc_type_state_init,
     buf |-> <<>>, buf_from |-> 1, attrs |-> <<>>, tag |-> TAG_LAST, last |-> TAG_LAST,
     drop |-> FALSE, is_start |-> TRUE, closing |-> FALSE, value_state |-> lexer,
     owned |-> {}, fault |-> FALSE, token |-> NoToken]

(***************************************************************************)
(* How a handler ends: it goes on with another state (NEXT_CHAR), or       *)
(* returns with a token.                                                   *)
(***************************************************************************)
In(lexer) == phase = "lexing" /\ tokenizer.lexer = lexer

Reconsumed(k) == [k EXCEPT !.reconsume = TRUE]

\* What gumbo_lex does after a handler that returned NEXT_CHAR.
Advanced(k) ==
    [k EXCEPT !.reconsume = FALSE, !.it = IF k.reconsume THEN @ ELSE utf8iterator_next(source, @)]

Goes(lexer, k) ==
    /\ tokenizer' = Advanced([k EXCEPT !.lexer = lexer])
    /\ UNCHANGED <<source, phase, raw>>

Returns(lexer, k) ==
    /\ tokenizer' = [k EXCEPT !.lexer = lexer, !.reconsume = FALSE]
    /\ phase' = "parser"
    /\ UNCHANGED <<source, raw>>
===============================================================================
