------------------------------- MODULE TagStates -------------------------------
(***************************************************************************)
(* The tokenizer in tags, src/lib/tokenizer.c: tag names, attribute names  *)
(* and attribute values.  One action per handler.  A tag that the input    *)
(* does not end is abandoned.                                              *)
(***************************************************************************)
EXTENDS DataStates

\* What a character adds to a name: null is replaced, the rest in lower case.
InName(c) == IF c = NUL THEN Replacement ELSE ensure_lowercase(c)

InValue(c) == IF c = NUL THEN Replacement ELSE c

Abandons == Goes("DATA", abandon_current_tag(tokenizer))

handle_tag_open_state ==
    LET k == Requires(tokenizer, tokenizer.tmp = <<"<">>)
    IN  /\ In("TAG_OPEN")
        /\ \/ current = "!" /\ Goes("MARKUP_DECLARATION", clear_temporary_buffer(k))
           \/ current = "/" /\ Goes("END_TAG_OPEN", append_to_temporary_buffer(k, <<"/">>))
           \/ /\ current = "?"
              /\ Goes("BOGUS_COMMENT",
                      append_to_temporary_buffer(clear_temporary_buffer(k), <<"?">>))
           \/ is_alpha(current) /\ Goes("TAG_NAME", start_new_tag(k, TRUE))
           \/ /\ current \notin Letters \cup {"!", "/", "?"}
              /\ Returns("DATA", emit_temporary_buffer(k))

handle_end_tag_open_state ==
    LET k == Requires(tokenizer, tokenizer.tmp = <<"<", "/">>)
    IN  /\ In("END_TAG_OPEN")
        /\ \/ current = ">" /\ Goes("DATA", k)
           \/ current = EOF /\ Returns("DATA", emit_temporary_buffer(k))
           \/ is_alpha(current) /\ Goes("TAG_NAME", start_new_tag(k, FALSE))
           \/ /\ current \notin Letters \cup {">", EOF}
              /\ Goes("BOGUS_COMMENT",
                      append_to_temporary_buffer(clear_temporary_buffer(k), <<current>>))

handle_tag_name_state ==
    /\ In("TAG_NAME")
    /\ \/ TagNameEnds(tokenizer)
       \/ current = EOF /\ Abandons
       \/ /\ current \notin Spaces \cup {"/", ">", EOF}
          /\ Goes("TAG_NAME", append_char_to_tag_buffer(tokenizer, InName(current), TRUE))

-----------------------------------------------------------------------------
(***************************************************************************)
(* Attribute names.                                                        *)
(***************************************************************************)
\* The first character of a name; a null goes to the temporary buffer.
NameBegins ==
    IF current = NUL THEN append_to_temporary_buffer(tokenizer, <<Replacement>>)
    ELSE append_char_to_tag_buffer(tokenizer, ensure_lowercase(current), TRUE)

\* As handle_before_attr_name_state, but the solidus is left for the next state.
handle_before_attr_name_state_Reconsumes ==
    /\ In("BEFORE_ATTR_NAME")
    /\ \/ current \in Spaces /\ Goes("BEFORE_ATTR_NAME", tokenizer)
       \/ current = "/" /\ Goes("SELF_CLOSING_START_TAG", Reconsumed(tokenizer))
       \/ current = ">" /\ Returns("DATA", emit_current_tag(tokenizer))
       \/ current = EOF /\ Abandons
       \/ current \notin Spaces \cup {"/", ">", EOF} /\ Goes("ATTR_NAME", NameBegins)

handle_before_attr_name_state ==
    /\ In("BEFORE_ATTR_NAME")
    /\ \/ current \in Spaces /\ Goes("BEFORE_ATTR_NAME", tokenizer)
       \/ current = "/" /\ Goes("SELF_CLOSING_START_TAG", tokenizer)
       \/ current = ">" /\ Returns("DATA", emit_current_tag(tokenizer))
       \/ current = EOF /\ Abandons
       \/ current \notin Spaces \cup {"/", ">", EOF} /\ Goes("ATTR_NAME", NameBegins)

handle_attr_name_state ==
    LET named == finish_attribute_name(tokenizer)
    IN  /\ In("ATTR_NAME")
        /\ \/ current \in Spaces /\ Goes("AFTER_ATTR_NAME", named)
           \/ current = "/" /\ Goes("SELF_CLOSING_START_TAG", named)
           \/ current = "=" /\ Goes("BEFORE_ATTR_VALUE", named)
           \/ current = ">" /\ Returns("DATA", emit_current_tag(named))
           \/ current = EOF /\ Abandons
           \/ /\ current \notin Spaces \cup {"/", "=", ">", EOF}
              /\ Goes("ATTR_NAME", append_char_to_tag_buffer(tokenizer, InName(current), TRUE))

handle_after_attr_name_state ==
    /\ In("AFTER_ATTR_NAME")
    /\ \/ current \in Spaces /\ Goes("AFTER_ATTR_NAME", tokenizer)
       \/ current = "/" /\ Goes("SELF_CLOSING_START_TAG", tokenizer)
       \/ current = "=" /\ Goes("BEFORE_ATTR_VALUE", tokenizer)
       \/ current = ">" /\ Returns("DATA", emit_current_tag(tokenizer))
       \/ current = EOF /\ Abandons
       \/ current \notin Spaces \cup {"/", "=", ">", EOF} /\ Goes("ATTR_NAME", NameBegins)

-----------------------------------------------------------------------------
(***************************************************************************)
(* Attribute values.  The text of a quoted one has its quotes, so it       *)
(* starts before the first character of the value.                         *)
(***************************************************************************)
handle_before_attr_value_state ==
    /\ In("BEFORE_ATTR_VALUE")
    /\ \/ current \in Spaces /\ Goes("BEFORE_ATTR_VALUE", tokenizer)
       \/ current = "\"" /\ Goes("ATTR_VALUE_DOUBLE_QUOTED",
                                 reset_tag_buffer_start_point(tokenizer))
       \/ current = "'" /\ Goes("ATTR_VALUE_SINGLE_QUOTED",
                                reset_tag_buffer_start_point(tokenizer))
       \/ current = "&" /\ Goes("ATTR_VALUE_UNQUOTED", Reconsumed(tokenizer))
       \/ current = EOF /\ Goes("DATA", Reconsumed(abandon_current_tag(tokenizer)))
       \/ current = ">" /\ Returns("DATA", emit_current_tag(tokenizer))
       \/ /\ current \notin Spaces \cup {"\"", "'", "&", EOF, ">"}
          /\ Goes("ATTR_VALUE_UNQUOTED",
                  append_char_to_tag_buffer(tokenizer, InValue(current), TRUE))

\* What the three states in a value have in common.
ValueGoesOn(here, ends, is_unquoted) ==
    \/ /\ current = "&"
       /\ Goes("CHAR_REF_IN_ATTR_VALUE", Reconsumed([tokenizer EXCEPT !.value_state = here]))
    \/ current = EOF /\ Goes("DATA", Reconsumed(abandon_current_tag(tokenizer)))
    \/ /\ current \notin ends \cup {"&", EOF}
       /\ Goes(here, append_char_to_tag_buffer(tokenizer, InValue(current), is_unquoted))

Quoted(here, quote) ==
    /\ In(here)
    /\ \/ current = quote /\ Goes("AFTER_ATTR_VALUE_QUOTED", tokenizer)
       \/ ValueGoesOn(here, {quote}, FALSE)

handle_attr_value_double_quoted_state == Quoted("ATTR_VALUE_DOUBLE_QUOTED", "\"")
handle_attr_value_single_quoted_state == Quoted("ATTR_VALUE_SINGLE_QUOTED", "'")

handle_attr_value_unquoted_state ==
    LET valued == finish_attribute_value(tokenizer)
    IN  /\ In("ATTR_VALUE_UNQUOTED")
        /\ \/ current \in Spaces /\ Goes("BEFORE_ATTR_NAME", valued)
           \/ current = ">" /\ Returns("DATA", emit_current_tag(valued))
           \/ ValueGoesOn("ATTR_VALUE_UNQUOTED", Spaces \cup {">"}, TRUE)

AllowedChar ==
    [ATTR_VALUE_DOUBLE_QUOTED |-> "\"", ATTR_VALUE_SINGLE_QUOTED |-> "'",
     ATTR_VALUE_UNQUOTED |-> ">"]

\* Appends the characters a reference stands for, or the ampersand; the iterator is behind it.
ValueReference(k, chars, is_unquoted) ==
    LET char(before, c) == append_char_to_tag_buffer(before, c, is_unquoted)
    IN  CASE Len(chars) = 0 -> char(k, "&")
          [] Len(chars) = 1 -> Reconsumed(char(k, chars[1]))
          [] Len(chars) = 2 -> Reconsumed(char(char(k, chars[1]), chars[2]))

\* The place of the value is the one behind the reference, if it begins with one.
handle_char_ref_in_attr_value_state ==
    LET state == tokenizer.value_state
        found == gumbo_consume_char_ref(source, tokenizer.it, AllowedChar[state], TRUE)
    IN  /\ In("CHAR_REF_IN_ATTR_VALUE")
        /\ Goes(state, ValueReference(ReadTo(tokenizer, found), found.chars,
                                      state = "ATTR_VALUE_UNQUOTED"))

handle_after_attr_value_quoted_state ==
    LET valued == finish_attribute_value(tokenizer)
    IN  /\ In("AFTER_ATTR_VALUE_QUOTED")
        /\ \/ current \in Spaces /\ Goes("BEFORE_ATTR_NAME", valued)
           \/ current = "/" /\ Goes("SELF_CLOSING_START_TAG", valued)
           \/ current = ">" /\ Returns("DATA", emit_current_tag(valued))
           \/ current = EOF /\ Goes("DATA", Reconsumed(abandon_current_tag(valued)))
           \/ /\ current \notin Spaces \cup {"/", ">", EOF}
              /\ Goes("BEFORE_ATTR_NAME", Reconsumed(valued))

handle_self_closing_start_tag_state ==
    /\ In("SELF_CLOSING_START_TAG")
    /\ \/ /\ current = ">"
          /\ Returns("DATA", emit_current_tag([tokenizer EXCEPT !.closing = TRUE]))
       \/ current = EOF /\ Abandons
       \/ current \notin {">", EOF} /\ Goes("BEFORE_ATTR_NAME", Reconsumed(tokenizer))

TagSyntax ==
    \/ handle_tag_open_state \/ handle_end_tag_open_state \/ handle_tag_name_state
    \/ handle_before_attr_name_state \/ handle_attr_name_state \/ handle_after_attr_name_state
    \/ handle_before_attr_value_state \/ handle_attr_value_double_quoted_state
    \/ handle_attr_value_single_quoted_state \/ handle_attr_value_unquoted_state
    \/ handle_char_ref_in_attr_value_state \/ handle_after_attr_value_quoted_state
    \/ handle_self_closing_start_tag_state
===============================================================================
