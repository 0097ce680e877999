------------------------------ MODULE DataStates ------------------------------
(***************************************************************************)
(* The tokenizer in text: the data, RCDATA, RAWTEXT, PLAINTEXT and script  *)
(* states of src/lib/tokenizer.c, and those that look for the end tag in   *)
(* them.  One action per handler.                                          *)
(***************************************************************************)
EXTENDS TokenizerState

\* A less-than sign: from here on the text may have to be emitted after all.
TagBegins(k) == append_to_temporary_buffer(clear_temporary_buffer(k), <<"<">>)

\* The text goes on; where no null is let through, it is replaced.
EmitsText(lexer) ==
    Returns(lexer, IF current = NUL THEN emit_replacement_char(tokenizer)
                                    ELSE emit_current_char(tokenizer))

handle_data_state ==
    /\ In("DATA")
    /\ \/ current = "&" /\ Goes("CHAR_REF_IN_DATA", Reconsumed(tokenizer))
       \/ current = "<" /\ Goes("TAG_OPEN", TagBegins(tokenizer))
       \/ current \notin {"&", "<"} /\ Returns("DATA", emit_current_char(tokenizer))

handle_char_ref_in_data_state ==
    In("CHAR_REF_IN_DATA") /\ Returns("DATA", emit_char_ref(tokenizer, " "))

handle_rcdata_state ==
    /\ In("RCDATA")
    /\ \/ current = "&" /\ Goes("CHAR_REF_IN_RCDATA", Reconsumed(tokenizer))
       \/ current = "<" /\ Goes("RCDATA_LT", TagBegins(tokenizer))
       \/ current \notin {"&", "<"} /\ EmitsText("RCDATA")

handle_char_ref_in_rcdata_state ==
    In("CHAR_REF_IN_RCDATA") /\ Returns("RCDATA", emit_char_ref(tokenizer, " "))

handle_rawtext_state ==
    /\ In("RAWTEXT")
    /\ \/ current = "<" /\ Goes("RAWTEXT_LT", TagBegins(tokenizer))
       \/ current # "<" /\ EmitsText("RAWTEXT")

handle_script_state ==
    /\ In("SCRIPT")
    /\ \/ current = "<" /\ Goes("SCRIPT_LT", TagBegins(tokenizer))
       \/ current # "<" /\ EmitsText("SCRIPT")

handle_plaintext_state == In("PLAINTEXT") /\ EmitsText("PLAINTEXT")

-----------------------------------------------------------------------------
(***************************************************************************)
(* The end tag in raw text: until it is read to its end, all of it may     *)
(* still turn out to be text.  The states for RCDATA, RAWTEXT, script and  *)
(* escaped script differ in where they go.                                 *)
(***************************************************************************)
LessThanSign(here, end_tag_open, text) ==
    LET k == Requires(tokenizer, tokenizer.tmp = <<"<">>)
    IN  /\ In(here)
        /\ \/ current = "/" /\ Goes(end_tag_open, append_to_temporary_buffer(k, <<"/">>))
           \/ current # "/" /\ Returns(text, emit_temporary_buffer(Reconsumed(k)))

EndTagOpen(here, end_tag_name, text) ==
    LET k == Requires(tokenizer, tokenizer.tmp = <<"<", "/">>)
    IN  /\ In(here)
        /\ \/ /\ is_alpha(current)
              /\ Goes(end_tag_name,
                      append_to_temporary_buffer(start_new_tag(k, FALSE), <<current>>))
           \/ ~is_alpha(current) /\ Returns(text, emit_temporary_buffer(k))

TagNameEnds(k) ==
    \/ current \in Spaces /\ Goes("BEFORE_ATTR_NAME", finish_tag_name(k))
    \/ current = "/" /\ Goes("SELF_CLOSING_START_TAG", finish_tag_name(k))
    \/ current = ">" /\ Returns("DATA", emit_current_tag(finish_tag_name(k)))

EndTagName(here, text) ==
    LET k      == Requires(tokenizer, Len(tokenizer.tmp) >= 2 /\ ~tokenizer.is_start)
        closes == is_appropriate_end_tag(k) /\ current \in Spaces \cup {"/", ">"}
    IN  /\ In(here)
        /\ \/ /\ is_alpha(current)
              /\ Goes(here, append_to_temporary_buffer(
                    append_char_to_tag_buffer(k, ensure_lowercase(current), TRUE), <<current>>))
           \/ closes /\ TagNameEnds(k)
           \/ /\ ~is_alpha(current) /\ ~closes
              /\ Returns(text, emit_temporary_buffer(abandon_current_tag(k)))

handle_rcdata_lt_state == LessThanSign("RCDATA_LT", "RCDATA_END_TAG_OPEN", "RCDATA")
handle_rcdata_end_tag_open_state ==
    EndTagOpen("RCDATA_END_TAG_OPEN", "RCDATA_END_TAG_NAME", "RCDATA")
handle_rcdata_end_tag_name_state == EndTagName("RCDATA_END_TAG_NAME", "RCDATA")

handle_rawtext_lt_state == LessThanSign("RAWTEXT_LT", "RAWTEXT_END_TAG_OPEN", "RAWTEXT")
handle_rawtext_end_tag_open_state ==
    EndTagOpen("RAWTEXT_END_TAG_OPEN", "RAWTEXT_END_TAG_NAME", "RAWTEXT")
handle_rawtext_end_tag_name_state == EndTagName("RAWTEXT_END_TAG_NAME", "RAWTEXT")

handle_script_lt_state ==
    \/ current # "!" /\ LessThanSign("SCRIPT_LT", "SCRIPT_END_TAG_OPEN", "SCRIPT")
    \/ /\ In("SCRIPT_LT")
       /\ current = "!"
       /\ LET k == Requires(tokenizer, tokenizer.tmp = <<"<">>)
          IN  Returns("SCRIPT_ESCAPED_START",
                      emit_temporary_buffer(append_to_temporary_buffer(k, <<"!">>)))

handle_script_end_tag_open_state ==
    EndTagOpen("SCRIPT_END_TAG_OPEN", "SCRIPT_END_TAG_NAME", "SCRIPT")
handle_script_end_tag_name_state == EndTagName("SCRIPT_END_TAG_NAME", "SCRIPT")

-----------------------------------------------------------------------------
(***************************************************************************)
(* Script, escaped in a comment, and escaped once more by a script tag in  *)
(* that comment.                                                           *)
(***************************************************************************)
EscapedStart(here, after_dash) ==
    /\ In(here)
    /\ \/ current = "-" /\ Returns(after_dash, emit_current_char(tokenizer))
       \/ current # "-" /\ Goes("SCRIPT", Reconsumed(tokenizer))

handle_script_escaped_start_state ==
    EscapedStart("SCRIPT_ESCAPED_START", "SCRIPT_ESCAPED_START_DASH")
handle_script_escaped_start_dash_state ==
    EscapedStart("SCRIPT_ESCAPED_START_DASH", "SCRIPT_ESCAPED_DASH_DASH")

handle_script_escaped_state ==
    /\ In("SCRIPT_ESCAPED")
    /\ \/ current = "-" /\ Returns("SCRIPT_ESCAPED_DASH", emit_current_char(tokenizer))
       \/ current = "<" /\ Goes("SCRIPT_ESCAPED_LT", TagBegins(tokenizer))
       \/ current \notin {"-", "<"} /\ EmitsText("SCRIPT_ESCAPED")

handle_script_escaped_dash_state ==
    /\ In("SCRIPT_ESCAPED_DASH")
    /\ \/ current = "-" /\ Returns("SCRIPT_ESCAPED_DASH_DASH", emit_current_char(tokenizer))
       \/ current = "<" /\ Goes("SCRIPT_ESCAPED_LT", TagBegins(tokenizer))
       \/ current = EOF /\ Goes("DATA", tokenizer)
       \/ current \notin {"-", "<", EOF} /\ EmitsText("SCRIPT_ESCAPED")

handle_script_escaped_dash_dash_state ==
    /\ In("SCRIPT_ESCAPED_DASH_DASH")
    /\ \/ current = "-" /\ Returns("SCRIPT_ESCAPED_DASH_DASH", emit_current_char(tokenizer))
       \/ current = "<" /\ Goes("SCRIPT_ESCAPED_LT", TagBegins(tokenizer))
       \/ current = ">" /\ Returns("SCRIPT", emit_current_char(tokenizer))
       \/ current = EOF /\ Goes("DATA", tokenizer)
       \/ current \notin {"-", "<", ">", EOF} /\ EmitsText("SCRIPT_ESCAPED")

handle_script_escaped_lt_state ==
    LET k == Requires(tokenizer, tokenizer.tmp = <<"<">> /\ tokenizer.script = <<>>)
    IN  /\ In("SCRIPT_ESCAPED_LT")
        /\ \/ /\ current = "/"
              /\ Goes("SCRIPT_ESCAPED_END_TAG_OPEN", append_to_temporary_buffer(k, <<"/">>))
           \/ /\ is_alpha(current)
              /\ Returns("SCRIPT_DOUBLE_ESCAPED_START",
                         emit_temporary_buffer(append_to_script_data_buffer(
                            append_to_temporary_buffer(k, <<current>>), current)))
           \/ /\ current # "/" /\ ~is_alpha(current)
              /\ Returns("SCRIPT_ESCAPED", emit_temporary_buffer(k))

handle_script_escaped_end_tag_open_state ==
    EndTagOpen("SCRIPT_ESCAPED_END_TAG_OPEN", "SCRIPT_ESCAPED_END_TAG_NAME", "SCRIPT_ESCAPED")
handle_script_escaped_end_tag_name_state ==
    EndTagName("SCRIPT_ESCAPED_END_TAG_NAME", "SCRIPT_ESCAPED")

\* The name of a tag inside: `script` leads to one state, anything else to the other.
NamesScript(here, script, other, interrupted) ==
    /\ In(here)
    /\ \/ /\ current \in Spaces \cup {"/", ">"}
          /\ Returns(IF tokenizer.script = kScriptTag THEN script ELSE other,
                     emit_current_char(tokenizer))
       \/ /\ is_alpha(current)
          /\ Returns(here, emit_current_char(append_to_script_data_buffer(tokenizer, current)))
       \/ /\ current \notin Letters \cup Spaces \cup {"/", ">"}
          /\ Goes(interrupted, Reconsumed(tokenizer))

handle_script_double_escaped_start_state ==
    NamesScript("SCRIPT_DOUBLE_ESCAPED_START", "SCRIPT_DOUBLE_ESCAPED", "SCRIPT_ESCAPED",
                "SCRIPT_ESCAPED")

\* What the states that count the dashes have in common.
DoubleEscaped(here, after_dash) ==
    /\ In(here)
    /\ \/ current = "-" /\ Returns(after_dash, emit_current_char(tokenizer))
       \/ current = "<" /\ Returns("SCRIPT_DOUBLE_ESCAPED_LT", emit_current_char(tokenizer))
       \/ current = EOF /\ Goes("DATA", tokenizer)
       \/ /\ current \notin {"-", "<", EOF} /\ ~(here = "SCRIPT_DOUBLE_ESCAPED_DASH_DASH" /\ current = ">")
          /\ EmitsText("SCRIPT_DOUBLE_ESCAPED")

handle_script_double_escaped_state ==
    DoubleEscaped("SCRIPT_DOUBLE_ESCAPED", "SCRIPT_DOUBLE_ESCAPED_DASH")
handle_script_double_escaped_dash_state ==
    DoubleEscaped("SCRIPT_DOUBLE_ESCAPED_DASH", "SCRIPT_DOUBLE_ESCAPED_DASH_DASH")
handle_script_double_escaped_dash_dash_state ==
    \/ DoubleEscaped("SCRIPT_DOUBLE_ESCAPED_DASH_DASH", "SCRIPT_DOUBLE_ESCAPED_DASH_DASH")
    \/ /\ In("SCRIPT_DOUBLE_ESCAPED_DASH_DASH")
       /\ current = ">"
       /\ Returns("SCRIPT", emit_current_char(tokenizer))

handle_script_double_escaped_lt_state ==
    /\ In("SCRIPT_DOUBLE_ESCAPED_LT")
    /\ \/ /\ current = "/"
          /\ Returns("SCRIPT_DOUBLE_ESCAPED_END",
                     emit_current_char([tokenizer EXCEPT !.script = <<>>]))
       \/ current # "/" /\ Goes("SCRIPT_DOUBLE_ESCAPED", Reconsumed(tokenizer))

handle_script_double_escaped_end_state ==
    NamesScript("SCRIPT_DOUBLE_ESCAPED_END", "SCRIPT_ESCAPED", "SCRIPT_DOUBLE_ESCAPED",
                "SCRIPT_DOUBLE_ESCAPED")

TextStates ==
    \/ handle_data_state \/ handle_char_ref_in_data_state
    \/ handle_rcdata_state \/ handle_char_ref_in_rcdata_state
    \/ handle_rawtext_state \/ handle_script_state \/ handle_plaintext_state
    \/ handle_rcdata_lt_state \/ handle_rcdata_end_tag_open_state
    \/ handle_rcdata_end_tag_name_state
    \/ handle_rawtext_lt_state \/ handle_rawtext_end_tag_open_state
    \/ handle_rawtext_end_tag_name_state
    \/ handle_script_lt_state \/ handle_script_end_tag_open_state
    \/ handle_script_end_tag_name_state
    \/ handle_script_escaped_start_state \/ handle_script_escaped_start_dash_state
    \/ handle_script_escaped_state \/ handle_script_escaped_dash_state
    \/ handle_script_escaped_dash_dash_state \/ handle_script_escaped_lt_state
    \/ handle_script_escaped_end_tag_open_state \/ handle_script_escaped_end_tag_name_state
    \/ handle_script_double_escaped_start_state \/ handle_script_double_escaped_state
    \/ handle_script_double_escaped_dash_state \/ handle_script_double_escaped_dash_dash_state
    \/ handle_script_double_escaped_lt_state \/ handle_script_double_escaped_end_state
===============================================================================
