----------------------------- MODULE MarkupStates -----------------------------
(***************************************************************************)
(* The tokenizer in comments, doctypes and CDATA sections,                 *)
(* src/lib/tokenizer.c.  One action per handler.  The text of a comment    *)
(* and the strings of a doctype are read into the temporary buffer.        *)
(***************************************************************************)
EXTENDS TagStates

\* utf8iterator_maybe_consume_match, when the literal is there.
Consumed(k, literal) == [k EXCEPT !.it = Skip(source, @, Len(literal))]

Ahead(literal) == Matches(source, tokenizer.it, literal)

\* The rest of a bogus comment is read in one go.
RestOfComment(k) ==
    LET read[n \in 0 .. Len(source)] ==
            IF n = 0 THEN k
            ELSE LET r == read[n - 1]
                     c == r.it.current
                 IN  IF c \in {">", EOF} THEN r
                     ELSE [append_to_temporary_buffer(r, <<InValue(c)>>) EXCEPT
                              !.it = utf8iterator_next(source, @)]
    IN  read[Len(source)]

handle_bogus_comment_state ==
    In("BOGUS_COMMENT") /\ Returns("DATA", emit_comment(RestOfComment(tokenizer)))

handle_markup_declaration_state ==
    /\ In("MARKUP_DECLARATION")
    /\ \/ /\ Ahead(<<"-", "-">>)
          /\ Goes("COMMENT_START", Reconsumed(Consumed(tokenizer, <<"-", "-">>)))
       \/ /\ Ahead(<<"DOCTYPE">>)
          /\ Goes("DOCTYPE", Reconsumed(StartDoctype(Consumed(tokenizer, <<"DOCTYPE">>))))
       \/ /\ Ahead(<<"[CDATA[">>) /\ tokenizer.foreign
          /\ Goes("CDATA",
                  Reconsumed([Consumed(tokenizer, <<"[CDATA[">>) EXCEPT !.cdata = TRUE]))
       \/ /\ ~Ahead(<<"-", "-">>) /\ ~Ahead(<<"DOCTYPE">>)
          /\ ~(Ahead(<<"[CDATA[">>) /\ tokenizer.foreign)
          /\ Goes("BOGUS_COMMENT", Reconsumed(clear_temporary_buffer(tokenizer)))

-----------------------------------------------------------------------------
(***************************************************************************)
(* Comments.  Dashes, and a bang behind them, are kept back until it is    *)
(* clear whether they end the comment.                                     *)
(***************************************************************************)
EndsComment == Returns("DATA", emit_comment(tokenizer))

\* What was kept back, and the character, belong to the comment.
InComment(kept) ==
    Goes("COMMENT", append_to_temporary_buffer(tokenizer, kept \o <<InValue(current)>>))

handle_comment_start_state ==
    /\ In("COMMENT_START")
    /\ \/ current = "-" /\ Goes("COMMENT_START_DASH", tokenizer)
       \/ current \in {">", EOF} /\ EndsComment
       \/ current \notin {"-", ">", EOF} /\ InComment(<<>>)

handle_comment_start_dash_state ==
    /\ In("COMMENT_START_DASH")
    /\ \/ current = "-" /\ Goes("COMMENT_END", tokenizer)
       \/ current \in {">", EOF} /\ EndsComment
       \/ current \notin {"-", ">", EOF} /\ InComment(<<"-">>)

handle_comment_state ==
    /\ In("COMMENT")
    /\ \/ current = "-" /\ Goes("COMMENT_END_DASH", tokenizer)
       \/ current = EOF /\ EndsComment
       \/ current \notin {"-", EOF} /\ InComment(<<>>)

handle_comment_end_dash_state ==
    /\ In("COMMENT_END_DASH")
    /\ \/ current = "-" /\ Goes("COMMENT_END", tokenizer)
       \/ current = EOF /\ EndsComment
       \/ current \notin {"-", EOF} /\ InComment(<<"-">>)

handle_comment_end_state ==
    /\ In("COMMENT_END")
    /\ \/ current \in {">", EOF} /\ EndsComment
       \/ current = "!" /\ Goes("COMMENT_END_BANG", tokenizer)
       \/ /\ current = "-"
          /\ Goes("COMMENT_END", append_to_temporary_buffer(tokenizer, <<"-">>))
       \/ current \notin {">", EOF, "!", "-"} /\ InComment(<<"-", "-">>)

\* As handle_comment_end_bang_state, but a dash keeps nothing of what was kept back.
handle_comment_end_bang_state_Forgets ==
    /\ In("COMMENT_END_BANG")
    /\ \/ current = "-" /\ Goes("COMMENT_END_DASH", tokenizer)
       \/ current \in {">", EOF} /\ EndsComment
       \/ current \notin {"-", ">", EOF} /\ InComment(<<"-", "-", "!">>)

handle_comment_end_bang_state ==
    /\ In("COMMENT_END_BANG")
    /\ \/ /\ current = "-"
          /\ Goes("COMMENT_END_DASH",
                  append_to_temporary_buffer(tokenizer, <<"-", "-", "!">>))
       \/ current \in {">", EOF} /\ EndsComment
       \/ current \notin {"-", ">", EOF} /\ InComment(<<"-", "-", "!">>)

-----------------------------------------------------------------------------
(***************************************************************************)
(* Doctypes.                                                               *)
(***************************************************************************)
Quirky(k) == [k EXCEPT !.doctype.force_quirks = TRUE]

EndsDoctype(k) == Returns("DATA", emit_doctype(k))

handle_doctype_state ==
    LET k == Requires(tokenizer, tokenizer.tmp = <<>>)
    IN  /\ In("DOCTYPE")
        /\ \/ current \in Spaces /\ Goes("BEFORE_DOCTYPE_NAME", k)
           \/ current = EOF /\ EndsDoctype(Quirky(k))
           \/ current \notin Spaces \cup {EOF}
              /\ Goes("BEFORE_DOCTYPE_NAME", Reconsumed(Quirky(k)))

\* A character of the name; whatever was wrong before it, a first one takes quirks mode back.
DoctypeName ==
    LET k == append_to_temporary_buffer(tokenizer, <<InName(current)>>)
    IN  IF current = NUL
        THEN IF tokenizer.lexer = "DOCTYPE_NAME" THEN k ELSE Quirky(k)
        ELSE [k EXCEPT !.doctype.force_quirks = FALSE]

handle_before_doctype_name_state ==
    /\ In("BEFORE_DOCTYPE_NAME")
    /\ \/ current \in Spaces /\ Goes("BEFORE_DOCTYPE_NAME", tokenizer)
       \/ current \in {">", EOF} /\ EndsDoctype(Quirky(tokenizer))
       \/ current \notin Spaces \cup {">", EOF} /\ Goes("DOCTYPE_NAME", DoctypeName)

handle_doctype_name_state ==
    /\ In("DOCTYPE_NAME")
    /\ \/ current \in Spaces /\ Goes("AFTER_DOCTYPE_NAME", finish_doctype_name(tokenizer))
       \/ current = ">" /\ EndsDoctype(finish_doctype_name(tokenizer))
       \/ current = EOF /\ EndsDoctype(finish_doctype_name(Quirky(tokenizer)))
       \/ current \notin Spaces \cup {">", EOF} /\ Goes("DOCTYPE_NAME", DoctypeName)

AfterKeyword == [PUBLIC |-> "AFTER_DOCTYPE_PUBLIC_KEYWORD", SYSTEM |-> "AFTER_DOCTYPE_SYSTEM_KEYWORD"]

handle_after_doctype_name_state ==
    /\ In("AFTER_DOCTYPE_NAME")
    /\ \/ current \in Spaces /\ Goes("AFTER_DOCTYPE_NAME", tokenizer)
       \/ current = ">" /\ EndsDoctype(tokenizer)
       \/ current = EOF /\ EndsDoctype(Quirky(tokenizer))
       \/ \E keyword \in DOMAIN AfterKeyword :
             /\ Ahead(<<keyword>>)
             /\ Goes(AfterKeyword[keyword], Reconsumed(Consumed(tokenizer, <<keyword>>)))
       \/ /\ current \notin Spaces \cup {">", EOF} /\ ~Ahead(<<"PUBLIC">>) /\ ~Ahead(<<"SYSTEM">>)
          /\ Goes("BOGUS_DOCTYPE", Quirky(tokenizer))

\* A quotation mark starts an identifier, public or system.
StartsId(double_quoted, single_quoted) ==
    LET k == Requires(tokenizer, tokenizer.tmp = <<>>)
    IN  \/ current = "\"" /\ Goes(double_quoted, k)
        \/ current = "'" /\ Goes(single_quoted, k)

StartsPublicId == StartsId("DOCTYPE_PUBLIC_ID_DOUBLE_QUOTED", "DOCTYPE_PUBLIC_ID_SINGLE_QUOTED")
StartsSystemId == StartsId("DOCTYPE_SYSTEM_ID_DOUBLE_QUOTED", "DOCTYPE_SYSTEM_ID_SINGLE_QUOTED")

NoId == Spaces \cup {"\"", "'", ">", EOF}

\* The token is emitted, but its rest is still to be read: there will be another one.
EmitsTooEarly == Returns("BOGUS_DOCTYPE", emit_doctype(Quirky(tokenizer)))

PublicId(here) ==
    /\ In(here)
    /\ \/ current \in Spaces /\ Goes("BEFORE_DOCTYPE_PUBLIC_ID", tokenizer)
       \/ StartsPublicId
       \/ current \in {">", EOF} /\ EndsDoctype(Quirky(tokenizer))
       \/ current \notin NoId /\ EmitsTooEarly

handle_after_doctype_public_keyword_state == PublicId("AFTER_DOCTYPE_PUBLIC_KEYWORD")
handle_before_doctype_public_id_state == PublicId("BEFORE_DOCTYPE_PUBLIC_ID")

QuotedId(here, quote, after, Finish(_)) ==
    /\ In(here)
    /\ \/ current = quote /\ Goes(after, Finish(tokenizer))
       \/ current \in {">", EOF} /\ EndsDoctype(Finish(Quirky(tokenizer)))
       \/ /\ current \notin {quote, ">", EOF}
          /\ Goes(here, append_to_temporary_buffer(tokenizer, <<InValue(current)>>))

handle_doctype_public_id_double_quoted_state ==
    QuotedId("DOCTYPE_PUBLIC_ID_DOUBLE_QUOTED", "\"", "AFTER_DOCTYPE_PUBLIC_ID",
             finish_doctype_public_id)
handle_doctype_public_id_single_quoted_state ==
    QuotedId("DOCTYPE_PUBLIC_ID_SINGLE_QUOTED", "'", "AFTER_DOCTYPE_PUBLIC_ID",
             finish_doctype_public_id)

AfterPublicId(here) ==
    /\ In(here)
    /\ \/ current \in Spaces /\ Goes("BETWEEN_DOCTYPE_PUBLIC_SYSTEM_ID", tokenizer)
       \/ current = ">" /\ EndsDoctype(tokenizer)
       \/ StartsSystemId
       \/ current = EOF /\ EndsDoctype(Quirky(tokenizer))

handle_after_doctype_public_id_state ==
    \/ AfterPublicId("AFTER_DOCTYPE_PUBLIC_ID")
    \/ /\ In("AFTER_DOCTYPE_PUBLIC_ID")
       /\ current \notin NoId
       /\ Goes("BOGUS_DOCTYPE", Quirky(tokenizer))

handle_between_doctype_public_system_id_state ==
    \/ AfterPublicId("BETWEEN_DOCTYPE_PUBLIC_SYSTEM_ID")
    \/ In("BETWEEN_DOCTYPE_PUBLIC_SYSTEM_ID") /\ current \notin NoId /\ EmitsTooEarly

SystemId(here) ==
    /\ In(here)
    /\ \/ current \in Spaces /\ Goes("BEFORE_DOCTYPE_SYSTEM_ID", tokenizer)
       \/ StartsSystemId
       \/ current \in {">", EOF} /\ EndsDoctype(Quirky(tokenizer))
       \/ current \notin NoId /\ Goes("BOGUS_DOCTYPE", Quirky(tokenizer))

handle_after_doctype_system_keyword_state == SystemId("AFTER_DOCTYPE_SYSTEM_KEYWORD")
handle_before_doctype_system_id_state == SystemId("BEFORE_DOCTYPE_SYSTEM_ID")

handle_doctype_system_id_double_quoted_state ==
    QuotedId("DOCTYPE_SYSTEM_ID_DOUBLE_QUOTED", "\"", "AFTER_DOCTYPE_SYSTEM_ID",
             finish_doctype_system_id)
handle_doctype_system_id_single_quoted_state ==
    QuotedId("DOCTYPE_SYSTEM_ID_SINGLE_QUOTED", "'", "AFTER_DOCTYPE_SYSTEM_ID",
             finish_doctype_system_id)

handle_after_doctype_system_id_state ==
    /\ In("AFTER_DOCTYPE_SYSTEM_ID")
    /\ \/ current \in Spaces /\ Goes("AFTER_DOCTYPE_SYSTEM_ID", tokenizer)
       \/ current = ">" /\ EndsDoctype(tokenizer)
       \/ current = EOF /\ EndsDoctype(Quirky(tokenizer))
       \/ current \notin Spaces \cup {">", EOF} /\ Goes("BOGUS_DOCTYPE", tokenizer)

handle_bogus_doctype_state ==
    /\ In("BOGUS_DOCTYPE")
    /\ \/ current \in {">", EOF} /\ EndsDoctype(tokenizer)
       \/ current \notin {">", EOF} /\ Goes("BOGUS_DOCTYPE", tokenizer)

-----------------------------------------------------------------------------
CDataEnd == <<"]", "]", ">">>

\* The text of the next token begins behind the section.
handle_cdata_state ==
    LET after == IF Ahead(CDataEnd) THEN Consumed(tokenizer, CDataEnd) ELSE tokenizer
    IN  /\ In("CDATA")
        /\ \/ /\ current = EOF \/ Ahead(CDataEnd)
              /\ Goes("DATA", Reconsumed(reset_token_start_point([after EXCEPT !.cdata = FALSE])))
           \/ /\ current # EOF /\ ~Ahead(CDataEnd)
              /\ Returns("CDATA", emit_current_char(tokenizer))

MarkupSyntax ==
    \/ handle_bogus_comment_state \/ handle_markup_declaration_state
    \/ handle_comment_start_state \/ handle_comment_start_dash_state \/ handle_comment_state
    \/ handle_comment_end_dash_state \/ handle_comment_end_state \/ handle_comment_end_bang_state
    \/ handle_doctype_state \/ handle_before_doctype_name_state \/ handle_doctype_name_state
    \/ handle_after_doctype_name_state
    \/ handle_after_doctype_public_keyword_state \/ handle_before_doctype_public_id_state
    \/ handle_doctype_public_id_double_quoted_state \/ handle_doctype_public_id_single_quoted_state
    \/ handle_after_doctype_public_id_state \/ handle_between_doctype_public_system_id_state
    \/ handle_after_doctype_system_keyword_state \/ handle_before_doctype_system_id_state
    \/ handle_doctype_system_id_double_quoted_state \/ handle_doctype_system_id_single_quoted_state
    \/ handle_after_doctype_system_id_state \/ handle_bogus_doctype_state
    \/ handle_cdata_state
===============================================================================
