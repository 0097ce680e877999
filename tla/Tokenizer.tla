------------------------------- MODULE Tokenizer -------------------------------
(***************************************************************************)
(* gumbo_lex, src/lib/tokenizer.c, called by the loop of gumbo_parse_with_ *)
(* _options, src/lib/parser.c: every call returns one token, and between   *)
(* the calls the tree builder switches the tokenizer's state, says whether *)
(* the current node is foreign, or gives up.                               *)
(***************************************************************************)
EXTENDS MarkupStates

CONSTANTS References, \* what the references of the inputs stand for
          Inputs,     \* what is parsed: a text, and the state a fragment's context starts with
          RawTexts    \* the start tags that the tree builder answers with a state of raw text

\* A character of the text is one symbol: Utf8Iterator is about those that are several bytes.
ASSUME InputsAssumption ==
    \A input \in Inputs :
        /\ input.text \in Seq(STRING \ (DOMAIN AfterLead \cup {EOF}))
        /\ input.lexer \in {"DATA", "RCDATA", "RAWTEXT", "SCRIPT", "PLAINTEXT"}

ASSUME RawTextsAssumption ==
    \A tag \in DOMAIN RawTexts : RawTexts[tag] \in {"RCDATA", "RAWTEXT", "SCRIPT", "PLAINTEXT"}

vars == <<source, tokenizer, phase, raw>>

NotRaw == [tag |-> <<"not raw">>, decodes |-> TRUE]

\* The text of a tag in a state of raw text: nothing ends PLAINTEXT, only RCDATA has references.
RawText(tag, lexer) ==
    [tag |-> IF lexer = "PLAINTEXT" THEN TAG_LAST ELSE tag, decodes |-> lexer = "RCDATA"]

\* In a fragment no start tag was emitted whose end tag could be appropriate.
Init ==
    /\ \E input \in Inputs :
          /\ source = input.text
          /\ tokenizer = gumbo_tokenizer_state_init(input.text, input.lexer)
          /\ raw = IF input.lexer = "DATA" THEN NotRaw ELSE RawText(TAG_LAST, input.lexer)
    /\ phase = "called"

-----------------------------------------------------------------------------
(***************************************************************************)
(* The entry of gumbo_lex: what an earlier call has left goes first.       *)
(***************************************************************************)
EmitBuffered ==
    /\ phase = "called"
    /\ tokenizer.buffered # NoChar
    /\ tokenizer' = [emit_char(Reconsumed(tokenizer), tokenizer.buffered) EXCEPT
                        !.reconsume = FALSE, !.buffered = NoChar]
    /\ phase' = "parser"
    /\ UNCHANGED <<source, raw>>

EmitTemporary ==
    /\ phase = "called"
    /\ tokenizer.buffered = NoChar
    /\ tokenizer.emit \in DOMAIN tokenizer.tmp
    /\ tokenizer' = maybe_emit_from_temporary_buffer(tokenizer)
    /\ phase' = "parser"
    /\ UNCHANGED <<source, raw>>

StartLexing ==
    /\ phase = "called"
    /\ tokenizer.buffered = NoChar
    /\ tokenizer.emit \notin DOMAIN tokenizer.tmp
    /\ tokenizer' = maybe_emit_from_temporary_buffer(tokenizer)
    /\ phase' = "lexing"
    /\ UNCHANGED <<source, raw>>

\* The loop of gumbo_lex: one handler after the other, until one returns.
Lex == TextStates \/ TagSyntax \/ MarkupSyntax

-----------------------------------------------------------------------------
(***************************************************************************)
(* The tree builder, with a token.                                         *)
(***************************************************************************)
\* Whether the current node is foreign matters in front of a CDATA section only.
CurrentNodeForeign == IF "[CDATA[" \in ToSet(source) THEN BOOLEAN ELSE {FALSE}

\* The current node may be any: an end tag ends raw text, and nothing else does.
NextToken ==
    /\ phase = "parser"
    /\ tokenizer.token.type # "eof"
    /\ \E is_foreign \in CurrentNodeForeign : tokenizer' = [tokenizer EXCEPT !.foreign = is_foreign]
    /\ raw' = IF tokenizer.token.type = "end" THEN NotRaw ELSE raw
    /\ phase' = "called"
    /\ UNCHANGED source

\* gumbo_tokenizer_set_state, for a start tag that it inserts.
SwitchesState ==
    /\ phase = "parser"
    /\ tokenizer.token.type = "start"
    /\ tokenizer.token.tag \in DOMAIN RawTexts
    /\ LET lexer == RawTexts[tokenizer.token.tag]
       IN  /\ tokenizer' = [tokenizer EXCEPT !.lexer = lexer, !.foreign = FALSE]
           /\ raw' = RawText(tokenizer.token.tag, lexer)
    /\ phase' = "called"
    /\ UNCHANGED source

\* After the end of the input, a tree that is too deep, or a first error that stops it.
gumbo_tokenizer_state_destroy ==
    /\ phase = "parser"
    /\ tokenizer' = Requires(tokenizer, /\ tokenizer.doctype.name = Null
                                        /\ tokenizer.doctype.public = Null
                                        /\ tokenizer.doctype.system = Null)
    /\ phase' = "ended"
    /\ UNCHANGED <<source, raw>>

Ended == phase = "ended" /\ UNCHANGED vars

Next ==
    \/ EmitBuffered \/ EmitTemporary \/ StartLexing \/ Lex
    \/ NextToken \/ SwitchesState \/ gumbo_tokenizer_state_destroy
    \/ Ended

\* One thread runs the loop of the tree builder and that of gumbo_lex: it goes on while it can.
\* This is WF_vars(Next), without the ENABLED that TLC is slow at: a step is always possible
\* until the end (no run ends in a deadlock), and then none is.
Spec == Init /\ [][Next]_vars /\ ([]<>(phase = "ended") \/ []<><<Next>>_vars)

-----------------------------------------------------------------------------
(***************************************************************************)
(* Properties.                                                             *)
(***************************************************************************)
Text(from, to) == SubSeq(source, from, to - 1)

Shown == [type |-> tokenizer.token.type, char |-> tokenizer.token.char,
          tag |-> tokenizer.token.tag, from |-> tokenizer.token.from, to |-> tokenizer.token.to]

Stream == INSTANCE TokenStream WITH token <- Shown, RawTags <- DOMAIN RawTexts

Mapped(text, InText(_)) == [i \in DOMAIN text |-> InText(text[i])]

token == tokenizer.token

\* No assert of tokenizer.c fails: the temporary buffer holds what a state expects and is the
\* text that is read again, doctypes and tags are started once, tags begin and end as tags do.
AssertsHold == ~tokenizer.fault

\* Between two calls the tokenizer has nothing that would be lost if there was no other one:
\* tags, attributes and doctypes were handed over with a token or freed.
NothingLeaks ==
    phase # "lexing" =>
        /\ tokenizer.owned = {}
        /\ {tokenizer.doctype.name, tokenizer.doctype.public, tokenizer.doctype.system} = {Null}

(***************************************************************************)
(* What is written behind the name of an attribute: a value, between its   *)
(* quotes or up to a space or the end of the tag, or none.                 *)
(***************************************************************************)
NoValue == [from |-> 0, to |-> 0, isQuoted |-> FALSE]

Written(name_to) ==
    LET Behind(i) == Min({j \in i .. Len(source) : source[j] \notin Spaces})
        sign      == Behind(name_to)
        from      == Behind(sign + 1)
        isQuoted  == source[from] \in {"\"", "'"}
        ends      == IF isQuoted THEN {source[from]} ELSE Spaces \cup {">"}
        end       == Min({j \in from + 1 .. Len(source) : source[j] \in ends})
    IN  IF source[sign] # "=" \/ source[from] = ">" THEN NoValue
        ELSE [from |-> from, to |-> IF isQuoted THEN end + 1 ELSE end, isQuoted |-> isQuoted]

\* The reference that a value goes on with, <<>> if there is none: the longest, which needs its
\* semicolon in front of an equals sign, a letter or a digit, unless it is a number.
ReferenceInValue(i) ==
    LET IsMeant(text) ==
            /\ Stream!IsLongest(text, i)
            /\ Last(text) = ";" \/ text[2] = "#" \/ source[i + Len(text)] \notin Alnum \cup {"="}
    IN  IF \E text \in Stream!ReferencesAt(i) : IsMeant(text)
        THEN CHOOSE text \in Stream!ReferencesAt(i) : IsMeant(text)
        ELSE <<>>

\* The characters that the text of a value stands for.
ValueOf(from, to) ==
    LET value[i \in from .. to] ==
            LET text == ReferenceInValue(i)
            IN  IF i = to THEN <<>>
                ELSE IF text = <<>> THEN <<InValue(source[i])>> \o value[i + 1]
                ELSE References[text] \o value[i + Len(text)]
    IN  value[from]

ValueAsWritten(attr, written) ==
    IF written = NoValue THEN attr.value = <<>>
    ELSE IF written.isQuoted THEN attr.value = ValueOf(written.from + 1, written.to - 1)
    ELSE attr.value = ValueOf(written.from, written.to)

(***************************************************************************)
(* original_value is the text of the value, with its quotes.  There are    *)
(* two exceptions.  Where no value is written it is the text of the name   *)
(* (gumbo.h: "If the attribute has no value this will be a 0-length        *)
(* string"); and one without quotes that begins with a reference has lost  *)
(* the reference.                                                          *)
(***************************************************************************)
PlaceAsWritten(attr, written) ==
    LET lost == IF written.isQuoted THEN <<>> ELSE ReferenceInValue(written.from)
    IN  <<attr.value_from, attr.value_to>> =
            IF written = NoValue THEN <<attr.from, attr.to>>
            ELSE <<written.from + Len(lost), written.to>>

\* An attribute's name is its original_name in lower case; but a null that begins a name is no
\* part of it, and where there was nothing else the original_name is not empty.
NameAsWritten(attr) ==
    LET text == Text(attr.from, attr.to)
    IN  IF attr.name = <<>> THEN Last(text) = NUL ELSE attr.name = Mapped(text, InName)

\* src/lib/tag.c: the name in the text of a tag, which tells elements with unknown names apart.
gumbo_tag_from_original_text(text) ==
    LET name  == SubSeq(text, 2, Len(text) - 1)
        stops == {i \in DOMAIN name : name[i] \in Spaces \cup {"/"}}
    IN  IF text[2] = "/" THEN SubSeq(text, 3, Len(text) - 1)
        ELSE SubSeq(name, 1, Min(stops \cup {Len(name) + 1}) - 1)

TextNamesTag ==
    LET name == gumbo_tag_from_original_text(Text(token.from, token.to))
    IN  gumbo_tagn_enum(Mapped(name, InName)) = token.tag

\* A carriage return, or "</>" before the tag, confuse what finds the name.
PlainText == "\r" \notin ToSet(source) /\ ~IsPrefix(<<"<", "/", ">">>, Text(token.from, token.to))

\* A start tag's name can be found again in its text.  Its attributes have different names,
\* and the names, values and texts that are written in it: a value is the text behind the name,
\* without quotes and with its references decoded, or empty if there is none.
TagsAsWritten ==
    token.type = "start" =>
        /\ PlainText => TextNamesTag
        /\ \A i \in DOMAIN token.attrs :
              LET attr    == token.attrs[i]
                  written == Written(attr.to)
              IN  /\ \A j \in 1 .. i - 1 : token.attrs[j].name # attr.name
                  /\ NameAsWritten(attr)
                  /\ ValueAsWritten(attr, written)
                  /\ PlaceAsWritten(attr, written)

\* The name of an end tag can be found in its text, as the rules for foreign content do that
\* compare it with the names of open elements (gumbo.h: "Extracts the tag name").
EndTagsNamed == token.type = "end" /\ PlainText => TextNamesTag

\* The first proper ending of the text of a comment that is one of these.
WithoutEnd(text, endings) ==
    LET here == {i \in DOMAIN endings : IsSuffix(endings[i], text)}
    IN  IF here = {} THEN text
        ELSE SubSeq(text, 1, Len(text) - Len(endings[Min(here)]))

\* A comment's text is what is written between its delimiters, whichever ends it: dashes that
\* do not end it belong to it, and those that the end of the input cuts off do not.  A null
\* is replaced, unless it comes right behind "</".
CommentsAsWritten ==
    token.type = "comment" =>
        LET text == Stream!Proper(Text(token.from, token.to))
            ended == IF Last(text) = ">" THEN << <<"-", "-", "!", ">">>, <<"-", "-", ">">> >>
                     ELSE << <<"-", "-", "!">>, <<"-", "-">>, <<"-">> >>
            body == SubSeq(text, 5, Len(text))
        IN  token.text =
                IF IsPrefix(<<"<", "!", "-", "-">>, text) THEN
                    IF body \in {<<">">>, <<"-", ">">>} THEN <<>>
                    ELSE Mapped(WithoutEnd(body, ended), InValue)
                ELSE LET bogus == WithoutEnd(SubSeq(text, IF text[2] = "?" THEN 2 ELSE 3, Len(text)),
                                             << <<">">> >>)
                     IN  IF IsPrefix(<<"<", "/", NUL>>, text)
                         THEN <<NUL>> \o Mapped(Tail(bogus), InValue) ELSE Mapped(bogus, InValue)

\* Every call returns, and the end of the input is reached, unless the tree builder stops
\* before: no state reads the same character for ever.
TokenizerEnds == <>(phase = "ended")

\* The tokens are the source, cut into pieces that are what their text says, in its order; the
\* text of raw elements is not taken for markup, and no reference for text.
IsTokenStream == Stream!Spec
===============================================================================
