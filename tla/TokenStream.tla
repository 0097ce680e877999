------------------------------ MODULE TokenStream ------------------------------
(***************************************************************************)
(* What the tokenizer promises the tree builder: the source, from left to  *)
(* right and without gaps, cut into tokens that are what their text says.  *)
(* Nothing of states, buffers, marks and positions is left.                *)
(***************************************************************************)
EXTENDS Integers, Sequences, SequencesExt

CONSTANTS Letters,      \* what tag names are made of
          References,   \* each reference's text, with the characters it stands for
          RawTags       \* the tags whose text may be raw

VARIABLES source,    \* the input
          token,     \* the last token: its type, char and tag, and its text, from .. to - 1
          raw        \* raw text: the tag that ends it, and whether references are decoded in it

vars == <<source, token, raw>>

NoTag  == <<>>
NotRaw == [tag |-> <<"not raw">>, decodes |-> TRUE]

\* Nothing may end it; only in RCDATA are references decoded.
Raws == [tag : RawTags \cup {NoTag}, decodes : BOOLEAN]

Text(from, to) == SubSeq(source, from, to - 1)

At(text, i) == i + Len(text) <= Len(source) + 1 /\ Text(i, i + Len(text)) = text

\* The text without the "</>" before it, which is nothing.
Proper(text) ==
    LET empty == <<"<", "/", ">">>
        n     == CHOOSE m \in 0 .. Len(text) :
                    /\ \A i \in 1 .. 3 * m : i \in DOMAIN text /\ text[i] = empty[((i - 1) % 3) + 1]
                    /\ ~IsPrefix(empty, SubSeq(text, 3 * m + 1, Len(text)))
    IN  SubSeq(text, 3 * n + 1, Len(text))

\* What is cut off between two tokens: a carriage return, and the marks of a CDATA section.
Skippable(text) ==
    Proper(IF text # <<>> /\ text[1] = "\r" THEN Tail(text) ELSE text) \in
        {<<>>, <<"]", "]", ">">>, <<"<", "!", "[CDATA[">>, <<"<", "!", "[CDATA[", "]", "]", ">">>}

\* The references the source goes on with; the longest is meant.
ReferencesAt(i) == {text \in DOMAIN References : At(text, i)}

IsLongest(text, i) == \A other \in ReferencesAt(i) : Len(other) <= Len(text)

-----------------------------------------------------------------------------
(***************************************************************************)
(* The tokens.                                                             *)
(***************************************************************************)
CharTypes == {"cdata", "whitespace", "null", "character"}

Spells(c, byte) ==
    \/ c = byte
    \/ c = "\n" /\ byte = "\r"
    \/ c = "FFFD" /\ byte \in {"NUL", "FF"} /\ (byte = "NUL" => raw # NotRaw)

\* Something else than text begins at i: markup, or the end tag of RCDATA.
Opens(i) ==
    /\ source[i] = "<" /\ i < Len(source)
    /\ IF raw = NotRaw
       THEN source[i + 1] \in Letters \cup {"!", "?"} \/ (source[i + 1] = "/" /\ i + 1 < Len(source))
       ELSE raw.decodes /\ raw.tag # NoTag /\ At(<<"<", "/">> \o raw.tag \o <<">">>, i)

\* The last character of the text as it is.
IsPlain(t) ==
    LET text == Text(t.from, t.to)
        cut  == t.to <= Len(source) /\ source[t.to] = "\r"
    IN  /\ IF cut /\ t.char = "\n" THEN TRUE ELSE text # <<>> /\ Spells(t.char, Last(text))
        /\ t.type # "cdata" /\ t.char = "&" /\ raw.decodes => ReferencesAt(t.to - 1) = {}
        /\ t.type # "cdata" /\ t.char = "<" => ~Opens(t.to - 1)

\* The first character of a reference.
IsReference(t) ==
    LET text == Proper(Text(t.from, t.to))
    IN  /\ raw.decodes
        /\ text \in DOMAIN References
        /\ IsLongest(text, t.to - Len(text))
        /\ t.char = References[text][1]

\* The second character of one follows it at once.
IsSecond(t) ==
    LET text == Proper(Text(token.from, token.to))
    IN  /\ t.from = t.to
        /\ text \in DOMAIN References
        /\ Len(References[text]) = 2
        /\ t.char = References[text][2]

\* A section is open: it ends with the first of its ends.
InSection(t) ==
    \E i \in 1 .. t.to - 1 :
        source[i] = "[CDATA[" /\ \A j \in i .. t.to - 3 : ~At(<<"]", "]", ">">>, j)

TypeFits(t) ==
    \/ t.type = "cdata" /\ t.char # "NUL" /\ InSection(t)
    \/ t.type = CASE t.char \in {"\t", "\n", "\f", " "} -> "whitespace"
                 [] t.char = "NUL" -> "null"
                 [] OTHER -> "character"

HasSecond ==
    LET text == Proper(Text(token.from, token.to))
    IN  /\ token.type \in CharTypes
        /\ text \in DOMAIN References
        /\ Len(References[text]) = 2

IsChar(t) ==
    /\ t.type \in CharTypes
    /\ TypeFits(t)
    /\ IF HasSecond THEN IsSecond(t) ELSE IsPlain(t) \/ IsReference(t)

IsStartTag(t) ==
    LET text == Proper(Text(t.from, t.to))
    IN  t.type = "start" /\ raw = NotRaw /\ text[1] = "<" /\ text[2] \in Letters /\ Last(text) = ">"

IsEndTag(t) ==
    LET text == Proper(Text(t.from, t.to))
    IN  /\ t.type = "end"
        /\ raw = NotRaw \/ raw.tag = t.tag
        /\ IsPrefix(<<"<", "/">>, text) /\ text[3] \in Letters /\ Last(text) = ">"

IsComment(t) ==
    /\ t.type = "comment"
    /\ raw = NotRaw
    /\ \E mark \in {"!", "?", "/"} : IsPrefix(<<"<", mark>>, Proper(Text(t.from, t.to)))

\* One that goes wrong behind PUBLIC is two tokens; the text of the second is the rest of it.
IsDoctype(t) ==
    /\ t.type = "doctype"
    /\ raw = NotRaw
    /\ \/ IsPrefix(<<"<", "!", "DOCTYPE">>, Proper(Text(t.from, t.to)))
       \/ token.type = "doctype" /\ token.to = t.from

\* The end of the input, with a tag that it cuts off; a carriage return at its end is none's.
IsEnd(t) ==
    LET text == Proper(Text(t.from, t.to))
    IN  /\ t.type = "eof"
        /\ t.to = Len(source) + 1 \/ (text # <<>> /\ Text(t.to, Len(source) + 1) = <<"\r">>)
        /\ text = <<>> \/ text[1] = "<"

-----------------------------------------------------------------------------
Init ==
    /\ token = [type |-> "none", char |-> "no char", tag |-> NoTag, from |-> 1, to |-> 1]
    /\ raw \in {NotRaw} \cup Raws

Deliver ==
    /\ token.type # "eof"
    /\ token.type = "end" => raw = NotRaw
    /\ token.to <= token'.from /\ token'.from <= token'.to
    /\ Skippable(Text(token.to, token'.from))
    /\ \/ IsChar(token') \/ IsStartTag(token') \/ IsEndTag(token')
       \/ IsComment(token') \/ IsDoctype(token') \/ IsEnd(token')
    /\ UNCHANGED <<source, raw>>

\* The tree builder takes the text of some elements as raw, until their end tag.
Raw ==
    /\ token.type = "start" /\ token.tag \in RawTags
    /\ raw' \in Raws
    /\ raw'.tag \in {token.tag, NoTag}
    /\ UNCHANGED <<source, token>>

NotRawAnyMore ==
    /\ token.type = "end"
    /\ raw' = NotRaw
    /\ UNCHANGED <<source, token>>

Next == Deliver \/ Raw \/ NotRawAnyMore

Spec == Init /\ [][Next]_vars
===============================================================================
