------------------------------ MODULE MCTokenizer ------------------------------
(***************************************************************************)
(* Instances of the tokenizer for TLC.  An input is a beginning that leads *)
(* to a state, and every short text over the characters that matter there. *)
(* The names of tags and references are short: s is script, t a tag with   *)
(* RCDATA, y one with RAWTEXT, p is plaintext; the arithmetic of numeric   *)
(* references has twelve bits.                                             *)
(***************************************************************************)
EXTENDS Tokenizer

MCUppercase == [A |-> "a", T |-> "t"]
MCLowercase == {"a", "s", "t", "y", "p", "x"}
MCKnownTags == {<<"a">>, <<"s">>, <<"t">>, <<"y">>, <<"p">>}
MCRawTexts  == (<<"s">> :> "SCRIPT") @@ (<<"t">> :> "RCDATA") @@ (<<"y">> :> "RAWTEXT")
                 @@ (<<"p">> :> "PLAINTEXT")

MCEntities == (<<"a">> :> <<"&">>) @@ (<<"a", ";">> :> <<"&">>)
                @@ (<<"a", "t", ";">> :> <<"not in">>) @@ (<<"y", ";">> :> <<"f", "j">>)

MCSurrogates == 272 .. 287
MCAscii == (8 :> "back") @@ (17 :> "a") @@ (24 :> "<") @@ (129 :> "&") @@ (255 :> "y")
MCAlnum == {"a", "s", "t", "y", "p", "x", "A", "T", "0", "1", "8", "f"}

-----------------------------------------------------------------------------
\* References are looked up here: the named ones, and numbers of up to three digits.
Value(digits, base) ==
    LET place(i) == base ^ (Len(digits) - i) IN
    LET sum[i \in 0 .. Len(digits)] ==
            IF i = 0 THEN 0 ELSE sum[i - 1] + place(i) * DigitValue[digits[i]]
    IN  sum[Len(digits)]

Means(n) ==
    CASE n = 0 \/ n \in MCSurrogates \/ n > MaxCodePoint -> Replacement
      [] n = 13 -> "\r"
      [] n \in 128 .. 159 -> "windows-1252"
      [] n \in DOMAIN MCAscii /\ n \notin 128 .. 159 -> MCAscii[n]
      [] OTHER -> "other"

Numbers(digits) == BoundedSeq(digits, 3) \ {<<>>}

MCReferences ==
    LET Named      == {<<"&">> \o name : name \in DOMAIN MCEntities}
        Decimal(d, s) == <<"&", "#">> \o d \o s
        Hex(d, s)     == <<"&", "#", "x">> \o d \o s
        Ends       == {<<>>, <<";">>}
        decimals   == Numbers({"0", "1", "8"})
        hexs       == Numbers({"1", "8", "f"})
    IN  [text \in Named |-> MCEntities[Tail(text)]]
        @@ [text \in {Decimal(d, s) : d \in decimals, s \in Ends} |->
              <<Means(Value(SelectSeq(text, LAMBDA c : c \in Digits), 10))>>]
        @@ [text \in {Hex(d, s) : d \in hexs, s \in Ends} |->
              <<Means(Value(SelectSeq(text, LAMBDA c : IsDigit(c, TRUE)), 16))>>]

-----------------------------------------------------------------------------
From(lexer, beginning, alphabet, n) ==
    {[lexer |-> lexer, text |-> beginning \o word] : word \in BoundedSeq(alphabet, n)}

Data(beginning, alphabet, n) == From("DATA", beginning, alphabet, n)

TextInputs ==
    Data(<<>>, {"<", "/", ">", "a", "&"}, 4)
      \cup Data(<<>>, {"a", "\r", "\n", "\t", NUL, "FF", "<"}, 3)
      \cup Data(<<"<", "/", ">">>, {"<", "/", ">", "a", "&", "!"}, 3)
      \cup Data(<<"&">>, {"a", "t", ";", "y", "=", "#"}, 3)
      \cup Data(<<"&", "#">>, {"0", "1", "8", ";", "f"}, 3)
      \cup Data(<<"&", "#", "x">>, {"1", "8", "f", ";"}, 3)

RawInputs ==
    From("RCDATA", <<>>, {"<", "/", "t", ">", "&"}, 4)
      \cup Data(<<"<", "t", ">">>, {"<", "/", "&", "a", NUL}, 3)
      \cup Data(<<"<", "t", ">", "<", "/">>, {"t", "T", ">", " ", "/", "a"}, 3)
      \cup Data(<<"<", "y", ">">>, {"<", "/", "&", "a", NUL}, 2)
      \cup Data(<<"<", "y", ">", "<", "/">>, {"y", ">", " ", "/", "a"}, 3)
      \cup Data(<<"<", "p", ">">>, {"a", "<", NUL}, 2)

ScriptInputs ==
    Data(<<"<", "s", ">">>, {"<", "!", "-", "/", "a", NUL}, 3)
      \cup Data(<<"<", "s", ">", "<", "/">>, {"s", ">", " ", "/", "a"}, 3)
      \cup From("SCRIPT", <<"<", "!", "-", "-">>, {"-", "<", ">", "/", "s", NUL}, 4)
      \cup From("SCRIPT", <<"<", "!", "-", "-", "<", "s">>, {"s", ">", " ", "/", "-"}, 2)
      \cup From("SCRIPT", <<"<", "!", "-", "-", "<", "s", ">">>, {"-", "<", ">", "/", "s", NUL}, 3)
      \cup From("SCRIPT", <<"<", "!", "-", "-", "<", "s", ">", "<", "/">>, {"s", ">", "-", "/"}, 3)
      \cup Data(<<"<", "s", ">", "<", "!", "-", "-", "<", "/">>, {"s", ">", "a", " "}, 3)

\* Names that begin with a null, and values that begin with a reference, are among them.
TagInputs ==
    Data(<<"<", "a">>, {"A", " ", "/", ">"}, 3)
      \cup Data(<<"<", "a">>, {"A", "/", ">", NUL}, 2)
      \cup Data(<<"<", "a", " ">>, {"x", "A", " ", "=", "\"", "<", "/", ">"}, 3)
      \cup Data(<<"<", "a", " ", NUL>>, {"x", NUL, " ", "=", ">"}, 3)
      \cup Data(<<"<", "a", " ", "x", " ", NUL>>, {"x", " ", "=", ">"}, 3)
      \cup Data(<<"<", "a", " ", "x">>, {" ", "=", "x", "a", ">", "/"}, 3)
      \cup Data(<<"<", "a", " ", "x">>, {"x", NUL, ">"}, 2)
      \cup Data(<<"<", "a", " ", "x", " ">>, {"x", "=", "a", " ", ">"}, 4)
      \cup Data(<<"<", "a", " ", "x", " ", "x">>, {" ", "a", "=", ">"}, 5)
      \cup Data(<<"<", "a", " ", "x", "=">>, {"\"", "'", "a", " ", "=", ">"}, 3)
      \cup Data(<<"<", "a", " ", "x", "=">>, {"a", NUL, ">"}, 2)
      \cup Data(<<"<", "a", " ", "x", "=", "&">>, {" ", ">", "=", "\""}, 2)
      \cup Data(<<"<", "a", " ", "x", "=", "&">>, {"a", "y", ";", "&", "=", ">"}, 4)
      \cup Data(<<"<", "a", " ", "x", "=", "&", "#", "x">>, {"1", "f", ";", ">"}, 3)
      \cup Data(<<"<", "a", " ", "x", "=", "x">>, {"&", "a", ";", "=", " ", ">"}, 3)
      \cup Data(<<"<", "a", " ", "x", "=", "x", "&">>, {"y", "a", ";", ">"}, 3)
      \cup Data(<<"<", "a", " ", "x", "=", "x", "&", "a", ";">>, {"y", "a", ">", "&"}, 3)
      \cup Data(<<"<", "a", " ", "x", "=", "\"", "&", "a", ";">>, {"\"", "a", ">"}, 3)
      \cup Data(<<"<", "a", " ", "x", "=", "\"">>, {"\"", "'", "&", "a", "\n", ">"}, 3)
      \cup Data(<<"<", "a", " ", "x", "=", "\"", NUL>>, {"\"", "a", ">"}, 2)
      \cup Data(<<"<", "a", " ", "x", "=", "'">>, {"'", "&", "a", ">"}, 3)
      \cup Data(<<"<", "a", " ", "x", "=", "'", NUL>>, {"'", "a", ">"}, 2)
      \cup Data(<<"<", "a", " ", "x", "=", "'", "a", "'">>, {" ", "/", "x", "=", ">"}, 3)
      \cup Data(<<"<", "/", "a">>, {" ", "x", "=", "/", ">"}, 3)

CommentInputs ==
    Data(<<"<", "!">>, {"-", ">", "a", NUL}, 3)
      \cup Data(<<"<", "?">>, {"-", ">", "a", NUL}, 2)
      \cup Data(<<"<", "/">>, {"!", ">", " "}, 2)
      \cup Data(<<"<", "!", "-", "-">>, {"-", "!", ">", "a", NUL}, 4)
      \cup Data(<<"<", "!", "-", "-", "a">>, {"-", "!", ">", "a"}, 5)

DoctypeInputs ==
    LET Doctype == <<"<", "!", "DOCTYPE">>
        Public  == Doctype \o <<" ", "a", " ", "PUBLIC">>
        System  == Doctype \o <<" ", "a", " ", "SYSTEM">>
    IN  Data(Doctype, {" ", ">", "A", NUL}, 3)
          \cup Data(Doctype \o <<"a">>, {" ", ">", "PUBLIC", "SYSTEM", NUL}, 3)
          \cup Data(Public, {" ", "\"", "'", ">", "a"}, 3)
          \cup Data(Public \o <<"\"", "a", "\"">>, {" ", "\"", "'", ">", "a"}, 3)
          \cup Data(System, {" ", "\"", "'", ">", NUL}, 3)
          \cup Data(System \o <<"'", "a", "'">>, {" ", ">", "a"}, 2)

CDataInputs ==
    Data(<<"a", "<", "!", "[CDATA[">>, {"]", ">", "a", NUL}, 4)
      \cup Data(<<"a", "<", "!", "[CDATA[", "]", "]", ">">>, {"a", "<", " "}, 2)

AllInputs ==
    TextInputs \cup RawInputs \cup ScriptInputs \cup TagInputs
      \cup CommentInputs \cup DoctypeInputs \cup CDataInputs

\* Of the findings: attributes of the same name, and end tags with something behind the name.
DuplicateInputs == Data(<<"<", "a", " ", "x", " ">>, {"x", "=", "a", " ", ">"}, 4)
EndTagInputs    == Data(<<"<", "/", "a">>, {" ", "a", "<", ">"}, 4)
===============================================================================
