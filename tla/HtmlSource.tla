----------------------------- MODULE HtmlSource -----------------------------
(***************************************************************************)
(* capy_html_parse over its tokenizer, text/html_tokenizer.c: a call of    *)
(* capy_html_tokenizer_next and a step of the tree builder in turns.  A    *)
(* text is a sequence of units, case being left out.  A behaviour starts   *)
(* with a text, or without one: then any tokens come that HtmlDom expects. *)
(***************************************************************************)
EXTENDS HtmlDom, FiniteSetsExt

CONSTANTS
  Unit,        \* what a text is made of
  Inputs,      \* the texts
  Letter,      \* tk_is_alpha
  Href,        \* the attribute name "href"
  TagMax,      \* CAPY_HTML_TAG_MAX (32)
  MaxRecorded, \* CAPY_HTML_MAX_ATTRS (32)
  HrefMax,     \* CAPY_URL_MAX_LEN (2048)
  FreeNames,   \* names in the documents without a text
  MaxFree      \* bound of the model: tokens of a document without a text

\* tk_is_space
Space == " "

\* tk_is_namechar; the dash stands for the digits too.
NameChar == Letter \cup {"-"}

Marks == {"<", "/", ">", "!", "-", "'", "=", Space}
NoText == <<"no text">>

\* The names of start tags.
TagNames == {w \in UNION {[1..n -> NameChar] : n \in 1..TagMax} : w[1] \in Letter}

ASSUME SourceConstants ==
  /\ Letter \cap Marks = {}
  /\ Inputs \subseteq Seq(Unit) /\ NoText \notin Inputs
  /\ TagNames \subseteq Name /\ FreeNames \subseteq Name
  /\ TagMax \in Nat \ {0} /\ MaxRecorded \in Nat /\ HrefMax \in Nat /\ MaxFree \in Nat

VARIABLES
  input,    \* tk->input
  pos,      \* tk->pos: the unit to be read next
  raw_end,  \* tk->raw_end, << >> unless tk->in_raw
  tok       \* the token the builder is given

tokenizer == <<input, pos, raw_end, tok>>
sourceVars == <<vars, tokenizer>>

NoToken == [type |-> "NONE"]
-----------------------------------------------------------------------------
(***************************************************************************)
(* Scanning.  A place behind the last unit is the end of the input.        *)
(***************************************************************************)
EndOfInput == Len(input) + 1

First(ps) == IF ps = {} THEN EndOfInput ELSE Min(ps)

\* The first place from p on that holds one of, or none of, some units.
Find(p, units) == First({i \in p..Len(input) : input[i] \in units})
Past(p, units) == First({i \in p..Len(input) : input[i] \notin units})

At(p, word) ==
  p + Len(word) <= EndOfInput /\ SubSeq(input, p, p + Len(word) - 1) = word
Span(p, q) == SubSeq(input, p, q - 1)

Tag(type, q, name, unclosed) ==
  [type |-> type, from |-> pos, to |-> q, name |-> name, self_closing |-> FALSE,
   unclosed |-> unclosed, attrs |-> << >>, href |-> << >>]

TextToken(q) == Tag("TEXT", q, None, FALSE)

\* tk_store_name
StoreName(p, q) == Span(p, Least(q, p + TagMax))

CommentEnd == First({i \in pos + 4..Len(input) : At(i, <<"-", "-", ">">>)})

Comment ==
  LET end == CommentEnd
  IN Tag("COMMENT", IF end = EndOfInput THEN end ELSE end + 3, None, end = EndOfInput)

Closing(p) == Least(Find(p, {">"}) + 1, EndOfInput)
Cut(p) == Find(p, {">"}) = EndOfInput

Declaration == Tag("DECL", Closing(pos + 2), None, FALSE)

EndTag ==
  LET end == Past(pos + 2, NameChar)
  IN Tag("END", Closing(end), StoreName(pos + 2, end), Cut(end))

\* One attribute from p on; its value is << >> if it has none, or one text.
Attribute(p) ==
  LET end == Find(p, {"=", ">", "/", Space})
      equals == Past(end, {Space})
      v == Past(equals + 1, {Space})
      quote == Find(v + 1, {"'"})
      bare == Find(v, {Space, ">"})
      value(a, b, q) == [name |-> Span(p, end), value |-> <<Span(a, b)>>, to |-> q]
  IN IF ~At(equals, <<"=">>) THEN [name |-> Span(p, end), value |-> << >>, to |-> equals]
     ELSE IF At(v, <<"'">>) THEN value(v + 1, quote, Least(quote + 1, EndOfInput))
     ELSE value(v, bare, bare)

\* An attribute without a name is read and dropped.
With(a, tag) == IF a.name = << >> THEN tag ELSE [tag EXCEPT !.attrs = <<a>> \o @]

\* What a tag holds from i on, given what it holds from each later place on.
Read(i, rest) ==
  CASE i = EndOfInput -> [attrs |-> << >>, to |-> i, self_closing |-> FALSE, unclosed |-> TRUE]
    [] At(i, <<">">>) -> [attrs |-> << >>, to |-> i + 1, self_closing |-> FALSE, unclosed |-> FALSE]
    [] At(i, <<"/", ">">>) -> [attrs |-> << >>, to |-> i + 2, self_closing |-> TRUE, unclosed |-> FALSE]
    [] At(i, <<Space>>) \/ (At(i, <<"/">>) /\ ~At(i, <<"/", ">">>)) -> rest[i + 1]
    [] OTHER -> With(Attribute(i), rest[Attribute(i).to])

Inside(p) == LET rest[i \in 1..EndOfInput] == Read(i, rest) IN rest[p]

IsHref(a) == a.name = Href /\ a.value # << >> /\ Len(a.value[1]) <= HrefMax

\* The attributes there is room for, and of all of them the first href that
\* is not too long.
Recordable(attrs) == SubSeq(attrs, 1, Least(Len(attrs), MaxRecorded))

HrefOf(attrs) ==
  LET hrefs == SelectSeq(attrs, IsHref)
  IN IF hrefs = << >> THEN << >> ELSE hrefs[1].value

StartTag ==
  LET end == Past(pos + 1, NameChar)
      in == Inside(end)
  IN [Tag("START", in.to, StoreName(pos + 1, end), in.unclosed) EXCEPT
        !.self_closing = in.self_closing, !.attrs = Recordable(in.attrs), !.href = HrefOf(in.attrs)]

\* tk_parse_tag, where a '<' stands
ParsedTag ==
  CASE At(pos + 1, <<"!", "-", "-">>) -> Comment
    [] At(pos + 1, <<"!">>) /\ ~At(pos + 1, <<"!", "-", "-">>) -> Declaration
    [] At(pos + 1, <<"/">>) -> EndTag
    [] pos < Len(input) /\ input[pos + 1] \in Letter -> StartTag
    [] OTHER -> TextToken(pos + 1)

\* Mutant of RawCloseAt: the name may go on.
RawCloseAnyAt(p) == At(p, <<"<", "/">> \o raw_end)

\* tk_raw_close_at, behind "</"
RawCloseAt(p) ==
  LET q == p + 2 + Len(raw_end)
  IN At(p, <<"<", "/">> \o raw_end) /\ (q >= EndOfInput \/ input[q] \in {Space, ">", "/"})

RawEnd == First({i \in pos..Len(input) : RawCloseAt(i)})

\* capy_html_tokenizer_next
NextToken ==
  IF raw_end # << >> /\ RawEnd > pos THEN TextToken(RawEnd)
  ELSE IF At(pos, <<"<">>) THEN ParsedTag
  ELSE TextToken(Find(pos, {"<"}))

EntersRaw(t) == t.type = "START" /\ ~t.self_closing /\ t.name \in RawText
-----------------------------------------------------------------------------
SourceInit ==
  /\ Init
  /\ \/ input = NoText
     \/ input \in Inputs /\ ~truncated
  /\ pos = 1 /\ raw_end = << >> /\ tok = NoToken

\* A token comes only after the one before has been used.
Tokenize ==
  /\ input # NoText /\ tok = NoToken /\ pos # EndOfInput
  /\ tok' = NextToken
  /\ pos' = tok'.to
  /\ raw_end' = IF EntersRaw(tok') THEN tok'.name ELSE << >>
  /\ UNCHANGED <<vars, input>>

\* capy_html_parse's switch.  An attribute counts one byte here.
Build ==
  /\ tok # NoToken
  /\ \/ tok.type = "TEXT" /\ Text(tok.to - tok.from)
     \/ tok.type = "START" /\ Start(tok.name, tok.self_closing, Len(tok.attrs), 1, tok.unclosed)
     \/ tok.type = "END" /\ End(tok.name, tok.unclosed)
     \/ tok.type = "COMMENT" /\ tok.unclosed /\ UnclosedComment
     \/ (tok.type = "DECL" \/ (tok.type = "COMMENT" /\ ~tok.unclosed)) /\ UNCHANGED vars
  /\ tok' = NoToken
  /\ UNCHANGED <<input, pos, raw_end>>

EndParse ==
  /\ input # NoText /\ tok = NoToken /\ pos = EndOfInput
  /\ Finish
  /\ UNCHANGED tokenizer

\* A document without a text, its names out of a few.
Free ==
  /\ input = NoText /\ UNCHANGED tokenizer
  /\ \/ /\ offered.tokens < MaxFree
        /\ \/ \E n \in 0..MaxText : Text(n)
           \/ \E name \in FreeNames, self_closing, unclosed \in BOOLEAN,
                 n \in 0..MaxTagAttrs, w \in 1..MaxText :
                Start(name, self_closing, n, w, unclosed)
           \/ \E name \in FreeNames \cup {None}, unclosed \in BOOLEAN : End(name, unclosed)
           \/ UnclosedComment
     \/ Finish

SourceParsed == Parsed /\ UNCHANGED tokenizer

SourceNext == Tokenize \/ Build \/ EndParse \/ Free \/ SourceParsed

SourceSpec == SourceInit /\ [][SourceNext]_sourceVars
-----------------------------------------------------------------------------
(***************************************************************************)
(* Properties.                                                             *)
(***************************************************************************)
\* What HtmlDom (and HtmlText) take for granted of the tokenizer: within a raw
\* text element its text and its end tag are all that comes, behind an unclosed
\* tag or comment nothing does, and no tag is both unclosed and self-closing.
TokensAreExpected ==
  tok # NoToken =>
    CASE tok.type = "TEXT" -> feed \in {"any", "raw"}
      [] tok.type = "START" -> feed = "any" /\ ~(tok.self_closing /\ tok.unclosed)
      [] tok.type = "END" -> feed = "any" \/ (feed \in {"raw", "close"} /\ tok.name = raw)
      [] OTHER -> feed = "any"

Holds(t, units) == \E i \in t.from..(t.to - 1) : input[i] \in units

\* The place of t in the text is what its type says.
IsRead(t) ==
  LET last == SubSeq(input, t.from, t.to - 1)
  IN /\ t.from < t.to /\ t.to <= EndOfInput
     /\ t.type = "TEXT" /\ feed = "any" =>
          last = <<"<">> \/ (~Holds(t, {"<"}) /\ (t.to = EndOfInput \/ input[t.to] = "<"))
     /\ t.type # "TEXT" => input[t.from] = "<"
     /\ t.type \in {"START", "END"} /\ ~t.unclosed =>
          /\ input[t.to - 1] = ">"
          /\ ~Holds(t, {"'"}) => ~Holds([t EXCEPT !.to = @ - 1], {">"})
     /\ t.type = "COMMENT" /\ ~t.unclosed =>
          t.to - t.from >= 7 /\ SubSeq(last, Len(last) - 2, Len(last)) = <<"-", "-", ">">>
     /\ t.unclosed => t.to = EndOfInput

\* "It never aborts on malformed input; it recovers": each token takes a part
\* of the text that begins where the last one ended and is what its type says:
\* a text out of raw elements has no '<' but one that begins no tag, a tag or
\* comment that is not marked unclosed has its end, and only there if it has no
\* quotes, and one that is marked runs to the end of the text.
SourceIsRead == tok # NoToken => tok.to = pos /\ IsRead(tok)

\* The tokens tell what the text says, in the order the tree builder relies on.
TokensTellSource == TokensAreExpected /\ SourceIsRead

==============================================================================
