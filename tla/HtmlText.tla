------------------------------ MODULE HtmlText ------------------------------
(***************************************************************************)
(* capy_html_to_text of text/text_emit.c: the text view of a page.  A step *)
(* is a tag, one character of a text, or one byte written: the bytes a     *)
(* character or a marker stands for wait in `queue`, and nothing else      *)
(* happens before they are out.  The tokenizer is the environment.         *)
(***************************************************************************)
EXTENDS Naturals, Sequences, SequencesExt, FiniteSetsExt

CONSTANTS
  Documents,  \* the kinds of document: which tags out of Known, which characters
              \* out of Visible and Blank, and the most of them (bound of the model)
  Cap,        \* text_cap, the size of the caller's buffer
  TitleMax,   \* CAPY_TEXT_TITLE_MAX (256)
  MaxLinks,   \* CAPY_TEXT_MAX_LINKS (64)
  LabelMax,   \* CAPY_TEXT_LINK_TEXT_MAX (160)
  ListMax,    \* CAPY_TEXT_LIST_NEST_MAX (8)
  NestMax     \* the largest list_depth (0x7fff)

RawText == {"script", "style", "title", "textarea"}
Skipped == {"script", "style"}
\* is_block_element: "p" stands for those with no rule of their own.
Block == {"p", "pre", "ul", "ol", "li"}
Known == RawText \cup Block \cup {"a", "b"}

\* A byte, a character of three bytes, a numeric reference to no character.
Visible == {"x", "wide", "&#0;"}
Blank == {" ", "\t", "\n", "\r", "&nbsp;"}

ASSUME TextConstants ==
  /\ \A d \in Documents :
       d.tags \subseteq Known /\ d.characters \subseteq Visible \cup Blank /\ d.most \in Nat
  /\ Cap \in Nat /\ TitleMax \in Nat /\ MaxLinks \in Nat /\ LabelMax \in Nat
  /\ ListMax \in Nat \ {0} /\ NestMax \in Nat /\ ListMax <= NestMax

VARIABLES
  body,           \* what is in the caller's buffer, and the state of its line
  title,          \* doc->title, and whether a space is due in it
  queue,          \* bytes still to be written, to the title or to the body
  in_skip, in_pre, pre_lead, in_title, title_seen,
  list_depth, list_stack,
  anchor,         \* the open <a> whose href resolved: where its text starts
  links,          \* doc->links
  warnings,
  truncated,      \* doc->truncated
  feed, raw,      \* what the tokenizer may deliver next, as in HtmlDom
  \* Auxiliary variables.
  whole,          \* the body in a buffer without end
  whole_title,    \* the title with no limit
  lists,          \* the open lists, with no limit
  seen            \* the kind of the document, the tokens read, the title elements,
                  \* and which of pre, li there were

flags == <<in_skip, in_pre, pre_lead, in_title, title_seen>>
listVars == <<list_depth, list_stack, lists>>
linkVars == <<anchor, links>>
out == <<body, whole, title, whole_title>>
vars == <<out, queue, flags, listVars, linkVars, warnings, truncated, feed, raw, seen>>
-----------------------------------------------------------------------------
(***************************************************************************)
(* Writing to the body and to the title.                                   *)
(***************************************************************************)
EmptyLine == [buf |-> << >>, bounded |-> TRUE, line_has_content |-> FALSE,
              pending_space |-> FALSE, pending_newline |-> FALSE, cut |-> FALSE]

Full(e) == e.bounded /\ Len(e.buf) + 1 >= Cap

\* Mutant of OutRawByte: a byte that does not fit is dropped without a warning.
OutRawByteSilent(e, c) == IF Full(e) THEN e ELSE [e EXCEPT !.buf = Append(@, c)]

OutRawByte(e, c) ==
  IF Full(e) THEN [e EXCEPT !.cut = TRUE] ELSE [e EXCEPT !.buf = Append(@, c)]

\* What comes before the next byte of the body.
Separator(e) ==
  IF e.pending_newline THEN <<"\n">>
  ELSE IF e.pending_space /\ e.line_has_content THEN <<" ">> ELSE << >>

Separated(e) ==
  IF Separator(e) = << >> THEN e ELSE OutRawByte(e, Separator(e)[1])

\* body_emit_char gives up when the separator does not fit.
BodyEmitChar(e, c) ==
  IF Separator(e) # << >> /\ Full(e) THEN Separated(e)
  ELSE LET s == [Separated(e) EXCEPT !.pending_newline = FALSE, !.pending_space = FALSE]
       IN [OutRawByte(s, c) EXCEPT !.line_has_content = @ \/ ~Full(s)]

\* body_emit_pre_byte: only a line break comes before it, and it may be one.
BodyEmitPreByte(e, c) ==
  LET s == IF e.pending_newline
             THEN [OutRawByte(e, "\n") EXCEPT !.pending_newline = FALSE, !.pending_space = FALSE]
             ELSE e
  IN IF e.pending_newline /\ Full(e) THEN OutRawByte(e, "\n")
     ELSE [OutRawByte(s, c) EXCEPT !.line_has_content = IF Full(s) THEN @ ELSE c # "\n"]

BodySpace(e) == [e EXCEPT !.pending_space = TRUE]

\* Mutant of BodyFlushBlock: the line's content is not taken into account.
BodyFlushAlways(e) ==
  [e EXCEPT !.pending_newline = TRUE, !.line_has_content = FALSE, !.pending_space = FALSE]

BodyFlushBlock(e) ==
  [e EXCEPT !.pending_newline = @ \/ e.line_has_content,
            !.line_has_content = FALSE, !.pending_space = FALSE]

EmptyTitle == [text |-> << >>, pending_space |-> FALSE, cut |-> FALSE]

\* title_emit_char into a title of max bytes.
TitleEmitChar(t, c, max) ==
  LET room == Len(t.text) < max
      s == IF t.pending_space /\ t.text # << >> /\ room THEN Append(t.text, " ") ELSE t.text
  IN [t EXCEPT !.text = IF Len(s) < max THEN Append(s, c) ELSE s,
               !.pending_space = FALSE,
               !.cut = @ \/ Len(s) >= max]

\* The title with no limit is always given room for two bytes more.
EmitByte ==
  /\ queue # << >>
  /\ queue' = Tail(queue)
  /\ IF in_title
       THEN /\ title' = TitleEmitChar(title, Head(queue), TitleMax)
            /\ whole_title' = TitleEmitChar(whole_title, Head(queue), Len(whole_title.text) + 2)
            /\ UNCHANGED <<body, whole>>
       ELSE /\ body' = BodyEmitChar(body, Head(queue))
            /\ whole' = BodyEmitChar(whole, Head(queue))
            /\ UNCHANGED <<title, whole_title>>
  /\ UNCHANGED <<flags, listVars, linkVars, warnings, truncated, feed, raw, seen>>
-----------------------------------------------------------------------------
Init ==
  /\ body = EmptyLine /\ whole = [EmptyLine EXCEPT !.bounded = FALSE]
  /\ title = EmptyTitle /\ whole_title = EmptyTitle
  /\ queue = << >>
  /\ in_skip = FALSE /\ in_pre = FALSE /\ pre_lead = FALSE
  /\ in_title = FALSE /\ title_seen = FALSE
  /\ list_depth = 0
  /\ list_stack = [k \in 1..ListMax |-> [ordered |-> FALSE, counter |-> 0]]
  /\ lists = << >>
  /\ anchor = << >> /\ links = << >>
  /\ warnings \in {{}, {"INPUT_TRUNCATED"}}
  /\ truncated = FALSE
  /\ feed = "any" /\ raw = ""
  /\ seen \in {[of |-> d, tokens |-> 0, titles |-> 0, tags |-> {}] : d \in Documents}

\* The next token of the document, once all of the one before is written.
Read(kind) ==
  /\ queue = << >>
  /\ feed \in kind
  /\ seen.tokens < seen.of.most

Warned(codes) == warnings' = warnings \cup codes

\* The bytes of a character.  Auxiliary: the byte "x" shows where it was read.
Ink ==
  IF raw \in Skipped THEN "s"
  ELSE IF raw = "title" /\ seen.titles = 1 THEN "t"
  ELSE "x"

Bytes(c) == IF c = "x" THEN <<Ink>> ELSE <<"lead", "cont", "cont">>

\* U+FFFD replaces a reference to no character, with a warning.
Invalid(c) == IF c = "&#0;" THEN {"ENTITY_INVALID"} ELSE {}

SkippedText(c) ==
  /\ in_skip
  /\ UNCHANGED <<out, queue, pre_lead, warnings>>

TitleText(c) ==
  /\ ~in_skip /\ in_title
  /\ IF c \in Blank
       THEN /\ title' = [title EXCEPT !.pending_space = TRUE]
            /\ whole_title' = [whole_title EXCEPT !.pending_space = TRUE]
            /\ UNCHANGED queue
       ELSE queue' = Bytes(c) /\ UNCHANGED <<title, whole_title>>
  /\ Warned(Invalid(c))
  /\ UNCHANGED <<body, whole, pre_lead>>

\* A line break of a <pre>, the first of which is left out, or another blank.
PreBlank(c) ==
  /\ pre_lead' = (pre_lead /\ c = "\r")
  /\ IF c = "\r" \/ (c = "\n" /\ pre_lead) THEN UNCHANGED <<body, whole>>
     ELSE body' = BodyEmitPreByte(body, c) /\ whole' = BodyEmitPreByte(whole, c)
  /\ UNCHANGED queue

BodyText(c) ==
  /\ ~in_skip /\ ~in_title
  /\ IF c \in Visible
       THEN queue' = Bytes(c) /\ pre_lead' = FALSE /\ UNCHANGED <<body, whole>>
     ELSE IF in_pre /\ c # "&nbsp;" THEN PreBlank(c)
     ELSE /\ body' = BodySpace(body) /\ whole' = BodySpace(whole)
          /\ pre_lead' = FALSE
          /\ UNCHANGED queue
  /\ Warned(Invalid(c))
  /\ UNCHANGED <<title, whole_title>>

Text(c) ==
  /\ Read({"any", "raw"})
  /\ SkippedText(c) \/ TitleText(c) \/ BodyText(c)
  /\ seen' = [seen EXCEPT !.tokens = @ + 1]
  /\ UNCHANGED <<in_skip, in_pre, in_title, title_seen, listVars, linkVars, truncated,
                 feed, raw>>
-----------------------------------------------------------------------------
(***************************************************************************)
(* handle_start.                                                           *)
(***************************************************************************)
Digit == <<"0", "1", "2", "3", "4", "5", "6", "7", "8", "9">>

\* A number of the text view, in decimal.
Digits(n) ==
  LET d[k \in 0..n] == IF k < 10 THEN <<Digit[k + 1]>>
                       ELSE Append(d[k \div 10], Digit[(k % 10) + 1])
  IN d[n]

StartSkip(name) ==
  /\ name \in Skipped
  /\ in_skip' = TRUE
  /\ UNCHANGED <<out, queue, in_pre, pre_lead, in_title, title_seen, listVars, anchor>>

\* Mutant of TitleOpens: every title is taken.
TitleOpensAgain == TRUE

TitleOpens == ~title_seen

StartTitle(name) ==
  /\ name = "title"
  /\ in_title' = (in_title \/ TitleOpens) /\ title_seen' = TRUE
  /\ UNCHANGED <<out, queue, in_skip, in_pre, pre_lead, listVars, anchor>>

\* handle_anchor_start: an <a> in an open one takes its place.
StartAnchor(name, href) ==
  /\ name = "a"
  /\ anchor' = IF href = "resolves" /\ Len(links) < MaxLinks THEN <<Len(body.buf)>> ELSE << >>
  /\ UNCHANGED <<out, queue, flags, listVars>>

AnchorWarning(name, href) ==
  IF name # "a" \/ href = "none" THEN {}
  ELSE IF Len(links) >= MaxLinks THEN {"LINK_BUDGET"}
  ELSE IF href = "resolves" THEN {} ELSE {"LINK_UNRESOLVED"}

\* Mutant of ListPush: the counter of the list that was there is kept.
ListPushKeeps(ordered) ==
  IF list_depth < ListMax THEN [list_stack EXCEPT ![list_depth + 1].ordered = ordered]
  ELSE list_stack

\* list_push, the entry; a list nested too deep has none.
ListPush(ordered) ==
  IF list_depth < ListMax
    THEN [list_stack EXCEPT ![list_depth + 1] = [ordered |-> ordered, counter |-> 0]]
  ELSE list_stack

StartList(name) ==
  /\ name \in {"ul", "ol"}
  /\ list_stack' = ListPush(name = "ol")
  /\ list_depth' = IF list_depth < NestMax THEN list_depth + 1 ELSE list_depth
  /\ lists' = Append(lists, [ordered |-> name = "ol", counter |-> 0])
  /\ UNCHANGED <<queue, in_pre, pre_lead>>

Least(m, n) == IF m <= n THEN m ELSE n

Indent == [k \in 1..2 * Least(IF list_depth > 0 THEN list_depth - 1 ELSE 0, ListMax - 1) |-> " "]

Numbered == list_depth \in 1..ListMax /\ list_stack[list_depth].ordered

\* emit_list_marker; lists counts the items of every ordered list.
StartItem(name) ==
  /\ name = "li"
  /\ IF Numbered
       THEN /\ list_stack' = [list_stack EXCEPT ![list_depth].counter = @ + 1]
            /\ queue' = Indent \o Digits(list_stack[list_depth].counter + 1) \o <<".", " ">>
       ELSE queue' = Indent \o <<"-", " ">> /\ UNCHANGED list_stack
  /\ lists' = IF lists # << >> /\ lists[Len(lists)].ordered
                THEN [lists EXCEPT ![Len(lists)].counter = @ + 1] ELSE lists
  /\ UNCHANGED <<list_depth, in_pre, pre_lead>>

StartPre(name) ==
  /\ name = "pre"
  /\ in_pre' = TRUE /\ pre_lead' = TRUE
  /\ UNCHANGED <<queue, listVars>>

Flushed == body' = BodyFlushBlock(body) /\ whole' = BodyFlushBlock(whole)

StartBlock(name, self_closing) ==
  /\ name \in Block
  /\ Flushed
  /\ \/ ~self_closing /\ (StartPre(name) \/ StartList(name))
     \/ StartItem(name)
     \/ /\ name = "p" \/ (self_closing /\ name # "li")
        /\ UNCHANGED <<queue, in_pre, pre_lead, listVars>>
  /\ UNCHANGED <<title, whole_title, in_skip, in_title, title_seen, anchor>>

StartOther(name, self_closing) ==
  /\ name \in {"b", "textarea"} \/ (self_closing /\ name \in Skipped \cup {"title"})
  /\ UNCHANGED <<out, queue, flags, listVars, anchor>>

Start(name, self_closing, href, unclosed) ==
  /\ Read({"any"})
  /\ ~(self_closing /\ unclosed)
  /\ \/ ~self_closing /\ (StartSkip(name) \/ StartTitle(name))
     \/ StartAnchor(name, href)
     \/ StartBlock(name, self_closing)
     \/ StartOther(name, self_closing)
  /\ Warned(AnchorWarning(name, href) \cup (IF unclosed THEN {"UNCLOSED_TAG"} ELSE {}))
  /\ seen' = [seen EXCEPT !.tokens = @ + 1, !.tags = @ \cup ({name} \cap {"pre", "li"}),
                !.titles = @ + (IF name = "title" /\ ~self_closing THEN 1 ELSE 0)]
  /\ IF unclosed THEN feed' = "end" /\ UNCHANGED raw
     ELSE IF name \in RawText /\ ~self_closing THEN feed' = "raw" /\ raw' = name
     ELSE UNCHANGED <<feed, raw>>
  /\ UNCHANGED <<links, truncated>>
-----------------------------------------------------------------------------
(***************************************************************************)
(* handle_end.                                                             *)
(***************************************************************************)
EndSkip(name) ==
  /\ name \in Skipped
  /\ in_skip' = FALSE
  /\ UNCHANGED <<out, queue, in_pre, pre_lead, in_title, title_seen, listVars, linkVars>>

EndTitle(name) ==
  /\ name = "title"
  /\ in_title' = FALSE
  /\ UNCHANGED <<out, queue, in_skip, in_pre, pre_lead, title_seen, listVars, linkVars>>

\* Spaces only are trimmed off a label.
Trim(s) ==
  LET ink == {i \in 1..Len(s) : s[i] # " "}
  IN IF ink = {} THEN << >> ELSE SubSeq(s, Min(ink), Max(ink))

\* A long label is cut in front of a character.
CutLabel(s) ==
  IF Len(s) <= LabelMax THEN s
  ELSE SubSeq(s, 1, Max({0} \cup {n \in 1..LabelMax : s[n + 1] # "cont"}))

\* Mutant of Mark: links are counted from 0.
MarkFromZero(n) == <<"[">> \o Digits(n - 1) \o <<"]">>

Mark(n) == <<"[">> \o Digits(n) \o <<"]">>

\* The link is committed, its label read out of the body, and its number
\* written.  Auxiliary: from is where its text starts.
EndAnchor(name) ==
  /\ name = "a"
  /\ anchor' = << >>
  /\ IF anchor # << >> /\ Len(links) < MaxLinks
       THEN /\ links' = Append(links,
                 [from |-> anchor[1],
                  text |-> CutLabel(Trim(SubSeq(body.buf, anchor[1] + 1, Len(body.buf))))])
            /\ queue' = Mark(Len(links) + 1)
       ELSE UNCHANGED <<links, queue>>
  /\ UNCHANGED <<out, flags, listVars>>

ListPop == list_depth' = IF list_depth > 0 THEN list_depth - 1 ELSE 0

EndBlock(name) ==
  /\ name \in Block
  /\ Flushed
  /\ IF name = "pre" THEN in_pre' = FALSE /\ pre_lead' = FALSE
     ELSE UNCHANGED <<in_pre, pre_lead>>
  /\ IF name \in {"ul", "ol"}
       THEN /\ ListPop
            /\ lists' = IF lists = << >> THEN lists ELSE SubSeq(lists, 1, Len(lists) - 1)
            /\ UNCHANGED list_stack
       ELSE UNCHANGED listVars
  /\ UNCHANGED <<title, whole_title, queue, in_skip, in_title, title_seen, linkVars>>

EndOther(name) ==
  /\ name \in {"b", "textarea"}
  /\ UNCHANGED <<out, queue, flags, listVars, linkVars>>

End(name, unclosed) ==
  /\ Read(IF name = raw THEN {"any", "raw"} ELSE {"any"})
  /\ EndSkip(name) \/ EndTitle(name) \/ EndAnchor(name) \/ EndBlock(name) \/ EndOther(name)
  /\ Warned(IF unclosed THEN {"UNCLOSED_TAG"} ELSE {})
  /\ feed' = IF unclosed THEN "end" ELSE "any"
  /\ raw' = ""
  /\ seen' = [seen EXCEPT !.tokens = @ + 1]
  /\ UNCHANGED truncated

UnclosedComment ==
  /\ Read({"any"})
  /\ Warned({"UNCLOSED_COMMENT"})
  /\ feed' = "end"
  /\ UNCHANGED <<out, queue, flags, listVars, linkVars, truncated, raw, seen>>

Truncated == {"INPUT_TRUNCATED", "LINK_BUDGET"} \cap warnings # {} \/ body.cut \/ title.cut

\* The input may end after any token.
Finish ==
  /\ queue = << >> /\ feed # "done"
  /\ feed' = "done"
  /\ truncated' = Truncated
  /\ Warned((IF body.cut THEN {"OUTPUT_TRUNCATED"} ELSE {})
              \cup (IF title.cut THEN {"TITLE_TRUNCATED"} ELSE {}))
  /\ UNCHANGED <<out, queue, flags, listVars, linkVars, raw, seen>>

Token ==
  \/ \E c \in seen.of.characters : Text(c)
  \/ \E name \in seen.of.tags, self_closing, unclosed \in BOOLEAN :
       \E href \in IF name = "a" THEN {"none", "resolves", "fails"} ELSE {"none"} :
         Start(name, self_closing, href, unclosed)
  \/ \E name \in seen.of.tags, unclosed \in BOOLEAN : End(name, unclosed)
  \/ UnclosedComment
  \/ Finish

Rendered == feed = "done" /\ UNCHANGED vars

Next == EmitByte \/ Token \/ Rendered

Spec == Init /\ [][Next]_vars
-----------------------------------------------------------------------------
(***************************************************************************)
(* Properties.                                                             *)
(***************************************************************************)
\* A buffer that is too small cuts the text off and changes nothing before the
\* cut: no byte is ever written after one that was dropped.  And truncated is 1
\* "if any input/output/link/title budget was hit": a view that is not marked
\* has all of the text, and refused no link.  The buffer keeps room for its NUL.
CutsAreClean ==
  /\ Len(body.buf) <= (IF Cap = 0 THEN 0 ELSE Cap - 1) /\ Len(title.text) <= TitleMax
  /\ IsPrefix(body.buf, whole.buf)
  /\ IsPrefix(title.text, whole_title.text)
  /\ ~body.cut => body = [whole EXCEPT !.bounded = TRUE]
  /\ ~title.cut => title = whole_title
  /\ feed = "done" /\ ~truncated =>
       ~body.cut /\ ~title.cut /\ {"LINK_BUDGET", "INPUT_TRUNCATED"} \cap warnings = {}

\* line_has_content says whether the line the next byte would go on has any,
\* also across line breaks of a <pre> and dropped bytes.
LineIsTracked ==
  \A e \in {body, whole} :
    e.line_has_content <=> /\ e.buf # << >> /\ e.buf[Len(e.buf)] # "\n"
                           /\ ~e.pending_newline

\* No blank at either end of a line, and no two of them together.
Collapsed(s) ==
  \A i \in 1..Len(s) :
    s[i] \in {" ", "\n"} => i # 1 /\ i # Len(s) /\ s[i + 1] \notin {" ", "\n"}

\* "whitespace runs collapse to a single space and blocks are trimmed" where
\* there is no <pre> and no list item, whatever the tags; and everywhere the
\* flags say what the line is.
PlainTextCollapses ==
  LineIsTracked /\ (seen.tags = {} => Collapsed(whole.buf))

\* The position of the k-th "[", which no text of the model has.
MarkPos(s, k) ==
  CHOOSE i \in 1..Len(s) :
    s[i] = "[" /\ Cardinality({j \in 1..i : s[j] = "["}) = k

\* A label is made of whole characters, also when it is cut.
LabelsAreWhole ==
  \A k \in 1..Len(links) : LET t == links[k].text IN
    \A i \in 1..Len(t) :
      /\ t[i] = "lead" => i + 2 <= Len(t) /\ t[i + 1] = "cont" /\ t[i + 2] = "cont"
      /\ t[i] = "cont" => i > 1 /\ t[i - 1] \in {"lead", "cont"}

\* A link's number follows its text: the body has the markers of all links, in
\* order, and the label of each is what stands between the start of its <a>
\* and its marker, but for the line break a block puts before the marker.  A
\* label cut at its bound ends in a whole character.
MarkersMatchLinks ==
  queue = << >> /\ ~body.cut =>
    LET s == body.buf
    IN /\ LabelsAreWhole
       /\ Cardinality({i \in 1..Len(s) : s[i] = "["}) = Len(links)
       /\ \A k \in 1..Len(links) :
            LET at == MarkPos(s, k)
                last == IF at > links[k].from + 1 /\ s[at - 1] = "\n" THEN {at - 1, at - 2}
                                                                  ELSE {at - 1}
                label == {Trim(SubSeq(s, links[k].from + 1, j)) : j \in last}
                text == links[k].text
                end == CHOOSE j \in at..Len(s) : s[j] = "]" /\ "]" \notin {s[i] : i \in at..j - 1}
            IN /\ SubSeq(s, at + 1, end - 1) = Digits(k)
               /\ \/ text \in label
                  \/ \E l \in label : Len(l) > LabelMax /\ IsPrefix(text, l)

\* Items are numbered 1, 2, ... in every ordered list that has a number at
\* all, also after lists inside it, too deep ones among them, and after end
\* tags too many; until the depth itself has been at its bound.
ItemsAreNumbered ==
  /\ list_depth <= Len(lists)
  /\ list_depth = Len(lists) =>
       \A k \in 1..Least(list_depth, ListMax) :
         lists[k].ordered = list_stack[k].ordered /\ lists[k].counter = list_stack[k].counter

\* "<script>/<style> content is dropped", and the title is the text of the first
\* title element and of nothing else, whichever of them are unclosed, repeated
\* or self-closing.
RawTextInPlace ==
  /\ \A i \in 1..Len(whole.buf) : whole.buf[i] \notin {"s", "t"}
  /\ \A i \in 1..Len(whole_title.text) : whole_title.text[i] \in {"t", " ", "lead", "cont"}
==============================================================================
