------------------------------ MODULE CssParse ------------------------------
(***************************************************************************)
(* capy_css_parse of css/css_parse.c: the style sheet of a page, in three  *)
(* pools.  A step reads one character.  Where the scanner is in its nested *)
(* loops is `mode`; the comment marks are characters of their own, which   *)
(* outside the places css_skip_ws looks at are bytes like any other.       *)
(***************************************************************************)
EXTENDS Naturals, Sequences, SequencesExt, FiniteSetsExt

CONSTANTS
  Characters, \* the characters of the text, out of Character
  MaxInput,   \* CAPY_CSS_MAX_INPUT (256 KiB)
  MaxRules,   \* CAPY_CSS_MAX_RULES (256)
  MaxDecls,   \* CAPY_CSS_MAX_DECLS (1024)
  Arena,      \* CAPY_CSS_STRING_ARENA (32768)
  MaxPrelude, \* bound of the model: bytes of a selector list
  MaxWord,    \* bound of the model: bytes of a name or a value
  MaxOdd      \* bound of the model: characters of a text out of Odd

\* css_is_ident_char, one of which lower-casing changes; css_is_space.
Ident == {"a", "A"}
Space == {" ", "\n"}
OpenBrace == "{"
CloseBrace == "}"
Semicolon == ";"
Comma == ","
Punctuation == {OpenBrace, CloseBrace, Semicolon, Comma, ":", "@", "*", ".", "#", "/*", "*/"}
\* css_drop_byte: what no interned string keeps, "^" being a control byte.
Dropped == {"\n", "^"}
Character == Ident \cup Space \cup Punctuation \cup Dropped

\* What a plain sheet of types, names and values can do without.
Odd == Character \ {"a", OpenBrace, CloseBrace, Semicolon, Comma, ":"}

ASSUME CssConstants ==
  /\ Characters \subseteq Character
  /\ MaxInput \in Nat /\ MaxRules \in Nat /\ MaxDecls \in Nat /\ Arena \in Nat
  /\ MaxPrelude \in Nat /\ MaxWord \in Nat /\ MaxOdd \in Nat

VARIABLES
  mode,          \* the loop the scanner is in
  in_comment,    \* css_skip_ws is inside a comment
  depth,         \* braces open in css_skip_block
  prelude, name, \* the bytes of the selectors, and of the property
  word,          \* the bytes of the one of them, or of the value, being read
  sheet,         \* *out
  \* Auxiliary variables.
  whole,         \* the style sheet with pools without end
  block,         \* the blocks opened so far
  chars          \* the characters read, and the odd ones among them

scanner == <<mode, in_comment, depth, prelude, name, word, block>>
vars == <<scanner, sheet, whole, chars>>

\* What ends the name of a property, and its value.
NameEnd == {":", Semicolon, CloseBrace}
ValueEnd == {Semicolon, CloseBrace}

\* Where css_skip_ws runs.
Skipping == {"top", "block", "colon", "before_value"}
-----------------------------------------------------------------------------
(***************************************************************************)
(* The style sheet.                                                        *)
(***************************************************************************)
EmptySheet ==
  [rules |-> << >>, decls |-> << >>, string_len |-> 0, decl_start |-> 0,
   truncated |-> FALSE, warnings |-> {}, bounded |-> TRUE]

Warn(s, code) == [s EXCEPT !.warnings = @ \cup {code}]

\* Mutant of OverBudget: the warning is given and the sheet not marked.
OverBudgetWarnOnly(s, code) == Warn(s, code)

OverBudget(s, code) == [Warn(s, code) EXCEPT !.truncated = TRUE]

Lower(w) == [i \in DOMAIN w |-> IF w[i] = "A" THEN "a" ELSE w[i]]

\* css_intern: the bytes that are kept, and those of them that fit.
Stored(w) ==
  LET kept[i \in 0..Len(w)] ==
        IF i = 0 THEN << >>
        ELSE IF w[i] \in Dropped THEN kept[i - 1] ELSE Append(kept[i - 1], w[i])
  IN kept[Len(w)]

Room(s) == Arena - s.string_len

Fits(s, w) == ~s.bounded \/ Len(Stored(w)) <= Room(s)

Interned(s, w) == IF Fits(s, w) THEN Stored(w) ELSE SubSeq(Stored(w), 1, Room(s))

Intern(s, w) ==
  LET t == [s EXCEPT !.string_len = @ + Len(Interned(s, w))]
  IN IF Fits(s, w) THEN t ELSE OverBudget(t, "STRING_BUDGET")

\* css_add_decl.  Auxiliary: of is the block it stands in.
AddDecl(s, prop, value) ==
  LET t == Intern(s, prop)
      p == Lower(Interned(s, prop))
      v == Interned(t, value)
  IN IF s.bounded /\ Len(s.decls) >= MaxDecls THEN OverBudget(s, "DECL_BUDGET")
     ELSE IF p = << >> \/ v = << >> THEN Warn(Intern(t, value), "DECL_SKIPPED")
     ELSE [Intern(t, value) EXCEPT !.decls = Append(@, [prop |-> p, value |-> v, of |-> block])]

Trim(w) ==
  LET ink == {i \in DOMAIN w : w[i] \notin Space}
  IN IF ink = {} THEN << >> ELSE SubSeq(w, Min(ink), Max(ink))

\* The declaration read, unless one side of the colon is empty.
EndDecl(s) ==
  IF name = << >> \/ Trim(word) = << >> THEN Warn(s, "DECL_SKIPPED")
  ELSE AddDecl(s, name, Trim(word))

AllIdent(w) == w # << >> /\ Range(w) \subseteq Ident

\* The kind of a trimmed selector, "none" if it is not supported.
Kind(w) ==
  CASE w = <<"*">> -> "universal"
    [] w # << >> /\ w[1] = "." /\ AllIdent(Tail(w)) -> "class"
    [] w # << >> /\ w[1] = "#" /\ AllIdent(Tail(w)) -> "id"
    [] AllIdent(w) -> "type"
    [] OTHER -> "none"

SelectorName(w) ==
  CASE Kind(w) = "universal" -> << >>
    [] Kind(w) = "type" -> Lower(w)
    [] OTHER -> Tail(w)

Declarations(s) == Len(s.decls) - s.decl_start

\* css_emit_one_selector
EmitSelector(s, w) ==
  IF Kind(w) = "none" THEN Warn(s, "SELECTOR_SKIPPED")
  ELSE IF s.bounded /\ Len(s.rules) >= MaxRules THEN OverBudget(s, "RULE_BUDGET")
  ELSE [Intern(s, SelectorName(w)) EXCEPT
          !.rules = Append(@, [kind |-> Kind(w), name |-> Interned(s, SelectorName(w)),
                               decl_start |-> s.decl_start, decl_count |-> Declarations(s),
                               of |-> block])]

\* The entries of a prelude, parted by commas.
Entries(w) ==
  LET parted[i \in 0..Len(w)] ==
        IF i = 0 THEN <<<< >>>>
        ELSE IF w[i] = Comma THEN Append(parted[i - 1], << >>)
        ELSE [parted[i - 1] EXCEPT ![Len(parted[i - 1])] = Append(@, w[i])]
  IN parted[Len(w)]

\* css_emit_selectors: the rules of a block come after its declarations.
EndRule(s) ==
  LET es == Entries(prelude)
      emitted[i \in 0..Len(es)] ==
        IF i = 0 THEN s ELSE EmitSelector(emitted[i - 1], Trim(es[i]))
  IN emitted[Len(es)]

\* What happens to the style sheet happens to the one without end as well.
Both(s, w) == sheet' = s /\ whole' = w
-----------------------------------------------------------------------------
\* A parser that stands at a place, before a text or behind one.
Fresh(place) ==
  /\ mode = place /\ in_comment = FALSE /\ depth = 0
  /\ prelude = << >> /\ name = << >> /\ word = << >> /\ block = 0
  /\ sheet = EmptySheet /\ whole = [EmptySheet EXCEPT !.bounded = FALSE]
  /\ chars = [read |-> 0, odd |-> 0]

Init == Fresh("top")

\* The character read is within the bounds.
Counted(c) ==
  /\ chars.read < MaxInput
  /\ c \in Odd => chars.odd < MaxOdd
  /\ chars' = [read |-> chars.read + 1, odd |-> chars.odd + (IF c \in Odd THEN 1 ELSE 0)]

In(modes) == mode \in modes /\ ~in_comment

Grows(c, most) == Len(word) < most /\ word' = Append(word, c)

\* A byte css_skip_ws goes over.
Skips(c) == c \in Space \cup {"/*"}

Blank(c) ==
  /\ In(Skipping) /\ Skips(c)
  /\ in_comment' = (c = "/*")
  /\ UNCHANGED <<mode, depth, prelude, name, word, block, sheet, whole>>

Comment(c) ==
  /\ in_comment
  /\ in_comment' = (c # "*/")
  /\ UNCHANGED <<mode, depth, prelude, name, word, block, sheet, whole>>

\* css_skip_at_rule and css_skip_block.
AtRule(c) ==
  /\ \/ /\ In({"top"}) /\ c = "@"
        /\ mode' = "at" /\ Both(Warn(sheet, "AT_RULE_SKIPPED"), Warn(whole, "AT_RULE_SKIPPED"))
        /\ UNCHANGED depth
     \/ /\ In({"at"})
        /\ mode' = IF c = Semicolon THEN "top" ELSE IF c = OpenBrace THEN "skip" ELSE "at"
        /\ depth' = IF c = OpenBrace THEN 1 ELSE 0
        /\ UNCHANGED <<sheet, whole>>
     \/ /\ In({"skip"})
        /\ depth' = IF c = OpenBrace THEN depth + 1 ELSE IF c = CloseBrace THEN depth - 1 ELSE depth
        /\ mode' = IF depth' = 0 THEN "top" ELSE "skip"
        /\ UNCHANGED <<sheet, whole>>
  /\ UNCHANGED <<in_comment, prelude, name, word, block>>

\* Mutant of OpenBlock: decl_start is not set to where the block begins.
OpenBlockLate(s) == s

OpenBlock(s) == [s EXCEPT !.decl_start = Len(s.decls)]

\* css_parse_qualified_rule, up to the block; a stray brace is dropped.
Prelude(c) ==
  /\ In({"top", "prelude"})
  /\ mode = "top" => ~Skips(c) /\ c # "@"
  /\ \/ /\ c = OpenBrace /\ mode' = "block"
        /\ prelude' = word /\ word' = << >> /\ block' = block + 1
        /\ Both(OpenBlock(sheet), OpenBlock(whole))
     \/ /\ c = CloseBrace /\ mode' = "top" /\ word' = << >>
        /\ Both(Warn(sheet, "SELECTOR_SKIPPED"), Warn(whole, "SELECTOR_SKIPPED"))
        /\ UNCHANGED <<prelude, block>>
     \/ /\ c \notin {OpenBrace, CloseBrace} /\ mode' = "prelude" /\ Grows(c, MaxPrelude)
        /\ UNCHANGED <<prelude, block, sheet, whole>>
  /\ UNCHANGED <<in_comment, depth, name>>

\* The block is over; s and w are what its last declaration leaves.
CloseBlock(s, w) ==
  /\ mode' = "top" /\ prelude' = << >> /\ name' = << >> /\ word' = << >>
  /\ Both(EndRule(s), EndRule(w))

NextDecl(s, w) ==
  /\ mode' = "block" /\ name' = << >> /\ word' = << >>
  /\ Both(s, w) /\ UNCHANGED prelude

BadDecl(s) == Warn(s, "DECL_SKIPPED")

Brace(c) ==
  /\ In({"block", "bad"}) /\ c = CloseBrace
  /\ CloseBlock(sheet, whole)
  /\ UNCHANGED <<in_comment, depth, block>>

\* The name of a property, with blanks and comments up to its colon: a comment
\* that touches the name is part of it.
Name(c) ==
  /\ In({"block", "name"})
  /\ mode = "block" => ~Skips(c)
  /\ c \notin NameEnd
  /\ IF c \in Space THEN mode' = "colon" /\ name' = word /\ word' = << >>
     ELSE mode' = "name" /\ Grows(c, MaxWord) /\ UNCHANGED name
  /\ UNCHANGED <<in_comment, depth, prelude, block, sheet, whole>>

Colon(c) ==
  /\ In({"block", "name", "colon"}) /\ c = ":"
  /\ mode' = "before_value" /\ word' = << >>
  /\ name' = IF mode = "colon" THEN name ELSE word
  /\ UNCHANGED <<in_comment, depth, prelude, block, sheet, whole>>

\* Something else than a colon: css_skip_to_decl_end.
NoColon(c) ==
  /\ \/ In({"block", "name", "colon"}) /\ c = Semicolon /\ NextDecl(BadDecl(sheet), BadDecl(whole))
     \/ In({"name", "colon"}) /\ c = CloseBrace /\ CloseBlock(BadDecl(sheet), BadDecl(whole))
     \/ /\ In({"colon"}) /\ c \notin NameEnd /\ ~Skips(c)
        /\ mode' = "bad" /\ name' = << >> /\ Both(BadDecl(sheet), BadDecl(whole))
        /\ UNCHANGED <<word, prelude>>
     \/ /\ In({"bad"}) /\ c # CloseBrace
        /\ mode' = IF c = Semicolon THEN "block" ELSE "bad"
        /\ UNCHANGED <<name, word, prelude, sheet, whole>>
  /\ UNCHANGED <<in_comment, depth, block>>

Value(c) ==
  /\ In({"before_value", "value"})
  /\ mode = "before_value" => ~Skips(c)
  /\ \/ c = Semicolon /\ NextDecl(EndDecl(sheet), EndDecl(whole))
     \/ c = CloseBrace /\ CloseBlock(EndDecl(sheet), EndDecl(whole))
     \/ /\ c \notin ValueEnd /\ mode' = "value" /\ Grows(c, MaxWord)
        /\ UNCHANGED <<name, prelude, sheet, whole>>
  /\ UNCHANGED <<in_comment, depth, block>>

\* What the end of the input leaves of the rule it is in.
Ended(s) ==
  CASE mode \in {"top", "at", "skip"} -> s
    [] mode = "prelude" -> Warn(s, "SELECTOR_SKIPPED")
    [] mode \in {"block", "bad"} -> EndRule(Warn(s, "UNCLOSED_BLOCK"))
    [] mode \in {"name", "colon"} -> EndRule(Warn(BadDecl(s), "UNCLOSED_BLOCK"))
    [] OTHER -> EndRule(Warn(EndDecl(s), "UNCLOSED_BLOCK"))

Unclosed(s) == IF in_comment THEN Warn(s, "UNCLOSED_COMMENT") ELSE s

\* A longer input is cut, which the code says before it reads any of it.
Cut(s, longer) == IF longer THEN OverBudget(s, "INPUT_TRUNCATED") ELSE s

\* The end of the text, or of as much of it as is read.
End(longer) ==
  /\ mode # "done"
  /\ longer => chars.read = MaxInput
  /\ mode' = "done" /\ in_comment' = FALSE
  /\ prelude' = << >> /\ name' = << >> /\ word' = << >>
  /\ Both(Ended(Unclosed(Cut(sheet, longer))), Ended(Unclosed(whole)))
  /\ UNCHANGED <<depth, block, chars>>

Char(c) ==
  /\ Counted(c)
  /\ \/ Blank(c) \/ Comment(c) \/ AtRule(c) \/ Prelude(c) \/ Brace(c)
     \/ Name(c) \/ Colon(c) \/ NoColon(c) \/ Value(c)

Parsed == mode = "done" /\ UNCHANGED vars

Next == (\E c \in Characters : Char(c)) \/ (\E longer \in BOOLEAN : End(longer)) \/ Parsed

Spec == Init /\ [][Next]_vars
-----------------------------------------------------------------------------
(***************************************************************************)
(* Properties.                                                             *)
(***************************************************************************)
\* "A contiguous range of declarations": a rule's are those of its own block,
\* whatever pools filled inside it, blocks came after it, or rules share it;
\* and recovery leaves no part of the syntax in any of them.
RulesOwnTheirDeclarations ==
  /\ \A i \in DOMAIN sheet.rules :
       LET r == sheet.rules[i]
           last == r.decl_start + r.decl_count
       IN {j \in DOMAIN sheet.decls : sheet.decls[j].of = r.of} = (r.decl_start + 1)..last
  /\ \A j \in DOMAIN sheet.decls :
       /\ Range(sheet.decls[j].prop) \cap (Space \cup NameEnd) = {}
       /\ Range(sheet.decls[j].value) \cap ValueEnd = {}

\* A rule or declaration of the sheet is that one of the text, if its strings
\* may be cut short.
SameRule(r, w) == r.kind = w.kind /\ r.of = w.of /\ IsPrefix(r.name, w.name)
SameDecl(d, w) == d.of = w.of /\ IsPrefix(d.prop, w.prop) /\ IsPrefix(d.value, w.value)

\* "Over-budget input/rules/declarations/strings set out->truncated": pools
\* that fill cost the end of the text and nothing else.  A sheet that is not
\* marked is all of it.
BudgetsCutTheEnd ==
  /\ Len(sheet.rules) <= MaxRules /\ Len(sheet.decls) <= MaxDecls /\ sheet.string_len <= Arena
  /\ Len(sheet.rules) <= Len(whole.rules) /\ Len(sheet.decls) <= Len(whole.decls)
  /\ \A i \in DOMAIN sheet.rules : SameRule(sheet.rules[i], whole.rules[i])
  /\ \A j \in DOMAIN sheet.decls : SameDecl(sheet.decls[j], whole.decls[j])
  /\ ~sheet.truncated =>
       sheet.rules = whole.rules /\ sheet.decls = whole.decls /\ sheet.warnings = whole.warnings
  /\ "STRING_BUDGET" \notin sheet.warnings =>
       /\ \A i \in DOMAIN sheet.rules : sheet.rules[i].name = whole.rules[i].name
       /\ IsPrefix(sheet.decls, whole.decls)

==============================================================================
