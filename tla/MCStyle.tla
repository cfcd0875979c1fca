----------------------------- MODULE MCStyle ------------------------------
(* Texts of identifiers, universal selectors, blanks, comments, and what   *)
(* parts them.  Sheets of two rules with two declarations or three with    *)
(* one, some of them shared by a list of selectors; a document of an       *)
(* element, one in it or behind it, and a text in the second.              *)
EXTENDS Style

CssCharacters == {"a", "*", " ", "{", "}", ":", ";", ",", "@", "/*", "*/"}

Selector == {[kind |-> "universal", name |-> << >>], [kind |-> "type", name |-> <<"a">>],
             [kind |-> "class", name |-> <<"c">>], [kind |-> "id", name |-> <<"i">>]}

MCProperty == {"color", "display", "margin"}

Rule(s, start, count) ==
  [kind |-> s.kind, name |-> s.name, decl_start |-> start, decl_count |-> count]

\* The ranges of the rules: their own declarations, or one range for all.
Ranges == {<< <<0, 2>>, <<2, 2>> >>, << <<0, 2>>, <<0, 2>>, <<2, 1>> >>,
           << <<0, 1>>, <<1, 1>>, <<2, 1>> >>, << <<0, 0>>, <<0, 1>> >>}

MCSheets ==
  UNION {{[rules |-> [i \in DOMAIN rs |-> Rule(ss[i], rs[i][1], rs[i][2])], decls |-> ds] :
            ss \in [DOMAIN rs -> Selector],
            ds \in [1..(rs[Len(rs)][1] + rs[Len(rs)][2]) -> MCProperty]} :
         rs \in Ranges}

Node(type, parent, m) ==
  [type |-> type, parent |-> parent, name |-> IF "type" \in m THEN <<"a">> ELSE <<"b">>,
   classes |-> IF "class" \in m THEN {<<"c">>, <<"d">>} ELSE {},
   id |-> IF "id" \in m THEN <<<<"i">>>> ELSE << >>]

Shown == {{}, {"type"}, {"class", "id"}, {"type", "class", "id"}}

MCDocuments ==
  {<<Node("DOCUMENT", 0, {}), Node("ELEMENT", 1, a), Node("ELEMENT", in, b), Node("TEXT", 3, {})>> :
     in \in {1, 2}, a \in Shown, b \in {{}, {"type", "class"}}}

MCPages == {<<Node("DOCUMENT", 0, {}), Node("ELEMENT", 1, {"type"}), Node("ELEMENT", 2, {})>>}
==============================================================================
