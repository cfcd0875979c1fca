------------------------------- MODULE Style -------------------------------
(***************************************************************************)
(* The style stages of capy_page_render: the text of the style sheet is    *)
(* parsed, and the sheet handed to the cascade.  A behaviour starts with a *)
(* text, or with one of Sheets: sheets longer than those of the texts.     *)
(***************************************************************************)
EXTENDS CssParse

CONSTANTS
  Documents, Sheets, \* of Cascade
  Pages              \* the documents that the sheet of a text is for

Kinds == {"universal", "type", "class", "id"}

\* A parent comes before its children; the first node is the document.  The
\* declarations of a rule are in the sheet.
ASSUME CascadeConstants ==
  /\ \A document \in Documents \cup Pages :
       /\ document \in Seq(Range(document))
       /\ \A n \in DOMAIN document :
            document[n].parent \in 0..(n - 1) /\ (document[n].parent = 0 <=> n = 1)
  /\ \A s \in Sheets :
       /\ s.rules \in Seq(Range(s.rules)) /\ s.decls \in Seq(Range(s.decls))
       /\ \A i \in DOMAIN s.rules : LET r == s.rules[i] IN
            /\ r.kind \in Kinds /\ r.decl_start \in Nat /\ r.decl_count \in Nat
            /\ r.decl_start + r.decl_count <= Len(s.decls)

VARIABLES nodes, rules, decls, styles

C == INSTANCE Cascade

cascadeVars == <<nodes, rules, decls, styles>>
styleVars == <<vars, cascadeVars>>

\* prop_index: the name of one letter stands for one that is known.
PropIndex(w) == IF w = <<"a">> THEN "color" ELSE "unknown"

\* The selectors of a sheet with their ranges, and the properties it sets.
SheetRules ==
  [i \in DOMAIN sheet.rules |->
     LET r == sheet.rules[i]
     IN [kind |-> r.kind, name |-> r.name, decl_start |-> r.decl_start, decl_count |-> r.decl_count]]
SheetDecls == [j \in DOMAIN sheet.decls |-> PropIndex(sheet.decls[j].prop)]

StyleInit ==
  \/ Init /\ nodes = << >> /\ rules = << >> /\ decls = << >> /\ styles = << >>
  \/ Fresh("done") /\ C!Init

ParseSheet == nodes = << >> /\ Next /\ UNCHANGED cascadeVars

\* What the cascade does not read of a sheet is let go of.
HandOver ==
  /\ mode = "done" /\ nodes = << >>
  /\ nodes' \in Pages /\ rules' = SheetRules /\ decls' = SheetDecls /\ styles' = << >>
  /\ sheet' = EmptySheet /\ whole' = [EmptySheet EXCEPT !.bounded = FALSE]
  /\ depth' = 0 /\ block' = 0 /\ chars' = [read |-> 0, odd |-> 0]
  /\ UNCHANGED <<mode, in_comment, prelude, name, word>>

Style == nodes # << >> /\ C!Next /\ UNCHANGED vars

StyleNext == ParseSheet \/ HandOver \/ Style

StyleSpec == StyleInit /\ [][StyleNext]_styleVars
-----------------------------------------------------------------------------
\* The computed values of Cascade, as they should be.
ComputedIsCascade == C!ComputedIsCascade

==============================================================================
