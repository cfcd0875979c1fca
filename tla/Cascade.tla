------------------------------ MODULE Cascade ------------------------------
(***************************************************************************)
(* capy_css_cascade of css/cascade.c: the computed style of every node of  *)
(* a document.  A step is one call of cascade_node; the calls follow the   *)
(* order of the document, which is that of the node pool (DocumentOrder of *)
(* HtmlDom).  A value is the number of the declaration that holds it.      *)
(***************************************************************************)
EXTENDS Naturals, Sequences

CONSTANTS
  Documents, \* sequences of nodes: type, parent, name, classes and id, << >> or one
  Sheets     \* what capy_css_parse may hand on: rules, and decls by property

Inherited == {"color", "font-weight", "font-style", "text-align"}
Property == Inherited \cup {"display", "background-color", "text-decoration"}

VARIABLES
  nodes, rules, decls,  \* dom and sheet, which the cascade only reads
  styles                \* out->styles, of the nodes visited

vars == <<nodes, rules, decls, styles>>

Init ==
  /\ nodes \in Documents
  /\ \E sheet \in Sheets : rules = sheet.rules /\ decls = sheet.decls
  /\ styles = << >>
-----------------------------------------------------------------------------
\* selector_matches
Matches(node, r) ==
  CASE r.kind = "universal" -> TRUE
    [] r.kind = "type" -> node.name = r.name
    [] r.kind = "class" -> r.name \in node.classes
    [] r.kind = "id" -> node.id = <<r.name>>

Specificity(r) ==
  CASE r.kind = "id" -> 100
    [] r.kind = "class" -> 10
    [] r.kind = "type" -> 1
    [] r.kind = "universal" -> 0

\* A computed style while rules are applied: no value is 0, and spec is the
\* best_spec of each property.
Unset == [p \in Property |-> [value |-> 0, spec |-> 0]]

\* Mutant of Overrides: the first of equals wins.
OverridesOnlyLess(spec, best) == best.value = 0 \/ spec > best.spec

Overrides(spec, best) == best.value = 0 \/ spec >= best.spec

Apply(style, j, spec) ==
  IF decls[j] \in Property /\ Overrides(spec, style[decls[j]])
    THEN [style EXCEPT ![decls[j]] = [value |-> j, spec |-> spec]]
  ELSE style

\* The declarations of a rule, one after another.
ApplyDecls(style, r) ==
  LET after[k \in 0..r.decl_count] ==
        IF k = 0 THEN style ELSE Apply(after[k - 1], r.decl_start + k, Specificity(r))
  IN after[r.decl_count]

\* cascade_apply_rules
ApplyRules(node) ==
  LET after[i \in 0..Len(rules)] ==
        IF i = 0 THEN Unset
        ELSE IF Matches(node, rules[i]) THEN ApplyDecls(after[i - 1], rules[i]) ELSE after[i - 1]
  IN after[Len(rules)]

\* cascade_node: its own rules, then what its parent has of the inherited ones.
Computed(n) ==
  LET own == IF nodes[n].type = "ELEMENT" THEN ApplyRules(nodes[n]) ELSE Unset
  IN [p \in Property |->
        IF own[p].value # 0 \/ p \notin Inherited \/ nodes[n].parent = 0 THEN own[p].value
        ELSE styles[nodes[n].parent][p]]

CascadeNode ==
  /\ Len(styles) < Len(nodes)
  /\ styles' = Append(styles, Computed(Len(styles) + 1))
  /\ UNCHANGED <<nodes, rules, decls>>

Done == Len(styles) = Len(nodes) /\ UNCHANGED vars

Next == CascadeNode \/ Done

Spec == Init /\ [][Next]_vars
-----------------------------------------------------------------------------
(***************************************************************************)
(* Properties.                                                             *)
(***************************************************************************)
\* The declarations of p that a rule gives an element: <<rule, declaration>>.
Candidates(n, p) ==
  {c \in (DOMAIN rules) \X (DOMAIN decls) :
     LET r == rules[c[1]]
     IN /\ nodes[n].type = "ELEMENT" /\ Matches(nodes[n], r)
        /\ c[2] \in (r.decl_start + 1)..(r.decl_start + r.decl_count)
        /\ decls[c[2]] = p}

\* The strongest: by specificity, then rule, then place in the rule.
Stronger(c, d) ==
  LET a == Specificity(rules[c[1]])
      b == Specificity(rules[d[1]])
  IN a > b \/ (a = b /\ (c[1] > d[1] \/ (c[1] = d[1] /\ c[2] >= d[2])))

Winner(n, p) == (CHOOSE c \in Candidates(n, p) : \A d \in Candidates(n, p) : Stronger(c, d))[2]

\* "The winning declaration is chosen by specificity then source order;
\* inherited properties fall back to the parent": a value is the winner's of
\* the nearest of the node and, for those inherited, its ancestors that has any.
ComputedIsCascade ==
  \A p \in Property :
    LET value[n \in 0..Len(styles)] ==
          IF n = 0 THEN 0
          ELSE IF Candidates(n, p) # {} THEN Winner(n, p)
          ELSE IF p \in Inherited THEN value[nodes[n].parent] ELSE 0
    IN \A n \in DOMAIN styles : styles[n][p] = value[n]

==============================================================================
