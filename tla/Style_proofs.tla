----------------------------- MODULE Style_proofs -----------------------------
(***************************************************************************)
(* The style of every node is the cascade's, for every style sheet the     *)
(* parser can make of a text and every document.                           *)
(***************************************************************************)
EXTENDS Style, Induction

(***************************************************************************)
(* A rule whose declarations are in the sheet.                             *)
(***************************************************************************)
RuleIn(r, ds) ==
  /\ r.kind \in Kinds /\ r.decl_start \in Nat /\ r.decl_count \in Nat
  /\ r.decl_start + r.decl_count <= Len(ds)

SheetInv ==
  /\ rules \in Seq(Range(rules)) /\ decls \in Seq(Range(decls))
  /\ \A i \in DOMAIN rules : RuleIn(rules[i], decls)

Held == [value : Nat, spec : Nat]
Looks == [C!Property -> Held]

\* The candidates up to declaration j of rule i.
Upto(n, p, i, j) == {c \in C!Candidates(n, p) : c[1] < i \/ (c[1] = i /\ c[2] <= j)}

\* What v holds is the strongest of cs.
Strongest(v, cs) ==
  IF cs = {} THEN v.value = 0
  ELSE \E c \in cs : /\ \A d \in cs : C!Stronger(c, d)
                     /\ v.value = c[2] /\ v.spec = C!Specificity(rules[c[1]])

BestUpto(style, n, i, j) == \A p \in C!Property : Strongest(style[p], Upto(n, p, i, j))

LEMMA SpecTyped ==
  ASSUME NEW r, r.kind \in Kinds
  PROVE  C!Specificity(r) \in Nat
BY DEF C!Specificity, Kinds

LEMMA SheetTyped ==
  ASSUME SheetInv
  PROVE  /\ Len(rules) \in Nat /\ DOMAIN rules = 1..Len(rules)
         /\ Len(decls) \in Nat /\ DOMAIN decls = 1..Len(decls)
         /\ \A i \in 1..Len(rules) :
              /\ rules[i].decl_start \in Nat /\ rules[i].decl_count \in Nat
              /\ rules[i].decl_start + rules[i].decl_count <= Len(decls)
              /\ C!Specificity(rules[i]) \in Nat
BY SpecTyped DEF SheetInv, RuleIn

LEMMA CandidateIs ==
  ASSUME SheetInv, NEW n, NEW p, NEW c
  PROVE  c \in C!Candidates(n, p) <=>
           /\ c \in (1..Len(rules)) \X (1..Len(decls))
           /\ nodes[n].type = "ELEMENT" /\ C!Matches(nodes[n], rules[c[1]])
           /\ c[2] \in (rules[c[1]].decl_start + 1)..(rules[c[1]].decl_start + rules[c[1]].decl_count)
           /\ decls[c[2]] = p
BY SheetTyped DEF C!Candidates

\* The order of two declarations is total and can be told from what is kept.
LEMMA StrongerOrders ==
  ASSUME SheetInv, NEW a \in (1..Len(rules)) \X (1..Len(decls)),
         NEW b \in (1..Len(rules)) \X (1..Len(decls)),
         NEW c \in (1..Len(rules)) \X (1..Len(decls))
  PROVE  /\ C!Stronger(a, a)
         /\ C!Stronger(a, b) /\ C!Stronger(b, c) => C!Stronger(a, c)
         /\ C!Stronger(a, b) /\ C!Stronger(b, a) => a = b
         /\ b[1] < a[1] \/ (b[1] = a[1] /\ b[2] < a[2]) =>
              (C!Stronger(a, b) <=> C!Specificity(rules[a[1]]) >= C!Specificity(rules[b[1]]))
         /\ b[1] < a[1] \/ (b[1] = a[1] /\ b[2] < a[2]) =>
              (C!Stronger(b, a) <=> C!Specificity(rules[b[1]]) > C!Specificity(rules[a[1]]))
<1>1. /\ a[1] \in 1..Len(rules) /\ b[1] \in 1..Len(rules) /\ c[1] \in 1..Len(rules)
      /\ a[2] \in 1..Len(decls) /\ b[2] \in 1..Len(decls) /\ c[2] \in 1..Len(decls)
      /\ a = <<a[1], a[2]>> /\ b = <<b[1], b[2]>>
      /\ Len(rules) \in Nat /\ Len(decls) \in Nat
  BY SheetTyped
<1>2. PICK sa \in Nat : sa = C!Specificity(rules[a[1]])
  BY <1>1, SheetTyped
<1>3. PICK sb \in Nat : sb = C!Specificity(rules[b[1]])
  BY <1>1, SheetTyped
<1>4. PICK sc \in Nat : sc = C!Specificity(rules[c[1]])
  BY <1>1, SheetTyped
<1>5. /\ C!Stronger(a, a)
      /\ C!Stronger(a, b) <=> sa > sb \/ (sa = sb /\ (a[1] > b[1] \/ (a[1] = b[1] /\ a[2] >= b[2])))
      /\ C!Stronger(b, a) <=> sb > sa \/ (sb = sa /\ (b[1] > a[1] \/ (b[1] = a[1] /\ b[2] >= a[2])))
      /\ C!Stronger(b, c) <=> sb > sc \/ (sb = sc /\ (b[1] > c[1] \/ (b[1] = c[1] /\ b[2] >= c[2])))
      /\ C!Stronger(a, c) <=> sa > sc \/ (sa = sc /\ (a[1] > c[1] \/ (a[1] = c[1] /\ a[2] >= c[2])))
  BY <1>1, <1>2, <1>3, <1>4 DEF C!Stronger
<1>6. C!Stronger(a, b) /\ C!Stronger(b, a) => a = b
  <2>1. C!Stronger(a, b) /\ C!Stronger(b, a) => a[1] = b[1] /\ a[2] = b[2]
    BY <1>1, <1>5
  <2> QED
    BY <1>1, <2>1
<1> QED
  BY <1>1, <1>2, <1>3, <1>4, <1>5, <1>6

\* One declaration more, of a rule that matches.
LEMMA ApplyOne ==
  ASSUME SheetInv, NEW n, nodes[n].type = "ELEMENT", NEW i \in 1..Len(rules),
         C!Matches(nodes[n], rules[i]),
         NEW j \in (rules[i].decl_start + 1)..(rules[i].decl_start + rules[i].decl_count),
         NEW style \in Looks, BestUpto(style, n, i, j - 1)
  PROVE  LET s == C!Apply(style, j, C!Specificity(rules[i]))
         IN s \in Looks /\ BestUpto(s, n, i, j)
<1>1. PICK s : s = C!Apply(style, j, C!Specificity(rules[i]))
  OBVIOUS
<1>2. PICK spec \in Nat : spec = C!Specificity(rules[i])
  BY SheetTyped
<1>3. j \in 1..Len(decls) /\ j \in Nat /\ Len(decls) \in Nat
  BY SheetTyped
<1> DEFINE v == [value |-> j, spec |-> spec]
           wins == decls[j] \in C!Property /\ C!Overrides(spec, style[decls[j]])
<1>4. s = IF wins THEN [style EXCEPT ![decls[j]] = v] ELSE style
  BY <1>1, <1>2 DEF C!Apply
<1>5. v \in Held
  BY <1>2, <1>3 DEF Held
<1>6. s \in Looks /\ \A p \in C!Property : s[p] = IF wins /\ p = decls[j] THEN v ELSE style[p]
  <2> HIDE DEF v, wins
  <2>1. CASE wins
    BY <1>4, <1>5, <2>1 DEF Looks
  <2>2. CASE ~wins
    BY <1>4, <2>2
  <2> QED
    BY <2>1, <2>2
<1>7. ASSUME NEW p \in C!Property PROVE Strongest(s[p], Upto(n, p, i, j))
  <2>1. Strongest(style[p], Upto(n, p, i, j - 1))
    BY DEF BestUpto
  <2>2. CASE p # decls[j]
    <3>1. Upto(n, p, i, j) = Upto(n, p, i, j - 1)
      <4>1. ASSUME NEW c \in C!Candidates(n, p) PROVE c[1] = i => c[2] # j /\ c[2] \in Nat
        BY <2>2, <4>1, CandidateIs
      <4> QED
        BY <1>3, <4>1 DEF Upto
    <3> QED
      BY <1>6, <2>1, <2>2, <3>1
  <2>3. CASE p = decls[j]
    <3> DEFINE c == <<i, j>>
               old == Upto(n, p, i, j - 1)
    <3>1. c \in C!Candidates(n, p) /\ c[1] = i /\ c[2] = j
      <4>1. c \in (1..Len(rules)) \X (1..Len(decls)) /\ c[1] = i /\ c[2] = j
        BY <1>3
      <4> HIDE DEF c
      <4> QED
        BY <2>3, <4>1, CandidateIs
    <3> HIDE DEF c
    <3>2. \A d \in C!Candidates(n, p) : d \in (1..Len(rules)) \X (1..Len(decls))
      BY CandidateIs
    <3>3. Upto(n, p, i, j) = old \cup {c}
      <4>1. ASSUME NEW d \in C!Candidates(n, p), d[1] = i, d[2] = j PROVE d = c
        <5>1. d = <<d[1], d[2]>> /\ c = <<i, j>>
          BY <3>2 DEF c
        <5> QED
          BY <4>1, <5>1
      <4>2. \A d \in C!Candidates(n, p) : d[2] \in Nat
        BY <3>2, <1>3
      <4> QED
        BY <1>3, <3>1, <4>1, <4>2 DEF Upto
    <3>4. \A d \in old : d \in C!Candidates(n, p) /\ (d[1] < c[1] \/ (d[1] = c[1] /\ d[2] < c[2]))
      <4>1. \A d \in C!Candidates(n, p) : d[2] \in Nat
        BY <3>2, <1>3
      <4> QED
        BY <1>3, <3>1, <4>1 DEF Upto
    <3>5. C!Specificity(rules[c[1]]) = spec /\ C!Stronger(c, c)
      BY <1>2, <3>1, <3>2, StrongerOrders
    <3> HIDE DEF old
    <3>6. CASE old = {}
      <4>1. style[p].value = 0
        BY <2>1, <3>6 DEF Strongest, old
      <4>2. s[p] = v /\ v.value = j /\ v.spec = spec
        BY <1>6, <2>3, <4>1 DEF C!Overrides
      <4> QED
        BY <3>1, <3>3, <3>5, <3>6, <4>2 DEF Strongest
    <3>7. CASE old # {}
      <4>1. PICK b \in old : /\ \A d \in old : C!Stronger(b, d)
                             /\ style[p].value = b[2] /\ style[p].spec = C!Specificity(rules[b[1]])
        BY <2>1, <3>7 DEF Strongest, old
      <4>2. /\ b \in (1..Len(rules)) \X (1..Len(decls)) /\ b[2] # 0
            /\ c \in (1..Len(rules)) \X (1..Len(decls))
        BY <1>3, <3>1, <3>2, <3>4
      <4>3. wins <=> C!Stronger(c, b)
        <5>1. wins <=> spec >= style[p].spec
          BY <1>3, <2>3, <4>1, <4>2 DEF C!Overrides
        <5>2. C!Stronger(c, b) <=> C!Specificity(rules[c[1]]) >= C!Specificity(rules[b[1]])
          BY <3>4, <4>2, StrongerOrders
        <5> QED
          BY <3>5, <4>1, <5>1, <5>2
      <4>4. ~wins => C!Stronger(b, c)
        <5>1. C!Stronger(c, b) <=> C!Specificity(rules[c[1]]) >= C!Specificity(rules[b[1]])
          BY <3>4, <4>2, StrongerOrders
        <5>2. C!Stronger(b, c) <=> C!Specificity(rules[b[1]]) > C!Specificity(rules[c[1]])
          BY <3>4, <4>2, StrongerOrders
        <5>3. C!Specificity(rules[b[1]]) \in Nat /\ C!Specificity(rules[c[1]]) \in Nat
          BY <4>2, SheetTyped
        <5> QED
          BY <4>3, <5>1, <5>2, <5>3
      <4>5. CASE wins
        <5>1. \A d \in old : C!Stronger(c, d)
          <6>1. \A d \in old : d \in (1..Len(rules)) \X (1..Len(decls))
            BY <3>2, <3>4
          <6> QED
            BY <4>1, <4>2, <4>3, <4>5, <6>1, StrongerOrders
        <5>2. s[p] = v /\ v.value = j /\ v.spec = spec
          BY <1>6, <2>3, <4>5
        <5> QED
          BY <3>1, <3>3, <3>5, <5>1, <5>2 DEF Strongest
      <4>6. CASE ~wins
        <5>1. s[p] = style[p]
          BY <1>6, <4>6
        <5> QED
          BY <3>3, <4>1, <4>4, <4>6, <5>1 DEF Strongest
      <4> QED
        BY <4>5, <4>6
    <3> QED
      BY <3>6, <3>7
  <2> QED
    BY <2>2, <2>3
<1> QED
  BY <1>1, <1>6, <1>7 DEF BestUpto

LEMMA ApplyTyped ==
  ASSUME NEW style \in Looks, NEW j \in Nat, NEW spec \in Nat
  PROVE  C!Apply(style, j, spec) \in Looks
<1>1. PICK v : v = [value |-> j, spec |-> spec]
  OBVIOUS
<1>2. PICK d : d = decls[j]
  OBVIOUS
<1>3. v \in Held
  BY <1>1 DEF Held
<1>4. C!Apply(style, j, spec) = style
        \/ (d \in C!Property /\ C!Apply(style, j, spec) = [style EXCEPT ![d] = v])
  BY <1>1, <1>2 DEF C!Apply
<1> QED
  BY <1>3, <1>4 DEF Looks

\* The declarations of a rule, one after another.
LEMMA DeclsInTurn ==
  ASSUME NEW r, r.kind \in Kinds, r.decl_start \in Nat, r.decl_count \in Nat, NEW style \in Looks
  PROVE  \E f \in [0..r.decl_count -> Looks] :
           /\ f[0] = style /\ C!ApplyDecls(style, r) = f[r.decl_count]
           /\ \A k \in 1..r.decl_count : f[k] = C!Apply(f[k - 1], r.decl_start + k, C!Specificity(r))
<1>1. PICK m \in Nat : m = r.decl_count
  OBVIOUS
<1>2. PICK start \in Nat : start = r.decl_start
  OBVIOUS
<1>3. PICK spec \in Nat : spec = C!Specificity(r)
  BY SpecTyped
<1> DEFINE After(g) == g = [k \in 0..m |-> IF k = 0 THEN style ELSE C!Apply(g[k - 1], start + k, spec)]
           T == [k \in 1..m |-> [s \in Looks |-> C!Apply(s, start + k, spec)]]
<1>4. T \in [1..m -> [Looks -> Looks]]
  <2>1. ASSUME NEW s \in Looks, NEW k \in 1..m PROVE C!Apply(s, start + k, spec) \in Looks
    BY <1>1, <1>2, <1>3, ApplyTyped
  <2> QED
    BY <2>1
<1>5. \E f : After(f)
  <2>1. PICK f \in [0..m -> Looks] : f[0] = style /\ \A k \in 1..m : f[k] = T[k][f[k - 1]]
    <3> HIDE DEF T
    <3> QED
      BY <1>4, Iterates
  <2>2. ASSUME NEW k \in 1..m PROVE f[k] = C!Apply(f[k - 1], start + k, spec)
    <3>1. f[k - 1] \in Looks
      BY <1>1, <2>1
    <3> QED
      BY <2>1, <3>1
  <2>3. ASSUME NEW k \in 0..m
        PROVE  f[k] = IF k = 0 THEN style ELSE C!Apply(f[k - 1], start + k, spec)
    BY <1>1, <2>1, <2>2
  <2> QED
    BY <2>1, <2>3
<1>6. PICK f : f = CHOOSE g : After(g)
  OBVIOUS
<1>7. After(f)
  <2> HIDE DEF After
  <2> QED
    BY <1>5, <1>6
<1>8. C!ApplyDecls(style, r) = f[m]
  BY <1>1, <1>2, <1>3, <1>6 DEF C!ApplyDecls
<1>9. /\ f[0] = style
      /\ \A k \in 1..m : f[k] = C!Apply(f[k - 1], start + k, spec)
  BY <1>1, <1>7
<1> DEFINE S == {k \in Nat : k <= m => f[k] \in Looks}
<1>10. S = Nat
  <2>1. S \in SUBSET Nat /\ 0 \in S
    BY <1>9
  <2>2. ASSUME NEW k \in S PROVE k + 1 \in S
    <3>1. SUFFICES ASSUME k + 1 <= m PROVE f[k + 1] \in Looks
      OBVIOUS
    <3>2. k \in Nat /\ f[k] \in Looks /\ k + 1 \in 1..m /\ (k + 1) - 1 = k
      BY <1>1, <3>1
    <3>3. f[k + 1] = C!Apply(f[k], start + (k + 1), spec)
      BY <1>9, <3>2
    <3> QED
      BY <1>2, <1>3, <3>2, <3>3, ApplyTyped
  <2> HIDE DEF S
  <2> QED
    BY <2>1, <2>2, Induct
<1>11. f \in [0..m -> Looks]
  <2>1. ASSUME NEW k \in 0..m PROVE f[k] \in Looks
    <3>1. k \in S /\ k <= m
      BY <1>1, <1>10
    <3> QED
      BY <3>1
  <2>2. f = [k \in 0..m |-> f[k]]
    BY <1>7
  <2> QED
    BY <2>1, <2>2
<1> QED
  BY <1>1, <1>2, <1>3, <1>8, <1>9, <1>11

\* All declarations of a rule that matches.
LEMMA ApplyAll ==
  ASSUME SheetInv, NEW n, nodes[n].type = "ELEMENT", NEW i \in 1..Len(rules),
         C!Matches(nodes[n], rules[i]), NEW style \in Looks,
         BestUpto(style, n, i, rules[i].decl_start)
  PROVE  BestUpto(C!ApplyDecls(style, rules[i]), n, i, rules[i].decl_start + rules[i].decl_count)
<1>1. PICK m \in Nat : m = rules[i].decl_count
  BY SheetTyped
<1>2. PICK start \in Nat : start = rules[i].decl_start
  BY SheetTyped
<1>3. rules[i].kind \in Kinds
  BY SheetTyped DEF SheetInv, RuleIn
<1>4. PICK f \in [0..m -> Looks] :
        /\ f[0] = style /\ C!ApplyDecls(style, rules[i]) = f[m]
        /\ \A k \in 1..m : f[k] = C!Apply(f[k - 1], start + k, C!Specificity(rules[i]))
  <2>1. rules[i].decl_start \in Nat /\ rules[i].decl_count \in Nat
    BY <1>1, <1>2
  <2>2. PICK f \in [0..rules[i].decl_count -> Looks] :
          /\ f[0] = style /\ C!ApplyDecls(style, rules[i]) = f[rules[i].decl_count]
          /\ \A k \in 1..rules[i].decl_count :
               f[k] = C!Apply(f[k - 1], rules[i].decl_start + k, C!Specificity(rules[i]))
    BY <1>3, <2>1, DeclsInTurn
  <2> QED
    BY <1>1, <1>2, <2>2
<1> DEFINE S == {k \in Nat : k <= m => BestUpto(f[k], n, i, start + k)}
<1>5. S = Nat
  <2>1. 0 \in S
    BY <1>2, <1>4
  <2>2. ASSUME NEW k \in S PROVE k + 1 \in S
    <3>1. SUFFICES ASSUME k + 1 <= m PROVE BestUpto(f[k + 1], n, i, start + (k + 1))
      OBVIOUS
    <3>2. /\ k \in Nat /\ f[k] \in Looks /\ BestUpto(f[k], n, i, start + k)
          /\ k + 1 \in 1..m /\ (k + 1) - 1 = k
      <4>1. k \in Nat /\ (k <= m => BestUpto(f[k], n, i, start + k))
        BY <2>2
      <4>2. k <= m /\ k \in 0..m /\ k + 1 \in 1..m /\ (k + 1) - 1 = k
        BY <3>1, <4>1
      <4> QED
        BY <1>4, <4>1, <4>2
    <3>3. PICK j : j = start + (k + 1)
      OBVIOUS
    <3>4. j \in (rules[i].decl_start + 1)..(rules[i].decl_start + rules[i].decl_count) /\ j - 1 = start + k
      <4>1. k \in Nat /\ k + 1 <= m
        BY <3>1, <3>2
      <4>2. j \in (start + 1)..(start + m) /\ j - 1 = start + k
        BY <3>3, <4>1
      <4> QED
        BY <1>1, <1>2, <4>2
    <3>5. f[k + 1] = C!Apply(f[k], j, C!Specificity(rules[i]))
      BY <1>4, <3>2, <3>3
    <3> QED
      BY <3>2, <3>3, <3>4, <3>5, ApplyOne
  <2>3. S \in SUBSET Nat
    OBVIOUS
  <2> HIDE DEF S
  <2> QED
    BY <2>1, <2>2, <2>3, Induct
<1>6. BestUpto(f[m], n, i, start + m)
  <2>1. m \in S
    BY <1>5
  <2> QED
    BY <2>1
<1> QED
  BY <1>1, <1>2, <1>4, <1>6

\* One rule more.
LEMMA RuleBest ==
  ASSUME SheetInv, NEW n, nodes[n].type = "ELEMENT", NEW i \in 1..Len(rules),
         NEW style \in Looks, BestUpto(style, n, i - 1, Len(decls))
  PROVE  LET s == IF C!Matches(nodes[n], rules[i]) THEN C!ApplyDecls(style, rules[i]) ELSE style
         IN s \in Looks /\ BestUpto(s, n, i, Len(decls))
<1>1. /\ i \in Nat /\ Len(decls) \in Nat
      /\ rules[i].decl_start \in Nat /\ rules[i].decl_count \in Nat
      /\ rules[i].decl_start + rules[i].decl_count <= Len(decls) /\ rules[i].kind \in Kinds
  BY SheetTyped DEF SheetInv, RuleIn
<1>2. ASSUME NEW p, NEW c \in C!Candidates(n, p)
      PROVE  /\ c[1] \in Nat /\ c[2] \in 1..Len(decls)
             /\ C!Matches(nodes[n], rules[c[1]])
             /\ c[2] \in (rules[c[1]].decl_start + 1)..(rules[c[1]].decl_start + rules[c[1]].decl_count)
  BY <1>2, CandidateIs, SheetTyped
<1>3. CASE C!Matches(nodes[n], rules[i])
  <2>1. \A p : Upto(n, p, i, rules[i].decl_start) = Upto(n, p, i - 1, Len(decls))
    BY <1>1, <1>2 DEF Upto
  <2>2. \A p : Upto(n, p, i, Len(decls)) = Upto(n, p, i, rules[i].decl_start + rules[i].decl_count)
    BY <1>1, <1>2 DEF Upto
  <2>3. BestUpto(style, n, i, rules[i].decl_start)
    BY <2>1 DEF BestUpto
  <2>4. BestUpto(C!ApplyDecls(style, rules[i]), n, i, rules[i].decl_start + rules[i].decl_count)
    BY <1>3, <2>3, ApplyAll
  <2>5. C!ApplyDecls(style, rules[i]) \in Looks
    <3>1. PICK m \in Nat : m = rules[i].decl_count
      BY <1>1
    <3>2. PICK f \in [0..m -> Looks] : C!ApplyDecls(style, rules[i]) = f[m]
      BY <1>1, <3>1, DeclsInTurn
    <3> QED
      BY <3>1, <3>2
  <2> QED
    BY <1>3, <2>2, <2>4, <2>5 DEF BestUpto
<1>4. CASE ~C!Matches(nodes[n], rules[i])
  <2>1. \A p : Upto(n, p, i, Len(decls)) = Upto(n, p, i - 1, Len(decls))
    BY <1>1, <1>2, <1>4 DEF Upto
  <2> QED
    BY <1>4, <2>1 DEF BestUpto
<1> QED
  BY <1>3, <1>4

\* All rules.
LEMMA RulesBest ==
  ASSUME SheetInv, NEW n, nodes[n].type = "ELEMENT"
  PROVE  LET s == C!ApplyRules(nodes[n])
         IN s \in Looks /\ \A p \in C!Property : Strongest(s[p], C!Candidates(n, p))
<1>1. PICK m \in Nat : m = Len(rules)
  BY SheetTyped
<1>2. PICK last \in Nat : last = Len(decls)
  BY SheetTyped
<1> DEFINE Step(s, i) == IF C!Matches(nodes[n], rules[i]) THEN C!ApplyDecls(s, rules[i]) ELSE s
           After(g) == g = [i \in 0..m |-> IF i = 0 THEN C!Unset
                                           ELSE IF C!Matches(nodes[n], rules[i])
                                                  THEN C!ApplyDecls(g[i - 1], rules[i]) ELSE g[i - 1]]
           T == [i \in 1..m |-> [s \in Looks |-> Step(s, i)]]
<1>3. C!Unset \in Looks /\ BestUpto(C!Unset, n, 0, last)
  <2>1. C!Unset \in Looks /\ \A p \in C!Property : C!Unset[p].value = 0
    BY DEF C!Unset, Looks, Held
  <2>2. \A p \in C!Property : Upto(n, p, 0, last) = {}
    BY CandidateIs, SheetTyped DEF Upto
  <2> QED
    BY <2>1, <2>2 DEF BestUpto, Strongest
<1>4. ASSUME NEW s \in Looks, NEW i \in 1..m PROVE Step(s, i) \in Looks
  <2>1. rules[i].decl_start \in Nat /\ rules[i].decl_count \in Nat /\ rules[i].kind \in Kinds
    BY <1>1, SheetTyped DEF SheetInv, RuleIn
  <2>2. PICK c \in Nat : c = rules[i].decl_count
    BY <2>1
  <2>3. PICK f \in [0..c -> Looks] : C!ApplyDecls(s, rules[i]) = f[c]
    BY <2>1, <2>2, DeclsInTurn
  <2>4. f[c] \in Looks
    BY <2>2, <2>3
  <2> QED
    BY <2>3, <2>4
<1>5. \E f : After(f)
  <2>1. T \in [1..m -> [Looks -> Looks]]
    <3> HIDE DEF Step
    <3> QED
      BY <1>4
  <2>2. PICK f \in [0..m -> Looks] : f[0] = C!Unset /\ \A i \in 1..m : f[i] = T[i][f[i - 1]]
    <3> HIDE DEF T, Step, After
    <3>1. PICK none \in Looks : none = C!Unset
      BY <1>3
    <3>2. PICK t \in [1..m -> [Looks -> Looks]] : t = T
      BY <2>1
    <3>3. \E f \in [0..m -> Looks] : f[0] = none /\ \A i \in 1..m : f[i] = t[i][f[i - 1]]
      BY Iterates
    <3> QED
      BY <3>1, <3>2, <3>3
  <2>3. ASSUME NEW i \in 1..m PROVE f[i] = Step(f[i - 1], i)
    <3>1. f[i - 1] \in Looks
      BY <1>1, <2>2
    <3> HIDE DEF Step
    <3> QED
      BY <2>2, <3>1
  <2>4. ASSUME NEW i \in 0..m
        PROVE  f[i] = IF i = 0 THEN C!Unset
                      ELSE IF C!Matches(nodes[n], rules[i])
                             THEN C!ApplyDecls(f[i - 1], rules[i]) ELSE f[i - 1]
    BY <1>1, <2>2, <2>3
  <2> QED
    BY <2>2, <2>4
<1>6. PICK f : f = CHOOSE g : After(g)
  OBVIOUS
<1>7. After(f)
  <2> HIDE DEF After
  <2> QED
    BY <1>5, <1>6
<1>8. C!ApplyRules(nodes[n]) = f[m]
  BY <1>1, <1>6 DEF C!ApplyRules
<1>9. f[0] = C!Unset /\ \A i \in 1..m : f[i] = Step(f[i - 1], i)
  BY <1>1, <1>7
<1> DEFINE S == {i \in Nat : i <= m => f[i] \in Looks /\ BestUpto(f[i], n, i, last)}
<1>10. S = Nat
  <2>1. S \in SUBSET Nat /\ 0 \in S
    BY <1>3, <1>9
  <2>2. ASSUME NEW i \in S PROVE i + 1 \in S
    <3>1. SUFFICES ASSUME i + 1 <= m PROVE f[i + 1] \in Looks /\ BestUpto(f[i + 1], n, i + 1, last)
      OBVIOUS
    <3>2. /\ i \in Nat /\ f[i] \in Looks /\ BestUpto(f[i], n, i, last)
          /\ i + 1 \in 1..m /\ (i + 1) - 1 = i
      BY <1>1, <3>1
    <3>3. PICK k : k = i + 1
      OBVIOUS
    <3>4. f[k] = Step(f[i], k)
      BY <1>9, <3>2, <3>3
    <3>5. k \in 1..Len(rules) /\ BestUpto(f[i], n, k - 1, Len(decls))
      BY <1>1, <1>2, <3>2, <3>3
    <3> QED
      BY <1>2, <3>2, <3>3, <3>4, <3>5, RuleBest
  <2> HIDE DEF S
  <2> QED
    BY <2>1, <2>2, Induct
<1>11. f[m] \in Looks /\ BestUpto(f[m], n, m, last)
  <2>1. m \in S
    BY <1>10
  <2> QED
    BY <2>1
<1>12. \A p : Upto(n, p, m, last) = C!Candidates(n, p)
  <2>1. \A p : \A c \in C!Candidates(n, p) : c[1] \in 1..m /\ c[2] \in 1..last
    BY <1>1, <1>2, CandidateIs
  <2> QED
    BY <1>1, <1>2, <2>1 DEF Upto
<1> QED
  BY <1>8, <1>11, <1>12 DEF BestUpto

(***************************************************************************)
(* What a node has of a property: of its own, else of its parent.          *)
(***************************************************************************)
Given(n, p) ==
  IF C!Candidates(n, p) # {} THEN C!Winner(n, p)
  ELSE IF p \in C!Inherited /\ nodes[n].parent # 0 THEN styles[nodes[n].parent][p] ELSE 0

DocumentInv ==
  /\ nodes \in Seq(Range(nodes))
  /\ \A n \in DOMAIN nodes : nodes[n].parent \in 0..(n - 1) /\ (nodes[n].parent = 0 <=> n = 1)

StylesInv ==
  /\ styles \in Seq([C!Property -> Nat]) /\ Len(styles) <= Len(nodes)
  /\ \A n \in DOMAIN styles : \A p \in C!Property : styles[n][p] = Given(n, p)

CascadeInv == SheetInv /\ DocumentInv /\ StylesInv

\* The strongest candidate is the one that Winner chooses.
LEMMA WinnerIs ==
  ASSUME SheetInv, NEW n, NEW p, NEW c \in C!Candidates(n, p),
         \A d \in C!Candidates(n, p) : C!Stronger(c, d)
  PROVE  C!Winner(n, p) = c[2] /\ c[2] \in Nat
<1> DEFINE cs == C!Candidates(n, p)
<1>1. \A d \in cs : d \in (1..Len(rules)) \X (1..Len(decls))
  BY CandidateIs
<1>2. PICK w : w = CHOOSE c0 \in cs : \A d \in cs : C!Stronger(c0, d)
  OBVIOUS
<1>3. w \in cs /\ \A d \in cs : C!Stronger(w, d)
  <2> HIDE DEF cs
  <2>1. c \in cs /\ \A d \in cs : C!Stronger(c, d)
    BY DEF cs
  <2> QED
    BY <1>2, <2>1
<1>4. w = c
  <2>1. C!Stronger(w, c) /\ C!Stronger(c, w)
    BY <1>3
  <2>2. /\ w \in (1..Len(rules)) \X (1..Len(decls))
        /\ c \in (1..Len(rules)) \X (1..Len(decls))
    BY <1>1, <1>3
  <2> QED
    BY <2>1, <2>2, StrongerOrders
<1>5. C!Winner(n, p) = w[2]
  BY <1>2 DEF C!Winner
<1> QED
  BY <1>1, <1>4, <1>5, SheetTyped

\* cascade_node gives a node what it should have.
LEMMA ComputedIs ==
  ASSUME SheetInv, DocumentInv, NEW n \in DOMAIN nodes, Len(styles) = n - 1,
         styles \in Seq([C!Property -> Nat])
  PROVE  /\ C!Computed(n) \in [C!Property -> Nat]
         /\ \A p \in C!Property : C!Computed(n)[p] = Given(n, p)
<1>1. PICK own : own = IF nodes[n].type = "ELEMENT" THEN C!ApplyRules(nodes[n]) ELSE C!Unset
  OBVIOUS
<1>2. own \in Looks /\ \A p \in C!Property : Strongest(own[p], C!Candidates(n, p))
  <2>1. CASE nodes[n].type = "ELEMENT"
    BY <1>1, <2>1, RulesBest
  <2>2. CASE nodes[n].type # "ELEMENT"
    <3>1. \A p : C!Candidates(n, p) = {}
      BY <2>2, CandidateIs
    <3>2. C!Unset \in Looks /\ \A p \in C!Property : C!Unset[p].value = 0
      BY DEF C!Unset, Looks, Held
    <3> QED
      BY <1>1, <2>2, <3>1, <3>2 DEF Strongest
  <2> QED
    BY <2>1, <2>2
<1>3. C!Computed(n) = [p \in C!Property |->
        IF own[p].value # 0 \/ p \notin C!Inherited \/ nodes[n].parent = 0 THEN own[p].value
        ELSE styles[nodes[n].parent][p]]
  BY <1>1 DEF C!Computed
<1>4. n \in Nat /\ (nodes[n].parent # 0 => nodes[n].parent \in 1..Len(styles))
  BY DEF DocumentInv
<1>5. ASSUME NEW p \in C!Property
      PROVE  C!Computed(n)[p] = Given(n, p) /\ Given(n, p) \in Nat
  <2>1. own[p].value \in Nat
    BY <1>2 DEF Looks, Held
  <2>2. CASE C!Candidates(n, p) = {}
    <3>1. own[p].value = 0
      BY <1>2, <2>2 DEF Strongest
    <3>2. nodes[n].parent # 0 => styles[nodes[n].parent][p] \in Nat
      BY <1>4
    <3> QED
      BY <1>3, <2>2, <3>1, <3>2 DEF Given
  <2>3. CASE C!Candidates(n, p) # {}
    <3>1. PICK c \in C!Candidates(n, p) : /\ \A d \in C!Candidates(n, p) : C!Stronger(c, d)
                                          /\ own[p].value = c[2]
      BY <1>2, <2>3 DEF Strongest
    <3>2. c[2] # 0
      BY CandidateIs, SheetTyped
    <3>3. C!Winner(n, p) = c[2] /\ c[2] \in Nat
      BY <3>1, WinnerIs
    <3> QED
      BY <1>3, <2>3, <3>1, <3>2, <3>3 DEF Given
  <2> QED
    BY <2>2, <2>3
<1> QED
  BY <1>3, <1>5

LEMMA CascadeStep ==
  ASSUME CascadeInv, C!CascadeNode
  PROVE  CascadeInv'
<1> DEFINE n == Len(styles) + 1
<1>1. /\ n \in DOMAIN nodes /\ Len(styles) = n - 1 /\ Len(styles) \in Nat /\ Len(nodes) \in Nat
      /\ styles' = Append(styles, C!Computed(n)) /\ n <= Len(nodes)
      /\ nodes' = nodes /\ rules' = rules /\ decls' = decls
  BY DEF CascadeInv, DocumentInv, StylesInv, C!CascadeNode
<1>2. SheetInv' /\ DocumentInv'
  BY <1>1 DEF CascadeInv, SheetInv, RuleIn, DocumentInv
<1>3. /\ C!Computed(n) \in [C!Property -> Nat]
      /\ \A p \in C!Property : C!Computed(n)[p] = Given(n, p)
  BY <1>1, ComputedIs DEF CascadeInv, StylesInv
<1>4. PICK s \in [C!Property -> Nat] : s = C!Computed(n)
  BY <1>3
<1>5. /\ styles' \in Seq([C!Property -> Nat]) /\ Len(styles') = n /\ DOMAIN styles' = 1..n
      /\ styles'[n] = s /\ \A k \in 1..(n - 1) : styles'[k] = styles[k] /\ k \in DOMAIN styles
  BY <1>1, <1>4 DEF CascadeInv, StylesInv
<1>6. ASSUME NEW k \in 1..n, NEW p \in C!Property PROVE styles'[k][p] = Given(k, p)'
  <2>1. PICK par : par = nodes[k].parent
    OBVIOUS
  <2>2. k \in DOMAIN nodes /\ par \in 0..(k - 1) /\ nodes'[k].parent = par
    BY <1>1, <2>1 DEF CascadeInv, DocumentInv
  <2>3. par # 0 => styles'[par] = styles[par]
    BY <1>1, <1>5, <2>2
  <2>4. PICK cs : cs = C!Candidates(k, p)
    OBVIOUS
  <2>5. PICK w : w = C!Winner(k, p)
    OBVIOUS
  <2>6. C!Candidates(k, p)' = cs /\ C!Winner(k, p)' = w
    <3>1. C!Candidates(k, p)' = cs
      BY <1>1, <2>4 DEF C!Candidates, C!Matches
    <3>2. \A c, d : C!Stronger(c, d)' <=> C!Stronger(c, d)
      BY <1>1 DEF C!Stronger, C!Specificity
    <3>3. C!Winner(k, p)' = (CHOOSE c \in cs : \A d \in cs : C!Stronger(c, d)')[2]
      BY <3>1 DEF C!Winner
    <3> QED
      BY <2>4, <2>5, <3>1, <3>2, <3>3 DEF C!Winner
  <2>7. Given(k, p)' = Given(k, p)
    BY <2>1, <2>2, <2>3, <2>4, <2>5, <2>6 DEF Given
  <2>8. styles'[k][p] = Given(k, p)
    <3>1. CASE k = n
      BY <1>3, <1>4, <1>5, <3>1
    <3>2. CASE k \in 1..(n - 1)
      BY <1>5, <3>2 DEF CascadeInv, StylesInv
    <3> QED
      BY <1>1, <3>1, <3>2
  <2> QED
    BY <2>7, <2>8
<1>7. StylesInv'
  BY <1>1, <1>5, <1>6 DEF StylesInv
<1> QED
  BY <1>2, <1>7 DEF CascadeInv

LEMMA CascadeIs ==
  ASSUME CascadeInv
  PROVE  ComputedIsCascade
<1>1. SUFFICES ASSUME NEW p \in C!Property
               PROVE  LET value[n \in 0..Len(styles)] ==
                            IF n = 0 THEN 0
                            ELSE IF C!Candidates(n, p) # {} THEN C!Winner(n, p)
                            ELSE IF p \in C!Inherited THEN value[nodes[n].parent] ELSE 0
                      IN \A n \in DOMAIN styles : styles[n][p] = value[n]
  BY DEF ComputedIsCascade, C!ComputedIsCascade
<1>2. PICK m \in Nat : m = Len(styles)
  BY DEF CascadeInv, StylesInv
<1> DEFINE Body(g, n) == IF n = 0 THEN 0
                         ELSE IF C!Candidates(n, p) # {} THEN C!Winner(n, p)
                         ELSE IF p \in C!Inherited THEN g[nodes[n].parent] ELSE 0
           Values(g) == g = [n \in 0..m |-> Body(g, n)]
<1>3. /\ DOMAIN styles = 1..m
      /\ \A n \in 1..m : /\ n \in Nat /\ n - 1 \in Nat /\ nodes[n].parent \in 0..(n - 1)
                         /\ styles[n][p] = Given(n, p)
  <2>1. Len(nodes) \in Nat /\ DOMAIN nodes = 1..Len(nodes)
    BY DEF CascadeInv, DocumentInv
  <2>2. DOMAIN styles = 1..m /\ \A n \in 1..m : styles[n][p] = Given(n, p)
    <3>1. DOMAIN styles = 1..m
      BY <1>2 DEF CascadeInv, StylesInv
    <3>2. \A n \in DOMAIN styles : styles[n][p] = Given(n, p)
      BY DEF CascadeInv, StylesInv
    <3> QED
      BY <3>1, <3>2
  <2>3. \A n \in 1..m : n \in DOMAIN nodes
    BY <1>2, <2>1 DEF CascadeInv, StylesInv
  <2>4. \A n \in 1..m : nodes[n].parent \in 0..(n - 1)
    BY <2>3 DEF CascadeInv, DocumentInv
  <2> QED
    BY <1>2, <2>2, <2>4
<1>4. \E g : Values(g)
  <2> DEFINE g == [n \in 0..m |-> IF n = 0 THEN 0 ELSE styles[n][p]]
  <2>1. ASSUME NEW n \in 0..m PROVE g[n] = Body(g, n)
    <3>1. CASE n = 0
      BY <3>1
    <3>2. CASE n # 0
      <4>1. n \in 1..m /\ nodes[n].parent \in 0..m
        BY <1>2, <1>3, <3>2
      <4>2. g[nodes[n].parent] = IF nodes[n].parent = 0 THEN 0 ELSE styles[nodes[n].parent][p]
        BY <4>1
      <4>3. g[n] = Given(n, p)
        BY <1>3, <3>2, <4>1
      <4> HIDE DEF g
      <4> QED
        BY <3>2, <4>2, <4>3 DEF Given
    <3> QED
      BY <3>1, <3>2
  <2>2. g = [n \in 0..m |-> g[n]]
    OBVIOUS
  <2> HIDE DEF Body, g
  <2>3. Values(g)
    BY <2>1, <2>2
  <2> QED
    BY <2>3
<1>5. PICK f : f = CHOOSE g : Values(g)
  OBVIOUS
<1>6. Values(f)
  <2> HIDE DEF Values
  <2> QED
    BY <1>4, <1>5
<1>7. \A n \in 0..m : f[n] = Body(f, n)
  <2> HIDE DEF Body
  <2> QED
    BY <1>6
<1> DEFINE S == {n \in Nat : \A k \in 1..m : k <= n => styles[k][p] = f[k]}
<1>8. S = Nat
  <2>1. 0 \in S /\ S \in SUBSET Nat
    OBVIOUS
  <2>2. ASSUME NEW n \in S PROVE n + 1 \in S
    <3>1. SUFFICES ASSUME n + 1 \in 1..m PROVE styles[n + 1][p] = f[n + 1]
      BY <1>3
    <3>2. PICK k \in 1..m : k = n + 1
      BY <3>1
    <3>3. f[k] = Body(f, k)
      BY <1>3, <1>7
    <3>4. f[0] = 0
      BY <1>2, <1>7
    <3>5. PICK q \in 0..(k - 1) : q = nodes[k].parent
      BY <1>3
    <3>6. q # 0 => styles[q][p] = f[q]
      BY <1>2, <1>3, <2>2, <3>2, <3>5
    <3>7. styles[k][p] = Given(k, p) /\ k # 0
      BY <1>3
    <3> HIDE DEF S, Values
    <3> QED
      BY <3>2, <3>3, <3>4, <3>5, <3>6, <3>7 DEF Given
  <2> HIDE DEF S
  <2> QED
    BY <2>1, <2>2, Induct
<1>9. ASSUME NEW n \in DOMAIN styles PROVE styles[n][p] = f[n]
  <2>1. n \in S /\ n \in 1..m /\ n <= n
    BY <1>3, <1>8
  <2> QED
    BY <2>1
<1>10. f = CHOOSE g : g = [n \in 0..Len(styles) |->
                            IF n = 0 THEN 0
                            ELSE IF C!Candidates(n, p) # {} THEN C!Winner(n, p)
                            ELSE IF p \in C!Inherited THEN g[nodes[n].parent] ELSE 0]
  BY <1>2, <1>5
<1> HIDE DEF S, Values, Body
<1> QED
  BY <1>9, <1>10
-----------------------------------------------------------------------------

(***************************************************************************)
(* The bytes of names and of values, and what keeps them so.               *)
(***************************************************************************)
NameChar == Character \ (Space \cup NameEnd)
ValueChar == Character \ ValueEnd

LEMMA LetterIsName == "a" \in NameChar
<1>1. "a" \in Character
  BY DEF Character, Ident
<1>2. "a" \notin Space
  BY Zenon DEF Space
<1>3. "a" \notin NameEnd
  BY Zenon DEF NameEnd, Semicolon, CloseBrace
<1> QED
  BY <1>1, <1>2, <1>3 DEF NameChar

LEMMA LowerTyped ==
  ASSUME NEW X \in SUBSET Character, "a" \in X, NEW w \in Seq(X)
  PROVE  /\ Lower(w) \in Seq(X) /\ Len(Lower(w)) = Len(w)
         /\ \A i \in 1..Len(w) : Lower(w)[i] = IF w[i] = "A" THEN "a" ELSE w[i]
<1>1. PICK m \in Nat : m = Len(w)
  OBVIOUS
<1>2. w \in [1..m -> X]
  BY <1>1
<1>3. Lower(w) \in [1..m -> X]
  BY <1>2 DEF Lower
<1>4. \A i \in 1..m : Lower(w)[i] = IF w[i] = "A" THEN "a" ELSE w[i]
  BY <1>2 DEF Lower
<1> QED
  BY <1>1, <1>3, <1>4

\* What is interned of a string is a part of its bytes.
LEMMA StoredTyped ==
  ASSUME NEW X, NEW w \in Seq(X)
  PROVE  Stored(w) \in Seq(X)
<1>1. PICK m \in Nat : m = Len(w)
  OBVIOUS
<1>2. PICK Y : Y = Seq(X)
  OBVIOUS
<1> DEFINE Next1(v, i) == IF w[i] \in Dropped THEN v ELSE Append(v, w[i])
           Kept(g) == g = [i \in 0..m |-> IF i = 0 THEN << >>
                                          ELSE IF w[i] \in Dropped THEN g[i - 1] ELSE Append(g[i - 1], w[i])]
           T == [i \in 1..m |-> [v \in Y |-> Next1(v, i)]]
<1>3. ASSUME NEW i \in 1..m, NEW v \in Y PROVE Next1(v, i) \in Y
  <2>1. w[i] \in X /\ v \in Seq(X)
    BY <1>1, <1>2
  <2>2. Append(v, w[i]) \in Seq(X)
    BY <2>1
  <2> QED
    BY <1>2, <2>2
<1>4. PICK none \in Y : none = << >>
  <2>1. << >> \in Seq(X)
    OBVIOUS
  <2> QED
    BY <1>2, <2>1
<1>5. PICK f \in [0..m -> Y] : f[0] = none /\ \A i \in 1..m : f[i] = Next1(f[i - 1], i)
  <2> HIDE DEF Next1
  <2>1. T \in [1..m -> [Y -> Y]]
    BY <1>3
  <2>2. PICK f \in [0..m -> Y] : f[0] = none /\ \A i \in 1..m : f[i] = T[i][f[i - 1]]
    <3> HIDE DEF T
    <3> QED
      BY <2>1, Iterates
  <2>3. ASSUME NEW i \in 1..m PROVE f[i] = Next1(f[i - 1], i)
    <3>1. f[i - 1] \in Y
      BY <1>1, <2>2
    <3> QED
      BY <2>2, <3>1
  <2> QED
    BY <2>2, <2>3
<1>6. Kept(f)
  <2>1. ASSUME NEW i \in 0..m
        PROVE  f[i] = IF i = 0 THEN << >>
                      ELSE IF w[i] \in Dropped THEN f[i - 1] ELSE Append(f[i - 1], w[i])
    <3>1. CASE i = 0
      BY <1>4, <1>5, <3>1
    <3>2. CASE i \in 1..m
      <4>1. i # 0
        BY <1>1, <3>2
      <4>2. f[i] = Next1(f[i - 1], i)
        <5> HIDE DEF Next1
        <5> QED
          BY <1>5, <3>2
      <4> QED
        BY <4>1, <4>2
    <3> QED
      BY <1>1, <3>1, <3>2
  <2>2. f = [i \in 0..m |-> f[i]]
    BY <1>5
  <2> QED
    BY <2>1, <2>2
<1>7. PICK h : h = CHOOSE g : Kept(g)
  OBVIOUS
<1>8. Kept(h)
  <2> HIDE DEF Kept
  <2> QED
    BY <1>6, <1>7
<1>9. Stored(w) = h[m]
  BY <1>1, <1>7 DEF Stored
<1>10. h[0] = none /\ \A i \in 1..m : h[i] = Next1(h[i - 1], i)
  <2>1. ASSUME NEW i \in 0..m
        PROVE  h[i] = IF i = 0 THEN << >>
                      ELSE IF w[i] \in Dropped THEN h[i - 1] ELSE Append(h[i - 1], w[i])
    BY <1>8
  <2>2. ASSUME NEW i \in 1..m PROVE i \in 0..m /\ i # 0
    BY <1>1
  <2>3. 0 \in 0..m
    BY <1>1
  <2> QED
    BY <1>4, <2>1, <2>2, <2>3
<1> DEFINE S == {i \in Nat : i <= m => h[i] \in Y}
<1>11. S = Nat
  <2> HIDE DEF Next1, Kept
  <2>1. S \in SUBSET Nat /\ 0 \in S
    BY <1>4, <1>10
  <2>2. ASSUME NEW i \in S PROVE i + 1 \in S
    <3>1. SUFFICES ASSUME i + 1 <= m PROVE h[i + 1] \in Y
      OBVIOUS
    <3>2. i \in Nat /\ i <= m /\ i + 1 \in 1..m /\ (i + 1) - 1 = i
      BY <1>1, <3>1
    <3>3. h[i] \in Y
      BY <3>2
    <3>4. h[i + 1] = Next1(h[i], i + 1)
      BY <1>10, <3>2
    <3> QED
      BY <1>3, <3>2, <3>3, <3>4
  <2> HIDE DEF S
  <2> QED
    BY <2>1, <2>2, Induct
<1> QED
  <2>1. m \in S
    BY <1>11
  <2>2. h[m] \in Y
    BY <2>1
  <2> QED
    BY <1>2, <1>9, <2>2

LEMMA PartTyped ==
  ASSUME NEW X, NEW w \in Seq(X), NEW a \in Int, NEW b \in Int, a >= 1, b <= Len(w)
  PROVE  SubSeq(w, a, b) \in Seq(X)
OBVIOUS

LEMMA TrimTyped ==
  ASSUME NEW X, NEW w \in Seq(X)
  PROVE  Trim(w) \in Seq(X)
<1> DEFINE ink == {i \in DOMAIN w : w[i] \notin Space}
<1>1. CASE ink = {}
  BY <1>1 DEF Trim
<1>2. CASE ink # {}
  <2>1. ink \in SUBSET Nat /\ Len(w) \in Nat /\ \A i \in ink : i \in 1..Len(w)
    OBVIOUS
  <2> HIDE DEF ink
  <2>2. Min(ink) \in ink
    <3>1. \E i \in ink : \A k \in ink : i <= k
      BY <1>2, <2>1, Smallest
    <3> QED
      BY <3>1 DEF Min
  <2>3. Max(ink) \in ink
    <3>1. \E i \in ink : \A k \in ink : i >= k
      <4>1. PICK b \in Nat : b = Len(w)
        BY <2>1
      <4>2. \A i \in ink : i <= b
        BY <2>1, <4>1
      <4>3. PICK i \in ink : \A k \in ink : k <= i
        BY <1>2, <2>1, <4>2, Greatest
      <4> QED
        BY <2>1, <4>3
    <3> QED
      BY <3>1 DEF Max
  <2>4. Trim(w) = SubSeq(w, Min(ink), Max(ink))
    BY <1>2 DEF Trim, ink
  <2>5. PICK a \in Nat : a = Min(ink) /\ a \in 1..Len(w)
    BY <2>1, <2>2
  <2>6. PICK b \in Nat : b = Max(ink) /\ b \in 1..Len(w)
    BY <2>1, <2>3
  <2>7. SubSeq(w, a, b) \in Seq(X)
    BY <2>5, <2>6, PartTyped
  <2> QED
    BY <2>4, <2>5, <2>6, <2>7
<1> QED
  BY <1>1, <1>2

\* One string begins another, byte for byte.
LEMMA PrefixIs ==
  ASSUME NEW X, NEW s \in Seq(X), NEW t \in Seq(X)
  PROVE  IsPrefix(s, t) <=> Len(s) <= Len(t) /\ \A i \in 1..Len(s) : s[i] = t[i]
<1>1. Len(s) \in Nat /\ Len(t) \in Nat
  OBVIOUS
<1>2. CASE Len(s) <= Len(t)
  <2>1. PICK u : u = SubSeq(t, 1, Len(s))
    OBVIOUS
  <2>2. u \in Seq(X) /\ Len(u) = Len(s) /\ \A i \in 1..Len(s) : u[i] = t[i]
    BY <1>1, <1>2, <2>1
  <2>3. SubSeq(s, 1, Len(s)) = s
    OBVIOUS
  <2>4. s = u <=> \A i \in 1..Len(s) : s[i] = u[i]
    BY <2>2
  <2> QED
    BY <1>2, <2>1, <2>2, <2>3, <2>4 DEF IsPrefix
<1>3. CASE ~(Len(s) <= Len(t))
  BY <1>3 DEF IsPrefix
<1> QED
  BY <1>2, <1>3

\* The entries of a selector list are strings.
LEMMA EntriesTyped ==
  ASSUME NEW X
  PROVE  \A w \in Seq(X) : Entries(w) \in Seq(Seq(X))
<1>w. SUFFICES ASSUME NEW w, w \in Seq(X) PROVE Entries(w) \in Seq(Seq(X))
  OBVIOUS
<1>1. PICK m \in Nat : m = Len(w)
  BY <1>w
<1>2. PICK Y : Y = {v \in Seq(Seq(X)) : v # << >>}
  OBVIOUS
<1> DEFINE Next1(v, i) == IF w[i] = Comma THEN Append(v, << >>) ELSE [v EXCEPT ![Len(v)] = Append(@, w[i])]
           Parted(g) == g = [i \in 0..m |->
                               IF i = 0 THEN <<<< >>>>
                               ELSE IF w[i] = Comma THEN Append(g[i - 1], << >>)
                               ELSE [g[i - 1] EXCEPT ![Len(g[i - 1])] = Append(@, w[i])]]
           T == [i \in 1..m |-> [v \in Y |-> Next1(v, i)]]
<1>e. << >> \in Seq(X)
  OBVIOUS
<1>3. ASSUME NEW i \in 1..m, NEW v \in Y PROVE Next1(v, i) \in Y
  <2>1. w[i] \in X /\ v \in Seq(Seq(X)) /\ v # << >>
    BY <1>w, <1>1, <1>2
  <2>2. PICK k \in Nat : k = Len(v) /\ k >= 1
    BY <2>1
  <2>3. v[k] \in Seq(X)
    BY <2>1, <2>2
  <2>4. PICK b \in Seq(X) : b = Append(v[k], w[i])
    <3>1. v[k] \in Seq(X)
      BY <2>3
    <3>2. Append(v[k], w[i]) \in Seq(X)
      BY <2>1, <3>1
    <3> QED
      BY <3>2
  <2>5. PICK none \in Seq(X) : none = << >>
    BY <1>e
  <2>6. Append(v, none) \in Seq(Seq(X)) /\ Append(v, none) # << >>
    BY <2>1
  <2>7. [v EXCEPT ![k] = b] \in Seq(Seq(X)) /\ [v EXCEPT ![k] = b] # << >>
    BY <2>1, <2>2
  <2>8. Next1(v, i) = Append(v, none) \/ Next1(v, i) = [v EXCEPT ![k] = b]
    BY <2>2, <2>4, <2>5
  <2> QED
    BY <1>2, <2>6, <2>7, <2>8
<1>4. PICK first \in Y : first = <<<< >>>>
  <2>1. PICK none \in Seq(X) : none = << >>
    BY <1>e
  <2>2. <<none>> \in Seq(Seq(X)) /\ <<none>> # << >>
    OBVIOUS
  <2> QED
    BY <1>2, <2>1, <2>2
<1>5. PICK f \in [0..m -> Y] : f[0] = first /\ \A i \in 1..m : f[i] = Next1(f[i - 1], i)
  <2> HIDE DEF Next1
  <2>1. T \in [1..m -> [Y -> Y]]
    BY <1>3
  <2>2. PICK f \in [0..m -> Y] : f[0] = first /\ \A i \in 1..m : f[i] = T[i][f[i - 1]]
    <3> HIDE DEF T, Parted
    <3> QED
      BY <2>1, Iterates
  <2>3. ASSUME NEW i \in 1..m PROVE f[i] = Next1(f[i - 1], i)
    <3>1. f[i - 1] \in Y
      BY <1>1, <2>2
    <3> QED
      BY <2>2, <3>1
  <2> QED
    BY <2>2, <2>3
<1>6. Parted(f)
  <2>1. ASSUME NEW i \in 0..m PROVE f[i] = IF i = 0 THEN <<<< >>>> ELSE Next1(f[i - 1], i)
    <3> HIDE DEF Next1
    <3>1. CASE i = 0
      BY <1>4, <1>5, <3>1
    <3>2. CASE i \in 1..m
      BY <1>1, <1>5, <3>2
    <3> QED
      BY <1>1, <3>1, <3>2
  <2>2. f = [i \in 0..m |-> f[i]]
    BY <1>5
  <2>3. f = [i \in 0..m |-> IF i = 0 THEN <<<< >>>> ELSE Next1(f[i - 1], i)]
    <3> HIDE DEF Next1
    <3> QED
      BY <2>1, <2>2
  <2> QED
    BY <2>3
<1>7. PICK h : h = CHOOSE g : Parted(g)
  OBVIOUS
<1>8. Parted(h)
  <2> HIDE DEF Parted
  <2> QED
    BY <1>6, <1>7
<1>9. Entries(w) = h[m]
  BY <1>1, <1>7 DEF Entries
<1>10. h[0] = first /\ \A i \in 1..m : h[i] = Next1(h[i - 1], i)
  <2>1. h = [i \in 0..m |-> IF i = 0 THEN <<<< >>>> ELSE Next1(h[i - 1], i)]
    BY <1>8
  <2> HIDE DEF Next1, Parted
  <2>2. \A i \in 0..m : h[i] = IF i = 0 THEN <<<< >>>> ELSE Next1(h[i - 1], i)
    BY <2>1
  <2>3. 0 \in 0..m /\ \A i \in 1..m : i \in 0..m /\ i # 0
    BY <1>1
  <2> QED
    BY <1>4, <2>2, <2>3
<1> DEFINE S == {i \in Nat : i <= m => h[i] \in Y}
<1>11. S = Nat
  <2> HIDE DEF Next1, Parted
  <2>1. S \in SUBSET Nat /\ 0 \in S
    BY <1>4, <1>10
  <2>2. ASSUME NEW i \in S PROVE i + 1 \in S
    <3>1. SUFFICES ASSUME i + 1 <= m PROVE h[i + 1] \in Y
      OBVIOUS
    <3>2. i \in Nat /\ i <= m /\ i + 1 \in 1..m /\ (i + 1) - 1 = i
      BY <1>1, <3>1
    <3>3. h[i] \in Y
      BY <3>2
    <3>4. h[i + 1] = Next1(h[i], i + 1)
      BY <1>10, <3>2
    <3> QED
      BY <1>3, <3>2, <3>3, <3>4
  <2> HIDE DEF S
  <2> QED
    BY <2>1, <2>2, Induct
<1> QED
  <2>1. m \in S
    BY <1>11
  <2>2. h[m] \in Y
    BY <2>1
  <2> QED
    BY <1>2, <1>9, <2>2

LEMMA SelectorTyped ==
  ASSUME NEW w \in Seq(Character), Kind(w) # "none"
  PROVE  Kind(w) \in Kinds /\ SelectorName(w) \in Seq(Character)
<1>1. Kind(w) \in Kinds
  BY DEF Kind, Kinds
<1>2. CASE Kind(w) = "universal"
  <2>1. SelectorName(w) = << >>
    BY <1>2 DEF SelectorName
  <2>2. << >> \in Seq(Character)
    OBVIOUS
  <2> QED
    BY <1>1, <2>1, <2>2
<1>3. CASE Kind(w) = "type"
  <2>1. Lower(w) \in Seq(Character)
    <3>1. w \in Seq(Character) /\ "a" \in Character
      BY LetterIsName DEF NameChar
    <3>2. Character \in SUBSET Character
      OBVIOUS
    <3> QED
      BY <3>1, <3>2, LowerTyped
  <2>2. SelectorName(w) = Lower(w)
    BY <1>3 DEF SelectorName
  <2> QED
    BY <1>1, <2>1, <2>2
<1>4. CASE Kind(w) \notin {"universal", "type"}
  <2>1. w # << >>
    BY <1>4 DEF Kind, AllIdent
  <2>2. w \in Seq(Character)
    OBVIOUS
  <2>3. Tail(w) \in Seq(Character)
    BY <2>1, <2>2
  <2>4. SelectorName(w) = Tail(w)
    BY <1>4 DEF SelectorName
  <2> QED
    BY <1>1, <2>3, <2>4
<1> QED
  BY <1>1, <1>2, <1>3, <1>4

(***************************************************************************)
(* The pools of a sheet.                                                   *)
(***************************************************************************)
Code == {"AT_RULE_SKIPPED", "SELECTOR_SKIPPED", "DECL_SKIPPED", "UNCLOSED_BLOCK", "UNCLOSED_COMMENT",
         "INPUT_TRUNCATED", "STRING_BUDGET", "DECL_BUDGET", "RULE_BUDGET"}

RuleRec == [kind : Kinds, name : Seq(Character), decl_start : Nat, decl_count : Nat, of : Nat]
DeclRec == [prop : Seq(NameChar), value : Seq(ValueChar), of : Nat]
SheetRec == [rules : Seq(RuleRec), decls : Seq(DeclRec), string_len : Nat, decl_start : Nat,
             truncated : BOOLEAN, warnings : SUBSET Code, bounded : BOOLEAN]

InBudget(s) ==
  s.bounded => /\ Len(s.rules) <= MaxRules /\ Len(s.decls) <= MaxDecls
               /\ s.string_len <= Arena

Pools(s) == s \in SheetRec /\ InBudget(s)

\* Only the strings, the marks and the warnings are others.
Alike(t, s) ==
  /\ t.rules = s.rules /\ t.decls = s.decls
  /\ t.decl_start = s.decl_start /\ t.bounded = s.bounded

LEMMA WarnIs ==
  ASSUME NEW s, Pools(s), NEW c \in Code
  PROVE  /\ Pools(Warn(s, c)) /\ Alike(Warn(s, c), s)
         /\ Warn(s, c).string_len = s.string_len /\ Warn(s, c).truncated = s.truncated
         /\ Warn(s, c).warnings = s.warnings \cup {c}
<1>1. s \in SheetRec
  BY DEF Pools
<1>2. s.warnings \cup {c} \in SUBSET Code
  BY <1>1 DEF SheetRec
<1>3. PICK ws \in SUBSET Code : ws = s.warnings \cup {c}
  BY <1>2
<1>4. Warn(s, c) = [s EXCEPT !.warnings = ws]
  BY <1>3 DEF Warn
<1>5. Warn(s, c) \in SheetRec
  BY <1>1, <1>4 DEF SheetRec
<1>6. Alike(Warn(s, c), s) /\ Warn(s, c).string_len = s.string_len
      /\ Warn(s, c).truncated = s.truncated /\ Warn(s, c).warnings = ws
  BY <1>1, <1>4 DEF SheetRec, Alike
<1> QED
  BY <1>3, <1>5, <1>6 DEF Pools, InBudget, Alike

LEMMA OverBudgetIs ==
  ASSUME NEW s, Pools(s), NEW c \in Code
  PROVE  /\ Pools(OverBudget(s, c)) /\ Alike(OverBudget(s, c), s)
         /\ OverBudget(s, c).string_len = s.string_len /\ OverBudget(s, c).truncated
         /\ OverBudget(s, c).warnings = s.warnings \cup {c}
<1>1. PICK w : w = Warn(s, c)
  OBVIOUS
<1>2. /\ Pools(w) /\ Alike(w, s) /\ w.string_len = s.string_len
      /\ w.warnings = s.warnings \cup {c}
  BY <1>1, WarnIs
<1>3. PICK t : t = [w EXCEPT !.truncated = TRUE]
  OBVIOUS
<1>4. w \in SheetRec
  BY <1>2 DEF Pools
<1>5. t \in SheetRec
  BY <1>3, <1>4 DEF SheetRec
<1>6. Alike(t, w) /\ t.string_len = w.string_len /\ t.warnings = w.warnings /\ t.truncated
  BY <1>3, <1>4 DEF SheetRec, Alike
<1>7. OverBudget(s, c) = t
  BY <1>1, <1>3 DEF OverBudget
<1> QED
  BY <1>2, <1>5, <1>6, <1>7 DEF Pools, InBudget, Alike

\* css_intern cuts a string short only where the arena ends, and says so.
LEMMA InternIs ==
  ASSUME NEW s, Pools(s), NEW X, NEW w \in Seq(X)
  PROVE  /\ Stored(w) \in Seq(X) /\ Interned(s, w) \in Seq(X)
         /\ Pools(Intern(s, w)) /\ Alike(Intern(s, w), s)
         /\ s.string_len <= Intern(s, w).string_len
         /\ Intern(s, w).string_len = s.string_len + Len(Interned(s, w))
         /\ s.warnings \subseteq Intern(s, w).warnings
         /\ s.truncated => Intern(s, w).truncated
         /\ Len(Interned(s, w)) <= Len(Stored(w))
         /\ \A i \in 1..Len(Interned(s, w)) : Interned(s, w)[i] = Stored(w)[i]
         /\ Fits(s, w) => /\ Interned(s, w) = Stored(w)
                          /\ Intern(s, w).truncated = s.truncated
                          /\ Intern(s, w).warnings = s.warnings
         /\ ~Fits(s, w) => /\ Intern(s, w).truncated
                           /\ "STRING_BUDGET" \in Intern(s, w).warnings
                           /\ s.bounded /\ Intern(s, w).string_len = Arena
         /\ ~s.bounded => Fits(s, w)
<1>1. PICK v \in Seq(X) : v = Stored(w)
  BY StoredTyped
<1>2. s \in SheetRec /\ s.string_len \in Nat /\ Arena \in Nat
  BY CssConstants DEF Pools, SheetRec
<1>3. PICK u : u = Interned(s, w)
  OBVIOUS
<1>4. /\ u \in Seq(X) /\ Len(u) <= Len(v) /\ \A i \in 1..Len(u) : u[i] = v[i]
      /\ Fits(s, w) => u = v
      /\ ~Fits(s, w) => s.bounded /\ Len(u) = Arena - s.string_len
  <2>1. CASE Fits(s, w)
    BY <1>1, <1>3, <2>1 DEF Interned
  <2>2. CASE ~Fits(s, w)
    <3>1. s.bounded /\ Len(v) > Arena - s.string_len /\ s.string_len <= Arena
      BY <1>1, <1>2, <2>2 DEF Fits, Room, Pools, InBudget
    <3>2. PICK r \in Nat : r = Arena - s.string_len
      BY <1>2, <3>1
    <3>3. u = SubSeq(v, 1, r)
      BY <1>1, <1>3, <2>2, <3>2 DEF Interned, Room
    <3>4. r < Len(v)
      BY <3>1, <3>2
    <3> QED
      BY <2>2, <3>1, <3>2, <3>3, <3>4
  <2> QED
    BY <2>1, <2>2
<1>5. PICK n \in Nat : n = s.string_len + Len(u)
  BY <1>2, <1>4
<1>6. PICK t : t = [s EXCEPT !.string_len = n]
  OBVIOUS
<1>7. /\ t \in SheetRec /\ Alike(t, s) /\ t.string_len = n /\ t.truncated = s.truncated
      /\ t.warnings = s.warnings
  BY <1>2, <1>6 DEF SheetRec, Alike
<1>8. s.bounded => n <= Arena
  <2>1. CASE Fits(s, w)
    BY <1>1, <1>2, <1>4, <1>5, <2>1 DEF Fits, Room
  <2>2. CASE ~Fits(s, w)
    BY <1>2, <1>4, <1>5, <2>2
  <2> QED
    BY <2>1, <2>2
<1>9. Pools(t)
  BY <1>7, <1>8 DEF Pools, InBudget, Alike
<1>10. Intern(s, w) = IF Fits(s, w) THEN t ELSE OverBudget(t, "STRING_BUDGET")
  BY <1>3, <1>5, <1>6 DEF Intern
<1>11. s.string_len <= n
  BY <1>2, <1>4, <1>5
<1>12. ~s.bounded => Fits(s, w)
  BY DEF Fits
<1>13. CASE Fits(s, w)
  BY <1>1, <1>3, <1>4, <1>5, <1>7, <1>9, <1>10, <1>11, <1>13
<1>14. CASE ~Fits(s, w)
  <2>1. PICK o : o = OverBudget(t, "STRING_BUDGET")
    OBVIOUS
  <2>2. /\ Pools(o) /\ Alike(o, t) /\ o.string_len = n /\ o.truncated
        /\ o.warnings = s.warnings \cup {"STRING_BUDGET"}
    <3>1. PICK c \in Code : c = "STRING_BUDGET"
      BY DEF Code
    <3>2. /\ Pools(OverBudget(t, c)) /\ Alike(OverBudget(t, c), t)
          /\ OverBudget(t, c).string_len = t.string_len /\ OverBudget(t, c).truncated
          /\ OverBudget(t, c).warnings = t.warnings \cup {c}
      BY <1>9, OverBudgetIs
    <3> QED
      BY <1>7, <2>1, <3>1, <3>2
  <2>3. n = Arena
    BY <1>2, <1>4, <1>5, <1>14
  <2>4. Alike(o, s)
    BY <1>7, <2>2 DEF Alike
  <2>5. Intern(s, w) = o
    BY <1>10, <1>14, <2>1
  <2> QED
    BY <1>1, <1>3, <1>4, <1>5, <1>11, <1>14, <2>2, <2>3, <2>4, <2>5
<1> QED
  BY <1>13, <1>14

\* What both have, the sheet and the one without end.
Begins(u, v) == Len(u) <= Len(v) /\ \A i \in 1..Len(u) : u[i] = v[i]

Grown(t, s) ==
  /\ s.string_len <= t.string_len /\ s.warnings \subseteq t.warnings /\ (s.truncated => t.truncated)
  /\ t.decl_start = s.decl_start /\ t.bounded = s.bounded

\* Nothing was lost on the way.
Lossless(t, s) == ~t.truncated \/ ~s.bounded

DeclWanted(prop, value) == Stored(prop) # << >> /\ Stored(value) # << >>
WholeDecl(prop, value) == [prop |-> Lower(Stored(prop)), value |-> Stored(value), of |-> block]

DeclAdded(s, t, prop, value) ==
  /\ Pools(t) /\ Grown(t, s) /\ t.rules = s.rules
  /\ \/ /\ t.decls = s.decls
        /\ DeclWanted(prop, value) =>
             s.bounded /\ (Len(s.decls) = MaxDecls \/ t.string_len = Arena)
     \/ \E d \in DeclRec :
          /\ DeclWanted(prop, value) /\ t.decls = Append(s.decls, d) /\ d.of = block
          /\ s.string_len < t.string_len
          /\ Begins(d.prop, Lower(Stored(prop))) /\ Begins(d.value, Stored(value))
          /\ "STRING_BUDGET" \notin t.warnings => d = WholeDecl(prop, value)
  /\ Lossless(t, s) =>
       /\ t.truncated = s.truncated
       /\ t.warnings = s.warnings \cup (IF DeclWanted(prop, value) THEN {} ELSE {"DECL_SKIPPED"})
       /\ t.decls = IF DeclWanted(prop, value) THEN Append(s.decls, WholeDecl(prop, value)) ELSE s.decls

LEMMA LowerBegins ==
  ASSUME NEW X \in SUBSET Character, "a" \in X, NEW u \in Seq(X), NEW v \in Seq(X), Begins(u, v)
  PROVE  Begins(Lower(u), Lower(v))
<1>1. /\ Len(Lower(u)) = Len(u) /\ Len(Lower(v)) = Len(v) /\ Len(u) \in Nat /\ Len(v) \in Nat
      /\ \A i \in 1..Len(u) : Lower(u)[i] = IF u[i] = "A" THEN "a" ELSE u[i]
      /\ \A i \in 1..Len(v) : Lower(v)[i] = IF v[i] = "A" THEN "a" ELSE v[i]
  BY LowerTyped
<1> QED
  BY <1>1 DEF Begins

LEMMA AddDeclIs ==
  ASSUME NEW s, Pools(s), block \in Nat, NEW prop \in Seq(NameChar), NEW value \in Seq(ValueChar)
  PROVE  DeclAdded(s, AddDecl(s, prop, value), prop, value)
<1> DEFINE full == s.bounded /\ Len(s.decls) >= MaxDecls
<1>1. PICK a : a = Intern(s, prop)
  OBVIOUS
<1>2. PICK b : b = Intern(a, value)
  OBVIOUS
<1>3. PICK u : u = Interned(s, prop)
  OBVIOUS
<1>4. PICK v : v = Interned(a, value)
  OBVIOUS
<1>5. PICK su : su = Stored(prop)
  OBVIOUS
<1>6. PICK sv : sv = Stored(value)
  OBVIOUS
<1>7. /\ su \in Seq(NameChar) /\ u \in Seq(NameChar) /\ Pools(a) /\ Alike(a, s)
      /\ a.string_len = s.string_len + Len(u)
      /\ s.string_len <= a.string_len /\ s.warnings \subseteq a.warnings /\ (s.truncated => a.truncated)
      /\ Begins(u, su)
      /\ Fits(s, prop) => u = su /\ a.truncated = s.truncated /\ a.warnings = s.warnings
      /\ ~Fits(s, prop) => /\ a.truncated /\ "STRING_BUDGET" \in a.warnings
                           /\ s.bounded /\ a.string_len = Arena
      /\ ~s.bounded => Fits(s, prop)
  BY <1>1, <1>3, <1>5, InternIs DEF Begins
<1>8. /\ sv \in Seq(ValueChar) /\ v \in Seq(ValueChar) /\ Pools(b) /\ Alike(b, a)
      /\ a.string_len <= b.string_len /\ a.warnings \subseteq b.warnings /\ (a.truncated => b.truncated)
      /\ Begins(v, sv)
      /\ Fits(a, value) => v = sv /\ b.truncated = a.truncated /\ b.warnings = a.warnings
      /\ ~Fits(a, value) => /\ b.truncated /\ "STRING_BUDGET" \in b.warnings
                            /\ a.bounded /\ b.string_len = Arena
      /\ ~a.bounded => Fits(a, value)
  <2>1. Pools(a)
    BY <1>7
  <2> QED
    BY <1>2, <1>4, <1>6, <2>1, InternIs DEF Begins
<1>9. NameChar \in SUBSET Character /\ "a" \in NameChar
  BY LetterIsName DEF NameChar
<1>10. /\ Lower(u) \in Seq(NameChar) /\ Len(Lower(u)) = Len(u) /\ Begins(Lower(u), Lower(su))
       /\ Lower(su) \in Seq(NameChar)
  BY <1>7, <1>9, LowerTyped, LowerBegins
<1>11. Lower(u) = << >> <=> u = << >>
  BY <1>7, <1>10
<1>12. /\ Alike(b, s) /\ s.warnings \subseteq b.warnings /\ (s.truncated => b.truncated)
       /\ s.string_len <= b.string_len /\ s \in SheetRec /\ b \in SheetRec
       /\ a.string_len \in Nat /\ s.string_len \in Nat /\ b.string_len \in Nat /\ Arena \in Nat
       /\ b.bounded => b.string_len <= Arena
  BY <1>7, <1>8, CssConstants DEF Alike, Pools, SheetRec, InBudget
<1>13. PICK d : d = [prop |-> Lower(u), value |-> v, of |-> block]
  OBVIOUS
<1>14. d \in DeclRec /\ d.of = block /\ d.prop = Lower(u) /\ d.value = v
  BY <1>8, <1>10, <1>13 DEF DeclRec
<1>15. DeclWanted(prop, value) <=> su # << >> /\ sv # << >>
  BY <1>5, <1>6 DEF DeclWanted
<1>16. Fits(s, prop) /\ Fits(a, value) => d = WholeDecl(prop, value)
  BY <1>5, <1>6, <1>7, <1>8, <1>13 DEF WholeDecl
<1>17. AddDecl(s, prop, value) =
         IF full THEN OverBudget(s, "DECL_BUDGET")
         ELSE IF Lower(u) = << >> \/ v = << >> THEN Warn(b, "DECL_SKIPPED")
         ELSE [b EXCEPT !.decls = Append(@, d)]
  BY <1>1, <1>2, <1>3, <1>4, <1>13 DEF AddDecl
<1> HIDE DEF full
<1>18. CASE full
  <2>1. PICK o : o = OverBudget(s, "DECL_BUDGET")
    OBVIOUS
  <2>2. /\ Pools(o) /\ Alike(o, s) /\ o.string_len = s.string_len /\ o.truncated
        /\ o.warnings = s.warnings \cup {"DECL_BUDGET"}
    <3>1. PICK c \in Code : c = "DECL_BUDGET"
      BY DEF Code
    <3> QED
      BY <2>1, <3>1, OverBudgetIs
  <2>3. s.bounded /\ Len(s.decls) = MaxDecls
    <3>1. Len(s.decls) \in Nat /\ MaxDecls \in Nat
      BY CssConstants DEF Pools, SheetRec
    <3> QED
      BY <1>18, <3>1 DEF full, Pools, InBudget
  <2>4. Grown(o, s) /\ ~Lossless(o, s)
    BY <1>12, <2>2, <2>3 DEF Grown, Lossless, Alike
  <2>5. DeclAdded(s, o, prop, value)
    BY <2>2, <2>3, <2>4 DEF DeclAdded, Alike
  <2> QED
    BY <1>17, <1>18, <2>1, <2>5
<1>19. CASE ~full /\ (Lower(u) = << >> \/ v = << >>)
  <2>1. PICK o : o = Warn(b, "DECL_SKIPPED")
    OBVIOUS
  <2>2. /\ Pools(o) /\ Alike(o, b) /\ o.string_len = b.string_len /\ o.truncated = b.truncated
        /\ o.warnings = b.warnings \cup {"DECL_SKIPPED"}
    <3>1. PICK c \in Code : c = "DECL_SKIPPED"
      BY DEF Code
    <3> QED
      BY <1>8, <2>1, <3>1, WarnIs
  <2>3. Grown(o, s) /\ Alike(o, s)
    BY <1>12, <2>2 DEF Grown, Alike
  <2>4. DeclWanted(prop, value) => s.bounded /\ o.string_len = Arena
    <3>1. SUFFICES ASSUME DeclWanted(prop, value) PROVE s.bounded /\ b.string_len = Arena
      BY <2>2
    <3>2. u = << >> \/ v = << >>
      BY <1>11, <1>19
    <3>3. ~Fits(s, prop) \/ ~Fits(a, value)
      BY <1>7, <1>8, <1>15, <3>1, <3>2
    <3> QED
      BY <1>7, <1>8, <1>12, <3>3 DEF Alike
  <2>5. ASSUME Lossless(o, s)
        PROVE  /\ o.truncated = s.truncated /\ ~DeclWanted(prop, value)
               /\ o.warnings = s.warnings \cup {"DECL_SKIPPED"} /\ o.decls = s.decls
    <3>1. Fits(s, prop) /\ Fits(a, value)
      BY <1>7, <1>8, <2>2, <2>5 DEF Lossless, Alike
    <3>2. ~DeclWanted(prop, value)
      BY <1>7, <1>8, <1>11, <1>15, <1>19, <3>1
    <3> QED
      BY <1>7, <1>8, <2>2, <2>3, <3>1, <3>2 DEF Alike
  <2>6. DeclAdded(s, o, prop, value)
    BY <2>2, <2>3, <2>4, <2>5 DEF DeclAdded, Alike
  <2> QED
    BY <1>17, <1>19, <2>1, <2>6
<1>20. CASE ~full /\ Lower(u) # << >> /\ v # << >>
  <2>1. PICK ds \in Seq(DeclRec) : ds = Append(b.decls, d)
    <3>1. b.decls \in Seq(DeclRec)
      BY <1>12 DEF SheetRec
    <3>2. PICK bd \in Seq(DeclRec) : bd = b.decls
      BY <3>1
    <3>3. d \in DeclRec
      BY <1>14
    <3>4. Append(bd, d) \in Seq(DeclRec)
      BY <3>3
    <3> QED
      BY <3>2, <3>4
  <2>2. PICK o : o = [b EXCEPT !.decls = ds]
    OBVIOUS
  <2>3. /\ o \in SheetRec /\ o.decls = ds /\ o.rules = b.rules /\ o.string_len = b.string_len
        /\ o.truncated = b.truncated /\ o.warnings = b.warnings /\ o.bounded = b.bounded
        /\ o.decl_start = b.decl_start
    BY <1>12, <2>2 DEF SheetRec
  <2>4. InBudget(o)
    <3>1. s.bounded => Len(ds) <= MaxDecls
      <4>1. b.decls \in Seq(DeclRec) /\ b.decls = s.decls /\ MaxDecls \in Nat
        BY <1>12, CssConstants DEF SheetRec, Alike
      <4>2. Len(ds) = Len(s.decls) + 1 /\ Len(s.decls) \in Nat
        BY <1>14, <2>1, <4>1
      <4> QED
        BY <1>20, <4>1, <4>2 DEF full
    <3> QED
      BY <1>8, <1>12, <2>3, <3>1 DEF InBudget, Pools, Alike
  <2>5. Grown(o, s) /\ o.rules = s.rules /\ ds = Append(s.decls, d)
    BY <1>12, <2>1, <2>3 DEF Grown, Alike
  <2>6. DeclWanted(prop, value)
    <3>1. u # << >> /\ v # << >>
      BY <1>11, <1>20
    <3> QED
      BY <1>7, <1>8, <1>15, <3>1 DEF Begins
  <2>12. s.string_len < o.string_len
    <3>1. Len(u) \in Nat /\ Len(u) # 0
      BY <1>7, <1>11, <1>20
    <3> QED
      BY <1>7, <1>8, <1>12, <2>3, <3>1
  <2>7. "STRING_BUDGET" \notin o.warnings => d = WholeDecl(prop, value)
    BY <1>7, <1>8, <1>16, <2>3
  <2>8. ASSUME Lossless(o, s)
        PROVE  /\ o.truncated = s.truncated /\ o.warnings = s.warnings
               /\ o.decls = Append(s.decls, WholeDecl(prop, value))
    <3>1. Fits(s, prop) /\ Fits(a, value)
      BY <1>7, <1>8, <2>3, <2>8 DEF Lossless, Alike
    <3> QED
      BY <1>7, <1>8, <1>16, <2>3, <2>5, <3>1
  <2>9. Begins(d.prop, Lower(Stored(prop))) /\ Begins(d.value, Stored(value))
    BY <1>5, <1>6, <1>8, <1>10, <1>14
  <2>10. o.warnings = s.warnings => o.warnings = s.warnings \cup {}
    OBVIOUS
  <2>11. DeclAdded(s, o, prop, value)
    BY <1>14, <2>3, <2>4, <2>5, <2>6, <2>7, <2>8, <2>9, <2>10, <2>12 DEF DeclAdded, Pools
  <2> QED
    BY <1>17, <1>20, <2>1, <2>2, <2>11
<1> QED
  BY <1>18, <1>19, <1>20

RuleWanted(w) == Kind(w) # "none"
WholeRule(s, w) ==
  [kind |-> Kind(w), name |-> Stored(SelectorName(w)), decl_start |-> s.decl_start,
   decl_count |-> Declarations(s), of |-> block]

RuleAdded(s, t, w) ==
  /\ Pools(t) /\ Grown(t, s) /\ t.decls = s.decls
  /\ \/ /\ t.rules = s.rules
        /\ RuleWanted(w) => s.bounded /\ Len(s.rules) = MaxRules
     \/ \E r \in RuleRec :
          /\ RuleWanted(w) /\ t.rules = Append(s.rules, r)
          /\ r.of = block /\ r.kind = Kind(w)
          /\ r.decl_start = s.decl_start /\ r.decl_count = Len(s.decls) - s.decl_start
          /\ Begins(r.name, Stored(SelectorName(w)))
          /\ "STRING_BUDGET" \notin t.warnings => r = WholeRule(s, w)
  /\ Lossless(t, s) =>
       /\ t.truncated = s.truncated
       /\ t.warnings = s.warnings \cup (IF RuleWanted(w) THEN {} ELSE {"SELECTOR_SKIPPED"})
       /\ t.rules = IF RuleWanted(w) THEN Append(s.rules, WholeRule(s, w)) ELSE s.rules

LEMMA EmitIs ==
  ASSUME NEW s, Pools(s), s.decl_start <= Len(s.decls), block \in Nat, NEW w \in Seq(Character)
  PROVE  RuleAdded(s, EmitSelector(s, w), w)
<1> DEFINE full == s.bounded /\ Len(s.rules) >= MaxRules
<1>1. /\ s \in SheetRec /\ s.string_len \in Nat /\ Len(s.decls) \in Nat /\ s.decl_start \in Nat
      /\ Len(s.rules) \in Nat /\ MaxRules \in Nat
  BY CssConstants DEF Pools, SheetRec
<1>2. CASE Kind(w) = "none"
  <2>1. PICK o : o = Warn(s, "SELECTOR_SKIPPED")
    OBVIOUS
  <2>2. /\ Pools(o) /\ Alike(o, s) /\ o.string_len = s.string_len /\ o.truncated = s.truncated
        /\ o.warnings = s.warnings \cup {"SELECTOR_SKIPPED"}
    <3>1. PICK c \in Code : c = "SELECTOR_SKIPPED"
      BY DEF Code
    <3> QED
      BY <2>1, <3>1, WarnIs
  <2>3. Grown(o, s) /\ ~RuleWanted(w)
    BY <1>1, <1>2, <2>2 DEF Grown, Alike, RuleWanted
  <2>4. RuleAdded(s, o, w)
    BY <2>2, <2>3 DEF RuleAdded, Alike
  <2> QED
    BY <1>2, <2>1, <2>4 DEF EmitSelector
<1>3. CASE Kind(w) # "none" /\ full
  <2>1. PICK o : o = OverBudget(s, "RULE_BUDGET")
    OBVIOUS
  <2>2. /\ Pools(o) /\ Alike(o, s) /\ o.string_len = s.string_len /\ o.truncated
        /\ o.warnings = s.warnings \cup {"RULE_BUDGET"}
    <3>1. PICK c \in Code : c = "RULE_BUDGET"
      BY DEF Code
    <3> QED
      BY <2>1, <3>1, OverBudgetIs
  <2>3. s.bounded /\ Len(s.rules) = MaxRules
    BY <1>1, <1>3 DEF Pools, InBudget
  <2>4. Grown(o, s) /\ ~Lossless(o, s)
    BY <1>1, <2>2, <2>3 DEF Grown, Lossless, Alike
  <2>5. RuleAdded(s, o, w)
    BY <2>2, <2>3, <2>4 DEF RuleAdded, Alike
  <2> QED
    BY <1>3, <2>1, <2>5 DEF EmitSelector
<1>4. CASE Kind(w) # "none" /\ ~full
  <2>1. Kind(w) \in Kinds /\ SelectorName(w) \in Seq(Character)
    BY <1>4, SelectorTyped
  <2>2. PICK n \in Seq(Character) : n = SelectorName(w)
    BY <2>1
  <2>3. PICK b : b = Intern(s, n)
    OBVIOUS
  <2>4. PICK u : u = Interned(s, n)
    OBVIOUS
  <2>5. PICK su : su = Stored(n)
    OBVIOUS
  <2>6. /\ su \in Seq(Character) /\ u \in Seq(Character) /\ Pools(b) /\ Alike(b, s)
        /\ s.string_len <= b.string_len /\ s.warnings \subseteq b.warnings /\ (s.truncated => b.truncated)
        /\ Begins(u, su)
        /\ Fits(s, n) => u = su /\ b.truncated = s.truncated /\ b.warnings = s.warnings
        /\ ~Fits(s, n) => b.truncated /\ "STRING_BUDGET" \in b.warnings
        /\ ~s.bounded => Fits(s, n)
    BY <2>3, <2>4, <2>5, InternIs DEF Begins
  <2>7. PICK k \in Nat : k = Declarations(s) /\ k = Len(s.decls) - s.decl_start
    BY <1>1 DEF Declarations
  <2>8. PICK r : r = [kind |-> Kind(w), name |-> u, decl_start |-> s.decl_start,
                      decl_count |-> k, of |-> block]
    OBVIOUS
  <2>9. /\ r \in RuleRec /\ r.of = block /\ r.kind = Kind(w) /\ r.name = u
        /\ r.decl_start = s.decl_start /\ r.decl_count = k
    BY <1>1, <2>1, <2>6, <2>8 DEF RuleRec
  <2>10. Fits(s, n) => r = WholeRule(s, w)
    BY <2>2, <2>5, <2>6, <2>7, <2>8 DEF WholeRule
  <2>11. PICK rs \in Seq(RuleRec) : rs = Append(b.rules, r) /\ Len(rs) = Len(s.rules) + 1
    <3>1. b.rules \in Seq(RuleRec) /\ b.rules = s.rules
      BY <2>6 DEF Pools, SheetRec, Alike
    <3>2. PICK br \in Seq(RuleRec) : br = b.rules /\ br = s.rules
      BY <3>1
    <3>3. r \in RuleRec
      BY <2>9
    <3>4. Append(br, r) \in Seq(RuleRec) /\ Len(Append(br, r)) = Len(br) + 1
      BY <3>3
    <3> QED
      BY <3>2, <3>4
  <2>12. PICK o : o = [b EXCEPT !.rules = rs]
    OBVIOUS
  <2>13. b \in SheetRec
    BY <2>6 DEF Pools
  <2>14. /\ o \in SheetRec /\ o.decls = b.decls /\ o.rules = rs /\ o.string_len = b.string_len
         /\ o.truncated = b.truncated /\ o.warnings = b.warnings /\ o.bounded = b.bounded
         /\ o.decl_start = b.decl_start
    BY <2>12, <2>13 DEF SheetRec
  <2>15. EmitSelector(s, w) = o
    BY <1>4, <2>2, <2>3, <2>4, <2>7, <2>8, <2>11, <2>12 DEF EmitSelector
  <2>16. InBudget(o)
    BY <1>1, <1>4, <2>6, <2>11, <2>14 DEF InBudget, Pools, Alike
  <2>17. Grown(o, s) /\ o.decls = s.decls /\ rs = Append(s.rules, r)
    BY <2>6, <2>11, <2>14 DEF Grown, Alike
  <2>18. RuleWanted(w)
    BY <1>4 DEF RuleWanted
  <2>19. "STRING_BUDGET" \notin o.warnings => r = WholeRule(s, w)
    BY <2>6, <2>10, <2>14
  <2>20. ASSUME Lossless(o, s)
         PROVE  /\ o.truncated = s.truncated /\ o.warnings = s.warnings
                /\ o.rules = Append(s.rules, WholeRule(s, w))
    <3>1. Fits(s, n)
      BY <2>6, <2>14, <2>20 DEF Lossless
    <3> QED
      BY <2>6, <2>10, <2>14, <2>17, <3>1
  <2>21. Begins(r.name, Stored(SelectorName(w)))
    BY <2>2, <2>5, <2>6, <2>9
  <2>22. o.warnings = s.warnings => o.warnings = s.warnings \cup {}
    OBVIOUS
  <2>23. RuleAdded(s, o, w)
    BY <2>7, <2>9, <2>14, <2>16, <2>17, <2>18, <2>19, <2>20, <2>21, <2>22 DEF RuleAdded, Pools
  <2> QED
    BY <2>15, <2>23
<1> QED
  BY <1>2, <1>3, <1>4

(***************************************************************************)
(* Whose the declarations are.  Outside of a block, while the rules of one *)
(* are written, and inside of it.                                          *)
(***************************************************************************)
Shut(s, b) ==
  /\ Pools(s) /\ b \in Nat /\ s.decl_start <= Len(s.decls)
  /\ \A i \in 1..Len(s.rules) :
       /\ s.rules[i].of <= b
       /\ s.rules[i].decl_start + s.rules[i].decl_count <= Len(s.decls)
       /\ \A j \in 1..Len(s.decls) :
            s.decls[j].of = s.rules[i].of <=>
              s.rules[i].decl_start < j /\ j <= s.rules[i].decl_start + s.rules[i].decl_count
  /\ \A j \in 1..Len(s.decls) : s.decls[j].of <= b

Closing(s, b) == Shut(s, b) /\ \A j \in 1..Len(s.decls) : s.decls[j].of = b <=> s.decl_start < j

Open(s, b) == Closing(s, b) /\ \A i \in 1..Len(s.rules) : s.rules[i].of < b

LEMMA PoolsTyped ==
  ASSUME NEW s, Pools(s)
  PROVE  /\ s \in SheetRec /\ Len(s.rules) \in Nat /\ Len(s.decls) \in Nat
         /\ s.rules \in Seq(RuleRec) /\ s.decls \in Seq(DeclRec)
         /\ s.string_len \in Nat /\ s.decl_start \in Nat /\ s.bounded \in BOOLEAN
         /\ \A i \in 1..Len(s.rules) : /\ s.rules[i].of \in Nat /\ s.rules[i].decl_start \in Nat
                                       /\ s.rules[i].decl_count \in Nat /\ s.rules[i].kind \in Kinds
                                       /\ s.rules[i].name \in Seq(Character)
         /\ \A j \in 1..Len(s.decls) : /\ s.decls[j].of \in Nat /\ s.decls[j].prop \in Seq(NameChar)
                                       /\ s.decls[j].value \in Seq(ValueChar)
<1>1. /\ s \in SheetRec /\ s.rules \in Seq(RuleRec) /\ s.decls \in Seq(DeclRec)
      /\ s.string_len \in Nat /\ s.decl_start \in Nat /\ s.bounded \in BOOLEAN
  BY DEF Pools, SheetRec
<1>2. /\ Len(s.rules) \in Nat /\ \A i \in 1..Len(s.rules) : s.rules[i] \in RuleRec
      /\ Len(s.decls) \in Nat /\ \A j \in 1..Len(s.decls) : s.decls[j] \in DeclRec
  BY <1>1
<1>3. \A r \in RuleRec : /\ r.of \in Nat /\ r.decl_start \in Nat /\ r.decl_count \in Nat
                         /\ r.kind \in Kinds /\ r.name \in Seq(Character)
  BY DEF RuleRec
<1>4. \A d \in DeclRec : d.of \in Nat /\ d.prop \in Seq(NameChar) /\ d.value \in Seq(ValueChar)
  BY DEF DeclRec
<1> QED
  BY <1>1, <1>2, <1>3, <1>4

LEMMA AlikeOwns ==
  ASSUME NEW s, NEW t, NEW b, Pools(t), Alike(t, s)
  PROVE  /\ Shut(s, b) => Shut(t, b)
         /\ Closing(s, b) => Closing(t, b)
         /\ Open(s, b) => Open(t, b)
BY DEF Alike, Shut, Closing, Open

LEMMA AddDeclOwns ==
  ASSUME NEW s, NEW t, NEW prop, NEW value, Open(s, block), DeclAdded(s, t, prop, value)
  PROVE  Open(t, block)
<1>1. /\ Pools(s) /\ Pools(t) /\ t.rules = s.rules /\ t.decl_start = s.decl_start /\ block \in Nat
      /\ s.decl_start <= Len(s.decls)
  BY DEF Open, Closing, Shut, DeclAdded, Grown
<1>2. CASE t.decls = s.decls
  BY <1>1, <1>2 DEF Open, Closing, Shut
<1>3. ASSUME NEW d \in DeclRec, t.decls = Append(s.decls, d), d.of = block PROVE Open(t, block)
  <2>1. PICK n \in Nat : n = Len(s.decls)
    BY <1>1, PoolsTyped
  <2>2. /\ Len(t.decls) = n + 1 /\ t.decls[n + 1].of = block
        /\ \A j \in 1..n : t.decls[j] = s.decls[j]
    BY <1>1, <1>3, <2>1, PoolsTyped
  <2>3. \A i \in 1..Len(s.rules) : /\ s.rules[i].of \in Nat /\ s.rules[i].decl_start \in Nat
                                   /\ s.rules[i].decl_count \in Nat
    BY <1>1, PoolsTyped
  <2>4. s.decl_start \in Nat
    BY <1>1, PoolsTyped
  <2>5. ASSUME NEW i \in 1..Len(s.rules)
        PROVE  /\ s.rules[i].of < block
               /\ s.rules[i].decl_start + s.rules[i].decl_count <= n
               /\ \A j \in 1..n : s.decls[j].of = s.rules[i].of <=>
                    s.rules[i].decl_start < j /\ j <= s.rules[i].decl_start + s.rules[i].decl_count
    BY <2>1 DEF Open, Closing, Shut
  <2>6. \A j \in 1..n : s.decls[j].of <= block /\ (s.decls[j].of = block <=> s.decl_start < j)
    BY <2>1 DEF Open, Closing, Shut
  <2>7. \A j \in 1..(n + 1) : t.decls[j].of <= block /\ (t.decls[j].of = block <=> s.decl_start < j)
    BY <1>1, <2>1, <2>2, <2>4, <2>6
  <2>8. ASSUME NEW i \in 1..Len(s.rules)
        PROVE  /\ s.rules[i].of <= block
               /\ s.rules[i].decl_start + s.rules[i].decl_count <= n + 1
               /\ \A j \in 1..(n + 1) : t.decls[j].of = s.rules[i].of <=>
                    s.rules[i].decl_start < j /\ j <= s.rules[i].decl_start + s.rules[i].decl_count
    <3>1. PICK first \in Nat : first = s.rules[i].decl_start
      BY <2>3
    <3>2. PICK last \in Nat : last = s.rules[i].decl_start + s.rules[i].decl_count
      BY <2>3
    <3>3. PICK of \in Nat : of = s.rules[i].of
      BY <2>3
    <3>4. of < block /\ last <= n /\ \A j \in 1..n : s.decls[j].of = of <=> first < j /\ j <= last
      BY <2>5, <3>1, <3>2, <3>3
    <3>5. ASSUME NEW j \in 1..(n + 1) PROVE t.decls[j].of = of <=> first < j /\ j <= last
      <4>1. CASE j \in 1..n
        BY <2>2, <3>4, <4>1
      <4>2. CASE j = n + 1
        BY <1>1, <2>2, <3>4, <4>2
      <4> QED
        BY <4>1, <4>2
    <3> QED
      BY <1>1, <3>1, <3>2, <3>3, <3>4, <3>5
  <2>9. Shut(t, block)
    BY <1>1, <2>1, <2>2, <2>4, <2>7, <2>8 DEF Shut
  <2> QED
    BY <1>1, <2>2, <2>5, <2>7, <2>9 DEF Open, Closing
<1> QED
  BY <1>2, <1>3 DEF DeclAdded

LEMMA EmitOwns ==
  ASSUME NEW s, NEW t, NEW w, Closing(s, block), RuleAdded(s, t, w)
  PROVE  Closing(t, block)
<1>1. /\ Pools(s) /\ Pools(t) /\ t.decls = s.decls /\ t.decl_start = s.decl_start /\ block \in Nat
      /\ s.decl_start <= Len(s.decls) /\ s.decl_start \in Nat /\ Len(s.decls) \in Nat
      /\ Len(s.rules) \in Nat
  BY PoolsTyped DEF Closing, Shut, RuleAdded, Grown
<1>2. CASE t.rules = s.rules
  BY <1>1, <1>2 DEF Closing, Shut
<1>3. ASSUME NEW r \in RuleRec, t.rules = Append(s.rules, r), r.of = block,
             r.decl_start = s.decl_start, r.decl_count = Len(s.decls) - s.decl_start
      PROVE  Closing(t, block)
  <2>1. PICK n \in Nat : n = Len(s.rules)
    BY <1>1
  <2>2. Len(t.rules) = n + 1 /\ t.rules[n + 1] = r /\ \A i \in 1..n : t.rules[i] = s.rules[i]
    BY <1>1, <1>3, <2>1, PoolsTyped
  <2>3. r.decl_start + r.decl_count = Len(s.decls)
    BY <1>1, <1>3
  <2>4. \A j \in 1..Len(s.decls) : s.decls[j].of <= block /\ (s.decls[j].of = block <=> s.decl_start < j)
    BY DEF Closing, Shut
  <2>5. ASSUME NEW i \in 1..n
        PROVE  /\ s.rules[i].of <= block
               /\ s.rules[i].decl_start + s.rules[i].decl_count <= Len(s.decls)
               /\ \A j \in 1..Len(s.decls) : s.decls[j].of = s.rules[i].of <=>
                    s.rules[i].decl_start < j /\ j <= s.rules[i].decl_start + s.rules[i].decl_count
    BY <2>1 DEF Closing, Shut
  <2>6. ASSUME NEW i \in 1..(n + 1)
        PROVE  /\ t.rules[i].of <= block
               /\ t.rules[i].decl_start + t.rules[i].decl_count <= Len(s.decls)
               /\ \A j \in 1..Len(s.decls) : s.decls[j].of = t.rules[i].of <=>
                    t.rules[i].decl_start < j /\ j <= t.rules[i].decl_start + t.rules[i].decl_count
    <3>1. CASE i \in 1..n
      BY <2>2, <2>5, <3>1
    <3>2. CASE i = n + 1
      BY <1>1, <1>3, <2>2, <2>3, <2>4, <3>2
    <3> QED
      BY <2>1, <3>1, <3>2
  <2>7. Shut(t, block)
    BY <1>1, <2>2, <2>4, <2>6 DEF Shut
  <2> QED
    BY <1>1, <2>4, <2>7 DEF Closing
<1> QED
  BY <1>2, <1>3 DEF RuleAdded

LEMMA OpenBlockOwns ==
  ASSUME NEW s, NEW b, Shut(s, b)
  PROVE  /\ Open(OpenBlock(s), b + 1)
         /\ Pools(OpenBlock(s)) /\ OpenBlock(s).decl_start = Len(s.decls)
         /\ OpenBlock(s).rules = s.rules /\ OpenBlock(s).decls = s.decls
         /\ OpenBlock(s).string_len = s.string_len /\ OpenBlock(s).truncated = s.truncated
         /\ OpenBlock(s).warnings = s.warnings /\ OpenBlock(s).bounded = s.bounded
<1>1. Pools(s) /\ s \in SheetRec /\ b \in Nat
  BY DEF Shut, Pools
<1>2. PICK n \in Nat : n = Len(s.decls)
  BY <1>1, PoolsTyped
<1>3. PICK t : t = OpenBlock(s)
  OBVIOUS
<1>4. t = [s EXCEPT !.decl_start = n]
  BY <1>2, <1>3 DEF OpenBlock
<1>5. /\ t \in SheetRec /\ t.decl_start = n /\ t.rules = s.rules /\ t.decls = s.decls
      /\ t.string_len = s.string_len /\ t.truncated = s.truncated /\ t.warnings = s.warnings
      /\ t.bounded = s.bounded
  BY <1>1, <1>4 DEF SheetRec
<1>6. Pools(t)
  BY <1>1, <1>5 DEF Pools, InBudget
<1>7. /\ \A i \in 1..Len(s.rules) : s.rules[i].of \in Nat /\ s.rules[i].of <= b
      /\ \A j \in 1..n : s.decls[j].of \in Nat /\ s.decls[j].of <= b
  BY <1>1, <1>2, PoolsTyped DEF Shut
<1>8. Shut(t, b + 1)
  BY <1>1, <1>2, <1>5, <1>6, <1>7 DEF Shut
<1>9. Closing(t, b + 1)
  BY <1>1, <1>2, <1>5, <1>7, <1>8 DEF Closing
<1>10. Open(t, b + 1)
  BY <1>1, <1>5, <1>7, <1>9 DEF Open
<1> QED
  BY <1>2, <1>3, <1>5, <1>6, <1>10

(***************************************************************************)
(* The sheet is a first part of the one without end.                       *)
(***************************************************************************)
RulePart(r, w) == r.kind = w.kind /\ r.of = w.of /\ Begins(r.name, w.name)
DeclPart(d, w) == d.of = w.of /\ Begins(d.prop, w.prop) /\ Begins(d.value, w.value)

Related(s, w) ==
  /\ Pools(s) /\ Pools(w) /\ s.bounded /\ ~w.bounded
  /\ Len(s.rules) <= Len(w.rules) /\ (Len(s.rules) < Len(w.rules) => Len(s.rules) = MaxRules)
  /\ /\ Len(s.decls) <= Len(w.decls)
     /\ Len(s.decls) < Len(w.decls) => Len(s.decls) = MaxDecls \/ s.string_len = Arena
  /\ \A i \in 1..Len(s.rules) : RulePart(s.rules[i], w.rules[i])
  /\ \A j \in 1..Len(s.decls) : DeclPart(s.decls[j], w.decls[j])
  /\ ~s.truncated =>
       /\ s.rules = w.rules /\ s.decls = w.decls /\ s.warnings = w.warnings
       /\ s.decl_start = w.decl_start
  /\ "STRING_BUDGET" \notin s.warnings =>
       /\ \A i \in 1..Len(s.rules) : s.rules[i].name = w.rules[i].name
       /\ \A j \in 1..Len(s.decls) : s.decls[j] = w.decls[j]

\* The same warning for both.
LEMMA WarnRelates ==
  ASSUME NEW s, NEW w, Related(s, w), NEW c \in Code
  PROVE  Related(Warn(s, c), Warn(w, c))
<1>1. PICK t : t = Warn(s, c)
  OBVIOUS
<1>2. PICK x : x = Warn(w, c)
  OBVIOUS
<1>3. Pools(s) /\ Pools(w)
  BY DEF Related
<1>4. /\ Pools(t) /\ t.rules = s.rules /\ t.decls = s.decls /\ t.decl_start = s.decl_start
      /\ t.bounded = s.bounded /\ t.string_len = s.string_len /\ t.truncated = s.truncated
      /\ t.warnings = s.warnings \cup {c}
  BY <1>1, <1>3, WarnIs DEF Alike
<1>5. /\ Pools(x) /\ x.rules = w.rules /\ x.decls = w.decls /\ x.decl_start = w.decl_start
      /\ x.bounded = w.bounded /\ x.warnings = w.warnings \cup {c}
  BY <1>2, <1>3, WarnIs DEF Alike
<1>6. Related(t, x)
  BY <1>4, <1>5 DEF Related
<1> QED
  BY <1>1, <1>2, <1>6

\* A sheet that is marked may have warnings of its own.
LEMMA MarkRelates ==
  ASSUME NEW s, NEW w, Related(s, w), NEW c \in Code
  PROVE  Related(OverBudget(s, c), w)
<1>1. PICK t : t = OverBudget(s, c)
  OBVIOUS
<1>2. /\ Pools(t) /\ t.rules = s.rules /\ t.decls = s.decls /\ t.bounded = s.bounded
      /\ t.string_len = s.string_len /\ t.truncated /\ t.warnings = s.warnings \cup {c}
  <2>1. Pools(s)
    BY DEF Related
  <2> QED
    BY <1>1, <2>1, OverBudgetIs DEF Alike
<1>3. Related(t, w)
  BY <1>2 DEF Related
<1> QED
  BY <1>1, <1>3

LEMMA OpenBlockRelates ==
  ASSUME NEW s, NEW w, NEW b, Related(s, w), Shut(s, b), Shut(w, b)
  PROVE  Related(OpenBlock(s), OpenBlock(w))
<1>1. PICK t : t = OpenBlock(s)
  OBVIOUS
<1>2. PICK x : x = OpenBlock(w)
  OBVIOUS
<1>3. /\ Pools(t) /\ t.decl_start = Len(s.decls) /\ t.rules = s.rules /\ t.decls = s.decls
      /\ t.string_len = s.string_len /\ t.truncated = s.truncated
      /\ t.warnings = s.warnings /\ t.bounded = s.bounded
  BY <1>1, OpenBlockOwns
<1>4. /\ Pools(x) /\ x.decl_start = Len(w.decls) /\ x.rules = w.rules /\ x.decls = w.decls
      /\ x.warnings = w.warnings /\ x.bounded = w.bounded
  BY <1>2, OpenBlockOwns
<1>5. Related(t, x)
  BY <1>3, <1>4 DEF Related
<1> QED
  BY <1>1, <1>2, <1>5

LEMMA AddDeclRelates ==
  ASSUME NEW s, NEW w, Related(s, w), block \in Nat,
         NEW prop \in Seq(NameChar), NEW value \in Seq(ValueChar),
         NEW t, DeclAdded(s, t, prop, value), NEW x, DeclAdded(w, x, prop, value)
  PROVE  Related(t, x)
<1>1. /\ Pools(s) /\ Pools(w) /\ Pools(t) /\ Pools(x) /\ s.bounded /\ ~w.bounded
      /\ t.bounded /\ ~x.bounded /\ t.rules = s.rules /\ x.rules = w.rules
      /\ t.decl_start = s.decl_start /\ x.decl_start = w.decl_start
      /\ s.string_len <= t.string_len /\ s.warnings \subseteq t.warnings /\ (s.truncated => t.truncated)
  BY DEF Related, DeclAdded, Grown
<1> DEFINE entire == WholeDecl(prop, value)
           wanted == DeclWanted(prop, value)
<1>2. /\ x.warnings = w.warnings \cup (IF wanted THEN {} ELSE {"DECL_SKIPPED"})
      /\ x.decls = IF wanted THEN Append(w.decls, entire) ELSE w.decls
  BY <1>1 DEF DeclAdded, Lossless
<1>3. ~t.truncated =>
        /\ ~s.truncated
        /\ t.warnings = s.warnings \cup (IF wanted THEN {} ELSE {"DECL_SKIPPED"})
        /\ t.decls = IF wanted THEN Append(s.decls, entire) ELSE s.decls
  BY DEF DeclAdded, Lossless
<1>4. PICK m \in Nat : m = Len(s.decls)
  BY <1>1, PoolsTyped
<1>5. PICK n \in Nat : n = Len(w.decls)
  BY <1>1, PoolsTyped
<1>6. /\ m <= n /\ (m < n => m = MaxDecls \/ s.string_len = Arena)
      /\ \A j \in 1..m : DeclPart(s.decls[j], w.decls[j])
      /\ "STRING_BUDGET" \notin s.warnings => \A j \in 1..m : s.decls[j] = w.decls[j]
  BY <1>4, <1>5 DEF Related
<1>7. /\ s.string_len \in Nat /\ t.string_len \in Nat /\ t.string_len <= Arena /\ Arena \in Nat
      /\ MaxDecls \in Nat /\ Len(t.decls) <= MaxDecls
      /\ s.decls \in Seq(DeclRec) /\ w.decls \in Seq(DeclRec)
  BY <1>1, PoolsTyped, CssConstants DEF Pools, InBudget
<1>8. entire \in DeclRec /\ entire.prop = Lower(Stored(prop)) /\ entire.value = Stored(value) /\ entire.of = block
  <2>1. Stored(prop) \in Seq(NameChar) /\ Stored(value) \in Seq(ValueChar)
    BY StoredTyped
  <2>2. NameChar \in SUBSET Character /\ "a" \in NameChar
    BY LetterIsName DEF NameChar
  <2>3. Lower(Stored(prop)) \in Seq(NameChar)
    BY <2>1, <2>2, LowerTyped
  <2>4. PICK u \in Seq(NameChar) : u = Lower(Stored(prop))
    BY <2>3
  <2>5. PICK v \in Seq(ValueChar) : v = Stored(value)
    BY <2>1
  <2>6. entire = [prop |-> u, value |-> v, of |-> block]
    BY <2>4, <2>5 DEF WholeDecl
  <2> HIDE DEF entire
  <2> QED
    BY <2>4, <2>5, <2>6 DEF DeclRec
<1> HIDE DEF entire, wanted
<1>9. /\ wanted => /\ Len(x.decls) = n + 1 /\ x.decls[n + 1] = entire
                   /\ \A j \in 1..n : x.decls[j] = w.decls[j]
      /\ ~wanted => x.decls = w.decls
  BY <1>2, <1>5, <1>7, <1>8
<1> DEFINE Goal == /\ Len(t.decls) <= Len(x.decls)
                   /\ Len(t.decls) < Len(x.decls) => Len(t.decls) = MaxDecls \/ t.string_len = Arena
                   /\ \A j \in 1..Len(t.decls) : DeclPart(t.decls[j], x.decls[j])
                   /\ "STRING_BUDGET" \notin t.warnings => \A j \in 1..Len(t.decls) : t.decls[j] = x.decls[j]
<1>10. ASSUME t.decls = s.decls, wanted => Len(s.decls) = MaxDecls \/ t.string_len = Arena
       PROVE  Goal
  <2>1. m < n => m = MaxDecls \/ t.string_len = Arena
    BY <1>1, <1>6, <1>7
  <2>2. \A j \in 1..m : x.decls[j] = w.decls[j]
    BY <1>5, <1>6, <1>9
  <2>3. Len(x.decls) = IF wanted THEN n + 1 ELSE n
    BY <1>5, <1>9
  <2> QED
    BY <1>1, <1>4, <1>6, <1>10, <2>1, <2>2, <2>3
<1>11. ASSUME NEW d \in DeclRec, wanted, t.decls = Append(s.decls, d), d.of = block,
              s.string_len < t.string_len, Begins(d.prop, entire.prop), Begins(d.value, entire.value),
              "STRING_BUDGET" \notin t.warnings => d = entire
       PROVE  Goal
  <2>1. Len(t.decls) = m + 1 /\ t.decls[m + 1] = d /\ \A j \in 1..m : t.decls[j] = s.decls[j]
    BY <1>4, <1>7, <1>11
  <2>2. m = n
    BY <1>6, <1>7, <1>11, <2>1
  <2>3. DeclPart(d, entire)
    BY <1>8, <1>11 DEF DeclPart
  <2>4. ASSUME NEW j \in 1..(m + 1)
        PROVE  /\ DeclPart(t.decls[j], x.decls[j])
               /\ "STRING_BUDGET" \notin t.warnings => t.decls[j] = x.decls[j]
    <3>1. CASE j \in 1..m
      BY <1>1, <1>6, <1>9, <1>11, <2>1, <2>2, <3>1
    <3>2. CASE j = m + 1
      BY <1>9, <1>11, <2>1, <2>2, <2>3, <3>2
    <3> QED
      BY <3>1, <3>2
  <2> QED
    BY <1>9, <1>11, <2>1, <2>2, <2>4
<1>12. Goal
  <2>1. CASE t.decls = s.decls /\ (wanted => s.bounded /\ (Len(s.decls) = MaxDecls \/ t.string_len = Arena))
    <3> HIDE DEF Goal
    <3> QED
      BY <1>10, <2>1
  <2>2. ASSUME NEW d \in DeclRec, wanted, t.decls = Append(s.decls, d), d.of = block,
               s.string_len < t.string_len,
               Begins(d.prop, Lower(Stored(prop))), Begins(d.value, Stored(value)),
               "STRING_BUDGET" \notin t.warnings => d = WholeDecl(prop, value)
        PROVE  Goal
    <3>1. "STRING_BUDGET" \notin t.warnings => d = entire
      BY <2>2 DEF entire
    <3>2. Begins(d.prop, entire.prop) /\ Begins(d.value, entire.value)
      BY <1>8, <2>2
    <3> HIDE DEF Goal
    <3> QED
      BY <1>11, <2>2, <3>1, <3>2
  <2> HIDE DEF Goal
  <2> QED
    BY <2>1, <2>2 DEF DeclAdded, wanted
<1>13. ~t.truncated => /\ t.rules = x.rules /\ t.decls = x.decls /\ t.warnings = x.warnings
                       /\ t.decl_start = x.decl_start
  <2>1. SUFFICES ASSUME ~t.truncated PROVE /\ t.rules = x.rules /\ t.decls = x.decls
                                          /\ t.warnings = x.warnings /\ t.decl_start = x.decl_start
    OBVIOUS
  <2>2. /\ s.rules = w.rules /\ s.decls = w.decls /\ s.warnings = w.warnings
        /\ s.decl_start = w.decl_start
    BY <1>3, <2>1 DEF Related
  <2> QED
    BY <1>1, <1>2, <1>3, <2>1, <2>2
<1>14. /\ Len(t.rules) <= Len(x.rules) /\ (Len(t.rules) < Len(x.rules) => Len(t.rules) = MaxRules)
       /\ \A i \in 1..Len(t.rules) : RulePart(t.rules[i], x.rules[i])
       /\ "STRING_BUDGET" \notin t.warnings => \A i \in 1..Len(t.rules) : t.rules[i].name = x.rules[i].name
  BY <1>1 DEF Related
<1> QED
  BY <1>1, <1>12, <1>13, <1>14 DEF Related

LEMMA EmitRelates ==
  ASSUME NEW s, NEW w, Related(s, w), block \in Nat, NEW c \in Seq(Character),
         s.decl_start <= Len(s.decls), w.decl_start <= Len(w.decls),
         NEW t, RuleAdded(s, t, c), NEW x, RuleAdded(w, x, c)
  PROVE  Related(t, x)
<1>1. /\ Pools(s) /\ Pools(w) /\ Pools(t) /\ Pools(x) /\ s.bounded /\ ~w.bounded
      /\ t.bounded /\ ~x.bounded /\ t.decls = s.decls /\ x.decls = w.decls
      /\ t.decl_start = s.decl_start /\ x.decl_start = w.decl_start
      /\ s.string_len <= t.string_len /\ s.warnings \subseteq t.warnings /\ (s.truncated => t.truncated)
  BY DEF Related, RuleAdded, Grown
<1> DEFINE entire == WholeRule(w, c)
           wanted == RuleWanted(c)
<1>2. /\ x.warnings = w.warnings \cup (IF wanted THEN {} ELSE {"SELECTOR_SKIPPED"})
      /\ x.rules = IF wanted THEN Append(w.rules, entire) ELSE w.rules
  BY <1>1 DEF RuleAdded, Lossless
<1>3. ~t.truncated =>
        /\ ~s.truncated
        /\ t.warnings = s.warnings \cup (IF wanted THEN {} ELSE {"SELECTOR_SKIPPED"})
        /\ t.rules = IF wanted THEN Append(s.rules, WholeRule(s, c)) ELSE s.rules
  BY DEF RuleAdded, Lossless
<1>4. PICK m \in Nat : m = Len(s.rules)
  BY <1>1, PoolsTyped
<1>5. PICK n \in Nat : n = Len(w.rules)
  BY <1>1, PoolsTyped
<1>6. /\ m <= n /\ (m < n => m = MaxRules)
      /\ \A i \in 1..m : RulePart(s.rules[i], w.rules[i])
      /\ "STRING_BUDGET" \notin s.warnings => \A i \in 1..m : s.rules[i].name = w.rules[i].name
  BY <1>4, <1>5 DEF Related
<1>7. /\ MaxRules \in Nat /\ Len(t.rules) <= MaxRules
      /\ s.rules \in Seq(RuleRec) /\ w.rules \in Seq(RuleRec)
      /\ s.string_len \in Nat /\ t.string_len \in Nat /\ t.string_len <= Arena /\ Arena \in Nat
  BY <1>1, PoolsTyped, CssConstants DEF Pools, InBudget
<1>8. wanted => /\ entire \in RuleRec /\ entire.kind = Kind(c) /\ entire.of = block
                /\ entire.name = Stored(SelectorName(c))
  <2>1. SUFFICES ASSUME wanted PROVE /\ entire \in RuleRec /\ entire.kind = Kind(c) /\ entire.of = block
                                     /\ entire.name = Stored(SelectorName(c))
    OBVIOUS
  <2>2. Kind(c) \in Kinds /\ SelectorName(c) \in Seq(Character)
    BY <2>1, SelectorTyped DEF RuleWanted
  <2>3. PICK u \in Seq(Character) : u = Stored(SelectorName(c))
    BY <2>2, StoredTyped
  <2>4. PICK k \in Nat : k = Declarations(w)
    BY <1>1, PoolsTyped DEF Declarations
  <2>5. w.decl_start \in Nat
    BY <1>1, PoolsTyped
  <2>6. entire = [kind |-> Kind(c), name |-> u, decl_start |-> w.decl_start, decl_count |-> k, of |-> block]
    BY <2>3, <2>4 DEF WholeRule
  <2> HIDE DEF entire
  <2> QED
    BY <2>2, <2>3, <2>5, <2>6 DEF RuleRec
<1> HIDE DEF entire, wanted
<1>9. /\ wanted => /\ Len(x.rules) = n + 1 /\ x.rules[n + 1] = entire
                   /\ \A i \in 1..n : x.rules[i] = w.rules[i]
      /\ ~wanted => x.rules = w.rules
  BY <1>2, <1>5, <1>7, <1>8
<1> DEFINE Goal == /\ Len(t.rules) <= Len(x.rules)
                   /\ Len(t.rules) < Len(x.rules) => Len(t.rules) = MaxRules
                   /\ \A i \in 1..Len(t.rules) : RulePart(t.rules[i], x.rules[i])
                   /\ "STRING_BUDGET" \notin t.warnings =>
                        \A i \in 1..Len(t.rules) : t.rules[i].name = x.rules[i].name
<1>10. ASSUME t.rules = s.rules, wanted => Len(s.rules) = MaxRules
       PROVE  Goal
  <2>1. \A i \in 1..m : x.rules[i] = w.rules[i]
    BY <1>5, <1>6, <1>9
  <2>2. Len(x.rules) = IF wanted THEN n + 1 ELSE n
    BY <1>5, <1>9
  <2>3. Len(t.rules) = m /\ \A i \in 1..m : t.rules[i] = s.rules[i]
    BY <1>4, <1>10
  <2>4. \A i \in 1..m : RulePart(t.rules[i], x.rules[i])
    BY <1>6, <2>1, <2>3
  <2>5. "STRING_BUDGET" \notin t.warnings => \A i \in 1..m : t.rules[i].name = x.rules[i].name
    BY <1>1, <1>6, <2>1, <2>3
  <2>6. m <= Len(x.rules) /\ (m < Len(x.rules) => m = MaxRules)
    BY <1>4, <1>6, <1>10, <2>2
  <2> QED
    BY <2>3, <2>4, <2>5, <2>6
<1>11. ASSUME NEW r \in RuleRec, wanted, t.rules = Append(s.rules, r), r.of = block, r.kind = Kind(c),
              Begins(r.name, entire.name),
              "STRING_BUDGET" \notin t.warnings => r.name = entire.name
       PROVE  Goal
  <2>1. Len(t.rules) = m + 1 /\ t.rules[m + 1] = r /\ \A i \in 1..m : t.rules[i] = s.rules[i]
    BY <1>4, <1>7, <1>11
  <2>2. m = n
    BY <1>6, <1>7, <1>11, <2>1
  <2>3. RulePart(r, entire)
    BY <1>8, <1>11 DEF RulePart
  <2>4. ASSUME NEW i \in 1..(m + 1)
        PROVE  /\ RulePart(t.rules[i], x.rules[i])
               /\ "STRING_BUDGET" \notin t.warnings => t.rules[i].name = x.rules[i].name
    <3>1. CASE i \in 1..m
      <4>1. t.rules[i] = s.rules[i] /\ x.rules[i] = w.rules[i]
        BY <1>9, <1>11, <2>1, <2>2, <3>1
      <4>2. RulePart(s.rules[i], w.rules[i])
        BY <1>6, <3>1
      <4>3. "STRING_BUDGET" \notin s.warnings => s.rules[i].name = w.rules[i].name
        BY <1>6, <3>1
      <4> QED
        BY <1>1, <4>1, <4>2, <4>3
    <3>2. CASE i = m + 1
      <4>1. t.rules[i] = r /\ x.rules[i] = entire
        BY <1>9, <1>11, <2>1, <2>2, <3>2
      <4> QED
        BY <1>11, <2>3, <4>1
    <3> QED
      BY <3>1, <3>2
  <2> QED
    BY <1>9, <1>11, <2>1, <2>2, <2>4
<1>12. Goal
  <2>1. CASE t.rules = s.rules /\ (wanted => s.bounded /\ Len(s.rules) = MaxRules)
    <3> HIDE DEF Goal
    <3> QED
      BY <1>10, <2>1
  <2>2. ASSUME NEW r \in RuleRec, wanted, t.rules = Append(s.rules, r), r.of = block, r.kind = Kind(c),
               Begins(r.name, Stored(SelectorName(c))),
               "STRING_BUDGET" \notin t.warnings => r = WholeRule(s, c)
        PROVE  Goal
    <3>1. WholeRule(s, c).name = Stored(SelectorName(c))
      BY DEF WholeRule
    <3>2. "STRING_BUDGET" \notin t.warnings => r.name = entire.name
      BY <1>8, <2>2, <3>1
    <3>3. Begins(r.name, entire.name)
      BY <1>8, <2>2
    <3> HIDE DEF Goal
    <3> QED
      BY <1>11, <2>2, <3>2, <3>3
  <2> HIDE DEF Goal
  <2> QED
    BY <2>1, <2>2 DEF RuleAdded, wanted
<1>13. ~t.truncated => /\ t.rules = x.rules /\ t.decls = x.decls /\ t.warnings = x.warnings
                       /\ t.decl_start = x.decl_start
  <2>1. SUFFICES ASSUME ~t.truncated PROVE /\ t.rules = x.rules /\ t.decls = x.decls
                                          /\ t.warnings = x.warnings /\ t.decl_start = x.decl_start
    OBVIOUS
  <2>2. /\ s.rules = w.rules /\ s.decls = w.decls /\ s.warnings = w.warnings
        /\ s.decl_start = w.decl_start
    BY <1>3, <2>1 DEF Related
  <2>3. WholeRule(s, c) = entire
    BY <2>2 DEF WholeRule, Declarations, entire
  <2> QED
    BY <1>1, <1>2, <1>3, <2>1, <2>2, <2>3
<1>14. /\ Len(t.decls) <= Len(x.decls)
       /\ Len(t.decls) < Len(x.decls) => Len(t.decls) = MaxDecls \/ t.string_len = Arena
       /\ \A j \in 1..Len(t.decls) : DeclPart(t.decls[j], x.decls[j])
       /\ "STRING_BUDGET" \notin t.warnings => \A j \in 1..Len(t.decls) : t.decls[j] = x.decls[j]
  BY <1>1, <1>7 DEF Related
<1> QED
  BY <1>1, <1>12, <1>13, <1>14 DEF Related

(***************************************************************************)
(* The end of a declaration, and of a rule.                                *)
(***************************************************************************)
LEMMA EndDeclIs ==
  ASSUME NEW s, NEW w, block \in Nat, name \in Seq(NameChar), word \in Seq(ValueChar),
         Open(s, block), Open(w, block), Related(s, w)
  PROVE  /\ Open(EndDecl(s), block) /\ Open(EndDecl(w), block)
         /\ Related(EndDecl(s), EndDecl(w))
<1>1. Pools(s) /\ Pools(w)
  BY DEF Related
<1>2. CASE name = << >> \/ Trim(word) = << >>
  <2>1. PICK c \in Code : c = "DECL_SKIPPED"
    BY DEF Code
  <2>2. EndDecl(s) = Warn(s, c) /\ EndDecl(w) = Warn(w, c)
    BY <1>2, <2>1 DEF EndDecl
  <2>3. Pools(Warn(s, c)) /\ Alike(Warn(s, c), s) /\ Pools(Warn(w, c)) /\ Alike(Warn(w, c), w)
    BY <1>1, WarnIs
  <2> QED
    BY <2>2, <2>3, WarnRelates, AlikeOwns
<1>3. CASE ~(name = << >> \/ Trim(word) = << >>)
  <2>1. PICK prop \in Seq(NameChar) : prop = name
    OBVIOUS
  <2>2. PICK value \in Seq(ValueChar) : value = Trim(word)
    BY TrimTyped
  <2>3. PICK t : t = AddDecl(s, prop, value)
    OBVIOUS
  <2>4. PICK x : x = AddDecl(w, prop, value)
    OBVIOUS
  <2>5. EndDecl(s) = t /\ EndDecl(w) = x
    BY <1>3, <2>1, <2>2, <2>3, <2>4 DEF EndDecl
  <2>6. DeclAdded(s, t, prop, value) /\ DeclAdded(w, x, prop, value)
    BY <1>1, <2>3, <2>4, AddDeclIs
  <2>7. Open(t, block) /\ Open(x, block)
    BY <2>6, AddDeclOwns
  <2>8. Related(t, x)
    BY <2>6, AddDeclRelates
  <2> QED
    BY <2>5, <2>7, <2>8
<1> QED
  BY <1>2, <1>3

\* A sheet at the rules of a block.
Closings == {s \in SheetRec : Pools(s) /\ s.decl_start <= Len(s.decls)}

LEMMA RulesInTurn ==
  ASSUME block \in Nat
  PROVE  \A s \in Closings : \A es \in Seq(Seq(Character)) : es = Entries(prelude) =>
           \E f \in [0..Len(es) -> Closings] :
             /\ f[0] = s /\ EndRule(s) = f[Len(es)]
             /\ \A i \in 1..Len(es) : /\ f[i] = EmitSelector(f[i - 1], Trim(es[i]))
                                      /\ Trim(es[i]) \in Seq(Character)
<1>a. SUFFICES ASSUME NEW s, s \in Closings, NEW es, es \in Seq(Seq(Character)), es = Entries(prelude)
               PROVE  \E f \in [0..Len(es) -> Closings] :
                        /\ f[0] = s /\ EndRule(s) = f[Len(es)]
                        /\ \A i \in 1..Len(es) : /\ f[i] = EmitSelector(f[i - 1], Trim(es[i]))
                                                 /\ Trim(es[i]) \in Seq(Character)
  OBVIOUS
<1>1. PICK m \in Nat : m = Len(es)
  BY <1>a
<1>2. PICK Y : Y = Closings
  OBVIOUS
<1> DEFINE Next1(v, i) == EmitSelector(v, Trim(es[i]))
           Emitted(g) == g = [i \in 0..m |-> IF i = 0 THEN s ELSE EmitSelector(g[i - 1], Trim(es[i]))]
           T == [i \in 1..m |-> [v \in Y |-> Next1(v, i)]]
<1>3. \A i \in 1..m : Trim(es[i]) \in Seq(Character)
  <2>1. \A i \in 1..m : es[i] \in Seq(Character)
    BY <1>a, <1>1
  <2> QED
    BY <2>1, TrimTyped
<1>4. ASSUME NEW i \in 1..m, NEW v \in Y PROVE Next1(v, i) \in Y
  <2>1. PICK w \in Seq(Character) : w = Trim(es[i])
    BY <1>3
  <2>2. Pools(v) /\ v.decl_start <= Len(v.decls)
    BY <1>2 DEF Closings
  <2>3. PICK t : t = EmitSelector(v, w)
    OBVIOUS
  <2>4. RuleAdded(v, t, w)
    BY <2>2, <2>3, EmitIs
  <2>5. Pools(t) /\ t.decl_start <= Len(t.decls)
    BY <2>2, <2>4 DEF RuleAdded, Grown
  <2>6. t \in Closings
    BY <2>5 DEF Closings, Pools
  <2> QED
    BY <1>2, <2>1, <2>3, <2>6
<1>5. PICK z \in Y : z = s
  BY <1>a, <1>2
<1>6. PICK f \in [0..m -> Y] : f[0] = z /\ \A i \in 1..m : f[i] = Next1(f[i - 1], i)
  <2> HIDE DEF Next1, Emitted
  <2>1. T \in [1..m -> [Y -> Y]]
    BY <1>4
  <2>2. PICK f \in [0..m -> Y] : f[0] = z /\ \A i \in 1..m : f[i] = T[i][f[i - 1]]
    <3> HIDE DEF T
    <3> QED
      BY <2>1, Iterates
  <2>3. ASSUME NEW i \in 1..m PROVE f[i] = Next1(f[i - 1], i)
    <3>1. f[i - 1] \in Y
      BY <1>1, <2>2
    <3> QED
      BY <2>2, <3>1
  <2> QED
    BY <2>2, <2>3
<1>7. Emitted(f)
  <2>1. ASSUME NEW i \in 0..m PROVE f[i] = IF i = 0 THEN s ELSE Next1(f[i - 1], i)
    <3> HIDE DEF Next1, Emitted
    <3>1. CASE i = 0
      BY <1>5, <1>6, <3>1
    <3>2. CASE i \in 1..m
      BY <1>1, <1>6, <3>2
    <3> QED
      BY <1>1, <3>1, <3>2
  <2>2. f = [i \in 0..m |-> f[i]]
    BY <1>6
  <2> QED
    BY <2>1, <2>2
<1>8. PICK h : h = CHOOSE g : Emitted(g)
  OBVIOUS
<1>9. Emitted(h)
  <2> HIDE DEF Emitted
  <2> QED
    BY <1>7, <1>8
<1>10. EndRule(s) = h[m]
  BY <1>a, <1>1, <1>8 DEF EndRule
<1>11. h[0] = z /\ \A i \in 1..m : h[i] = Next1(h[i - 1], i)
  <2>1. h = [i \in 0..m |-> IF i = 0 THEN s ELSE Next1(h[i - 1], i)]
    BY <1>9
  <2> HIDE DEF Next1, Emitted
  <2>2. \A i \in 0..m : h[i] = IF i = 0 THEN s ELSE Next1(h[i - 1], i)
    BY <2>1
  <2>3. 0 \in 0..m /\ \A i \in 1..m : i \in 0..m /\ i # 0
    BY <1>1
  <2> QED
    BY <1>5, <2>2, <2>3
<1> DEFINE S == {i \in Nat : i <= m => h[i] \in Y}
<1>12. S = Nat
  <2> HIDE DEF Next1, Emitted
  <2>1. S \in SUBSET Nat /\ 0 \in S
    BY <1>5, <1>11
  <2>2. ASSUME NEW i \in S PROVE i + 1 \in S
    <3>1. SUFFICES ASSUME i + 1 <= m PROVE h[i + 1] \in Y
      OBVIOUS
    <3>2. i \in Nat /\ i <= m /\ i + 1 \in 1..m /\ (i + 1) - 1 = i
      BY <1>1, <3>1
    <3>3. h[i] \in Y
      BY <3>2
    <3>4. h[i + 1] = Next1(h[i], i + 1)
      BY <1>11, <3>2
    <3> QED
      BY <1>4, <3>2, <3>3, <3>4
  <2> HIDE DEF S
  <2> QED
    BY <2>1, <2>2, Induct
<1>13. h \in [0..m -> Y]
  <2>1. ASSUME NEW i \in 0..m PROVE h[i] \in Y
    <3>1. i \in S /\ i <= m
      BY <1>1, <1>12
    <3> QED
      BY <3>1
  <2>2. DOMAIN h = 0..m /\ h = [i \in 0..m |-> h[i]]
    BY <1>9
  <2> QED
    BY <2>1, <2>2
<1>14. \A i \in 1..m : h[i] = EmitSelector(h[i - 1], Trim(es[i]))
  BY <1>11
<1> HIDE DEF Next1, Emitted, T, S
<1> QED
  BY <1>1, <1>2, <1>3, <1>5, <1>10, <1>11, <1>13, <1>14

LEMMA EndRuleIs ==
  ASSUME NEW s, NEW w, block \in Nat, prelude \in Seq(Character),
         Closing(s, block), Closing(w, block), Related(s, w)
  PROVE  /\ Closing(EndRule(s), block) /\ Closing(EndRule(w), block)
         /\ Related(EndRule(s), EndRule(w))
<1>1. PICK es : es \in Seq(Seq(Character)) /\ es = Entries(prelude)
  BY EntriesTyped
<1>2. PICK m \in Nat : m = Len(es)
  BY <1>1
<1>3. s \in Closings /\ w \in Closings
  BY DEF Closing, Shut, Closings, Pools
<1>4. PICK f \in [0..m -> Closings] :
        /\ f[0] = s /\ EndRule(s) = f[m]
        /\ \A i \in 1..m : f[i] = EmitSelector(f[i - 1], Trim(es[i])) /\ Trim(es[i]) \in Seq(Character)
  <2>1. \E f \in [0..Len(es) -> Closings] :
          /\ f[0] = s /\ EndRule(s) = f[Len(es)]
          /\ \A i \in 1..Len(es) : /\ f[i] = EmitSelector(f[i - 1], Trim(es[i]))
                                   /\ Trim(es[i]) \in Seq(Character)
    BY <1>1, <1>3, RulesInTurn, Zenon
  <2> QED
    BY <1>2, <2>1, Zenon
<1>5. PICK g \in [0..m -> Closings] :
        /\ g[0] = w /\ EndRule(w) = g[m]
        /\ \A i \in 1..m : g[i] = EmitSelector(g[i - 1], Trim(es[i])) /\ Trim(es[i]) \in Seq(Character)
  <2>1. \E g \in [0..Len(es) -> Closings] :
          /\ g[0] = w /\ EndRule(w) = g[Len(es)]
          /\ \A i \in 1..Len(es) : /\ g[i] = EmitSelector(g[i - 1], Trim(es[i]))
                                   /\ Trim(es[i]) \in Seq(Character)
    BY <1>1, <1>3, RulesInTurn, Zenon
  <2> QED
    BY <1>2, <2>1, Zenon
<1> DEFINE S == {i \in Nat : i <= m => /\ Closing(f[i], block) /\ Closing(g[i], block)
                                       /\ Related(f[i], g[i])}
<1>6. S = Nat
  <2>1. S \in SUBSET Nat /\ 0 \in S
    BY <1>4, <1>5
  <2>2. ASSUME NEW i \in S PROVE i + 1 \in S
    <3>1. SUFFICES ASSUME i + 1 <= m
                   PROVE  /\ Closing(f[i + 1], block) /\ Closing(g[i + 1], block)
                          /\ Related(f[i + 1], g[i + 1])
      OBVIOUS
    <3>2. /\ i \in Nat /\ i + 1 \in 1..m /\ (i + 1) - 1 = i
          /\ Closing(f[i], block) /\ Closing(g[i], block) /\ Related(f[i], g[i])
      BY <1>2, <3>1
    <3>3. PICK k \in 1..m : k = i + 1
      BY <3>2
    <3>4. PICK c \in Seq(Character) : c = Trim(es[k])
      BY <1>4
    <3>5. PICK a : a = f[i]
      OBVIOUS
    <3>6. PICK b : b = g[i]
      OBVIOUS
    <3>7. f[k] = EmitSelector(a, c) /\ g[k] = EmitSelector(b, c)
      BY <1>4, <1>5, <3>2, <3>3, <3>4, <3>5, <3>6
    <3>8. /\ Closing(a, block) /\ Closing(b, block) /\ Related(a, b) /\ Pools(a) /\ Pools(b)
          /\ a.decl_start <= Len(a.decls) /\ b.decl_start <= Len(b.decls)
      BY <3>2, <3>5, <3>6 DEF Closing, Shut
    <3>9. RuleAdded(a, f[k], c) /\ RuleAdded(b, g[k], c)
      BY <3>7, <3>8, EmitIs
    <3>10. Closing(f[k], block) /\ Closing(g[k], block)
      BY <3>8, <3>9, EmitOwns
    <3>11. Related(f[k], g[k])
      BY <3>8, <3>9, EmitRelates
    <3> QED
      BY <3>3, <3>10, <3>11
  <2> HIDE DEF S
  <2> QED
    BY <2>1, <2>2, Induct
<1>7. m \in S
  BY <1>6
<1> QED
  BY <1>4, <1>5, <1>7


(***************************************************************************)
(* The invariant of the parser.                                            *)
(***************************************************************************)
InBlock == {"block", "name", "colon", "before_value", "value", "bad"}
OutOfBlock == {"top", "prelude", "at", "skip", "done"}

Inside(s, w, b) == Open(s, b) /\ Open(w, b) /\ Related(s, w)
Outside(s, w, b) == Shut(s, b) /\ Shut(w, b) /\ Related(s, w)

ParserInv ==
  /\ mode \in InBlock \cup OutOfBlock
  /\ block \in Nat /\ prelude \in Seq(Character) /\ name \in Seq(NameChar)
  /\ mode \in OutOfBlock => word \in Seq(Character)
  /\ mode \in {"block", "name", "colon", "bad"} => word \in Seq(NameChar)
  /\ mode \in {"before_value", "value"} => word \in Seq(ValueChar)
  /\ mode \in InBlock => Inside(sheet, whole, block)
  /\ mode \in OutOfBlock => Outside(sheet, whole, block)

LEMMA Apart == InBlock \cap OutOfBlock = {}
BY DEF InBlock, OutOfBlock

LEMMA WarnBoth ==
  ASSUME NEW s, NEW w, NEW b, NEW c \in Code
  PROVE  /\ Inside(s, w, b) => Inside(Warn(s, c), Warn(w, c), b)
         /\ Outside(s, w, b) => Outside(Warn(s, c), Warn(w, c), b)
<1>1. ASSUME Related(s, w)
      PROVE  /\ Related(Warn(s, c), Warn(w, c))
             /\ Pools(Warn(s, c)) /\ Alike(Warn(s, c), s) /\ Pools(Warn(w, c)) /\ Alike(Warn(w, c), w)
  <2>1. Pools(s) /\ Pools(w)
    BY <1>1 DEF Related
  <2> QED
    BY <1>1, <2>1, WarnIs, WarnRelates
<1> QED
  BY <1>1, AlikeOwns DEF Inside, Outside

LEMMA EndsRule ==
  ASSUME NEW s, NEW w, block \in Nat, prelude \in Seq(Character), Inside(s, w, block)
  PROVE  Outside(EndRule(s), EndRule(w), block)
<1>1. Closing(s, block) /\ Closing(w, block) /\ Related(s, w)
  BY DEF Inside, Open
<1>2. /\ Closing(EndRule(s), block) /\ Closing(EndRule(w), block)
      /\ Related(EndRule(s), EndRule(w))
  BY <1>1, EndRuleIs
<1> QED
  BY <1>2 DEF Outside, Closing

LEMMA EndsDecl ==
  ASSUME NEW s, NEW w, block \in Nat, name \in Seq(NameChar), word \in Seq(ValueChar),
         Inside(s, w, block)
  PROVE  Inside(EndDecl(s), EndDecl(w), block)
<1>1. Open(s, block) /\ Open(w, block) /\ Related(s, w)
  BY DEF Inside
<1> QED
  BY <1>1, EndDeclIs DEF Inside

LEMMA BadBoth ==
  ASSUME NEW s, NEW w, NEW b, Inside(s, w, b)
  PROVE  Inside(BadDecl(s), BadDecl(w), b)
<1>1. PICK c \in Code : c = "DECL_SKIPPED"
  BY DEF Code
<1>2. BadDecl(s) = Warn(s, c) /\ BadDecl(w) = Warn(w, c)
  BY <1>1 DEF BadDecl
<1> QED
  BY <1>2, WarnBoth

LEMMA ClosesBlock ==
  ASSUME NEW s, NEW w, ParserInv, Inside(s, w, block), CloseBlock(s, w), block' = block
  PROVE  ParserInv'
<1>1. Outside(EndRule(s), EndRule(w), block)
  BY EndsRule DEF ParserInv
<1>2. mode' = "top" /\ prelude' = << >> /\ name' = << >> /\ word' = << >>
  BY DEF CloseBlock
<1>3. Outside(sheet, whole, block)'
  BY <1>1 DEF CloseBlock, Both
<1>4. mode' \in OutOfBlock /\ ~(mode' \in InBlock)
      /\ ~(mode' \in {"block", "name", "colon", "bad", "before_value", "value"})
  BY <1>2 DEF OutOfBlock, InBlock
<1>5. << >> \in Seq(Character) /\ << >> \in Seq(NameChar)
  OBVIOUS
<1> QED
  BY <1>2, <1>3, <1>4, <1>5 DEF ParserInv

LEMMA GoesOn ==
  ASSUME NEW s, NEW w, ParserInv, Inside(s, w, block), NextDecl(s, w), block' = block
  PROVE  ParserInv'
<1>1. mode' = "block" /\ prelude' = prelude /\ name' = << >> /\ word' = << >>
  BY DEF NextDecl
<1>2. Inside(sheet, whole, block)'
  BY DEF NextDecl, Both
<1>3. mode' \in InBlock /\ ~(mode' \in OutOfBlock) /\ ~(mode' \in {"before_value", "value"})
  BY <1>1 DEF OutOfBlock, InBlock
<1>4. << >> \in Seq(NameChar)
  OBVIOUS
<1> QED
  BY <1>1, <1>2, <1>3, <1>4 DEF ParserInv


LEMMA EmptyIs == Outside(EmptySheet, [EmptySheet EXCEPT !.bounded = FALSE], 0)
<1>1. PICK s : s = EmptySheet
  OBVIOUS
<1>2. PICK w : w = [EmptySheet EXCEPT !.bounded = FALSE]
  OBVIOUS
<1>3. /\ s \in SheetRec /\ s.rules = << >> /\ s.decls = << >> /\ s.string_len = 0
      /\ s.decl_start = 0 /\ s.bounded /\ ~s.truncated /\ s.warnings = {}
  BY <1>1 DEF EmptySheet, SheetRec
<1>4. /\ w \in SheetRec /\ w.rules = << >> /\ w.decls = << >> /\ w.string_len = 0
      /\ w.decl_start = 0 /\ ~w.bounded /\ ~w.truncated /\ w.warnings = {}
  <2>1. w = [s EXCEPT !.bounded = FALSE]
    BY <1>1, <1>2
  <2> QED
    BY <1>3, <2>1 DEF SheetRec
<1>5. Len(<< >>) = 0 /\ 1..0 = {} /\ 0 \in Nat
  OBVIOUS
<1>6. Pools(s) /\ Pools(w)
  BY <1>3, <1>4, <1>5, CssConstants DEF Pools, InBudget
<1>7. Shut(s, 0) /\ Shut(w, 0)
  BY <1>3, <1>4, <1>5, <1>6 DEF Shut
<1>8. Related(s, w)
  BY <1>3, <1>4, <1>5, <1>6 DEF Related
<1> QED
  BY <1>1, <1>2, <1>7, <1>8 DEF Outside

LEMMA FreshInv ==
  ASSUME NEW place \in OutOfBlock, Fresh(place)
  PROVE  ParserInv
<1>1. Outside(sheet, whole, block)
  BY EmptyIs DEF Fresh
<1>2. /\ mode \in OutOfBlock /\ ~(mode \in InBlock) /\ mode \notin {"block", "name", "colon", "bad"}
      /\ mode \notin {"before_value", "value"}
  BY DEF Fresh, InBlock, OutOfBlock
<1>3. << >> \in Seq(Character) /\ << >> \in Seq(NameChar) /\ 0 \in Nat
  OBVIOUS
<1>4. block = 0 /\ prelude = << >> /\ name = << >> /\ word = << >>
  BY DEF Fresh
<1> QED
  BY <1>1, <1>2, <1>3, <1>4 DEF ParserInv

LEMMA KeepInv ==
  ASSUME ParserInv, UNCHANGED <<mode, prelude, name, word, block, sheet, whole>>
  PROVE  ParserInv'
BY DEF ParserInv, Outside, Inside

LEMMA GrowTyped ==
  ASSUME NEW c, NEW most, NEW X, c \in X, word \in Seq(X), Grows(c, most)
  PROVE  word' \in Seq(X)
<1>1. PICK d \in X : d = c
  OBVIOUS
<1>2. PICK v \in Seq(X) : v = word
  OBVIOUS
<1>3. word' = Append(v, d)
  BY <1>1, <1>2 DEF Grows
<1> QED
  BY <1>3

\* The bytes that a name, and a value, are made of.
LEMMA NameCharIs ==
  ASSUME NEW c \in Character, c \notin NameEnd, c \notin Space
  PROVE  c \in NameChar
BY DEF NameChar

LEMMA ValueCharIs ==
  ASSUME NEW c \in Character, c \notin ValueEnd
  PROVE  c \in ValueChar
BY DEF ValueChar

LEMMA AtRuleInv ==
  ASSUME ParserInv, NEW c \in Character, AtRule(c)
  PROVE  ParserInv'
<1>1. UNCHANGED <<prelude, name, word, block>>
  BY DEF AtRule
<1>2. mode \in {"top", "at", "skip"} /\ mode' \in {"top", "at", "skip"}
  BY DEF AtRule, In
<1>3. /\ mode \in OutOfBlock /\ mode' \in OutOfBlock /\ ~(mode' \in InBlock)
      /\ mode' \notin {"block", "name", "colon", "bad"} /\ mode' \notin {"before_value", "value"}
  BY <1>2 DEF OutOfBlock, InBlock
<1>4. Outside(sheet, whole, block)
  BY <1>3 DEF ParserInv
<1>5. Outside(sheet, whole, block)'
  <2>1. CASE UNCHANGED <<sheet, whole>>
    BY <1>1, <1>4, <2>1 DEF Outside
  <2>2. CASE Both(Warn(sheet, "AT_RULE_SKIPPED"), Warn(whole, "AT_RULE_SKIPPED"))
    <3>1. PICK d \in Code : d = "AT_RULE_SKIPPED"
      BY DEF Code
    <3>2. Outside(Warn(sheet, d), Warn(whole, d), block)
      BY <1>4, WarnBoth
    <3> QED
      BY <1>1, <2>2, <3>1, <3>2 DEF Both
  <2> QED
    BY <2>1, <2>2 DEF AtRule
<1> QED
  BY <1>1, <1>3, <1>5 DEF ParserInv

LEMMA BracesDiffer == OpenBrace # CloseBrace
BY Zenon DEF OpenBrace, CloseBrace

LEMMA PreludeInv ==
  ASSUME ParserInv, NEW c \in Character, Prelude(c)
  PROVE  ParserInv'
<1>1. mode \in {"top", "prelude"} /\ UNCHANGED name
  BY DEF Prelude, In
<1>2. mode \in OutOfBlock /\ word \in Seq(Character)
  BY <1>1 DEF OutOfBlock, ParserInv
<1>3. Outside(sheet, whole, block) /\ block \in Nat
  BY <1>2 DEF ParserInv
<1>4. << >> \in Seq(Character) /\ << >> \in Seq(NameChar)
  OBVIOUS
<1>5. CASE c = OpenBrace
  <2>1. /\ mode' = "block" /\ prelude' = word /\ word' = << >> /\ block' = block + 1
        /\ Both(OpenBlock(sheet), OpenBlock(whole))
    BY <1>5, BracesDiffer DEF Prelude
  <2>2. /\ Open(OpenBlock(sheet), block + 1) /\ Open(OpenBlock(whole), block + 1)
        /\ Related(OpenBlock(sheet), OpenBlock(whole))
    BY <1>3, OpenBlockOwns, OpenBlockRelates DEF Outside
  <2>3. Inside(sheet, whole, block)'
    BY <2>1, <2>2 DEF Inside, Both
  <2>4. mode' \in InBlock /\ ~(mode' \in OutOfBlock) /\ mode' \notin {"before_value", "value"}
    BY <2>1 DEF OutOfBlock, InBlock
  <2>5. block' \in Nat
    BY <1>3, <2>1
  <2> QED
    BY <1>1, <1>2, <1>4, <2>1, <2>3, <2>4, <2>5 DEF ParserInv
<1>6. CASE c # OpenBrace
  <2>1. /\ mode' \in {"top", "prelude"} /\ UNCHANGED <<prelude, block>>
        /\ word' = << >> \/ (Grows(c, MaxPrelude))
        /\ \/ Both(Warn(sheet, "SELECTOR_SKIPPED"), Warn(whole, "SELECTOR_SKIPPED"))
           \/ UNCHANGED <<sheet, whole>>
    BY <1>6 DEF Prelude
  <2>2. word' \in Seq(Character)
    BY <1>2, <1>4, <2>1, GrowTyped
  <2>3. Outside(sheet, whole, block)'
    <3>1. CASE UNCHANGED <<sheet, whole>>
      BY <1>3, <2>1, <3>1 DEF Outside
    <3>2. CASE Both(Warn(sheet, "SELECTOR_SKIPPED"), Warn(whole, "SELECTOR_SKIPPED"))
      <4>1. PICK d \in Code : d = "SELECTOR_SKIPPED"
        BY DEF Code
      <4>2. Outside(Warn(sheet, d), Warn(whole, d), block)
        BY <1>3, WarnBoth
      <4> QED
        BY <2>1, <3>2, <4>1, <4>2 DEF Both
    <3> QED
      BY <2>1, <3>1, <3>2
  <2>4. /\ mode' \in OutOfBlock /\ ~(mode' \in InBlock)
        /\ mode' \notin {"block", "name", "colon", "bad"} /\ mode' \notin {"before_value", "value"}
    BY <2>1 DEF OutOfBlock, InBlock
  <2> QED
    BY <1>1, <2>1, <2>2, <2>3, <2>4 DEF ParserInv
<1> QED
  BY <1>5, <1>6


LEMMA BraceInv ==
  ASSUME ParserInv, NEW c \in Character, Brace(c)
  PROVE  ParserInv'
<1>1. mode \in {"block", "bad"} /\ CloseBlock(sheet, whole) /\ block' = block
  BY DEF Brace, In
<1>2. Inside(sheet, whole, block)
  BY <1>1 DEF ParserInv, InBlock
<1> QED
  BY <1>1, <1>2, ClosesBlock

LEMMA NameInv ==
  ASSUME ParserInv, NEW c \in Character, Name(c)
  PROVE  ParserInv'
<1>1. /\ mode \in {"block", "name"} /\ c \notin NameEnd
      /\ UNCHANGED <<prelude, block, sheet, whole>>
  BY DEF Name, In
<1>2. word \in Seq(NameChar) /\ Inside(sheet, whole, block)
  BY <1>1 DEF ParserInv, InBlock
<1>3. Inside(sheet, whole, block)'
  BY <1>1, <1>2 DEF Inside
<1>4. mode' \in {"name", "colon"} /\ name' \in Seq(NameChar) /\ word' \in Seq(NameChar)
  <2>1. CASE c \in Space
    <3>1. mode' = "colon" /\ name' = word /\ word' = << >>
      BY <2>1 DEF Name
    <3>2. << >> \in Seq(NameChar)
      OBVIOUS
    <3> QED
      BY <1>2, <3>1, <3>2
  <2>2. CASE c \notin Space
    <3>1. mode' = "name" /\ Grows(c, MaxWord) /\ UNCHANGED name
      BY <2>2 DEF Name
    <3>2. c \in NameChar
      BY <1>1, <2>2, NameCharIs
    <3>3. word' \in Seq(NameChar)
      BY <1>2, <3>1, <3>2, GrowTyped
    <3> QED
      BY <3>1, <3>3 DEF ParserInv
  <2> QED
    BY <2>1, <2>2
<1>5. mode' \in InBlock /\ ~(mode' \in OutOfBlock) /\ mode' \notin {"before_value", "value"}
  BY <1>4 DEF InBlock, OutOfBlock
<1> QED
  BY <1>1, <1>3, <1>4, <1>5 DEF ParserInv

LEMMA ColonInv ==
  ASSUME ParserInv, NEW c \in Character, Colon(c)
  PROVE  ParserInv'
<1>1. /\ mode \in {"block", "name", "colon"} /\ UNCHANGED <<prelude, block, sheet, whole>>
      /\ mode' = "before_value" /\ word' = << >> /\ name' \in {name, word}
  BY DEF Colon, In
<1>2. word \in Seq(NameChar) /\ Inside(sheet, whole, block)
  BY <1>1 DEF ParserInv, InBlock
<1>3. Inside(sheet, whole, block)'
  BY <1>1, <1>2 DEF Inside
<1>4. /\ mode' \in InBlock /\ ~(mode' \in OutOfBlock)
      /\ mode' \notin {"block", "name", "colon", "bad"}
  BY <1>1 DEF InBlock, OutOfBlock
<1>5. << >> \in Seq(ValueChar)
  OBVIOUS
<1> QED
  BY <1>1, <1>2, <1>3, <1>4, <1>5 DEF ParserInv

LEMMA NoColonInv ==
  ASSUME ParserInv, NEW c \in Character, NoColon(c)
  PROVE  ParserInv'
<1>1. mode \in {"block", "name", "colon", "bad"} /\ block' = block
  BY DEF NoColon, In
<1>2. word \in Seq(NameChar) /\ Inside(sheet, whole, block)
  BY <1>1 DEF ParserInv, InBlock
<1>3. Inside(BadDecl(sheet), BadDecl(whole), block)
  BY <1>2, BadBoth
<1>4. CASE NextDecl(BadDecl(sheet), BadDecl(whole))
  BY <1>1, <1>3, <1>4, GoesOn
<1>5. CASE CloseBlock(BadDecl(sheet), BadDecl(whole))
  BY <1>1, <1>3, <1>5, ClosesBlock
<1>6. CASE /\ mode' \in {"bad", "block"} /\ UNCHANGED <<word, prelude>>
           /\ name' = << >> \/ name' = name
           /\ Both(BadDecl(sheet), BadDecl(whole)) \/ UNCHANGED <<sheet, whole>>
  <2>1. Inside(sheet, whole, block)'
    <3>1. CASE UNCHANGED <<sheet, whole>>
      BY <1>1, <1>2, <3>1 DEF Inside
    <3>2. CASE Both(BadDecl(sheet), BadDecl(whole))
      BY <1>1, <1>3, <3>2 DEF Both
    <3> QED
      BY <1>6, <3>1, <3>2
  <2>2. mode' \in InBlock /\ ~(mode' \in OutOfBlock) /\ mode' \notin {"before_value", "value"}
    BY <1>6 DEF InBlock, OutOfBlock
  <2>3. << >> \in Seq(NameChar)
    OBVIOUS
  <2> QED
    BY <1>1, <1>2, <1>6, <2>1, <2>2, <2>3 DEF ParserInv
<1> QED
  BY <1>4, <1>5, <1>6 DEF NoColon

LEMMA ValueInv ==
  ASSUME ParserInv, NEW c \in Character, Value(c)
  PROVE  ParserInv'
<1>1. mode \in {"before_value", "value"} /\ block' = block
  BY DEF Value, In
<1>2. word \in Seq(ValueChar) /\ Inside(sheet, whole, block)
  BY <1>1 DEF ParserInv, InBlock
<1>3. Inside(EndDecl(sheet), EndDecl(whole), block)
  BY <1>2, EndsDecl DEF ParserInv
<1>4. CASE NextDecl(EndDecl(sheet), EndDecl(whole))
  BY <1>1, <1>3, <1>4, GoesOn
<1>5. CASE CloseBlock(EndDecl(sheet), EndDecl(whole))
  BY <1>1, <1>3, <1>5, ClosesBlock
<1>6. CASE /\ c \notin ValueEnd /\ mode' = "value" /\ Grows(c, MaxWord)
           /\ UNCHANGED <<name, prelude, sheet, whole>>
  <2>1. Inside(sheet, whole, block)'
    BY <1>1, <1>2, <1>6 DEF Inside
  <2>2. /\ mode' \in InBlock /\ ~(mode' \in OutOfBlock)
        /\ mode' \notin {"block", "name", "colon", "bad"}
    BY <1>6 DEF InBlock, OutOfBlock
  <2>3. c \in ValueChar
    BY <1>6, ValueCharIs
  <2>4. word' \in Seq(ValueChar)
    BY <1>2, <1>6, <2>3, GrowTyped
  <2> QED
    BY <1>1, <1>6, <2>1, <2>2, <2>4 DEF ParserInv
<1> QED
  BY <1>4, <1>5, <1>6 DEF Value

\* Whatever the text ends in.
LEMMA EndedIs ==
  ASSUME NEW s, NEW w, ParserInv, mode \in InBlock => Inside(s, w, block),
         mode \in OutOfBlock => Outside(s, w, block), mode # "done"
  PROVE  Outside(Ended(s), Ended(w), block)
<1>1. PICK u \in Code : u = "UNCLOSED_BLOCK"
  BY DEF Code
<1>2. /\ block \in Nat /\ prelude \in Seq(Character) /\ name \in Seq(NameChar)
      /\ mode \in InBlock \cup OutOfBlock
  BY DEF ParserInv
<1>3. CASE mode \in {"top", "at", "skip"}
  <2>1. Ended(s) = s /\ Ended(w) = w
    BY <1>3 DEF Ended
  <2> QED
    BY <1>3, <2>1 DEF OutOfBlock
<1>4. CASE mode = "prelude"
  <2>1. PICK d \in Code : d = "SELECTOR_SKIPPED"
    BY DEF Code
  <2>2. Ended(s) = Warn(s, d) /\ Ended(w) = Warn(w, d)
    BY <1>4, <2>1 DEF Ended
  <2> QED
    BY <1>4, <2>2, WarnBoth DEF OutOfBlock
<1>5. CASE mode \in {"block", "bad"}
  <2>1. Ended(s) = EndRule(Warn(s, u)) /\ Ended(w) = EndRule(Warn(w, u))
    BY <1>1, <1>5 DEF Ended
  <2>2. Inside(Warn(s, u), Warn(w, u), block)
    BY <1>5, WarnBoth DEF InBlock
  <2> QED
    BY <1>2, <2>1, <2>2, EndsRule
<1>6. CASE mode \in {"name", "colon"}
  <2>1. PICK a : a = BadDecl(s)
    OBVIOUS
  <2>2. PICK b : b = BadDecl(w)
    OBVIOUS
  <2>3. Ended(s) = EndRule(Warn(a, u)) /\ Ended(w) = EndRule(Warn(b, u))
    BY <1>1, <1>6, <2>1, <2>2 DEF Ended
  <2>4. Inside(a, b, block)
    BY <1>6, <2>1, <2>2, BadBoth DEF InBlock
  <2>5. Inside(Warn(a, u), Warn(b, u), block)
    BY <2>4, WarnBoth
  <2> QED
    BY <1>2, <2>3, <2>5, EndsRule
<1>7. CASE mode \in {"before_value", "value"}
  <2>1. PICK a : a = EndDecl(s)
    OBVIOUS
  <2>2. PICK b : b = EndDecl(w)
    OBVIOUS
  <2>3. Ended(s) = EndRule(Warn(a, u)) /\ Ended(w) = EndRule(Warn(b, u))
    BY <1>1, <1>7, <2>1, <2>2 DEF Ended
  <2>4. word \in Seq(ValueChar) /\ Inside(s, w, block)
    BY <1>7 DEF InBlock, ParserInv
  <2>5. Inside(a, b, block)
    BY <1>2, <2>1, <2>2, <2>4, EndsDecl
  <2>6. Inside(Warn(a, u), Warn(b, u), block)
    BY <2>5, WarnBoth
  <2> QED
    BY <1>2, <2>3, <2>6, EndsRule
<1> QED
  BY <1>2, <1>3, <1>4, <1>5, <1>6, <1>7 DEF InBlock, OutOfBlock

LEMMA EndInv ==
  ASSUME ParserInv, NEW longer \in BOOLEAN, End(longer)
  PROVE  ParserInv'
<1>1. PICK a : a = Cut(sheet, longer)
  OBVIOUS
<1>2. PICK s : s = Unclosed(a)
  OBVIOUS
<1>3. PICK w : w = Unclosed(whole)
  OBVIOUS
<1>4. /\ mode # "done" /\ mode' = "done" /\ prelude' = << >> /\ name' = << >> /\ word' = << >>
      /\ sheet' = Ended(s) /\ whole' = Ended(w) /\ block' = block
  BY <1>1, <1>2, <1>3 DEF End, Both
<1>5. ASSUME Pools(sheet), Related(sheet, whole)
      PROVE  Pools(a) /\ Alike(a, sheet) /\ Related(a, whole)
  <2>1. PICK d \in Code : d = "INPUT_TRUNCATED"
    BY DEF Code
  <2>2. a = IF longer THEN OverBudget(sheet, d) ELSE sheet
    BY <1>1, <2>1 DEF Cut
  <2>3. Alike(sheet, sheet)
    BY DEF Alike
  <2> QED
    BY <1>5, <2>2, <2>3, OverBudgetIs, MarkRelates
<1>6. /\ Inside(sheet, whole, block) => Inside(a, whole, block)
      /\ Outside(sheet, whole, block) => Outside(a, whole, block)
  <2>1. Related(sheet, whole) => Pools(sheet)
    BY DEF Related
  <2> QED
    BY <1>5, <2>1, AlikeOwns DEF Inside, Outside
<1>7. /\ Inside(a, whole, block) => Inside(s, w, block)
      /\ Outside(a, whole, block) => Outside(s, w, block)
  <2>1. PICK d \in Code : d = "UNCLOSED_COMMENT"
    BY DEF Code
  <2>2. CASE in_comment
    <3>1. s = Warn(a, d) /\ w = Warn(whole, d)
      BY <1>2, <1>3, <2>1, <2>2 DEF Unclosed
    <3> QED
      BY <3>1, WarnBoth
  <2>3. CASE ~in_comment
    BY <1>2, <1>3, <2>3 DEF Unclosed
  <2> QED
    BY <2>2, <2>3
<1>8. /\ mode \in InBlock => Inside(s, w, block)
      /\ mode \in OutOfBlock => Outside(s, w, block)
  BY <1>6, <1>7 DEF ParserInv
<1>9. Outside(Ended(s), Ended(w), block)
  BY <1>4, <1>8, EndedIs
<1>10. Outside(sheet, whole, block)'
  BY <1>4, <1>9
<1>11. /\ mode' \in OutOfBlock /\ ~(mode' \in InBlock)
       /\ mode' \notin {"block", "name", "colon", "bad"} /\ mode' \notin {"before_value", "value"}
  BY <1>4 DEF InBlock, OutOfBlock
<1>12. << >> \in Seq(Character) /\ << >> \in Seq(NameChar)
  OBVIOUS
<1> QED
  BY <1>4, <1>10, <1>11, <1>12 DEF ParserInv


LEMMA ParserStep ==
  ASSUME ParserInv, [Next]_vars
  PROVE  ParserInv'
<1>1. CASE UNCHANGED vars
  BY <1>1, KeepInv DEF vars, scanner
<1>2. CASE Parsed
  BY <1>2, KeepInv DEF Parsed, vars, scanner
<1>3. ASSUME NEW longer \in BOOLEAN, End(longer) PROVE ParserInv'
  BY <1>3, EndInv
<1>4. ASSUME NEW c \in Characters, Char(c) PROVE ParserInv'
  <2>1. c \in Character
    BY CssConstants
  <2>2. CASE Blank(c) \/ Comment(c)
    BY <2>2, KeepInv DEF Blank, Comment
  <2> QED
    BY <1>4, <2>1, <2>2, AtRuleInv, PreludeInv, BraceInv, NameInv, ColonInv, NoColonInv, ValueInv
       DEF Char
<1> QED
  BY <1>1, <1>2, <1>3, <1>4 DEF Next

\* A sheet that is a first part of the other is one with its strings cut short.
LEMMA CutIs ==
  ASSUME ParserInv
  PROVE  BudgetsCutTheEnd
<1>1. PICK s : s = sheet
  OBVIOUS
<1>2. PICK w : w = whole
  OBVIOUS
<1>3. Related(s, w)
  BY <1>1, <1>2 DEF ParserInv, Inside, Outside
<1>4. Pools(s) /\ Pools(w) /\ s.bounded
  BY <1>3 DEF Related
<1>5. Len(s.rules) <= MaxRules /\ Len(s.decls) <= MaxDecls /\ s.string_len <= Arena
  BY <1>4 DEF Pools, InBudget
<1>6. PICK m \in Nat : m = Len(s.rules)
  BY <1>4, PoolsTyped
<1>7. PICK n \in Nat : n = Len(s.decls)
  BY <1>4, PoolsTyped
<1>8. /\ s.rules \in Seq(RuleRec) /\ w.rules \in Seq(RuleRec)
      /\ s.decls \in Seq(DeclRec) /\ w.decls \in Seq(DeclRec)
  BY <1>4, PoolsTyped
<1>9. DOMAIN s.rules = 1..m /\ DOMAIN s.decls = 1..n /\ m <= Len(w.rules) /\ n <= Len(w.decls)
  BY <1>3, <1>6, <1>7, <1>8 DEF Related
<1>10. ASSUME NEW i \in 1..m PROVE SameRule(s.rules[i], w.rules[i])
  <2>1. RulePart(s.rules[i], w.rules[i])
    BY <1>3, <1>6 DEF Related
  <2>2. i \in 1..Len(w.rules)
    BY <1>8, <1>9
  <2>3. PICK u \in Seq(Character) : u = s.rules[i].name
    BY <1>4, <1>6, PoolsTyped
  <2>4. PICK v \in Seq(Character) : v = w.rules[i].name
    BY <1>4, <2>2, PoolsTyped
  <2>5. IsPrefix(u, v)
    BY <2>1, <2>3, <2>4, PrefixIs DEF RulePart, Begins
  <2> QED
    BY <2>1, <2>3, <2>4, <2>5 DEF SameRule, RulePart
<1>11. ASSUME NEW j \in 1..n PROVE SameDecl(s.decls[j], w.decls[j])
  <2>1. DeclPart(s.decls[j], w.decls[j])
    BY <1>3, <1>7 DEF Related
  <2>2. j \in 1..Len(w.decls)
    BY <1>8, <1>9
  <2>3. PICK u \in Seq(NameChar) : u = s.decls[j].prop
    BY <1>4, <1>7, PoolsTyped
  <2>4. PICK v \in Seq(NameChar) : v = w.decls[j].prop
    BY <1>4, <2>2, PoolsTyped
  <2>5. PICK a \in Seq(ValueChar) : a = s.decls[j].value
    BY <1>4, <1>7, PoolsTyped
  <2>6. PICK b \in Seq(ValueChar) : b = w.decls[j].value
    BY <1>4, <2>2, PoolsTyped
  <2>7. IsPrefix(u, v)
    BY <2>1, <2>3, <2>4, PrefixIs DEF DeclPart, Begins
  <2>8. IsPrefix(a, b)
    BY <2>1, <2>5, <2>6, PrefixIs DEF DeclPart, Begins
  <2> QED
    BY <2>1, <2>3, <2>4, <2>5, <2>6, <2>7, <2>8 DEF SameDecl, DeclPart
<1>12. ~s.truncated => s.rules = w.rules /\ s.decls = w.decls /\ s.warnings = w.warnings
  BY <1>3 DEF Related
<1>13. "STRING_BUDGET" \notin s.warnings =>
         /\ \A i \in 1..m : s.rules[i].name = w.rules[i].name
         /\ IsPrefix(s.decls, w.decls)
  <2>1. SUFFICES ASSUME "STRING_BUDGET" \notin s.warnings
                 PROVE  /\ \A i \in 1..m : s.rules[i].name = w.rules[i].name
                        /\ IsPrefix(s.decls, w.decls)
    OBVIOUS
  <2>2. /\ \A i \in 1..m : s.rules[i].name = w.rules[i].name
        /\ \A j \in 1..n : s.decls[j] = w.decls[j]
    BY <1>3, <1>6, <1>7, <2>1 DEF Related
  <2> QED
    BY <1>7, <1>8, <1>9, <2>2, PrefixIs
<1> QED
  BY <1>1, <1>2, <1>5, <1>6, <1>7, <1>9, <1>10, <1>11, <1>12, <1>13 DEF BudgetsCutTheEnd

LEMMA OwnedIs ==
  ASSUME ParserInv
  PROVE  RulesOwnTheirDeclarations
<1>1. PICK s : s = sheet
  OBVIOUS
<1>2. Shut(s, block) /\ Pools(s)
  BY <1>1 DEF ParserInv, Inside, Outside, Open, Closing, Shut
<1>3. PICK m \in Nat : m = Len(s.rules)
  BY <1>2, PoolsTyped
<1>4. PICK n \in Nat : n = Len(s.decls)
  BY <1>2, PoolsTyped
<1>5. DOMAIN s.rules = 1..m /\ DOMAIN s.decls = 1..n
  BY <1>2, <1>3, <1>4, PoolsTyped
<1>6. ASSUME NEW i \in 1..m
      PROVE  LET r == s.rules[i]
                 last == r.decl_start + r.decl_count
             IN {j \in 1..n : s.decls[j].of = r.of} = (r.decl_start + 1)..last
  <2>1. PICK a \in Nat : a = s.rules[i].decl_start
    BY <1>2, <1>3, PoolsTyped
  <2>2. PICK k \in Nat : k = s.rules[i].decl_count
    BY <1>2, <1>3, PoolsTyped
  <2>3. /\ a + k <= n
        /\ \A j \in 1..n : s.decls[j].of = s.rules[i].of <=> a < j /\ j <= a + k
    BY <1>2, <1>3, <1>4, <2>1, <2>2 DEF Shut
  <2>4. {j \in 1..n : s.decls[j].of = s.rules[i].of} = (a + 1)..(a + k)
    BY <2>3
  <2> QED
    BY <2>1, <2>2, <2>4
<1>7. ASSUME NEW j \in 1..n
      PROVE  /\ Range(s.decls[j].prop) \cap (Space \cup NameEnd) = {}
             /\ Range(s.decls[j].value) \cap ValueEnd = {}
  <2>1. PICK u \in Seq(NameChar) : u = s.decls[j].prop
    BY <1>2, <1>4, PoolsTyped
  <2>2. PICK v \in Seq(ValueChar) : v = s.decls[j].value
    BY <1>2, <1>4, PoolsTyped
  <2>3. Range(u) \subseteq NameChar /\ Range(v) \subseteq ValueChar
    BY DEF Range
  <2>4. NameChar \cap (Space \cup NameEnd) = {} /\ ValueChar \cap ValueEnd = {}
    BY DEF NameChar, ValueChar
  <2> QED
    BY <2>1, <2>2, <2>3, <2>4
<1> QED
  BY <1>1, <1>5, <1>6, <1>7 DEF RulesOwnTheirDeclarations


(***************************************************************************)
(* The two stages together.                                                *)
(***************************************************************************)
StyleInv == ParserInv /\ CascadeInv

LEMMA NothingStyled ==
  ASSUME nodes = << >>, rules = << >>, decls = << >>, styles = << >>
  PROVE  CascadeInv
<1>1. \A X : << >> \in Seq(X)
  OBVIOUS
<1>2. Len(<< >>) = 0 /\ DOMAIN << >> = {} /\ 0 <= 0
  OBVIOUS
<1>3. SheetInv
  BY <1>1, <1>2 DEF SheetInv
<1>4. DocumentInv
  BY <1>1, <1>2 DEF DocumentInv
<1>5. StylesInv
  BY <1>1, <1>2 DEF StylesInv
<1> QED
  BY <1>3, <1>4, <1>5 DEF CascadeInv

LEMMA UnstyledInv ==
  ASSUME DocumentInv, styles = << >>
  PROVE  StylesInv
<1>1. \A X : << >> \in Seq(X)
  OBVIOUS
<1>2. Len(<< >>) = 0 /\ DOMAIN << >> = {} /\ Len(nodes) \in Nat
  BY DEF DocumentInv
<1> QED
  BY <1>1, <1>2 DEF StylesInv

LEMMA StyleStart ==
  ASSUME StyleInit
  PROVE  StyleInv
<1>1. CASE Init /\ nodes = << >> /\ rules = << >> /\ decls = << >> /\ styles = << >>
  <2>1. "top" \in OutOfBlock
    BY DEF OutOfBlock
  <2>2. ParserInv
    BY <1>1, <2>1, FreshInv DEF Init
  <2> QED
    BY <1>1, <2>2, NothingStyled DEF StyleInv
<1>2. CASE Fresh("done") /\ C!Init
  <2>1. "done" \in OutOfBlock
    BY DEF OutOfBlock
  <2>2. ParserInv
    BY <1>2, <2>1, FreshInv
  <2>3. PICK s \in Sheets : rules = s.rules /\ decls = s.decls
    BY <1>2 DEF C!Init
  <2>4. SheetInv
    BY <2>3, CascadeConstants DEF SheetInv, RuleIn
  <2>5. DocumentInv
    BY <1>2, CascadeConstants DEF C!Init, DocumentInv
  <2>6. StylesInv
    BY <1>2, <2>5, UnstyledInv DEF C!Init
  <2> QED
    BY <2>2, <2>4, <2>5, <2>6 DEF StyleInv, CascadeInv
<1> QED
  BY <1>1, <1>2 DEF StyleInit

\* What the parser hands over is a sheet the cascade can read.
LEMMA HandsOver ==
  ASSUME StyleInv, HandOver
  PROVE  StyleInv'
<1>1. ParserInv'
  <2>1. mode = "done" /\ UNCHANGED <<mode, prelude, name, word>> /\ block' = 0
    BY DEF HandOver
  <2>2. Outside(sheet, whole, block)'
    BY EmptyIs DEF HandOver
  <2>3. /\ mode' \in OutOfBlock /\ ~(mode' \in InBlock)
        /\ mode' \notin {"block", "name", "colon", "bad"} /\ mode' \notin {"before_value", "value"}
    BY <2>1 DEF InBlock, OutOfBlock
  <2>4. /\ prelude \in Seq(Character) /\ name \in Seq(NameChar) /\ word \in Seq(Character)
        /\ 0 \in Nat
    BY <2>1 DEF StyleInv, ParserInv, OutOfBlock
  <2> QED
    BY <2>1, <2>2, <2>3, <2>4 DEF ParserInv
<1>2. PICK s : s = sheet
  OBVIOUS
<1>3. Shut(s, block) /\ Pools(s)
  BY <1>2 DEF HandOver, StyleInv, ParserInv, OutOfBlock, Outside, Shut
<1>4. PICK m \in Nat : m = Len(s.rules)
  BY <1>3, PoolsTyped
<1>5. PICK n \in Nat : n = Len(s.decls)
  BY <1>3, PoolsTyped
<1>6. DOMAIN s.rules = 1..m /\ DOMAIN s.decls = 1..n
  BY <1>3, <1>4, <1>5, PoolsTyped
<1>7. PICK rs : rs = SheetRules
  OBVIOUS
<1>8. PICK ds : ds = SheetDecls
  OBVIOUS
<1>9. rs = [i \in 1..m |-> [kind |-> s.rules[i].kind, name |-> s.rules[i].name,
                            decl_start |-> s.rules[i].decl_start, decl_count |-> s.rules[i].decl_count]]
  BY <1>2, <1>6, <1>7 DEF SheetRules
<1>10. ds = [j \in 1..n |-> PropIndex(s.decls[j].prop)]
  BY <1>2, <1>6, <1>8 DEF SheetDecls
<1>11. rs \in Seq(Range(rs)) /\ DOMAIN rs = 1..m
  <2>1. rs \in [1..m -> Range(rs)]
    BY <1>9 DEF Range
  <2> QED
    BY <2>1
<1>12. ds \in Seq(Range(ds)) /\ Len(ds) = n
  <2>1. ds \in [1..n -> Range(ds)]
    BY <1>10 DEF Range
  <2> QED
    BY <2>1
<1>13. ASSUME NEW i \in 1..m PROVE RuleIn(rs[i], ds)
  <2>1. PICK k \in Kinds : k = s.rules[i].kind
    BY <1>3, <1>4, PoolsTyped
  <2>2. PICK a \in Nat : a = s.rules[i].decl_start
    BY <1>3, <1>4, PoolsTyped
  <2>3. PICK l \in Nat : l = s.rules[i].decl_count
    BY <1>3, <1>4, PoolsTyped
  <2>4. a + l <= n
    BY <1>3, <1>4, <1>5, <2>2, <2>3 DEF Shut
  <2>5. rs[i].kind = k /\ rs[i].decl_start = a /\ rs[i].decl_count = l
    BY <1>9, <2>1, <2>2, <2>3
  <2> QED
    BY <1>12, <2>4, <2>5 DEF RuleIn
<1>14. /\ rules' = rs /\ decls' = ds /\ styles' = << >>
       /\ nodes' \in Pages
  BY <1>7, <1>8 DEF HandOver
<1>15. SheetInv'
  BY <1>11, <1>12, <1>13, <1>14 DEF SheetInv
<1>16. DocumentInv'
  BY <1>14, CascadeConstants DEF DocumentInv
<1>17. StylesInv'
  <2>1. \A X : << >> \in Seq(X)
    OBVIOUS
  <2>2. Len(<< >>) = 0 /\ DOMAIN << >> = {} /\ Len(nodes') \in Nat
    BY <1>16 DEF DocumentInv
  <2> QED
    BY <1>14, <2>1, <2>2 DEF StylesInv
<1> QED
  BY <1>1, <1>15, <1>16, <1>17 DEF StyleInv, CascadeInv

LEMMA SameStyles ==
  ASSUME CascadeInv, UNCHANGED cascadeVars
  PROVE  CascadeInv'
<1>1. nodes' = nodes /\ rules' = rules /\ decls' = decls /\ styles' = styles
  BY DEF cascadeVars
<1>2. SheetInv' /\ DocumentInv'
  BY <1>1 DEF CascadeInv, SheetInv, RuleIn, DocumentInv
<1>3. ASSUME NEW n, NEW p PROVE Given(n, p)' = Given(n, p)
  <2>1. PICK cs : cs = C!Candidates(n, p)
    OBVIOUS
  <2>2. C!Candidates(n, p)' = cs
    BY <1>1, <2>1 DEF C!Candidates, C!Matches
  <2>3. \A c, d : C!Stronger(c, d)' <=> C!Stronger(c, d)
    BY <1>1 DEF C!Stronger, C!Specificity
  <2>4. C!Winner(n, p)' = C!Winner(n, p)
    <3>1. C!Winner(n, p)' = (CHOOSE c \in cs : \A d \in cs : C!Stronger(c, d)')[2]
      BY <2>2 DEF C!Winner
    <3> QED
      BY <2>1, <2>3, <3>1 DEF C!Winner
  <2> QED
    BY <1>1, <2>1, <2>2, <2>4 DEF Given
<1>4. StylesInv'
  BY <1>1, <1>3 DEF CascadeInv, StylesInv
<1> QED
  BY <1>2, <1>4 DEF CascadeInv

LEMMA StyleStep ==
  ASSUME StyleInv, [StyleNext]_styleVars
  PROVE  StyleInv'
<1>1. CASE UNCHANGED styleVars
  <2>1. UNCHANGED vars /\ UNCHANGED cascadeVars
    BY <1>1 DEF styleVars
  <2> QED
    BY <2>1, ParserStep, SameStyles DEF StyleInv
<1>2. CASE ParseSheet
  BY <1>2, ParserStep, SameStyles DEF ParseSheet, StyleInv
<1>3. CASE HandOver
  BY <1>3, HandsOver
<1>4. CASE Style
  <2>1. ParserInv'
    BY <1>4, ParserStep DEF Style, StyleInv
  <2>2. CASE C!CascadeNode
    BY <2>1, <2>2, CascadeStep DEF StyleInv
  <2>3. CASE C!Done
    <3>1. UNCHANGED cascadeVars
      BY <2>3 DEF C!Done, C!vars, cascadeVars
    <3> QED
      BY <2>1, <3>1, SameStyles DEF StyleInv
  <2> QED
    BY <1>4, <2>2, <2>3 DEF Style, C!Next
<1> QED
  BY <1>1, <1>2, <1>3, <1>4 DEF StyleNext

THEOREM StyleHolds == StyleSpec => []StyleInv
<1>1. StyleInit => StyleInv
  BY StyleStart
<1>2. StyleInv /\ [StyleNext]_styleVars => StyleInv'
  BY StyleStep
<1> QED
  BY <1>1, <1>2, PTL DEF StyleSpec

\* Whatever the text, and however large the pools: the declarations of a rule
\* are one range of the sheet, all of its own block and no others, and no part
\* of the syntax is in any of them.
THEOREM RulesOwn == StyleSpec => []RulesOwnTheirDeclarations
<1>1. StyleInv => RulesOwnTheirDeclarations
  BY OwnedIs DEF StyleInv
<1> QED
  BY <1>1, StyleHolds, PTL

\* Pools that fill cost the end of the text and nothing else, and a sheet that
\* is not marked as cut is the whole text's, whatever their sizes.
THEOREM BudgetsCut == StyleSpec => []BudgetsCutTheEnd
<1>1. StyleInv => BudgetsCutTheEnd
  BY CutIs DEF StyleInv
<1> QED
  BY <1>1, StyleHolds, PTL

\* The computed values are the cascade's: of every sheet whose rules have their
\* declarations in it, those the parser makes among them, and every document
\* with its parents first.
THEOREM StylesCascade == StyleSpec => []ComputedIsCascade
<1>1. StyleInv => ComputedIsCascade
  BY CascadeIs DEF StyleInv
<1> QED
  BY <1>1, StyleHolds, PTL
=============================================================================
