-------------------------- MODULE StaticPage_proofs --------------------------
(***************************************************************************)
(* The stages of a page, for every size of the pools.  First the tree of   *)
(* HtmlDom, which is well built, then the tokens of every text             *)
(* (HtmlSource): they are what the text says and what HtmlDom takes for    *)
(* granted, so that it all holds over the tokenizer.  Finally, for every   *)
(* DOM that HtmlDom builds, the box tree that layout makes, the display    *)
(* list, and what the page says of itself when it returns.                 *)
(***************************************************************************)
EXTENDS StaticPage, HtmlSource, SequenceTheorems, Induction, TLAPS

(***************************************************************************)
(* The inductive invariant.  Besides the properties it says that the open  *)
(* elements may have children, lie as deep as their place on the stack,    *)
(* and have been open since they were made, so that all later nodes are    *)
(* below them.                                                             *)
(***************************************************************************)
Spine ==
  /\ OpenIsLastBranch
  /\ \A i, j \in 1..Len(stack) : i < j => stack[i] < stack[j]
  /\ \A i \in 1..Len(stack) :
       /\ nodes[stack[i]].type # "TEXT"
       /\ nodes[stack[i]].name \notin Void
       /\ nodes[stack[i]].level = i - 1
  /\ \A i \in 1..Len(stack) : \A m \in Id : m > stack[i] => parent[m] >= stack[i]

TreeShape == TreeLinked /\ LeavesStayLeaves /\ DocumentOrder /\ Spine

\* What AddNode does to the pool, entry by entry.
Grown(node) ==
  LET n == Len(nodes)
  IN /\ nodes' \in Seq(Node) /\ Len(nodes') = n + 1
     /\ nodes'[n + 1] = node
     /\ \A m \in Id : nodes'[m] = nodes[m]
     /\ parent' \in Seq(Nat) /\ Len(parent') = n + 1
     /\ parent'[n + 1] = Top
     /\ \A m \in Id : parent'[m] = parent[m]
     /\ firstChild' \in Seq(Nat) /\ Len(firstChild') = n + 1
     /\ firstChild'[n + 1] = 0
     /\ \A m \in Id : firstChild'[m] = IF m = Top /\ firstChild[m] = 0 THEN n + 1
                                       ELSE firstChild[m]
     /\ lastChild' \in Seq(Nat) /\ Len(lastChild') = n + 1
     /\ lastChild'[n + 1] = 0
     /\ \A m \in Id : lastChild'[m] = IF m = Top THEN n + 1 ELSE lastChild[m]
     /\ nextSibling' \in Seq(Nat) /\ Len(nextSibling') = n + 1
     /\ nextSibling'[n + 1] = 0
     /\ \A m \in Id : nextSibling'[m] = IF firstChild[Top] # 0 /\ m = lastChild[Top]
                                          THEN n + 1 ELSE nextSibling[m]

(***************************************************************************)
(* Facts about sequences and about the arenas.                             *)
(***************************************************************************)
LEMMA AppendLink ==
  ASSUME NEW s \in Seq(Nat), NEW e \in Nat
  PROVE  /\ Append(s, e) \in Seq(Nat)
         /\ Len(Append(s, e)) = Len(s) + 1
         /\ Append(s, e)[Len(s) + 1] = e
         /\ \A m \in 1..Len(s) : Append(s, e)[m] = s[m]
OBVIOUS

LEMMA ExceptLink ==
  ASSUME NEW s \in Seq(Nat), NEW i, NEW e \in Nat
  PROVE  /\ [s EXCEPT ![i] = e] \in Seq(Nat)
         /\ Len([s EXCEPT ![i] = e]) = Len(s)
         /\ \A m \in 1..Len(s) : [s EXCEPT ![i] = e][m] = IF m = i THEN e ELSE s[m]
<1>1. CASE i \in 1..Len(s)
  BY <1>1
<1>2. CASE i \notin 1..Len(s)
  <2>1. DOMAIN s = 1..Len(s)
    OBVIOUS
  <2>2. [s EXCEPT ![i] = e] = s
    BY <1>2, <2>1
  <2> QED
    BY <1>2, <2>2
<1> QED
  BY <1>1, <1>2

LEMMA ArenaFits ==
  ASSUME TypeOK, NEW n \in Nat
  PROVE  /\ Interned(n) \in 0..Arena
         /\ string_len + Interned(n) \in 0..Arena
         /\ Interned(n) <= n
         /\ Interned(n) < n => string_len + Interned(n) = Arena
BY DomConstants DEF TypeOK, Interned, Least

LEMMA AttrsFit ==
  ASSUME TypeOK, NEW n \in Nat
  PROVE  /\ Recorded(n) \in 0..MaxAttrs
         /\ attr_count + Recorded(n) \in 0..MaxAttrs
         /\ Recorded(n) <= n
         /\ Recorded(n) < n => attr_count + Recorded(n) = MaxAttrs
BY DomConstants DEF TypeOK, Recorded, Least

LEMMA TopTyped ==
  ASSUME TypeOK
  PROVE  Len(nodes) \in Nat /\ Len(stack) \in 1..Len(stack) /\ Top \in Id
<1>1. Len(nodes) \in Nat
  BY DEF TypeOK
<1>2. stack \in Seq(Id) /\ Len(stack) \in 1..Len(stack)
  BY DomConstants DEF TypeOK
<1>3. Top \in Id
  BY <1>2, ElementOfSeq DEF Top
<1> QED
  BY <1>1, <1>2, <1>3

(***************************************************************************)
(* AddNode grows the pool by one entry under Top.                          *)
(***************************************************************************)
LEMMA AddNodeGrows ==
  ASSUME TypeOK, NEW node \in Node, AddNode(node)
  PROVE  Grown(node)
<1> DEFINE n == Len(nodes)
           fc == [firstChild EXCEPT ![Top] = IF @ = 0 THEN n + 1 ELSE @]
           lc == [lastChild EXCEPT ![Top] = n + 1]
           ns == IF firstChild[Top] = 0 THEN nextSibling
                 ELSE [nextSibling EXCEPT ![lastChild[Top]] = n + 1]
<1>0. n \in Nat /\ Top \in 1..n /\ Id = 1..n
  BY TopTyped DEF Id
<1>1. /\ nodes' = Append(nodes, node)
      /\ parent' = Append(parent, Top)
      /\ firstChild' = Append(fc, 0)
      /\ lastChild' = Append(lc, 0)
      /\ nextSibling' = Append(ns, 0)
  BY DEF AddNode
<1>2. /\ parent \in Seq(Nat) /\ Len(parent) = n
      /\ firstChild \in Seq(Nat) /\ Len(firstChild) = n
      /\ lastChild \in Seq(Nat) /\ Len(lastChild) = n
      /\ nextSibling \in Seq(Nat) /\ Len(nextSibling) = n
  BY <1>0 DEF TypeOK
<1>3. /\ fc \in Seq(Nat) /\ Len(fc) = n
      /\ \A m \in 1..n : fc[m] = IF m = Top /\ firstChild[m] = 0 THEN n + 1 ELSE firstChild[m]
  BY <1>0, <1>2
<1>4. /\ lc \in Seq(Nat) /\ Len(lc) = n
      /\ \A m \in 1..n : lc[m] = IF m = Top THEN n + 1 ELSE lastChild[m]
  BY <1>0, <1>2
<1>5. /\ ns \in Seq(Nat) /\ Len(ns) = n
      /\ \A m \in 1..n : ns[m] = IF firstChild[Top] # 0 /\ m = lastChild[Top]
                                   THEN n + 1 ELSE nextSibling[m]
  <2>1. CASE firstChild[Top] = 0
    BY <2>1, <1>2
  <2>2. CASE firstChild[Top] # 0
    <3>1. ns = [nextSibling EXCEPT ![lastChild[Top]] = n + 1]
      BY <2>2
    <3>2. n + 1 \in Nat
      BY <1>0
    <3>3. /\ ns \in Seq(Nat) /\ Len(ns) = n
          /\ \A m \in 1..n : ns[m] = IF m = lastChild[Top] THEN n + 1 ELSE nextSibling[m]
      <4> HIDE DEF ns, n
      <4> QED
        BY <3>1, <3>2, <1>2, ExceptLink
    <3> QED
      BY <2>2, <3>3
  <2> QED
    BY <2>1, <2>2
<1>6. /\ nodes' \in Seq(Node) /\ Len(nodes') = n + 1 /\ nodes'[n + 1] = node
      /\ \A m \in 1..n : nodes'[m] = nodes[m]
  BY <1>1, AppendProperties DEF TypeOK
<1> HIDE DEF fc, lc, ns
<1>7. /\ parent' \in Seq(Nat) /\ Len(parent') = n + 1 /\ parent'[n + 1] = Top
      /\ \A m \in 1..n : parent'[m] = parent[m]
  <2>1. /\ Append(parent, Top) \in Seq(Nat) /\ Len(Append(parent, Top)) = n + 1
        /\ Append(parent, Top)[n + 1] = Top
        /\ \A m \in 1..n : Append(parent, Top)[m] = parent[m]
    <3>1. Top \in Nat /\ parent \in Seq(Nat) /\ Len(parent) = n
      BY <1>0, <1>2
    <3> HIDE DEF n
    <3> QED
      BY <3>1, AppendLink
  <2> QED
    BY <1>1, <2>1
<1>8. /\ firstChild' \in Seq(Nat) /\ Len(firstChild') = n + 1 /\ firstChild'[n + 1] = 0
      /\ \A m \in 1..n : firstChild'[m] = fc[m]
  <2>1. /\ Append(fc, 0) \in Seq(Nat) /\ Len(Append(fc, 0)) = n + 1
        /\ Append(fc, 0)[n + 1] = 0
        /\ \A m \in 1..n : Append(fc, 0)[m] = fc[m]
    BY <1>0, <1>3, AppendLink
  <2> QED
    BY <1>1, <2>1
<1>9. /\ lastChild' \in Seq(Nat) /\ Len(lastChild') = n + 1 /\ lastChild'[n + 1] = 0
      /\ \A m \in 1..n : lastChild'[m] = lc[m]
  BY <1>0, <1>1, <1>4
<1>10. /\ nextSibling' \in Seq(Nat) /\ Len(nextSibling') = n + 1 /\ nextSibling'[n + 1] = 0
       /\ \A m \in 1..n : nextSibling'[m] = ns[m]
  <2>1. /\ Append(ns, 0) \in Seq(Nat) /\ Len(Append(ns, 0)) = n + 1
        /\ Append(ns, 0)[n + 1] = 0
        /\ \A m \in 1..n : Append(ns, 0)[m] = ns[m]
    BY <1>0, <1>5, AppendLink
  <2> QED
    BY <1>1, <2>1
<1>11. \A m \in Id : nodes'[m] = nodes[m] /\ parent'[m] = parent[m]
  BY <1>0, <1>6, <1>7
<1>12. \A m \in Id : firstChild'[m] = IF m = Top /\ firstChild[m] = 0 THEN n + 1
                                      ELSE firstChild[m]
  BY <1>0, <1>3, <1>8
<1>13. \A m \in Id : lastChild'[m] = IF m = Top THEN n + 1 ELSE lastChild[m]
  BY <1>0, <1>4, <1>9
<1>14. \A m \in Id : nextSibling'[m] = IF firstChild[Top] # 0 /\ m = lastChild[Top]
                                         THEN n + 1 ELSE nextSibling[m]
  BY <1>0, <1>5, <1>10
<1> QED
  BY <1>6, <1>7, <1>8, <1>9, <1>10, <1>11, <1>12, <1>13, <1>14 DEF Grown

(***************************************************************************)
(* A grown pool is again a well-linked tree.                               *)
(***************************************************************************)
ChildrenAfter(p) == {c \in Id' : parent'[c] = p}

LEMMA GrownChildren ==
  ASSUME TypeOK, TreeLinked, NEW node \in Node, Grown(node)
  PROVE  /\ Id' = Id \cup {Len(nodes) + 1}
         /\ ChildrenAfter(Len(nodes) + 1) = {}
         /\ ChildrenAfter(Top) = Children(Top) \cup {Len(nodes) + 1}
         /\ \A p \in Id : p # Top => ChildrenAfter(p) = Children(p)
<1> DEFINE n == Len(nodes)
<1>1. n \in Nat /\ Top \in 1..n /\ Id = 1..n
  BY TopTyped DEF Id
<1>2. Id' = 1..(n + 1)
  BY DEF Id, Grown
<1>3. parent'[n + 1] = Top /\ \A m \in Id : parent'[m] = parent[m]
  BY DEF Grown
<1>4. \A m \in Id : parent[m] # n + 1
  BY <1>1 DEF TreeLinked
<1>5. Id' = Id \cup {n + 1}
  BY <1>1, <1>2
<1>6. ChildrenAfter(n + 1) = {}
  BY <1>1, <1>3, <1>4, <1>5 DEF ChildrenAfter
<1>7. ChildrenAfter(Top) = Children(Top) \cup {n + 1}
  BY <1>1, <1>3, <1>5 DEF ChildrenAfter, Children
<1>8. ASSUME NEW p \in Id, p # Top PROVE ChildrenAfter(p) = Children(p)
  BY <1>1, <1>3, <1>5, <1>8 DEF ChildrenAfter, Children
<1> QED
  BY <1>5, <1>6, <1>7, <1>8

LEMMA ChildFacts ==
  ASSUME TypeOK, TreeLinked, NEW p \in Id
  PROVE  /\ \A c \in Children(p) : c \in Id /\ c # 1 /\ p < c /\ parent[c] = p
         /\ firstChild[p] = 0 <=> Children(p) = {}
         /\ Children(p) # {} => /\ firstChild[p] \in Children(p)
                                /\ lastChild[p] \in Children(p)
                                /\ \A c \in Children(p) : firstChild[p] <= c /\ c <= lastChild[p]
<1>1. Id = 1..Len(nodes) /\ Len(nodes) \in Nat
  BY TopTyped DEF Id
<1>2. \A c \in Children(p) : c \in Id /\ c # 1 /\ p < c /\ parent[c] = p
  BY <1>1 DEF Children, TreeLinked
<1>3. Children(p) # {} => /\ firstChild[p] \in Children(p)
                          /\ lastChild[p] \in Children(p)
                          /\ \A c \in Children(p) : firstChild[p] <= c /\ c <= lastChild[p]
  BY DEF TreeLinked
<1>4. Children(p) = {} => firstChild[p] = 0
  BY DEF TreeLinked
<1>5. Children(p) # {} => firstChild[p] # 0
  BY <1>1, <1>2, <1>3
<1> QED
  BY <1>2, <1>3, <1>4, <1>5

LEMMA GrownLinked ==
  ASSUME TypeOK, TreeLinked, NEW node \in Node, Grown(node)
  PROVE  TreeLinked'
<1> DEFINE n == Len(nodes)
<1>1. n \in Nat /\ Top \in 1..n /\ Id = 1..n /\ Top \in Id /\ n >= 1 /\ 1 \in Id
  BY TopTyped DEF Id
<1>2. /\ Id' = Id \cup {n + 1}
      /\ ChildrenAfter(n + 1) = {}
      /\ ChildrenAfter(Top) = Children(Top) \cup {n + 1}
      /\ \A p \in Id : p # Top => ChildrenAfter(p) = Children(p)
  BY GrownChildren
<1>3. /\ parent'[n + 1] = Top /\ firstChild'[n + 1] = 0
      /\ lastChild'[n + 1] = 0 /\ nextSibling'[n + 1] = 0
      /\ \A m \in Id : parent'[m] = parent[m]
  BY DEF Grown
<1>4. /\ \A m \in Id : firstChild'[m] = IF m = Top /\ firstChild[m] = 0 THEN n + 1
                                        ELSE firstChild[m]
      /\ \A m \in Id : lastChild'[m] = IF m = Top THEN n + 1 ELSE lastChild[m]
      /\ \A m \in Id : nextSibling'[m] = IF firstChild[Top] # 0 /\ m = lastChild[Top]
                                           THEN n + 1 ELSE nextSibling[m]
  BY DEF Grown
<1>5. /\ \A c \in Children(Top) : c \in Id /\ c # 1 /\ Top < c /\ parent[c] = Top
      /\ firstChild[Top] = 0 <=> Children(Top) = {}
      /\ Children(Top) # {} => /\ firstChild[Top] \in Children(Top)
                               /\ lastChild[Top] \in Children(Top)
                               /\ \A c \in Children(Top) : firstChild[Top] <= c /\ c <= lastChild[Top]
  BY <1>1, ChildFacts
<1>6. SUFFICES ASSUME NEW p \in Id'
      PROVE  /\ IF p = 1 THEN parent'[p] = 0 ELSE parent'[p] \in 1..(p - 1)
             /\ IF ChildrenAfter(p) = {} THEN firstChild'[p] = 0 /\ lastChild'[p] = 0
                ELSE /\ firstChild'[p] \in ChildrenAfter(p) /\ lastChild'[p] \in ChildrenAfter(p)
                     /\ \A c \in ChildrenAfter(p) : firstChild'[p] <= c /\ c <= lastChild'[p]
             /\ IF p = 1 \/ lastChild'[parent'[p]] = p THEN nextSibling'[p] = 0
                ELSE /\ nextSibling'[p] \in ChildrenAfter(parent'[p])
                     /\ nextSibling'[p] > p
                     /\ \A c \in ChildrenAfter(parent'[p]) : c <= p \/ nextSibling'[p] <= c
  BY DEF TreeLinked, Children, ChildrenAfter
<1>7. CASE p = n + 1
  <2>1. parent'[p] \in 1..(p - 1) /\ p # 1
    BY <1>1, <1>3, <1>7
  <2>2. lastChild'[parent'[p]] = p /\ nextSibling'[p] = 0
    BY <1>1, <1>3, <1>4, <1>7
  <2> QED
    BY <2>1, <2>2, <1>2, <1>3, <1>7
<1>8. CASE p \in Id
  <2>1. IF p = 1 THEN parent'[p] = 0 ELSE parent'[p] \in 1..(p - 1)
    BY <1>3, <1>8 DEF TreeLinked
  <2>2. IF ChildrenAfter(p) = {} THEN firstChild'[p] = 0 /\ lastChild'[p] = 0
        ELSE /\ firstChild'[p] \in ChildrenAfter(p) /\ lastChild'[p] \in ChildrenAfter(p)
             /\ \A c \in ChildrenAfter(p) : firstChild'[p] <= c /\ c <= lastChild'[p]
    <3>1. CASE p # Top
      <4>1. ChildrenAfter(p) = Children(p) /\ firstChild'[p] = firstChild[p]
              /\ lastChild'[p] = lastChild[p]
        BY <3>1, <1>2, <1>4, <1>8
      <4> QED
        BY <4>1, <1>8 DEF TreeLinked
    <3>2. CASE p = Top
      <4>1. lastChild'[p] = n + 1 /\ \A c \in ChildrenAfter(p) : c <= n + 1
        BY <3>2, <1>1, <1>2, <1>4, <1>5
      <4>2. CASE Children(Top) = {}
        BY <3>2, <4>1, <4>2, <1>1, <1>2, <1>4, <1>5
      <4>3. CASE Children(Top) # {}
        <5>1. firstChild'[p] = firstChild[Top] /\ firstChild[Top] \in Children(Top)
          BY <3>2, <4>3, <1>1, <1>4, <1>5
        <5>2. \A c \in Children(Top) : firstChild[Top] <= c
          BY <4>3, <1>5
        <5>3. firstChild[Top] <= n + 1
          BY <5>1, <1>1, <1>5
        <5> QED
          BY <3>2, <4>1, <5>1, <5>2, <5>3, <1>2
      <4> QED
        BY <4>2, <4>3
    <3> QED
      BY <3>1, <3>2
  <2>3. IF p = 1 \/ lastChild'[parent'[p]] = p THEN nextSibling'[p] = 0
        ELSE /\ nextSibling'[p] \in ChildrenAfter(parent'[p])
             /\ nextSibling'[p] > p
             /\ \A c \in ChildrenAfter(parent'[p]) : c <= p \/ nextSibling'[p] <= c
    <3>1. CASE p = 1
      <4>1. ~(firstChild[Top] # 0 /\ 1 = lastChild[Top])
        BY <1>5
      <4>2. nextSibling[1] = 0
        BY <1>1 DEF TreeLinked
      <4> QED
        BY <3>1, <4>1, <4>2, <1>1, <1>4
    <3>2. CASE p # 1 /\ parent[p] # Top
      <4>1. parent'[p] = parent[p] /\ parent[p] \in Id /\ lastChild'[parent[p]] = lastChild[parent[p]]
              /\ ChildrenAfter(parent[p]) = Children(parent[p])
        BY <3>2, <1>1, <1>2, <1>3, <1>4, <1>8 DEF TreeLinked
      <4>2. ~(firstChild[Top] # 0 /\ p = lastChild[Top])
        BY <3>2, <1>5
      <4>3. nextSibling'[p] = nextSibling[p]
        BY <4>2, <1>4, <1>8
      <4> QED
        BY <3>2, <4>1, <4>3, <1>8 DEF TreeLinked
    <3>3. CASE p # 1 /\ parent[p] = Top
      <4>1. parent'[p] = Top /\ lastChild'[Top] = n + 1 /\ p \in Children(Top) /\ p # n + 1 /\ p < n + 1
        BY <3>3, <1>1, <1>3, <1>4, <1>8 DEF Children
      <4>a. lastChild'[parent'[p]] # p /\ ChildrenAfter(parent'[p]) = Children(Top) \cup {n + 1}
        BY <4>1, <1>2
      <4>2. CASE p = lastChild[Top]
        <5>1. nextSibling'[p] = n + 1 /\ \A c \in Children(Top) : c <= p
          BY <4>1, <4>2, <1>4, <1>5, <1>8
        <5>2. nextSibling'[p] \in ChildrenAfter(parent'[p])
          BY <4>a, <5>1
        <5>3. nextSibling'[p] > p
          BY <4>1, <5>1, <1>1, <1>8
        <5>4. ASSUME NEW c \in ChildrenAfter(parent'[p])
              PROVE  c <= p \/ nextSibling'[p] <= c
          <6>1. c \in Children(Top) \/ c = n + 1
            BY <4>a, <5>4
          <6> QED
            BY <6>1, <5>1, <1>1
        <5> QED
          BY <3>3, <4>a, <5>2, <5>3, <5>4
      <4>3. CASE p # lastChild[Top]
        <5>1. nextSibling'[p] = nextSibling[p]
          BY <4>3, <1>4, <1>8
        <5>2. /\ nextSibling[p] \in Children(Top) /\ nextSibling[p] > p
              /\ \A c \in Children(Top) : c <= p \/ nextSibling[p] <= c
          BY <3>3, <4>3, <1>8 DEF TreeLinked
        <5>3. nextSibling[p] <= n + 1
          BY <5>2, <1>1, <1>5
        <5>4. nextSibling'[p] \in ChildrenAfter(parent'[p])
          BY <4>a, <5>1, <5>2
        <5>5. ASSUME NEW c \in ChildrenAfter(parent'[p])
              PROVE  c <= p \/ nextSibling'[p] <= c
          <6>1. c \in Children(Top) \/ c = n + 1
            BY <4>a, <5>5
          <6> QED
            BY <6>1, <5>1, <5>2, <5>3
        <5> QED
          BY <3>3, <4>a, <5>1, <5>2, <5>4, <5>5
      <4> QED
        BY <4>2, <4>3
    <3> QED
      BY <3>1, <3>2, <3>3
  <2> QED
    BY <2>1, <2>2, <2>3
<1> QED
  BY <1>2, <1>7, <1>8

LEMMA GrownLeaves ==
  ASSUME TypeOK, LeavesStayLeaves, Spine, NEW node \in Node, Grown(node)
  PROVE  LeavesStayLeaves'
<1> DEFINE n == Len(nodes)
<1>1. n \in Nat /\ Top \in Id /\ Id = 1..n
  BY TopTyped DEF Id
<1>2. Id' = 1..(n + 1)
  BY DEF Id, Grown
<1>3. /\ firstChild'[n + 1] = 0
      /\ \A m \in Id : firstChild'[m] = IF m = Top /\ firstChild[m] = 0 THEN n + 1
                                         ELSE firstChild[m]
      /\ \A m \in Id : nodes'[m] = nodes[m]
  BY DEF Grown
<1>4. nodes[Top].type # "TEXT" /\ nodes[Top].name \notin Void
  BY TopTyped DEF Spine, Top
<1>5. ASSUME NEW p \in Id', nodes'[p].type = "TEXT" \/ nodes'[p].name \in Void
      PROVE  firstChild'[p] = 0
  <2>1. CASE p = n + 1
    BY <2>1, <1>3
  <2>2. CASE p \in Id
    <3>1. p # Top /\ firstChild[p] = 0
      BY <2>2, <1>3, <1>4, <1>5 DEF LeavesStayLeaves
    <3> QED
      BY <2>2, <3>1, <1>3
  <2> QED
    BY <2>1, <2>2, <1>1, <1>2
<1> QED
  BY <1>5 DEF LeavesStayLeaves

LEMMA GrownInOrder ==
  ASSUME TypeOK, TreeLinked, DocumentOrder, Spine, NEW node \in Node, Grown(node)
  PROVE  DocumentOrder'
<1> DEFINE n == Len(nodes)
<1>1. n \in Nat /\ Top \in Id /\ Id = 1..n
  BY TopTyped DEF Id
<1>2. Id' = 1..(n + 1)
  BY DEF Id, Grown
<1>3. parent'[n + 1] = Top /\ \A m \in Id : parent'[m] = parent[m]
  BY DEF Grown
<1>4. \A m \in Id : m > Top => parent[m] >= Top
  BY TopTyped DEF Spine, Top
<1>5. ASSUME NEW k \in Id', NEW m \in (parent'[k] + 1)..k
      PROVE  parent'[m] >= parent'[k]
  <2>1. CASE k = n + 1
    <3>1. CASE m = n + 1
      BY <2>1, <3>1, <1>1, <1>3
    <3>2. CASE m # n + 1
      <4>1. m \in Id /\ m > Top
        BY <2>1, <3>2, <1>1, <1>3, <1>5
      <4> QED
        BY <2>1, <4>1, <1>3, <1>4
    <3> QED
      BY <3>1, <3>2
  <2>2. CASE k \in Id
    <3>1. parent'[k] = parent[k] /\ parent[k] \in Nat
      BY <2>2, <1>1, <1>3 DEF TreeLinked
    <3>2. m \in Id
      BY <2>2, <3>1, <1>1, <1>5
    <3>3. parent[m] >= parent[k]
      BY <2>2, <3>1, <1>5 DEF DocumentOrder
    <3> QED
      BY <2>2, <3>1, <3>2, <3>3, <1>3
  <2> QED
    BY <2>1, <2>2, <1>1, <1>2
<1> QED
  BY <1>5 DEF DocumentOrder

\* The innermost element is the youngest of the open ones.
LEMMA TopYoungest ==
  ASSUME TypeOK, Spine
  PROVE  /\ \A i \in 1..Len(stack) : stack[i] \in Id /\ stack[i] <= Top
         /\ \A i \in 1..Len(stack) : i # Len(stack) => stack[i] < Top
<1>1. Len(stack) \in Nat /\ Len(stack) \in 1..Len(stack)
  BY DomConstants DEF TypeOK
<1>2. \A i \in 1..Len(stack) : stack[i] \in Id
  BY DEF TypeOK
<1>3. ASSUME NEW i \in 1..Len(stack), i # Len(stack) PROVE stack[i] < Top
  BY <1>1, <1>3 DEF Spine, Top
<1> QED
  BY <1>1, <1>2, <1>3, TopTyped DEF Id, Top

LEMMA GrownSpine ==
  ASSUME TypeOK, Spine, NEW node \in Node, Grown(node), node.level = Len(stack),
         \/ stack' = stack
         \/ /\ stack' = Append(stack, Len(nodes) + 1)
            /\ node.type # "TEXT" /\ node.name \notin Void
  PROVE  Spine'
<1> DEFINE n == Len(nodes)
           d == Len(stack)
<1>1. n \in Nat /\ Id = 1..n /\ d \in Nat /\ d \in 1..d /\ Top = stack[d] /\ Top \in Id
  <2>1. n \in Nat /\ d \in 1..d /\ Top \in Id
    BY TopTyped
  <2>2. d \in Nat
    BY DomConstants DEF TypeOK
  <2> QED
    BY <2>1, <2>2 DEF Id, Top
<1>2. Id' = 1..(n + 1)
  BY DEF Id, Grown
<1>3. /\ \A i \in 1..d : stack[i] \in Id /\ stack[i] <= Top
      /\ \A i \in 1..d : i # d => stack[i] < Top
  BY TopYoungest
<1>4. /\ parent'[n + 1] = Top /\ nodes'[n + 1] = node
      /\ \A m \in Id : parent'[m] = parent[m] /\ nodes'[m] = nodes[m]
      /\ \A m \in Id : lastChild'[m] = IF m = Top THEN n + 1 ELSE lastChild[m]
  BY DEF Grown
<1>5. stack \in Seq(Id)
  BY DEF TypeOK
<1>6. /\ Len(stack') \in {d, d + 1}
      /\ \A i \in 1..d : stack'[i] = stack[i]
      /\ Len(stack') = d + 1 => /\ stack'[d + 1] = n + 1
                               /\ node.type # "TEXT" /\ node.name \notin Void
  <2>1. CASE stack' = stack
    BY <2>1, <1>1
  <2>2. CASE stack' = Append(stack, n + 1) /\ node.type # "TEXT" /\ node.name \notin Void
    <3>1. /\ Len(Append(stack, n + 1)) = d + 1 /\ Append(stack, n + 1)[d + 1] = n + 1
          /\ \A i \in 1..d : Append(stack, n + 1)[i] = stack[i]
      BY <1>1, <1>5
    <3> QED
      BY <2>2, <3>1
  <2> QED
    BY <2>1, <2>2
<1>7. \A i \in 1..Len(stack') : i \in 1..d \/ (i = d + 1 /\ Len(stack') = d + 1)
  BY <1>1, <1>6
<1> HIDE DEF n, d
<1>8. OpenIsLastBranch'
  <2>1. stack'[1] = 1
    BY <1>1, <1>6 DEF Spine, OpenIsLastBranch
  <2>2. ASSUME NEW i \in 2..Len(stack')
        PROVE  parent'[stack'[i]] = stack'[i - 1] /\ lastChild'[stack'[i - 1]] = stack'[i]
    <3>1. CASE i \in 1..d
      <4>1. i \in 2..d /\ i - 1 \in 1..d /\ i - 1 # d
        BY <3>1, <1>1, <2>2
      <4>2. stack'[i] = stack[i] /\ stack'[i - 1] = stack[i - 1]
              /\ stack[i] \in Id /\ stack[i - 1] \in Id
        BY <3>1, <4>1, <1>3, <1>6
      <4>3. stack[i - 1] # Top
        BY <4>1, <4>2, <1>1, <1>3
      <4>4. parent[stack[i]] = stack[i - 1] /\ lastChild[stack[i - 1]] = stack[i]
        BY <4>1 DEF Spine, OpenIsLastBranch, d
      <4> QED
        BY <4>2, <4>3, <4>4, <1>4
    <3>2. CASE i = d + 1 /\ Len(stack') = d + 1
      <4>1. stack'[i] = n + 1 /\ stack'[i - 1] = Top
        BY <3>2, <1>1, <1>6
      <4> QED
        BY <4>1, <1>1, <1>4
    <3> QED
      BY <3>1, <3>2, <1>7, <2>2
  <2> QED
    BY <2>1, <2>2 DEF OpenIsLastBranch
<1>9. ASSUME NEW i \in 1..Len(stack'), NEW j \in 1..Len(stack'), i < j
      PROVE  stack'[i] < stack'[j]
  <2>1. CASE j \in 1..d
    <3>1. i \in 1..d
      BY <2>1, <1>1, <1>9, <1>7
    <3>2. stack[i] < stack[j]
      BY <2>1, <3>1, <1>9 DEF Spine, d
    <3> QED
      BY <2>1, <3>1, <3>2, <1>6
  <2>2. CASE j = d + 1 /\ Len(stack') = d + 1
    <3>1. i \in 1..d
      BY <2>2, <1>1, <1>9, <1>7
    <3>2. stack'[i] \in 1..n /\ stack'[j] = n + 1
      BY <2>2, <3>1, <1>1, <1>3, <1>6
    <3> QED
      BY <3>2, <1>1
  <2> QED
    BY <2>1, <2>2, <1>7
<1>10. ASSUME NEW i \in 1..Len(stack')
       PROVE  /\ nodes'[stack'[i]].type # "TEXT"
              /\ nodes'[stack'[i]].name \notin Void
              /\ nodes'[stack'[i]].level = i - 1
  <2>1. CASE i \in 1..d
    <3>1. stack'[i] = stack[i] /\ nodes'[stack[i]] = nodes[stack[i]]
      BY <2>1, <1>3, <1>4, <1>6
    <3> QED
      BY <2>1, <3>1 DEF Spine, d
  <2>2. CASE i = d + 1 /\ Len(stack') = d + 1
    BY <2>2, <1>1, <1>4, <1>6 DEF d
  <2> QED
    BY <2>1, <2>2, <1>7
<1>11. ASSUME NEW i \in 1..Len(stack'), NEW m \in Id', m > stack'[i]
       PROVE  parent'[m] >= stack'[i]
  <2>1. CASE i \in 1..d
    <3>1. stack'[i] = stack[i] /\ stack[i] \in 1..n /\ stack[i] <= Top
      BY <2>1, <1>1, <1>3, <1>6
    <3>2. CASE m = n + 1
      BY <3>1, <3>2, <1>1, <1>4
    <3>3. CASE m \in Id
      <4>1. m > stack[i]
        BY <3>1, <1>11
      <4>2. parent[m] >= stack[i]
        BY <2>1, <3>3, <4>1 DEF Spine, d
      <4> QED
        BY <3>1, <3>3, <4>2, <1>4
    <3> QED
      BY <3>2, <3>3, <1>1, <1>2
  <2>2. CASE i = d + 1 /\ Len(stack') = d + 1
    <3>1. m > n + 1 /\ m \in 1..(n + 1)
      BY <2>2, <1>2, <1>6, <1>11
    <3> QED
      BY <3>1, <1>1
  <2> QED
    BY <2>1, <2>2, <1>7
<1> QED
  BY <1>8, <1>9, <1>10, <1>11 DEF Spine

(***************************************************************************)
(* What a token that adds no node leaves of the invariant.                 *)
(***************************************************************************)
LEMMA UngrownShape ==
  ASSUME TypeOK, TreeShape, UNCHANGED tree, NEW k \in 2..(Len(stack) + 1),
         stack' = SubSeq(stack, 1, k - 1)
  PROVE  TreeShape'
<1>1. /\ nodes' = nodes /\ parent' = parent /\ firstChild' = firstChild
      /\ lastChild' = lastChild /\ nextSibling' = nextSibling
  BY DEF tree
<1>2. TreeLinked' /\ LeavesStayLeaves' /\ DocumentOrder'
  BY <1>1 DEF TreeShape, TreeLinked, LeavesStayLeaves, DocumentOrder, Id, Children
<1>3. /\ Len(stack) \in Nat /\ Len(stack') = k - 1 /\ 1..(k - 1) \subseteq 1..Len(stack)
      /\ \A i \in 1..(k - 1) : stack'[i] = stack[i]
  <2>1. stack \in Seq(Id)
    BY DEF TypeOK
  <2>2. Len(stack) \in Nat
    BY <2>1
  <2>3. /\ Len(SubSeq(stack, 1, k - 1)) = k - 1
        /\ \A i \in 1..(k - 1) : SubSeq(stack, 1, k - 1)[i] = stack[i]
    BY <2>1, <2>2
  <2> QED
    BY <2>2, <2>3
<1>4. OpenIsLastBranch'
  <2>1. stack'[1] = 1
    BY <1>3 DEF TreeShape, Spine, OpenIsLastBranch
  <2>2. ASSUME NEW i \in 2..Len(stack')
        PROVE  parent'[stack'[i]] = stack'[i - 1] /\ lastChild'[stack'[i - 1]] = stack'[i]
    <3>1. i \in 1..(k - 1) /\ i - 1 \in 1..(k - 1) /\ i \in 2..Len(stack)
      BY <1>3, <2>2
    <3>2. stack'[i] = stack[i] /\ stack'[i - 1] = stack[i - 1]
      BY <1>3, <3>1
    <3> QED
      BY <1>1, <3>1, <3>2 DEF TreeShape, Spine, OpenIsLastBranch
  <2> QED
    BY <2>1, <2>2 DEF OpenIsLastBranch
<1>5. \A i, j \in 1..Len(stack') : i < j => stack'[i] < stack'[j]
  BY <1>3 DEF TreeShape, Spine
<1>6. \A i \in 1..Len(stack') :
         /\ nodes'[stack'[i]].type # "TEXT"
         /\ nodes'[stack'[i]].name \notin Void
         /\ nodes'[stack'[i]].level = i - 1
  BY <1>1, <1>3 DEF TreeShape, Spine
<1>7. \A i \in 1..Len(stack') : \A m \in Id' : m > stack'[i] => parent'[m] >= stack'[i]
  BY <1>1, <1>3 DEF TreeShape, Spine, Id
<1> QED
  BY <1>2, <1>4, <1>5, <1>6, <1>7 DEF TreeShape, Spine

LEMMA GrownShape ==
  ASSUME TypeOK, TreeShape, NEW node \in Node, AddNode(node), node.level = Len(stack),
         \/ stack' = stack
         \/ /\ stack' = Append(stack, Len(nodes) + 1)
            /\ node.type # "TEXT" /\ node.name \notin Void
  PROVE  TreeShape'
<1>1. Grown(node)
  BY AddNodeGrows
<1>2. TreeLinked'
  BY <1>1, GrownLinked DEF TreeShape
<1>3. LeavesStayLeaves' /\ DocumentOrder'
  BY <1>1, GrownLeaves, GrownInOrder DEF TreeShape
<1>4. Spine'
  BY <1>1, GrownSpine DEF TreeShape
<1> QED
  BY <1>2, <1>3, <1>4 DEF TreeShape

(***************************************************************************)
(* Types.                                                                  *)
(***************************************************************************)
LEMMA WidenSeq ==
  ASSUME NEW S, NEW T, S \subseteq T, NEW s \in Seq(S)
  PROVE  s \in Seq(T)
<1>1. Len(s) \in Nat /\ \A i \in 1..Len(s) : s[i] \in T
  OBVIOUS
<1> QED
  BY <1>1

LEMMA ElementTyped ==
  ASSUME TypeOK, NEW name \in Name, NEW n \in Nat
  PROVE  /\ Element(name, Recorded(n)) \in Node
         /\ Element(name, Recorded(n)).level = Len(stack)
         /\ Element(name, Recorded(n)).type # "TEXT"
         /\ Element(name, Recorded(n)).name = name
<1>1. attr_count \in 0..MaxAttrs /\ Recorded(n) \in 0..MaxAttrs
  BY AttrsFit DEF TypeOK
<1>2. Len(stack) \in 0..MaxDepth /\ 0 \in 0..Arena
  BY DomConstants DEF TypeOK
<1> QED
  BY <1>1, <1>2 DEF Element, Root, Node

LEMMA TextNodeTyped ==
  ASSUME TypeOK, NEW n \in Nat, NEW decoded \in BOOLEAN
  PROVE  /\ TextNode(Interned(n), decoded) \in Node
         /\ TextNode(Interned(n), decoded).level = Len(stack)
<1>1. Interned(n) \in 0..Arena /\ raw \in RawText \cup {None}
  BY ArenaFits DEF TypeOK
<1>2. Len(stack) \in 0..MaxDepth /\ 0 \in 0..MaxAttrs
  BY DomConstants DEF TypeOK
<1> QED
  BY <1>1, <1>2 DEF TextNode, Root, Node

Codes == Budgets \cup {"SCRIPT_BLOCKED", "STRAY_END_TAG", "UNCLOSED_TAG", "UNCLOSED_COMMENT"}

LEMMA WarnTyped ==
  ASSUME TypeOK, NEW codes \in SUBSET Codes, Warn(codes)
  PROVE  warnings' \subseteq Codes /\ truncated' \in BOOLEAN
<1>1. warnings' \subseteq Codes
  BY DEF TypeOK, Warn, Codes
<1>2. truncated' \in BOOLEAN
  BY DEF TypeOK, Warn
<1> QED
  BY <1>1, <1>2

LEMMA OfferTyped ==
  ASSUME TypeOK, NEW n \in Nat, NEW a \in Nat, NEW b \in Nat, Offer(n, a, b)
  PROVE  offered' \in [tokens : 0..MaxTokens, nodes : Nat, attrs : Nat, bytes : Nat]
<1>1. offered \in [tokens : 0..MaxTokens, nodes : Nat, attrs : Nat, bytes : Nat]
  BY DEF TypeOK
<1>2. /\ offered.tokens + 1 \in 0..MaxTokens /\ offered.nodes + n \in Nat
      /\ offered.attrs + a \in Nat /\ offered.bytes + b \in Nat
  BY <1>1, DomConstants DEF Offer
<1> QED
  BY <1>2 DEF Offer

\* The types of the pool, and of the open elements in it.
PoolTyped ==
  /\ nodes \in Seq(Node) /\ Len(nodes) \in 1..MaxNodes
  /\ parent \in Seq(Nat) /\ Len(parent) = Len(nodes)
  /\ firstChild \in Seq(Nat) /\ Len(firstChild) = Len(nodes)
  /\ lastChild \in Seq(Nat) /\ Len(lastChild) = Len(nodes)
  /\ nextSibling \in Seq(Nat) /\ Len(nextSibling) = Len(nodes)
  /\ stack \in Seq(Id) /\ Len(stack) \in 1..MaxDepth

LEMMA GrownTyped ==
  ASSUME TypeOK, ~PoolFull, NEW node \in Node, AddNode(node),
         \/ stack' = stack
         \/ stack' = Append(stack, Len(nodes) + 1) /\ Len(stack) < MaxDepth
  PROVE  PoolTyped'
<1>1. Grown(node)
  BY AddNodeGrows
<1>2. Len(nodes) \in 1..MaxNodes /\ Len(nodes) + 1 \in 1..MaxNodes
  BY DomConstants DEF TypeOK, PoolFull
<1>3. Id \subseteq Id' /\ Len(nodes) + 1 \in Id'
  BY <1>1, <1>2 DEF Id, Grown
<1>4. stack \in Seq(Id)
  BY DEF TypeOK
<1>5. stack \in Seq(Id')
  BY <1>3, <1>4, WidenSeq
<1>6. Len(stack) \in 1..MaxDepth
  BY DEF TypeOK
<1>7. stack' \in Seq(Id') /\ Len(stack') \in 1..MaxDepth
  <2>1. CASE stack' = stack
    BY <2>1, <1>5, <1>6
  <2>2. CASE stack' = Append(stack, Len(nodes) + 1) /\ Len(stack) < MaxDepth
    <3>1. /\ Append(stack, Len(nodes) + 1) \in Seq(Id')
          /\ Len(Append(stack, Len(nodes) + 1)) = Len(stack) + 1
      BY <1>3, <1>5, AppendProperties
    <3> QED
      BY <2>2, <3>1, <1>6, DomConstants
  <2> QED
    BY <2>1, <2>2
<1> QED
  BY <1>1, <1>2, <1>7 DEF PoolTyped, Grown

LEMMA UngrownTyped ==
  ASSUME TypeOK, UNCHANGED tree, NEW k \in 2..(Len(stack) + 1),
         stack' = SubSeq(stack, 1, k - 1)
  PROVE  PoolTyped'
<1>1. /\ nodes' = nodes /\ parent' = parent /\ firstChild' = firstChild
      /\ lastChild' = lastChild /\ nextSibling' = nextSibling
  BY DEF tree
<1>2. Id' = Id
  BY <1>1 DEF Id
<1>3. stack \in Seq(Id) /\ Len(stack) \in 1..MaxDepth
  BY DEF TypeOK
<1>4. SubSeq(stack, 1, k - 1) \in Seq(Id) /\ Len(SubSeq(stack, 1, k - 1)) = k - 1
  BY <1>3, DomConstants
<1>5. stack' \in Seq(Id') /\ Len(stack') \in 1..MaxDepth
  BY <1>2, <1>3, <1>4, DomConstants
<1> QED
  BY <1>1, <1>5 DEF TypeOK, PoolTyped

\* A token that opens and closes nothing.
LEMMA WholeStack ==
  ASSUME TypeOK, stack' = stack
  PROVE  \E k \in 2..(Len(stack) + 1) : stack' = SubSeq(stack, 1, k - 1)
<1>1. stack \in Seq(Id) /\ Len(stack) \in 1..MaxDepth
  BY DEF TypeOK
<1>2. stack = SubSeq(stack, 1, (Len(stack) + 1) - 1) /\ Len(stack) + 1 \in 2..(Len(stack) + 1)
  BY <1>1, DomConstants
<1> QED
  BY <1>2

(***************************************************************************)
(* One lemma per kind of token.                                            *)
(***************************************************************************)
DomInv == TypeOK /\ TreeShape

\* The rest of TypeOK.
CountersTyped ==
  /\ attr_count \in 0..MaxAttrs
  /\ string_len \in 0..Arena
  /\ truncated \in BOOLEAN
  /\ warnings \subseteq Codes
  /\ feed \in {"any", "raw", "close", "end", "done"}
  /\ raw \in RawText \cup {None}
  /\ offered \in [tokens : 0..MaxTokens, nodes : Nat, attrs : Nat, bytes : Nat]
  /\ ideal \in Seq(Name)

LEMMA TypeParts == TypeOK <=> PoolTyped /\ CountersTyped
BY DEF TypeOK, PoolTyped, CountersTyped, Codes

LEMMA TextKeeps ==
  ASSUME DomInv, NEW n \in Nat, Text(n)
  PROVE  DomInv'
<1>1. TypeOK /\ TreeShape /\ n \in Nat /\ stack' = stack
  BY DomConstants DEF DomInv, Text
<1>2. CountersTyped'
  <2>1. offered' \in [tokens : 0..MaxTokens, nodes : Nat, attrs : Nat, bytes : Nat]
    <3>1. Offer(IF n > 0 THEN 1 ELSE 0, 0, n) /\ (IF n > 0 THEN 1 ELSE 0) \in Nat
      BY DEF Text
    <3> QED
      BY <1>1, <3>1, OfferTyped
  <2>2. string_len' \in 0..Arena
    BY <1>1, ArenaFits DEF Text
  <2>3. PICK codes \in SUBSET Codes : Warn(codes)
    <3>1. StringWarning(n) \in SUBSET Codes /\ StringWarning(n) \cup NodeWarning \in SUBSET Codes
      BY DEF StringWarning, NodeWarning, Codes, Budgets
    <3> QED
      BY <3>1 DEF Text
  <2>4. warnings' \subseteq Codes /\ truncated' \in BOOLEAN
    BY <1>1, <2>3, WarnTyped
  <2> QED
    BY <1>1, <2>1, <2>2, <2>4 DEF TypeOK, CountersTyped, Text
<1>3. PoolTyped' /\ TreeShape'
  <2>1. CASE UNCHANGED tree
    <3>1. PICK k \in 2..(Len(stack) + 1) : stack' = SubSeq(stack, 1, k - 1)
      BY <1>1, WholeStack
    <3> QED
      BY <1>1, <2>1, <3>1, UngrownTyped, UngrownShape
  <2>2. CASE ~PoolFull /\ AddNode(TextNode(Interned(n), Decoded(Top)))
    <3>1. Decoded(Top) \in BOOLEAN
      BY DEF Decoded
    <3>2. /\ TextNode(Interned(n), Decoded(Top)) \in Node
          /\ TextNode(Interned(n), Decoded(Top)).level = Len(stack)
      BY <1>1, <3>1, TextNodeTyped
    <3> QED
      BY <1>1, <2>2, <3>2, GrownTyped, GrownShape
  <2> QED
    BY <2>1, <2>2 DEF Text
<1> QED
  BY <1>2, <1>3, TypeParts DEF DomInv, TypeOK, PoolTyped, CountersTyped, Codes

LEMMA ProductTyped ==
  ASSUME NEW a \in Nat, NEW b \in Nat
  PROVE  a * b \in Nat
OBVIOUS

LEMMA StartKeeps ==
  ASSUME DomInv, NEW name \in Name, NEW self_closing \in BOOLEAN, NEW unclosed \in BOOLEAN,
         NEW n \in Nat, NEW w \in Nat \ {0},
         Start(name, self_closing, n, w, unclosed)
  PROVE  DomInv'
<1>1. TypeOK /\ TreeShape /\ n \in Nat /\ w \in Nat
  BY DomConstants DEF DomInv
<1>2. Recorded(n) \in Nat /\ attr_count + Recorded(n) \in 0..MaxAttrs
  BY <1>1, AttrsFit, DomConstants
<1>3. n * w \in Nat /\ Recorded(n) * w \in Nat
  BY <1>1, <1>2, ProductTyped
<1> DEFINE bytes == Recorded(n) * w
           more == ScriptWarning(name) \cup UnclosedWarning(unclosed)
<1>4. more \subseteq Codes
  BY DEF ScriptWarning, UnclosedWarning, Codes
<1>5. CountersTyped'
  <2>1. offered' \in [tokens : 0..MaxTokens, nodes : Nat, attrs : Nat, bytes : Nat]
    BY <1>1, <1>3, OfferTyped DEF Start
  <2>2. string_len' \in 0..Arena /\ attr_count' \in 0..MaxAttrs
    <3>1. CASE PoolFull
      BY <3>1, <1>1 DEF Start, TypeOK
    <3>2. CASE ~PoolFull
      <4>1. string_len' = string_len + Interned(bytes) /\ attr_count' = attr_count + Recorded(n)
        BY <3>2 DEF Start
      <4> QED
        BY <4>1, <1>1, <1>2, <1>3, ArenaFits
    <3> QED
      BY <3>1, <3>2
  <2>3. PICK codes \in SUBSET Codes : Warn(codes)
    <3>1. CASE PoolFull
      <4>1. Warn(NodeWarning \cup ScriptWarning(name) \cup UnclosedWarning(unclosed))
        BY <3>1 DEF Start
      <4>2. NodeWarning \subseteq Codes
        BY DEF NodeWarning, Codes, Budgets
      <4>3. NodeWarning \cup ScriptWarning(name) \cup UnclosedWarning(unclosed) \in SUBSET Codes
        BY <4>2, <1>4
      <4> QED
        BY <4>1, <4>3
    <3>2. CASE ~PoolFull
      <4>1. Warn(ScriptWarning(name) \cup AttrWarning(n) \cup StringWarning(bytes)
                   \cup DepthWarning(name, self_closing) \cup UnclosedWarning(unclosed))
        BY <3>2 DEF Start
      <4>2. /\ AttrWarning(n) \subseteq Codes /\ StringWarning(bytes) \subseteq Codes
            /\ DepthWarning(name, self_closing) \subseteq Codes
        BY DEF AttrWarning, StringWarning, DepthWarning, Codes, Budgets
      <4>3. ScriptWarning(name) \cup AttrWarning(n) \cup StringWarning(bytes)
              \cup DepthWarning(name, self_closing) \cup UnclosedWarning(unclosed) \in SUBSET Codes
        BY <4>2, <1>4
      <4> QED
        BY <4>1, <4>3
    <3> QED
      BY <3>1, <3>2
  <2>4. warnings' \subseteq Codes /\ truncated' \in BOOLEAN
    BY <1>1, <2>3, WarnTyped
  <2>5. feed' \in {"any", "raw", "close", "end", "done"} /\ raw' \in RawText \cup {None}
    BY <1>1 DEF Start, TypeOK
  <2>6. ideal' \in Seq(Name)
    BY <1>1, AppendProperties DEF Start, TypeOK
  <2> QED
    BY <2>1, <2>2, <2>4, <2>5, <2>6 DEF CountersTyped
<1>6. PoolTyped' /\ TreeShape'
  <2>1. CASE PoolFull
    <3>1. UNCHANGED tree /\ stack' = stack
      BY <2>1 DEF Start
    <3>2. PICK k \in 2..(Len(stack) + 1) : stack' = SubSeq(stack, 1, k - 1)
      BY <1>1, <3>1, WholeStack
    <3> QED
      BY <1>1, <3>1, <3>2, UngrownTyped, UngrownShape
  <2>2. CASE ~PoolFull
    <3> DEFINE node == Element(name, Recorded(n))
    <3>1. AddNode(node)
      BY <2>2 DEF Start
    <3>2. node \in Node /\ node.level = Len(stack) /\ node.type # "TEXT" /\ node.name = name
      BY <1>1, ElementTyped
    <3>3. \/ stack' = stack
          \/ /\ stack' = Append(stack, Len(nodes) + 1) /\ Len(stack) < MaxDepth
             /\ name \notin Void
      BY <2>2 DEF Start, Opens
    <3> HIDE DEF node
    <3> QED
      BY <1>1, <2>2, <3>1, <3>2, <3>3, GrownTyped, GrownShape
  <2> QED
    BY <2>1, <2>2
<1> QED
  BY <1>5, <1>6, TypeParts DEF DomInv, TypeOK, PoolTyped, CountersTyped, Codes

LEMMA EndKeeps ==
  ASSUME DomInv, NEW name, NEW unclosed \in BOOLEAN, End(name, unclosed)
  PROVE  DomInv'
<1>1. TypeOK /\ TreeShape /\ UNCHANGED tree
  BY DEF DomInv, End
<1>2. PICK k \in 2..(Len(stack) + 1) : stack' = SubSeq(stack, 1, k - 1)
  <2>1. CASE Matches(name) # {}
    <3>1. PICK k \in Matches(name) : stack' = SubSeq(stack, 1, k - 1)
      BY <2>1 DEF End, Closed
    <3>2. k \in 2..Len(stack) /\ Len(stack) \in Nat
      BY <1>1, <3>1, DomConstants DEF Matches, TypeOK
    <3>3. k \in 2..(Len(stack) + 1)
      BY <3>2
    <3> QED
      BY <3>1, <3>3
  <2>2. CASE Matches(name) = {}
    BY <2>2, <1>1, WholeStack DEF End
  <2> QED
    BY <2>1, <2>2
<1>3. PoolTyped' /\ TreeShape'
  BY <1>1, <1>2, UngrownTyped, UngrownShape
<1>4. CountersTyped'
  <2>1. offered' \in [tokens : 0..MaxTokens, nodes : Nat, attrs : Nat, bytes : Nat]
    BY <1>1, OfferTyped DEF End
  <2>2. PICK codes \in SUBSET Codes : Warn(codes)
    <3>1. /\ UnclosedWarning(unclosed) \in SUBSET Codes
          /\ {"STRAY_END_TAG"} \cup UnclosedWarning(unclosed) \in SUBSET Codes
      BY DEF UnclosedWarning, Codes
    <3> QED
      BY <3>1 DEF End
  <2>3. warnings' \subseteq Codes /\ truncated' \in BOOLEAN
    BY <1>1, <2>2, WarnTyped
  <2>4. ideal' \in Seq(Name)
    <3>1. ideal \in Seq(Name) /\ Len(ideal) \in Nat
      BY <1>1 DEF TypeOK
    <3>2. ASSUME NEW j \in 1..Len(ideal) PROVE SubSeq(ideal, 1, j - 1) \in Seq(Name)
      BY <3>1
    <3> QED
      BY <3>1, <3>2 DEF End
  <2>5. feed' \in {"any", "raw", "close", "end", "done"} /\ raw' \in RawText \cup {None}
    BY DEF End
  <2>6. attr_count' \in 0..MaxAttrs /\ string_len' \in 0..Arena
    BY <1>1 DEF End, TypeOK
  <2> QED
    BY <2>1, <2>3, <2>4, <2>5, <2>6 DEF CountersTyped
<1> QED
  BY <1>3, <1>4, TypeParts DEF DomInv, TypeOK, PoolTyped, CountersTyped, Codes

LEMMA QuietKeeps ==
  ASSUME DomInv, UnclosedComment \/ Finish \/ UNCHANGED vars
  PROVE  DomInv'
<1>1. TypeOK /\ TreeShape /\ UNCHANGED tree /\ stack' = stack
  BY DEF DomInv, UnclosedComment, Finish, vars
<1>2. PICK k \in 2..(Len(stack) + 1) : stack' = SubSeq(stack, 1, k - 1)
  BY <1>1, WholeStack
<1>3. PoolTyped' /\ TreeShape'
  BY <1>1, <1>2, UngrownTyped, UngrownShape
<1>4. CountersTyped'
  <2>1. CASE UnclosedComment
    <3>1. offered' \in [tokens : 0..MaxTokens, nodes : Nat, attrs : Nat, bytes : Nat]
      BY <1>1, <2>1, OfferTyped DEF UnclosedComment
    <3>2. Warn({"UNCLOSED_COMMENT"}) /\ {"UNCLOSED_COMMENT"} \in SUBSET Codes
      BY <2>1 DEF UnclosedComment, Codes
    <3>3. warnings' \subseteq Codes /\ truncated' \in BOOLEAN
      BY <1>1, <3>2, WarnTyped
    <3> QED
      BY <1>1, <2>1, <3>1, <3>3 DEF UnclosedComment, CountersTyped, TypeOK
  <2>2. CASE Finish \/ UNCHANGED vars
    BY <1>1, <2>2 DEF Finish, vars, CountersTyped, TypeOK, Codes
  <2> QED
    BY <2>1, <2>2
<1> QED
  BY <1>3, <1>4, TypeParts DEF DomInv, TypeOK, PoolTyped, CountersTyped, Codes

LEMMA InitiallyInv == Init => DomInv
<1> SUFFICES ASSUME Init PROVE DomInv
  OBVIOUS
<1>1. /\ nodes = <<Root>> /\ parent = <<0>> /\ firstChild = <<0>> /\ lastChild = <<0>>
      /\ nextSibling = <<0>> /\ stack = <<1>> /\ Len(nodes) = 1 /\ Len(stack) = 1 /\ Id = {1}
  BY DEF Init, Id
<1>2. Root \in Node
  BY DomConstants DEF Root, Node
<1>3. PoolTyped
  BY <1>1, <1>2, DomConstants DEF PoolTyped
<1>4. CountersTyped
  BY DomConstants DEF Init, CountersTyped, Codes, Budgets
<1>5. TreeLinked /\ LeavesStayLeaves /\ DocumentOrder
  <2>1. \A p \in Id : Children(p) = {}
    BY <1>1 DEF Children
  <2> QED
    BY <1>1, <2>1 DEF TreeLinked, LeavesStayLeaves, DocumentOrder
<1>6. Spine
  <2>1. nodes[1].type # "TEXT" /\ nodes[1].name \notin Void /\ nodes[1].level = 0
    BY <1>1, DomConstants DEF Root
  <2>2. OpenIsLastBranch
    BY <1>1 DEF OpenIsLastBranch
  <2> QED
    BY <1>1, <2>1, <2>2 DEF Spine
<1> QED
  BY <1>3, <1>4, <1>5, <1>6, TypeParts DEF DomInv, TreeShape

(***************************************************************************)
(* The theorems.                                                           *)
(***************************************************************************)
\* A token of any size, or none.
AnyToken ==
  \/ \E n \in Nat : Text(n)
  \/ \E name \in Name, self_closing, unclosed \in BOOLEAN, n \in Nat, w \in Nat \ {0} :
       Start(name, self_closing, n, w, unclosed)
  \/ \E name : \E unclosed \in BOOLEAN : End(name, unclosed)
  \/ UnclosedComment
  \/ Finish
  \/ UNCHANGED vars

LEMMA NextIsToken == [Next]_vars => AnyToken
<1>1. 0..MaxText \subseteq Nat /\ 1..MaxText \subseteq Nat \ {0} /\ 0..MaxTagAttrs \subseteq Nat
  BY DomConstants
<1> QED
  BY <1>1 DEF Next, Token, Parsed, AnyToken

LEMMA InvPreserved == DomInv /\ AnyToken => DomInv'
<1> SUFFICES ASSUME DomInv, AnyToken PROVE DomInv'
  OBVIOUS
<1>1. CASE \E n \in Nat : Text(n)
  BY <1>1, TextKeeps
<1>2. CASE \E name \in Name, self_closing, unclosed \in BOOLEAN,
              n \in Nat, w \in Nat \ {0} :
             Start(name, self_closing, n, w, unclosed)
  BY <1>2, StartKeeps
<1>3. CASE \E name : \E unclosed \in BOOLEAN : End(name, unclosed)
  BY <1>3, EndKeeps
<1>4. CASE UnclosedComment \/ Finish \/ UNCHANGED vars
  BY <1>4, QuietKeeps
<1> QED
  BY <1>1, <1>2, <1>3, <1>4 DEF AnyToken

LEMMA InvAlways == Spec => []DomInv
BY InitiallyInv, InvPreserved, NextIsToken, PTL DEF Spec

\* Every pool keeps its capacity and its types, whatever the capacities are:
\* capy_dom_new_node, build_attrs and capy_dom_intern stop at theirs.
THEOREM TypeCorrect == Spec => []TypeOK
<1>1. DomInv => TypeOK
  BY DEF DomInv
<1> QED
  BY <1>1, InvAlways, PTL

\* After any tokens the links of the pool are one tree, in which texts and void
\* elements are leaves: what layout and cascade walk without checks of their own.
THEOREM TreeSafe == Spec => [](TreeLinked /\ LeavesStayLeaves)
<1>1. DomInv => TreeLinked /\ LeavesStayLeaves
  BY DEF DomInv, TreeShape
<1> QED
  BY <1>1, InvAlways, PTL

\* The pool stays in document order, and the open elements stay the last branch
\* of the tree, whatever end tags are missing, misplaced or stray.
THEOREM OrderSafe == Spec => [](DocumentOrder /\ OpenIsLastBranch)
<1>1. DomInv => DocumentOrder /\ OpenIsLastBranch
  BY DEF DomInv, TreeShape, Spine
<1> QED
  BY <1>1, InvAlways, PTL
-----------------------------------------------------------------------------
(***************************************************************************)
(* What HtmlDom tells of the parts of a document that it drops, and what   *)
(* it may do to the tree it has.                                           *)
(***************************************************************************)
(***************************************************************************)
(* The names of the open elements.                                         *)
(***************************************************************************)
OpenNames == [i \in 1..(Len(stack) - 1) |-> nodes[stack[i + 1]].name]

\* Only later nodes are added, and none is changed.
Kept ==
  /\ Len(nodes') \in Nat /\ Len(nodes') >= Len(nodes)
  /\ \A m \in Id : nodes'[m] = nodes[m] /\ parent'[m] = parent[m]

LEMMA StackEntries ==
  ASSUME TypeOK
  PROVE  /\ Len(stack) \in Nat /\ Len(stack) >= 1
         /\ \A i \in 1..Len(stack) : stack[i] \in Id
         /\ OpenNames \in Seq(Name \cup {None}) /\ Len(OpenNames) = Len(stack) - 1
<1>1. stack \in Seq(Id) /\ Len(stack) \in Nat /\ Len(stack) >= 1
  BY DomConstants DEF TypeOK
<1>2. \A i \in 1..Len(stack) : stack[i] \in Id
  BY <1>1
<1>3. \A m \in Id : nodes[m].name \in Name \cup {None}
  <2>1. \A m \in Id : nodes[m] \in Node
    BY DEF TypeOK, Id
  <2> QED
    BY <2>1 DEF Node
<1>4. \A i \in 1..(Len(stack) - 1) : OpenNames[i] \in Name \cup {None}
  BY <1>1, <1>2, <1>3 DEF OpenNames
<1>5. OpenNames \in Seq(Name \cup {None}) /\ Len(OpenNames) = Len(stack) - 1
  BY <1>1, <1>4 DEF OpenNames
<1> QED
  BY <1>1, <1>2, <1>5

LEMMA NamesKept ==
  ASSUME TypeOK, Kept, stack' = stack
  PROVE  OpenNames' = OpenNames
<1>1. \A i \in 1..(Len(stack) - 1) : stack[i + 1] \in Id
  BY StackEntries
<1> QED
  BY <1>1 DEF OpenNames, Kept

LEMMA NamesPushed ==
  ASSUME TypeOK, Kept, NEW name \in Name, stack' = Append(stack, Len(nodes) + 1),
         nodes'[Len(nodes) + 1].name = name
  PROVE  OpenNames' = Append(OpenNames, name)
<1> DEFINE n == Len(stack)
<1>1. /\ n \in Nat /\ n >= 1 /\ OpenNames \in Seq(Name \cup {None}) /\ Len(OpenNames) = n - 1
      /\ \A i \in 1..n : stack[i] \in Id
  BY StackEntries
<1>2. stack \in Seq(Id)
  BY DEF TypeOK
<1>3. /\ Len(stack') = n + 1 /\ stack'[n + 1] = Len(nodes) + 1
      /\ \A i \in 1..n : stack'[i] = stack[i]
  BY <1>1, <1>2
<1>4. OpenNames' = [i \in 1..n |-> nodes'[stack'[i + 1]].name]
  BY <1>1, <1>3 DEF OpenNames
<1>5. /\ Append(OpenNames, name) \in Seq(Name \cup {None})
      /\ Len(Append(OpenNames, name)) = n
      /\ \A i \in 1..n : Append(OpenNames, name)[i] = IF i = n THEN name ELSE OpenNames[i]
  BY <1>1, AppendProperties
<1>6. ASSUME NEW i \in 1..n
      PROVE  nodes'[stack'[i + 1]].name = IF i = n THEN name ELSE OpenNames[i]
  <2>1. CASE i = n
    BY <2>1, <1>1, <1>3
  <2>2. CASE i # n
    <3>1. i \in 1..(n - 1) /\ i + 1 \in 1..n
      BY <2>2, <1>1
    <3>2. stack'[i + 1] = stack[i + 1] /\ stack[i + 1] \in Id
      BY <3>1, <1>1, <1>3
    <3> QED
      BY <2>2, <3>1, <3>2 DEF OpenNames, Kept
  <2> QED
    BY <2>1, <2>2
<1>7. OpenNames' \in Seq(Name \cup {None}) /\ Len(OpenNames') = n
  BY <1>1, <1>4, <1>5, <1>6
<1>8. \A i \in 1..n : OpenNames'[i] = Append(OpenNames, name)[i]
  BY <1>4, <1>5, <1>6
<1> QED
  BY <1>5, <1>7, <1>8, SeqEqual

LEMMA NamesCut ==
  ASSUME TypeOK, Kept, NEW k \in 2..Len(stack), stack' = SubSeq(stack, 1, k - 1)
  PROVE  OpenNames' = SubSeq(OpenNames, 1, k - 2)
<1>1. /\ Len(stack) \in Nat /\ Len(OpenNames) = Len(stack) - 1
      /\ OpenNames \in Seq(Name \cup {None})
      /\ \A i \in 1..Len(stack) : stack[i] \in Id
  BY StackEntries
<1>2. stack \in Seq(Id)
  BY DEF TypeOK
<1>3. Len(stack') = k - 1 /\ \A i \in 1..(k - 1) : stack'[i] = stack[i]
  BY <1>1, <1>2
<1>4. OpenNames' = [i \in 1..(k - 2) |-> nodes'[stack'[i + 1]].name]
  BY <1>1, <1>3 DEF OpenNames
<1>5. SubSeq(OpenNames, 1, k - 2) = [i \in 1..(k - 2) |-> OpenNames[i]]
  BY <1>1
<1>6. ASSUME NEW i \in 1..(k - 2) PROVE nodes'[stack'[i + 1]].name = OpenNames[i]
  <2>1. i + 1 \in 1..(k - 1) /\ i + 1 \in 1..Len(stack) /\ i \in 1..(Len(stack) - 1)
    BY <1>1
  <2>2. stack'[i + 1] = stack[i + 1] /\ stack[i + 1] \in Id
    BY <2>1, <1>1, <1>3
  <2> QED
    BY <2>1, <2>2 DEF OpenNames, Kept
<1> QED
  BY <1>4, <1>5, <1>6

(***************************************************************************)
(* The inductive invariant.  While the tokenizer is in raw text, the       *)
(* element of that text is the innermost open one, unless the pool was     *)
(* full, so that no text comes, or the tree too deep, which is told.       *)
(***************************************************************************)
RawInv ==
  /\ feed = "any" => raw = None
  /\ feed = "raw" => "DEPTH_LIMIT" \in warnings \/ PoolFull \/ nodes[Top].name = raw

LossInv == WarningsTellLosses /\ RawInv

LEMMA WarnSays ==
  ASSUME TypeOK, NEW codes, Warn(codes)
  PROVE  /\ warnings' = warnings \cup codes
         /\ ~truncated' => ~truncated /\ codes \cap Budgets = {}
BY DEF TypeOK, Warn

\* The counters only rise, and a new warning is deserved when it is given.
LEMMA DeservedAfter ==
  ASSUME TypeOK, TypeOK', WarningsDeserved, Kept, NEW codes, warnings' = warnings \cup codes,
         attr_count' >= attr_count, string_len' >= string_len,
         "NODE_BUDGET" \in codes => PoolFull,
         "ATTR_BUDGET" \in codes => attr_count' = MaxAttrs,
         "STRING_BUDGET" \in codes => string_len' = Arena,
         "DEPTH_LIMIT" \in codes => \E n \in Id' : nodes'[n].level = MaxDepth
  PROVE  WarningsDeserved'
<1>1. Len(nodes) \in Nat /\ Len(nodes') \in 1..MaxNodes /\ MaxNodes \in Nat
  BY DomConstants DEF TypeOK
<1>2. /\ attr_count \in 0..MaxAttrs /\ attr_count' \in 0..MaxAttrs /\ MaxAttrs \in Nat
      /\ string_len \in 0..Arena /\ string_len' \in 0..Arena /\ Arena \in Nat
  BY DomConstants DEF TypeOK
<1>3. "NODE_BUDGET" \in warnings' => Len(nodes') = MaxNodes
  BY <1>1 DEF WarningsDeserved, Kept, PoolFull
<1>4. "ATTR_BUDGET" \in warnings' => attr_count' = MaxAttrs
  BY <1>2 DEF WarningsDeserved
<1>5. "STRING_BUDGET" \in warnings' => string_len' = Arena
  BY <1>2 DEF WarningsDeserved
<1>6. "DEPTH_LIMIT" \in warnings' => \E n \in Id' : nodes'[n].level = MaxDepth
  <2>1. ASSUME NEW n \in Id, nodes[n].level = MaxDepth
        PROVE  n \in Id' /\ nodes'[n].level = MaxDepth
    BY <2>1, <1>1 DEF Kept, Id
  <2> QED
    BY <2>1 DEF WarningsDeserved
<1> QED
  BY <1>3, <1>4, <1>5, <1>6 DEF WarningsDeserved

\* The texts there are stay at home, and so do new ones.
LEMMA HomeAfter ==
  ASSUME TypeOK, TreeShape, RawTextAtHome, Kept, warnings \subseteq warnings',
         \A n \in Id' \ Id :
           "DEPTH_LIMIT" \notin warnings' /\ nodes'[n].type = "TEXT" /\ nodes'[n].of # None =>
             /\ nodes'[parent'[n]].name = nodes'[n].of
             /\ nodes'[n].decoded = (nodes'[n].of \notin Verbatim)
  PROVE  RawTextAtHome'
<1> SUFFICES ASSUME "DEPTH_LIMIT" \notin warnings', NEW n \in Id',
                    nodes'[n].type = "TEXT", nodes'[n].of # None
             PROVE  /\ nodes'[parent'[n]].name = nodes'[n].of
                    /\ nodes'[n].decoded = (nodes'[n].of \notin Verbatim)
  BY DEF RawTextAtHome
<1>1. CASE n \notin Id
  BY <1>1
<1>2. CASE n \in Id
  <2>1. nodes'[n] = nodes[n] /\ parent'[n] = parent[n]
    BY <1>2 DEF Kept
  <2>2. /\ nodes[parent[n]].name = nodes[n].of
        /\ nodes[n].decoded = (nodes[n].of \notin Verbatim)
    BY <1>2, <2>1 DEF RawTextAtHome
  <2>3. n # 1
    <3>1. stack[1] = 1 /\ nodes[stack[1]].type # "TEXT"
      BY StackEntries DEF TreeShape, Spine, OpenIsLastBranch
    <3> QED
      BY <2>1, <3>1
  <2>4. parent[n] \in Id
    <3>1. parent[n] \in 1..(n - 1) /\ Len(nodes) \in Nat
      BY <1>2, <2>3 DEF TreeShape, TreeLinked, TypeOK
    <3> QED
      BY <1>2, <3>1 DEF Id
  <2>5. nodes'[parent[n]] = nodes[parent[n]]
    BY <2>4 DEF Kept
  <2> QED
    BY <2>1, <2>2, <2>5
<1> QED
  BY <1>1, <1>2

\* A step of AddNode keeps the nodes there are, as one that leaves the tree alone.
LEMMA TreeKept ==
  ASSUME TypeOK, UNCHANGED tree \/ \E node \in Node : AddNode(node)
  PROVE  Kept
<1>1. Len(nodes) \in Nat
  BY DEF TypeOK
<1>2. CASE UNCHANGED tree
  BY <1>1, <1>2 DEF Kept, tree
<1>3. ASSUME NEW node \in Node, AddNode(node) PROVE Kept
  <2>1. Grown(node)
    BY <1>3, AddNodeGrows
  <2> QED
    BY <1>1, <2>1 DEF Grown, Kept
<1> QED
  BY <1>2, <1>3

LEMMA LostParts ==
  NothingLostSilently <=>
    (~truncated => /\ Len(nodes) = 1 + offered.nodes
                   /\ attr_count = offered.attrs
                   /\ string_len = offered.bytes
                   /\ OpenNames = ideal)
BY DEF NothingLostSilently, OpenNames

LEMMA OfferAdds ==
  ASSUME NEW n, NEW a, NEW b, Offer(n, a, b)
  PROVE  /\ offered'.nodes = offered.nodes + n
         /\ offered'.attrs = offered.attrs + a
         /\ offered'.bytes = offered.bytes + b
BY DEF Offer

(***************************************************************************)
(* One lemma per kind of token.                                            *)
(***************************************************************************)
LEMMA TextTells ==
  ASSUME DomInv, DomInv', LossInv, NEW n \in Nat, Text(n)
  PROVE  LossInv'
<1> DEFINE got == Interned(n)
           node == TextNode(got, Decoded(Top))
           codes == IF got > 0 THEN StringWarning(n) \cup NodeWarning ELSE StringWarning(n)
<1>1. TypeOK /\ TypeOK' /\ TreeShape /\ n \in Nat
  BY DomConstants DEF DomInv
<1>2. /\ got \in Nat /\ got <= n /\ string_len' = string_len + got
      /\ got < n => string_len' = Arena
  BY <1>1, ArenaFits DEF Text
<1>3. Warn(codes) /\ stack' = stack /\ attr_count' = attr_count /\ raw' = raw /\ ideal' = ideal
  BY DEF Text
<1>4. /\ warnings' = warnings \cup codes
      /\ ~truncated' => ~truncated /\ codes \cap Budgets = {}
  <2> HIDE DEF codes
  <2> QED
    BY <1>1, <1>3, WarnSays
<1>5. /\ got > 0 /\ ~PoolFull => AddNode(node)
      /\ ~(got > 0 /\ ~PoolFull) => UNCHANGED tree
  BY DEF Text
<1>6. node \in Node
  BY <1>1, TextNodeTyped DEF Decoded
<1>7. Kept
  BY <1>1, <1>5, <1>6, TreeKept
<1>8. got > 0 /\ ~PoolFull => Grown(node)
  BY <1>1, <1>5, <1>6, AddNodeGrows
<1>9. NothingLostSilently'
  <2> SUFFICES ASSUME ~truncated'
               PROVE  /\ Len(nodes') = 1 + offered'.nodes
                      /\ attr_count' = offered'.attrs
                      /\ string_len' = offered'.bytes
                      /\ OpenNames' = ideal'
    BY DEF NothingLostSilently, OpenNames
  <2>1. /\ Len(nodes) = 1 + offered.nodes /\ attr_count = offered.attrs
        /\ string_len = offered.bytes /\ OpenNames = ideal
    BY <1>4, LostParts DEF LossInv, WarningsTellLosses
  <2>2. got = n /\ (got > 0 => ~PoolFull)
    BY <1>1, <1>2, <1>4 DEF StringWarning, NodeWarning, Budgets
  <2>3. /\ offered'.nodes = offered.nodes + (IF n > 0 THEN 1 ELSE 0)
        /\ offered'.attrs = offered.attrs + 0 /\ offered'.bytes = offered.bytes + n
    BY OfferAdds DEF Text
  <2>4. offered \in [tokens : 0..MaxTokens, nodes : Nat, attrs : Nat, bytes : Nat]
    BY <1>1 DEF TypeOK
  <2>5. Len(nodes') = Len(nodes) + (IF n > 0 THEN 1 ELSE 0)
    <3>1. CASE n > 0
      BY <2>2, <3>1, <1>8 DEF Grown
    <3>2. CASE ~(n > 0)
      <4>1. nodes' = nodes /\ Len(nodes) \in Nat
        BY <2>2, <3>2, <1>1, <1>5 DEF tree, TypeOK
      <4> QED
        BY <4>1, <3>2
    <3> QED
      BY <3>1, <3>2
  <2>6. OpenNames' = OpenNames
    BY <1>1, <1>3, <1>7, NamesKept
  <2> QED
    BY <2>1, <2>2, <2>3, <2>4, <2>5, <2>6, <1>1, <1>2, <1>3
<1>10. WarningsDeserved'
  <2>1. /\ "NODE_BUDGET" \in codes => PoolFull
        /\ "ATTR_BUDGET" \notin codes /\ "DEPTH_LIMIT" \notin codes
        /\ "STRING_BUDGET" \in codes => string_len' = Arena
    BY <1>2 DEF StringWarning, NodeWarning
  <2>2. attr_count' >= attr_count /\ string_len' >= string_len
    <3>1. attr_count \in Nat /\ string_len \in Nat
      BY <1>1, DomConstants DEF TypeOK
    <3> HIDE DEF got
    <3> QED
      BY <3>1, <1>2, <1>3
  <2> HIDE DEF codes
  <2> QED
    BY <1>1, <1>4, <1>7, <2>1, <2>2, DeservedAfter DEF LossInv, WarningsTellLosses
<1>11. RawTextAtHome'
  <2>1. ASSUME NEW m \in Id' \ Id, "DEPTH_LIMIT" \notin warnings',
               nodes'[m].type = "TEXT", nodes'[m].of # None
        PROVE  /\ nodes'[parent'[m]].name = nodes'[m].of
               /\ nodes'[m].decoded = (nodes'[m].of \notin Verbatim)
    <3>1. got > 0 /\ ~PoolFull
      BY <2>1, <1>5 DEF tree, Id
    <3>2. m = Len(nodes) + 1 /\ nodes'[m] = node /\ parent'[m] = Top
      <4>1. Len(nodes) \in Nat
        BY <1>1 DEF TypeOK
      <4>2. /\ Len(nodes') = Len(nodes) + 1
            /\ nodes'[Len(nodes) + 1] = node /\ parent'[Len(nodes) + 1] = Top
        BY <3>1, <1>8 DEF Grown
      <4>3. m = Len(nodes) + 1
        BY <2>1, <4>1, <4>2 DEF Id
      <4> QED
        BY <4>2, <4>3
    <3>3. node.of = raw /\ node.decoded = (nodes[Top].name \notin Verbatim)
      BY DEF TextNode, Root, Decoded
    <3>4. feed = "raw"
      BY <2>1, <3>2, <3>3 DEF Text, LossInv, RawInv
    <3>5. nodes[Top].name = raw
      BY <2>1, <3>1, <3>4, <1>4 DEF LossInv, RawInv
    <3>6. nodes'[Top] = nodes[Top]
      BY <1>1, <1>7, TopTyped DEF Kept
    <3> QED
      BY <3>2, <3>3, <3>5, <3>6
  <2> QED
    BY <1>1, <1>4, <1>7, <2>1, HomeAfter DEF LossInv, WarningsTellLosses
<1>12. RawInv'
  BY <1>3 DEF Text, LossInv, RawInv
<1> QED
  BY <1>9, <1>10, <1>11, <1>12 DEF LossInv, WarningsTellLosses

LEMMA StartTells ==
  ASSUME DomInv, DomInv', LossInv, NEW name \in Name, NEW self_closing \in BOOLEAN,
         NEW unclosed \in BOOLEAN, NEW n \in Nat, NEW w \in Nat \ {0},
         Start(name, self_closing, n, w, unclosed)
  PROVE  LossInv'
<1> DEFINE bytes == Recorded(n) * w
           node == Element(name, Recorded(n))
           notes == ScriptWarning(name) \cup UnclosedWarning(unclosed)
           losses == IF PoolFull THEN NodeWarning
                     ELSE AttrWarning(n) \cup StringWarning(bytes) \cup DepthWarning(name, self_closing)
           codes == notes \cup losses
           opened == Append(stack, Len(nodes) + 1)
<1>1. TypeOK /\ TypeOK' /\ TreeShape /\ n \in Nat /\ w \in Nat
  BY DomConstants DEF DomInv
<1>2. /\ Recorded(n) \in Nat /\ Recorded(n) <= n
      /\ Recorded(n) < n => attr_count + Recorded(n) = MaxAttrs
  BY <1>1, AttrsFit, DomConstants
<1>3. bytes \in Nat /\ n * w \in Nat
  BY <1>1, <1>2, ProductTyped
<1>4. /\ Interned(bytes) \in Nat /\ Interned(bytes) <= bytes
      /\ Interned(bytes) < bytes => string_len + Interned(bytes) = Arena
  BY <1>1, <1>3, ArenaFits, DomConstants
<1>5. Warn(codes)
  <2>1. CASE PoolFull
    <3>1. codes = NodeWarning \cup ScriptWarning(name) \cup UnclosedWarning(unclosed)
      BY <2>1
    <3> QED
      BY <2>1, <3>1 DEF Start
  <2>2. CASE ~PoolFull
    <3>1. codes = ScriptWarning(name) \cup AttrWarning(n) \cup StringWarning(bytes)
                    \cup DepthWarning(name, self_closing) \cup UnclosedWarning(unclosed)
      BY <2>2
    <3>2. Warn(ScriptWarning(name) \cup AttrWarning(n) \cup StringWarning(bytes)
                 \cup DepthWarning(name, self_closing) \cup UnclosedWarning(unclosed))
      BY <2>2 DEF Start
    <3> HIDE DEF codes
    <3> QED
      BY <3>1, <3>2
  <2> QED
    BY <2>1, <2>2
<1>6. /\ warnings' = warnings \cup codes
      /\ ~truncated' => ~truncated /\ codes \cap Budgets = {}
  <2> HIDE DEF codes
  <2> QED
    BY <1>1, <1>5, WarnSays
<1>7. notes \cap Budgets = {}
  BY DEF ScriptWarning, UnclosedWarning, Budgets
<1>8. CASE PoolFull
  <2>1. /\ nodes' = nodes /\ parent' = parent /\ stack' = stack
        /\ attr_count' = attr_count /\ string_len' = string_len
    BY <1>8 DEF Start, tree
  <2>2. Kept
    BY <1>1, <2>1 DEF Kept, TypeOK
  <2>3. losses = {"NODE_BUDGET"}
    BY <1>8 DEF NodeWarning
  <2>4. NothingLostSilently'
    <3>1. truncated'
      BY <1>1, <1>6, <2>3 DEF Budgets, TypeOK
    <3> QED
      BY <3>1 DEF NothingLostSilently
  <2>5. WarningsDeserved'
    <3>1. attr_count' >= attr_count /\ string_len' >= string_len
      BY <1>1, <2>1, DomConstants DEF TypeOK
    <3>2. codes \cap Budgets = {"NODE_BUDGET"}
      BY <1>7, <2>3 DEF Budgets
    <3>3. /\ "ATTR_BUDGET" \notin codes /\ "DEPTH_LIMIT" \notin codes
          /\ "STRING_BUDGET" \notin codes
      BY <3>2 DEF Budgets
    <3> HIDE DEF codes
    <3> QED
      BY <1>1, <1>6, <1>8, <2>2, <3>1, <3>3, DeservedAfter DEF LossInv, WarningsTellLosses
  <2>6. RawTextAtHome'
    <3>1. Id' = Id
      BY <2>1 DEF Id
    <3> QED
      BY <1>1, <1>6, <2>2, <3>1, HomeAfter DEF LossInv, WarningsTellLosses
  <2>7. RawInv'
    <3>1. PoolFull'
      BY <1>8, <2>1 DEF PoolFull
    <3>2. feed' = "any" => raw' = None
      BY DEF Start, LossInv, RawInv
    <3> QED
      BY <3>1, <3>2 DEF RawInv
  <2> QED
    BY <2>4, <2>5, <2>6, <2>7 DEF LossInv, WarningsTellLosses
<1>9. CASE ~PoolFull
  <2>1. /\ AddNode(node)
        /\ attr_count' = attr_count + Recorded(n)
        /\ string_len' = string_len + Interned(bytes)
        /\ stack' = IF Opens(name, self_closing) /\ Len(stack) < MaxDepth THEN opened ELSE stack
    BY <1>9 DEF Start
  <2>2. node \in Node /\ node.level = Len(stack) /\ node.type # "TEXT" /\ node.name = name
    BY <1>1, <1>2, ElementTyped
  <2>3. Grown(node) /\ Kept
    BY <1>1, <2>1, <2>2, AddNodeGrows, TreeKept
  <2>4. losses = AttrWarning(n) \cup StringWarning(bytes) \cup DepthWarning(name, self_closing)
    BY <1>9
  <2>5. NothingLostSilently'
    <3> SUFFICES ASSUME ~truncated'
                 PROVE  /\ Len(nodes') = 1 + offered'.nodes
                        /\ attr_count' = offered'.attrs
                        /\ string_len' = offered'.bytes
                        /\ OpenNames' = ideal'
      BY DEF NothingLostSilently, OpenNames
    <3>1. /\ Len(nodes) = 1 + offered.nodes /\ attr_count = offered.attrs
          /\ string_len = offered.bytes /\ OpenNames = ideal
      BY <1>6, LostParts DEF LossInv, WarningsTellLosses
    <3>2. losses \cap Budgets = {}
      BY <1>6
    <3>3. ~(Recorded(n) < n) /\ ~(Interned(bytes) < bytes)
      BY <2>4, <3>2 DEF AttrWarning, StringWarning, Budgets
    <3>4. Recorded(n) = n /\ Interned(bytes) = n * w
      <4>1. Recorded(n) = n
        BY <1>1, <1>2, <3>3
      <4>2. bytes = n * w
        BY <4>1
      <4>3. Interned(bytes) = bytes
        BY <1>3, <1>4, <3>3
      <4> QED
        BY <4>1, <4>2, <4>3
    <3>5. /\ offered'.nodes = offered.nodes + 1
          /\ offered'.attrs = offered.attrs + n /\ offered'.bytes = offered.bytes + n * w
      BY OfferAdds DEF Start
    <3>6. offered.nodes \in Nat /\ Len(nodes') = Len(nodes) + 1
      BY <1>1, <2>3 DEF TypeOK, Grown
    <3>7. OpenNames' = ideal'
      <4>1. CASE Opens(name, self_closing)
        <5>1. Len(stack) # MaxDepth
          BY <4>1, <2>4, <3>2 DEF DepthWarning, Budgets
        <5>2. Len(stack) < MaxDepth
          BY <1>1, <5>1, DomConstants DEF TypeOK
        <5>3. stack' = Append(stack, Len(nodes) + 1) /\ nodes'[Len(nodes) + 1].name = name
          BY <4>1, <5>2, <2>1, <2>2, <2>3 DEF Grown
        <5>4. OpenNames' = Append(OpenNames, name)
          BY <1>1, <2>3, <5>3, NamesPushed
        <5> QED
          BY <4>1, <5>4, <3>1 DEF Start
      <4>2. CASE ~Opens(name, self_closing)
        <5>1. stack' = stack
          BY <4>2, <2>1
        <5>2. OpenNames' = OpenNames
          BY <1>1, <2>3, <5>1, NamesKept
        <5> QED
          BY <4>2, <5>2, <3>1 DEF Start
      <4> QED
        BY <4>1, <4>2
    <3> HIDE DEF bytes
    <3> QED
      BY <2>1, <3>1, <3>4, <3>5, <3>6, <3>7
  <2>6. WarningsDeserved'
    <3>1. attr_count' >= attr_count /\ string_len' >= string_len
      <4>1. attr_count \in Nat /\ string_len \in Nat
        BY <1>1, DomConstants DEF TypeOK
      <4> HIDE DEF bytes
      <4> QED
        BY <4>1, <1>2, <1>4, <2>1
    <3>2. \A c \in Budgets : c \in codes => c \in losses
      BY <1>7
    <3>3. "NODE_BUDGET" \in codes => PoolFull
      BY <3>2, <2>4 DEF Budgets, AttrWarning, StringWarning, DepthWarning
    <3>4. "ATTR_BUDGET" \in codes => attr_count' = MaxAttrs
      BY <3>2, <2>1, <2>4, <1>2 DEF Budgets, AttrWarning, StringWarning, DepthWarning
    <3>5. "STRING_BUDGET" \in codes => string_len' = Arena
      <4>1. "STRING_BUDGET" \in codes => Interned(bytes) < bytes
        BY <3>2, <2>4 DEF Budgets, AttrWarning, StringWarning, DepthWarning
      <4> HIDE DEF bytes, codes
      <4> QED
        BY <4>1, <2>1, <1>4
    <3>6. "DEPTH_LIMIT" \in codes => \E m \in Id' : nodes'[m].level = MaxDepth
      <4>1. "DEPTH_LIMIT" \in codes => Len(stack) = MaxDepth
        BY <3>2, <2>4 DEF Budgets, AttrWarning, StringWarning, DepthWarning
      <4>2. Len(nodes) + 1 \in Id' /\ nodes'[Len(nodes) + 1] = node
        BY <1>1, <2>3 DEF Grown, Id, TypeOK
      <4> HIDE DEF codes, node
      <4> QED
        BY <4>1, <4>2, <2>2
    <3> HIDE DEF codes
    <3> QED
      BY <1>1, <1>6, <2>3, <3>1, <3>3, <3>4, <3>5, <3>6, DeservedAfter
      DEF LossInv, WarningsTellLosses
  <2>7. RawTextAtHome'
    <3>1. ASSUME NEW m \in Id' \ Id PROVE nodes'[m].type # "TEXT"
      <4>1. Len(nodes) \in Nat
        BY <1>1 DEF TypeOK
      <4>2. Len(nodes') = Len(nodes) + 1 /\ nodes'[Len(nodes) + 1] = node
        BY <2>3 DEF Grown
      <4>3. m = Len(nodes) + 1
        BY <3>1, <4>1, <4>2 DEF Id
      <4> HIDE DEF node
      <4> QED
        BY <2>2, <4>2, <4>3
    <3> QED
      BY <1>1, <1>6, <2>3, <3>1, HomeAfter DEF LossInv, WarningsTellLosses
  <2>8. RawInv'
    <3>1. feed' = "any" => raw' = None
      BY DEF Start, LossInv, RawInv
    <3>2. ASSUME feed' = "raw"
          PROVE  "DEPTH_LIMIT" \in warnings' \/ nodes'[Top'].name = raw'
      <4>1. name \in RawText /\ ~self_closing /\ raw' = name
        BY <3>2 DEF Start
      <4>2. Opens(name, self_closing)
        BY <4>1, DomConstants DEF Opens
      <4>3. CASE Len(stack) = MaxDepth
        <5>1. "DEPTH_LIMIT" \in codes
          BY <4>2, <4>3, <2>4 DEF DepthWarning
        <5> QED
          BY <5>1, <1>6
      <4>4. CASE Len(stack) # MaxDepth
        <5>1. stack' = opened
          <6>1. Len(stack) < MaxDepth
            BY <1>1, <4>4, DomConstants DEF TypeOK
          <6> QED
            BY <4>2, <6>1, <2>1
        <5>2. Top' = Len(nodes) + 1
          <6>1. stack \in Seq(Id) /\ Len(stack) \in Nat
            BY <1>1, DomConstants DEF TypeOK
          <6> QED
            BY <5>1, <6>1 DEF Top
        <5>3. nodes'[Len(nodes) + 1].name = name
          BY <2>2, <2>3 DEF Grown
        <5> QED
          BY <4>1, <5>2, <5>3
      <4> QED
        BY <4>3, <4>4
    <3> QED
      BY <3>1, <3>2 DEF RawInv
  <2> QED
    BY <2>5, <2>6, <2>7, <2>8 DEF LossInv, WarningsTellLosses
<1> QED
  BY <1>8, <1>9

LEMMA EndTells ==
  ASSUME DomInv, DomInv', LossInv, NEW name, NEW unclosed \in BOOLEAN,
         End(name, unclosed)
  PROVE  LossInv'
<1> DEFINE codes == IF Matches(name) # {} THEN UnclosedWarning(unclosed)
                    ELSE {"STRAY_END_TAG"} \cup UnclosedWarning(unclosed)
           open == {j \in 1..Len(ideal) : ideal[j] = name}
<1>1. TypeOK /\ TypeOK' /\ TreeShape
  BY DEF DomInv
<1>2. /\ nodes' = nodes /\ parent' = parent /\ attr_count' = attr_count
      /\ string_len' = string_len
  BY DEF End, tree
<1>3. Warn(codes) /\ codes \cap Budgets = {}
  BY DEF End, UnclosedWarning, Budgets
<1>4. warnings' = warnings \cup codes /\ (~truncated' => ~truncated)
  <2> HIDE DEF codes
  <2> QED
    BY <1>1, <1>3, WarnSays
<1>5. Kept
  BY <1>1, <1>2 DEF Kept, TypeOK
<1>6. NothingLostSilently'
  <2> SUFFICES ASSUME ~truncated'
               PROVE  /\ Len(nodes') = 1 + offered'.nodes
                      /\ attr_count' = offered'.attrs
                      /\ string_len' = offered'.bytes
                      /\ OpenNames' = ideal'
    BY DEF NothingLostSilently, OpenNames
  <2>1. /\ Len(nodes) = 1 + offered.nodes /\ attr_count = offered.attrs
        /\ string_len = offered.bytes /\ OpenNames = ideal
    BY <1>4, LostParts DEF LossInv, WarningsTellLosses
  <2>2. /\ offered'.nodes = offered.nodes + 0 /\ offered'.attrs = offered.attrs + 0
        /\ offered'.bytes = offered.bytes + 0
    BY OfferAdds DEF End
  <2>3. offered \in [tokens : 0..MaxTokens, nodes : Nat, attrs : Nat, bytes : Nat]
    BY <1>1 DEF TypeOK
  <2>4. /\ Len(stack) \in Nat /\ Len(ideal) = Len(stack) - 1
        /\ \A i \in 1..Len(ideal) : ideal[i] = nodes[stack[i + 1]].name
    BY <1>1, <2>1, StackEntries DEF OpenNames
  <2>5. ASSUME NEW j \in open PROVE j + 1 \in Matches(name)
    BY <2>4 DEF Matches
  <2>6. ASSUME NEW k \in Matches(name) PROVE k - 1 \in open
    <3>1. k \in 2..Len(stack) /\ nodes[stack[k]].name = name
      BY DEF Matches
    <3>2. k - 1 \in 1..Len(ideal) /\ (k - 1) + 1 = k
      BY <2>4, <3>1
    <3>3. ideal[k - 1] = nodes[stack[k]].name
      BY <2>4, <3>2
    <3> QED
      BY <3>1, <3>2, <3>3
  <2>7. OpenNames' = ideal'
    <3>1. CASE Matches(name) = {}
      <4>1. open = {} /\ stack' = stack
        BY <3>1, <2>5 DEF End
      <4>2. ideal' = ideal
        BY <4>1 DEF End
      <4> QED
        BY <1>1, <1>5, <2>1, <4>1, <4>2, NamesKept
    <3>2. CASE Matches(name) # {}
      <4>1. PICK k \in Matches(name) :
              (\A j \in Matches(name) : j <= k) /\ stack' = SubSeq(stack, 1, k - 1)
        BY <3>2 DEF End, Closed
      <4>2. open # {}
        BY <4>1, <2>6
      <4>3. PICK j \in open : (\A i \in open : i <= j) /\ ideal' = SubSeq(ideal, 1, j - 1)
        BY <4>2 DEF End
      <4>4. k - 1 <= j /\ j + 1 <= k /\ j \in Nat /\ k \in Nat
        <5>1. k - 1 <= j /\ j + 1 <= k
          BY <4>1, <4>3, <2>5, <2>6
        <5> QED
          BY <5>1, <2>4 DEF Matches
      <4>5. j - 1 = k - 2
        BY <4>4
      <4>6. k \in 2..Len(stack)
        BY <4>1 DEF Matches
      <4>7. OpenNames' = SubSeq(OpenNames, 1, k - 2)
        BY <1>1, <1>5, <4>1, <4>6, NamesCut
      <4> QED
        BY <2>1, <4>3, <4>5, <4>7
    <3> QED
      BY <3>1, <3>2
  <2> QED
    BY <1>2, <2>1, <2>2, <2>3, <2>7
<1>7. WarningsDeserved'
  <2>1. attr_count' >= attr_count /\ string_len' >= string_len
    BY <1>1, <1>2, DomConstants DEF TypeOK
  <2>2. /\ "NODE_BUDGET" \notin codes /\ "ATTR_BUDGET" \notin codes
        /\ "STRING_BUDGET" \notin codes /\ "DEPTH_LIMIT" \notin codes
    BY <1>3 DEF Budgets
  <2> HIDE DEF codes
  <2> QED
    BY <1>1, <1>4, <1>5, <2>1, <2>2, DeservedAfter DEF LossInv, WarningsTellLosses
<1>8. RawTextAtHome'
  <2>1. Id' = Id
    BY <1>2 DEF Id
  <2> QED
    BY <1>1, <1>4, <1>5, <2>1, HomeAfter DEF LossInv, WarningsTellLosses
<1>9. RawInv'
  BY DEF End, RawInv
<1> QED
  BY <1>6, <1>7, <1>8, <1>9 DEF LossInv, WarningsTellLosses

LEMMA CommentTells ==
  ASSUME DomInv, DomInv', LossInv, UnclosedComment
  PROVE  LossInv'
<1>1. TypeOK /\ TypeOK' /\ TreeShape
  BY DEF DomInv
<1>2. /\ nodes' = nodes /\ parent' = parent /\ stack' = stack /\ ideal' = ideal
      /\ attr_count' = attr_count /\ string_len' = string_len
  BY DEF UnclosedComment, tree
<1>3. /\ warnings' = warnings \cup {"UNCLOSED_COMMENT"}
      /\ ~truncated' => ~truncated
  BY <1>1, WarnSays DEF UnclosedComment
<1>4. Kept
  BY <1>1, <1>2 DEF Kept, TypeOK
<1>5. NothingLostSilently'
  <2>1. /\ offered'.nodes = offered.nodes + 0 /\ offered'.attrs = offered.attrs + 0
        /\ offered'.bytes = offered.bytes + 0
    BY OfferAdds DEF UnclosedComment
  <2>2. offered \in [tokens : 0..MaxTokens, nodes : Nat, attrs : Nat, bytes : Nat]
    BY <1>1 DEF TypeOK
  <2> QED
    BY <1>2, <1>3, <2>1, <2>2 DEF NothingLostSilently, LossInv, WarningsTellLosses
<1>6. WarningsDeserved'
  <2>1. attr_count' >= attr_count /\ string_len' >= string_len
    BY <1>1, <1>2, DomConstants DEF TypeOK
  <2> QED
    BY <1>1, <1>3, <1>4, <2>1, DeservedAfter DEF LossInv, WarningsTellLosses
<1>7. RawTextAtHome'
  <2>1. Id' = Id
    BY <1>2 DEF Id
  <2> QED
    BY <1>1, <1>3, <1>4, <2>1, HomeAfter DEF LossInv, WarningsTellLosses
<1>8. RawInv'
  BY DEF UnclosedComment, RawInv
<1> QED
  BY <1>5, <1>6, <1>7, <1>8 DEF LossInv, WarningsTellLosses

LEMMA QuietTells ==
  ASSUME LossInv, Finish \/ UNCHANGED vars
  PROVE  LossInv'
<1>1. /\ UNCHANGED <<tree, stack, attr_count, string_len, truncated, warnings, raw, offered, ideal>>
      /\ feed' = "done" \/ feed' = feed
  BY DEF Finish, vars
<1>2. NothingLostSilently' /\ WarningsDeserved' /\ RawTextAtHome'
  BY <1>1 DEF LossInv, WarningsTellLosses, NothingLostSilently, WarningsDeserved,
              RawTextAtHome, Id, tree
<1>3. RawInv'
  BY <1>1 DEF LossInv, RawInv, PoolFull, Top, tree
<1> QED
  BY <1>2, <1>3 DEF LossInv, WarningsTellLosses

LEMMA InitiallyTells == Init => LossInv
<1> SUFFICES ASSUME Init PROVE LossInv
  OBVIOUS
<1>1. /\ Len(nodes) = 1 /\ Len(stack) = 1 /\ Id = {1} /\ ideal = << >>
      /\ nodes[1].type = "DOCUMENT"
  BY DEF Init, Id, Root
<1>2. NothingLostSilently
  BY <1>1 DEF Init, NothingLostSilently
<1>3. WarningsDeserved /\ RawTextAtHome
  BY <1>1 DEF Init, WarningsDeserved, RawTextAtHome
<1>4. RawInv
  BY DEF Init, RawInv
<1> QED
  BY <1>2, <1>3, <1>4 DEF LossInv, WarningsTellLosses

LEMMA TellingPreserved == DomInv /\ DomInv' /\ LossInv /\ AnyToken => LossInv'
<1> SUFFICES ASSUME DomInv, DomInv', LossInv, AnyToken PROVE LossInv'
  OBVIOUS
<1>1. CASE \E n \in Nat : Text(n)
  BY <1>1, TextTells
<1>2. CASE \E name \in Name, self_closing, unclosed \in BOOLEAN,
              n \in Nat, w \in Nat \ {0} :
             Start(name, self_closing, n, w, unclosed)
  BY <1>2, StartTells
<1>3. CASE \E name : \E unclosed \in BOOLEAN : End(name, unclosed)
  BY <1>3, EndTells
<1>4. CASE UnclosedComment
  BY <1>4, CommentTells
<1>5. CASE Finish \/ UNCHANGED vars
  BY <1>5, QuietTells
<1> QED
  BY <1>1, <1>2, <1>3, <1>4, <1>5 DEF AnyToken

(***************************************************************************)
(* The theorems.                                                           *)
(***************************************************************************)
\* The truncated flag and the warnings of a document tell what was lost: with
\* neither, every node, attribute and byte is in it, the open elements are what
\* they would be without limits and raw text is in its own element; and a
\* budget warning is given only where that budget is used up.
THEOREM LossesTold == Spec => []WarningsTellLosses
<1>1. LossInv => WarningsTellLosses
  BY DEF LossInv
<1> QED
  BY <1>1, InitiallyTells, TellingPreserved, NextIsToken, InvAlways, PTL DEF Spec

LEMMA TreeGrows ==
  ASSUME TypeOK, UNCHANGED tree \/ \E node \in Node : AddNode(node)
  PROVE  /\ SubSeq(nodes', 1, Len(nodes)) = nodes
         /\ SubSeq(parent', 1, Len(nodes)) = parent
         /\ \A p \in Id : lastChild'[p] # lastChild[p] => p = Top
<1>1. /\ nodes \in Seq(Node) /\ parent \in Seq(Nat) /\ Len(parent) = Len(nodes)
      /\ Len(nodes) \in Nat
  BY DEF TypeOK
<1>2. CASE UNCHANGED tree
  BY <1>1, <1>2 DEF tree
<1>3. ASSUME NEW node \in Node, AddNode(node)
      PROVE  /\ SubSeq(nodes', 1, Len(nodes)) = nodes
             /\ SubSeq(parent', 1, Len(nodes)) = parent
             /\ \A p \in Id : lastChild'[p] # lastChild[p] => p = Top
  <2>1. Grown(node)
    BY <1>3, AddNodeGrows
  <2>2. SubSeq(nodes', 1, Len(nodes)) = nodes
    <3>1. /\ SubSeq(nodes', 1, Len(nodes)) \in Seq(Node)
          /\ Len(SubSeq(nodes', 1, Len(nodes))) = Len(nodes)
          /\ \A i \in 1..Len(nodes) : SubSeq(nodes', 1, Len(nodes))[i] = nodes'[i]
      BY <1>1, <2>1 DEF Grown
    <3>2. \A i \in 1..Len(nodes) : nodes'[i] = nodes[i]
      BY <2>1 DEF Grown, Id
    <3> QED
      BY <1>1, <3>1, <3>2, SeqEqual
  <2>3. SubSeq(parent', 1, Len(nodes)) = parent
    <3>1. parent' \in Seq(Nat) /\ Len(parent') = Len(nodes) + 1
      BY <1>1, <2>1 DEF Grown
    <3>2. SubSeq(parent', 1, Len(parent)) \in Seq(Nat)
      BY <1>1, <3>1
    <3>3. Len(SubSeq(parent', 1, Len(parent))) = Len(parent)
      BY <1>1, <3>1
    <3>4. \A i \in 1..Len(parent) : SubSeq(parent', 1, Len(parent))[i] = parent'[i]
      BY <1>1, <3>1
    <3>5. \A i \in 1..Len(parent) : parent'[i] = parent[i]
      BY <1>1, <2>1 DEF Grown, Id
    <3>6. SubSeq(parent', 1, Len(parent)) = parent
      BY <1>1, <3>2, <3>3, <3>4, <3>5, SeqEqual
    <3> QED
      BY <1>1, <3>6
  <2>4. \A p \in Id : lastChild'[p] # lastChild[p] => p = Top
    BY <2>1 DEF Grown
  <2> QED
    BY <2>2, <2>3, <2>4
<1> QED
  BY <1>2, <1>3

LEMMA TokenGrows ==
  ASSUME DomInv, AnyToken
  PROVE  GrowsAtTop
<1>1. TypeOK /\ stack \in Seq(Id) /\ Len(stack) \in Nat
  BY DomConstants DEF DomInv, TypeOK
<1>2. ASSUME NEW n \in Nat, Text(n) PROVE GrowsAtTop
  <2>1. n \in Nat /\ stack' = stack
    BY <1>2, DomConstants DEF Text
  <2>2. TextNode(Interned(n), Decoded(Top)) \in Node
    BY <1>1, <2>1, TextNodeTyped DEF Decoded
  <2>3. UNCHANGED tree \/ \E node \in Node : AddNode(node)
    BY <1>2, <2>2 DEF Text
  <2> QED
    BY <1>1, <2>1, <2>3, TreeGrows DEF GrowsAtTop
<1>3. ASSUME NEW name \in Name, NEW self_closing \in BOOLEAN, NEW unclosed \in BOOLEAN,
             NEW n \in Nat, NEW w \in Nat \ {0},
             Start(name, self_closing, n, w, unclosed)
      PROVE  GrowsAtTop
  <2>1. n \in Nat
    BY DomConstants
  <2>2. Element(name, Recorded(n)) \in Node
    BY <1>1, <2>1, ElementTyped
  <2>3. UNCHANGED tree \/ \E node \in Node : AddNode(node)
    BY <1>3, <2>2 DEF Start
  <2>4. \A i \in 1..Len(stack') :
          stack'[i] = Len(nodes') \/ (i <= Len(stack) /\ stack'[i] = stack[i])
    <3>1. CASE stack' = stack
      BY <1>1, <3>1
    <3>2. CASE ~PoolFull /\ stack' = Append(stack, Len(nodes) + 1)
      <4>1. Grown(Element(name, Recorded(n)))
        BY <1>1, <1>3, <2>2, <3>2, AddNodeGrows DEF Start
      <4>2. Len(nodes') = Len(nodes) + 1
        BY <4>1 DEF Grown
      <4> QED
        BY <1>1, <3>2, <4>2
    <3> QED
      BY <1>3, <3>1, <3>2 DEF Start
  <2> QED
    BY <1>1, <2>3, <2>4, TreeGrows DEF GrowsAtTop
<1>4. ASSUME NEW name, NEW unclosed \in BOOLEAN, End(name, unclosed)
      PROVE  GrowsAtTop
  <2>1. UNCHANGED tree
    BY <1>4 DEF End
  <2>2. \A i \in 1..Len(stack') : i <= Len(stack) /\ stack'[i] = stack[i]
    <3>1. CASE stack' = stack
      BY <1>1, <3>1
    <3>2. ASSUME NEW k \in Matches(name), stack' = SubSeq(stack, 1, k - 1)
          PROVE  \A i \in 1..Len(stack') : i <= Len(stack) /\ stack'[i] = stack[i]
      <4>1. k \in 2..Len(stack)
        BY DEF Matches
      <4> QED
        BY <1>1, <3>2, <4>1
    <3> QED
      BY <1>4, <3>1, <3>2 DEF End, Closed
  <2> QED
    BY <1>1, <2>1, <2>2, TreeGrows DEF GrowsAtTop
<1>5. CASE UnclosedComment \/ Finish \/ UNCHANGED vars
  <2>1. UNCHANGED tree /\ stack' = stack
    BY <1>5 DEF UnclosedComment, Finish, vars
  <2> QED
    BY <1>1, <2>1, TreeGrows DEF GrowsAtTop
<1> QED
  BY <1>2, <1>3, <1>4, <1>5 DEF AnyToken

\* No token changes a node there is, opens again what was closed, or gives a
\* child to any but the innermost open element.
THEOREM TreeGrowsAtTop == Spec => OnlyGrowsAtTop
<1>1. DomInv /\ [Next]_vars => [GrowsAtTop]_vars
  BY TokenGrows, NextIsToken
<1> QED
  BY <1>1, InvAlways, PTL DEF Spec, OnlyGrowsAtTop

-----------------------------------------------------------------------------
(***************************************************************************)
(* Places of a text.                                                       *)
(***************************************************************************)
Size == Len(input)
IsText == input \in Seq(Unit)

LEMMA Places ==
  ASSUME IsText
  PROVE  Size \in Nat /\ EndOfInput = Size + 1 /\ EndOfInput \in Nat
BY DEF IsText, Size, EndOfInput

\* The marks of the syntax are apart from the letters and from each other.
LEMMA MarksApart ==
  /\ Space \notin {"<", "/", ">", "!", "-", "'", "="}
  /\ \A c \in NameChar : c \notin {"<", "/", ">", "!", "'", "=", Space}
  /\ \A c \in Letter : c \notin Marks
<1>1. Space \notin {"<", "/", ">", "!", "-", "'", "="}
  BY Zenon DEF Space
<1>2. \A c \in Letter : c \notin Marks
  BY SourceConstants
<1> QED
  BY <1>1, <1>2 DEF NameChar, Marks

LEMMA FirstIs ==
  ASSUME IsText, NEW p \in 1..EndOfInput, NEW ps \in SUBSET (p..Size)
  PROVE  /\ First(ps) \in p..EndOfInput
         /\ \A i \in p..(First(ps) - 1) : i \notin ps
         /\ First(ps) # EndOfInput => First(ps) \in ps
<1>1. Size \in Nat /\ EndOfInput = Size + 1 /\ p \in Nat
  BY Places
<1>2. CASE ps = {}
  BY <1>1, <1>2 DEF First
<1>3. CASE ps # {}
  <2>1. \E n \in ps : \A m \in ps : n <= m
    <3>1. ps \in SUBSET Nat
      BY <1>1
    <3> QED
      BY <1>3, <3>1, Smallest
  <2>2. Min(ps) \in ps /\ \A m \in ps : Min(ps) <= m
    BY <2>1 DEF Min
  <2>3. First(ps) = Min(ps)
    BY <1>3 DEF First
  <2>4. First(ps) \in p..Size
    BY <2>2, <2>3, Zenon
  <2>5. ASSUME NEW i \in p..(First(ps) - 1) PROVE i \notin ps
    <3>1. ~(First(ps) <= i)
      BY <1>1, <2>4
    <3> QED
      BY <2>2, <2>3, <3>1
  <2> QED
    BY <1>1, <2>2, <2>3, <2>4, <2>5
<1> QED
  BY <1>2, <1>3

LEMMA FindIs ==
  ASSUME IsText, NEW p \in 1..EndOfInput, NEW units
  PROVE  /\ Find(p, units) \in p..EndOfInput
         /\ \A i \in p..(Find(p, units) - 1) : input[i] \notin units
         /\ Find(p, units) # EndOfInput => input[Find(p, units)] \in units
<1> DEFINE ps == {i \in p..Len(input) : input[i] \in units}
<1>1. ps \in SUBSET (p..Size) /\ Find(p, units) = First(ps)
  BY DEF Find, Size
<1>2. /\ First(ps) \in p..EndOfInput
      /\ \A i \in p..(First(ps) - 1) : i \notin ps
      /\ First(ps) # EndOfInput => First(ps) \in ps
  <2> HIDE DEF ps
  <2> QED
    BY <1>1, FirstIs
<1>3. \A i \in p..(First(ps) - 1) : i \in p..Len(input)
  BY <1>2, Places DEF Size
<1> QED
  BY <1>1, <1>2, <1>3

LEMMA PastIs ==
  ASSUME IsText, NEW p \in 1..EndOfInput, NEW units
  PROVE  /\ Past(p, units) \in p..EndOfInput
         /\ \A i \in p..(Past(p, units) - 1) : input[i] \in units
         /\ Past(p, units) # EndOfInput => input[Past(p, units)] \notin units
<1> DEFINE ps == {i \in p..Len(input) : input[i] \notin units}
<1>1. ps \in SUBSET (p..Size) /\ Past(p, units) = First(ps)
  BY DEF Past, Size
<1>2. /\ First(ps) \in p..EndOfInput
      /\ \A i \in p..(First(ps) - 1) : i \notin ps
      /\ First(ps) # EndOfInput => First(ps) \in ps
  <2> HIDE DEF ps
  <2> QED
    BY <1>1, FirstIs
<1>3. \A i \in p..(First(ps) - 1) : i \in p..Len(input)
  BY <1>2, Places DEF Size
<1> QED
  BY <1>1, <1>2, <1>3

\* A word stands where its units do.
LEMMA AtIs ==
  ASSUME IsText, NEW p \in Nat \ {0}, NEW word, Len(word) \in Nat, DOMAIN word = 1..Len(word), At(p, word)
  PROVE  /\ p + Len(word) <= EndOfInput
         /\ \A i \in 1..Len(word) : input[p + i - 1] = word[i]
<1>1. SubSeq(input, p, p + Len(word) - 1) = word /\ p + Len(word) <= EndOfInput
  BY DEF At
<1>2. \A i \in 1..Len(word) : SubSeq(input, p, p + Len(word) - 1)[i] = input[p + i - 1]
  BY <1>1, Places DEF IsText, Size
<1> QED
  BY <1>1, <1>2

LEMMA AtOne ==
  ASSUME IsText, NEW p \in Nat \ {0}, NEW c
  PROVE  At(p, <<c>>) <=> p <= Size /\ input[p] = c
<1>1. Len(<<c>>) = 1 /\ p + 1 - 1 = p /\ (p + 1 <= EndOfInput <=> p <= Size)
  BY Places
<1>2. ASSUME p <= Size PROVE SubSeq(input, p, p) = <<input[p]>>
  <2>1. input \in Seq(Unit) /\ Size = Len(input) /\ Size \in Nat /\ p \in 1..Size
    BY <1>2, Places DEF IsText, Size
  <2>2. /\ SubSeq(input, p, p) \in Seq(Unit) /\ Len(SubSeq(input, p, p)) = 1
        /\ SubSeq(input, p, p)[1] = input[p]
    BY <2>1
  <2>3. <<input[p]>> \in Seq(Unit) /\ Len(<<input[p]>>) = 1 /\ <<input[p]>>[1] = input[p]
    BY <2>1
  <2>4. \A i \in 1..1 : SubSeq(input, p, p)[i] = <<input[p]>>[i]
    BY <2>2, <2>3
  <2> QED
    BY <2>2, <2>3, <2>4, SeqEqual
<1> QED
  BY <1>1, <1>2, Places DEF At

LEMMA AtTwo ==
  ASSUME IsText, NEW p \in Nat \ {0}, NEW c, NEW d
  PROVE  At(p, <<c, d>>) <=> p < Size /\ input[p] = c /\ input[p + 1] = d
<1>1. /\ input \in Seq(Unit) /\ Size = Len(input) /\ Size \in Nat /\ p + 1 \in Nat
      /\ Len(<<c, d>>) = 2 /\ p + 2 - 1 = p + 1 /\ (p + 2 <= EndOfInput <=> p < Size)
  BY Places DEF IsText, Size
<1>2. ASSUME p < Size
      PROVE  SubSeq(input, p, p + 1) = <<c, d>> <=> input[p] = c /\ input[p + 1] = d
  <2>1. p \in 1..Size /\ p + 1 \in 1..Size
    BY <1>1, <1>2
  <2>2. /\ SubSeq(input, p, p + 1) \in Seq(Unit) /\ Len(SubSeq(input, p, p + 1)) = 2
        /\ SubSeq(input, p, p + 1)[1] = input[p] /\ SubSeq(input, p, p + 1)[2] = input[p + 1]
    BY <1>1, <2>1
  <2>3. /\ <<input[p], input[p + 1]>> \in Seq(Unit) /\ Len(<<input[p], input[p + 1]>>) = 2
        /\ <<input[p], input[p + 1]>>[1] = input[p] /\ <<input[p], input[p + 1]>>[2] = input[p + 1]
    BY <1>1, <2>1
  <2>4. \A i \in 1..2 : SubSeq(input, p, p + 1)[i] = <<input[p], input[p + 1]>>[i]
    BY <2>2, <2>3
  <2>5. SubSeq(input, p, p + 1) = <<input[p], input[p + 1]>>
    BY <2>2, <2>3, <2>4, SeqEqual
  <2> QED
    BY <2>5
<1> QED
  BY <1>1, <1>2 DEF At

LEMMA SpanIs ==
  ASSUME IsText, NEW p \in 1..EndOfInput, NEW q \in p..EndOfInput
  PROVE  /\ Span(p, q) \in Seq(Unit) /\ Len(Span(p, q)) = q - p
         /\ \A i \in 1..(q - p) : Span(p, q)[i] = input[p + i - 1]
<1>1. /\ input \in Seq(Unit) /\ Size = Len(input) /\ Size \in Nat /\ p \in Nat /\ q \in Nat
      /\ p \in 1..(Size + 1) /\ q - 1 \in (p - 1)..Size
  BY Places DEF IsText, Size
<1>2. Span(p, q) = SubSeq(input, p, q - 1)
  BY DEF Span
<1>3. /\ SubSeq(input, p, q - 1) \in Seq(Unit)
      /\ Len(SubSeq(input, p, q - 1)) = IF p <= q - 1 THEN (q - 1) - p + 1 ELSE 0
      /\ \A i \in 1..Len(SubSeq(input, p, q - 1)) : SubSeq(input, p, q - 1)[i] = input[p + i - 1]
  BY <1>1
<1>4. Len(SubSeq(input, p, q - 1)) = q - p
  BY <1>1, <1>3
<1> QED
  BY <1>2, <1>3, <1>4

(***************************************************************************)
(* What a tag holds.                                                       *)
(***************************************************************************)
\* A quote begins no value between p and q, so that no '>' stands there.
Clean(p, q) ==
  (\A i \in p..(q - 1) : input[i] # "'") => \A i \in p..(q - 1) : input[i] # ">"

AttrRec == [name : Seq(Unit), value : {<< >>} \cup {<<w>> : w \in Seq(Unit)}, to : Nat]

\* Past the end of any attribute is further on.
LEMMA AttributeIs ==
  ASSUME IsText, NEW p \in 1..Size, input[p] \notin {">", "/", Space}
  PROVE  /\ Attribute(p) \in AttrRec
         /\ Attribute(p).to \in (p + 1)..EndOfInput
         /\ Clean(p, Attribute(p).to)
<1> DEFINE end == Find(p, {"=", ">", "/", Space})
           equals == Past(end, {Space})
           v == Past(equals + 1, {Space})
           quote == Find(v + 1, {"'"})
           bare == Find(v, {Space, ">"})
<1>1. Size \in Nat /\ EndOfInput = Size + 1 /\ p \in Nat /\ p \in 1..EndOfInput
  BY Places
<1>2. /\ end \in p..EndOfInput
      /\ \A i \in p..(end - 1) : input[i] \notin {"=", ">", "/", Space}
      /\ end # EndOfInput => input[end] \in {"=", ">", "/", Space}
  BY <1>1, FindIs
<1>3. end \in 1..EndOfInput
  BY <1>1, <1>2
<1>4. /\ equals \in end..EndOfInput
      /\ \A i \in end..(equals - 1) : input[i] \in {Space}
  <2> HIDE DEF end
  <2> QED
    BY <1>3, PastIs
<1> HIDE DEF end, equals, v, quote, bare
<1>5. equals \in 1..EndOfInput /\ equals \in Nat /\ end \in Nat /\ equals \in p..EndOfInput
  BY <1>1, <1>2, <1>3, <1>4
<1>6. Span(p, end) \in Seq(Unit)
  BY <1>1, <1>2, SpanIs
<1>7. \A i \in p..(equals - 1) : input[i] # ">"
  <2>1. \A i \in p..(equals - 1) : i \in p..(end - 1) \/ i \in end..(equals - 1)
    BY <1>1, <1>5
  <2> QED
    BY <1>2, <1>4, <2>1, MarksApart
<1>8. CASE ~At(equals, <<"=">>)
  <2>1. Attribute(p) = [name |-> Span(p, end), value |-> << >>, to |-> equals]
    BY <1>8 DEF Attribute, end, equals
  <2>2. p < equals
    <3>1. CASE end # p
      BY <1>1, <1>2, <1>4, <1>5, <3>1
    <3>2. CASE end = p
      <4>1. input[p] = "="
        BY <1>1, <1>2, <3>2
      <4>2. equals # p
        BY <1>1, <1>8, <4>1, AtOne
      <4> QED
        BY <1>1, <1>5, <4>2
    <3> QED
      BY <3>1, <3>2
  <2>3. Clean(p, equals)
    BY <1>7 DEF Clean
  <2>4. Attribute(p) \in AttrRec
    BY <1>5, <1>6, <2>1 DEF AttrRec
  <2>5. Attribute(p).to = equals
    BY <2>1
  <2>6. equals \in (p + 1)..EndOfInput
    BY <1>1, <1>5, <2>2
  <2> QED
    BY <2>3, <2>4, <2>5, <2>6
<1>9. CASE At(equals, <<"=">>)
  <2>1. equals \in 1..Size /\ input[equals] = "=" /\ equals + 1 \in 1..EndOfInput
    BY <1>1, <1>5, <1>9, AtOne
  <2>2. /\ v \in (equals + 1)..EndOfInput
        /\ \A i \in (equals + 1)..(v - 1) : input[i] \in {Space}
    BY <2>1, PastIs DEF v
  <2>3. v \in 1..EndOfInput /\ v \in Nat /\ v \in (p + 1)..EndOfInput
    BY <1>1, <1>5, <2>1, <2>2
  <2>4. \A i \in p..(v - 1) : input[i] # ">"
    <3>1. \A i \in p..(v - 1) : i \in p..(equals - 1) \/ i = equals \/ i \in (equals + 1)..(v - 1)
      BY <1>1, <1>5, <2>3
    <3> QED
      BY <1>7, <2>1, <2>2, <3>1, MarksApart
  <2>5. CASE At(v, <<"'">>)
    <3>1. v \in 1..Size /\ input[v] = "'" /\ v + 1 \in 1..EndOfInput
      BY <1>1, <2>3, <2>5, AtOne
    <3>2. quote \in (v + 1)..EndOfInput
      BY <3>1, FindIs DEF quote
    <3> DEFINE after == Least(quote + 1, EndOfInput)
    <3>3. after \in (v + 1)..EndOfInput
      BY <1>1, <2>3, <3>2 DEF Least
    <3>4. Attribute(p) = [name |-> Span(p, end), value |-> <<Span(v + 1, quote)>>, to |-> after]
      BY <1>9, <2>5 DEF Attribute, end, equals, v, quote
    <3> HIDE DEF after
    <3>5. Span(v + 1, quote) \in Seq(Unit)
      BY <3>1, <3>2, SpanIs
    <3>6. after \in Nat /\ after \in (p + 1)..EndOfInput /\ v \in p..(after - 1)
      BY <1>1, <2>3, <3>3
    <3>7. Clean(p, after)
      BY <3>1, <3>6 DEF Clean
    <3>8. Attribute(p) \in AttrRec
      BY <1>6, <3>4, <3>5, <3>6 DEF AttrRec
    <3>9. Attribute(p).to = after
      BY <3>4
    <3> QED
      BY <3>6, <3>7, <3>8, <3>9
  <2>6. CASE ~At(v, <<"'">>)
    <3>1. /\ bare \in v..EndOfInput
          /\ \A i \in v..(bare - 1) : input[i] \notin {Space, ">"}
      BY <2>3, FindIs DEF bare
    <3>2. Attribute(p) = [name |-> Span(p, end), value |-> <<Span(v, bare)>>, to |-> bare]
      BY <1>9, <2>6 DEF Attribute, end, equals, v, bare
    <3>3. Span(v, bare) \in Seq(Unit)
      BY <2>3, <3>1, SpanIs
    <3>4. bare \in Nat /\ bare \in (p + 1)..EndOfInput
      BY <1>1, <2>3, <3>1
    <3>5. \A i \in p..(bare - 1) : input[i] # ">"
      <4>1. \A i \in p..(bare - 1) : i \in p..(v - 1) \/ i \in v..(bare - 1)
        BY <1>1, <2>3, <3>4
      <4> QED
        BY <2>4, <3>1, <4>1
    <3>6. Attribute(p) \in AttrRec
      BY <1>6, <3>2, <3>3, <3>4 DEF AttrRec
    <3>7. Attribute(p).to = bare
      BY <3>2
    <3>8. Clean(p, bare)
      BY <3>5 DEF Clean
    <3> QED
      BY <3>4, <3>6, <3>7, <3>8
  <2> QED
    BY <2>5, <2>6
<1> QED
  BY <1>8, <1>9

TagRec == [attrs : Seq(AttrRec), to : Nat, self_closing : BOOLEAN, unclosed : BOOLEAN]

LEMMA ReadIs ==
  ASSUME IsText, NEW i \in 1..EndOfInput, NEW f
  PROVE  /\ i = EndOfInput =>
              Read(i, f) = [attrs |-> << >>, to |-> i, self_closing |-> FALSE, unclosed |-> TRUE]
         /\ i <= Size /\ input[i] = ">" =>
              Read(i, f) = [attrs |-> << >>, to |-> i + 1, self_closing |-> FALSE, unclosed |-> FALSE]
         /\ i < Size /\ input[i] = "/" /\ input[i + 1] = ">" =>
              Read(i, f) = [attrs |-> << >>, to |-> i + 2, self_closing |-> TRUE, unclosed |-> FALSE]
         /\ i <= Size /\ (input[i] = Space \/ (input[i] = "/" /\ ~(i < Size /\ input[i + 1] = ">"))) =>
              Read(i, f) = f[i + 1]
         /\ i <= Size /\ input[i] \notin {">", "/", Space} =>
              Read(i, f) = With(Attribute(i), f[Attribute(i).to])
<1>1. Size \in Nat /\ EndOfInput = Size + 1 /\ i \in Nat \ {0}
  BY Places
<1>2. /\ At(i, <<">">>) <=> i <= Size /\ input[i] = ">"
      /\ At(i, <<"/">>) <=> i <= Size /\ input[i] = "/"
      /\ At(i, <<Space>>) <=> i <= Size /\ input[i] = Space
  BY <1>1, AtOne
<1>3. At(i, <<"/", ">">>) <=> i < Size /\ input[i] = "/" /\ input[i + 1] = ">"
  BY <1>1, AtTwo
<1>4. i = EndOfInput <=> ~(i <= Size)
  BY <1>1
<1>5. Space # ">" /\ Space # "/" /\ ">" # "/" /\ (i < Size => i <= Size)
  BY <1>1, MarksApart
<1>6. ASSUME i = EndOfInput
      PROVE  Read(i, f) = [attrs |-> << >>, to |-> i, self_closing |-> FALSE, unclosed |-> TRUE]
  BY <1>2, <1>3, <1>4, <1>5, <1>6 DEF Read
<1>7. ASSUME i <= Size, input[i] = ">"
      PROVE  Read(i, f) = [attrs |-> << >>, to |-> i + 1, self_closing |-> FALSE, unclosed |-> FALSE]
  BY <1>2, <1>3, <1>4, <1>5, <1>7 DEF Read
<1>8. ASSUME i < Size, input[i] = "/", input[i + 1] = ">"
      PROVE  Read(i, f) = [attrs |-> << >>, to |-> i + 2, self_closing |-> TRUE, unclosed |-> FALSE]
  BY <1>2, <1>3, <1>4, <1>5, <1>8 DEF Read
<1>9. ASSUME i <= Size, input[i] = Space \/ (input[i] = "/" /\ ~(i < Size /\ input[i + 1] = ">"))
      PROVE  Read(i, f) = f[i + 1]
  BY <1>2, <1>3, <1>4, <1>5, <1>9 DEF Read
<1>10. ASSUME i <= Size, input[i] \notin {">", "/", Space}
       PROVE  Read(i, f) = With(Attribute(i), f[Attribute(i).to])
  BY <1>2, <1>3, <1>4, <1>5, <1>10 DEF Read
<1> QED
  BY <1>6, <1>7, <1>8, <1>9, <1>10

\* Reading looks ahead, never back.
LEMMA ReadAhead ==
  ASSUME IsText, NEW i \in 1..EndOfInput, NEW f, NEW g, \A j \in (i + 1)..EndOfInput : f[j] = g[j]
  PROVE  Read(i, f) = Read(i, g)
<1>1. Size \in Nat /\ EndOfInput = Size + 1 /\ i \in Nat
  BY Places
<1>2. CASE i = EndOfInput
  BY <1>2, ReadIs
<1>3. CASE i <= Size /\ input[i] = ">"
  BY <1>3, ReadIs
<1>4. CASE i < Size /\ input[i] = "/" /\ input[i + 1] = ">"
  BY <1>4, ReadIs
<1>5. CASE i <= Size /\ (input[i] = Space \/ (input[i] = "/" /\ ~(i < Size /\ input[i + 1] = ">")))
  <2>1. f[i + 1] = g[i + 1]
    BY <1>1, <1>5
  <2> QED
    BY <1>5, <2>1, ReadIs
<1>6. CASE i <= Size /\ input[i] \notin {">", "/", Space}
  <2>1. f[Attribute(i).to] = g[Attribute(i).to]
    BY <1>1, <1>6, AttributeIs
  <2> QED
    BY <1>6, <2>1, ReadIs
<1> QED
  BY <1>1, <1>2, <1>3, <1>4, <1>5, <1>6

LEMMA Readings ==
  ASSUME IsText
  PROVE  \E f : f = [i \in 1..EndOfInput |-> Read(i, f)]
<1> DEFINE Good(f, n) == \A i \in 1..EndOfInput : i + n >= EndOfInput => f[i] = Read(i, f)
           S == {n \in Nat : \E f : f = [i \in 1..EndOfInput |-> f[i]] /\ Good(f, n)}
<1>1. Size \in Nat /\ EndOfInput = Size + 1 /\ EndOfInput \in 1..EndOfInput
  BY Places
<1>2. 0 \in S
  <2> DEFINE g == [i \in 1..EndOfInput |-> Read(EndOfInput, << >>)]
  <2>1. g = [i \in 1..EndOfInput |-> g[i]] /\ g[EndOfInput] = Read(EndOfInput, << >>)
    BY <1>1
  <2> HIDE DEF g
  <2>2. Read(EndOfInput, << >>) = Read(EndOfInput, g)
    BY <1>1, ReadIs
  <2>3. Good(g, 0)
    BY <1>1, <2>1, <2>2
  <2> QED
    BY <2>1, <2>3
<1>3. ASSUME NEW n \in S PROVE n + 1 \in S
  <2>1. PICK f : f = [i \in 1..EndOfInput |-> f[i]] /\ Good(f, n)
    OBVIOUS
  <2>2. n \in Nat
    OBVIOUS
  <2> DEFINE g == [i \in 1..EndOfInput |-> IF i + n >= EndOfInput THEN f[i] ELSE Read(i, f)]
  <2>3. g = [i \in 1..EndOfInput |-> g[i]]
    OBVIOUS
  <2>4. ASSUME NEW i \in 1..EndOfInput
        PROVE  g[i] = IF i + n >= EndOfInput THEN f[i] ELSE Read(i, f)
    OBVIOUS
  <2> HIDE DEF g
  <2>5. ASSUME NEW i \in 1..EndOfInput, i + (n + 1) >= EndOfInput PROVE g[i] = Read(i, g)
    <3>1. \A j \in (i + 1)..EndOfInput : j \in 1..EndOfInput /\ j + n >= EndOfInput
      BY <1>1, <2>2, <2>5
    <3>2. \A j \in (i + 1)..EndOfInput : f[j] = g[j]
      BY <2>4, <3>1
    <3>3. Read(i, f) = Read(i, g)
      BY <3>2, ReadAhead
    <3>4. g[i] = Read(i, f)
      BY <2>1, <2>4
    <3> QED
      BY <3>3, <3>4
  <2>6. Good(g, n + 1)
    BY <2>5
  <2>7. n + 1 \in Nat
    BY <2>2
  <2> HIDE DEF Good
  <2> QED
    BY <2>3, <2>6, <2>7, Zenon
<1>4. S = Nat
  <2> HIDE DEF S
  <2>1. S \in SUBSET Nat
    BY DEF S
  <2> QED
    BY <1>2, <1>3, <2>1, Induct
<1>5. PICK f : f = [i \in 1..EndOfInput |-> f[i]] /\ Good(f, EndOfInput)
  <2>1. EndOfInput \in S
    BY <1>1, <1>4
  <2> QED
    BY <2>1
<1>6. \A i \in 1..EndOfInput : f[i] = Read(i, f)
  BY <1>1, <1>5
<1>7. [i \in 1..EndOfInput |-> f[i]] = [i \in 1..EndOfInput |-> Read(i, f)]
  BY <1>6
<1> QED
  BY <1>5, <1>7

\* What a tag holds from i on, if t is what was read there.
Told(i, t) ==
  /\ t \in TagRec
  /\ t.to \in i..EndOfInput /\ (i <= Size => i < t.to)
  /\ t.unclosed => t.to = EndOfInput /\ ~t.self_closing
  /\ ~t.unclosed => i < t.to /\ input[t.to - 1] = ">" /\ Clean(i, t.to - 1)

LEMMA CleanFurther ==
  ASSUME NEW p \in Nat, NEW q \in Nat, NEW r \in Nat, p <= q, q <= r, Clean(p, q), Clean(q, r)
  PROVE  Clean(p, r)
<1>1. \A i \in p..(r - 1) : i \in p..(q - 1) \/ i \in q..(r - 1)
  OBVIOUS
<1>2. \A i \in p..(q - 1) : i \in p..(r - 1)
  OBVIOUS
<1>3. \A i \in q..(r - 1) : i \in p..(r - 1)
  OBVIOUS
<1> QED
  BY <1>1, <1>2, <1>3 DEF Clean

LEMMA InsideIs ==
  ASSUME IsText, NEW p \in 1..EndOfInput
  PROVE  Told(p, Inside(p))
<1>1. Size \in Nat /\ EndOfInput = Size + 1
  BY Places
<1> DEFINE f == CHOOSE f : f = [i \in 1..EndOfInput |-> Read(i, f)]
<1>2. f = [i \in 1..EndOfInput |-> Read(i, f)]
  BY Readings
<1>3. Inside(p) = f[p]
  BY DEF Inside
<1> HIDE DEF f
<1>4. \A i \in 1..EndOfInput : f[i] = Read(i, f)
  BY <1>2
<1> DEFINE bad == {i \in 1..EndOfInput : ~Told(i, f[i])}
<1>5. SUFFICES ASSUME bad # {} PROVE FALSE
  BY <1>3
<1>6. PICK i \in bad : \A j \in bad : j <= i
  <2>1. bad \in SUBSET Nat /\ \A j \in bad : j <= EndOfInput
    BY <1>1
  <2>2. EndOfInput \in Nat
    BY <1>1
  <2> HIDE DEF bad
  <2> QED
    BY <1>5, <2>1, <2>2, Greatest
<1>7. i \in 1..EndOfInput /\ i \in Nat /\ ~Told(i, f[i])
  BY <1>1, <1>6
<1>8. ASSUME NEW j \in (i + 1)..EndOfInput PROVE j \in Nat /\ Told(j, f[j])
  <2>1. j \in 1..EndOfInput /\ ~(j <= i)
    BY <1>1, <1>7
  <2>2. j \notin bad
    BY <1>6, <2>1
  <2> QED
    BY <2>1, <2>2
<1> HIDE DEF bad
<1>9. << >> \in Seq(AttrRec)
  OBVIOUS
<1>10. CASE i = EndOfInput
  <2>1. f[i] = [attrs |-> << >>, to |-> i, self_closing |-> FALSE, unclosed |-> TRUE]
    BY <1>4, <1>7, <1>10, ReadIs
  <2> QED
    BY <1>1, <1>7, <1>9, <1>10, <2>1 DEF Told, TagRec
<1>11. CASE i <= Size /\ input[i] = ">"
  <2>1. f[i] = [attrs |-> << >>, to |-> i + 1, self_closing |-> FALSE, unclosed |-> FALSE]
    BY <1>4, <1>7, <1>11, ReadIs
  <2>2. Clean(i, i) /\ i + 1 - 1 = i
    BY <1>7 DEF Clean
  <2> QED
    BY <1>1, <1>7, <1>9, <1>11, <2>1, <2>2 DEF Told, TagRec
<1>12. CASE i < Size /\ input[i] = "/" /\ input[i + 1] = ">"
  <2>1. f[i] = [attrs |-> << >>, to |-> i + 2, self_closing |-> TRUE, unclosed |-> FALSE]
    BY <1>4, <1>7, <1>12, ReadIs
  <2>2. i + 2 - 1 = i + 1 /\ \A j \in i..((i + 1) - 1) : j = i
    BY <1>7
  <2>3. Clean(i, i + 1)
    BY <1>12, <2>2 DEF Clean
  <2> QED
    BY <1>1, <1>7, <1>9, <1>12, <2>1, <2>2, <2>3 DEF Told, TagRec
<1>13. CASE i <= Size /\ (input[i] = Space \/ (input[i] = "/" /\ ~(i < Size /\ input[i + 1] = ">")))
  <2>1. f[i] = f[i + 1]
    BY <1>4, <1>7, <1>13, ReadIs
  <2>2. Told(i + 1, f[i + 1])
    BY <1>1, <1>7, <1>8, <1>13
  <2>3. Clean(i, i + 1)
    <3>1. \A j \in i..((i + 1) - 1) : j = i
      BY <1>7
    <3> QED
      BY <1>13, <3>1, MarksApart DEF Clean
  <2> DEFINE t == f[i + 1]
  <2>4. t.to \in Nat /\ i + 1 <= t.to
    BY <1>7, <2>2 DEF Told, TagRec
  <2>5. ~t.unclosed => Clean(i, t.to - 1)
    <3>1. SUFFICES ASSUME ~t.unclosed PROVE Clean(i, t.to - 1)
      OBVIOUS
    <3>2. i + 1 <= t.to - 1 /\ t.to - 1 \in Nat /\ Clean(i + 1, t.to - 1)
      BY <1>7, <2>2, <2>4, <3>1 DEF Told
    <3> QED
      BY <1>7, <2>3, <3>2, CleanFurther
  <2>6. Told(i, t)
    BY <1>1, <1>7, <2>2, <2>4, <2>5 DEF Told
  <2> QED
    BY <1>7, <2>1, <2>6
<1>14. CASE i <= Size /\ input[i] \notin {">", "/", Space}
  <2> DEFINE a == Attribute(i)
             t == f[a.to]
  <2>1. f[i] = With(a, t)
    BY <1>4, <1>7, <1>14, ReadIs
  <2>2. a \in AttrRec /\ a.to \in (i + 1)..EndOfInput /\ Clean(i, a.to)
    BY <1>1, <1>7, <1>14, AttributeIs
  <2>3. a.to \in Nat /\ Told(a.to, t)
    BY <1>8, <2>2
  <2> HIDE DEF a, t
  <2>4. t \in TagRec /\ t.to \in Nat /\ a.to <= t.to /\ i < a.to
    BY <1>1, <1>7, <2>2, <2>3 DEF Told, TagRec
  <2>5. /\ With(a, t) \in TagRec /\ With(a, t).to = t.to /\ With(a, t).unclosed = t.unclosed
        /\ With(a, t).self_closing = t.self_closing
    <3>1. <<a>> \in Seq(AttrRec) /\ t.attrs \in Seq(AttrRec)
      BY <2>2, <2>4 DEF TagRec
    <3>2. <<a>> \o t.attrs \in Seq(AttrRec)
      BY <3>1
    <3> QED
      BY <2>4, <3>2 DEF With, TagRec
  <2>6. ~t.unclosed => Clean(i, t.to - 1)
    <3>1. SUFFICES ASSUME ~t.unclosed PROVE Clean(i, t.to - 1)
      OBVIOUS
    <3>2. a.to <= t.to - 1 /\ t.to - 1 \in Nat /\ Clean(a.to, t.to - 1)
      BY <1>7, <2>3, <2>4, <3>1 DEF Told
    <3>3. i <= a.to /\ Clean(i, a.to)
      BY <1>7, <2>2, <2>3, <2>4
    <3> QED
      BY <1>7, <2>3, <3>2, <3>3, CleanFurther
  <2>7. Told(i, With(a, t))
    BY <1>1, <1>7, <2>3, <2>4, <2>5, <2>6 DEF Told
  <2> QED
    BY <1>7, <2>1, <2>7
<1> QED
  BY <1>1, <1>7, <1>10, <1>11, <1>12, <1>13, <1>14

(***************************************************************************)
(* The tokens.                                                             *)
(***************************************************************************)
Whole(t) ==
  t = [type |-> t.type, from |-> t.from, to |-> t.to, name |-> t.name,
       self_closing |-> t.self_closing, unclosed |-> t.unclosed, attrs |-> t.attrs, href |-> t.href]

\* A token that begins at pos.
Fresh(t) ==
  /\ Whole(t)
  /\ t.type \in {"TEXT", "START", "END", "COMMENT", "DECL"}
  /\ t.from = pos /\ t.to \in (pos + 1)..EndOfInput
  /\ t.unclosed \in BOOLEAN /\ t.self_closing \in BOOLEAN /\ Len(t.attrs) \in Nat
  /\ t.unclosed => t.to = EndOfInput /\ ~t.self_closing
  /\ t.type = "START" => t.name \in TagNames

AtToken == IsText /\ pos \in 1..Size

LEMMA TagIs ==
  ASSUME AtToken, NEW type \in {"TEXT", "END", "COMMENT", "DECL"}, NEW q \in (pos + 1)..EndOfInput,
         NEW name, NEW unclosed \in BOOLEAN, unclosed => q = EndOfInput
  PROVE  LET t == Tag(type, q, name, unclosed)
         IN /\ Fresh(t) /\ t.type = type /\ t.to = q /\ t.name = name /\ t.unclosed = unclosed
            /\ ~t.self_closing /\ t.from = pos
<1> DEFINE t == Tag(type, q, name, unclosed)
<1>1. t = [type |-> type, from |-> pos, to |-> q, name |-> name, self_closing |-> FALSE,
           unclosed |-> unclosed, attrs |-> << >>, href |-> << >>]
  BY DEF Tag
<1> HIDE DEF t
<1>2. /\ t.type = type /\ t.from = pos /\ t.to = q /\ t.name = name /\ t.self_closing = FALSE
      /\ t.unclosed = unclosed /\ t.attrs = << >> /\ t.href = << >>
  BY <1>1
<1>3. Whole(t)
  BY <1>1, <1>2 DEF Whole
<1>4. Fresh(t)
  BY <1>2, <1>3 DEF Fresh
<1> QED
  BY <1>2, <1>4 DEF t

LEMMA ClosingIs ==
  ASSUME IsText, NEW p \in 1..EndOfInput
  PROVE  /\ Closing(p) \in p..EndOfInput /\ Cut(p) \in BOOLEAN
         /\ Cut(p) => Closing(p) = EndOfInput
         /\ ~Cut(p) => /\ p < Closing(p) /\ input[Closing(p) - 1] = ">"
                       /\ \A i \in p..(Closing(p) - 2) : input[i] # ">"
<1> DEFINE q == Find(p, {">"})
<1>1. Size \in Nat /\ EndOfInput = Size + 1 /\ p \in Nat
  BY Places
<1>2. /\ q \in p..EndOfInput
      /\ \A i \in p..(q - 1) : input[i] \notin {">"}
      /\ q # EndOfInput => input[q] \in {">"}
  BY FindIs
<1>3. Closing(p) = Least(q + 1, EndOfInput) /\ (Cut(p) <=> q = EndOfInput) /\ Cut(p) \in BOOLEAN
  BY DEF Closing, Cut
<1> HIDE DEF q
<1>4. CASE q = EndOfInput
  BY <1>1, <1>3, <1>4 DEF Least
<1>5. CASE q # EndOfInput
  <2>1. q \in Nat /\ Closing(p) = q + 1 /\ q + 1 <= EndOfInput /\ p <= q
    BY <1>1, <1>2, <1>3, <1>5 DEF Least
  <2>2. (q + 1) - 1 = q /\ (q + 1) - 2 = q - 1
    BY <2>1
  <2> QED
    BY <1>1, <1>2, <1>3, <1>5, <2>1, <2>2
<1> QED
  BY <1>4, <1>5

LEMMA TagIsRead ==
  ASSUME AtToken, NEW t, Fresh(t), t.type \in {"START", "END"}, input[pos] = "<",
         ~t.unclosed => input[t.to - 1] = ">" /\ Clean(pos, t.to - 1)
  PROVE  IsRead(t)
<1> DEFINE shorter == [t EXCEPT !.to = @ - 1]
<1>1. Size \in Nat /\ EndOfInput = Size + 1 /\ pos \in Nat
  BY Places DEF AtToken
<1>2. t.from = pos /\ t.to \in (pos + 1)..EndOfInput /\ (t.unclosed => t.to = EndOfInput)
  BY DEF Fresh
<1>3. shorter.to = t.to - 1 /\ shorter.from = t.from
  BY DEF Fresh, Whole
<1> HIDE DEF shorter
<1>4. ASSUME ~t.unclosed, ~Holds(t, {"'"}) PROVE ~Holds(shorter, {">"})
  <2>1. \A i \in pos..(t.to - 1) : input[i] # "'"
    BY <1>2, <1>4 DEF Holds
  <2>2. \A i \in pos..((t.to - 1) - 1) : i \in pos..(t.to - 1)
    BY <1>1, <1>2
  <2>3. \A i \in pos..((t.to - 1) - 1) : input[i] # ">"
    BY <1>4, <2>1, <2>2 DEF Clean
  <2> QED
    BY <1>2, <1>3, <2>3 DEF Holds
<1>5. t.from < t.to /\ t.to <= EndOfInput
  BY <1>1, <1>2
<1> QED
  BY <1>2, <1>4, <1>5 DEF IsRead, shorter

LEMMA StoreNameIs ==
  ASSUME IsText, NEW p \in 1..EndOfInput, NEW q \in p..EndOfInput
  PROVE  /\ StoreName(p, q) \in Seq(Unit) /\ Len(StoreName(p, q)) = Least(q - p, TagMax)
         /\ \A i \in 1..Least(q - p, TagMax) : StoreName(p, q)[i] = input[p + i - 1]
<1> DEFINE r == Least(q, p + TagMax)
<1>1. TagMax \in Nat \ {0} /\ Size \in Nat /\ EndOfInput = Size + 1 /\ p \in Nat /\ q \in Nat
  BY SourceConstants, Places
<1>2. r \in p..EndOfInput /\ r - p = Least(q - p, TagMax)
  BY <1>1 DEF Least
<1>3. StoreName(p, q) = Span(p, r)
  BY DEF StoreName
<1> HIDE DEF r
<1>4. /\ Span(p, r) \in Seq(Unit) /\ Len(Span(p, r)) = r - p
      /\ \A i \in 1..(r - p) : Span(p, r)[i] = input[p + i - 1]
  BY <1>2, SpanIs
<1> QED
  BY <1>2, <1>3, <1>4

LEMMA EndTagIs ==
  ASSUME AtToken, input[pos] = "<", At(pos + 1, <<"/">>)
  PROVE  /\ Fresh(EndTag) /\ IsRead(EndTag) /\ EndTag.type = "END"
         /\ EndTag.name = StoreName(pos + 2, Past(pos + 2, NameChar))
<1> DEFINE end == Past(pos + 2, NameChar)
           name == StoreName(pos + 2, end)
<1>1. /\ Size \in Nat /\ EndOfInput = Size + 1 /\ pos \in Nat /\ pos + 2 \in 1..EndOfInput
      /\ pos + 1 \in 1..Size /\ input[pos + 1] = "/"
  <2>1. pos + 1 <= Size /\ input[pos + 1] = "/"
    BY AtOne DEF AtToken
  <2> QED
    BY <2>1, Places DEF AtToken
<1>2. /\ end \in (pos + 2)..EndOfInput
      /\ \A i \in (pos + 2)..(end - 1) : input[i] \in NameChar
  BY <1>1, PastIs DEF AtToken
<1>3. EndTag = Tag("END", Closing(end), name, Cut(end))
  BY DEF EndTag
<1> HIDE DEF end, name
<1>4. end \in 1..EndOfInput /\ end \in Nat
  BY <1>1, <1>2
<1>5. /\ Closing(end) \in end..EndOfInput /\ Cut(end) \in BOOLEAN
      /\ Cut(end) => Closing(end) = EndOfInput
      /\ ~Cut(end) => /\ end < Closing(end) /\ input[Closing(end) - 1] = ">"
                      /\ \A i \in end..(Closing(end) - 2) : input[i] # ">"
  BY <1>4, ClosingIs DEF AtToken
<1>6. Closing(end) \in (pos + 1)..EndOfInput
  BY <1>1, <1>2, <1>5
<1>7. /\ Fresh(EndTag) /\ EndTag.type = "END" /\ EndTag.to = Closing(end) /\ EndTag.name = name
      /\ EndTag.unclosed = Cut(end)
  BY <1>3, <1>5, <1>6, TagIs
<1>8. ASSUME ~Cut(end) PROVE Clean(pos, Closing(end) - 1)
  <2>1. \A i \in pos..((Closing(end) - 1) - 1) :
          i = pos \/ i = pos + 1 \/ i \in (pos + 2)..(end - 1) \/ i \in end..(Closing(end) - 2)
    BY <1>1, <1>2, <1>4, <1>5
  <2> QED
    BY <1>1, <1>2, <1>5, <1>8, <2>1, MarksApart DEF Clean
<1>9. IsRead(EndTag)
  BY <1>5, <1>7, <1>8, TagIsRead
<1> QED
  BY <1>7, <1>9 DEF end, name

LEMMA StartTagIs ==
  ASSUME AtToken, input[pos] = "<", pos < Size, input[pos + 1] \in Letter
  PROVE  Fresh(StartTag) /\ IsRead(StartTag) /\ StartTag.type = "START"
<1> DEFINE end == Past(pos + 1, NameChar)
           in == Inside(end)
           name == StoreName(pos + 1, end)
           attrs == Recordable(in.attrs)
           href == HrefOf(in.attrs)
<1>1. /\ Size \in Nat /\ EndOfInput = Size + 1 /\ pos \in Nat /\ pos + 1 \in 1..EndOfInput
      /\ TagMax \in Nat \ {0} /\ MaxRecorded \in Nat
  BY Places, SourceConstants DEF AtToken
<1>2. /\ end \in (pos + 1)..EndOfInput
      /\ \A i \in (pos + 1)..(end - 1) : input[i] \in NameChar
      /\ end # EndOfInput => input[end] \notin NameChar
  BY <1>1, PastIs DEF AtToken
<1>3. StartTag = [Tag("START", in.to, name, in.unclosed) EXCEPT
                    !.self_closing = in.self_closing, !.attrs = attrs, !.href = href]
  BY DEF StartTag
<1> HIDE DEF end, name
<1>4. end \in Nat /\ pos + 2 <= end
  <2>1. end # pos + 1
    BY <1>1, <1>2 DEF NameChar
  <2> QED
    BY <1>1, <1>2, <2>1
<1>5. Told(end, in)
  BY <1>1, <1>2, <1>4, InsideIs DEF AtToken
<1> HIDE DEF in
<1>6. Len(attrs) \in Nat
  <2>1. in.attrs \in Seq(AttrRec) /\ Len(in.attrs) \in Nat
    BY <1>5 DEF Told, TagRec
  <2>2. Least(Len(in.attrs), MaxRecorded) \in 0..Len(in.attrs)
    BY <1>1, <2>1 DEF Least
  <2>3. \A k \in 0..Len(in.attrs) : Len(SubSeq(in.attrs, 1, k)) \in Nat
    BY <2>1
  <2> QED
    BY <2>2, <2>3 DEF Recordable
<1> HIDE DEF attrs, href
<1>7. name \in TagNames
  <2> DEFINE n == Least(end - (pos + 1), TagMax)
  <2>1. name \in Seq(Unit) /\ Len(name) = n /\ \A i \in 1..n : name[i] = input[(pos + 1) + i - 1]
    BY <1>1, <1>2, StoreNameIs DEF AtToken, name
  <2>2. n \in 1..TagMax /\ n <= end - (pos + 1)
    BY <1>1, <1>4 DEF Least
  <2> HIDE DEF n
  <2>3. \A i \in 1..n : (pos + 1) + i - 1 \in (pos + 1)..(end - 1)
    BY <1>1, <1>4, <2>2
  <2>4. \A i \in 1..n : name[i] \in NameChar
    BY <1>2, <2>1, <2>3
  <2>5. name \in [1..n -> NameChar]
    BY <2>1, <2>2, <2>4
  <2>6. name[1] \in Letter
    <3>1. 1 \in 1..n /\ (pos + 1) + 1 - 1 = pos + 1
      BY <1>1, <2>2
    <3> QED
      BY <2>1, <3>1
  <2> QED
    BY <2>2, <2>5, <2>6 DEF TagNames
<1>8. in.to \in (pos + 1)..EndOfInput /\ in.to \in Nat
  BY <1>1, <1>4, <1>5 DEF Told, TagRec
<1>9. StartTag = [type |-> "START", from |-> pos, to |-> in.to, name |-> name,
                  self_closing |-> in.self_closing, unclosed |-> in.unclosed, attrs |-> attrs,
                  href |-> href]
  BY <1>3 DEF Tag
<1>10. /\ StartTag.type = "START" /\ StartTag.from = pos /\ StartTag.to = in.to
       /\ StartTag.name = name /\ StartTag.self_closing = in.self_closing
       /\ StartTag.unclosed = in.unclosed /\ StartTag.attrs = attrs /\ StartTag.href = href
  BY <1>9
<1>11. Whole(StartTag)
  BY <1>9, <1>10 DEF Whole
<1>12. Fresh(StartTag)
  BY <1>5, <1>6, <1>7, <1>8, <1>10, <1>11 DEF Fresh, Told, TagRec
<1>13. ASSUME ~in.unclosed PROVE Clean(pos, in.to - 1)
  <2>1. Clean(pos, end)
    <3>1. \A i \in pos..(end - 1) : i = pos \/ i \in (pos + 1)..(end - 1)
      BY <1>1, <1>4
    <3> QED
      BY <1>2, <3>1, MarksApart DEF Clean
  <2>2. end <= in.to - 1 /\ in.to - 1 \in Nat /\ Clean(end, in.to - 1)
    BY <1>4, <1>5, <1>8, <1>13 DEF Told
  <2>3. pos <= end
    BY <1>1, <1>4
  <2> QED
    BY <1>1, <1>4, <2>1, <2>2, <2>3, CleanFurther
<1>14. ~in.unclosed => input[in.to - 1] = ">"
  BY <1>5 DEF Told
<1> QED
  BY <1>10, <1>12, <1>13, <1>14, TagIsRead

LEMMA AtThree ==
  ASSUME IsText, NEW p \in Nat \ {0}, NEW c, NEW d, NEW e
  PROVE  At(p, <<c, d, e>>) => p + 3 <= EndOfInput /\ input[p] = c
<1> DEFINE w == <<c, d, e>>
<1>1. Len(w) = 3 /\ DOMAIN w = 1..3 /\ w[1] = c /\ p + 1 - 1 = p
  OBVIOUS
<1> HIDE DEF w
<1>2. Len(w) \in Nat /\ DOMAIN w = 1..Len(w) /\ 1 \in 1..Len(w)
  BY <1>1
<1>3. At(p, w) => p + Len(w) <= EndOfInput /\ input[p + 1 - 1] = w[1]
  BY <1>2, AtIs
<1> QED
  BY <1>1, <1>3 DEF w

LEMMA CommentIs ==
  ASSUME AtToken, input[pos] = "<", At(pos + 1, <<"!", "-", "-">>)
  PROVE  Fresh(Comment) /\ IsRead(Comment) /\ Comment.type = "COMMENT"
<1> DEFINE end == CommentEnd
           q == IF end = EndOfInput THEN end ELSE end + 3
           ps == {i \in pos + 4..Len(input) : At(i, <<"-", "-", ">">>)}
           unclosed == (end = EndOfInput)
<1>1. /\ input \in Seq(Unit) /\ Len(input) = Size /\ Size \in Nat /\ EndOfInput = Size + 1
      /\ pos \in Nat /\ pos + 4 \in 1..EndOfInput
  <2>1. (pos + 1) + 3 <= EndOfInput
    BY AtThree DEF AtToken
  <2> QED
    BY <2>1, Places DEF AtToken, IsText, Size
<1>2. /\ end \in (pos + 4)..EndOfInput
      /\ end # EndOfInput => At(end, <<"-", "-", ">">>)
  <2>1. ps \in SUBSET ((pos + 4)..Size)
    BY <1>1
  <2>2. end = First(ps)
    BY DEF CommentEnd
  <2>3. /\ First(ps) \in (pos + 4)..EndOfInput
        /\ First(ps) # EndOfInput => First(ps) \in ps
    <3> HIDE DEF ps
    <3> QED
      BY <1>1, <2>1, FirstIs DEF AtToken
  <2> QED
    BY <2>2, <2>3
<1>3. Comment = Tag("COMMENT", q, None, unclosed)
  BY DEF Comment
<1> HIDE DEF end
<1>4. end # EndOfInput => end + 3 <= EndOfInput
  BY <1>1, <1>2, AtThree DEF AtToken
<1>5. q \in (pos + 1)..EndOfInput /\ q \in Nat /\ unclosed \in BOOLEAN /\ (unclosed => q = EndOfInput)
  BY <1>1, <1>2, <1>4
<1> HIDE DEF unclosed, q
<1>6. /\ Fresh(Comment) /\ Comment.type = "COMMENT" /\ Comment.to = q
      /\ Comment.unclosed = unclosed /\ Comment.from = pos
  BY <1>3, <1>5, TagIs DEF Fresh
<1>7. ASSUME ~unclosed
      PROVE  LET last == SubSeq(input, pos, q - 1)
             IN q - pos >= 7 /\ SubSeq(last, Len(last) - 2, Len(last)) = <<"-", "-", ">">>
  <2> DEFINE last == SubSeq(input, pos, q - 1)
  <2>1. end # EndOfInput /\ q = end + 3 /\ end \in Nat /\ pos + 4 <= end /\ q - 1 \in 1..Size
    BY <1>1, <1>2, <1>4, <1>7 DEF unclosed, q
  <2>2. /\ last \in Seq(Unit) /\ Len(last) = q - pos
        /\ \A i \in 1..(q - pos) : last[i] = input[pos + i - 1]
    <3>1. last = Span(pos, q) /\ pos \in 1..EndOfInput /\ q \in pos..EndOfInput
      BY <1>1, <1>5 DEF Span, AtToken
    <3> HIDE DEF last
    <3> QED
      BY <3>1, SpanIs DEF AtToken
  <2> HIDE DEF last
  <2>3. Len(last) - 2 = (end - pos) + 1 /\ Len(last) = (end - pos) + 3
    BY <1>1, <2>1, <2>2
  <2> DEFINE tail == SubSeq(last, (end - pos) + 1, (end - pos) + 3)
             here == SubSeq(input, end, end + 2)
  <2>4. /\ tail \in Seq(Unit) /\ Len(tail) = 3
        /\ \A i \in 1..3 : tail[i] = last[(end - pos) + 1 + i - 1]
    BY <1>1, <2>1, <2>2, <2>3
  <2>5. /\ here \in Seq(Unit) /\ Len(here) = 3
        /\ \A i \in 1..3 : here[i] = input[end + i - 1]
    BY <1>1, <2>1
  <2> HIDE DEF tail, here
  <2>6. \A i \in 1..3 : tail[i] = here[i]
    <3>1. ASSUME NEW i \in 1..3 PROVE tail[i] = here[i]
      <4>1. /\ (end - pos) + 1 + i - 1 \in 1..(q - pos)
            /\ pos + ((end - pos) + 1 + i - 1) - 1 = end + i - 1
        BY <1>1, <2>1
      <4> QED
        BY <2>2, <2>4, <2>5, <4>1
    <3> QED
      BY <3>1
  <2>7. tail = here
    BY <2>4, <2>5, <2>6, SeqEqual
  <2>8. here = <<"-", "-", ">">>
    <3>1. Len(<<"-", "-", ">">>) = 3 /\ end + 3 - 1 = end + 2
      BY <2>1
    <3> QED
      BY <1>2, <2>1, <3>1 DEF At, here
  <2>9. q - pos >= 7
    BY <1>1, <2>1
  <2> QED
    BY <2>3, <2>7, <2>8, <2>9 DEF tail, last
<1>8. pos < q /\ q <= EndOfInput
  BY <1>1, <1>5
<1>9. IsRead(Comment)
  BY <1>5, <1>6, <1>7, <1>8 DEF IsRead
<1> QED
  BY <1>6, <1>9

LEMMA DeclarationIs ==
  ASSUME AtToken, input[pos] = "<", At(pos + 1, <<"!">>)
  PROVE  Fresh(Declaration) /\ IsRead(Declaration) /\ Declaration.type = "DECL"
<1>1. Size \in Nat /\ EndOfInput = Size + 1 /\ pos \in Nat /\ pos + 2 \in 1..EndOfInput
  <2>1. pos + 1 <= Size
    BY AtOne DEF AtToken
  <2> QED
    BY <2>1, Places DEF AtToken
<1>2. Closing(pos + 2) \in (pos + 2)..EndOfInput
  BY <1>1, ClosingIs DEF AtToken
<1>3. Closing(pos + 2) \in (pos + 1)..EndOfInput
  BY <1>1, <1>2
<1>4. /\ Fresh(Declaration) /\ Declaration.type = "DECL" /\ ~Declaration.unclosed
      /\ Declaration.to = Closing(pos + 2) /\ Declaration.from = pos
  <2>1. PICK no \in BOOLEAN : no = FALSE
    OBVIOUS
  <2>2. Declaration = Tag("DECL", Closing(pos + 2), None, no)
    BY <2>1 DEF Declaration
  <2> QED
    BY <1>3, <2>1, <2>2, TagIs
<1>5. pos < Closing(pos + 2) /\ Closing(pos + 2) <= EndOfInput
  BY <1>1, <1>3
<1> QED
  BY <1>4, <1>5 DEF IsRead

LEMMA TextIs ==
  ASSUME AtToken, NEW q \in (pos + 1)..EndOfInput
  PROVE  /\ Fresh(TextToken(q)) /\ TextToken(q).type = "TEXT" /\ TextToken(q).to = q
         /\ \/ feed # "any"
            \/ q = pos + 1 /\ input[pos] = "<"
            \/ /\ \A i \in pos..(q - 1) : input[i] # "<"
               /\ q = EndOfInput \/ input[q] = "<"
            => IsRead(TextToken(q))
<1>1. Size \in Nat /\ EndOfInput = Size + 1 /\ pos \in Nat
  BY Places DEF AtToken
<1>2. /\ Fresh(TextToken(q)) /\ TextToken(q).type = "TEXT" /\ TextToken(q).to = q
      /\ ~TextToken(q).unclosed /\ TextToken(q).from = pos
  <2>1. PICK no \in BOOLEAN : no = FALSE
    OBVIOUS
  <2>2. TextToken(q) = Tag("TEXT", q, None, no)
    BY <2>1 DEF TextToken
  <2> QED
    BY <2>1, <2>2, TagIs
<1>3. pos < q /\ q <= EndOfInput
  BY <1>1
<1>4. CASE feed # "any"
  BY <1>2, <1>3, <1>4 DEF IsRead
<1>5. CASE q = pos + 1 /\ input[pos] = "<"
  <2>1. At(pos, <<"<">>)
    BY <1>5, AtOne DEF AtToken
  <2>2. SubSeq(input, pos, q - 1) = <<"<">>
    <3>1. Len(<<"<">>) = 1 /\ pos + 1 - 1 = q - 1
      BY <1>1, <1>5
    <3> QED
      BY <2>1, <3>1 DEF At
  <2> QED
    BY <1>2, <1>3, <2>2 DEF IsRead
<1>6. CASE /\ \A i \in pos..(q - 1) : input[i] # "<"
           /\ q = EndOfInput \/ input[q] = "<"
  <2>1. ~Holds(TextToken(q), {"<"})
    BY <1>2, <1>6 DEF Holds
  <2> QED
    BY <1>2, <1>3, <1>6, <2>1 DEF IsRead
<1> QED
  BY <1>2, <1>4, <1>5, <1>6

LEMMA ParsedIs ==
  ASSUME AtToken, input[pos] = "<"
  PROVE  /\ Fresh(ParsedTag) /\ IsRead(ParsedTag)
         /\ At(pos + 1, <<"/">>) => ParsedTag = EndTag
<1>1. Size \in Nat /\ EndOfInput = Size + 1 /\ pos \in Nat /\ pos + 1 \in Nat \ {0} /\ Len(input) = Size
  BY Places DEF AtToken, Size
<1>2. /\ At(pos + 1, <<"!">>) <=> pos + 1 <= Size /\ input[pos + 1] = "!"
      /\ At(pos + 1, <<"/">>) <=> pos + 1 <= Size /\ input[pos + 1] = "/"
  BY <1>1, AtOne DEF AtToken
<1>3. At(pos + 1, <<"!", "-", "-">>) => At(pos + 1, <<"!">>)
  <2>1. At(pos + 1, <<"!", "-", "-">>) => (pos + 1) + 3 <= EndOfInput /\ input[pos + 1] = "!"
    BY <1>1, AtThree DEF AtToken
  <2> QED
    BY <1>1, <1>2, <2>1
<1>4. pos < Size /\ input[pos + 1] \in Letter => ~At(pos + 1, <<"!">>) /\ ~At(pos + 1, <<"/">>)
  <2>1. "!" \in Marks /\ "/" \in Marks
    BY DEF Marks
  <2> QED
    BY <1>2, <2>1, MarksApart
<1>5. CASE At(pos + 1, <<"!", "-", "-">>)
  <2>1. ParsedTag = Comment
    BY <1>2, <1>3, <1>4, <1>5, <1>1 DEF ParsedTag
  <2> QED
    BY <1>2, <1>3, <1>5, <2>1, CommentIs
<1>6. CASE At(pos + 1, <<"!">>) /\ ~At(pos + 1, <<"!", "-", "-">>)
  <2>1. ParsedTag = Declaration
    BY <1>2, <1>4, <1>6, <1>1 DEF ParsedTag
  <2> QED
    BY <1>2, <1>6, <2>1, DeclarationIs
<1>7. CASE At(pos + 1, <<"/">>)
  <2>1. ParsedTag = EndTag
    BY <1>2, <1>3, <1>4, <1>7, <1>1 DEF ParsedTag
  <2> QED
    BY <1>7, <2>1, EndTagIs
<1>8. CASE pos < Size /\ input[pos + 1] \in Letter
  <2>1. ParsedTag = StartTag
    BY <1>3, <1>4, <1>8, <1>1 DEF ParsedTag
  <2> QED
    BY <1>4, <1>8, <2>1, StartTagIs
<1>9. CASE /\ ~At(pos + 1, <<"!">>) /\ ~At(pos + 1, <<"/">>)
           /\ ~(pos < Size /\ input[pos + 1] \in Letter)
  <2>1. ParsedTag = TextToken(pos + 1)
    BY <1>3, <1>9, <1>1 DEF ParsedTag
  <2>2. pos + 1 \in (pos + 1)..EndOfInput
    BY <1>1 DEF AtToken
  <2> QED
    BY <1>9, <2>1, <2>2, TextIs
<1> QED
  BY <1>5, <1>6, <1>7, <1>8, <1>9

(***************************************************************************)
(* The end tag of a raw text element.                                      *)
(***************************************************************************)
Closes(p, name) ==
  LET q == p + 2 + Len(name)
  IN At(p, <<"<", "/">> \o name) /\ (q >= EndOfInput \/ input[q] \in {Space, ">", "/"})

LEMMA NameIs ==
  ASSUME NEW name \in TagNames
  PROVE  /\ name \in Seq(NameChar) /\ Len(name) \in 1..TagMax /\ name # << >>
         /\ \A i \in 1..Len(name) : name[i] \in NameChar
<1>1. PICK n \in 1..TagMax : name \in [1..n -> NameChar]
  BY DEF TagNames
<1>2. n \in Nat /\ TagMax \in Nat
  BY SourceConstants
<1>3. name \in Seq(NameChar) /\ Len(name) = n
  BY <1>1, <1>2
<1> QED
  BY <1>1, <1>2, <1>3

LEMMA ClosesIs ==
  ASSUME IsText, NEW p \in Nat \ {0}, NEW name \in TagNames, Closes(p, name)
  PROVE  /\ p + 2 + Len(name) <= EndOfInput
         /\ input[p] = "<" /\ input[p + 1] = "/"
         /\ \A i \in 1..Len(name) : input[p + 1 + i] = name[i]
<1> DEFINE word == <<"<", "/">> \o name
<1>1. name \in Seq(NameChar) /\ Len(name) \in 1..TagMax /\ TagMax \in Nat
  BY NameIs, SourceConstants
<1>2. Len(name) \in Nat
  BY <1>1
<1>3. <<"<", "/">> \in Seq(NameChar \cup {"<", "/"}) /\ name \in Seq(NameChar \cup {"<", "/"})
  BY <1>1
<1>4. /\ Len(word) = 2 + Len(name) /\ DOMAIN word = 1..Len(word)
      /\ word[1] = "<" /\ word[2] = "/"
      /\ \A i \in 1..Len(name) : word[2 + i] = name[i]
  BY <1>2, <1>3
<1> HIDE DEF word
<1>5. At(p, word)
  BY DEF Closes, word
<1>6. /\ Len(word) \in Nat /\ 1 \in 1..Len(word) /\ 2 \in 1..Len(word)
      /\ DOMAIN word = 1..Len(word)
  BY <1>2, <1>4
<1>7. /\ p + Len(word) <= EndOfInput
      /\ \A i \in 1..Len(word) : input[p + i - 1] = word[i]
  BY <1>5, <1>6, AtIs
<1>8. input[p + 1 - 1] = word[1] /\ input[p + 2 - 1] = word[2] /\ p + 1 - 1 = p /\ p + 2 - 1 = p + 1
  BY <1>6, <1>7
<1>9. ASSUME NEW i \in 1..Len(name) PROVE input[p + 1 + i] = name[i]
  <2>1. 2 + i \in 1..Len(word) /\ p + (2 + i) - 1 = p + 1 + i
    BY <1>2, <1>4
  <2>2. input[p + (2 + i) - 1] = word[2 + i]
    BY <1>7, <2>1
  <2> QED
    BY <1>4, <2>1, <2>2
<1>10. p + 2 + Len(name) <= EndOfInput
  BY <1>2, <1>4, <1>7, Places
<1> QED
  BY <1>4, <1>8, <1>9, <1>10

LEMMA ClosesName ==
  ASSUME AtToken, NEW name \in TagNames, Closes(pos, name)
  PROVE  StoreName(pos + 2, Past(pos + 2, NameChar)) = name
<1> DEFINE end == Past(pos + 2, NameChar)
           got == StoreName(pos + 2, end)
           q == pos + 2 + Len(name)
<1>1. /\ Size \in Nat /\ EndOfInput = Size + 1 /\ pos \in Nat /\ pos \in Nat \ {0}
      /\ TagMax \in Nat \ {0} /\ input \in Seq(Unit)
  BY Places, SourceConstants DEF AtToken, IsText
<1>2. /\ name \in Seq(NameChar) /\ Len(name) \in 1..TagMax /\ Len(name) \in Nat
      /\ \A i \in 1..Len(name) : name[i] \in NameChar
  BY <1>1, NameIs
<1>3. /\ q <= EndOfInput /\ q \in Nat
      /\ \A i \in 1..Len(name) : input[pos + 1 + i] = name[i]
  BY <1>1, <1>2, ClosesIs DEF AtToken
<1>4. q >= EndOfInput \/ input[q] \in {Space, ">", "/"}
  BY DEF Closes
<1>5. pos + 2 \in 1..EndOfInput
  BY <1>1, <1>2, <1>3
<1>6. /\ end \in (pos + 2)..EndOfInput
      /\ \A i \in (pos + 2)..(end - 1) : input[i] \in NameChar
      /\ end # EndOfInput => input[end] \notin NameChar
  BY <1>5, PastIs DEF AtToken
<1> HIDE DEF end, q
<1>7. end \in Nat
  BY <1>1, <1>6
<1>8. end = q
  <2>1. ~(end < q)
    <3>1. SUFFICES ASSUME end < q PROVE FALSE
      OBVIOUS
    <3>2. end - (pos + 1) \in 1..Len(name) /\ pos + 1 + (end - (pos + 1)) = end /\ end # EndOfInput
      BY <1>1, <1>2, <1>3, <1>6, <1>7, <3>1 DEF q
    <3> QED
      BY <1>2, <1>3, <1>6, <3>2
  <2>2. ~(q < end)
    <3>1. SUFFICES ASSUME q < end PROVE FALSE
      OBVIOUS
    <3>2. q \in (pos + 2)..(end - 1) /\ ~(q >= EndOfInput)
      BY <1>1, <1>2, <1>3, <1>6, <1>7, <3>1 DEF q
    <3>3. input[q] \in NameChar
      BY <1>6, <3>2
    <3> QED
      BY <1>4, <3>2, <3>3, MarksApart
  <2> QED
    BY <1>3, <1>7, <2>1, <2>2
<1>9. end - (pos + 2) = Len(name) /\ Least(Len(name), TagMax) = Len(name)
  BY <1>1, <1>2, <1>8 DEF q, Least
<1>10. /\ got \in Seq(Unit) /\ Len(got) = Len(name)
       /\ \A i \in 1..Len(name) : got[i] = input[(pos + 2) + i - 1]
  BY <1>5, <1>6, <1>9, StoreNameIs DEF AtToken
<1> HIDE DEF got
<1>11. ASSUME NEW i \in 1..Len(name) PROVE got[i] = name[i]
  <2>1. (pos + 2) + i - 1 = pos + 1 + i
    BY <1>1, <1>2
  <2> QED
    BY <1>3, <1>10, <2>1
<1>12. got \in Seq(Unit \cup NameChar) /\ name \in Seq(Unit \cup NameChar)
  BY <1>2, <1>10
<1> QED
  BY <1>10, <1>11, <1>12, SeqEqual DEF got, end

(***************************************************************************)
(* The inductive invariant: what the tokenizer and the tree builder know   *)
(* of each other between two tokens and while a token is under way.        *)
(***************************************************************************)
CloseComes(p) == raw \in TagNames /\ (p = EndOfInput \/ Closes(p, raw))

Between ==
  \/ feed = "any" /\ raw_end = << >>
  \/ feed = "raw" /\ raw \in TagNames /\ raw_end = raw
  \/ feed = "close" /\ raw_end = << >> /\ CloseComes(pos)
  \/ feed \in {"end", "done"} /\ pos = EndOfInput

Fits(t) ==
  CASE t.type = "TEXT" -> feed = "any" \/ (feed = "raw" /\ CloseComes(t.to))
    [] t.type = "END" -> feed = "any" \/ (feed \in {"raw", "close"} /\ t.name = raw)
    [] OTHER -> feed = "any"

Given(t) ==
  /\ t.type \in {"TEXT", "START", "END", "COMMENT", "DECL"}
  /\ t.from \in Nat /\ t.to \in Nat /\ t.from < t.to
  /\ t.unclosed \in BOOLEAN /\ t.self_closing \in BOOLEAN /\ Len(t.attrs) \in Nat
  /\ t.unclosed => ~t.self_closing
  /\ t.type = "START" => t.name \in TagNames
  /\ IsRead(t) /\ Fits(t)

SourceInv ==
  /\ input \in Inputs \cup {NoText}
  /\ input = NoText => tok = NoToken
  /\ input # NoText /\ tok = NoToken => pos \in 1..EndOfInput /\ Between
  /\ input # NoText /\ tok # NoToken =>
       Given(tok) /\ tok.to = pos /\ raw_end = IF EntersRaw(tok) THEN tok.name ELSE << >>

LEMMA NextIs ==
  ASSUME AtToken, Between
  PROVE  Fresh(NextToken) /\ IsRead(NextToken) /\ Fits(NextToken)
<1> DEFINE t == NextToken
<1> SUFFICES Fresh(t) /\ IsRead(t) /\ Fits(t)
  OBVIOUS
<1>1. /\ Size \in Nat /\ EndOfInput = Size + 1 /\ pos \in Nat \ {0} /\ Len(input) = Size
      /\ pos # EndOfInput /\ pos \in 1..EndOfInput
  BY Places DEF AtToken, Size
<1>2. At(pos, <<"<">>) <=> input[pos] = "<"
  BY <1>1, AtOne DEF AtToken
<1>3. ASSUME raw \in TagNames, Closes(pos, raw), feed \in {"raw", "close"},
             t = IF At(pos, <<"<">>) THEN ParsedTag ELSE TextToken(Find(pos, {"<"}))
      PROVE  Fresh(t) /\ IsRead(t) /\ Fits(t)
  <2>1. pos + 2 + Len(raw) <= EndOfInput /\ input[pos] = "<" /\ input[pos + 1] = "/"
    BY <1>1, <1>3, ClosesIs DEF AtToken
  <2>2. At(pos + 1, <<"/">>)
    <3>1. Len(raw) \in Nat
      BY <1>3, NameIs, SourceConstants
    <3>2. pos + 1 <= Size /\ pos + 1 \in Nat \ {0}
      BY <1>1, <2>1, <3>1
    <3> QED
      BY <2>1, <3>2, AtOne DEF AtToken
  <2>3. t = EndTag
    BY <1>2, <1>3, <2>1, <2>2, ParsedIs
  <2>4. Fresh(EndTag) /\ IsRead(EndTag) /\ EndTag.type = "END" /\ EndTag.name = raw
    BY <1>3, <2>1, <2>2, EndTagIs, ClosesName
  <2> HIDE DEF t
  <2> QED
    BY <1>3, <2>3, <2>4 DEF Fits
<1>4. CASE feed = "any"
  <2>1. t = IF At(pos, <<"<">>) THEN ParsedTag ELSE TextToken(Find(pos, {"<"}))
    BY <1>4 DEF NextToken, Between
  <2>2. \A u : Fits(u)
    BY <1>4 DEF Fits
  <2> HIDE DEF t
  <2>3. CASE input[pos] = "<"
    BY <1>2, <2>1, <2>2, <2>3, ParsedIs
  <2>4. CASE input[pos] # "<"
    <3> DEFINE q == Find(pos, {"<"})
    <3>1. /\ q \in pos..EndOfInput
          /\ \A i \in pos..(q - 1) : input[i] \notin {"<"}
          /\ q # EndOfInput => input[q] \in {"<"}
      BY <1>1, FindIs DEF AtToken
    <3> HIDE DEF q
    <3>2. q # pos
      BY <1>1, <2>4, <3>1
    <3>3. q \in (pos + 1)..EndOfInput
      BY <1>1, <3>1, <3>2
    <3>4. (\A i \in pos..(q - 1) : input[i] # "<") /\ (q = EndOfInput \/ input[q] = "<")
      BY <3>1
    <3>5. Fresh(TextToken(q)) /\ IsRead(TextToken(q))
      BY <3>3, <3>4, TextIs
    <3> QED
      BY <1>2, <2>1, <2>2, <2>4, <3>5 DEF q
  <2> QED
    BY <2>3, <2>4
<1>5. CASE feed = "raw"
  <2> DEFINE ps == {i \in pos..Len(input) : RawCloseAt(i)}
             end == RawEnd
  <2>1. raw \in TagNames /\ raw_end = raw /\ raw # << >>
    BY <1>5, NameIs DEF Between
  <2>2. /\ end \in pos..EndOfInput
        /\ end # EndOfInput => RawCloseAt(end)
    <3>1. ps \in SUBSET (pos..Size)
      BY <1>1
    <3>2. end = First(ps)
      BY DEF RawEnd
    <3>3. /\ First(ps) \in pos..EndOfInput
          /\ First(ps) # EndOfInput => First(ps) \in ps
      <4> HIDE DEF ps
      <4> QED
        BY <1>1, <3>1, FirstIs DEF AtToken
    <3> QED
      BY <3>2, <3>3
  <2>3. \A p : RawCloseAt(p) <=> Closes(p, raw)
    BY <2>1 DEF RawCloseAt, Closes
  <2>4. t = IF end > pos THEN TextToken(end)
            ELSE IF At(pos, <<"<">>) THEN ParsedTag ELSE TextToken(Find(pos, {"<"}))
    BY <2>1 DEF NextToken
  <2> HIDE DEF end, t
  <2>5. CASE end > pos
    <3>1. end \in (pos + 1)..EndOfInput
      BY <1>1, <2>2, <2>5
    <3>2. CloseComes(end)
      BY <2>1, <2>2, <2>3 DEF CloseComes
    <3>3. Fresh(t) /\ IsRead(t) /\ t.type = "TEXT" /\ t.to = end
      BY <1>5, <2>4, <2>5, <3>1, TextIs
    <3> QED
      BY <1>5, <3>2, <3>3 DEF Fits
  <2>6. CASE ~(end > pos)
    <3>1. end = pos
      BY <1>1, <2>2, <2>6
    <3> QED
      BY <1>1, <1>3, <1>5, <2>1, <2>2, <2>3, <2>4, <3>1
  <2> QED
    BY <2>5, <2>6
<1>6. CASE feed = "close"
  <2>1. raw_end = << >> /\ raw \in TagNames /\ Closes(pos, raw)
    BY <1>1, <1>6 DEF Between, CloseComes
  <2>2. t = IF At(pos, <<"<">>) THEN ParsedTag ELSE TextToken(Find(pos, {"<"}))
    BY <2>1 DEF NextToken
  <2> QED
    BY <1>3, <1>6, <2>1, <2>2
<1> QED
  BY <1>1, <1>4, <1>5, <1>6 DEF Between

LEMMA InitiallySource == SourceInit => SourceInv
<1> SUFFICES ASSUME SourceInit PROVE SourceInv
  OBVIOUS
<1>1. /\ input = NoText \/ input \in Inputs
      /\ pos = 1 /\ raw_end = << >> /\ tok = NoToken /\ feed = "any"
  BY DEF SourceInit, Init
<1>2. input # NoText => pos \in 1..EndOfInput
  <2>1. input # NoText => IsText
    BY <1>1, SourceConstants DEF IsText
  <2> QED
    BY <1>1, <2>1, Places
<1> QED
  BY <1>1, <1>2 DEF SourceInv, Between

LEMMA TextInput ==
  ASSUME SourceInv, input # NoText
  PROVE  IsText /\ Size \in Nat /\ EndOfInput = Size + 1
BY SourceConstants, Places DEF SourceInv, IsText

\* The invariant's parts under an unchanged text.
LEMMA TextStays ==
  ASSUME input' = input
  PROVE  /\ EndOfInput' = EndOfInput
         /\ \A p, word : At(p, word)' <=> At(p, word)
BY DEF EndOfInput, At

LEMMA TokenizeKeeps ==
  ASSUME SourceInv, Tokenize
  PROVE  SourceInv'
<1>1. /\ input # NoText /\ tok = NoToken /\ pos # EndOfInput /\ input' = input
      /\ tok' = NextToken /\ pos' = tok'.to
      /\ raw_end' = IF EntersRaw(tok') THEN tok'.name ELSE << >>
      /\ feed' = feed /\ raw' = raw
  BY DEF Tokenize, vars
<1>2. IsText /\ Size \in Nat /\ EndOfInput = Size + 1 /\ pos \in 1..EndOfInput /\ Between
  BY <1>1, TextInput DEF SourceInv
<1>3. AtToken
  BY <1>1, <1>2 DEF AtToken
<1>4. PICK t : t = NextToken
  OBVIOUS
<1>5. Fresh(t) /\ IsRead(t) /\ Fits(t) /\ tok' = t
  BY <1>1, <1>2, <1>3, <1>4, NextIs
<1>6. /\ t.type \in {"TEXT", "START", "END", "COMMENT", "DECL"}
      /\ t.from \in Nat /\ t.to \in Nat /\ t.from < t.to
      /\ t.unclosed \in BOOLEAN /\ t.self_closing \in BOOLEAN /\ Len(t.attrs) \in Nat
      /\ t.unclosed => ~t.self_closing
      /\ t.type = "START" => t.name \in TagNames
  BY <1>2, <1>5 DEF Fresh
<1>7. IsRead(t)'
  BY <1>1, <1>5, TextStays DEF IsRead, Holds
<1>8. Fits(t)'
  BY <1>1, <1>5, TextStays DEF Fits, CloseComes, Closes
<1>9. Given(tok)'
  BY <1>5, <1>6, <1>7, <1>8 DEF Given
<1>10. tok' # NoToken
  BY <1>5, <1>6 DEF NoToken
<1> QED
  BY <1>1, <1>5, <1>9, <1>10 DEF SourceInv, EntersRaw

LEMMA BuildKeeps ==
  ASSUME SourceInv, Build
  PROVE  SourceInv'
<1>1. tok # NoToken /\ tok' = NoToken /\ input' = input /\ pos' = pos /\ raw_end' = raw_end
  BY DEF Build
<1>2. CASE input = NoText
  BY <1>1, <1>2 DEF SourceInv
<1>3. CASE input # NoText
  <2>1. IsText /\ Size \in Nat /\ EndOfInput = Size + 1
    BY <1>3, TextInput
  <2>2. /\ Given(tok) /\ tok.to = pos
        /\ raw_end = IF EntersRaw(tok) THEN tok.name ELSE << >>
    BY <1>1, <1>3 DEF SourceInv
  <2>3. /\ pos \in 1..EndOfInput /\ tok.unclosed \in BOOLEAN
        /\ tok.unclosed => pos = EndOfInput
    BY <2>1, <2>2 DEF Given, IsRead
  <2>4. EndOfInput' = EndOfInput /\ \A p, word : At(p, word)' <=> At(p, word)
    BY <1>1, TextStays
  <2>5. Between'
    <3>1. CASE tok.type = "TEXT" /\ Text(tok.to - tok.from)
      <4>1. raw' = raw /\ feed' = (IF feed = "raw" THEN "close" ELSE "any") /\ raw_end = << >>
        BY <2>2, <3>1 DEF Text, EntersRaw
      <4>2. feed = "any" \/ (feed = "raw" /\ CloseComes(pos))
        BY <2>2, <3>1 DEF Given, Fits
      <4>3. CloseComes(pos) => CloseComes(pos)'
        BY <1>1, <2>4, <4>1 DEF CloseComes, Closes
      <4> QED
        BY <1>1, <4>1, <4>2, <4>3 DEF Between
    <3>2. CASE /\ tok.type = "START"
               /\ Start(tok.name, tok.self_closing, Len(tok.attrs), 1, tok.unclosed)
      <4>1. CASE tok.unclosed
        <5>1. feed' = "end"
          BY <3>2, <4>1 DEF Start
        <5> QED
          BY <1>1, <2>3, <2>4, <4>1, <5>1 DEF Between
      <4>2. CASE ~tok.unclosed /\ EntersRaw(tok)
        <5>1. feed' = "raw" /\ raw' = tok.name
          BY <3>2, <4>2 DEF Start, EntersRaw
        <5>2. tok.name \in TagNames /\ raw_end = tok.name
          BY <2>2, <3>2, <4>2 DEF Given
        <5> QED
          BY <1>1, <5>1, <5>2 DEF Between
      <4>3. CASE ~tok.unclosed /\ ~EntersRaw(tok)
        <5>1. feed' = feed /\ feed = "any"
          BY <2>3, <3>2, <4>3 DEF Start, EntersRaw
        <5> QED
          BY <1>1, <2>2, <4>3, <5>1 DEF Between
      <4> QED
        BY <4>1, <4>2, <4>3
    <3>3. CASE tok.type = "END" /\ End(tok.name, tok.unclosed)
      <4>1. feed' = (IF tok.unclosed THEN "end" ELSE "any") /\ raw_end = << >>
        BY <2>2, <3>3 DEF End, EntersRaw
      <4> QED
        BY <1>1, <2>3, <2>4, <4>1 DEF Between
    <3>4. CASE tok.type = "COMMENT" /\ tok.unclosed /\ UnclosedComment
      BY <1>1, <2>3, <2>4, <3>4 DEF UnclosedComment, Between
    <3>5. CASE (tok.type = "DECL" \/ (tok.type = "COMMENT" /\ ~tok.unclosed)) /\ UNCHANGED vars
      <4>1. feed' = feed /\ raw_end = << >>
        BY <2>2, <3>5 DEF vars, EntersRaw
      <4>2. feed = "any"
        BY <2>2, <3>5 DEF Given, Fits
      <4> QED
        BY <1>1, <4>1, <4>2 DEF Between
    <3> QED
      BY <3>1, <3>2, <3>3, <3>4, <3>5 DEF Build
  <2> QED
    BY <1>1, <1>3, <2>3, <2>4, <2>5 DEF SourceInv
<1> QED
  BY <1>2, <1>3

LEMMA OtherKeeps ==
  ASSUME SourceInv, EndParse \/ Free \/ SourceParsed \/ UNCHANGED sourceVars
  PROVE  SourceInv'
<1>1. input' = input /\ pos' = pos /\ raw_end' = raw_end /\ tok' = tok
  BY DEF EndParse, Free, SourceParsed, sourceVars, tokenizer
<1>2. EndOfInput' = EndOfInput /\ \A p, word : At(p, word)' <=> At(p, word)
  BY <1>1, TextStays
<1>3. CASE EndParse
  <2>1. tok = NoToken /\ pos = EndOfInput /\ feed' = "done"
    BY <1>3 DEF EndParse, Finish
  <2> QED
    BY <1>1, <1>2, <2>1 DEF SourceInv, Between
<1>4. CASE Free
  BY <1>1, <1>4 DEF Free, SourceInv
<1>5. CASE SourceParsed \/ UNCHANGED sourceVars
  <2>1. feed' = feed /\ raw' = raw
    BY <1>5 DEF SourceParsed, Parsed, sourceVars, vars
  <2>2. Between => Between'
    BY <1>1, <1>2, <2>1 DEF Between, CloseComes, Closes
  <2>3. Given(tok) => Given(tok)'
    <3>1. IsRead(tok) => IsRead(tok)'
      BY <1>1, <1>2, <2>1 DEF IsRead, Holds
    <3>2. Fits(tok) => Fits(tok)'
      BY <1>1, <1>2, <2>1 DEF Fits, CloseComes, Closes
    <3> QED
      BY <1>1, <3>1, <3>2 DEF Given
  <2> QED
    BY <1>1, <1>2, <2>2, <2>3 DEF SourceInv, EntersRaw
<1> QED
  BY <1>3, <1>4, <1>5

LEMMA SourcePreserved == SourceInv /\ [SourceNext]_sourceVars => SourceInv'
BY TokenizeKeeps, BuildKeeps, OtherKeeps DEF SourceNext

LEMMA SourceAlways == SourceSpec => []SourceInv
BY InitiallySource, SourcePreserved, PTL DEF SourceSpec

\* What the tree builder does with a token is a step of HtmlDom.
LEMMA BuildsTokens == SourceInv /\ [SourceNext]_sourceVars => AnyToken
<1> SUFFICES ASSUME SourceInv, [SourceNext]_sourceVars PROVE AnyToken
  OBVIOUS
<1>1. CASE Tokenize \/ SourceParsed \/ UNCHANGED sourceVars
  BY <1>1 DEF Tokenize, SourceParsed, Parsed, sourceVars, AnyToken
<1>2. CASE EndParse
  BY <1>2 DEF EndParse, AnyToken
<1>3. CASE Free
  <2>1. 0..MaxText \subseteq Nat /\ 1..MaxText \subseteq Nat \ {0} /\ 0..MaxTagAttrs \subseteq Nat
    BY DomConstants
  <2>2. FreeNames \subseteq Name
    BY SourceConstants
  <2> QED
    BY <1>3, <2>1, <2>2 DEF Free, AnyToken
<1>4. CASE Build
  <2>1. Given(tok)
    BY <1>4 DEF Build, SourceInv
  <2>2. /\ tok.to - tok.from \in Nat /\ Len(tok.attrs) \in Nat /\ 1 \in Nat \ {0}
        /\ tok.unclosed \in BOOLEAN /\ tok.self_closing \in BOOLEAN
        /\ tok.type = "START" => tok.name \in Name
    BY <2>1, SourceConstants DEF Given
  <2> QED
    BY <1>4, <2>2 DEF Build, AnyToken
<1> QED
  BY <1>1, <1>2, <1>3, <1>4 DEF SourceNext

(***************************************************************************)
(* The theorems.                                                           *)
(***************************************************************************)
\* For every text, the tokens of capy_html_tokenizer_next follow each other
\* without gap to its end, say what stands there, and come in the order that
\* the tree builder takes for granted: within a raw text element nothing but
\* its text and its own end tag, behind an unclosed tag or comment nothing.
THEOREM TokensSafe == SourceSpec => []TokensTellSource
<1>1. SourceInv => TokensTellSource
  <2> SUFFICES ASSUME SourceInv, tok # NoToken PROVE TokensTellSource
    BY DEF TokensTellSource, TokensAreExpected, SourceIsRead
  <2>1. Given(tok) /\ tok.to = pos
    BY DEF SourceInv
  <2>2. TokensAreExpected
    BY <2>1 DEF Given, Fits, TokensAreExpected
  <2> QED
    BY <2>1, <2>2 DEF Given, TokensTellSource, SourceIsRead
<1> QED
  BY <1>1, SourceAlways, PTL

LEMMA TreeAlways == SourceSpec => []DomInv
<1>1. SourceInit => DomInv
  BY InitiallyInv DEF SourceInit
<1> QED
  BY <1>1, BuildsTokens, InvPreserved, SourceAlways, PTL DEF SourceSpec

\* capy_html_parse over its tokenizer: whatever the text, the pools keep their
\* types and capacities, their links are one tree, in document order.
THEOREM ParseSafe == SourceSpec => [](TypeOK /\ TreeLinked /\ DocumentOrder)
<1>1. DomInv => TypeOK /\ TreeLinked /\ DocumentOrder
  BY DEF DomInv, TreeShape
<1> QED
  BY <1>1, TreeAlways, PTL

\* A parse tells by its flag and its warnings all that it lost of the text.
THEOREM ParseTells == SourceSpec => []WarningsTellLosses
<1>1. SourceInit => LossInv
  BY InitiallyTells DEF SourceInit
<1>2. LossInv => WarningsTellLosses
  BY DEF LossInv
<1> QED
  BY <1>1, <1>2, BuildsTokens, TellingPreserved, TreeAlways, SourceAlways, PTL DEF SourceSpec

\* A parse only ever grows its tree at the top.
THEOREM ParseGrows == SourceSpec => OnlyGrowsAtTop
<1>1. DomInv /\ SourceInv /\ [SourceNext]_sourceVars => [GrowsAtTop]_vars
  BY BuildsTokens, TokenGrows
<1> QED
  BY <1>1, TreeAlways, SourceAlways, PTL DEF SourceSpec, OnlyGrowsAtTop

(***************************************************************************)
(* The inductive invariant of layout.  BoxTree is about the boxes; Calls   *)
(* ties each call of layout_children to the box it fills, and Order and    *)
(* Complete say which nodes have been passed.                              *)
(***************************************************************************)
BoxRec == [kind : {"BLOCK", "TEXT"}, dom_node : Nat, parent : Nat, y : Nat, height : Nat]
CallRec == [dom : Nat, box : Nat, child : Nat, top : Nat, cursor : Nat]

Depth == Len(frames)

FlowTyped ==
  /\ lines \in [Id -> Nat]
  /\ boxes \in Seq(BoxRec) /\ boxes # << >>
  /\ frames \in Seq(CallRec)

BoxTree ==
  /\ boxes[1].dom_node = 1 /\ boxes[1].kind = "BLOCK"
  /\ \A i \in Flow!BoxId : boxes[i].dom_node \in Id
  /\ \A i \in 2..Len(boxes) :
       /\ boxes[i].parent \in 1..(i - 1)
       /\ boxes[boxes[i].parent].dom_node = parent[boxes[i].dom_node]
       /\ Flow!Renders(boxes[i].dom_node)
  /\ \A i, j \in Flow!BoxId : i < j => boxes[i].dom_node < boxes[j].dom_node

\* A call fills the box of its node, at the place it has come to; its child is
\* what the call inside it fills, the last box there is under its own.
Calls ==
  /\ frames # << >> => frames[1].box = 1
  /\ \A k \in 1..Depth :
       /\ frames[k].box \in Flow!BoxId /\ boxes[frames[k].box].kind = "BLOCK"
       /\ boxes[frames[k].box].dom_node = frames[k].dom
       /\ boxes[frames[k].box].y = frames[k].top /\ frames[k].top <= frames[k].cursor
       /\ frames[k].child # 0 => frames[k].child \in Children(frames[k].dom)
  /\ \A k \in 1..(Depth - 1) :
       /\ frames[k].child = frames[k + 1].dom
       /\ boxes[frames[k + 1].box].parent = frames[k].box
       /\ frames[k].cursor = frames[k + 1].top
       /\ \A j \in Flow!BoxId : boxes[j].parent = frames[k].box => j <= frames[k + 1].box
  /\ \A j, k \in 1..Depth : j < k => frames[j].dom < frames[k].dom /\ frames[j].box < frames[k].box

\* The boxes come before the child that is next, and before the one after it
\* where a call inside is under way.
Order ==
  /\ frames # << >> /\ frames[Depth].child # 0 =>
       \A i \in Flow!BoxId : boxes[i].dom_node < frames[Depth].child
  /\ \A k \in 1..(Depth - 1) : nextSibling[frames[k].child] # 0 =>
       \A i \in Flow!BoxId : boxes[i].dom_node < nextSibling[frames[k].child]

\* The call that fills a box has come past a child.
CamePast(i, c) ==
  \A k \in 1..Depth : frames[k].box = i => frames[k].child = 0 \/ c < frames[k].child

Boxed(n) == \E i \in Flow!BoxId : boxes[i].dom_node = n

Complete ==
  ~layout_truncated =>
    \A i \in Flow!BoxId : \A c \in Children(boxes[i].dom_node) :
      Flow!Renders(c) /\ CamePast(i, c) => Boxed(c)

Tight ==
  /\ Flow!FlowIsTight
  /\ \A b \in Flow!BoxId : frames # << >> /\ frames[Depth].box = b =>
       frames[Depth].cursor = Flow!EndOf(b, Flow!ChildBoxes(b))

FlowInv == FlowTyped /\ BoxTree /\ Calls /\ Order /\ Complete /\ Tight

PageInv ==
  /\ DomInv
  /\ completed_stage \in {"NONE", "HTML", "CSS", "CASCADE", "LAYOUT", "DISPLAY_LIST"}
  /\ completed_stage \in {"NONE", "HTML", "CSS"} => boxes = << >>
  /\ completed_stage \in {"LAYOUT", "DISPLAY_LIST"} => boxes # << >> /\ frames = << >>
  /\ IF boxes = << >> THEN frames = << >> /\ ~layout_truncated ELSE FlowInv

(***************************************************************************)
(* The greatest of a set.                                                  *)
(***************************************************************************)
LEMMA MaxIs ==
  ASSUME NEW S \in SUBSET Nat, NEW m \in S, \A k \in S : k <= m
  PROVE  Flow!Max(S) = m
<1> DEFINE top(x) == x \in S /\ \A y \in S : x >= y
<1>1. top(m)
  OBVIOUS
<1>2. \A x \in S : top(x) => x = m
  OBVIOUS
<1>3. Flow!Max(S) = CHOOSE x \in S : \A y \in S : x >= y
  BY DEF Flow!Max
<1>4. top(CHOOSE x \in S : \A y \in S : x >= y)
  BY <1>1, Zenon
<1> QED
  BY <1>2, <1>3, <1>4

LEMMA MaxOf ==
  ASSUME NEW S \in SUBSET Nat, S # {}, NEW b \in Nat, \A k \in S : k <= b
  PROVE  Flow!Max(S) \in S /\ \A k \in S : k <= Flow!Max(S)
<1>1. PICK m \in S : \A k \in S : k <= m
  BY Greatest
<1> QED
  BY <1>1, MaxIs

(***************************************************************************)
(* The DOM that layout walks.                                              *)
(***************************************************************************)
LEMMA NextChild ==
  ASSUME DomInv, NEW p \in Id, NEW c \in Children(p)
  PROVE  /\ nextSibling[c] # 0 =>
              /\ nextSibling[c] \in Children(p) /\ nextSibling[c] > c
              /\ \A d \in Children(p) : d <= c \/ nextSibling[c] <= d
         /\ nextSibling[c] = 0 => \A d \in Children(p) : d <= c
<1>1. /\ Len(nodes) \in Nat /\ c \in Id /\ parent[c] = p /\ Children(p) # {}
      /\ Children(p) \subseteq Id
  BY DEF DomInv, TypeOK, Children
<1>2. TreeLinked
  BY DEF DomInv, TreeShape
<1>3. c # 1
  BY <1>1, <1>2 DEF TreeLinked, Id
<1>4. lastChild[p] \in Children(p) /\ \A d \in Children(p) : d <= lastChild[p]
  BY <1>1, <1>2 DEF TreeLinked
<1>5. CASE lastChild[p] = c
  BY <1>1, <1>2, <1>3, <1>4, <1>5 DEF TreeLinked
<1>6. CASE lastChild[p] # c
  BY <1>1, <1>2, <1>3, <1>6 DEF TreeLinked, Id
<1> QED
  BY <1>5, <1>6

LEMMA FirstChild ==
  ASSUME DomInv, NEW p \in Id
  PROVE  /\ firstChild[p] # 0 =>
              firstChild[p] \in Children(p) /\ \A d \in Children(p) : firstChild[p] <= d
         /\ firstChild[p] = 0 => Children(p) = {}
         /\ \A c \in Children(p) : c \in Id /\ parent[c] = p /\ p < c
<1>1. TreeLinked /\ Len(nodes) \in Nat
  BY DEF DomInv, TreeShape, TypeOK
<1>2. \A c \in Children(p) : c \in Id /\ parent[c] = p /\ p < c
  BY <1>1 DEF TreeLinked, Children, Id
<1> QED
  BY <1>1, <1>2 DEF TreeLinked, Id

\* Texts have no children.
LEMMA TextIsLeaf ==
  ASSUME DomInv, NEW p \in Id, nodes[p].type = "TEXT"
  PROVE  Children(p) = {}
BY FirstChild DEF DomInv, TreeShape, LeavesStayLeaves

(***************************************************************************)
(* The steps of layout, by what they do: the loop goes on to the next      *)
(* sibling, a box is added, a call begins or returns.                      *)
(***************************************************************************)
Still == UNCHANGED <<vars, none, lines>>

OnTo(calls, next, h) ==
  LET a == calls[Len(calls)]
      b == next[Len(calls)]
  IN /\ next \in Seq(CallRec) /\ Len(next) = Len(calls)
     /\ \A k \in 1..(Len(calls) - 1) : next[k] = calls[k]
     /\ b.dom = a.dom /\ b.box = a.box /\ b.top = a.top
     /\ b.child = nextSibling[a.child] /\ b.cursor = a.cursor + h

Child == frames[Depth].child

\* The child before the loop gets a box.
Added(kind, h) ==
  LET new == boxes'[Len(boxes) + 1]
  IN /\ boxes' \in Seq(BoxRec) /\ Len(boxes') = Len(boxes) + 1
     /\ \A i \in Flow!BoxId : boxes'[i] = boxes[i]
     /\ new.kind = kind /\ new.dom_node = Child /\ new.parent = frames[Depth].box
     /\ new.y = frames[Depth].cursor /\ new.height = h
     /\ kind \in {"TEXT", "BLOCK"} /\ h \in Nat
     /\ Flow!Renders(Child)

AtChild == frames # << >> /\ Child # 0

Passed ==
  /\ AtChild /\ Still /\ UNCHANGED boxes
  /\ OnTo(frames, frames', 0)
  /\ layout_truncated' = TRUE \/ (~Flow!Renders(Child) /\ UNCHANGED layout_truncated)

PlacedLeaf(kind, h) ==
  /\ AtChild /\ Still /\ Added(kind, h)
  /\ kind = "BLOCK" => h = 0
  /\ OnTo(frames, frames', h)
  /\ layout_truncated' = TRUE \/ (Children(Child) = {} /\ UNCHANGED layout_truncated)

PlacedBlock ==
  LET new == frames'[Depth + 1]
  IN /\ AtChild /\ Still /\ Added("BLOCK", 0)
     /\ frames' \in Seq(CallRec) /\ Len(frames') = Depth + 1
     /\ \A k \in 1..Depth : frames'[k] = frames[k]
     /\ new.dom = Child /\ new.box = Len(boxes) + 1 /\ new.child = firstChild[Child]
     /\ new.top = frames[Depth].cursor /\ new.cursor = frames[Depth].cursor
     /\ UNCHANGED layout_truncated

Returns(h) ==
  LET b == frames[Depth].box
  IN /\ frames # << >> /\ Child = 0 /\ Still
     /\ h = frames[Depth].cursor - frames[Depth].top /\ h \in Nat
     /\ boxes' \in Seq(BoxRec) /\ Len(boxes') = Len(boxes)
     /\ \A i \in Flow!BoxId :
          /\ boxes'[i].kind = boxes[i].kind /\ boxes'[i].dom_node = boxes[i].dom_node
          /\ boxes'[i].parent = boxes[i].parent /\ boxes'[i].y = boxes[i].y
          /\ boxes'[i].height = IF i = b THEN h ELSE boxes[i].height
     /\ \/ Depth = 1 /\ frames' = << >>
        \/ Depth > 1 /\ OnTo(SubSeq(frames, 1, Depth - 1), frames', h)
     /\ UNCHANGED layout_truncated

\* The invariant with what the steps need of the DOM.
LEMMA CallFacts ==
  ASSUME DomInv, FlowTyped, BoxTree, Calls
  PROVE  /\ Len(boxes) \in Nat \ {0} /\ Depth \in Nat /\ Len(nodes) \in Nat
         /\ \A i \in Flow!BoxId : boxes[i] \in BoxRec
         /\ \A k \in 1..Depth : frames[k] \in CallRec /\ frames[k].dom \in Id
         /\ frames # << >> => Depth \in 1..Depth
         /\ nextSibling \in [Id -> Nat] /\ firstChild \in [Id -> Nat] /\ parent \in [Id -> Nat]
<1>1. Len(nodes) \in Nat /\ nextSibling \in [Id -> Nat] /\ firstChild \in [Id -> Nat] /\ parent \in [Id -> Nat]
  <2>1. \A s \in Seq(Nat) : s \in [1..Len(s) -> Nat]
    OBVIOUS
  <2>2. /\ nodes \in Seq(Node) /\ parent \in Seq(Nat) /\ Len(parent) = Len(nodes)
        /\ firstChild \in Seq(Nat) /\ Len(firstChild) = Len(nodes)
        /\ nextSibling \in Seq(Nat) /\ Len(nextSibling) = Len(nodes)
    BY DEF DomInv, TypeOK
  <2>3. Len(nodes) \in Nat
    BY <2>2
  <2> QED
    BY <2>1, <2>2, <2>3 DEF Id
<1>2. boxes \in Seq(BoxRec) /\ boxes # << >> /\ frames \in Seq(CallRec)
  BY DEF FlowTyped
<1>3. Len(boxes) \in Nat \ {0} /\ \A i \in Flow!BoxId : boxes[i] \in BoxRec
  BY <1>2 DEF Flow!BoxId
<1>4. Depth \in Nat /\ (frames # << >> => Depth \in 1..Depth)
  BY <1>2 DEF Depth
<1>5. \A k \in 1..Depth : frames[k] \in CallRec /\ frames[k].dom \in Id
  <2> TAKE k \in 1..Depth
  <2>1. frames[k] \in CallRec
    BY <1>2 DEF Depth
  <2>2. frames[k].dom \in Id
    BY DEF Calls, BoxTree
  <2> QED
    BY <2>1, <2>2
<1> QED
  BY <1>1, <1>3, <1>4, <1>5

LEMMA ChildIs ==
  ASSUME DomInv, FlowTyped, BoxTree, Calls, AtChild
  PROVE  /\ Child \in Children(frames[Depth].dom) /\ Child \in Id
         /\ frames[Depth].dom < Child
         /\ nextSibling[Child] \in Nat /\ firstChild[Child] \in Nat
         /\ parent[Child] = frames[Depth].dom
<1>1. Depth \in 1..Depth /\ frames[Depth].dom \in Id
  BY CallFacts DEF AtChild
<1>2. Child \in Children(frames[Depth].dom)
  BY <1>1 DEF AtChild, Calls, Child
<1> QED
  BY <1>1, <1>2, FirstChild, CallFacts

\* While a call is under way, its caller's next child comes after all of it.
LEMMA Below ==
  ASSUME DomInv, FlowTyped, BoxTree, Calls, Order, AtChild,
         NEW k \in 1..(Depth - 1), nextSibling[frames[k].child] # 0
  PROVE  Child < nextSibling[frames[k].child]
<1> DEFINE b == nextSibling[frames[k].child]
           p == frames[Depth].dom
<1>1. Depth \in 1..Depth /\ k \in 1..Depth /\ k < Depth /\ k + 1 \in 1..Depth
  BY CallFacts DEF AtChild
<1>2. frames[k].child \in Children(frames[k].dom) /\ frames[k].dom \in Id
  <2>1. frames[k].child = frames[k + 1].dom /\ frames[k].dom \in Id /\ frames[k + 1].dom \in Id
    BY <1>1, CallFacts DEF Calls
  <2>2. frames[k].child # 0
    BY <2>1 DEF Id
  <2> QED
    BY <1>1, <2>1, <2>2 DEF Calls
<1>3. b \in Children(frames[k].dom)
  BY <1>2, NextChild
<1>4. b \in Id /\ parent[b] = frames[k].dom
  BY <1>2, <1>3, FirstChild
<1>5. p < b
  <2>1. boxes[frames[Depth].box].dom_node = p /\ frames[Depth].box \in Flow!BoxId
    BY <1>1 DEF Calls
  <2> QED
    BY <2>1 DEF Order
<1>6. frames[k].dom < p
  BY <1>1 DEF Calls
<1>7. Child \in Id /\ parent[Child] = p
  BY ChildIs
<1>8. frames[k].dom \in Nat /\ p \in Nat /\ Child \in Nat /\ b \in Nat
  <2>1. \A n \in Id : n \in Nat
    BY DEF Id
  <2> QED
    BY <1>1, <1>2, <1>4, <1>7, <2>1, CallFacts
<1>9. ~(b <= Child)
  <2>1. SUFFICES ASSUME b <= Child PROVE FALSE
    OBVIOUS
  <2>2. b \in (parent[Child] + 1)..Child
    BY <1>5, <1>7, <1>8, <2>1
  <2>3. parent[b] >= parent[Child]
    BY <1>7, <2>2 DEF DomInv, TreeShape, DocumentOrder
  <2> QED
    BY <1>4, <1>6, <1>7, <1>8, <2>3
<1> QED
  BY <1>8, <1>9

LEMMA DomStill ==
  ASSUME Still
  PROVE  /\ UNCHANGED <<nodes, parent, firstChild, nextSibling, none, lines>>
         /\ Id' = Id
         /\ \A p : Children(p)' = Children(p)
         /\ \A n : Flow!Renders(n)' = Flow!Renders(n)
         /\ DomInv => DomInv'
<1>1. UNCHANGED <<nodes, parent, firstChild, nextSibling, none, lines>> /\ UNCHANGED vars
  BY DEF Still, vars, tree
<1>2. Id' = Id
  BY <1>1 DEF Id
<1>3. DomInv => DomInv'
  <2>1. SUFFICES ASSUME DomInv PROVE DomInv'
    OBVIOUS
  <2>2. [Next]_vars
    BY <1>1
  <2> QED
    BY <2>1, <2>2, InvPreserved, NextIsToken
<1> QED
  BY <1>1, <1>2, <1>3 DEF Children, Flow!Renders

(***************************************************************************)
(* The loop goes on to the next sibling.                                   *)
(***************************************************************************)
LEMMA PassedKeeps ==
  ASSUME DomInv, FlowInv, Passed
  PROVE  FlowInv'
<1> USE DomStill DEF FlowInv
<1>0. /\ Still /\ AtChild /\ boxes' = boxes
      /\ Len(frames') = Depth /\ Depth \in 1..Depth /\ frames' \in Seq(CallRec)
      /\ \A k \in 1..(Depth - 1) : frames'[k] = frames[k]
      /\ frames'[Depth].dom = frames[Depth].dom /\ frames'[Depth].box = frames[Depth].box
      /\ frames'[Depth].top = frames[Depth].top
      /\ frames'[Depth].child = nextSibling[Child]
      /\ frames'[Depth].cursor = frames[Depth].cursor
      /\ Depth' = Depth /\ Flow!BoxId' = Flow!BoxId
  BY CallFacts DEF Passed, OnTo, Depth, Child, AtChild, CallRec, Flow!BoxId
<1>c. /\ Child \in Children(frames[Depth].dom) /\ Child \in Id /\ frames[Depth].dom \in Id
      /\ nextSibling[Child] \in Nat
      /\ nextSibling[Child] # 0 => nextSibling[Child] \in Children(frames[Depth].dom) /\ Child < nextSibling[Child]
      /\ \A d \in Children(frames[Depth].dom) : d <= Child \/ (nextSibling[Child] # 0 /\ nextSibling[Child] <= d)
  BY <1>0, ChildIs, NextChild, CallFacts
<1>n. \A n \in Id : n \in Nat
  BY DEF Id
<1>1. FlowTyped'
  BY <1>0 DEF FlowTyped
<1>2. BoxTree'
  BY <1>0 DEF BoxTree, Flow!BoxId
<1>3. Calls'
  <2>1. frames' # << >> => frames'[1].box = 1
    <3>1. frames[1].box = 1
      BY <1>0 DEF Calls, AtChild
    <3> QED
      BY <1>0, <3>1
  <2>2. ASSUME NEW k \in 1..Depth
        PROVE  /\ frames'[k].box = frames[k].box /\ frames'[k].dom = frames[k].dom
               /\ frames'[k].top = frames[k].top /\ frames'[k].cursor = frames[k].cursor
               /\ k < Depth => frames'[k].child = frames[k].child
               /\ frames'[k].child # 0 => frames'[k].child \in Children(frames[k].dom)
    <3>1. CASE k < Depth
      BY <1>0, <3>1 DEF Calls
    <3>2. CASE k = Depth
      BY <1>0, <1>c, <3>2
    <3> QED
      BY <3>1, <3>2, <1>0
  <2> QED
    BY <1>0, <2>1, <2>2 DEF Calls
<1>4. Order'
  <2>1. ASSUME frames'[Depth].child # 0, NEW i \in Flow!BoxId
        PROVE  boxes[i].dom_node < frames'[Depth].child
    <3>1. boxes[i].dom_node < Child /\ boxes[i].dom_node \in Id
      BY <1>0 DEF Order, Child, AtChild, BoxTree
    <3> QED
      BY <1>0, <1>c, <1>n, <2>1, <3>1
  <2>2. ASSUME NEW k \in 1..(Depth - 1) PROVE frames'[k].child = frames[k].child
    BY <1>0
  <2> QED
    BY <1>0, <2>1, <2>2 DEF Order
<1>5. Complete'
  <2>1. SUFFICES ASSUME ~layout_truncated', NEW i \in Flow!BoxId,
                        NEW d \in Children(boxes[i].dom_node), Flow!Renders(d), CamePast(i, d)'
                 PROVE  Boxed(d)
    BY <1>0 DEF Complete, Boxed
  <2>2. ~layout_truncated /\ ~Flow!Renders(Child)
    BY <2>1 DEF Passed
  <2>3. SUFFICES ASSUME ~CamePast(i, d) PROVE FALSE
    BY <2>1, <2>2 DEF Complete
  <2>4. PICK k \in 1..Depth : frames[k].box = i /\ frames[k].child # 0 /\ ~(d < frames[k].child)
    BY <2>3 DEF CamePast
  <2>5. k = Depth
    BY <1>0, <2>1, <2>4 DEF CamePast
  <2>6. boxes[i].dom_node = frames[Depth].dom
    BY <1>0, <2>4, <2>5 DEF Calls
  <2>7. d \in Children(frames[Depth].dom) /\ d \in Nat /\ nextSibling[Child] \in Nat
    BY <2>1, <2>6, <1>c, <1>n, FirstChild
  <2>8. nextSibling[Child] = 0 \/ d < nextSibling[Child]
    BY <1>0, <2>1, <2>4, <2>5 DEF CamePast
  <2>9. d = Child
    BY <1>c, <2>4, <2>5, <2>7, <2>8 DEF Child, Id
  <2> QED
    BY <2>1, <2>2, <2>9
<1>6. Tight'
  <2>1. \A k \in 1..Depth : frames'[k].box = frames[k].box
    BY <1>0
  <2>2. \A i : /\ Flow!Active(i)' = Flow!Active(i)
               /\ Flow!ChildBoxes(i)' = Flow!ChildBoxes(i)
               /\ \A js : Flow!EndOf(i, js)' = Flow!EndOf(i, js)
    BY <1>0, <2>1 DEF Flow!Active, Flow!ChildBoxes, Flow!EndOf, Depth
  <2>3. Flow!FlowIsTight'
    BY <1>0, <2>2 DEF Tight, Flow!FlowIsTight
  <2> QED
    BY <1>0, <2>1, <2>2, <2>3 DEF Tight, AtChild
<1> QED
  BY <1>1, <1>2, <1>3, <1>4, <1>5, <1>6

(***************************************************************************)
(* The child before the loop gets a box.                                   *)
(***************************************************************************)
LEMMA AddedTree ==
  ASSUME DomInv, FlowInv, AtChild, Still, NEW kind, NEW h, Added(kind, h)
  PROVE  BoxTree'
<1> USE DomStill DEF FlowInv
<1> DEFINE new == Len(boxes) + 1
<1>1. /\ Len(boxes) \in Nat \ {0} /\ Len(boxes') = new
      /\ Flow!BoxId = 1..Len(boxes) /\ Flow!BoxId' = 1..new
      /\ \A i \in 1..Len(boxes) : boxes'[i] = boxes[i]
      /\ boxes'[new].dom_node = Child /\ boxes'[new].parent = frames[Depth].box
      /\ Flow!Renders(Child)
  BY CallFacts DEF Added, Flow!BoxId
<1>2. /\ Child \in Id /\ parent[Child] = frames[Depth].dom
      /\ frames[Depth].box \in 1..Len(boxes) /\ boxes[frames[Depth].box].dom_node = frames[Depth].dom
  BY ChildIs, CallFacts, <1>1 DEF Calls, AtChild
<1>3. \A i \in 1..Len(boxes) : boxes[i].dom_node < Child
  BY <1>1 DEF Order, Child, AtChild
<1>4. boxes'[1].dom_node = 1 /\ boxes'[1].kind = "BLOCK"
  BY <1>1 DEF BoxTree
<1>5. \A i \in 1..new : boxes'[i].dom_node \in Id
  BY <1>1, <1>2 DEF BoxTree
<1>6. ASSUME NEW i \in 2..new
      PROVE  /\ boxes'[i].parent \in 1..(i - 1)
             /\ boxes'[boxes'[i].parent].dom_node = parent[boxes'[i].dom_node]
             /\ Flow!Renders(boxes'[i].dom_node)
  <2>1. CASE i = new
    BY <1>1, <1>2, <2>1
  <2>2. CASE i # new
    <3>1. i \in 2..Len(boxes)
      BY <1>1, <2>2
    <3>2. /\ boxes[i].parent \in 1..(i - 1)
          /\ boxes[boxes[i].parent].dom_node = parent[boxes[i].dom_node]
          /\ Flow!Renders(boxes[i].dom_node)
      BY <3>1 DEF BoxTree
    <3>3. i \in 1..Len(boxes) /\ boxes[i].parent \in 1..Len(boxes)
      BY <1>1, <3>1, <3>2
    <3> QED
      BY <1>1, <3>2, <3>3
  <2> QED
    BY <2>1, <2>2
<1>7. ASSUME NEW i \in 1..new, NEW j \in 1..new, i < j
      PROVE  boxes'[i].dom_node < boxes'[j].dom_node
  <2>1. i \in 1..Len(boxes) /\ (j = new \/ j \in 1..Len(boxes))
    BY <1>1, <1>7
  <2> QED
    BY <1>1, <1>3, <1>7, <2>1 DEF BoxTree
<1> QED
  BY <1>1, <1>4, <1>5, <1>6, <1>7 DEF BoxTree

\* Boxes under a box, and where they end.
LEMMA AddedKids ==
  ASSUME DomInv, FlowInv, AtChild, NEW kind, NEW h, Added(kind, h),
         NEW b, b = frames[Depth].box, NEW new, new = Len(boxes) + 1
  PROVE  /\ b \in Flow!BoxId
         /\ Flow!ChildBoxes(new)' = {}
         /\ Flow!ChildBoxes(b)' = Flow!ChildBoxes(b) \cup {new}
         /\ \A i \in Flow!BoxId : i # b => Flow!ChildBoxes(i)' = Flow!ChildBoxes(i)
         /\ \A i \in Flow!BoxId : Flow!ChildBoxes(i) \in SUBSET Flow!BoxId
         /\ \A i \in Flow!BoxId : \A js \in SUBSET Flow!BoxId :
              /\ Flow!EndOf(i, js)' = Flow!EndOf(i, js)
              /\ Flow!EndOf(i, js \cup {new})' = boxes'[new].y + h
<1> USE DEF FlowInv
<1>1. /\ Len(boxes) \in Nat \ {0} /\ Len(boxes') = new
      /\ Flow!BoxId = 1..Len(boxes) /\ Flow!BoxId' = 1..new
      /\ \A i \in 1..Len(boxes) : boxes'[i] = boxes[i]
      /\ boxes'[new].parent = b /\ boxes'[new].height = h
  BY CallFacts DEF Added, Flow!BoxId
<1>2. b \in 1..Len(boxes)
  BY CallFacts, <1>1 DEF Calls, AtChild
<1>3. \A i \in 2..Len(boxes) : boxes[i].parent \in 1..(i - 1)
  BY DEF BoxTree
<1>4. \A i \in 1..Len(boxes) : Flow!ChildBoxes(i) \in SUBSET (1..Len(boxes))
  BY <1>1 DEF Flow!ChildBoxes
<1>5. Flow!ChildBoxes(new)' = {}
  BY <1>1, <1>2, <1>3 DEF Flow!ChildBoxes
<1>6. Flow!ChildBoxes(b)' = Flow!ChildBoxes(b) \cup {new}
  BY <1>1, <1>2 DEF Flow!ChildBoxes
<1>7. \A i \in 1..Len(boxes) : i # b => Flow!ChildBoxes(i)' = Flow!ChildBoxes(i)
  BY <1>1, <1>2 DEF Flow!ChildBoxes
<1>8. ASSUME NEW i \in 1..Len(boxes), NEW js \in SUBSET (1..Len(boxes))
      PROVE  /\ Flow!EndOf(i, js)' = Flow!EndOf(i, js)
             /\ Flow!EndOf(i, js \cup {new})' = boxes'[new].y + h
  <2>1. js # {} => Flow!Max(js) \in 1..Len(boxes)
    <3>1. js \in SUBSET Nat /\ \A k \in js : k <= Len(boxes)
      BY <1>1
    <3> QED
      BY <1>1, <3>1, MaxOf
  <2>2. Flow!Max(js \cup {new}) = new
    <3>1. \A k \in js \cup {new} : k \in Nat /\ k <= new
      BY <1>1
    <3>2. js \cup {new} \in SUBSET Nat
      BY <3>1
    <3> QED
      BY <3>1, <3>2, MaxIs
  <2> QED
    BY <1>1, <2>1, <2>2 DEF Flow!EndOf
<1> QED
  BY <1>1, <1>2, <1>4, <1>5, <1>6, <1>7, <1>8

LEMMA AddedTight ==
  ASSUME DomInv, FlowInv, AtChild, NEW kind, NEW h, Added(kind, h), kind = "BLOCK" => h = 0,
         NEW b, b = frames[Depth].box, NEW new, new = Len(boxes) + 1,
         \A i \in Flow!BoxId : Flow!Active(i) => Flow!Active(i)'
  PROVE  /\ Flow!FlowIsTight'
         /\ Flow!EndOf(b, Flow!ChildBoxes(b))' = boxes'[new].y + h
         /\ Flow!EndOf(new, Flow!ChildBoxes(new))' = boxes'[new].y
<1>2. /\ b \in Flow!BoxId
      /\ Flow!ChildBoxes(new)' = {}
      /\ Flow!ChildBoxes(b)' = Flow!ChildBoxes(b) \cup {new}
      /\ \A i \in Flow!BoxId : i # b => Flow!ChildBoxes(i)' = Flow!ChildBoxes(i)
      /\ \A i \in Flow!BoxId : Flow!ChildBoxes(i) \in SUBSET Flow!BoxId
      /\ \A i \in Flow!BoxId : \A js \in SUBSET Flow!BoxId :
           /\ Flow!EndOf(i, js)' = Flow!EndOf(i, js)
           /\ Flow!EndOf(i, js \cup {new})' = boxes'[new].y + h
  BY AddedKids
<1>1. /\ Len(boxes) \in Nat \ {0} /\ Len(boxes') = new
      /\ Flow!BoxId = 1..Len(boxes) /\ Flow!BoxId' = 1..new
      /\ \A i \in 1..Len(boxes) : boxes'[i] = boxes[i]
      /\ boxes'[new].parent = b /\ boxes'[new].height = h /\ boxes'[new].kind = kind
      /\ boxes'[new].y = frames[Depth].cursor
      /\ boxes' \in Seq(BoxRec)
  BY CallFacts DEF Added, FlowInv, Flow!BoxId
<1>3. Flow!Active(b)'
  <2>1. Flow!Active(b)
    BY CallFacts DEF FlowInv, Flow!Active, AtChild, Depth
  <2> QED
    BY <1>2, <2>1
<1>4. frames[Depth].cursor = Flow!EndOf(b, Flow!ChildBoxes(b))
  BY <1>2 DEF FlowInv, Tight, AtChild
<1>5. Flow!EndOf(b, Flow!ChildBoxes(b))' = boxes'[new].y + h
  <2>1. PICK js \in SUBSET Flow!BoxId : js = Flow!ChildBoxes(b)
    BY <1>2
  <2>2. Flow!ChildBoxes(b)' = js \cup {new}
    BY <1>2, <2>1
  <2>3. Flow!EndOf(b, js \cup {new})' = boxes'[new].y + h
    BY <1>2
  <2> QED
    BY <2>2, <2>3
<1>6. Flow!EndOf(new, Flow!ChildBoxes(new))' = boxes'[new].y
  BY <1>2 DEF Flow!EndOf
<1>7. ASSUME NEW i \in 1..new
      PROVE  /\ \A j \in Flow!ChildBoxes(i)' :
                  boxes'[j].y = Flow!EndOf(i, {k \in Flow!ChildBoxes(i) : k < j})'
             /\ boxes'[i].kind = "BLOCK" /\ ~Flow!Active(i)' =>
                  boxes'[i].y + boxes'[i].height = Flow!EndOf(i, Flow!ChildBoxes(i))'
  <2>1. CASE i = new
    <3>1. kind = "BLOCK" => boxes'[new].y + boxes'[new].height = boxes'[new].y
      <4>1. boxes'[new].y \in Nat
        <5>1. boxes'[new] \in BoxRec
          BY <1>1
        <5> QED
          BY <5>1 DEF BoxRec
      <4> QED
        BY <1>1, <4>1
    <3> QED
      BY <1>1, <1>2, <1>6, <2>1, <3>1
  <2>2. CASE i \in 1..Len(boxes)
    <3>1. ASSUME NEW j \in Flow!ChildBoxes(i)', NEW before, before = {k \in Flow!ChildBoxes(i)' : k < j}
          PROVE  boxes'[j].y = Flow!EndOf(i, before)'
      <4>1. CASE j = new
        <5>1. i = b /\ before = Flow!ChildBoxes(b)
          BY <1>1, <1>2, <2>2, <3>1, <4>1
        <5> QED
          BY <1>1, <1>2, <1>4, <4>1, <5>1
      <4>2. CASE j # new
        <5>1. j \in Flow!ChildBoxes(i) /\ j \in 1..Len(boxes) /\ before = {k \in Flow!ChildBoxes(i) : k < j}
          BY <1>1, <1>2, <2>2, <3>1, <4>2
        <5>2. boxes[j].y = Flow!EndOf(i, before)
          BY <1>1, <2>2, <5>1 DEF FlowInv, Tight, Flow!FlowIsTight
        <5> QED
          BY <1>1, <1>2, <2>2, <5>1, <5>2
      <4> QED
        BY <4>1, <4>2
    <3>2. ASSUME boxes'[i].kind = "BLOCK", ~Flow!Active(i)'
          PROVE  boxes'[i].y + boxes'[i].height = Flow!EndOf(i, Flow!ChildBoxes(i))'
      <4>1. i # b /\ ~Flow!Active(i) /\ boxes[i].kind = "BLOCK"
        BY <1>1, <1>3, <2>2, <3>2
      <4>2. boxes[i].y + boxes[i].height = Flow!EndOf(i, Flow!ChildBoxes(i))
        BY <1>1, <2>2, <4>1 DEF FlowInv, Tight, Flow!FlowIsTight
      <4> QED
        BY <1>1, <1>2, <2>2, <4>1, <4>2
    <3> QED
      BY <3>1, <3>2
  <2> QED
    BY <1>1, <2>1, <2>2
<1>8. Flow!FlowIsTight'
  BY <1>1, <1>7 DEF Flow!FlowIsTight
<1> QED
  BY <1>5, <1>6, <1>8

LEMMA LeafKeeps ==
  ASSUME DomInv, FlowInv, NEW kind, NEW h, PlacedLeaf(kind, h)
  PROVE  FlowInv'
<1> DEFINE new == Len(boxes) + 1
<1>0. /\ Still /\ AtChild /\ Added(kind, h)
      /\ Len(frames') = Depth /\ Depth \in 1..Depth /\ frames' \in Seq(CallRec)
      /\ \A k \in 1..(Depth - 1) : frames'[k] = frames[k]
      /\ frames'[Depth].dom = frames[Depth].dom /\ frames'[Depth].box = frames[Depth].box
      /\ frames'[Depth].top = frames[Depth].top
      /\ frames'[Depth].child = nextSibling[Child]
      /\ frames'[Depth].cursor = frames[Depth].cursor + h
      /\ Depth' = Depth
  BY CallFacts DEF FlowInv, PlacedLeaf, OnTo, Depth, Child, AtChild
<1>b. /\ Len(boxes) \in Nat \ {0} /\ Len(boxes') = new /\ boxes' \in Seq(BoxRec)
      /\ Flow!BoxId = 1..Len(boxes) /\ Flow!BoxId' = 1..new
      /\ \A i \in Flow!BoxId : boxes'[i] = boxes[i]
      /\ boxes'[new].parent = frames[Depth].box /\ boxes'[new].dom_node = Child
      /\ boxes'[new].y = frames[Depth].cursor
      /\ h \in Nat
  BY <1>0, CallFacts DEF FlowInv, Added, Flow!BoxId
<1>c. /\ Child \in Children(frames[Depth].dom) /\ Child \in Id /\ frames[Depth].dom \in Id
      /\ nextSibling[Child] \in Nat
      /\ nextSibling[Child] # 0 => nextSibling[Child] \in Children(frames[Depth].dom) /\ Child < nextSibling[Child]
      /\ \A d \in Children(frames[Depth].dom) : d <= Child \/ (nextSibling[Child] # 0 /\ nextSibling[Child] <= d)
  BY <1>0, ChildIs, NextChild, CallFacts DEF FlowInv
<1>n. \A n \in Id : n \in Nat
  BY DEF Id
<1>d. \A k \in 1..Depth : frames'[k].box = frames[k].box /\ frames[k].box \in Flow!BoxId
  BY <1>0 DEF FlowInv, Calls
<1>1. FlowTyped'
  <2>1. boxes' # << >>
    BY <1>b
  <2> QED
    BY <1>0, <1>b, <2>1, DomStill DEF FlowInv, FlowTyped
<1>2. BoxTree'
  BY <1>0, AddedTree
<1>3. Calls'
  <2>1. frames' # << >> => frames'[1].box = 1
    BY <1>0, <1>d DEF AtChild, FlowInv, Calls
  <2>2. ASSUME NEW k \in 1..Depth
        PROVE  /\ frames'[k].dom = frames[k].dom /\ frames'[k].top = frames[k].top
               /\ frames[k].top <= frames'[k].cursor
               /\ k < Depth => frames'[k].child = frames[k].child /\ frames'[k].cursor = frames[k].cursor
               /\ frames'[k].child # 0 => frames'[k].child \in Children(frames[k].dom)
    <3>1. CASE k < Depth
      BY <1>0, <3>1 DEF FlowInv, Calls
    <3>2. CASE k = Depth
      <4>1. frames[k] \in CallRec /\ frames[k].top <= frames[k].cursor
        BY CallFacts DEF FlowInv, Calls
      <4>2. frames[k].top \in Nat /\ frames[k].cursor \in Nat
        BY <4>1 DEF CallRec
      <4> QED
        BY <1>0, <1>b, <1>c, <3>2, <4>1, <4>2
    <3> QED
      BY <3>1, <3>2, <1>0
  <2>3. ASSUME NEW k \in 1..Depth
        PROVE  /\ frames'[k].box \in Flow!BoxId' /\ boxes'[frames'[k].box].kind = "BLOCK"
               /\ boxes'[frames'[k].box].dom_node = frames'[k].dom
               /\ boxes'[frames'[k].box].y = frames'[k].top
    BY <1>b, <1>d, <2>2 DEF FlowInv, Calls
  <2>4. ASSUME NEW k \in 1..(Depth - 1), NEW j \in Flow!BoxId', boxes'[j].parent = frames'[k].box
        PROVE  j <= frames'[k + 1].box
    <3>1. k \in 1..Depth /\ k + 1 \in 1..Depth /\ k < Depth
      BY <1>0
    <3>2. j # new
      <4>1. frames[k].box < frames[Depth].box
        BY <1>0, <3>1 DEF FlowInv, Calls
      <4> QED
        BY <1>b, <1>d, <2>4, <3>1, <4>1, <1>0
    <3>3. j \in Flow!BoxId /\ boxes[j].parent = frames[k].box
      BY <1>b, <1>d, <2>4, <3>1, <3>2
    <3> QED
      BY <1>d, <3>1, <3>3 DEF FlowInv, Calls
  <2>5. ASSUME NEW k \in 1..(Depth - 1)
        PROVE  /\ frames'[k].child = frames'[k + 1].dom
               /\ boxes'[frames'[k + 1].box].parent = frames'[k].box
               /\ frames'[k].cursor = frames'[k + 1].top
    <3>1. k \in 1..Depth /\ k + 1 \in 1..Depth /\ k < Depth
      BY <1>0
    <3>2. /\ frames[k].child = frames[k + 1].dom
          /\ boxes[frames[k + 1].box].parent = frames[k].box
          /\ frames[k].cursor = frames[k + 1].top
      BY DEF FlowInv, Calls
    <3> QED
      BY <1>b, <1>d, <2>2, <3>1, <3>2
  <2>6. \A j, k \in 1..Depth : j < k => frames'[j].dom < frames'[k].dom /\ frames'[j].box < frames'[k].box
    BY <1>d, <2>2 DEF FlowInv, Calls
  <2> QED
    BY <1>0, <2>1, <2>2, <2>3, <2>4, <2>5, <2>6, DomStill DEF Calls
<1>4. Order'
  <2>1. ASSUME frames'[Depth].child # 0, NEW i \in Flow!BoxId'
        PROVE  boxes'[i].dom_node < frames'[Depth].child
    <3>1. CASE i = new
      BY <1>0, <1>b, <1>c, <2>1, <3>1
    <3>2. CASE i \in Flow!BoxId
      <4>1. boxes[i].dom_node < Child /\ boxes[i].dom_node \in Id
        BY <1>0, <3>2 DEF FlowInv, Order, Child, AtChild, BoxTree
      <4> QED
        BY <1>0, <1>b, <1>c, <1>n, <2>1, <3>2, <4>1
    <3> QED
      BY <1>b, <3>1, <3>2
  <2>2. ASSUME NEW k \in 1..(Depth - 1), nextSibling[frames'[k].child] # 0, NEW i \in Flow!BoxId'
        PROVE  boxes'[i].dom_node < nextSibling[frames'[k].child]
    <3>0. frames'[k].child = frames[k].child
      BY <1>0
    <3>1. CASE i = new
      BY <1>0, <1>b, <2>2, <3>0, <3>1, Below DEF FlowInv
    <3>2. CASE i \in Flow!BoxId
      BY <1>b, <2>2, <3>0, <3>2 DEF FlowInv, Order
    <3> QED
      BY <1>b, <3>1, <3>2
  <2> QED
    BY <1>0, <2>1, <2>2, DomStill DEF Order
<1>5. Complete'
  <2>1. SUFFICES ASSUME ~layout_truncated', NEW i \in Flow!BoxId',
                        NEW d \in Children(boxes'[i].dom_node), Flow!Renders(d), CamePast(i, d)'
                 PROVE  Boxed(d)'
    BY <1>0, DomStill DEF Complete
  <2>2. ~layout_truncated /\ Children(Child) = {}
    BY <2>1 DEF PlacedLeaf
  <2>3. i \in Flow!BoxId /\ boxes'[i] = boxes[i]
    BY <1>b, <2>1, <2>2
  <2>4. SUFFICES ASSUME ~CamePast(i, d) PROVE Boxed(d)'
    <3>1. ASSUME CamePast(i, d) PROVE Boxed(d)'
      BY <1>b, <2>1, <2>2, <2>3, <3>1 DEF FlowInv, Complete, Boxed
    <3> QED
      BY <3>1
  <2>5. PICK k \in 1..Depth : frames[k].box = i /\ frames[k].child # 0 /\ ~(d < frames[k].child)
    BY <2>4 DEF CamePast
  <2>6. k = Depth
    BY <1>0, <2>1, <2>5 DEF CamePast
  <2>7. d \in Children(frames[Depth].dom) /\ d \in Nat
    BY <1>c, <1>n, <2>1, <2>3, <2>5, <2>6, FirstChild DEF FlowInv, Calls
  <2>8. nextSibling[Child] = 0 \/ d < nextSibling[Child]
    BY <1>0, <2>1, <2>5, <2>6 DEF CamePast
  <2>9. d = Child
    BY <1>c, <1>n, <2>5, <2>6, <2>7, <2>8 DEF Child
  <2> QED
    BY <1>b, <2>9 DEF Boxed
<1>6. Tight'
  <2>1. \A i \in Flow!BoxId : Flow!Active(i) => Flow!Active(i)'
    BY <1>0, <1>d DEF Flow!Active, Depth
  <2>2. PICK b : b = frames[Depth].box
    OBVIOUS
  <2>3. PICK n : n = Len(boxes) + 1
    OBVIOUS
  <2>4. /\ Flow!FlowIsTight'
        /\ Flow!EndOf(b, Flow!ChildBoxes(b))' = boxes'[n].y + h
    BY <1>0, <2>1, <2>2, <2>3, AddedTight DEF PlacedLeaf
  <2> QED
    BY <1>0, <1>b, <2>2, <2>3, <2>4 DEF Tight
<1> QED
  BY <1>1, <1>2, <1>3, <1>4, <1>5, <1>6 DEF FlowInv

LEMMA BlockKeeps ==
  ASSUME DomInv, FlowInv, PlacedBlock
  PROVE  FlowInv'
<1> DEFINE new == Len(boxes) + 1
           D == Depth + 1
<1>0. /\ Still /\ AtChild /\ Added("BLOCK", 0)
      /\ Len(frames') = D /\ Depth \in 1..Depth /\ D \in Nat /\ frames' \in Seq(CallRec)
      /\ \A k \in 1..Depth : frames'[k] = frames[k]
      /\ frames'[D].dom = Child /\ frames'[D].box = new
      /\ frames'[D].child = firstChild[Child]
      /\ frames'[D].top = frames[Depth].cursor /\ frames'[D].cursor = frames[Depth].cursor
      /\ Depth' = D
  BY CallFacts DEF FlowInv, PlacedBlock, Depth, Child, AtChild
<1>b. /\ Len(boxes) \in Nat \ {0} /\ Len(boxes') = new /\ boxes' \in Seq(BoxRec)
      /\ Flow!BoxId = 1..Len(boxes) /\ Flow!BoxId' = 1..new
      /\ \A i \in Flow!BoxId : boxes'[i] = boxes[i]
      /\ boxes'[new].parent = frames[Depth].box /\ boxes'[new].dom_node = Child
      /\ boxes'[new].y = frames[Depth].cursor /\ boxes'[new].kind = "BLOCK"
  BY <1>0, CallFacts DEF FlowInv, Added, Flow!BoxId
<1>c. /\ Child \in Children(frames[Depth].dom) /\ Child \in Id /\ frames[Depth].dom \in Id
      /\ frames[Depth].dom < Child
      /\ nextSibling[Child] # 0 => Child < nextSibling[Child]
      /\ firstChild[Child] # 0 => firstChild[Child] \in Children(Child) /\ Child < firstChild[Child]
      /\ \A d \in Children(Child) : firstChild[Child] # 0 /\ firstChild[Child] <= d
  BY <1>0, ChildIs, NextChild, FirstChild, CallFacts DEF FlowInv
<1>n. \A n \in Id : n \in Nat
  BY DEF Id
<1>d. \A k \in 1..Depth : frames[k].box \in Flow!BoxId /\ frames[k].dom \in Id
  BY <1>0, CallFacts DEF FlowInv, Calls
<1>r. frames[Depth].cursor \in Nat
  <2>1. frames[Depth] \in CallRec
    BY <1>0, CallFacts DEF FlowInv
  <2> QED
    BY <2>1 DEF CallRec
<1>1. FlowTyped'
  <2>1. boxes' # << >>
    BY <1>b
  <2> QED
    BY <1>0, <1>b, <2>1, DomStill DEF FlowInv, FlowTyped
<1>2. BoxTree'
  BY <1>0, AddedTree
<1>3. Calls'
  <2>1. frames' # << >> => frames'[1].box = 1
    BY <1>0 DEF AtChild, FlowInv, Calls
  <2>2. ASSUME NEW k \in 1..D
        PROVE  /\ frames'[k].box \in Flow!BoxId' /\ boxes'[frames'[k].box].kind = "BLOCK"
               /\ boxes'[frames'[k].box].dom_node = frames'[k].dom
               /\ boxes'[frames'[k].box].y = frames'[k].top /\ frames'[k].top <= frames'[k].cursor
               /\ frames'[k].child # 0 => frames'[k].child \in Children(frames'[k].dom)
    <3>1. CASE k \in 1..Depth
      BY <1>0, <1>b, <1>d, <3>1 DEF FlowInv, Calls
    <3>2. CASE k = D
      BY <1>0, <1>b, <1>c, <1>r, <3>2
    <3> QED
      BY <3>1, <3>2, <1>0
  <2>3. ASSUME NEW k \in 1..(D - 1)
        PROVE  /\ frames'[k].child = frames'[k + 1].dom
               /\ boxes'[frames'[k + 1].box].parent = frames'[k].box
               /\ frames'[k].cursor = frames'[k + 1].top
               /\ \A j \in Flow!BoxId' : boxes'[j].parent = frames'[k].box => j <= frames'[k + 1].box
    <3>1. CASE k = Depth
      BY <1>0, <1>b, <3>1 DEF Child
    <3>2. CASE k < Depth
      <4>1. k \in 1..Depth /\ k + 1 \in 1..Depth /\ k \in 1..(Depth - 1) /\ Depth \in 1..Depth
        BY <1>0, <3>2
      <4>2. /\ frames[k].child = frames[k + 1].dom
            /\ boxes[frames[k + 1].box].parent = frames[k].box
            /\ frames[k].cursor = frames[k + 1].top
            /\ \A j \in Flow!BoxId : boxes[j].parent = frames[k].box => j <= frames[k + 1].box
        BY <4>1 DEF FlowInv, Calls
      <4>3. frames[k].box < frames[Depth].box
        BY <3>2, <4>1 DEF FlowInv, Calls
      <4>4. boxes'[new].parent # frames[k].box
        BY <1>b, <1>d, <4>1, <4>3
      <4>5. frames'[k] = frames[k] /\ frames'[k + 1] = frames[k + 1]
        BY <1>0, <4>1
      <4>6. boxes'[frames[k + 1].box] = boxes[frames[k + 1].box]
        BY <1>b, <1>d, <4>1
      <4>7. ASSUME NEW j \in Flow!BoxId', boxes'[j].parent = frames[k].box
            PROVE  j <= frames[k + 1].box
        <5>1. j \in Flow!BoxId
          BY <1>b, <4>4, <4>7
        <5> QED
          BY <1>b, <4>2, <4>7, <5>1
      <4> QED
        BY <4>2, <4>5, <4>6, <4>7
    <3> QED
      BY <1>0, <3>1, <3>2
  <2>4. ASSUME NEW j \in 1..D, NEW k \in 1..D, j < k
        PROVE  frames'[j].dom < frames'[k].dom /\ frames'[j].box < frames'[k].box
    <3>1. j \in 1..Depth
      BY <1>0, <2>4
    <3>2. CASE k \in 1..Depth
      BY <1>0, <2>4, <3>1, <3>2 DEF FlowInv, Calls
    <3>3. CASE k = D
      <4>1. frames[j].dom <= frames[Depth].dom
        <5>1. j = Depth \/ j < Depth
          BY <1>0, <3>1
        <5>2. j < Depth => frames[j].dom < frames[Depth].dom
          BY <1>0, <3>1 DEF FlowInv, Calls
        <5> QED
          BY <1>c, <1>d, <1>n, <3>1, <5>1, <5>2
      <4> QED
        BY <1>0, <1>b, <1>c, <1>d, <1>n, <3>1, <3>3, <4>1
    <3> QED
      BY <1>0, <3>2, <3>3
  <2> QED
    BY <1>0, <2>1, <2>2, <2>3, <2>4, DomStill DEF Calls
<1>4. Order'
  <2>0. \A i \in Flow!BoxId : boxes[i].dom_node < Child /\ boxes[i].dom_node \in Id
    BY <1>0 DEF FlowInv, Order, Child, AtChild, BoxTree
  <2>1. ASSUME frames'[D].child # 0, NEW i \in Flow!BoxId'
        PROVE  boxes'[i].dom_node < frames'[D].child
    <3>1. Child < firstChild[Child] /\ firstChild[Child] \in Nat /\ Child \in Nat
      BY <1>0, <1>c, <1>n, <2>1, ChildIs DEF FlowInv
    <3>2. boxes'[i].dom_node <= Child /\ boxes'[i].dom_node \in Nat
      BY <1>b, <1>n, <2>0, <3>1
    <3> QED
      BY <1>0, <3>1, <3>2
  <2>2. ASSUME NEW k \in 1..(D - 1), nextSibling[frames'[k].child] # 0, NEW i \in Flow!BoxId'
        PROVE  boxes'[i].dom_node < nextSibling[frames'[k].child]
    <3>0. frames'[k].child = frames[k].child
      BY <1>0
    <3>1. CASE k = Depth
      <4>1. Child < nextSibling[Child] /\ nextSibling[Child] \in Nat /\ Child \in Nat
        BY <1>0, <1>c, <1>n, <2>2, <3>0, <3>1, ChildIs DEF FlowInv, Child
      <4>2. boxes'[i].dom_node <= Child /\ boxes'[i].dom_node \in Nat
        BY <1>b, <1>n, <2>0, <4>1
      <4> QED
        BY <3>0, <3>1, <4>1, <4>2 DEF Child
    <3>2. CASE k # Depth
      <4>1. k \in 1..(Depth - 1)
        BY <1>0, <3>2
      <4>2. CASE i = new
        BY <1>0, <1>b, <2>2, <3>0, <4>1, <4>2, Below DEF FlowInv
      <4>3. CASE i \in Flow!BoxId
        BY <1>b, <2>2, <3>0, <4>1, <4>3 DEF FlowInv, Order
      <4> QED
        BY <1>b, <4>2, <4>3
    <3> QED
      BY <3>1, <3>2
  <2> QED
    BY <1>0, <2>1, <2>2, DomStill DEF Order
<1>5. Complete'
  <2>1. SUFFICES ASSUME ~layout_truncated', NEW i \in Flow!BoxId',
                        NEW d \in Children(boxes'[i].dom_node), Flow!Renders(d), CamePast(i, d)'
                 PROVE  Boxed(d)'
    BY <1>0, DomStill DEF Complete
  <2>2. i # new
    <3>1. SUFFICES ASSUME i = new PROVE FALSE
      OBVIOUS
    <3>2. d \in Children(Child) /\ d \in Nat /\ firstChild[Child] \in Nat
      BY <1>b, <1>c, <1>n, <2>1, <3>1, FirstChild
    <3>3. D \in 1..Depth' /\ frames'[D].box = i
      BY <1>0, <3>1
    <3>4. firstChild[Child] = 0 \/ d < firstChild[Child]
      BY <1>0, <2>1, <3>3 DEF CamePast
    <3> QED
      BY <1>c, <3>2, <3>4
  <2>3. i \in Flow!BoxId /\ boxes'[i] = boxes[i]
    BY <1>b, <2>1, <2>2
  <2>4. CamePast(i, d)
    BY <1>0, <2>1 DEF CamePast
  <2>5. Boxed(d)
    BY <2>1, <2>3, <2>4 DEF FlowInv, Complete, PlacedBlock
  <2> QED
    BY <1>b, <2>5 DEF Boxed
<1>6. Tight'
  <2>1. \A i \in Flow!BoxId : Flow!Active(i) => Flow!Active(i)'
    BY <1>0, <1>d DEF Flow!Active, Depth
  <2>2. PICK b : b = frames[Depth].box
    OBVIOUS
  <2>3. PICK n : n = Len(boxes) + 1
    OBVIOUS
  <2>4. /\ Flow!FlowIsTight'
        /\ Flow!EndOf(n, Flow!ChildBoxes(n))' = boxes'[n].y
    BY <1>0, <2>1, <2>2, <2>3, AddedTight
  <2> QED
    BY <1>0, <1>b, <2>2, <2>3, <2>4 DEF Tight
<1> QED
  BY <1>1, <1>2, <1>3, <1>4, <1>5, <1>6 DEF FlowInv

(***************************************************************************)
(* A call returns: its box gets its height.                                *)
(***************************************************************************)
LEMMA ReturnedTo ==
  ASSUME DomInv, FlowInv, NEW h, Returns(h)
  PROVE  /\ Depth \in 1..Depth /\ Depth' = Depth - 1 /\ frames' \in Seq(CallRec)
         /\ \A k \in 1..Depth' :
              /\ frames'[k].dom = frames[k].dom /\ frames'[k].box = frames[k].box
              /\ frames'[k].top = frames[k].top
              /\ k < Depth' => frames'[k].child = frames[k].child /\ frames'[k].cursor = frames[k].cursor
              /\ k = Depth' => /\ frames'[k].child = nextSibling[frames[k].child]
                               /\ frames'[k].cursor = frames[k].cursor + h
<1>1. Depth \in Nat /\ Depth \in 1..Depth /\ frames \in Seq(CallRec)
  BY CallFacts DEF FlowInv, FlowTyped, Returns
<1>2. CASE Depth = 1 /\ frames' = << >>
  BY <1>1, <1>2 DEF Depth
<1>3. CASE Depth > 1 /\ OnTo(SubSeq(frames, 1, Depth - 1), frames', h)
  <2>1. /\ Len(SubSeq(frames, 1, Depth - 1)) = Depth - 1
        /\ \A k \in 1..(Depth - 1) : SubSeq(frames, 1, Depth - 1)[k] = frames[k]
    BY <1>1, <1>3 DEF Depth
  <2>2. /\ frames' \in Seq(CallRec) /\ Len(frames') = Depth - 1 /\ Depth - 1 \in 1..(Depth - 1)
        /\ \A k \in 1..(Depth - 2) : frames'[k] = frames[k]
        /\ frames'[Depth - 1].dom = frames[Depth - 1].dom
        /\ frames'[Depth - 1].box = frames[Depth - 1].box
        /\ frames'[Depth - 1].top = frames[Depth - 1].top
        /\ frames'[Depth - 1].child = nextSibling[frames[Depth - 1].child]
        /\ frames'[Depth - 1].cursor = frames[Depth - 1].cursor + h
    BY <1>1, <1>3, <2>1 DEF OnTo
  <2>3. Depth' = Depth - 1
    BY <2>2 DEF Depth
  <2> QED
    BY <1>1, <2>2, <2>3
<1> QED
  BY <1>2, <1>3 DEF Returns

LEMMA ReturnKeeps ==
  ASSUME DomInv, FlowInv, NEW h, Returns(h)
  PROVE  FlowInv'
<1>0. /\ Still /\ Depth \in 1..Depth /\ Depth' = Depth - 1 /\ frames' \in Seq(CallRec)
      /\ \A k \in 1..(Depth - 1) :
           /\ frames'[k].dom = frames[k].dom /\ frames'[k].box = frames[k].box
           /\ frames'[k].top = frames[k].top
           /\ k < Depth - 1 => frames'[k].child = frames[k].child /\ frames'[k].cursor = frames[k].cursor
           /\ k = Depth - 1 => /\ frames'[k].child = nextSibling[frames[k].child]
                               /\ frames'[k].cursor = frames[k].cursor + h
  BY ReturnedTo DEF Returns
<1>b. /\ Len(boxes) \in Nat \ {0} /\ Len(boxes') = Len(boxes) /\ boxes' \in Seq(BoxRec)
      /\ Flow!BoxId = 1..Len(boxes) /\ Flow!BoxId' = Flow!BoxId
      /\ \A i \in Flow!BoxId :
           /\ boxes'[i].kind = boxes[i].kind /\ boxes'[i].dom_node = boxes[i].dom_node
           /\ boxes'[i].parent = boxes[i].parent /\ boxes'[i].y = boxes[i].y
           /\ boxes'[i].height = IF i = frames[Depth].box THEN h ELSE boxes[i].height
      /\ h \in Nat /\ frames # << >> /\ frames[Depth].child = 0
      /\ h = frames[Depth].cursor - frames[Depth].top
  BY CallFacts DEF FlowInv, Returns, Flow!BoxId, Child
<1>n. \A n \in Id : n \in Nat
  BY DEF Id
<1>d. \A k \in 1..Depth :
        /\ frames[k].box \in Flow!BoxId /\ frames[k].dom \in Id
        /\ frames[k].cursor \in Nat /\ frames[k].top \in Nat
  BY CallFacts DEF FlowInv, Calls, CallRec
\* The child of the caller that is done, and the one after it.
<1>c. ASSUME NEW k \in 1..(Depth - 1)
      PROVE  LET c == frames[k].child
             IN /\ c \in Children(frames[k].dom) /\ c = frames[k + 1].dom /\ c \in Id
                /\ nextSibling[c] \in Nat
                /\ nextSibling[c] # 0 => nextSibling[c] \in Children(frames[k].dom) /\ c < nextSibling[c]
                /\ \A d \in Children(frames[k].dom) : d <= c \/ (nextSibling[c] # 0 /\ nextSibling[c] <= d)
  <2>1. k \in 1..Depth /\ k + 1 \in 1..Depth
    BY <1>0
  <2>2. frames[k].child = frames[k + 1].dom /\ frames[k + 1].dom \in Id
    BY <1>d, <2>1 DEF FlowInv, Calls
  <2>3. frames[k].child \in Children(frames[k].dom)
    BY <2>1, <2>2 DEF FlowInv, Calls, Id
  <2> QED
    BY <1>d, <2>1, <2>2, <2>3, NextChild, CallFacts DEF FlowInv
<1>1. FlowTyped'
  <2>1. boxes' # << >>
    BY <1>b
  <2> QED
    BY <1>0, <1>b, <2>1, DomStill DEF FlowInv, FlowTyped
<1>2. BoxTree'
  <2>1. \A i \in 2..Len(boxes) : i \in Flow!BoxId /\ boxes[i].parent \in Flow!BoxId
    BY <1>b DEF FlowInv, BoxTree
  <2>2. \A i \in 2..Len(boxes) :
          /\ boxes'[i].parent \in 1..(i - 1)
          /\ boxes'[boxes'[i].parent].dom_node = parent[boxes'[i].dom_node]
          /\ Flow!Renders(boxes'[i].dom_node)
    BY <1>b, <2>1 DEF FlowInv, BoxTree
  <2>3. \A i, j \in Flow!BoxId : i < j => boxes'[i].dom_node < boxes'[j].dom_node
    BY <1>b DEF FlowInv, BoxTree
  <2>4. boxes'[1].dom_node = 1 /\ boxes'[1].kind = "BLOCK"
    BY <1>b DEF FlowInv, BoxTree
  <2>5. \A i \in Flow!BoxId : boxes'[i].dom_node \in Id
    BY <1>b DEF FlowInv, BoxTree
  <2> QED
    BY <1>0, <1>b, <2>2, <2>3, <2>4, <2>5, DomStill DEF BoxTree
<1>3. Calls'
  <2>1. frames' # << >> => frames'[1].box = 1
    <3>1. CASE Depth = 1
      BY <1>0, <3>1 DEF Depth
    <3>2. CASE Depth # 1
      BY <1>0, <1>b, <3>2 DEF FlowInv, Calls
    <3> QED
      BY <3>1, <3>2
  <2>2. ASSUME NEW k \in 1..(Depth - 1)
        PROVE  /\ frames'[k].box \in Flow!BoxId' /\ boxes'[frames'[k].box].kind = "BLOCK"
               /\ boxes'[frames'[k].box].dom_node = frames'[k].dom
               /\ boxes'[frames'[k].box].y = frames'[k].top /\ frames'[k].top <= frames'[k].cursor
               /\ frames'[k].child # 0 => frames'[k].child \in Children(frames'[k].dom)
    <3>1. k \in 1..Depth
      BY <1>0
    <3>2. /\ frames[k].box \in Flow!BoxId /\ boxes[frames[k].box].kind = "BLOCK"
          /\ boxes[frames[k].box].dom_node = frames[k].dom
          /\ boxes[frames[k].box].y = frames[k].top /\ frames[k].top <= frames[k].cursor
      BY <3>1 DEF FlowInv, Calls
    <3>3. frames[k].top <= frames'[k].cursor
      BY <1>0, <1>b, <1>d, <3>1, <3>2
    <3>4. frames'[k].child # 0 => frames'[k].child \in Children(frames[k].dom)
      BY <1>0, <1>c, <3>1
    <3> QED
      BY <1>0, <1>b, <3>2, <3>3, <3>4
  <2>3. ASSUME NEW k \in 1..(Depth - 2)
        PROVE  /\ frames'[k].child = frames'[k + 1].dom
               /\ boxes'[frames'[k + 1].box].parent = frames'[k].box
               /\ frames'[k].cursor = frames'[k + 1].top
               /\ \A j \in Flow!BoxId' : boxes'[j].parent = frames'[k].box => j <= frames'[k + 1].box
    <3>1. k \in 1..(Depth - 1) /\ k + 1 \in 1..(Depth - 1) /\ k + 1 \in 1..Depth /\ k < Depth - 1
      BY <1>0
    <3>2. /\ frames[k].child = frames[k + 1].dom
          /\ boxes[frames[k + 1].box].parent = frames[k].box
          /\ frames[k].cursor = frames[k + 1].top
          /\ \A j \in Flow!BoxId : boxes[j].parent = frames[k].box => j <= frames[k + 1].box
      BY <3>1 DEF FlowInv, Calls
    <3>3. /\ frames'[k].child = frames[k].child /\ frames'[k].cursor = frames[k].cursor
          /\ frames'[k].box = frames[k].box
          /\ frames'[k + 1].dom = frames[k + 1].dom /\ frames'[k + 1].box = frames[k + 1].box
          /\ frames'[k + 1].top = frames[k + 1].top
      BY <1>0, <3>1
    <3>4. boxes'[frames[k + 1].box].parent = boxes[frames[k + 1].box].parent
      BY <1>b, <1>d, <3>1
    <3> QED
      BY <1>b, <3>2, <3>3, <3>4
  <2>4. \A j, k \in 1..(Depth - 1) : j < k => frames'[j].dom < frames'[k].dom /\ frames'[j].box < frames'[k].box
    BY <1>0 DEF FlowInv, Calls
  <2>5. Depth' - 1 = Depth - 2
    BY <1>0
  <2> QED
    BY <1>0, <2>1, <2>2, <2>3, <2>4, <2>5, DomStill DEF Calls
<1>4. Order'
  <2>1. ASSUME NEW k \in 1..(Depth - 1), k = Depth - 1, frames'[k].child # 0, NEW i \in Flow!BoxId
        PROVE  boxes'[i].dom_node < frames'[k].child
    BY <1>0, <1>b, <2>1 DEF FlowInv, Order
  <2>2. ASSUME NEW k \in 1..(Depth - 2), nextSibling[frames'[k].child] # 0, NEW i \in Flow!BoxId
        PROVE  boxes'[i].dom_node < nextSibling[frames'[k].child]
    <3>1. k \in 1..(Depth - 1) /\ frames'[k].child = frames[k].child
      BY <1>0
    <3> QED
      BY <1>b, <2>2, <3>1 DEF FlowInv, Order
  <2>3. frames' # << >> => Depth - 1 \in 1..(Depth - 1)
    BY <1>0 DEF Depth
  <2> QED
    BY <1>0, <1>b, <2>1, <2>2, <2>3, DomStill DEF Order
<1>5. Complete'
  <2>a. \A n : Boxed(n) => Boxed(n)'
    BY <1>b DEF Boxed
  <2>b. \A i \in Flow!BoxId' : \A n :
          n \in Children(boxes[i].dom_node)' => i \in Flow!BoxId /\ n \in Children(boxes[i].dom_node)
    BY <1>b, DomStill, <1>0
  <2>1. SUFFICES ASSUME ~layout_truncated', NEW i \in Flow!BoxId,
                        NEW d \in Children(boxes[i].dom_node), Flow!Renders(d), CamePast(i, d)'
                 PROVE  Boxed(d)
    <3>1. ASSUME NEW i \in Flow!BoxId', NEW d \in Children(boxes[i].dom_node)',
                 ~layout_truncated', Flow!Renders(d)', CamePast(i, d)'
          PROVE  Boxed(d)'
      <4>1. Boxed(d)
        BY <1>0, <2>b, <3>1, DomStill
      <4> QED
        BY <2>a, <4>1
    <3> QED
      BY <3>1 DEF Complete
  <2>2. ~layout_truncated
    BY <2>1 DEF Returns
  <2>3. SUFFICES ASSUME ~CamePast(i, d) PROVE Boxed(d)
    BY <2>1, <2>2 DEF FlowInv, Complete
  <2>4. PICK k \in 1..Depth : frames[k].box = i /\ frames[k].child # 0 /\ ~(d < frames[k].child)
    BY <2>3 DEF CamePast
  <2>5. k \in 1..(Depth - 1)
    BY <1>0, <1>b, <2>4
  <2>6. frames'[k].child = 0 \/ d < frames'[k].child
    BY <1>0, <2>1, <2>4, <2>5 DEF CamePast
  <2>7. k = Depth - 1
    BY <1>0, <2>4, <2>5, <2>6
  <2>8. d \in Children(frames[k].dom) /\ d \in Nat
    BY <1>d, <1>n, <2>1, <2>4, FirstChild DEF FlowInv, Calls
  <2>9. d = frames[k].child
    <3> DEFINE c == frames[k].child
    <3>1. /\ c \in Id /\ nextSibling[c] \in Nat
          /\ d <= c \/ (nextSibling[c] # 0 /\ nextSibling[c] <= d)
      BY <1>c, <2>5, <2>8
    <3>2. nextSibling[c] = 0 \/ d < nextSibling[c]
      BY <1>0, <2>5, <2>6, <2>7
    <3> QED
      BY <1>n, <2>4, <2>8, <3>1, <3>2
  <2>10. d = frames[k + 1].dom /\ k + 1 \in 1..Depth
    BY <1>0, <1>c, <2>5, <2>9
  <2> QED
    BY <1>d, <2>10 DEF FlowInv, Calls, Boxed
<1>6. Tight'
  <2>1. PICK b : b = frames[Depth].box
    OBVIOUS
  <2>2. /\ b \in Flow!BoxId /\ boxes[b].y = frames[Depth].top
        /\ frames[Depth].cursor = Flow!EndOf(b, Flow!ChildBoxes(b))
    BY <1>0, <1>b, <1>d, <2>1 DEF FlowInv, Calls, Tight
  <2>3. \A i \in Flow!BoxId : Flow!ChildBoxes(i)' = Flow!ChildBoxes(i) /\ Flow!ChildBoxes(i) \in SUBSET Flow!BoxId
    BY <1>b DEF Flow!ChildBoxes
  <2>4. ASSUME NEW js \in SUBSET Flow!BoxId, js # {}
        PROVE  Flow!Max(js) \in js
    <3>1. js \in SUBSET Nat /\ Len(boxes) \in Nat /\ \A k \in js : k <= Len(boxes)
      BY <1>b
    <3> QED
      BY <2>4, <3>1, MaxOf
  <2>5. ASSUME NEW i \in Flow!BoxId, NEW js \in SUBSET Flow!BoxId, b \notin js
        PROVE  Flow!EndOf(i, js)' = Flow!EndOf(i, js)
    BY <1>b, <2>1, <2>4, <2>5 DEF Flow!EndOf
  \* The box is the last under its own, that of the caller.
  <2>6. ASSUME NEW i \in Flow!BoxId, b \in Flow!ChildBoxes(i)
        PROVE  /\ Depth - 1 \in 1..(Depth - 1) /\ i = frames[Depth - 1].box
               /\ \A j \in Flow!ChildBoxes(i) : j <= b
    <3>1. b # 1 /\ boxes[b].parent = i
      BY <2>6 DEF Flow!ChildBoxes
    <3>2. Depth # 1
      BY <1>b, <2>1, <3>1 DEF FlowInv, Calls
    <3>3. Depth - 1 \in 1..(Depth - 1) /\ (Depth - 1) + 1 = Depth
      BY <1>0, <3>2
    <3> QED
      BY <2>1, <3>1, <3>3 DEF FlowInv, Calls, Flow!ChildBoxes
  <2>7. b \notin Flow!ChildBoxes(b)
    BY <1>b DEF FlowInv, BoxTree, Flow!ChildBoxes
  <2>8. ASSUME NEW i \in Flow!BoxId, i # b, ~Flow!Active(i)'
        PROVE  ~Flow!Active(i) /\ b \notin Flow!ChildBoxes(i)
    <3>1. \A k \in 1..(Depth - 1) : frames[k].box # i
      BY <1>0, <2>8 DEF Flow!Active, Depth
    <3> QED
      BY <1>0, <2>1, <2>6, <2>8, <3>1 DEF Flow!Active, Depth
  <2>9. ASSUME NEW i \in Flow!BoxId
        PROVE  /\ \A j \in Flow!ChildBoxes(i)' :
                    boxes'[j].y = Flow!EndOf(i, {k \in Flow!ChildBoxes(i) : k < j})'
               /\ boxes'[i].kind = "BLOCK" /\ ~Flow!Active(i)' =>
                    boxes'[i].y + boxes'[i].height = Flow!EndOf(i, Flow!ChildBoxes(i))'
    <3>1. ASSUME NEW j \in Flow!ChildBoxes(i), NEW before, before = {k \in Flow!ChildBoxes(i) : k < j}
          PROVE  boxes'[j].y = Flow!EndOf(i, before)'
      <4>1. j \in Flow!BoxId /\ before \in SUBSET Flow!BoxId
        BY <2>3, <3>1
      <4>2. b \notin before
        BY <1>b, <2>2, <2>6, <3>1, <4>1
      <4>3. boxes[j].y = Flow!EndOf(i, before)
        BY <3>1 DEF FlowInv, Tight, Flow!FlowIsTight
      <4> QED
        BY <1>b, <2>5, <4>1, <4>2, <4>3
    <3>2. ASSUME boxes'[i].kind = "BLOCK", ~Flow!Active(i)'
          PROVE  boxes'[i].y + boxes'[i].height = Flow!EndOf(i, Flow!ChildBoxes(i))'
      <4>1. CASE i = b
        <5>1. boxes'[b].y + boxes'[b].height = frames[Depth].cursor
          <6>1. frames[Depth].top \in Nat /\ frames[Depth].cursor \in Nat
            BY <1>0, <1>d
          <6>2. boxes'[b].y = frames[Depth].top /\ boxes'[b].height = h
            BY <1>b, <2>1, <2>2
          <6> QED
            BY <1>b, <6>1, <6>2
        <5> QED
          BY <2>2, <2>3, <2>5, <2>7, <4>1, <5>1
      <4>2. CASE i # b
        <5>1. ~Flow!Active(i) /\ b \notin Flow!ChildBoxes(i) /\ boxes[i].kind = "BLOCK"
          BY <1>b, <2>8, <3>2, <4>2
        <5>2. boxes[i].y + boxes[i].height = Flow!EndOf(i, Flow!ChildBoxes(i))
          BY <5>1 DEF FlowInv, Tight, Flow!FlowIsTight
        <5> QED
          BY <1>b, <2>1, <2>3, <2>5, <4>2, <5>1, <5>2
      <4> QED
        BY <4>1, <4>2
    <3> QED
      BY <2>3, <3>1, <3>2
  <2>10. Flow!FlowIsTight'
    BY <1>b, <2>9 DEF Flow!FlowIsTight
  <2>11. ASSUME NEW i \in Flow!BoxId, frames' # << >>, frames'[Depth - 1].box = i
         PROVE  frames'[Depth - 1].cursor = Flow!EndOf(i, Flow!ChildBoxes(i))'
    <3>1. Depth - 1 \in 1..(Depth - 1) /\ Depth - 1 \in 1..Depth /\ (Depth - 1) + 1 = Depth
      BY <1>0, <2>11 DEF Depth
    <3>2. i = frames[Depth - 1].box /\ boxes[b].parent = i /\ frames[Depth - 1].cursor = frames[Depth].top
      BY <1>0, <2>1, <2>11, <3>1 DEF FlowInv, Calls
    <3>3. b # 1
      <4>1. frames[Depth - 1].box < frames[Depth].box
        BY <1>0, <3>1 DEF FlowInv, Calls
      <4> QED
        BY <1>b, <1>d, <2>1, <3>1, <4>1
    <3>4. b \in Flow!ChildBoxes(i)
      BY <2>2, <3>2, <3>3 DEF Flow!ChildBoxes
    <3>5. Flow!Max(Flow!ChildBoxes(i)) = b
      <4>1. Flow!ChildBoxes(i) \in SUBSET Nat
        BY <1>b, <2>3
      <4> QED
        BY <2>6, <3>4, <4>1, MaxIs
    <3>6. Flow!EndOf(i, Flow!ChildBoxes(i))' = boxes'[b].y + boxes'[b].height
      BY <2>3, <3>4, <3>5 DEF Flow!EndOf
    <3> QED
      BY <1>0, <1>b, <2>1, <2>2, <3>1, <3>2, <3>6
  <2> QED
    BY <1>0, <1>b, <2>10, <2>11 DEF Tight
<1> QED
  BY <1>1, <1>2, <1>3, <1>4, <1>5, <1>6 DEF FlowInv

(***************************************************************************)
(* Every step of Layout is one of these.                                   *)
(***************************************************************************)
LEMMA AdvancedIs ==
  ASSUME NEW calls \in Seq(CallRec), calls # << >>, NEW h \in Nat,
         nextSibling[calls[Len(calls)].child] \in Nat
  PROVE  OnTo(calls, Flow!Advanced(calls, h), h)
<1> DEFINE n == Len(calls)
           a == calls[n]
           b == [a EXCEPT !.child = nextSibling[@], !.cursor = @ + h]
<1>1. n \in 1..n /\ a \in CallRec
  OBVIOUS
<1>2. b \in CallRec /\ b.dom = a.dom /\ b.box = a.box /\ b.top = a.top
      /\ b.child = nextSibling[a.child] /\ b.cursor = a.cursor + h
  <2>1. nextSibling[a.child] \in Nat
    OBVIOUS
  <2>2. a.cursor + h \in Nat
    BY <1>1 DEF CallRec
  <2>3. \A u, v \in Nat : [a EXCEPT !.child = u, !.cursor = v] \in CallRec
    BY <1>1 DEF CallRec
  <2>4. b = [a EXCEPT !.child = nextSibling[a.child], !.cursor = a.cursor + h]
    BY <1>1 DEF CallRec
  <2> QED
    BY <1>1, <2>1, <2>2, <2>3, <2>4 DEF CallRec
<1>3. Flow!Advanced(calls, h) = [calls EXCEPT ![n] = b]
  BY <1>1 DEF Flow!Advanced, CallRec
<1> HIDE DEF b
<1>4. [calls EXCEPT ![n] = b] \in Seq(CallRec)
  BY <1>1, <1>2
<1>5. /\ Len([calls EXCEPT ![n] = b]) = n /\ [calls EXCEPT ![n] = b][n] = b
      /\ \A k \in 1..(n - 1) : [calls EXCEPT ![n] = b][k] = calls[k]
  BY <1>1
<1> QED
  BY <1>2, <1>3, <1>4, <1>5 DEF OnTo

LEMMA RunningIs ==
  ASSUME DomInv, FlowInv, Flow!Running
  PROVE  /\ AtChild /\ frames \in Seq(CallRec) /\ frames # << >> /\ Flow!Call = frames[Depth]
         /\ Flow!Call.child = Child /\ Child \in Id
         /\ nextSibling[frames[Len(frames)].child] \in Nat /\ firstChild[Child] \in Nat
         /\ frames[Depth] \in CallRec /\ Depth \in 1..Depth
<1>1. AtChild
  BY DEF Flow!Running, Flow!Call, AtChild, Child, Depth
<1> QED
  BY <1>1, ChildIs, CallFacts DEF FlowInv, FlowTyped, Flow!Call, Child, Depth, AtChild

LEMMA PlaceIs ==
  ASSUME DomInv, FlowInv, NEW kind \in {"TEXT", "BLOCK"}, NEW h \in Nat, Flow!Place(kind, h)
  PROVE  Added(kind, h)
<1> DEFINE box == Flow!Box(kind, Child, frames[Depth].box, frames[Depth].cursor, h)
<1>1. /\ Child \in Id /\ frames[Depth] \in CallRec /\ boxes \in Seq(BoxRec)
      /\ boxes' = Append(boxes, box) /\ Flow!Renders(Child)
  BY RunningIs DEF FlowInv, FlowTyped, Flow!Place, Depth
<1>2. box \in BoxRec
  BY <1>1 DEF Flow!Box, BoxRec, CallRec, Id
<1>3. /\ boxes' \in Seq(BoxRec) /\ Len(boxes') = Len(boxes) + 1
      /\ boxes'[Len(boxes) + 1] = box
      /\ \A i \in 1..Len(boxes) : boxes'[i] = boxes[i]
  <2> HIDE DEF box
  <2> QED
    BY <1>1, <1>2
<1> QED
  BY <1>1, <1>3 DEF Added, Flow!Box, Flow!BoxId

LEMMA Prefix ==
  ASSUME NEW S, NEW s \in Seq(S), NEW n \in Nat \ {0}, Len(s) = n + 1
  PROVE  /\ SubSeq(s, 1, n) \in Seq(S) /\ Len(SubSeq(s, 1, n)) = n
         /\ SubSeq(s, 1, n) # << >> /\ SubSeq(s, 1, n)[n] = s[n]
OBVIOUS

LEMMA ReturnIs ==
  ASSUME DomInv, FlowInv, Still, Flow!Return
  PROVE  \E h : Returns(h)
<1> DEFINE d == frames[Depth]
           h == d.cursor - d.top
<1>1. /\ frames # << >> /\ Depth \in 1..Depth /\ d \in CallRec /\ d.child = 0 /\ Flow!Call = d
      /\ d.top <= d.cursor /\ d.box \in Flow!BoxId /\ Flow!BoxId = 1..Len(boxes)
      /\ boxes \in Seq(BoxRec) /\ frames \in Seq(CallRec)
  BY CallFacts DEF FlowInv, FlowTyped, Calls, Flow!Return, Flow!Call, Depth, Flow!BoxId
<1>2. h \in Nat
  <2>1. d.cursor \in Nat /\ d.top \in Nat /\ d.top <= d.cursor
    BY <1>1 DEF CallRec
  <2> HIDE DEF d
  <2> QED
    BY <2>1
<1>3. /\ boxes' = [boxes EXCEPT ![d.box].height = h]
      /\ frames' = Flow!Caller(SubSeq(frames, 1, Depth - 1), h)
      /\ UNCHANGED layout_truncated
  BY <1>1 DEF Flow!Return, Depth
<1>4. /\ boxes' \in Seq(BoxRec) /\ Len(boxes') = Len(boxes)
      /\ \A i \in 1..Len(boxes) :
           /\ boxes'[i].kind = boxes[i].kind /\ boxes'[i].dom_node = boxes[i].dom_node
           /\ boxes'[i].parent = boxes[i].parent /\ boxes'[i].y = boxes[i].y
           /\ boxes'[i].height = IF i = d.box THEN h ELSE boxes[i].height
  <2> DEFINE box == [boxes[d.box] EXCEPT !.height = h]
  <2>1. boxes[d.box] \in BoxRec
    BY <1>1
  <2>2. /\ box \in BoxRec /\ box.kind = boxes[d.box].kind /\ box.dom_node = boxes[d.box].dom_node
        /\ box.parent = boxes[d.box].parent /\ box.y = boxes[d.box].y /\ box.height = h
    BY <1>2, <2>1 DEF BoxRec
  <2>3. boxes' = [boxes EXCEPT ![d.box] = box]
    BY <1>3
  <2> HIDE DEF box, h, d
  <2>4. boxes' \in Seq(BoxRec) /\ Len(boxes') = Len(boxes)
    BY <1>1, <2>2, <2>3
  <2>5. \A i \in 1..Len(boxes) : boxes'[i] = IF i = d.box THEN box ELSE boxes[i]
    BY <1>1, <2>3
  <2> QED
    BY <1>1, <2>2, <2>4, <2>5
<1>5. \/ Depth = 1 /\ frames' = << >>
      \/ Depth > 1 /\ OnTo(SubSeq(frames, 1, Depth - 1), frames', h)
  <2> DEFINE calls == SubSeq(frames, 1, Depth - 1)
  <2>1. CASE Depth = 1
    BY <1>1, <1>3, <2>1 DEF Flow!Caller
  <2>2. CASE Depth # 1
    <3>1. /\ calls \in Seq(CallRec) /\ Len(calls) = Depth - 1 /\ calls # << >>
          /\ calls[Len(calls)] = frames[Depth - 1]
          /\ Depth - 1 \in 1..(Depth - 1) /\ (Depth - 1) + 1 = Depth
      <4>1. Depth \in Nat /\ Depth = Len(frames)
        BY <1>1 DEF Depth
      <4>2. Depth - 1 \in Nat \ {0} /\ Depth = (Depth - 1) + 1 /\ Depth - 1 \in 1..(Depth - 1)
        BY <1>1, <2>2, <4>1
      <4>3. PICK n \in Nat \ {0} : n = Depth - 1
        BY <4>2
      <4>4. /\ SubSeq(frames, 1, n) \in Seq(CallRec) /\ Len(SubSeq(frames, 1, n)) = n
            /\ SubSeq(frames, 1, n) # << >> /\ SubSeq(frames, 1, n)[n] = frames[n]
        <5>1. frames \in Seq(CallRec) /\ Len(frames) = n + 1
          BY <1>1, <4>1, <4>3
        <5> QED
          BY <5>1, Prefix
      <4> QED
        BY <4>2, <4>3, <4>4
    <3>2. frames[Depth - 1].child = d.dom /\ d.dom \in Id
      BY <1>1, <3>1, CallFacts DEF FlowInv, Calls
    <3>3. nextSibling[calls[Len(calls)].child] \in Nat
      BY <3>1, <3>2, CallFacts DEF FlowInv
    <3>4. frames' = Flow!Advanced(calls, h)
      BY <1>3, <3>1 DEF Flow!Caller
    <3> HIDE DEF calls, h
    <3>5. OnTo(calls, frames', h)
      BY <1>2, <3>1, <3>3, <3>4, AdvancedIs
    <3> QED
      BY <1>1, <2>2, <3>5 DEF calls
  <2> QED
    BY <2>1, <2>2
<1>6. Returns(h)
  BY <1>1, <1>2, <1>3, <1>4, <1>5 DEF Returns, Child
<1> QED
  BY <1>6

LEMMA StepKeeps ==
  ASSUME DomInv, FlowInv, Still, Flow!Step
  PROVE  FlowInv'
<1>1. CASE Flow!Skip
  <2>1. OnTo(frames, frames', 0)
    BY <1>1, RunningIs, AdvancedIs DEF Flow!Skip
  <2> QED
    BY <1>1, <2>1, RunningIs, PassedKeeps DEF Flow!Skip, Passed
<1>2. CASE Flow!NoBox
  <2>1. OnTo(frames, frames', 0)
    BY <1>2, RunningIs, AdvancedIs DEF Flow!NoBox
  <2> QED
    BY <1>2, <2>1, RunningIs, PassedKeeps DEF Flow!NoBox, Passed, Flow!LayoutWarn
<1>3. CASE Flow!PlaceText
  <2> DEFINE h == lines[Child]
  <2>1. Child \in Id /\ h \in Nat /\ AtChild /\ nodes[Child].type = "TEXT"
    BY <1>3, RunningIs DEF FlowInv, FlowTyped, Flow!PlaceText
  <2>2. Added("TEXT", h)
    <3>1. Flow!Place("TEXT", h)
      BY <1>3, RunningIs DEF Flow!PlaceText
    <3> QED
      BY <2>1, <3>1, PlaceIs
  <2>3. OnTo(frames, frames', h)
    <3>1. frames' = Flow!Advanced(frames, h)
      BY <1>3, RunningIs DEF Flow!PlaceText
    <3> QED
      BY <1>3, <2>1, <3>1, RunningIs, AdvancedIs DEF Flow!PlaceText
  <2>4. Children(Child) = {}
    BY <2>1, TextIsLeaf
  <2>5. PlacedLeaf("TEXT", h)
    BY <1>3, <2>1, <2>2, <2>3, <2>4 DEF PlacedLeaf, Flow!PlaceText
  <2> QED
    BY <2>5, LeafKeeps
<1>4. CASE Flow!PlaceBlock
  <2>1. Added("BLOCK", 0) /\ Flow!Running
    BY <1>4, PlaceIs DEF Flow!PlaceBlock
  <2>2. CASE Len(frames) < MaxLayoutDepth
    <3> DEFINE call == Flow!Frame(Child, Len(boxes) + 1, frames[Depth].cursor)
    <3>1. /\ frames' = Append(frames, call) /\ UNCHANGED layout_truncated
          /\ frames \in Seq(CallRec) /\ frames[Depth] \in CallRec /\ Child \in Id
          /\ firstChild[Child] \in Nat /\ boxes \in Seq(BoxRec)
      BY <1>4, <2>1, <2>2, RunningIs DEF Flow!PlaceBlock, FlowInv, FlowTyped
    <3>2. call \in CallRec
      BY <3>1 DEF Flow!Frame, CallRec, Id
    <3>3. /\ frames' \in Seq(CallRec) /\ Len(frames') = Depth + 1 /\ frames'[Depth + 1] = call
          /\ \A k \in 1..Depth : frames'[k] = frames[k]
      <4> HIDE DEF call
      <4> QED
        BY <3>1, <3>2 DEF Depth
    <3>4. PlacedBlock
      BY <2>1, <3>1, <3>3, RunningIs DEF PlacedBlock, Flow!Frame
    <3> QED
      BY <3>4, BlockKeeps
  <2>3. CASE ~(Len(frames) < MaxLayoutDepth)
    <3>1. layout_truncated' = TRUE /\ frames' = Flow!Advanced(frames, 0)
      BY <1>4, <2>3 DEF Flow!PlaceBlock, Flow!LayoutWarn
    <3>2. OnTo(frames, frames', 0)
      BY <2>1, <3>1, RunningIs, AdvancedIs
    <3>3. PlacedLeaf("BLOCK", 0)
      BY <2>1, <3>1, <3>2, RunningIs DEF PlacedLeaf
    <3> QED
      BY <3>3, LeafKeeps
  <2> QED
    BY <2>2, <2>3
<1>5. CASE Flow!Return
  BY <1>5, ReturnIs, ReturnKeeps
<1> QED
  BY <1>1, <1>2, <1>3, <1>4, <1>5 DEF Flow!Step

LEMMA FlowStill ==
  ASSUME Still, UNCHANGED <<boxes, frames, layout_truncated>>, FlowInv
  PROVE  FlowInv'
<1> USE DomStill DEF FlowInv
<1>1. FlowTyped'
  BY DEF FlowTyped
<1>2. Flow!BoxId' = Flow!BoxId /\ Depth' = Depth
  BY DEF Flow!BoxId, Depth
<1>3. BoxTree'
  BY <1>2 DEF BoxTree
<1>4. Calls'
  BY <1>2 DEF Calls
<1>5. Order'
  BY <1>2 DEF Order
<1>6. Complete'
  <2>1. \A i, c : CamePast(i, c)' = CamePast(i, c) /\ Boxed(c)' = Boxed(c)
    BY <1>2 DEF CamePast, Boxed
  <2> QED
    BY <1>2, <2>1 DEF Complete
<1>7. Tight'
  <2>1. \A i : /\ Flow!Active(i)' = Flow!Active(i)
               /\ Flow!ChildBoxes(i)' = Flow!ChildBoxes(i)
               /\ \A js : Flow!EndOf(i, js)' = Flow!EndOf(i, js)
    BY <1>2 DEF Flow!Active, Flow!ChildBoxes, Flow!EndOf
  <2>2. Flow!FlowIsTight'
    BY <1>2, <2>1 DEF Tight, Flow!FlowIsTight
  <2> QED
    BY <1>2, <2>1, <2>2 DEF Tight
<1> QED
  BY <1>1, <1>3, <1>4, <1>5, <1>6, <1>7

\* Layout begins with the box of the viewport.
LEMMA BeginKeeps ==
  ASSUME DomInv, boxes = << >>, ~layout_truncated, BeginLayout
  PROVE  FlowInv'
<1>1. /\ boxes' = <<[kind |-> "BLOCK", dom_node |-> 1, parent |-> 0, y |-> 0, height |-> 0]>>
      /\ frames' = <<[dom |-> 1, box |-> 1, child |-> firstChild[1], top |-> 0, cursor |-> 0]>>
      /\ UNCHANGED layout_truncated /\ UNCHANGED vars
  BY DEF BeginLayout, Flow!Begin, Flow!Box, Flow!Frame
<1>2. /\ UNCHANGED <<nodes, parent, firstChild, nextSibling>> /\ Id' = Id
      /\ \A p : Children(p)' = Children(p)
  BY <1>1 DEF vars, tree, Id, Children
<1>3. 1 \in Id /\ firstChild[1] \in Nat
  <2>1. firstChild \in Seq(Nat) /\ Len(firstChild) = Len(nodes) /\ Len(nodes) \in Nat \ {0}
    BY DEF DomInv, TypeOK
  <2>2. 1 \in 1..Len(firstChild)
    BY <2>1
  <2> QED
    BY <2>1, <2>2 DEF Id
<1>4. /\ Len(boxes') = 1 /\ Flow!BoxId' = {1} /\ Depth' = 1 /\ frames' # << >>
      /\ boxes'[1].kind = "BLOCK" /\ boxes'[1].dom_node = 1 /\ boxes'[1].parent = 0
      /\ boxes'[1].y = 0 /\ boxes'[1].height = 0
      /\ frames'[1].dom = 1 /\ frames'[1].box = 1 /\ frames'[1].child = firstChild[1]
      /\ frames'[1].top = 0 /\ frames'[1].cursor = 0
  BY <1>1 DEF Flow!BoxId, Depth
<1>5. FlowTyped'
  <2>1. lines' \in [Id -> Nat]
    BY DEF BeginLayout
  <2>2. boxes' \in Seq(BoxRec)
    BY <1>1 DEF BoxRec
  <2>3. frames' \in Seq(CallRec)
    BY <1>1, <1>3 DEF CallRec
  <2> QED
    BY <1>1, <1>2, <2>1, <2>2, <2>3 DEF FlowTyped
<1>6. BoxTree'
  BY <1>2, <1>3, <1>4 DEF BoxTree
<1>7. firstChild[1] # 0 => firstChild[1] \in Children(1) /\ 1 < firstChild[1]
  BY <1>3, FirstChild
<1>8. Calls'
  BY <1>2, <1>4, <1>7 DEF Calls
<1>9. Order'
  BY <1>2, <1>4, <1>7 DEF Order
<1>10. Complete'
  <2>1. SUFFICES ASSUME NEW d \in Children(1), CamePast(1, d)' PROVE FALSE
    BY <1>2, <1>4 DEF Complete
  <2>2. firstChild[1] = 0 \/ d < firstChild[1]
    BY <1>4, <2>1 DEF CamePast
  <2>3. d \in Nat /\ firstChild[1] # 0 /\ firstChild[1] <= d
    BY <1>3, <2>1, FirstChild DEF Id
  <2> QED
    BY <1>3, <2>2, <2>3
<1>11. Tight'
  <2>1. Flow!ChildBoxes(1)' = {}
    BY <1>4 DEF Flow!ChildBoxes
  <2>2. Flow!EndOf(1, Flow!ChildBoxes(1))' = 0
    BY <1>4, <2>1 DEF Flow!EndOf
  <2>3. boxes'[1].y + boxes'[1].height = 0
    BY <1>4
  <2>4. Flow!FlowIsTight'
    BY <1>4, <2>1, <2>2, <2>3 DEF Flow!FlowIsTight
  <2> QED
    BY <1>4, <2>1, <2>2, <2>4 DEF Tight
<1> QED
  BY <1>5, <1>6, <1>8, <1>9, <1>10, <1>11 DEF FlowInv

(***************************************************************************)
(* The stages.                                                             *)
(***************************************************************************)
LEMMA InitiallyBlank == PageInit => PageInv
BY InitiallyInv DEF PageInit, PageInv, Flow!Blank

LEMMA PagePreserved == PageInv /\ [PageNext]_pageVars => PageInv'
<1> SUFFICES ASSUME PageInv, [PageNext]_pageVars PROVE PageInv'
  OBVIOUS
<1>1. CASE ParseHtml
  <2>1. [Next]_vars
    BY <1>1 DEF ParseHtml, Next
  <2>2. DomInv'
    BY <2>1, InvPreserved, NextIsToken DEF PageInv
  <2> QED
    BY <1>1, <2>2 DEF PageInv, ParseHtml, flow
<1>2. CASE ParseCss
  <2>1. DomInv'
    <3>1. [Next]_vars
      BY <1>2 DEF ParseCss
    <3> QED
      BY <3>1, InvPreserved, NextIsToken DEF PageInv
  <2> QED
    BY <1>2, <2>1 DEF PageInv, ParseCss, flow
<1>3. CASE Cascade
  <2>1. DomInv'
    <3>1. [Next]_vars
      BY <1>3 DEF Cascade
    <3> QED
      BY <3>1, InvPreserved, NextIsToken DEF PageInv
  <2> QED
    BY <1>3, <2>1 DEF PageInv, Cascade, flow
<1>4. CASE BeginLayout
  <2>1. FlowInv'
    BY <1>4, BeginKeeps DEF PageInv, BeginLayout
  <2>2. DomInv'
    <3>1. [Next]_vars
      BY <1>4 DEF BeginLayout
    <3> QED
      BY <3>1, InvPreserved, NextIsToken DEF PageInv
  <2> QED
    BY <1>4, <2>1, <2>2 DEF PageInv, BeginLayout, FlowInv, FlowTyped
<1>5. CASE LayOut
  <2>1. Still /\ Flow!Step /\ DomInv
    BY <1>5 DEF LayOut, Still, PageInv
  <2>2. frames # << >>
    BY <2>1 DEF Flow!Step, Flow!Skip, Flow!NoBox, Flow!PlaceText, Flow!PlaceBlock, Flow!Place,
                Flow!Return, Flow!Running
  <2>3. FlowInv'
    BY <2>1, <2>2, StepKeeps DEF PageInv
  <2>4. DomInv'
    BY <2>1, DomStill
  <2> QED
    BY <1>5, <2>3, <2>4 DEF PageInv, LayOut, FlowInv, FlowTyped
<1>6. CASE Draw \/ RefreshMetadata \/ UNCHANGED pageVars
  <2>1. /\ Still /\ UNCHANGED <<boxes, frames, layout_truncated>>
        /\ \/ UNCHANGED completed_stage
           \/ completed_stage = "LAYOUT" /\ completed_stage' = "DISPLAY_LIST"
    BY <1>6 DEF Draw, RefreshMetadata, pageVars, Still, flow
  <2>2. DomInv'
    BY <2>1, DomStill DEF PageInv
  <2>3. FlowInv => FlowInv'
    BY <2>1, FlowStill
  <2> QED
    BY <2>1, <2>2, <2>3 DEF PageInv
<1> QED
  BY <1>1, <1>2, <1>3, <1>4, <1>5, <1>6 DEF PageNext, Render, Returned

(***************************************************************************)
(* The theorems about layout.                                              *)
(***************************************************************************)
LEMMA PageAlways == PageSpec => []PageInv
BY InitiallyBlank, PagePreserved, PTL DEF PageSpec

LEMMA BoxesCover ==
  ASSUME DomInv, FlowInv
  PROVE  Flow!BoxesFollowDom
<1> DEFINE boxed == {boxes[i].dom_node : i \in Flow!BoxId}
<1>1. /\ Len(boxes) \in Nat \ {0} /\ Flow!BoxId = 1..Len(boxes)
      /\ Len(nodes) \in Nat /\ Id = 1..Len(nodes)
  BY CallFacts DEF FlowInv, Flow!BoxId, Id
<1>2. \A i \in Flow!BoxId \ {1} : i \in 2..Len(boxes)
  BY <1>1
<1>3. boxed \subseteq Flow!Rendered
  <2>1. boxed \in SUBSET (1..Len(nodes))
    BY <1>1 DEF FlowInv, BoxTree
  <2>2. ASSUME NEW i \in Flow!BoxId
        PROVE  LET n == boxes[i].dom_node IN n = 1 \/ (Flow!Renders(n) /\ parent[n] \in boxed)
    <3>1. CASE i = 1
      BY <3>1 DEF FlowInv, BoxTree
    <3>2. CASE i # 1
      <4>1. /\ boxes[i].parent \in 1..(i - 1) /\ Flow!Renders(boxes[i].dom_node)
            /\ boxes[boxes[i].parent].dom_node = parent[boxes[i].dom_node]
        BY <1>2, <3>2 DEF FlowInv, BoxTree
      <4>2. boxes[i].parent \in Flow!BoxId
        BY <1>1, <4>1
      <4> QED
        BY <4>1, <4>2
    <3> QED
      BY <3>1, <3>2
  <2>3. \A n \in boxed : n = 1 \/ (Flow!Renders(n) /\ parent[n] \in boxed)
    BY <2>2
  <2> HIDE DEF boxed
  <2> QED
    BY <2>1, <2>3 DEF Flow!Rendered
<1>4. ASSUME frames = << >>, ~layout_truncated
      PROVE  Flow!Rendered \subseteq boxed
  <2>1. SUFFICES ASSUME NEW S \in SUBSET Id, NEW r \in S, r \notin boxed,
                        \A n \in S : n = 1 \/ (Flow!Renders(n) /\ parent[n] \in S)
                 PROVE  FALSE
    BY <1>1 DEF Flow!Rendered
  <2>2. {n \in S : n \notin boxed} \in SUBSET Nat /\ {n \in S : n \notin boxed} # {}
    <3> HIDE DEF boxed
    <3>1. \A n \in S : n \in Nat
      BY <1>1
    <3>2. r \in {n \in S : n \notin boxed}
      BY <2>1
    <3> QED
      BY <3>1, <3>2
  <2>3. PICK n \in {m \in S : m \notin boxed} : \A m \in {m \in S : m \notin boxed} : n <= m
    <3> HIDE DEF boxed
    <3> QED
      BY <2>2, Smallest
  <2>4. n # 1
    BY <1>1, <2>3 DEF FlowInv, BoxTree
  <2>5. Flow!Renders(n) /\ parent[n] \in S /\ n \in Id
    BY <2>1, <2>3, <2>4
  <2>6. parent[n] \in Nat /\ parent[n] < n
    BY <1>1, <2>4, <2>5 DEF DomInv, TreeShape, TreeLinked
  <2>7. parent[n] \in boxed
    BY <1>1, <2>3, <2>5, <2>6
  <2>8. PICK i \in Flow!BoxId : boxes[i].dom_node = parent[n]
    BY <2>7
  <2>9. n \in Children(boxes[i].dom_node)
    BY <2>5, <2>8 DEF Children
  <2>10. CamePast(i, n)
    BY <1>4 DEF CamePast, Depth
  <2>11. Boxed(n)
    BY <1>4, <2>5, <2>9, <2>10 DEF FlowInv, Complete
  <2> QED
    BY <2>3, <2>11 DEF Boxed
<1>5. \A i, j \in Flow!BoxId : i < j => boxes[i].dom_node < boxes[j].dom_node
  BY DEF FlowInv, BoxTree
<1>6. \A i \in Flow!BoxId \ {1} :
        /\ boxes[i].parent \in 1..(i - 1)
        /\ boxes[boxes[i].parent].dom_node = parent[boxes[i].dom_node]
  BY <1>2 DEF FlowInv, BoxTree
<1> QED
  BY <1>3, <1>4, <1>5, <1>6 DEF Flow!BoxesFollowDom, Flow!LaidOut

\* A page that is not laid out yet has no boxes.
LEMMA BlankFollows ==
  ASSUME boxes = << >>
  PROVE  Flow!BoxesFollowDom /\ Flow!FlowIsTight
<1>1. Flow!BoxId = {}
  BY DEF Flow!BoxId
<1> QED
  BY <1>1 DEF Flow!BoxesFollowDom, Flow!FlowIsTight, Flow!LaidOut

\* The box tree layout_children makes is the DOM tree of the parser without
\* what the styles do not render, in document order, whatever the document and
\* the budgets of boxes and depth; one that is not marked misses nothing.
THEOREM BoxesSafe == PageSpec => []BoxesFollowDom
<1>1. PageInv => BoxesFollowDom
  BY BoxesCover, BlankFollows DEF PageInv, BoxesFollowDom
<1> QED
  BY <1>1, PageAlways, PTL

\* Boxes of one parent follow each other without gap or overlap, and a block
\* whose call has returned is as high as what is in it, for any line counts.
THEOREM FlowSafe == PageSpec => []FlowIsTight
<1>1. PageInv => FlowIsTight
  BY BlankFollows DEF PageInv, FlowInv, Tight, FlowIsTight
<1> QED
  BY <1>1, PageAlways, PTL
-----------------------------------------------------------------------------
(***************************************************************************)
(* What a display list d is of the calls C of the boxes walked so far.     *)
(***************************************************************************)
Kinds == {"TEXT", "RECT", "IMAGE", "LINK"}
Range2 == Nat \X Nat
DlNode == [kind : Kinds, box : Nat, text : Range2, color : Range2, url : Range2, label : Range2]
DlCodes == {"NODE_BUDGET", "STRING_BUDGET"}
DlRec == [nodes : Seq(DlNode), string_len : Nat, truncated : BOOLEAN, warnings : SUBSET DlCodes]
Item == [kind : Kinds, box : Nat, bytes : Nat \X Nat \X Nat \X Nat]

\* The bytes of a string are in the arena, all that fit.
InArena(d, s, asked) ==
  /\ s[1] + s[2] <= d.string_len
  /\ s[2] = asked \/ (s[2] < asked /\ s[1] + s[2] = DlArena /\ d.truncated)

Apart(r, s) == r[2] > 0 /\ s[2] > 0 => r[1] + r[2] <= s[1] \/ s[1] + s[2] <= r[1]

\* A list that misses a node is full.
Drawing(d, C) ==
  /\ d \in DlRec /\ C \in Seq(Item)
  /\ Len(d.nodes) <= Len(C) /\ d.string_len <= DlArena
  /\ Len(d.nodes) < Len(C) => List!DlFull(d) /\ d.truncated
  /\ \A i \in 1..Len(d.nodes) :
       /\ d.nodes[i].kind = C[i].kind /\ d.nodes[i].box = C[i].box
       /\ \A k \in 1..4 : InArena(d, List!Strings(d.nodes[i])[k], C[i].bytes[k])
  /\ \A i, j \in 1..Len(d.nodes) : \A k, m \in 1..4 :
       <<j, m>> # <<i, k>> => Apart(List!Strings(d.nodes[j])[m], List!Strings(d.nodes[i])[k])

LEMMA DrawingSays ==
  ASSUME Drawing(dl, List!AllCalls)
  PROVE  ListIsDrawing
<1>1. DOMAIN dl.nodes = 1..Len(dl.nodes)
  BY DEF Drawing, DlRec
<1>2. \A i \in 1..Len(dl.nodes) : \A j \in 1..i : j \in 1..Len(dl.nodes)
  BY <1>1 DEF Drawing, DlRec
<1>3. ~dl.truncated => Len(dl.nodes) = Len(List!AllCalls)
  BY DEF Drawing, DlRec
<1>4. ASSUME NEW i \in 1..Len(dl.nodes), NEW k \in 1..4
      PROVE  LET s == List!Strings(dl.nodes[i])[k]
                 asked == List!AllCalls[i].bytes[k]
             IN /\ s[1] + s[2] <= dl.string_len
                /\ s[2] = asked \/ (s[2] < asked /\ s[1] + s[2] = DlArena /\ dl.truncated)
                /\ \A j \in 1..i : \A m \in 1..4 :
                     LET r == List!Strings(dl.nodes[j])[m]
                     IN <<j, m>> # <<i, k>> /\ r[2] > 0 /\ s[2] > 0 =>
                          r[1] + r[2] <= s[1] \/ s[1] + s[2] <= r[1]
  <2>1. InArena(dl, List!Strings(dl.nodes[i])[k], List!AllCalls[i].bytes[k])
    BY DEF Drawing
  <2>2. ASSUME NEW j \in 1..i, NEW m \in 1..4, <<j, m>> # <<i, k>>
        PROVE  Apart(List!Strings(dl.nodes[j])[m], List!Strings(dl.nodes[i])[k])
    BY <1>2, <2>2 DEF Drawing
  <2> QED
    BY <2>1, <2>2 DEF InArena, Apart
<1>5. \A i \in 1..Len(dl.nodes) :
        dl.nodes[i].kind = List!AllCalls[i].kind /\ dl.nodes[i].box = List!AllCalls[i].box
  BY DEF Drawing
<1>6. Len(dl.nodes) <= Len(List!AllCalls) /\ dl.string_len <= DlArena
  BY DEF Drawing
<1> QED
  BY <1>1, <1>3, <1>4, <1>5, <1>6 DEF ListIsDrawing, List!ListIsDrawing

LEMMA StringsOf ==
  ASSUME NEW node \in DlNode
  PROVE  /\ List!Strings(node)[1] = node.text /\ List!Strings(node)[2] = node.color
         /\ List!Strings(node)[3] = node.url /\ List!Strings(node)[4] = node.label
         /\ \A k \in 1..4 : List!Strings(node)[k] \in Range2
BY DEF List!Strings, DlNode

(***************************************************************************)
(* The arena.                                                              *)
(***************************************************************************)
LEMMA PutIs ==
  ASSUME NEW d \in DlRec, d.string_len <= DlArena, NEW n \in Nat
  PROVE  LET t == List!Put(d, n)
             s == List!Stored(d, n)
         IN /\ t \in DlRec /\ t.nodes = d.nodes /\ t.string_len <= DlArena
            /\ d.string_len <= t.string_len /\ (d.truncated => t.truncated)
            /\ s \in Range2 /\ s[1] = d.string_len /\ s[1] + s[2] = t.string_len
            /\ InArena(t, s, n)
<1> DEFINE m == List!Smaller(n, DlArena - d.string_len)
           t0 == [d EXCEPT !.string_len = d.string_len + m]
           t == List!Put(d, n)
<1>1. /\ d.string_len \in Nat /\ DlArena \in Nat /\ d.nodes \in Seq(DlNode)
      /\ d.truncated \in BOOLEAN /\ d.warnings \in SUBSET DlCodes
  BY PageConstants DEF DlRec
<1>2. /\ m \in Nat /\ d.string_len + m <= DlArena /\ m <= n
      /\ n > DlArena - d.string_len <=> m < n
      /\ m < n => d.string_len + m = DlArena
  BY <1>1 DEF List!Smaller
<1>3. t = IF n > DlArena - d.string_len THEN List!DlWarn(t0, "STRING_BUDGET") ELSE t0
  BY DEF List!Put
<1>4. List!Stored(d, n) = <<d.string_len, m>>
  BY DEF List!Stored
<1> HIDE DEF m, t
<1>5. /\ t0 \in DlRec /\ t0.nodes = d.nodes /\ t0.string_len = d.string_len + m
      /\ t0.truncated = d.truncated /\ t0.warnings = d.warnings
  BY <1>1, <1>2 DEF DlRec
<1>6. /\ t \in DlRec /\ t.nodes = d.nodes /\ t.string_len = d.string_len + m
      /\ d.truncated => t.truncated
      /\ m < n => t.truncated
  <2> HIDE DEF t0
  <2>1. CASE n > DlArena - d.string_len
    <3>1. t = [t0 EXCEPT !.warnings = @ \cup {"STRING_BUDGET"}, !.truncated = TRUE]
      BY <1>3, <2>1 DEF List!DlWarn
    <3>2. t0.warnings \cup {"STRING_BUDGET"} \in SUBSET DlCodes
      BY <1>1, <1>5 DEF DlCodes
    <3> QED
      BY <1>5, <3>1, <3>2 DEF DlRec
  <2>2. CASE ~(n > DlArena - d.string_len)
    BY <1>2, <1>3, <1>5, <2>2
  <2> QED
    BY <2>1, <2>2
<1>7. InArena(t, <<d.string_len, m>>, n)
  BY <1>1, <1>2, <1>6 DEF InArena
<1> QED
  BY <1>1, <1>2, <1>4, <1>6, <1>7 DEF Range2, t

\* What the arena holds, it holds however much is stored after it.
LEMMA HoldsOn ==
  ASSUME NEW d \in DlRec, NEW t \in DlRec, d.string_len <= t.string_len, d.truncated => t.truncated,
         NEW s \in Range2, NEW asked \in Nat, InArena(d, s, asked)
  PROVE  InArena(t, s, asked)
BY DEF InArena, DlRec, Range2

LEMMA PutKeeps ==
  ASSUME NEW d, NEW C, Drawing(d, C), NEW n \in Nat
  PROVE  Drawing(List!Put(d, n), C)
<1> DEFINE t == List!Put(d, n)
<1>1. /\ d \in DlRec /\ t \in DlRec /\ t.nodes = d.nodes /\ t.string_len <= DlArena
      /\ d.string_len <= t.string_len /\ (d.truncated => t.truncated)
  BY PutIs DEF Drawing
<1> HIDE DEF t
<1>2. \A i \in 1..Len(d.nodes) : d.nodes[i] \in DlNode
  BY <1>1 DEF DlRec
<1>3. ASSUME NEW i \in 1..Len(d.nodes), NEW k \in 1..4
      PROVE  InArena(t, List!Strings(d.nodes[i])[k], C[i].bytes[k])
  <2>1. List!Strings(d.nodes[i])[k] \in Range2
    BY <1>2, StringsOf
  <2>2. C[i].bytes[k] \in Nat
    <3>1. i \in 1..Len(C)
      BY <1>1 DEF Drawing, DlRec
    <3>2. C[i] \in Item
      BY <3>1 DEF Drawing
    <3> QED
      BY <3>2 DEF Item
  <2> QED
    BY <1>1, <2>1, <2>2, HoldsOn DEF Drawing
<1>4. List!DlFull(t) = List!DlFull(d)
  BY <1>1 DEF List!DlFull
<1> QED
  BY <1>1, <1>3, <1>4 DEF Drawing, t

(***************************************************************************)
(* The nodes.                                                              *)
(***************************************************************************)
\* A full list drops a node, and says so.
LEMMA NodeDropped ==
  ASSUME NEW d, NEW C, Drawing(d, C), List!DlFull(d), NEW node, NEW item \in Item
  PROVE  Drawing(List!NewNode(d, node), Append(C, item))
<1> DEFINE t == List!NewNode(d, node)
<1>1. /\ d \in DlRec /\ C \in Seq(Item) /\ Len(d.nodes) \in Nat /\ Len(d.nodes) <= Len(C)
      /\ d.string_len <= DlArena
  BY DEF Drawing, DlRec
<1>2. t = [d EXCEPT !.warnings = @ \cup {"NODE_BUDGET"}, !.truncated = TRUE]
  BY DEF List!NewNode, List!DlWarn
<1> HIDE DEF t
<1>3. /\ t \in DlRec /\ t.nodes = d.nodes /\ t.string_len = d.string_len /\ t.truncated
  <2>1. d.warnings \cup {"NODE_BUDGET"} \in SUBSET DlCodes
    BY <1>1 DEF DlRec, DlCodes
  <2> QED
    BY <1>1, <1>2, <2>1 DEF DlRec
<1>4. /\ Append(C, item) \in Seq(Item) /\ Len(Append(C, item)) = Len(C) + 1
      /\ \A i \in 1..Len(C) : Append(C, item)[i] = C[i]
  BY <1>1
<1>5. \A i \in 1..Len(d.nodes) : i \in 1..Len(C)
  BY <1>1
<1>6. ASSUME NEW i \in 1..Len(d.nodes), NEW k \in 1..4
      PROVE  InArena(t, List!Strings(d.nodes[i])[k], C[i].bytes[k])
  <2>1. InArena(d, List!Strings(d.nodes[i])[k], C[i].bytes[k])
    BY DEF Drawing
  <2> QED
    BY <1>3, <2>1 DEF InArena
<1>7. List!DlFull(t)
  BY <1>3 DEF List!DlFull
<1>8. Len(t.nodes) <= Len(Append(C, item))
  BY <1>1, <1>3, <1>4
<1> QED
  BY <1>1, <1>3, <1>4, <1>5, <1>6, <1>7, <1>8 DEF Drawing, t

\* A node whose strings were stored since is added to a list that is not full.
LEMMA NodeAdded ==
  ASSUME NEW d, NEW t, NEW C, Drawing(d, C), Drawing(t, C), ~List!DlFull(d), t.nodes = d.nodes,
         NEW node \in DlNode, NEW item \in Item, node.kind = item.kind, node.box = item.box,
         \A k \in 1..4 :
           /\ InArena(t, List!Strings(node)[k], item.bytes[k])
           /\ List!Strings(node)[k][2] > 0 => d.string_len <= List!Strings(node)[k][1],
         \A k, m \in 1..4 : k # m => Apart(List!Strings(node)[m], List!Strings(node)[k])
  PROVE  Drawing(List!NewNode(t, node), Append(C, item))
<1> DEFINE u == List!NewNode(t, node)
           n == Len(d.nodes)
<1>1. /\ d \in DlRec /\ t \in DlRec /\ C \in Seq(Item) /\ n \in Nat /\ n = Len(C)
      /\ t.string_len <= DlArena /\ d.nodes \in Seq(DlNode) /\ ~List!DlFull(t)
  BY DEF Drawing, DlRec, List!DlFull
<1>2. u = [t EXCEPT !.nodes = Append(d.nodes, node)]
  BY <1>1 DEF List!NewNode
<1>3. /\ Append(d.nodes, node) \in Seq(DlNode) /\ Len(Append(d.nodes, node)) = n + 1
      /\ Append(d.nodes, node)[n + 1] = node
      /\ \A i \in 1..n : Append(d.nodes, node)[i] = d.nodes[i]
  BY <1>1
<1>4. /\ u \in DlRec /\ u.nodes = Append(d.nodes, node)
      /\ u.string_len = t.string_len /\ u.truncated = t.truncated
  <2> HIDE DEF u
  <2> QED
    BY <1>1, <1>2, <1>3 DEF DlRec
<1> HIDE DEF u
<1>5. /\ Append(C, item) \in Seq(Item) /\ Len(Append(C, item)) = n + 1
      /\ Append(C, item)[n + 1] = item
      /\ \A i \in 1..n : Append(C, item)[i] = C[i]
  BY <1>1
<1>6. ASSUME NEW i \in 1..(n + 1)
      PROVE  /\ u.nodes[i].kind = Append(C, item)[i].kind /\ u.nodes[i].box = Append(C, item)[i].box
             /\ \A k \in 1..4 : InArena(u, List!Strings(u.nodes[i])[k], Append(C, item)[i].bytes[k])
  <2>1. CASE i = n + 1
    BY <1>3, <1>4, <1>5, <2>1 DEF InArena
  <2>2. CASE i \in 1..n
    <3>1. /\ d.nodes[i].kind = C[i].kind /\ d.nodes[i].box = C[i].box
          /\ \A k \in 1..4 : InArena(t, List!Strings(d.nodes[i])[k], C[i].bytes[k])
      BY <2>2 DEF Drawing
    <3>2. \A r, asked : InArena(t, r, asked) => InArena(u, r, asked)
      BY <1>4 DEF InArena
    <3>3. u.nodes[i] = d.nodes[i] /\ Append(C, item)[i] = C[i]
      BY <1>3, <1>4, <1>5, <2>2
    <3> QED
      BY <3>1, <3>2, <3>3
  <2> QED
    BY <1>1, <2>1, <2>2
\* What was there lies before what was stored since.
<1>7. ASSUME NEW i \in 1..n, NEW k \in 1..4, NEW m \in 1..4
      PROVE  /\ Apart(List!Strings(d.nodes[i])[m], List!Strings(node)[k])
             /\ Apart(List!Strings(node)[k], List!Strings(d.nodes[i])[m])
  <2> DEFINE r == List!Strings(d.nodes[i])[m]
             s == List!Strings(node)[k]
  <2>1. r \in Range2 /\ s \in Range2
    <3>1. d.nodes[i] \in DlNode
      BY <1>1
    <3> QED
      BY <3>1, StringsOf
  <2>2. r[1] + r[2] <= d.string_len
    BY DEF Drawing, InArena
  <2>3. s[2] > 0 => d.string_len <= s[1]
    OBVIOUS
  <2>4. d.string_len \in Nat
    BY <1>1 DEF DlRec
  <2> HIDE DEF r, s
  <2>5. Apart(r, s) /\ Apart(s, r)
    BY <2>1, <2>2, <2>3, <2>4 DEF Apart, Range2
  <2> QED
    BY <2>5 DEF r, s
<1>8. ASSUME NEW i \in 1..(n + 1), NEW j \in 1..(n + 1), NEW k \in 1..4, NEW m \in 1..4, <<j, m>> # <<i, k>>
      PROVE  Apart(List!Strings(u.nodes[j])[m], List!Strings(u.nodes[i])[k])
  <2>1. CASE i \in 1..n /\ j \in 1..n
    <3>1. Apart(List!Strings(d.nodes[j])[m], List!Strings(d.nodes[i])[k])
      BY <1>8, <2>1 DEF Drawing
    <3> QED
      BY <1>3, <1>4, <2>1, <3>1
  <2>2. CASE i \in 1..n /\ j = n + 1
    BY <1>3, <1>4, <1>7, <2>2
  <2>3. CASE i = n + 1 /\ j \in 1..n
    BY <1>3, <1>4, <1>7, <2>3
  <2>4. CASE i = n + 1 /\ j = n + 1
    BY <1>3, <1>4, <1>8, <2>4
  <2> QED
    BY <1>1, <2>1, <2>2, <2>3, <2>4
<1>9. /\ u \in DlRec /\ Append(C, item) \in Seq(Item) /\ u.string_len <= DlArena
      /\ Len(u.nodes) = n + 1 /\ Len(Append(C, item)) = n + 1 /\ n + 1 \in Nat
  BY <1>1, <1>3, <1>4, <1>5
<1>10. Len(u.nodes) < Len(Append(C, item)) => List!DlFull(u) /\ u.truncated
  BY <1>9
<1>11. /\ \A i \in 1..Len(u.nodes) :
             /\ u.nodes[i].kind = Append(C, item)[i].kind /\ u.nodes[i].box = Append(C, item)[i].box
             /\ \A k \in 1..4 : InArena(u, List!Strings(u.nodes[i])[k], Append(C, item)[i].bytes[k])
       /\ \A i, j \in 1..Len(u.nodes) : \A k, m \in 1..4 :
             <<j, m>> # <<i, k>> => Apart(List!Strings(u.nodes[j])[m], List!Strings(u.nodes[i])[k])
  BY <1>6, <1>8, <1>9
<1>12. Len(u.nodes) <= Len(Append(C, item))
  BY <1>9
<1>13. Drawing(u, Append(C, item))
  BY <1>9, <1>10, <1>11, <1>12 DEF Drawing
<1> QED
  BY <1>13 DEF u

(***************************************************************************)
(* What a box emits.                                                       *)
(***************************************************************************)
NoRange == <<0, 0>>

LEMMA NoRangeHolds ==
  ASSUME NEW d \in DlRec
  PROVE  NoRange \in Range2 /\ InArena(d, NoRange, 0) /\ NoRange = List!NoBytes
BY DEF NoRange, Range2, InArena, DlRec, List!NoBytes

\* A node of a kind for a box, with these strings.
IsNode(node, kind, b, text, color, url, label) ==
  /\ node \in DlNode /\ node.kind = kind /\ node.box = b
  /\ List!Strings(node)[1] = text /\ List!Strings(node)[2] = color
  /\ List!Strings(node)[3] = url /\ List!Strings(node)[4] = label

LEMMA NodesOf ==
  ASSUME NEW kind \in Kinds, NEW b \in Nat, NEW x \in Range2, NEW y \in Range2
  PROVE  /\ IsNode([List!Node(kind, b) EXCEPT !.text = x, !.color = y], kind, b, x, y, NoRange, NoRange)
         /\ IsNode([List!Node(kind, b) EXCEPT !.color = x], kind, b, NoRange, x, NoRange, NoRange)
         /\ IsNode([List!Node(kind, b) EXCEPT !.label = x, !.url = y], kind, b, NoRange, NoRange, y, x)
         /\ IsNode([List!Node(kind, b) EXCEPT !.url = x], kind, b, NoRange, NoRange, x, NoRange)
<1> DEFINE node == List!Node(kind, b)
<1>1. /\ node \in DlNode /\ node.kind = kind /\ node.box = b
      /\ node.text = NoRange /\ node.color = NoRange /\ node.url = NoRange /\ node.label = NoRange
  BY DEF List!Node, List!NoBytes, NoRange, DlNode, Range2
<1> HIDE DEF node
<1> USE DEF IsNode, DlNode
<1>2. IsNode([node EXCEPT !.text = x, !.color = y], kind, b, x, y, NoRange, NoRange)
  BY <1>1, StringsOf
<1>3. IsNode([node EXCEPT !.color = x], kind, b, NoRange, x, NoRange, NoRange)
  BY <1>1, StringsOf
<1>4. IsNode([node EXCEPT !.label = x, !.url = y], kind, b, NoRange, NoRange, y, x)
  BY <1>1, StringsOf
<1>5. IsNode([node EXCEPT !.url = x], kind, b, NoRange, NoRange, x, NoRange)
  BY <1>1, StringsOf
<1> QED
  BY <1>2, <1>3, <1>4, <1>5 DEF node

\* A node with one string, and one with two.
LEMMA OneDraws ==
  ASSUME NEW d, NEW C, Drawing(d, C), NEW n \in Nat,
         NEW node \in DlNode, NEW item \in Item, node.kind = item.kind, node.box = item.box,
         NEW p \in 1..4,
         \A k \in 1..4 :
           /\ List!Strings(node)[k] = IF k = p THEN List!Stored(d, n) ELSE NoRange
           /\ item.bytes[k] = IF k = p THEN n ELSE 0
  PROVE  Drawing(List!NewNode(List!Put(d, n), node), Append(C, item))
<1> DEFINE t == List!Put(d, n)
           s == List!Stored(d, n)
<1>1. /\ d \in DlRec /\ d.string_len \in Nat /\ t.nodes = d.nodes /\ t \in DlRec
      /\ s \in Range2 /\ InArena(t, s, n) /\ s[1] = d.string_len
  BY PutIs DEF Drawing, DlRec
<1>2. Drawing(t, C)
  BY PutKeeps
<1> HIDE DEF t, s
<1>3. InArena(t, NoRange, 0) /\ NoRange[2] = 0
  BY <1>1, NoRangeHolds DEF NoRange
<1>4. ASSUME NEW k \in 1..4
      PROVE  /\ InArena(t, List!Strings(node)[k], item.bytes[k])
             /\ List!Strings(node)[k][2] > 0 => d.string_len <= List!Strings(node)[k][1]
  BY <1>1, <1>3 DEF s
<1>5. ASSUME NEW k \in 1..4, NEW m \in 1..4, k # m
      PROVE  Apart(List!Strings(node)[m], List!Strings(node)[k])
  <2>1. Apart(s, NoRange) /\ Apart(NoRange, s) /\ Apart(NoRange, NoRange)
    BY <1>1, <1>3 DEF Apart, Range2
  <2> QED
    BY <1>5, <2>1 DEF s
<1>6. CASE List!DlFull(d)
  <2>1. List!DlFull(t)
    BY <1>1, <1>6 DEF List!DlFull
  <2> QED
    BY <1>2, <2>1, NodeDropped DEF t
<1>7. CASE ~List!DlFull(d)
  <2>1. Drawing(List!NewNode(t, node), Append(C, item))
    BY <1>1, <1>2, <1>4, <1>5, <1>7, NodeAdded
  <2> QED
    BY <2>1 DEF t
<1> QED
  BY <1>6, <1>7

LEMMA TwoDraws ==
  ASSUME NEW d, NEW C, Drawing(d, C), ~List!DlFull(d), NEW n \in Nat, NEW m \in Nat,
         NEW s, s = List!Stored(d, n) \/ (n = 0 /\ s = NoRange),
         NEW c, c = List!Stored(List!Put(d, n), m) \/ (m = 0 /\ c = NoRange),
         NEW node \in DlNode, NEW item \in Item, node.kind = item.kind, node.box = item.box,
         NEW p \in 1..4, NEW q \in 1..4,
         \A k \in 1..4 :
           /\ List!Strings(node)[k] = IF k = p THEN s ELSE IF k = q THEN c ELSE NoRange
           /\ item.bytes[k] = IF k = p THEN n ELSE IF k = q THEN m ELSE 0
  PROVE  Drawing(List!NewNode(List!Put(List!Put(d, n), m), node), Append(C, item))
<1> DEFINE t == List!Put(d, n)
           u == List!Put(t, m)
<1>1. /\ d \in DlRec /\ d.string_len \in Nat /\ t.nodes = d.nodes /\ t \in DlRec
      /\ d.string_len <= t.string_len /\ t.string_len <= DlArena /\ t.string_len \in Nat
      /\ s \in Range2 /\ InArena(t, s, n) /\ (s[2] > 0 => s[1] = d.string_len /\ s[1] + s[2] = t.string_len)
  <2>1. /\ d \in DlRec /\ d.string_len \in Nat /\ t.nodes = d.nodes /\ t \in DlRec
        /\ d.string_len <= t.string_len /\ t.string_len <= DlArena /\ t.string_len \in Nat
        /\ List!Stored(d, n) \in Range2 /\ InArena(t, List!Stored(d, n), n)
        /\ List!Stored(d, n)[1] = d.string_len
        /\ List!Stored(d, n)[1] + List!Stored(d, n)[2] = t.string_len
    BY PutIs DEF Drawing, DlRec
  <2>2. NoRange \in Range2 /\ InArena(t, NoRange, 0) /\ ~(NoRange[2] > 0)
    BY <2>1, NoRangeHolds DEF NoRange
  <2> HIDE DEF t
  <2> QED
    BY <2>1, <2>2
<1>2. Drawing(t, C)
  BY PutKeeps
<1>3. /\ u \in DlRec /\ u.nodes = d.nodes /\ t.string_len <= u.string_len /\ (t.truncated => u.truncated)
      /\ c \in Range2 /\ InArena(u, c, m) /\ (c[2] > 0 => c[1] = t.string_len)
  <2>1. /\ u \in DlRec /\ u.nodes = d.nodes /\ t.string_len <= u.string_len /\ (t.truncated => u.truncated)
        /\ List!Stored(t, m) \in Range2 /\ InArena(u, List!Stored(t, m), m)
        /\ List!Stored(t, m)[1] = t.string_len
    <3> HIDE DEF t
    <3> QED
      BY <1>1, PutIs
  <2>2. NoRange \in Range2 /\ InArena(u, NoRange, 0) /\ ~(NoRange[2] > 0)
    BY <2>1, NoRangeHolds DEF NoRange
  <2> HIDE DEF u
  <2> QED
    BY <2>1, <2>2 DEF t
<1>4. Drawing(u, C)
  <2> HIDE DEF t
  <2> QED
    BY <1>2, PutKeeps
<1> HIDE DEF t, u
<1>5. InArena(u, s, n) /\ InArena(u, NoRange, 0) /\ NoRange[2] = 0
  BY <1>1, <1>3, HoldsOn, NoRangeHolds DEF NoRange
<1>6. ASSUME NEW k \in 1..4
      PROVE  /\ InArena(u, List!Strings(node)[k], item.bytes[k])
             /\ List!Strings(node)[k][2] > 0 => d.string_len <= List!Strings(node)[k][1]
  BY <1>1, <1>3, <1>5
<1>7. ASSUME NEW i \in 1..4, NEW j \in 1..4, i # j
      PROVE  Apart(List!Strings(node)[j], List!Strings(node)[i])
  <2>1. /\ Apart(s, c) /\ Apart(c, s) /\ Apart(NoRange, NoRange)
        /\ Apart(s, NoRange) /\ Apart(NoRange, s) /\ Apart(c, NoRange) /\ Apart(NoRange, c)
    BY <1>1, <1>3, <1>5 DEF Apart, Range2
  <2> QED
    BY <1>7, <2>1
<1>8. Drawing(List!NewNode(u, node), Append(C, item))
  BY <1>1, <1>3, <1>4, <1>6, <1>7, NodeAdded
<1> QED
  BY <1>8 DEF t, u

LEMMA TextDraws ==
  ASSUME NEW d, NEW C, Drawing(d, C), NEW b \in Nat, NEW n \in Nat, NEW color \in Nat
  PROVE  Drawing(List!Text(d, b, n, color), Append(C, List!Call("TEXT", b, n, color, 0, 0)))
<1> DEFINE t == List!Put(d, n)
           s == List!Stored(d, n)
           c == IF color = 0 THEN NoRange ELSE List!Stored(t, color)
           node == [List!Node("TEXT", b) EXCEPT !.text = s, !.color = c]
           item == List!Call("TEXT", b, n, color, 0, 0)
<1>1. t \in DlRec /\ t.nodes = d.nodes /\ t.string_len <= DlArena /\ s \in Range2
  BY PutIs DEF Drawing
<1>2. Drawing(t, C)
  BY PutKeeps
<1>3. c \in Range2
  BY <1>1, PutIs, NoRangeHolds
<1>4. IsNode(node, "TEXT", b, s, c, NoRange, NoRange)
  <2> HIDE DEF s, c
  <2> QED
    BY <1>1, <1>3, NodesOf DEF Kinds
<1>5. /\ item \in Item /\ item.kind = "TEXT" /\ item.box = b
      /\ item.bytes[1] = n /\ item.bytes[2] = color /\ item.bytes[3] = 0 /\ item.bytes[4] = 0
  BY DEF List!Call, Item, Kinds
<1>6. List!Text(d, b, n, color) =
        IF List!DlFull(t) THEN List!NewNode(t, node) ELSE List!NewNode(List!Put(t, color), node)
  <2>1. c = IF color = 0 THEN List!NoBytes ELSE List!Stored(t, color)
    BY DEF NoRange, List!NoBytes
  <2> HIDE DEF c
  <2> QED
    BY <2>1 DEF List!Text
<1>7. s = List!Stored(d, n) /\ (c = List!Stored(t, color) \/ (color = 0 /\ c = NoRange))
  OBVIOUS
<1> HIDE DEF node, item, s, c
<1>8. CASE List!DlFull(t)
  BY <1>2, <1>5, <1>6, <1>8, NodeDropped DEF item
<1>9. CASE ~List!DlFull(t)
  <2>1. ~List!DlFull(d)
    BY <1>1, <1>9 DEF List!DlFull
  <2>2. Drawing(List!NewNode(List!Put(t, color), node), Append(C, item))
    BY <1>4, <1>5, <1>7, <2>1, TwoDraws DEF IsNode
  <2> QED
    BY <1>6, <1>9, <2>2 DEF item
<1> QED
  BY <1>8, <1>9

LEMMA RectDraws ==
  ASSUME NEW d, NEW C, Drawing(d, C), NEW b \in Nat, NEW look, look.background \in Nat
  PROVE  Drawing(List!Rect(d, b, look),
                 C \o (IF look.background # 0
                         THEN <<List!Call("RECT", b, 0, look.background, 0, 0)>> ELSE << >>))
<1> DEFINE n == look.background
           node == [List!Node("RECT", b) EXCEPT !.color = List!Stored(d, n)]
           item == List!Call("RECT", b, 0, n, 0, 0)
<1>0. C \in Seq(Item)
  BY DEF Drawing
<1>1. CASE n = 0
  BY <1>0, <1>1 DEF List!Rect
<1>2. CASE n # 0
  <2>1. IsNode(node, "RECT", b, NoRange, List!Stored(d, n), NoRange, NoRange)
    BY PutIs, NodesOf DEF Kinds, Drawing
  <2>2. /\ item \in Item /\ item.kind = "RECT" /\ item.box = b
        /\ item.bytes[1] = 0 /\ item.bytes[2] = n /\ item.bytes[3] = 0 /\ item.bytes[4] = 0
    BY DEF List!Call, Item, Kinds
  <2>3. List!Rect(d, b, look) = List!NewNode(List!Put(d, n), node)
    BY <1>2 DEF List!Rect
  <2> HIDE DEF node, item
  <2>4. C \o <<item>> = Append(C, item)
    BY <1>0, <2>2
  <2>5. Drawing(List!NewNode(List!Put(d, n), node), Append(C, item))
    BY <2>1, <2>2, OneDraws DEF IsNode
  <2> QED
    BY <1>2, <2>3, <2>4, <2>5 DEF item
<1> QED
  BY <1>1, <1>2

LEMMA LinkDraws ==
  ASSUME NEW d, NEW C, Drawing(d, C), NEW b \in Nat, NEW look, look.url \in Nat
  PROVE  Drawing(List!Link(d, b, look),
                 C \o (IF look.url # 0 THEN <<List!Call("LINK", b, 0, 0, look.url, 0)>> ELSE << >>))
<1> DEFINE n == look.url
           node == [List!Node("LINK", b) EXCEPT !.url = List!Stored(d, n)]
           item == List!Call("LINK", b, 0, 0, n, 0)
<1>0. C \in Seq(Item)
  BY DEF Drawing
<1>1. CASE n = 0
  BY <1>0, <1>1 DEF List!Link
<1>2. CASE n # 0
  <2>1. IsNode(node, "LINK", b, NoRange, NoRange, List!Stored(d, n), NoRange)
    BY PutIs, NodesOf DEF Kinds, Drawing
  <2>2. /\ item \in Item /\ item.kind = "LINK" /\ item.box = b
        /\ item.bytes[1] = 0 /\ item.bytes[2] = 0 /\ item.bytes[3] = n /\ item.bytes[4] = 0
    BY DEF List!Call, Item, Kinds
  <2>3. List!Link(d, b, look) = List!NewNode(List!Put(d, n), node)
    BY <1>2 DEF List!Link
  <2> HIDE DEF node, item
  <2>4. C \o <<item>> = Append(C, item)
    BY <1>0, <2>2
  <2>5. Drawing(List!NewNode(List!Put(d, n), node), Append(C, item))
    BY <2>1, <2>2, OneDraws DEF IsNode
  <2> QED
    BY <1>2, <2>3, <2>4, <2>5 DEF item
<1> QED
  BY <1>1, <1>2

LEMMA ImageDraws ==
  ASSUME NEW d, NEW C, Drawing(d, C), NEW b \in Nat, NEW look, NEW n \in Nat, NEW m \in Nat,
         look.label = n, look.url = m
  PROVE  Drawing(List!Image(d, b, look), Append(C, List!Call("IMAGE", b, 0, 0, m, n)))
<1> DEFINE t == List!Put(d, n)
           l == IF n = 0 THEN NoRange ELSE List!Stored(d, n)
           u == IF m = 0 THEN NoRange ELSE List!Stored(t, m)
           node == [List!Node("IMAGE", b) EXCEPT !.label = l, !.url = u]
           item == List!Call("IMAGE", b, 0, 0, m, n)
<1>1. t \in DlRec /\ t.string_len <= DlArena /\ l \in Range2
  BY PutIs, NoRangeHolds DEF Drawing
<1>2. u \in Range2
  BY <1>1, PutIs, NoRangeHolds
<1>3. IsNode(node, "IMAGE", b, NoRange, NoRange, u, l)
  <2> HIDE DEF l, u
  <2> QED
    BY <1>1, <1>2, NodesOf DEF Kinds
<1>4. /\ item \in Item /\ item.kind = "IMAGE" /\ item.box = b /\ item.bytes[1] = 0
      /\ item.bytes[2] = 0 /\ item.bytes[3] = m /\ item.bytes[4] = n
  BY DEF List!Call, Item, Kinds
<1>5. List!Image(d, b, look) =
        IF List!DlFull(d) THEN List!NewNode(d, node) ELSE List!NewNode(List!Put(t, m), node)
  <2>1. /\ l = IF n = 0 THEN List!NoBytes ELSE List!Stored(d, n)
        /\ u = IF m = 0 THEN List!NoBytes ELSE List!Stored(t, m)
    BY DEF NoRange, List!NoBytes
  <2> HIDE DEF l, u
  <2> QED
    BY <2>1 DEF List!Image
<1>6. /\ l = List!Stored(d, n) \/ (n = 0 /\ l = NoRange)
      /\ u = List!Stored(t, m) \/ (m = 0 /\ u = NoRange)
  OBVIOUS
<1> HIDE DEF node, item, l, u
<1>7. CASE List!DlFull(d)
  BY <1>4, <1>5, <1>7, NodeDropped DEF item
<1>8. CASE ~List!DlFull(d)
  <2>1. \A k \in 1..4 :
          /\ List!Strings(node)[k] = IF k = 4 THEN l ELSE IF k = 3 THEN u ELSE NoRange
          /\ item.bytes[k] = IF k = 4 THEN n ELSE IF k = 3 THEN m ELSE 0
    BY <1>3, <1>4 DEF IsNode
  <2>2. node \in DlNode /\ node.kind = item.kind /\ node.box = item.box
    BY <1>3, <1>4 DEF IsNode
  <2>3. Drawing(List!NewNode(List!Put(t, m), node), Append(C, item))
    BY <1>4, <1>6, <1>8, <2>1, <2>2, TwoDraws
  <2> QED
    BY <1>5, <1>8, <2>3 DEF item
<1> QED
  BY <1>7, <1>8

(***************************************************************************)
(* The calls of all boxes.                                                 *)
(***************************************************************************)
\* f joins the first sequences of c, for each number of them.
Joined(f, n, c) == f = [b \in 0..n |-> IF b = 0 THEN << >> ELSE f[b - 1] \o c[b]]

LEMMA JoinExists ==
  ASSUME NEW n \in Nat, NEW c
  PROVE  \E f : Joined(f, n, c)
<1> DEFINE S == {k \in Nat : \E f : Joined(f, k, c)}
<1>1. 0 \in S
  <2>1. Joined([b \in 0..0 |-> << >>], 0, c)
    BY DEF Joined
  <2> QED
    BY <2>1
<1>2. ASSUME NEW k \in S PROVE k + 1 \in S
  <2>1. PICK f : Joined(f, k, c)
    OBVIOUS
  <2> DEFINE g == [b \in 0..(k + 1) |-> IF b <= k THEN f[b] ELSE f[k] \o c[k + 1]]
  <2>2. Joined(g, k + 1, c)
    <3>1. ASSUME NEW b \in 0..(k + 1)
          PROVE  g[b] = IF b = 0 THEN << >> ELSE g[b - 1] \o c[b]
      <4>1. CASE b <= k
        <5>1. b \in 0..k /\ (b # 0 => b - 1 \in 0..k /\ b - 1 \in 0..(k + 1))
          BY <4>1
        <5>2. f[b] = IF b = 0 THEN << >> ELSE f[b - 1] \o c[b]
          BY <2>1, <5>1 DEF Joined
        <5> QED
          BY <4>1, <5>1, <5>2
      <4>2. CASE b = k + 1
        BY <4>2
      <4> QED
        BY <4>1, <4>2
    <3> QED
      BY <3>1 DEF Joined
  <2> QED
    BY <2>2
<1>3. S = Nat
  <2> HIDE DEF S
  <2>1. S \in SUBSET Nat
    BY DEF S
  <2> QED
    BY <1>1, <1>2, <2>1, Induct
<1> QED
  BY <1>3

\* Two that join the same sequences agree on them.
LEMMA JoinAgrees ==
  ASSUME NEW n \in Nat, NEW c, NEW f, Joined(f, n, c),
         NEW m \in Nat, NEW d, NEW g, Joined(g, m, d),
         n <= m, \A b \in 1..n : c[b] = d[b]
  PROVE  f[n] = g[n]
<1> DEFINE S == {k \in Nat : k <= n => f[k] = g[k]}
<1>1. 0 \in S
  BY DEF Joined
<1>2. ASSUME NEW k \in S PROVE k + 1 \in S
  <2>1. SUFFICES ASSUME k + 1 <= n PROVE f[k + 1] = g[k + 1]
    OBVIOUS
  <2>2. f[k + 1] = f[k] \o c[k + 1]
    <3>1. k + 1 \in 0..n /\ k + 1 # 0 /\ (k + 1) - 1 = k
      BY <2>1
    <3> QED
      BY <3>1 DEF Joined
  <2>3. g[k + 1] = g[k] \o d[k + 1]
    <3>1. k + 1 \in 0..m /\ k + 1 # 0 /\ (k + 1) - 1 = k
      BY <2>1
    <3> QED
      BY <3>1 DEF Joined
  <2>4. f[k] = g[k] /\ k + 1 \in 1..n
    BY <2>1
  <2> QED
    BY <2>2, <2>3, <2>4
<1>3. S = Nat
  <2> HIDE DEF S
  <2>1. S \in SUBSET Nat
    BY DEF S
  <2> QED
    BY <1>1, <1>2, <2>1, Induct
<1> QED
  BY <1>3

CallsOf == [b \in 1..Len(drawn) |-> List!Calls(b)]

CallsJoin ==
  Len(drawn) \in Nat => \E f : Joined(f, Len(drawn), CallsOf) /\ List!AllCalls = f[Len(drawn)]

LEMMA AllCallsJoin == CallsJoin
<1> SUFFICES ASSUME Len(drawn) \in Nat
             PROVE  \E f : Joined(f, Len(drawn), CallsOf) /\ List!AllCalls = f[Len(drawn)]
  BY DEF CallsJoin
<1> DEFINE n == Len(drawn)
           G(f) == [b \in 0..n |-> IF b = 0 THEN << >> ELSE f[b - 1] \o List!Calls(b)]
           calls == CHOOSE f : f = G(f)
<1>1. \A f : [b \in 0..n |-> IF b = 0 THEN << >> ELSE f[b - 1] \o CallsOf[b]] = G(f)
  BY DEF CallsOf
<1>2. \E f : f = G(f)
  <2>1. PICK f : Joined(f, n, CallsOf)
    BY JoinExists
  <2> HIDE DEF G
  <2> QED
    BY <1>1, <2>1 DEF Joined
<1>3. calls = G(calls)
  <2> HIDE DEF G
  <2> QED
    BY <1>2
<1>4. Joined(calls, n, CallsOf)
  <2> HIDE DEF G, calls
  <2> QED
    BY <1>1, <1>3 DEF Joined
<1>5. List!AllCalls = calls[n]
  BY DEF List!AllCalls
<1> QED
  BY <1>4, <1>5

LEMMA CallsStill ==
  ASSUME UNCHANGED <<nodes, parent, boxes, looks, drawn>>
  PROVE  List!AllCalls' = List!AllCalls
BY DEF List!AllCalls, List!Calls, List!Color, List!Of

\* The calls of one box more come after those of the boxes before it.
LEMMA CallsGrow ==
  ASSUME UNCHANGED <<nodes, parent, boxes, looks>>, drawn \in Seq(Nat),
         NEW x \in Nat, drawn' = Append(drawn, x), NEW b, b = Len(drawn) + 1
  PROVE  List!AllCalls' = List!AllCalls \o List!Calls(b)'
<1>1. /\ Len(drawn) \in Nat /\ Len(drawn') = b /\ b \in Nat /\ b \in 1..b
      /\ \A c \in 1..Len(drawn) : drawn'[c] = drawn[c] /\ c \in 1..b
  OBVIOUS
<1>2. \A n : List!Color(n)' = List!Color(n)
  BY DEF List!Color
<1>3. ASSUME NEW c \in 1..Len(drawn) PROVE List!Calls(c)' = List!Calls(c)
  BY <1>1, <1>2 DEF List!Calls, List!Of
<1>4. CallsJoin'
  BY AllCallsJoin, PTL
<1>5. PICK f : Joined(f, Len(drawn), CallsOf) /\ List!AllCalls = f[Len(drawn)]
  BY <1>1, AllCallsJoin DEF CallsJoin
<1>6. PICK g : Joined(g, b, CallsOf') /\ List!AllCalls' = g[b]
  <2>1. Len(drawn') \in Nat =>
          \E g : (Joined(g, Len(drawn'), CallsOf') /\ List!AllCalls' = g[Len(drawn')])
    BY <1>4 DEF CallsJoin, Joined
  <2> QED
    BY <1>1, <2>1
<1>7. CallsOf' = [c \in 1..b |-> List!Calls(c)']
  BY <1>1 DEF CallsOf
<1>8. \A c \in 1..Len(drawn) : CallsOf[c] = CallsOf'[c]
  BY <1>1, <1>3, <1>7 DEF CallsOf
<1>9. f[Len(drawn)] = g[Len(drawn)]
  <2>1. Len(drawn) <= b
    BY <1>1
  <2> QED
    BY <1>1, <1>5, <1>6, <1>8, <2>1, JoinAgrees
<1>10. g[b] = g[Len(drawn)] \o List!Calls(b)'
  <2>1. b \in 0..b /\ b # 0 /\ b - 1 = Len(drawn)
    BY <1>1
  <2>2. g[b] = g[b - 1] \o CallsOf'[b]
    BY <1>6, <2>1 DEF Joined
  <2> QED
    BY <1>1, <1>7, <2>1, <2>2
<1> QED
  BY <1>5, <1>6, <1>9, <1>10

LEMMA NoCalls ==
  ASSUME drawn = << >>
  PROVE  List!AllCalls = << >>
<1>1. Len(drawn) = 0
  OBVIOUS
<1>2. PICK f : Joined(f, 0, CallsOf) /\ List!AllCalls = f[0]
  BY <1>1, AllCallsJoin DEF CallsJoin
<1> QED
  BY <1>2 DEF Joined

(***************************************************************************)
(* What the list reads of the document.                                    *)
(***************************************************************************)
KindsInv ==
  /\ nodes[1].type = "DOCUMENT"
  /\ \A n \in Id : nodes[n].type = "ELEMENT" => nodes[n].name \in Name

LEMMA KindsStart == Init => KindsInv
BY DEF Init, Root, KindsInv, Id

LEMMA KindsGrow ==
  ASSUME DomInv, KindsInv, NEW node \in Node, AddNode(node),
         node.type = "ELEMENT" => node.name \in Name
  PROVE  KindsInv'
<1>1. TypeOK
  BY DEF DomInv
<1>2. Grown(node)
  BY <1>1, AddNodeGrows
<1>3. Len(nodes) \in Nat /\ 1 \in Id /\ Id = 1..Len(nodes)
  BY <1>1, DomConstants DEF TypeOK, Id
<1>4. /\ Len(nodes') = Len(nodes) + 1 /\ nodes'[Len(nodes) + 1] = node
      /\ \A m \in Id : nodes'[m] = nodes[m]
  BY <1>2 DEF Grown
<1>5. Id' = 1..(Len(nodes) + 1)
  BY <1>4 DEF Id
<1>6. ASSUME NEW n \in Id', nodes'[n].type = "ELEMENT" PROVE nodes'[n].name \in Name
  <2>1. n \in Id \/ n = Len(nodes) + 1
    BY <1>3, <1>5, <1>6
  <2> QED
    BY <1>4, <1>6, <2>1 DEF KindsInv
<1> QED
  BY <1>3, <1>4, <1>6 DEF KindsInv

LEMMA KindsPreserved == DomInv /\ KindsInv /\ [Next]_vars => KindsInv'
<1> SUFFICES ASSUME DomInv, KindsInv, [Next]_vars PROVE KindsInv'
  OBVIOUS
<1>1. TypeOK /\ MaxText \in Nat /\ MaxTagAttrs \in Nat
  BY DomConstants DEF DomInv
<1>2. ASSUME UNCHANGED tree PROVE KindsInv'
  BY <1>2 DEF tree, KindsInv, Id
<1>3. ASSUME NEW n \in 0..MaxText, Text(n) PROVE KindsInv'
  <2>1. CASE AddNode(TextNode(Interned(n), Decoded(Top)))
    <3>1. PICK len : len = Interned(n)
      OBVIOUS
    <3>2. PICK decoded : decoded = Decoded(Top)
      OBVIOUS
    <3>3. PICK node : node = TextNode(len, decoded)
      OBVIOUS
    <3>4. AddNode(node) /\ decoded \in BOOLEAN
      BY <2>1, <3>1, <3>2, <3>3 DEF Decoded
    <3>5. node \in Node
      BY <1>1, <3>1, <3>2, <3>3, <3>4, TextNodeTyped
    <3>6. node.type = "TEXT"
      BY <3>3 DEF TextNode, Root
    <3> QED
      BY <3>4, <3>5, <3>6, KindsGrow
  <2> QED
    BY <1>2, <1>3, <2>1 DEF Text
<1>4. ASSUME NEW name \in Name, NEW self_closing \in BOOLEAN, NEW unclosed \in BOOLEAN,
             NEW n \in 0..MaxTagAttrs, NEW w \in 1..MaxText,
             Start(name, self_closing, n, w, unclosed)
      PROVE  KindsInv'
  <2>1. CASE AddNode(Element(name, Recorded(n)))
    <3>1. PICK node : node = Element(name, Recorded(n))
      OBVIOUS
    <3>2. node \in Node /\ node.name = name
      BY <1>1, <3>1, ElementTyped
    <3> QED
      BY <2>1, <3>1, <3>2, KindsGrow
  <2> QED
    BY <1>2, <1>4, <2>1 DEF Start
<1>5. ASSUME NEW name \in Name \cup {None}, NEW unclosed \in BOOLEAN, End(name, unclosed)
      PROVE  KindsInv'
  BY <1>2, <1>5 DEF End
<1>6. CASE UnclosedComment \/ Finish \/ UNCHANGED vars
  BY <1>2, <1>6 DEF UnclosedComment, Finish, vars
<1> QED
  BY <1>3, <1>4, <1>5, <1>6 DEF Next, Token, Parsed

(***************************************************************************)
(* The colour of a text: the search up the parents ends at the root.       *)
(***************************************************************************)
Own(m) == looks[nodes[m].name].color

Painted(f, k) ==
  f = [m \in 1..k |-> IF nodes[m].type = "DOCUMENT" THEN 0
                      ELSE IF nodes[m].type = "ELEMENT" /\ Own(m) # 0 THEN Own(m)
                      ELSE f[parent[m]]]

LEMMA LooksTyped ==
  ASSUME looks \in Looks, NEW name \in Name
  PROVE  /\ looks[name].background \in Nat /\ looks[name].color \in Nat
         /\ looks[name].label \in Nat /\ looks[name].url \in Nat
<1>1. looks \in [Name -> [background : Nat, color : Nat, label : Nat, url : Nat]]
  BY PageConstants
<1> QED
  BY <1>1

LEMMA PaintExists ==
  ASSUME DomInv, KindsInv, NEW n \in Id
  PROVE  \E f : Painted(f, n)
<1>0. /\ Len(nodes) \in Nat /\ Id = 1..Len(nodes)
      /\ \A m \in Id : m # 1 => parent[m] \in 1..(m - 1)
  BY DEF DomInv, TypeOK, TreeShape, TreeLinked, Id
<1> DEFINE S == {k \in Nat : k <= Len(nodes) => \E f : Painted(f, k)}
<1>1. 0 \in S
  <2>1. Painted([m \in 1..0 |-> 0], 0)
    BY DEF Painted
  <2> QED
    BY <2>1
<1>2. ASSUME NEW k \in S PROVE k + 1 \in S
  <2>1. SUFFICES ASSUME k + 1 <= Len(nodes) PROVE \E g : Painted(g, k + 1)
    OBVIOUS
  <2>2. k \in Nat /\ k + 1 \in Nat /\ k <= Len(nodes) /\ k + 1 \in Id
    BY <1>0, <2>1
  <2>3. PICK f : Painted(f, k)
    BY <2>2
  <2> DEFINE Body(h, m) == IF nodes[m].type = "DOCUMENT" THEN 0
                           ELSE IF nodes[m].type = "ELEMENT" /\ Own(m) # 0 THEN Own(m)
                           ELSE h[parent[m]]
             g == [m \in 1..(k + 1) |-> IF m <= k THEN f[m] ELSE Body(f, m)]
  <2>4. \A m \in 1..k : f[m] = Body(f, m)
    BY <2>3 DEF Painted
  <2>5. ASSUME NEW m \in 1..(k + 1) PROVE g[m] = Body(g, m)
    <3>1. g[m] = Body(f, m)
      <4>1. CASE m <= k
        <5>1. m \in 1..k
          BY <2>2, <4>1
        <5> QED
          BY <2>4, <4>1, <5>1
      <4>2. CASE ~(m <= k)
        BY <4>2
      <4> QED
        BY <4>1, <4>2
    <3>2. CASE nodes[m].type = "DOCUMENT"
      BY <3>1, <3>2
    <3>3. CASE nodes[m].type # "DOCUMENT"
      <4>1. m # 1 /\ m \in Id
        BY <1>0, <2>1, <2>2, <3>3 DEF KindsInv
      <4>2. parent[m] \in 1..(m - 1)
        BY <1>0, <4>1
      <4>3. parent[m] \in 1..(k + 1) /\ parent[m] <= k
        BY <2>2, <4>2
      <4>4. g[parent[m]] = f[parent[m]]
        BY <4>3
      <4> QED
        BY <3>1, <4>4
    <3> QED
      BY <3>2, <3>3
  <2>6. Painted(g, k + 1)
    <3>1. g = [m \in 1..(k + 1) |-> g[m]]
      OBVIOUS
    <3> HIDE DEF g
    <3> QED
      BY <2>5, <3>1 DEF Painted
  <2> HIDE DEF g
  <2> QED
    BY <2>6
<1>3. S = Nat
  <2> HIDE DEF S
  <2>1. S \in SUBSET Nat
    BY DEF S
  <2> QED
    BY <1>1, <1>2, <2>1, Induct
<1>4. n \in Nat /\ n <= Len(nodes)
  BY <1>0
<1> QED
  BY <1>3, <1>4

LEMMA ColorTyped ==
  ASSUME DomInv, KindsInv, looks \in Looks, NEW n \in Id
  PROVE  List!Color(n) \in Nat
<1>0. /\ Len(nodes) \in Nat /\ Id = 1..Len(nodes) /\ n \in Nat /\ n \in 1..n
      /\ \A m \in Id : m # 1 => parent[m] \in 1..(m - 1)
  BY DEF DomInv, TypeOK, TreeShape, TreeLinked, Id
<1> DEFINE G(f) == [m \in 1..n |-> IF nodes[m].type = "DOCUMENT" THEN 0
                                   ELSE IF nodes[m].type = "ELEMENT" /\ looks[nodes[m].name].color # 0
                                        THEN looks[nodes[m].name].color
                                   ELSE f[parent[m]]]
           color == CHOOSE f : f = G(f)
<1>1. \E f : f = G(f)
  <2>1. PICK f : Painted(f, n)
    BY PaintExists
  <2>2. f = G(f)
    BY <2>1 DEF Painted, Own
  <2> HIDE DEF G
  <2> QED
    BY <2>2
<1>2. color = G(color)
  <2> HIDE DEF G
  <2> QED
    BY <1>1
<1>3. List!Color(n) = color[n]
  BY DEF List!Color
<1> HIDE DEF color
<1> DEFINE T == {m \in 1..n : color[m] \notin Nat}
<1>4. T = {}
  <2>1. SUFFICES ASSUME T # {} PROVE FALSE
    OBVIOUS
  <2>2. T \in SUBSET Nat
    BY <1>0
  <2>3. PICK m \in T : \A k \in T : m <= k
    <3> HIDE DEF T
    <3> QED
      BY <2>1, <2>2, Smallest
  <2>4. m \in Id /\ m \in 1..n /\ color[m] \notin Nat /\ m \in Nat
    BY <1>0
  <2>5. color[m] = IF nodes[m].type = "DOCUMENT" THEN 0
                   ELSE IF nodes[m].type = "ELEMENT" /\ looks[nodes[m].name].color # 0
                        THEN looks[nodes[m].name].color
                   ELSE color[parent[m]]
    BY <1>2, <2>4
  <2>6. nodes[m].type = "ELEMENT" => looks[nodes[m].name].color \in Nat
    BY <2>4, LooksTyped DEF KindsInv
  <2>7. nodes[m].type # "DOCUMENT" /\ color[m] = color[parent[m]]
    BY <2>4, <2>5, <2>6
  <2>8. m # 1
    BY <2>7 DEF KindsInv
  <2>9. parent[m] \in 1..n /\ parent[m] < m /\ parent[m] \in Nat
    BY <1>0, <2>4, <2>8
  <2>10. parent[m] \in T
    BY <2>4, <2>7, <2>9
  <2>11. m <= parent[m]
    BY <2>3, <2>10
  <2> QED
    BY <2>4, <2>9, <2>11
<1> QED
  BY <1>0, <1>3, <1>4

(***************************************************************************)
(* The step of a box.                                                      *)
(***************************************************************************)
LEMMA ElementDraws ==
  ASSUME NEW d, NEW C, Drawing(d, C), NEW b \in Nat, looks \in Looks, NEW name \in Name
  PROVE  Drawing(List!Element(d, b, name),
           C \o ((IF looks[name].background # 0
                    THEN <<List!Call("RECT", b, 0, looks[name].background, 0, 0)>> ELSE << >>)
             \o (IF name = Img THEN <<List!Call("IMAGE", b, 0, 0, looks[name].url, looks[name].label)>> ELSE << >>)
             \o (IF name = Anchor /\ looks[name].url # 0
                   THEN <<List!Call("LINK", b, 0, 0, looks[name].url, 0)>> ELSE << >>)))
<1>1. PICK look : look = looks[name]
  OBVIOUS
<1>2. /\ look.background \in Nat /\ look.label \in Nat /\ look.url \in Nat
  BY <1>1, LooksTyped
<1> DEFINE R == IF look.background # 0
                  THEN <<List!Call("RECT", b, 0, look.background, 0, 0)>> ELSE << >>
           I == List!Call("IMAGE", b, 0, 0, look.url, look.label)
           U == IF look.url # 0 THEN <<List!Call("LINK", b, 0, 0, look.url, 0)>> ELSE << >>
           t == List!Rect(d, b, look)
<1>3. List!Element(d, b, name) =
        IF name = Img THEN List!Image(t, b, look)
        ELSE IF name = Anchor THEN List!Link(t, b, look) ELSE t
  BY <1>1 DEF List!Element
<1>4. Drawing(t, C \o R)
  BY <1>2, RectDraws
<1>5. R \in Seq(Item) /\ <<I>> \in Seq(Item) /\ U \in Seq(Item) /\ I \in Item /\ C \in Seq(Item)
  <2>1. /\ List!Call("RECT", b, 0, look.background, 0, 0) \in Item /\ I \in Item
        /\ List!Call("LINK", b, 0, 0, look.url, 0) \in Item
    BY <1>2 DEF List!Call, Item, Kinds
  <2>2. C \in Seq(Item)
    BY DEF Drawing
  <2> HIDE DEF I
  <2> QED
    BY <2>1, <2>2
<1> HIDE DEF R, I, U, t
<1>6. C \o R \in Seq(Item)
  BY <1>5, ConcatProperties
<1>7. CASE name = Img
  <2>1. name # Anchor
    BY <1>7, PageConstants
  <2>2. Drawing(List!Image(t, b, look), Append(C \o R, I))
    BY <1>2, <1>4, ImageDraws DEF I
  <2>3. Append(C \o R, I) = C \o (R \o <<I>> \o << >>)
    <3>1. Append(C \o R, I) = (C \o R) \o <<I>>
      BY <1>5, <1>6, AppendIsConcat
    <3>2. (C \o R) \o <<I>> = C \o (R \o <<I>>)
      BY <1>5, ConcatAssociative
    <3>3. R \o <<I>> \in Seq(Item)
      BY <1>5, ConcatProperties
    <3>4. R \o <<I>> \o << >> = R \o <<I>>
      BY <3>3, ConcatEmptySeq
    <3> QED
      BY <3>1, <3>2, <3>4
  <2>4. Drawing(List!Element(d, b, name), C \o (R \o <<I>> \o << >>))
    BY <1>3, <1>7, <2>2, <2>3
  <2> QED
    BY <1>1, <1>7, <2>1, <2>4 DEF R, I
<1>8. CASE name # Img
  <2>1. R \o << >> = R
    BY <1>5, ConcatEmptySeq
  <2>2. CASE name = Anchor
    <3>1. Drawing(List!Link(t, b, look), (C \o R) \o U)
      BY <1>2, <1>4, LinkDraws DEF U
    <3>2. (C \o R) \o U = C \o (R \o << >> \o U)
      BY <1>5, <2>1, ConcatAssociative
    <3>3. Drawing(List!Element(d, b, name), C \o (R \o << >> \o U))
      BY <1>3, <1>8, <2>2, <3>1, <3>2
    <3> QED
      BY <1>1, <1>8, <2>2, <3>3 DEF R, U
  <2>3. CASE name # Anchor
    <3>1. R \o << >> \o << >> = R
      BY <1>5, <2>1, ConcatEmptySeq
    <3>2. Drawing(List!Element(d, b, name), C \o (R \o << >> \o << >>))
      BY <1>3, <1>4, <1>8, <2>3, <3>1
    <3> QED
      BY <1>1, <1>8, <2>3, <3>2 DEF R
  <2> QED
    BY <2>2, <2>3
<1> QED
  BY <1>7, <1>8

\* The inductive invariant of the display list.
DrawInv ==
  /\ drawn \in Seq(Nat) /\ Len(drawn) <= Len(boxes)
  /\ completed_stage \in {"NONE", "HTML", "CSS", "CASCADE"} => List!Undrawn
  /\ completed_stage \in {"CASCADE", "LAYOUT", "DISPLAY_LIST"} => looks \in Looks
  /\ Drawing(dl, List!AllCalls)
  /\ completed_stage = "DISPLAY_LIST" => page_truncated = AnyTruncated

ShownInv == KindsInv /\ LossInv /\ DrawInv

LEMMA EmptyDraws ==
  ASSUME List!Undrawn
  PROVE  Drawing(dl, List!AllCalls) /\ drawn \in Seq(Nat) /\ Len(drawn) = 0 /\ dl.truncated = FALSE
<1>1. List!AllCalls = << >>
  BY NoCalls DEF List!Undrawn
<1>2. dl = [nodes |-> << >>, string_len |-> 0, truncated |-> FALSE, warnings |-> {}]
  BY DEF List!Undrawn
<1>3. dl \in DlRec /\ dl.nodes = << >> /\ dl.string_len = 0
  BY <1>2 DEF DlRec
<1> QED
  BY <1>1, <1>2, <1>3, PageConstants DEF Drawing, List!Undrawn

\* dl_emit_box draws what its box calls for, or marks the list.
LEMMA BoxDraws ==
  ASSUME DomInv, FlowInv, KindsInv, DrawInv, looks \in Looks, Draw
  PROVE  drawn' \in Seq(Nat) /\ Len(drawn') <= Len(boxes') /\ Drawing(dl', List!AllCalls')
<1>1. /\ UNCHANGED <<nodes, parent, boxes, looks>> /\ List!EmitBox
  BY DEF Draw, vars, tree, flow
<1>2. PICK b : b = Len(drawn) + 1
  OBVIOUS
<1>3. PICK n : n = boxes[b].dom_node
  OBVIOUS
<1>4. /\ drawn \in Seq(Nat) /\ Len(drawn) \in Nat /\ b \in Nat /\ b <= Len(boxes)
      /\ Len(boxes) \in Nat /\ Drawing(dl, List!AllCalls)
  BY <1>1, <1>2 DEF DrawInv, List!EmitBox, FlowInv, FlowTyped
<1>5. n \in Id /\ nodes[n] \in Node
  <2>1. b \in Flow!BoxId
    BY <1>2, <1>4 DEF Flow!BoxId
  <2>2. n \in Id
    BY <1>3, <2>1 DEF FlowInv, BoxTree
  <2> QED
    BY <2>2 DEF DomInv, TypeOK, Id
<1>6. n = List!Of(b) /\ List!Of(b)' = n
  BY <1>1, <1>3 DEF List!Of
<1>7. List!Color(n) \in Nat
  BY <1>5, ColorTyped
<1>8. \A m : List!Color(m)' = List!Color(m)
  BY <1>1 DEF List!Color
<1>9. ASSUME NEW x \in Nat, drawn' = Append(drawn, x), Drawing(dl', List!AllCalls \o List!Calls(b)')
      PROVE  drawn' \in Seq(Nat) /\ Len(drawn') <= Len(boxes') /\ Drawing(dl', List!AllCalls')
  <2>1. List!AllCalls' = List!AllCalls \o List!Calls(b)'
    BY <1>1, <1>2, <1>4, <1>9, CallsGrow
  <2> QED
    BY <1>1, <1>2, <1>4, <1>9, <2>1
<1>10. CASE nodes[n].type = "TEXT"
  <2>1. PICK x \in 1..nodes[n].text_len :
          dl' = List!Text(dl, b, x, List!Color(n)) /\ drawn' = Append(drawn, x)
    BY <1>1, <1>2, <1>6, <1>10 DEF List!EmitBox
  <2>2. x \in Nat /\ drawn'[b] = x
    BY <1>2, <1>4, <2>1
  <2>3. List!Calls(b)' = <<List!Call("TEXT", b, x, List!Color(n), 0, 0)>>
    BY <1>1, <1>6, <1>8, <1>10, <2>2 DEF List!Calls, List!Call
  <2>4. PICK item : item = List!Call("TEXT", b, x, List!Color(n), 0, 0)
    OBVIOUS
  <2>5. Drawing(dl', Append(List!AllCalls, item))
    BY <1>4, <1>7, <2>1, <2>2, <2>4, TextDraws
  <2>6. Append(List!AllCalls, item) = List!AllCalls \o <<item>>
    <3>1. item \in Item
      BY <1>4, <1>7, <2>2, <2>4 DEF List!Call, Item, Kinds
    <3>2. List!AllCalls \in Seq(Item)
      BY <1>4 DEF Drawing
    <3> QED
      BY <3>1, <3>2, AppendIsConcat
  <2> QED
    BY <1>9, <2>1, <2>2, <2>3, <2>4, <2>5, <2>6
<1>11. CASE nodes[n].type = "ELEMENT"
  <2>1. PICK name : name = nodes[n].name
    OBVIOUS
  <2>2. name \in Name
    BY <1>5, <1>11, <2>1 DEF KindsInv
  <2>3. dl' = List!Element(dl, b, name) /\ drawn' = Append(drawn, 0)
    BY <1>1, <1>2, <1>6, <1>11, <2>1 DEF List!EmitBox
  <2>4. List!Calls(b)' =
          (IF looks[name].background # 0
             THEN <<List!Call("RECT", b, 0, looks[name].background, 0, 0)>> ELSE << >>)
            \o (IF name = Img THEN <<List!Call("IMAGE", b, 0, 0, looks[name].url, looks[name].label)>> ELSE << >>)
            \o (IF name = Anchor /\ looks[name].url # 0
                  THEN <<List!Call("LINK", b, 0, 0, looks[name].url, 0)>> ELSE << >>)
    BY <1>1, <1>6, <1>11, <2>1 DEF List!Calls, List!Call
  <2>5. Drawing(dl', List!AllCalls \o List!Calls(b)')
    BY <1>4, <2>2, <2>3, <2>4, ElementDraws
  <2> QED
    BY <1>9, <2>3, <2>5
<1>12. CASE nodes[n].type = "DOCUMENT"
  <2>1. dl' = dl /\ drawn' = Append(drawn, 0)
    BY <1>1, <1>2, <1>6, <1>12 DEF List!EmitBox
  <2>2. List!Calls(b)' = << >>
    BY <1>1, <1>6, <1>12 DEF List!Calls
  <2>3. List!AllCalls \o List!Calls(b)' = List!AllCalls
    <3>1. List!AllCalls \in Seq(Item)
      BY <1>4 DEF Drawing
    <3> QED
      BY <2>2, <3>1, ConcatEmptySeq
  <2> QED
    BY <1>4, <1>9, <2>1, <2>3
<1> QED
  BY <1>5, <1>10, <1>11, <1>12 DEF Node

LEMMA InitiallyShown == PageInit => ShownInv
<1> SUFFICES ASSUME PageInit PROVE ShownInv
  OBVIOUS
<1>1. Init /\ List!Undrawn /\ completed_stage = "NONE" /\ boxes = << >>
  BY DEF PageInit, Flow!Blank
<1> QED
  BY <1>1, KindsStart, InitiallyTells, EmptyDraws DEF ShownInv, DrawInv

\* A stage that leaves the list and what it was drawn from alone.
LEMMA ListStill ==
  ASSUME DrawInv, UNCHANGED <<nodes, parent, boxes, looks, drawn, dl>>
  PROVE  drawn' \in Seq(Nat) /\ Len(drawn') <= Len(boxes') /\ Drawing(dl', List!AllCalls')
<1>1. List!AllCalls' = List!AllCalls
  BY CallsStill
<1> QED
  BY <1>1 DEF DrawInv

EmptyList == List!Undrawn => Drawing(dl, List!AllCalls) /\ drawn \in Seq(Nat) /\ Len(drawn) = 0

LEMMA EmptyListDraws == EmptyList
BY EmptyDraws DEF EmptyList

LEMMA UndrawnStill ==
  ASSUME List!Undrawn, UNCHANGED <<drawn, dl>>, Len(boxes') \in Nat
  PROVE  /\ List!Undrawn' /\ drawn' \in Seq(Nat) /\ Len(drawn') <= Len(boxes')
         /\ Drawing(dl', List!AllCalls')
<1>1. List!Undrawn'
  BY DEF List!Undrawn
<1>2. EmptyList'
  BY EmptyListDraws, PTL
<1>3. Drawing(dl', List!AllCalls') /\ drawn' \in Seq(Nat) /\ Len(drawn') = 0
  BY <1>1, <1>2 DEF EmptyList, Drawing
<1> QED
  BY <1>1, <1>3

LEMMA ShownPreserved == PageInv /\ PageInv' /\ ShownInv /\ [PageNext]_pageVars => ShownInv'
<1> SUFFICES ASSUME PageInv, PageInv', ShownInv, [PageNext]_pageVars PROVE ShownInv'
  OBVIOUS
<1>1. [Next]_vars
  BY DEF PageNext, Render, Returned, ParseHtml, ParseCss, Cascade, BeginLayout, LayOut, Draw,
         RefreshMetadata, Next, pageVars
<1>2. KindsInv' /\ LossInv'
  BY <1>1, KindsPreserved, TellingPreserved, NextIsToken DEF PageInv, ShownInv
<1>3. Len(boxes') \in Nat
  <2>1. CASE boxes' = << >>
    BY <2>1
  <2>2. CASE boxes' # << >>
    BY <2>2 DEF PageInv, FlowInv, FlowTyped
  <2> QED
    BY <2>1, <2>2
<1>4. DrawInv'
  <2>1. CASE ParseHtml \/ ParseCss \/ Cascade \/ BeginLayout
    <3>1. /\ completed_stage \in {"NONE", "HTML", "CSS", "CASCADE"} /\ UNCHANGED <<drawn, dl>>
          /\ completed_stage' \in {"NONE", "HTML", "CSS", "CASCADE"}
          /\ completed_stage' = "CASCADE" => looks' \in Looks
      BY <2>1 DEF ParseHtml, ParseCss, Cascade, BeginLayout, list, ShownInv, DrawInv
    <3>2. List!Undrawn
      BY <3>1 DEF ShownInv, DrawInv
    <3> QED
      BY <1>3, <3>1, <3>2, UndrawnStill DEF DrawInv
  <2>2. CASE LayOut
    <3>1. /\ completed_stage = "CASCADE" /\ UNCHANGED <<looks, drawn, dl>>
          /\ completed_stage' \in {"CASCADE", "LAYOUT"}
      BY <2>2 DEF LayOut, list
    <3>2. List!Undrawn /\ looks \in Looks
      BY <3>1 DEF ShownInv, DrawInv
    <3> QED
      BY <1>3, <3>1, <3>2, UndrawnStill DEF DrawInv
  <2>3. CASE Draw
    <3>1. /\ completed_stage = "LAYOUT" /\ completed_stage' = "LAYOUT" /\ looks' = looks
          /\ boxes # << >> /\ looks \in Looks
      BY <2>3 DEF Draw, PageInv, ShownInv, DrawInv
    <3>2. drawn' \in Seq(Nat) /\ Len(drawn') <= Len(boxes') /\ Drawing(dl', List!AllCalls')
      BY <2>3, <3>1, BoxDraws DEF PageInv, ShownInv
    <3> QED
      BY <3>1, <3>2 DEF DrawInv
  <2>4. CASE RefreshMetadata \/ UNCHANGED pageVars
    <3>1. /\ UNCHANGED <<nodes, parent, boxes, looks, drawn, dl>>
          /\ UNCHANGED <<truncated, css_truncated, layout_truncated>>
      BY <2>4 DEF RefreshMetadata, pageVars, vars, tree, flow, list
    <3>2. drawn' \in Seq(Nat) /\ Len(drawn') <= Len(boxes') /\ Drawing(dl', List!AllCalls')
      BY <3>1, ListStill DEF ShownInv
    <3>3. AnyTruncated' = AnyTruncated
      BY <3>1 DEF AnyTruncated
    <3>4. List!Undrawn => List!Undrawn'
      BY <3>1 DEF List!Undrawn
    <3>5. CASE RefreshMetadata
      <4>1. /\ completed_stage = "LAYOUT" /\ completed_stage' = "DISPLAY_LIST"
            /\ page_truncated' = AnyTruncated
        BY <3>5 DEF RefreshMetadata
      <4> QED
        BY <3>1, <3>2, <3>3, <4>1 DEF ShownInv, DrawInv
    <3>6. CASE UNCHANGED pageVars
      <4>1. completed_stage' = completed_stage /\ page_truncated' = page_truncated
        BY <3>6 DEF pageVars, metadata
      <4> QED
        BY <3>1, <3>2, <3>3, <3>4, <4>1 DEF ShownInv, DrawInv
    <3> QED
      BY <2>4, <3>5, <3>6
  <2> QED
    BY <2>1, <2>2, <2>3, <2>4 DEF PageNext, Render, Returned
<1> QED
  BY <1>2, <1>4 DEF ShownInv

LEMMA ShownAlways == PageSpec => []ShownInv
BY InitiallyShown, ShownPreserved, PageAlways, PTL DEF PageSpec

(***************************************************************************)
(* The theorems about what a page shows.                                   *)
(***************************************************************************)
\* The display list is what the boxes call for, in order, cut where the node
\* pool was full; no two strings share a byte of the arena, and a list that
\* capy_displaylist_build does not mark is whole, for any pools and styles.
THEOREM ListSafe == PageSpec => []ListIsDrawing
<1>1. ShownInv => ListIsDrawing
  BY DrawingSays DEF ShownInv, DrawInv
<1> QED
  BY <1>1, ShownAlways, PTL

\* A page that capy_page_render does not mark truncated lost nothing at any
\* stage: every node its tokens called for is in the tree, every one to be
\* rendered has a box, and all the boxes call for is drawn.
THEOREM PageShown == PageSpec => []WholePageShown
<1>1. PageInv /\ ShownInv => WholePageShown
  <2> SUFFICES ASSUME PageInv, ShownInv, completed_stage = "DISPLAY_LIST", ~page_truncated
               PROVE  /\ Len(nodes) = 1 + offered.nodes
                      /\ {boxes[i].dom_node : i \in 1..Len(boxes)} = Flow!Rendered
                      /\ Len(dl.nodes) = Len(List!AllCalls)
    BY DEF WholePageShown
  <2>1. ~truncated /\ ~layout_truncated /\ ~dl.truncated
    BY DEF ShownInv, DrawInv, AnyTruncated
  <2>2. Len(nodes) = 1 + offered.nodes
    BY <2>1 DEF ShownInv, LossInv, WarningsTellLosses, NothingLostSilently
  <2>3. boxes # << >> /\ frames = << >> /\ DomInv /\ FlowInv
    BY DEF PageInv
  <2>4. {boxes[i].dom_node : i \in 1..Len(boxes)} = Flow!Rendered
    BY <2>1, <2>3, BoxesCover DEF Flow!BoxesFollowDom, Flow!BoxId, Flow!LaidOut
  <2>5. ListIsDrawing
    BY DrawingSays DEF ShownInv, DrawInv
  <2>6. Len(dl.nodes) = Len(List!AllCalls)
    BY <2>1, <2>5 DEF ListIsDrawing, List!ListIsDrawing
  <2> QED
    BY <2>2, <2>4, <2>6
<1> QED
  BY <1>1, PageAlways, ShownAlways, PTL
==============================================================================
