-------------------------- MODULE ReadBack_proofs --------------------------
(***************************************************************************)
(* What is written is read back, for texts of any length: the fields of a  *)
(* form by a server, and the characters of an href by the page.            *)
(***************************************************************************)
EXTENDS Requests_proofs

(***************************************************************************)
(* The fields of an encoded text are read back.                            *)
(***************************************************************************)
Lines == Words \ {<< >>}
PartStep(ps, c) == IF c = "&" THEN Append(ps, << >>) ELSE [ps EXCEPT ![Len(ps)] = Append(@, c)]
PartsOf(w) == FoldLeft(LAMBDA ps, c : IF c = "&" THEN Append(ps, << >>)
                                      ELSE [ps EXCEPT ![Len(ps)] = Append(@, c)],
                       <<<< >>>>, w)
Parting(r, w) ==
  /\ r \in [0..Len(w) -> Lines] /\ r[0] = <<<< >>>>
  /\ \A k \in 1..Len(w) : r[k] = PartStep(r[k - 1], w[k])

LEMMA LastPart ==
  ASSUME NEW qs \in Words, NEW p \in Seq(Unit), NEW q \in Seq(Unit), NEW ps, ps = Append(qs, p)
  PROVE  /\ ps \in Lines /\ Len(ps) = Len(qs) + 1 /\ ps[Len(ps)] = p
         /\ [ps EXCEPT ![Len(ps)] = q] = Append(qs, q)
<1>1. PICK n \in Nat : n = Len(qs)
  OBVIOUS
<1>2. ps \in Words /\ Len(ps) = n + 1 /\ (\A i \in 1..n : ps[i] = qs[i]) /\ ps[n + 1] = p
  BY <1>1, AppendProperties DEF Words
<1>3. ps \in Lines
  <2>1. Len(ps) # 0
    BY <1>1, <1>2
  <2> QED
    BY <1>2, <2>1 DEF Lines
<1>4. PICK v : v = Append(qs, q)
  OBVIOUS
<1>5. v \in Words /\ Len(v) = n + 1 /\ (\A i \in 1..n : v[i] = qs[i]) /\ v[n + 1] = q
  BY <1>1, <1>4, AppendProperties DEF Words
<1>6. DOMAIN ps = 1..(n + 1) /\ DOMAIN v = 1..(n + 1)
  BY <1>2, <1>5 DEF Words
<1>7. PICK x : x = [ps EXCEPT ![n + 1] = q]
  OBVIOUS
<1>8. x = [i \in 1..(n + 1) |-> IF i = n + 1 THEN q ELSE ps[i]]
  BY <1>6, <1>7
<1>9. v = [i \in 1..(n + 1) |-> v[i]]
  BY <1>5, <1>6 DEF Words
<1>10. \A i \in 1..(n + 1) : v[i] = IF i = n + 1 THEN q ELSE ps[i]
  <2>1. ASSUME NEW i \in 1..(n + 1), i # n + 1 PROVE v[i] = ps[i]
    <3>1. i \in 1..n
      BY <1>1, <2>1
    <3> QED
      BY <1>2, <1>5, <3>1
  <2> QED
    BY <1>5, <2>1
<1>11. x = v
  BY <1>8, <1>9, <1>10
<1> QED
  BY <1>1, <1>2, <1>3, <1>4, <1>7, <1>11

LEMMA LinesAre ==
  ASSUME NEW ps \in Lines
  PROVE  \E qs \in Words, p \in Seq(Unit) : ps = Append(qs, p)
<1>1. Front(ps) \in Words /\ Last(ps) \in Seq(Unit) /\ Append(Front(ps), Last(ps)) = ps
  BY FrontLast DEF Lines, Words
<1> QED
  BY <1>1

LEMMA PartStepIs ==
  ASSUME NEW qs \in Words, NEW p \in Seq(Unit), NEW c \in Unit
  PROVE  /\ PartStep(Append(qs, p), c) \in Lines
         /\ c = "&" => PartStep(Append(qs, p), c) = Append(Append(qs, p), << >>)
         /\ c # "&" => PartStep(Append(qs, p), c) = Append(qs, Append(p, c))
<1>1. PICK ps : ps = Append(qs, p)
  OBVIOUS
<1>2. PICK q \in Seq(Unit) : q = Append(p, c)
  BY AppendProperties
<1>n. << >> \in Seq(Unit)
  OBVIOUS
<1>3. /\ ps \in Lines /\ ps[Len(ps)] = p
      /\ [ps EXCEPT ![Len(ps)] = q] = Append(qs, q)
  BY <1>1, LastPart, ZenonT(60)
<1>4. ps \in Words
  BY <1>3 DEF Lines
<1>5. Append(ps, << >>) \in Lines /\ Append(qs, q) \in Lines
  BY <1>4, <1>n, LastPart
<1>6. CASE c = "&"
  BY <1>1, <1>5, <1>6 DEF PartStep
<1>7. CASE c # "&"
  <2>1. [ps EXCEPT ![Len(ps)] = Append(@, c)] = [ps EXCEPT ![Len(ps)] = q]
    BY <1>2, <1>3
  <2>2. PartStep(ps, c) = Append(qs, q)
    BY <1>3, <1>7, <2>1 DEF PartStep
  <2> QED
    BY <1>1, <1>2, <1>5, <1>7, <2>2
<1> QED
  BY <1>6, <1>7

LEMMA PartsFold ==
  ASSUME NEW w \in Seq(Unit)
  PROVE  \E r : Parting(r, w) /\ PartsOf(w) = r[Len(w)]
<1>1. PICK n \in Nat : n = Len(w)
  OBVIOUS
<1>2. DOMAIN w = 1..n
  BY <1>1
<1>p. ASSUME NEW k \in 1..n, NEW ps \in Lines PROVE PartStep(ps, w[k]) \in Lines
  <2>1. w[k] \in Unit
    BY <1>1
  <2> QED
    BY <2>1, LinesAre, PartStepIs
<1> DEFINE G(f) == [s \in SUBSET DOMAIN w |->
                      IF s = {} THEN <<<< >>>> ELSE PartStep(f[s \ {Max(s)}], w[Max(s)])]
           g == CHOOSE f : f = G(f)
           T == [k \in 1..n |-> [ps \in Lines |-> PartStep(ps, w[k])]]
<1>3. PartsOf(w) = g[1..n]
  BY <1>2 DEF PartsOf, FoldLeft, MapThenFoldSet, PartStep
<1>4. T \in [1..n -> [Lines -> Lines]]
  BY <1>p
<1>c. PICK X : X = Lines
  OBVIOUS
<1>d. PICK first \in X : first = <<<< >>>>
  <2>1. <<<< >>>> \in Words /\ Len(<<<< >>>>) = 1
    BY DEF Words
  <2>2. <<<< >>>> \in Lines
    BY <2>1 DEF Lines
  <2> QED
    BY <1>c, <2>2
<1>b. X = Lines /\ first = <<<< >>>>
  BY <1>c, <1>d
<1>a. \A s \in SUBSET (1..n) : s # {} => Max(s) \in 1..n
  <2>1. ASSUME NEW s \in SUBSET (1..n), s # {} PROVE Max(s) \in 1..n
    <3>1. s \in SUBSET Nat /\ \A i \in s : i <= n
      BY <2>1
    <3> QED
      BY <2>1, <3>1, MaxIs
  <2> QED
    BY <2>1
<1>5. g = G(g)
  <2>1. PICK t \in [1..n -> [X -> X]] : t = T
    BY <1>b, <1>4
  <2>a. PICK f : FoldsAll(f, n, X, first, t)
    <3> HIDE DEF T, G, g
    <3>1. n \in Nat /\ first \in X /\ t \in [1..n -> [X -> X]]
      BY <1>1
    <3> QED
      BY <3>1, Folded
  <2>2. /\ f \in [SUBSET (1..n) -> X]
        /\ \A s \in SUBSET (1..n) : f[s] = IF s = {} THEN first ELSE t[Max(s)][f[s \ {Max(s)}]]
    BY <2>a DEF FoldsAll
  <2>3. \A s \in SUBSET (1..n) : f[s] = IF s = {} THEN <<<< >>>> ELSE PartStep(f[s \ {Max(s)}], w[Max(s)])
    <3>1. ASSUME NEW s \in SUBSET (1..n), s # {} PROVE f[s] = PartStep(f[s \ {Max(s)}], w[Max(s)])
      <4>1. f[s \ {Max(s)}] \in Lines
        BY <1>b, <2>2
      <4> QED
        BY <1>a, <1>b, <2>1, <2>2, <3>1, <4>1
    <3>2. f[{}] = <<<< >>>>
      BY <1>b, <2>2
    <3> QED
      BY <3>1, <3>2
  <2>4. f = G(f)
    BY <1>2, <2>2, <2>3
  <2> HIDE DEF G
  <2> QED
    BY <2>4
<1>6. Folding(g, n, X, first, T)
  <2> HIDE DEF g
  <2>1. g[{}] = <<<< >>>>
    BY <1>5
  <2>2. ASSUME NEW s \in SUBSET (1..n), s # {}, g[s \ {Max(s)}] \in Lines
        PROVE  g[s] = T[Max(s)][g[s \ {Max(s)}]]
    <3>1. g[s] = PartStep(g[s \ {Max(s)}], w[Max(s)])
      BY <1>2, <1>5, <2>2
    <3> QED
      BY <1>a, <2>2, <3>1
  <2> HIDE DEF T
  <2> QED
    BY <1>b, <2>1, <2>2 DEF Folding
<1>7. PICK r : r \in [0..n -> X] /\ r[0] = first /\ \A k \in 1..n : r[k] = T[k][r[k - 1]]
  <2> HIDE DEF T
  <2>1. T \in [1..n -> [X -> X]]
    BY <1>b, <1>4
  <2> QED
    BY <2>1, Iterates
<1>8. g[1..n] = r[n]
  <2> HIDE DEF T, g
  <2>1. Stepping(r, n, X, first, T)
    BY <1>7 DEF Stepping
  <2>2. T \in [1..n -> [X -> X]]
    BY <1>b, <1>4
  <2> QED
    BY <1>6, <2>1, <2>2, FoldIs
<1>9. Parting(r, w)
  <2>1. ASSUME NEW k \in 1..n PROVE r[k] = PartStep(r[k - 1], w[k])
    <3>1. k - 1 \in 0..n
      BY <2>1
    <3>2. r[k - 1] \in Lines
      BY <1>b, <1>7, <3>1
    <3> QED
      BY <1>7, <2>1, <3>2
  <2> HIDE DEF T
  <2> QED
    BY <1>1, <1>b, <1>7, <2>1 DEF Parting
<1> QED
  BY <1>1, <1>3, <1>8, <1>9

LEMMA TakenMore ==
  ASSUME NEW S, NEW p \in Seq(S), NEW j \in Nat, j + 1 <= Len(p)
  PROVE  /\ SubSeq(p, 1, j) \in Seq(S) /\ p[j + 1] \in S
         /\ SubSeq(p, 1, j + 1) = Append(SubSeq(p, 1, j), p[j + 1])
<1>1. PICK n \in Nat : n = Len(p)
  OBVIOUS
<1>2. p[j + 1] \in S
  BY <1>1
<1>3. 1 \in 1..(n + 1) /\ j \in (1 - 1)..n /\ j + 1 \in (1 - 1)..n
  BY <1>1
<1>4. PICK u \in Seq(S) : u = SubSeq(p, 1, j) /\ Len(u) = j /\ \A i \in 1..j : u[i] = p[i]
  <2>1. SubSeq(p, 1, j) \in Seq(S) /\ Len(SubSeq(p, 1, j)) = j - 1 + 1
        /\ \A i \in 1..(j - 1 + 1) : SubSeq(p, 1, j)[i] = p[1 + i - 1]
    BY <1>1, <1>3, PartIs
  <2>2. j - 1 + 1 = j /\ \A i \in 1..j : 1 + i - 1 = i
    OBVIOUS
  <2> QED
    BY <2>1, <2>2
<1>5. PICK v \in Seq(S) : v = SubSeq(p, 1, j + 1) /\ Len(v) = j + 1 /\ \A i \in 1..(j + 1) : v[i] = p[i]
  <2>1. SubSeq(p, 1, j + 1) \in Seq(S) /\ Len(SubSeq(p, 1, j + 1)) = (j + 1) - 1 + 1
        /\ \A i \in 1..((j + 1) - 1 + 1) : SubSeq(p, 1, j + 1)[i] = p[1 + i - 1]
    BY <1>1, <1>3, PartIs
  <2>2. (j + 1) - 1 + 1 = j + 1 /\ \A i \in 1..(j + 1) : 1 + i - 1 = i
    OBVIOUS
  <2> QED
    BY <2>1, <2>2
<1>6. PICK c \in S : c = p[j + 1]
  BY <1>2
<1>a. PICK x \in Seq(S) : x = Append(u, c)
  BY AppendProperties
<1>7. Len(x) = j + 1 /\ (\A i \in 1..j : x[i] = u[i]) /\ x[j + 1] = c
  <2>1. Len(x) = Len(u) + 1 /\ (\A i \in 1..Len(u) : x[i] = u[i]) /\ x[Len(u) + 1] = c
    BY <1>a, AppendProperties
  <2> QED
    BY <1>4, <2>1
<1>8. \A i \in 1..(j + 1) : x[i] = v[i]
  <2>1. ASSUME NEW i \in 1..(j + 1) PROVE x[i] = v[i]
    <3>1. i \in 1..j \/ i = j + 1
      OBVIOUS
    <3> QED
      BY <1>4, <1>5, <1>6, <1>7, <3>1
  <2> QED
    BY <2>1
<1>9. x = v
  BY <1>5, <1>7, <1>8, SeqEqual
<1> QED
  BY <1>2, <1>4, <1>5, <1>6, <1>a, <1>9

\* The units that come between two ampersands are a part.
RunsAt(p, w, a) ==
  Clear(p, {"&"}) /\ a + Len(p) <= Len(w) /\ \A i \in 1..Len(p) : w[a + i] = p[i]
OpenAt(r, a, qs) == r[a] = Append(qs, << >>)

LEMMA PartsRun ==
  ASSUME NEW w \in Seq(Unit), NEW r, Parting(r, w), NEW a \in Nat, NEW qs \in Words,
         OpenAt(r, a, qs), NEW p \in Seq(Unit), RunsAt(p, w, a)
  PROVE  r[a + Len(p)] = Append(qs, p)
<1> USE DEF OpenAt, RunsAt
<1>1. PICK m \in Nat : m = Len(p)
  OBVIOUS
<1> DEFINE Q == {j \in Nat : j <= m => r[a + j] = Append(qs, SubSeq(p, 1, j))}
<1>2. 0 \in Q
  <2>1. SubSeq(p, 1, 0) = << >> /\ a + 0 = a
    BY EmptySeq
  <2> QED
    BY <2>1
<1>3. ASSUME NEW j \in Q PROVE j + 1 \in Q
  <2>1. SUFFICES ASSUME j + 1 <= m PROVE r[a + (j + 1)] = Append(qs, SubSeq(p, 1, j + 1))
    OBVIOUS
  <2>2. j \in Nat /\ j + 1 \in 1..m /\ r[a + j] = Append(qs, SubSeq(p, 1, j))
    BY <2>1
  <2>a. j + 1 <= Len(p)
    BY <1>1, <2>1
  <2>b. /\ SubSeq(p, 1, j) \in Seq(Unit) /\ p[j + 1] \in Unit
        /\ SubSeq(p, 1, j + 1) = Append(SubSeq(p, 1, j), p[j + 1])
    BY <2>2, <2>a, TakenMore
  <2>3. PICK u \in Seq(Unit) : u = SubSeq(p, 1, j)
    BY <2>b
  <2>4. PICK c \in Unit : c = p[j + 1]
    BY <2>b
  <2>5. SubSeq(p, 1, j + 1) = Append(u, c)
    BY <2>3, <2>4, <2>b
  <2>6. a + (j + 1) \in 1..Len(w) /\ (a + (j + 1)) - 1 = a + j
    BY <1>1, <2>2
  <2>7. r[a + (j + 1)] = PartStep(r[a + j], w[a + (j + 1)])
    BY <2>6 DEF Parting
  <2>8. w[a + (j + 1)] = c /\ c # "&"
    BY <1>1, <2>2, <2>4 DEF Clear
  <2>9. PartStep(Append(qs, u), c) = Append(qs, Append(u, c))
    BY <2>8, PartStepIs
  <2> QED
    BY <2>2, <2>3, <2>5, <2>7, <2>8, <2>9
<1>4. Q = Nat
  <2>1. Q \in SUBSET Nat
    OBVIOUS
  <2> HIDE DEF Q
  <2> QED
    BY <1>2, <1>3, <2>1, Induct
<1>5. r[a + m] = Append(qs, SubSeq(p, 1, m))
  <2>1. m \in Q
    <3> HIDE DEF Q
    <3> QED
      BY <1>4
  <2> QED
    BY <2>1
<1>6. SubSeq(p, 1, m) = p
  BY <1>1
<1> QED
  BY <1>1, <1>5, <1>6

LEMMA PartsOne ==
  ASSUME NEW p \in Seq(Unit), Clear(p, {"&"})
  PROVE  PartsOf(p) = <<p>>
<1>1. PICK r : Parting(r, p) /\ PartsOf(p) = r[Len(p)]
  BY PartsFold
<1>2. PICK qs \in Words : qs = << >>
  <2>1. PICK Y : Y = Seq(Unit)
    OBVIOUS
  <2>2. << >> \in Seq(Y)
    OBVIOUS
  <2> QED
    BY <2>1, <2>2 DEF Words
<1>3. r[0] = Append(qs, << >>)
  <2>1. Append(qs, << >>) = <<<< >>>>
    BY <1>2
  <2> QED
    BY <1>1, <2>1 DEF Parting
<1>4. 0 + Len(p) = Len(p) /\ \A i \in 1..Len(p) : 0 + i = i
  OBVIOUS
<1>5. r[0 + Len(p)] = Append(qs, p)
  <2>1. OpenAt(r, 0, qs)
    BY <1>3 DEF OpenAt
  <2>2. RunsAt(p, p, 0)
    BY <1>4 DEF RunsAt
  <2> QED
    BY <1>1, <2>1, <2>2, PartsRun
<1>6. Append(qs, p) = <<p>>
  BY <1>2
<1> QED
  BY <1>1, <1>4, <1>5, <1>6

Parted(w, u, p) == w = Append(u, "&") \o p

LEMMA PartsMore ==
  ASSUME NEW u \in Seq(Unit), NEW p \in Seq(Unit), Clear(p, {"&"}), NEW w, Parted(w, u, p)
  PROVE  w \in Seq(Unit) /\ PartsOf(u) \in Lines /\ PartsOf(w) = Append(PartsOf(u), p)
<1>1. PICK m \in Nat, n \in Nat : m = Len(u) /\ n = Len(p)
  OBVIOUS
<1>2. PICK amp \in Unit : amp = "&"
  BY DEF Unit, Punctuation
<1>3. PICK v \in Seq(Unit) : v = Append(u, amp) /\ Len(v) = m + 1 /\ (\A i \in 1..m : v[i] = u[i]) /\ v[m + 1] = amp
  BY <1>1, AppendProperties
<1>4. PICK x \in Seq(Unit) : x = v \o p
  BY ConcatProperties
<1>5. x = w
  BY <1>2, <1>3, <1>4 DEF Parted
<1>6. Len(x) = m + 1 + n /\ (\A i \in 1..(m + 1) : x[i] = v[i]) /\ \A i \in 1..n : x[m + 1 + i] = p[i]
  BY <1>1, <1>3, <1>4
<1>7. PICK r : Parting(r, x) /\ PartsOf(x) = r[m + 1 + n]
  BY <1>6, PartsFold
<1>8. PICK q : Parting(q, u) /\ PartsOf(u) = q[m]
  BY <1>1, PartsFold
<1>9. q \in [0..m -> Lines] /\ q[0] = <<<< >>>> /\ \A k \in 1..m : q[k] = PartStep(q[k - 1], u[k])
  BY <1>1, <1>8 DEF Parting
<1>10. r[0] = <<<< >>>> /\ \A k \in 1..(m + 1 + n) : r[k] = PartStep(r[k - 1], x[k])
  BY <1>6, <1>7 DEF Parting
<1> DEFINE Q == {k \in Nat : k <= m => r[k] = q[k]}
<1>11. Q = Nat
  <2>1. 0 \in Q
    BY <1>9, <1>10
  <2>2. ASSUME NEW k \in Q PROVE k + 1 \in Q
    <3>1. SUFFICES ASSUME k + 1 <= m PROVE r[k + 1] = q[k + 1]
      OBVIOUS
    <3>2. k + 1 \in 1..m /\ k + 1 \in 1..(m + 1) /\ k + 1 \in 1..(m + 1 + n) /\ r[k] = q[k] /\ (k + 1) - 1 = k
      BY <3>1
    <3>3. x[k + 1] = u[k + 1]
      BY <1>3, <1>6, <3>2
    <3>4. r[k + 1] = PartStep(r[k], x[k + 1]) /\ q[k + 1] = PartStep(q[k], u[k + 1])
      BY <1>9, <1>10, <3>2
    <3> QED
      BY <3>2, <3>3, <3>4
  <2>3. Q \in SUBSET Nat
    OBVIOUS
  <2> HIDE DEF Q
  <2> QED
    BY <2>1, <2>2, <2>3, Induct
<1>12. r[m] = q[m] /\ q[m] \in Lines
  <2>1. m \in Q
    <3> HIDE DEF Q
    <3> QED
      BY <1>11
  <2> QED
    BY <1>9, <2>1
<1>13. PICK qs \in Words : qs = q[m]
  BY <1>12 DEF Lines
<1>14. r[m + 1] = Append(qs, << >>)
  <2>1. PICK ts \in Words, e \in Seq(Unit) : qs = Append(ts, e)
    BY <1>12, <1>13, LinesAre
  <2>a. m + 1 \in 1..(m + 1 + n) /\ m + 1 \in 1..(m + 1) /\ (m + 1) - 1 = m
    OBVIOUS
  <2>b. x[m + 1] = v[m + 1]
    BY <1>6, <2>a
  <2>2. m + 1 \in 1..(m + 1 + n) /\ (m + 1) - 1 = m /\ x[m + 1] = amp
    BY <1>3, <2>a, <2>b
  <2>3. r[m + 1] = PartStep(qs, amp)
    BY <1>10, <1>12, <1>13, <2>2
  <2> QED
    BY <1>2, <2>1, <2>3, PartStepIs
<1>15. r[(m + 1) + n] = Append(qs, p)
  <2>1. m + 1 \in Nat /\ (m + 1) + n <= Len(x) /\ \A i \in 1..n : x[(m + 1) + i] = p[i]
    BY <1>6
  <2>2. PICK a \in Nat : a = m + 1
    OBVIOUS
  <2>3. OpenAt(r, a, qs) /\ RunsAt(p, x, a)
    BY <1>1, <1>14, <2>1, <2>2 DEF OpenAt, RunsAt
  <2>a. Parting(r, x)
    BY <1>7
  <2>4. r[a + Len(p)] = Append(qs, p)
    BY <2>3, <2>a, PartsRun
  <2> QED
    BY <1>1, <2>2, <2>4
<1> QED
  BY <1>5, <1>7, <1>8, <1>12, <1>13, <1>15

\* A text as the server hears it: the query of a URL was normalized on the way.
Heard(c, normal) == IF normal THEN Normal(c) ELSE c
Sent(w, normal) == IF normal THEN Normalized(w) ELSE w
CodeUnit == Unit \ {"&", "=", "#"}

LEMMA EncodeIs ==
  ASSUME NEW c \in FieldByte, NEW n \in BOOLEAN
  PROVE  Encode(c) \in CodeUnit /\ Heard(Encode(c), n) \in CodeUnit /\ Decode(Heard(Encode(c), n)) = c
<1>1. CASE c \in {" ", "&", "=", "+", "~", "/", NonAscii}
  BY <1>1, ZenonT(60) DEF Encode, Heard, Normal, Decode, CodeUnit, Unit, Alpha, Digit, Triplet, BadTriplet, NonAscii, Punctuation, Refused
<1>2. CASE c \in Alpha \cup Digit \cup {"."}
  BY <1>2, ZenonT(60) DEF Encode, Heard, Normal, Decode, CodeUnit, Unit, Alpha, Digit, Triplet, BadTriplet, NonAscii, Punctuation, Refused
<1> QED
  BY <1>1, <1>2 DEF FieldByte

LEMMA HeardIs ==
  ASSUME NEW n \in BOOLEAN
  PROVE  /\ \A c \in Unit : Heard(c, n) \in Unit
         /\ Heard("&", n) = "&" /\ Heard("=", n) = "="
BY UnitIs DEF Heard, Normal, NonAscii

LEMMA SentIs ==
  ASSUME NEW w \in Seq(Unit), NEW n \in BOOLEAN
  PROVE  /\ Sent(w, n) \in Seq(Unit) /\ Len(Sent(w, n)) = Len(w)
         /\ \A i \in 1..Len(w) : Sent(w, n)[i] = Heard(w[i], n)
<1>1. CASE n
  <2>1. Normalized(w) \in Seq(Unit) /\ Len(Normalized(w)) = Len(w)
    BY NormalizedIs
  <2>2. \A i \in 1..Len(w) : Normalized(w)[i] = Normal(w[i])
    BY DEF Normalized
  <2> QED
    BY <1>1, <2>1, <2>2 DEF Sent, Heard
<1>2. CASE ~n
  BY <1>2 DEF Sent, Heard
<1> QED
  BY <1>1, <1>2

\* A text is two others with a unit between them.
Between(w, u, c, p) ==
  /\ w \in Seq(Unit) /\ Len(w) = Len(u) + 1 + Len(p)
  /\ \A i \in 1..Len(u) : w[i] = u[i]
  /\ w[Len(u) + 1] = c
  /\ \A i \in 1..Len(p) : w[Len(u) + 1 + i] = p[i]

LEMMA ConcatIs ==
  ASSUME NEW S, NEW v \in Seq(S), NEW p \in Seq(S), NEW k \in Nat, NEW n \in Nat, Len(v) = k, Len(p) = n,
         NEW x, Joined(x, v, p)
  PROVE  /\ x \in Seq(S) /\ Len(x) = k + n /\ (\A i \in 1..k : x[i] = v[i])
         /\ \A i \in 1..n : x[k + i] = p[i]
<1>1. PICK y \in Seq(S) : y = v \o p
  BY ConcatProperties
<1>2. Len(y) = k + n /\ (\A i \in 1..k : y[i] = v[i]) /\ \A i \in 1..n : y[k + i] = p[i]
  <2>1. Len(y) = k + n /\ \A i \in 1..(k + n) : y[i] = IF i <= k THEN v[i] ELSE p[i - k]
    BY <1>1, ConcatProperties
  <2>2. ASSUME NEW i \in 1..k PROVE y[i] = v[i]
    <3>1. i \in 1..(k + n) /\ i <= k
      OBVIOUS
    <3> QED
      BY <2>1, <3>1
  <2>3. ASSUME NEW i \in 1..n PROVE y[k + i] = p[i]
    <3>1. k + i \in 1..(k + n) /\ ~(k + i <= k) /\ (k + i) - k = i
      OBVIOUS
    <3> QED
      BY <2>1, <3>1
  <2> QED
    BY <2>1, <2>2, <2>3
<1> QED
  BY <1>1, <1>2 DEF Joined

LEMMA BetweenIs ==
  ASSUME NEW u \in Seq(Unit), NEW c \in Unit, NEW p \in Seq(Unit)
  PROVE  Between(Append(u, c) \o p, u, c, p) /\ Between((u \o <<c>>) \o p, u, c, p)
<1>1. PICK m \in Nat, n \in Nat : m = Len(u) /\ n = Len(p)
  OBVIOUS
<1>2. PICK one \in Seq(Unit) : one = <<c>> /\ Len(one) = 1 /\ one[1] = c
  BY OneIs
<1>3. ASSUME NEW v \in Seq(Unit), Len(v) = m + 1, \A i \in 1..m : v[i] = u[i], v[m + 1] = c
      PROVE  Between(v \o p, u, c, p)
  <2>1. PICK x \in Seq(Unit) : x = v \o p
    BY ConcatProperties
  <2>a. PICK k \in Nat : k = m + 1
    OBVIOUS
  <2>b. Len(x) = k + n /\ (\A i \in 1..k : x[i] = v[i]) /\ \A i \in 1..n : x[k + i] = p[i]
    <3>1. Len(v) = k /\ Len(p) = n /\ Joined(x, v, p)
      BY <1>1, <1>3, <2>1, <2>a DEF Joined
    <3> QED
      BY <1>3, <3>1, ConcatIs, SMTT(60)
  <2>2. Len(x) = m + 1 + n /\ (\A i \in 1..(m + 1) : x[i] = v[i]) /\ \A i \in 1..n : x[m + 1 + i] = p[i]
    BY <2>a, <2>b
  <2>3. (\A i \in 1..m : i \in 1..(m + 1)) /\ m + 1 \in 1..(m + 1)
    OBVIOUS
  <2>4. (\A i \in 1..m : x[i] = u[i]) /\ x[m + 1] = c
    BY <1>3, <2>2, <2>3
  <2> QED
    BY <1>1, <2>1, <2>2, <2>4 DEF Between
<1>4. PICK v \in Seq(Unit) : v = Append(u, c) /\ Len(v) = m + 1 /\ (\A i \in 1..m : v[i] = u[i]) /\ v[m + 1] = c
  BY <1>1, AppendProperties
<1>5. PICK v2 \in Seq(Unit) : v2 = u \o one
  BY ConcatProperties
<1>6. Len(v2) = m + 1 /\ (\A i \in 1..m : v2[i] = u[i]) /\ v2[m + 1] = c
  <2>1. Len(v2) = m + 1 /\ (\A i \in 1..m : v2[i] = u[i]) /\ \A i \in 1..1 : v2[m + i] = one[i]
    BY <1>1, <1>2, <1>5
  <2>2. v2[m + 1] = one[1]
    BY <2>1
  <2> QED
    BY <1>2, <2>1, <2>2
<1> QED
  BY <1>2, <1>3, <1>4, <1>5, <1>6

LEMMA BetweenOnce ==
  ASSUME NEW u \in Seq(Unit), NEW c \in Unit, NEW p \in Seq(Unit),
         NEW v, Between(v, u, c, p), NEW w, Between(w, u, c, p)
  PROVE  v = w
<1>1. PICK m \in Nat, n \in Nat : m = Len(u) /\ n = Len(p)
  OBVIOUS
<1>2. /\ v \in Seq(Unit) /\ Len(v) = m + 1 + n /\ (\A i \in 1..m : v[i] = u[i]) /\ v[m + 1] = c
      /\ \A i \in 1..n : v[m + 1 + i] = p[i]
  BY <1>1 DEF Between
<1>3. /\ w \in Seq(Unit) /\ Len(w) = m + 1 + n /\ (\A i \in 1..m : w[i] = u[i]) /\ w[m + 1] = c
      /\ \A i \in 1..n : w[m + 1 + i] = p[i]
  BY <1>1 DEF Between
<1>4. ASSUME NEW i \in 1..(m + 1 + n) PROVE v[i] = w[i]
  <2>1. CASE i <= m
    <3>1. i \in 1..m
      BY <2>1
    <3> QED
      BY <1>2, <1>3, <3>1
  <2>2. CASE i = m + 1
    BY <1>2, <1>3, <2>2
  <2>3. CASE i > m + 1
    <3>1. i - (m + 1) \in 1..n /\ m + 1 + (i - (m + 1)) = i
      BY <2>3
    <3> QED
      BY <1>2, <1>3, <3>1
  <2> QED
    BY <2>1, <2>2, <2>3
<1> QED
  BY <1>2, <1>3, <1>4, SeqEqual

LEMMA SentBetween ==
  ASSUME NEW u \in Seq(Unit), NEW c \in {"&", "="}, NEW p \in Seq(Unit), NEW w, Between(w, u, c, p),
         NEW n \in BOOLEAN
  PROVE  Between(Sent(w, n), Sent(u, n), c, Sent(p, n))
<1>1. PICK k \in Nat, m \in Nat : k = Len(u) /\ m = Len(p)
  OBVIOUS
<1>2. /\ w \in Seq(Unit) /\ Len(w) = k + 1 + m /\ (\A i \in 1..k : w[i] = u[i]) /\ w[k + 1] = c
      /\ \A i \in 1..m : w[k + 1 + i] = p[i]
  BY <1>1 DEF Between
<1>3. PICK x \in Seq(Unit) : x = Sent(w, n)
  BY <1>2, SentIs
<1>4. PICK v \in Seq(Unit) : v = Sent(u, n)
  BY SentIs
<1>5. PICK q \in Seq(Unit) : q = Sent(p, n)
  BY SentIs
<1>6. Len(x) = k + 1 + m /\ \A i \in 1..(k + 1 + m) : x[i] = Heard(w[i], n)
  BY <1>2, <1>3, SentIs, SMTT(60)
<1>7. Len(v) = k /\ (\A i \in 1..k : v[i] = Heard(u[i], n)) /\ Len(q) = m /\ \A i \in 1..m : q[i] = Heard(p[i], n)
  BY <1>1, <1>4, <1>5, SentIs
<1>8. \A i \in 1..k : x[i] = v[i]
  <2>1. \A i \in 1..k : i \in 1..(k + 1 + m)
    OBVIOUS
  <2> QED
    BY <1>2, <1>6, <1>7, <2>1
<1>9. x[k + 1] = c
  <2>1. k + 1 \in 1..(k + 1 + m)
    OBVIOUS
  <2>2. x[k + 1] = Heard(c, n)
    BY <1>2, <1>6, <2>1
  <2> QED
    BY <2>2, HeardIs
<1>10. \A i \in 1..m : x[k + 1 + i] = q[i]
  <2>1. \A i \in 1..m : k + 1 + i \in 1..(k + 1 + m)
    OBVIOUS
  <2> QED
    BY <1>2, <1>6, <1>7, <2>1
<1> QED
  BY <1>3, <1>4, <1>5, <1>6, <1>7, <1>8, <1>9, <1>10 DEF Between

LEMMA EncodedIs ==
  ASSUME NEW v \in Seq(FieldByte), NEW n \in BOOLEAN
  PROVE  /\ Encoded(v) \in Seq(Unit) /\ Clear(Encoded(v), {"#"})
         /\ Sent(Encoded(v), n) \in Seq(Unit) /\ Clear(Sent(Encoded(v), n), {"&", "="})
         /\ DecodeText(Sent(Encoded(v), n)) = v
<1>1. PICK m \in Nat : m = Len(v)
  OBVIOUS
<1>2. DOMAIN v = 1..m /\ \A i \in 1..m : v[i] \in FieldByte
  BY <1>1
<1>3. PICK e : e = [i \in 1..m |-> Encode(v[i])]
  OBVIOUS
<1>4. e = Encoded(v)
  BY <1>2, <1>3 DEF Encoded
<1>5. \A i \in 1..m : e[i] \in CodeUnit /\ Heard(e[i], n) \in CodeUnit /\ Decode(Heard(e[i], n)) = v[i]
  BY <1>2, <1>3, EncodeIs
<1>6. e \in Seq(Unit) /\ Len(e) = m
  <2>1. \A i \in 1..m : e[i] \in Unit
    BY <1>5 DEF CodeUnit
  <2>2. e \in [1..m -> Unit]
    BY <1>3, <2>1
  <2> QED
    BY <2>2
<1>7. Clear(e, {"#"})
  BY <1>5, <1>6 DEF Clear, CodeUnit
<1>8. PICK s \in Seq(Unit) : s = Sent(e, n)
  BY <1>6, SentIs
<1>9. Len(s) = m /\ \A i \in 1..m : s[i] = Heard(e[i], n)
  BY <1>6, <1>8, SentIs
<1>10. Clear(s, {"&", "="})
  BY <1>5, <1>9 DEF Clear, CodeUnit
<1>11. DecodeText(s) = v
  <2>1. DOMAIN s = 1..m
    BY <1>9
  <2>2. DecodeText(s) = [i \in 1..m |-> Decode(s[i])]
    BY <2>1 DEF DecodeText
  <2>3. \A i \in 1..m : Decode(s[i]) = v[i]
    BY <1>5, <1>9
  <2>4. v = [i \in 1..m |-> v[i]]
    BY <1>2
  <2> QED
    BY <2>2, <2>3, <2>4
<1> QED
  BY <1>4, <1>6, <1>7, <1>8, <1>10, <1>11

LEMMA BetweenClear ==
  ASSUME NEW stops, NEW x, NEW u \in Seq(Unit), NEW p \in Seq(Unit), NEW c \in Unit, Between(x, u, c, p),
         Clear(u, stops), Clear(p, stops), c \notin stops
  PROVE  Clear(x, stops)
<1>1. PICK y \in Nat, z \in Nat : y = Len(u) /\ z = Len(p)
  OBVIOUS
<1>2. /\ Len(x) = y + 1 + z /\ (\A i \in 1..y : x[i] = u[i]) /\ x[y + 1] = c
      /\ \A i \in 1..z : x[y + 1 + i] = p[i]
  BY <1>1 DEF Between
<1>3. (\A i \in 1..y : u[i] \notin stops) /\ \A i \in 1..z : p[i] \notin stops
  BY <1>1 DEF Clear
<1>4. ASSUME NEW i \in 1..(y + 1 + z) PROVE x[i] \notin stops
  <2>1. CASE i <= y
    <3>1. i \in 1..y
      BY <2>1
    <3> QED
      BY <1>2, <1>3, <3>1
  <2>2. CASE i = y + 1
    BY <1>2, <2>2
  <2>3. CASE i > y + 1
    <3>1. i - (y + 1) \in 1..z /\ y + 1 + (i - (y + 1)) = i
      BY <2>3
    <3> QED
      BY <1>2, <1>3, <3>1
  <2> QED
    BY <2>1, <2>2, <2>3
<1> QED
  BY <1>2, <1>4 DEF Clear

Entry == [name : Seq(FieldByte), value : Seq(FieldByte)]
ReadField(p) == [name |-> DecodeText(Until(p, {"="})),
                 value |-> DecodeText(Tail(Behind(p, Until(p, {"="}))))]

\* A field is read back, be it normalized or not.
LEMMA FieldIs ==
  ASSUME NEW f \in Entry, NEW n \in BOOLEAN
  PROVE  /\ EncodedField(f) \in Seq(Unit) /\ EncodedField(f) # << >> /\ Clear(EncodedField(f), {"#"})
         /\ Sent(EncodedField(f), n) \in Seq(Unit) /\ Clear(Sent(EncodedField(f), n), {"&"})
         /\ ReadField(Sent(EncodedField(f), n)) = f
<1>1. f.name \in Seq(FieldByte) /\ f.value \in Seq(FieldByte) /\ f = [name |-> f.name, value |-> f.value]
  BY DEF Entry
<1>2. PICK a \in Seq(Unit) : a = Encoded(f.name)
  BY <1>1, EncodedIs
<1>3. PICK b \in Seq(Unit) : b = Encoded(f.value)
  BY <1>1, EncodedIs
<1>4. PICK eq \in Unit : eq = "="
  BY DEF Unit, Punctuation
<1>5. PICK w : w = EncodedField(f)
  OBVIOUS
<1>6. Between(w, a, eq, b)
  <2>1. w = (a \o <<eq>>) \o b
    BY <1>2, <1>3, <1>4, <1>5 DEF EncodedField
  <2> QED
    BY <2>1, BetweenIs
<1>7. PICK j \in Nat, k \in Nat : j = Len(a) /\ k = Len(b)
  OBVIOUS
<1>8. /\ w \in Seq(Unit) /\ Len(w) = j + 1 + k /\ (\A i \in 1..j : w[i] = a[i]) /\ w[j + 1] = eq
      /\ \A i \in 1..k : w[j + 1 + i] = b[i]
  BY <1>6, <1>7 DEF Between
<1>9. w # << >>
  BY <1>7, <1>8, EmptySeq
<1>10. Clear(a, {"#"}) /\ Clear(b, {"#"})
  BY <1>1, <1>2, <1>3, EncodedIs
<1>12. Clear(w, {"#"})
  BY <1>4, <1>6, <1>10, BetweenClear
<1>13. PICK c \in Seq(Unit) : c = Sent(a, n)
  BY SentIs
<1>14. PICK d \in Seq(Unit) : d = Sent(b, n)
  BY SentIs
<1>15. Clear(c, {"&", "="}) /\ DecodeText(c) = f.name /\ Clear(d, {"&", "="}) /\ DecodeText(d) = f.value
  BY <1>1, <1>2, <1>3, <1>13, <1>14, EncodedIs
<1>16. PICK p : p = Sent(w, n)
  OBVIOUS
<1>17. Between(p, c, eq, d)
  BY <1>4, <1>6, <1>13, <1>14, <1>16, SentBetween
<1>18. p \in Seq(Unit)
  BY <1>8, <1>16, SentIs
<1>19. Clear(c, {"&"}) /\ Clear(d, {"&"}) /\ Clear(c, {"="})
  BY <1>15 DEF Clear
<1>20. Clear(p, {"&"})
  BY <1>4, <1>17, <1>19, BetweenClear
<1>21. PICK t \in Seq(Unit) : t = <<eq>> \o d
  BY TailJoin
<1>22. Tail(t) = d /\ t[1] = eq /\ t # << >>
  BY <1>21, TailJoin
<1>23. p = c \o t
  <2>1. PICK q : q = (c \o <<eq>>) \o d
    OBVIOUS
  <2>2. Between(q, c, eq, d)
    BY <2>1, BetweenIs
  <2>3. p = q
    BY <1>17, <2>2, BetweenOnce
  <2>4. PICK one \in Seq(Unit) : one = <<eq>>
    BY OneIs
  <2>5. PICK ab : Joined(ab, c, one)
    BY DEF Joined
  <2>6. Joined(p, ab, d) /\ Joined(t, one, d)
    BY <1>21, <2>1, <2>3, <2>4, <2>5 DEF Joined
  <2>7. PICK q2 : Joined(q2, c, t)
    BY DEF Joined
  <2>8. Joined(q2, ab, d)
    BY <2>5, <2>6, <2>7, Regroup
  <2> QED
    BY <2>6, <2>7, <2>8 DEF Joined
<1>24. Until(p, {"="}) = c /\ Behind(p, c) = t
  <2>1. Stopped(t, {"="})
    BY <1>4, <1>22 DEF Stopped
  <2> QED
    BY <1>19, <1>23, <2>1, UntilJoin, BehindJoin
<1>25. ReadField(p) = [name |-> DecodeText(c), value |-> DecodeText(d)]
  BY <1>22, <1>24 DEF ReadField
<1>26. ReadField(p) = f
  BY <1>1, <1>15, <1>25
<1> QED
  BY <1>5, <1>8, <1>9, <1>12, <1>16, <1>18, <1>20, <1>26

JoinStep(w, f) == (IF w = << >> THEN << >> ELSE Append(w, "&")) \o EncodedField(f)
Gathering(r, fs) ==
  /\ r \in [0..Len(fs) -> Seq(Unit)] /\ r[0] = << >>
  /\ \A k \in 1..Len(fs) : r[k] = JoinStep(r[k - 1], fs[k])

LEMMA JoinStepIs ==
  ASSUME NEW w \in Seq(Unit), NEW f \in Entry
  PROVE  /\ JoinStep(w, f) \in Seq(Unit)
         /\ w = << >> => JoinStep(w, f) = EncodedField(f)
         /\ w # << >> => Between(JoinStep(w, f), w, "&", EncodedField(f))
<1>1. PICK e \in Seq(Unit) : e = EncodedField(f)
  BY FieldIs
<1>2. PICK amp \in Unit : amp = "&"
  BY DEF Unit, Punctuation
<1>3. CASE w = << >>
  <2>1. << >> \o e = e
    OBVIOUS
  <2> QED
    BY <1>1, <1>3, <2>1 DEF JoinStep
<1>4. CASE w # << >>
  <2>1. JoinStep(w, f) = Append(w, amp) \o e
    BY <1>1, <1>2, <1>4 DEF JoinStep
  <2>2. Between(JoinStep(w, f), w, amp, e)
    BY <2>1, BetweenIs
  <2>3. JoinStep(w, f) \in Seq(Unit)
    BY <2>2 DEF Between
  <2> QED
    BY <1>1, <1>2, <1>4, <2>2, <2>3
<1> QED
  BY <1>3, <1>4

LEMMA FieldsFold ==
  ASSUME NEW fs \in Seq(Entry)
  PROVE  \E r : Gathering(r, fs) /\ EncodedFields(fs) = r[Len(fs)]
<1>1. PICK n \in Nat : n = Len(fs)
  OBVIOUS
<1>2. DOMAIN fs = 1..n
  BY <1>1
<1>p. ASSUME NEW k \in 1..n, NEW ps \in Seq(Unit) PROVE JoinStep(ps, fs[k]) \in Seq(Unit)
  <2>1. fs[k] \in Entry
    BY <1>1
  <2> QED
    BY <2>1, JoinStepIs
<1> DEFINE G(f) == [s \in SUBSET DOMAIN fs |->
                      IF s = {} THEN << >> ELSE JoinStep(f[s \ {Max(s)}], fs[Max(s)])]
           g == CHOOSE f : f = G(f)
           T == [k \in 1..n |-> [ps \in Seq(Unit) |-> JoinStep(ps, fs[k])]]
<1>3. EncodedFields(fs) = g[1..n]
  BY <1>2 DEF EncodedFields, FoldLeft, MapThenFoldSet, JoinStep
<1>4. T \in [1..n -> [Seq(Unit) -> Seq(Unit)]]
  BY <1>p
<1>c. PICK X : X = Seq(Unit)
  OBVIOUS
<1>d. PICK first \in X : first = << >>
  <2>1. << >> \in Seq(Unit)
    OBVIOUS
  <2> QED
    BY <1>c, <2>1
<1>b. X = Seq(Unit) /\ first = << >>
  BY <1>c, <1>d
<1>a. \A s \in SUBSET (1..n) : s # {} => Max(s) \in 1..n
  <2>1. ASSUME NEW s \in SUBSET (1..n), s # {} PROVE Max(s) \in 1..n
    <3>1. s \in SUBSET Nat /\ \A i \in s : i <= n
      BY <2>1
    <3> QED
      BY <2>1, <3>1, MaxIs
  <2> QED
    BY <2>1
<1>5. g = G(g)
  <2>1. PICK t \in [1..n -> [X -> X]] : t = T
    BY <1>b, <1>4
  <2>a. PICK f : FoldsAll(f, n, X, first, t)
    <3> HIDE DEF T, G, g
    <3>1. n \in Nat /\ first \in X /\ t \in [1..n -> [X -> X]]
      BY <1>1
    <3> QED
      BY <3>1, Folded
  <2>2. /\ f \in [SUBSET (1..n) -> X]
        /\ \A s \in SUBSET (1..n) : f[s] = IF s = {} THEN first ELSE t[Max(s)][f[s \ {Max(s)}]]
    BY <2>a DEF FoldsAll
  <2>3. \A s \in SUBSET (1..n) : f[s] = IF s = {} THEN << >> ELSE JoinStep(f[s \ {Max(s)}], fs[Max(s)])
    <3>1. ASSUME NEW s \in SUBSET (1..n), s # {} PROVE f[s] = JoinStep(f[s \ {Max(s)}], fs[Max(s)])
      <4>1. f[s \ {Max(s)}] \in Seq(Unit)
        BY <1>b, <2>2
      <4> QED
        BY <1>a, <1>b, <2>1, <2>2, <3>1, <4>1
    <3>2. f[{}] = << >>
      BY <1>b, <2>2
    <3> QED
      BY <3>1, <3>2
  <2>4. f = G(f)
    BY <1>2, <2>2, <2>3
  <2> HIDE DEF G
  <2> QED
    BY <2>4
<1>6. Folding(g, n, X, first, T)
  <2> HIDE DEF g
  <2>1. g[{}] = << >>
    BY <1>5
  <2>2. ASSUME NEW s \in SUBSET (1..n), s # {}, g[s \ {Max(s)}] \in Seq(Unit)
        PROVE  g[s] = T[Max(s)][g[s \ {Max(s)}]]
    <3>1. g[s] = JoinStep(g[s \ {Max(s)}], fs[Max(s)])
      BY <1>2, <1>5, <2>2
    <3> QED
      BY <1>a, <2>2, <3>1
  <2> HIDE DEF T
  <2> QED
    BY <1>b, <2>1, <2>2 DEF Folding
<1>7. PICK r : r \in [0..n -> X] /\ r[0] = first /\ \A k \in 1..n : r[k] = T[k][r[k - 1]]
  <2> HIDE DEF T
  <2>1. T \in [1..n -> [X -> X]]
    BY <1>b, <1>4
  <2> QED
    BY <2>1, Iterates
<1>8. g[1..n] = r[n]
  <2> HIDE DEF T, g
  <2>1. Stepping(r, n, X, first, T)
    BY <1>7 DEF Stepping
  <2>2. T \in [1..n -> [X -> X]]
    BY <1>b, <1>4
  <2> QED
    BY <1>6, <2>1, <2>2, FoldIs
<1>9. Gathering(r, fs)
  <2>1. ASSUME NEW k \in 1..n PROVE r[k] = JoinStep(r[k - 1], fs[k])
    <3>1. k - 1 \in 0..n
      BY <2>1
    <3>2. r[k - 1] \in Seq(Unit)
      BY <1>b, <1>7, <3>1
    <3> QED
      BY <1>7, <2>1, <3>2
  <2> HIDE DEF T
  <2> QED
    BY <1>1, <1>b, <1>7, <2>1 DEF Gathering
<1> QED
  BY <1>1, <1>3, <1>8, <1>9

LEMMA FunctionMore ==
  ASSUME NEW h \in Nat, NEW g
  PROVE  Append([i \in 1..h |-> g[i]], g[h + 1]) = [i \in 1..(h + 1) |-> g[i]]
<1>1. PICK S : S = {g[i] : i \in 1..(h + 1)}
  OBVIOUS
<1>2. PICK u \in Seq(S) : u = [i \in 1..h |-> g[i]] /\ Len(u) = h
  <2>1. [i \in 1..h |-> g[i]] \in [1..h -> S]
    BY <1>1
  <2>2. [i \in 1..h |-> g[i]] \in Seq(S) /\ Len([i \in 1..h |-> g[i]]) = h
    BY <2>1
  <2> QED
    BY <2>2
<1>3. PICK v \in Seq(S) : v = [i \in 1..(h + 1) |-> g[i]] /\ Len(v) = h + 1
  <2>1. [i \in 1..(h + 1) |-> g[i]] \in [1..(h + 1) -> S]
    BY <1>1
  <2>2. [i \in 1..(h + 1) |-> g[i]] \in Seq(S) /\ Len([i \in 1..(h + 1) |-> g[i]]) = h + 1
    BY <2>1
  <2> QED
    BY <2>2
<1>4. PICK c \in S : c = g[h + 1]
  <2>1. h + 1 \in 1..(h + 1)
    OBVIOUS
  <2> QED
    BY <1>1, <2>1
<1>5. PICK x \in Seq(S) : x = Append(u, c)
  BY AppendProperties
<1>6. Len(x) = h + 1 /\ (\A i \in 1..h : x[i] = u[i]) /\ x[h + 1] = c
  <2>1. Len(x) = Len(u) + 1 /\ (\A i \in 1..Len(u) : x[i] = u[i]) /\ x[Len(u) + 1] = c
    BY <1>5, AppendProperties
  <2> QED
    BY <1>2, <2>1
<1>7. ASSUME NEW i \in 1..(h + 1) PROVE x[i] = v[i]
  <2>1. i \in 1..h \/ i = h + 1
    OBVIOUS
  <2> QED
    BY <1>2, <1>3, <1>4, <1>6, <2>1
<1>8. x = v
  BY <1>3, <1>6, <1>7, SeqEqual
<1> QED
  BY <1>2, <1>3, <1>4, <1>5, <1>8

\* The parts of the fields so far are the fields, each by itself.
Holds(r, fs, n, k) ==
  /\ r[k] # << >> /\ Clear(r[k], {"#"})
  /\ PartsOf(Sent(r[k], n)) = [i \in 1..k |-> Sent(EncodedField(fs[i]), n)]

LEMMA GatheredIs ==
  ASSUME NEW fs \in Seq(Entry), NEW r, Gathering(r, fs), NEW n \in BOOLEAN, NEW k \in 1..Len(fs)
  PROVE  Holds(r, fs, n, k)
<1>1. PICK m \in Nat : m = Len(fs)
  OBVIOUS
<1>2. /\ r \in [0..m -> Seq(Unit)] /\ r[0] = << >>
      /\ \A j \in 1..m : r[j] = JoinStep(r[j - 1], fs[j])
  BY <1>1 DEF Gathering
<1>3. \A j \in 1..m : fs[j] \in Entry
  BY <1>1
<1> DEFINE Q == {j \in Nat : j + 1 <= m => Holds(r, fs, n, j + 1)}
<1>4. 0 \in Q
  <2>1. SUFFICES ASSUME 1 <= m PROVE Holds(r, fs, n, 1)
    OBVIOUS
  <2>2. 1 \in 1..m /\ 1 - 1 = 0
    BY <2>1
  <2>3. PICK e : e = EncodedField(fs[1])
    OBVIOUS
  <2>4. r[1] = e
    <3>1. r[1] = JoinStep(r[0], fs[1]) /\ fs[1] \in Entry
      BY <1>2, <1>3, <2>2
    <3>2. PICK v \in Seq(Unit) : v = << >>
      BY EmptySeq
    <3>3. JoinStep(v, fs[1]) = EncodedField(fs[1])
      BY <3>1, <3>2, JoinStepIs
    <3> QED
      BY <1>2, <2>3, <3>1, <3>2, <3>3
  <2>5. /\ e \in Seq(Unit) /\ e # << >> /\ Clear(e, {"#"})
        /\ Sent(e, n) \in Seq(Unit) /\ Clear(Sent(e, n), {"&"})
    BY <1>3, <2>2, <2>3, FieldIs
  <2>6. PartsOf(Sent(e, n)) = <<Sent(e, n)>>
    BY <2>5, PartsOne
  <2>7. <<Sent(e, n)>> = [i \in 1..1 |-> Sent(EncodedField(fs[i]), n)]
    BY <2>3
  <2> QED
    BY <2>4, <2>5, <2>6, <2>7 DEF Holds
<1>5. ASSUME NEW j \in Q PROVE j + 1 \in Q
  <2>1. SUFFICES ASSUME (j + 1) + 1 <= m PROVE Holds(r, fs, n, (j + 1) + 1)
    OBVIOUS
  <2>2. PICK h \in Nat : h = j + 1
    OBVIOUS
  <2>3. h >= 1 /\ h <= m /\ h \in 0..m /\ h + 1 \in 1..m /\ (h + 1) - 1 = h
    BY <2>1, <2>2
  <2>4. Holds(r, fs, n, h)
    BY <2>1, <2>2, <2>3
  <2>5. PICK u \in Seq(Unit) : u = r[h] /\ u # << >> /\ Clear(u, {"#"})
    BY <1>2, <2>3, <2>4 DEF Holds
  <2>6. PICK e : e = EncodedField(fs[h + 1])
    OBVIOUS
  <2>7. /\ e \in Seq(Unit) /\ e # << >> /\ Clear(e, {"#"})
        /\ Sent(e, n) \in Seq(Unit) /\ Clear(Sent(e, n), {"&"})
    BY <1>3, <2>3, <2>6, FieldIs
  <2>8. PICK w : w = r[h + 1]
    OBVIOUS
  <2>9. Between(w, u, "&", e)
    BY <1>2, <1>3, <2>3, <2>5, <2>6, <2>8, JoinStepIs
  <2>10. w # << >>
    <3>1. Len(w) = Len(u) + 1 + Len(e) /\ Len(u) \in Nat /\ Len(e) \in Nat /\ w \in Seq(Unit)
      BY <2>5, <2>7, <2>9 DEF Between
    <3> QED
      BY <3>1, EmptySeq
  <2>11. Clear(w, {"#"})
    <3>0. PICK amp \in Unit : amp = "&"
      BY DEF Unit, Punctuation
    <3>1. amp \notin {"#"}
      BY <3>0
    <3>2. Clear(u, {"#"}) /\ Clear(e, {"#"}) /\ Between(w, u, amp, e)
      BY <2>5, <2>7, <2>9, <3>0
    <3>3. PICK stops : stops = {"#"}
      OBVIOUS
    <3>4. Clear(w, stops)
      BY <2>7, <3>1, <3>2, <3>3, BetweenClear
    <3> QED
      BY <3>3, <3>4
  <2>12. Parted(Sent(w, n), Sent(u, n), Sent(e, n))
    <3>1. PICK x : x = Sent(w, n)
      OBVIOUS
    <3>2. PICK v \in Seq(Unit) : v = Sent(u, n)
      BY SentIs
    <3>3. PICK p \in Seq(Unit) : p = Sent(e, n)
      BY <2>7
    <3>4. PICK amp \in Unit : amp = "&"
      BY DEF Unit, Punctuation
    <3>5. Between(x, v, amp, p)
      BY <2>7, <2>9, <3>1, <3>2, <3>3, <3>4, SentBetween
    <3>6. PICK y : y = Append(v, amp) \o p
      OBVIOUS
    <3>7. Between(y, v, amp, p)
      BY <3>6, BetweenIs
    <3>8. x = y
      BY <3>5, <3>7, BetweenOnce
    <3> QED
      BY <3>1, <3>2, <3>3, <3>4, <3>6, <3>8 DEF Parted
  <2>13. PartsOf(Sent(w, n)) = Append(PartsOf(Sent(u, n)), Sent(e, n))
    <3>1. Sent(u, n) \in Seq(Unit)
      BY SentIs
    <3> QED
      BY <2>7, <2>12, <3>1, PartsMore
  <2>14. PartsOf(Sent(u, n)) = [i \in 1..h |-> Sent(EncodedField(fs[i]), n)]
    BY <2>4, <2>5 DEF Holds
  <2>15. Append([i \in 1..h |-> Sent(EncodedField(fs[i]), n)], Sent(e, n))
           = [i \in 1..(h + 1) |-> Sent(EncodedField(fs[i]), n)]
    <3>1. PICK g : g = [i \in 1..m |-> Sent(EncodedField(fs[i]), n)]
      OBVIOUS
    <3>2. /\ [i \in 1..h |-> Sent(EncodedField(fs[i]), n)] = [i \in 1..h |-> g[i]]
          /\ [i \in 1..(h + 1) |-> Sent(EncodedField(fs[i]), n)] = [i \in 1..(h + 1) |-> g[i]]
          /\ Sent(e, n) = g[h + 1]
      BY <2>3, <2>6, <3>1
    <3>3. Append([i \in 1..h |-> g[i]], g[h + 1]) = [i \in 1..(h + 1) |-> g[i]]
      BY <2>3, FunctionMore
    <3> QED
      BY <3>2, <3>3
  <2>16. Holds(r, fs, n, h + 1)
    BY <2>8, <2>10, <2>11, <2>13, <2>14, <2>15 DEF Holds
  <2> QED
    BY <2>2, <2>16
<1>6. Q = Nat
  <2>1. Q \in SUBSET Nat
    OBVIOUS
  <2> HIDE DEF Q
  <2> QED
    BY <1>4, <1>5, <2>1, Induct
<1>7. k - 1 \in Nat /\ (k - 1) + 1 = k /\ k <= m
  BY <1>1
<1>8. k - 1 \in Q
  <2> HIDE DEF Q
  <2> QED
    BY <1>6, <1>7
<1> QED
  BY <1>7, <1>8

\* The fields are read back from their text, be it normalized or not.
LEMMA FieldsRead ==
  ASSUME NEW fs \in Seq(Entry), NEW n \in BOOLEAN
  PROVE  /\ EncodedFields(fs) \in Seq(Unit) /\ Clear(EncodedFields(fs), {"#"})
         /\ FieldsIn(Sent(EncodedFields(fs), n)) = fs
<1>1. PICK r : Gathering(r, fs) /\ EncodedFields(fs) = r[Len(fs)]
  BY FieldsFold
<1>2. PICK m \in Nat : m = Len(fs)
  OBVIOUS
<1>3. r \in [0..m -> Seq(Unit)] /\ r[0] = << >>
  BY <1>1, <1>2 DEF Gathering
<1>4. PICK w \in Seq(Unit) : w = EncodedFields(fs) /\ w = r[m]
  BY <1>1, <1>2, <1>3
<1>5. PICK x \in Seq(Unit) : x = Sent(w, n) /\ Len(x) = Len(w)
  BY SentIs
<1>6. CASE m = 0
  <2>1. w = << >> /\ fs = << >>
    BY <1>2, <1>3, <1>4, <1>6, EmptySeq
  <2>2. x = << >>
    BY <1>5, <2>1, EmptySeq
  <2>3. Clear(w, {"#"})
    BY <2>1 DEF Clear
  <2>4. FieldsIn(x) = << >>
    BY <2>2 DEF FieldsIn
  <2> QED
    BY <1>4, <1>5, <2>1, <2>3, <2>4
<1>7. CASE m # 0
  <2>1. m \in 1..m
    BY <1>7
  <2>2. Holds(r, fs, n, m)
    BY <1>1, <1>2, <2>1, GatheredIs
  <2>3. w # << >> /\ Clear(w, {"#"})
    BY <1>4, <2>2 DEF Holds
  <2>4. x # << >>
    BY <1>5, <2>3, EmptySeq
  <2>5. PICK parts : parts = PartsOf(x)
    OBVIOUS
  <2>6. parts = [i \in 1..m |-> Sent(EncodedField(fs[i]), n)]
    BY <1>4, <1>5, <2>2, <2>5 DEF Holds
  <2>7. FieldsIn(x) = [i \in DOMAIN parts |-> ReadField(parts[i])]
    BY <2>4, <2>5 DEF FieldsIn, PartsOf, ReadField
  <2>8. DOMAIN parts = 1..m
    BY <2>6
  <2>9. \A i \in 1..m : ReadField(parts[i]) = fs[i]
    <3>1. ASSUME NEW i \in 1..m PROVE ReadField(parts[i]) = fs[i]
      <4>1. parts[i] = Sent(EncodedField(fs[i]), n) /\ fs[i] \in Entry
        BY <1>2, <2>6
      <4> QED
        BY <4>1, FieldIs
    <3> QED
      BY <3>1
  <2>10. fs = [i \in 1..m |-> fs[i]]
    BY <1>2
  <2>11. FieldsIn(x) = fs
    BY <2>7, <2>8, <2>9, <2>10
  <2> QED
    BY <1>4, <1>5, <2>3, <2>11
<1> QED
  BY <1>6, <1>7

(***************************************************************************)
(* The query of a text, whatever comes before it.                          *)
(***************************************************************************)
\* A text that comes to a query behind nothing that begins one or a fragment.
Leading(w, pre, rest) ==
  /\ pre \in Seq(Unit) /\ Clear(pre, {"?", "#"}) /\ Joined(w, pre, rest)
Asks(rest) == rest \in Seq(Unit) /\ rest # << >> /\ rest[1] = "?"
Reaches(w, rest) == \E pre : Leading(w, pre, rest)

LEMMA SuffixIs ==
  ASSUME NEW S, NEW w \in Seq(S), NEW k \in Nat, NEW j \in Nat, Len(w) = k + j
  PROVE  /\ SubSeq(w, k + 1, Len(w)) \in Seq(S) /\ Len(SubSeq(w, k + 1, Len(w))) = j
         /\ \A i \in 1..j : SubSeq(w, k + 1, Len(w))[i] = w[k + i]
<1>1. PICK a \in Nat, z \in Nat : a = k + 1 /\ z = k + j
  OBVIOUS
<1>2. a \in 1..(z + 1) /\ z \in (a - 1)..z /\ Len(w) = z
  BY <1>1
<1>a. a \in 1..(Len(w) + 1) /\ z \in (a - 1)..Len(w)
  BY <1>2
<1>b. /\ SubSeq(w, a, z) \in Seq(S) /\ Len(SubSeq(w, a, z)) = z - a + 1
      /\ \A i \in 1..(z - a + 1) : SubSeq(w, a, z)[i] = w[a + i - 1]
  BY <1>a, PartIs
<1>3. PICK v \in Seq(S) : v = SubSeq(w, a, z) /\ Len(v) = z - a + 1 /\ \A i \in 1..(z - a + 1) : v[i] = w[a + i - 1]
  BY <1>b
<1>4. z - a + 1 = j /\ \A i \in 1..j : a + i - 1 = k + i
  BY <1>1
<1>5. Len(v) = j
  BY <1>3, <1>4
<1>6. \A i \in 1..j : v[i] = w[k + i]
  BY <1>3, <1>4
<1> QED
  BY <1>1, <1>2, <1>3, <1>5, <1>6

LEMMA SkipAhead ==
  ASSUME NEW pre, NEW rest, Asks(rest), NEW w, Leading(w, pre, rest), NEW k \in 0..Len(pre)
  PROVE  /\ Leading(SubSeq(w, k + 1, Len(w)), SubSeq(pre, k + 1, Len(pre)), rest)
         /\ Reaches(SubSeq(w, k + 1, Len(w)), rest)
<1>1. pre \in Seq(Unit) /\ rest \in Seq(Unit) /\ Clear(pre, {"?", "#"}) /\ Joined(w, pre, rest)
  BY DEF Leading, Asks
<1>2. PICK m \in Nat, n \in Nat : m = Len(pre) /\ n = Len(rest)
  BY <1>1
<1>3. w \in Seq(Unit) /\ Len(w) = m + n /\ (\A i \in 1..m : w[i] = pre[i]) /\ \A i \in 1..n : w[m + i] = rest[i]
  <2>1. Len(pre) = m /\ Len(rest) = n /\ Joined(w, pre, rest)
    BY <1>1, <1>2
  <2> QED
    BY <1>1, <2>1, ConcatIs
<1>4. PICK h \in Nat, j \in Nat : h = k /\ m = h + j
  <2>1. k \in Nat /\ m - k \in Nat /\ m = k + (m - k)
    BY <1>2
  <2> QED
    BY <2>1
<1>5. PICK u \in Seq(Unit) : u = SubSeq(pre, h + 1, m) /\ Len(u) = j /\ \A i \in 1..j : u[i] = pre[h + i]
  <2>1. Len(pre) = h + j
    BY <1>2, <1>4
  <2>2. /\ SubSeq(pre, h + 1, Len(pre)) \in Seq(Unit) /\ Len(SubSeq(pre, h + 1, Len(pre))) = j
        /\ \A i \in 1..j : SubSeq(pre, h + 1, Len(pre))[i] = pre[h + i]
    BY <1>1, <2>1, SuffixIs
  <2> QED
    BY <1>2, <2>2
<1>6. PICK v \in Seq(Unit) : v = SubSeq(w, h + 1, Len(w)) /\ Len(v) = j + n /\ \A i \in 1..(j + n) : v[i] = w[h + i]
  <2>1. PICK g \in Nat : g = j + n
    OBVIOUS
  <2>2. Len(w) = h + g
    BY <1>3, <1>4, <2>1
  <2>3. /\ SubSeq(w, h + 1, Len(w)) \in Seq(Unit) /\ Len(SubSeq(w, h + 1, Len(w))) = g
        /\ \A i \in 1..g : SubSeq(w, h + 1, Len(w))[i] = w[h + i]
    BY <1>3, <2>2, SuffixIs
  <2> QED
    BY <2>1, <2>3
<1>7. PICK x : Joined(x, u, rest)
  BY DEF Joined
<1>9. /\ x \in Seq(Unit) /\ Len(x) = j + n /\ (\A i \in 1..j : x[i] = u[i])
      /\ \A i \in 1..n : x[j + i] = rest[i]
  <2>1. Len(u) = j /\ Len(rest) = n /\ rest \in Seq(Unit)
    BY <1>1, <1>2, <1>5
  <2> QED
    BY <1>7, <2>1, ConcatIs
<1>11. ASSUME NEW i \in 1..(j + n) PROVE v[i] = x[i]
  <2>1. v[i] = w[h + i]
    BY <1>6
  <2>2. CASE i <= j
    <3>1. i \in 1..j /\ h + i \in 1..m
      BY <1>4, <2>2
    <3>2. x[i] = pre[h + i]
      BY <1>5, <1>9, <3>1
    <3> QED
      BY <1>3, <2>1, <3>1, <3>2
  <2>3. CASE i > j
    <3>1. i - j \in 1..n /\ m + (i - j) = h + i /\ j + (i - j) = i
      BY <1>4, <2>3
    <3>2. w[m + (i - j)] = rest[i - j] /\ x[j + (i - j)] = rest[i - j]
      BY <1>3, <1>9, <3>1
    <3> QED
      BY <2>1, <3>1, <3>2
  <2> QED
    BY <2>2, <2>3
<1>12. v = x
  BY <1>6, <1>9, <1>11, SeqEqual
<1>13. Clear(u, {"?", "#"})
  <2>1. \A i \in 1..j : h + i \in 1..m
    BY <1>4
  <2>2. \A i \in 1..m : pre[i] \notin {"?", "#"}
    BY <1>1, <1>2 DEF Clear
  <2> QED
    BY <1>5, <2>1, <2>2 DEF Clear
<1>14. Leading(v, u, rest)
  BY <1>7, <1>12, <1>13 DEF Leading
<1> QED
  BY <1>2, <1>4, <1>5, <1>6, <1>14 DEF Reaches

LEMMA AskAt ==
  ASSUME NEW pre, NEW rest, Asks(rest), NEW w, Leading(w, pre, rest)
  PROVE  w \in Seq(Unit) /\ Len(pre) \in Nat /\ Len(pre) + 1 \in 1..Len(w) /\ w[Len(pre) + 1] = "?"
<1>1. pre \in Seq(Unit) /\ rest \in Seq(Unit) /\ rest # << >> /\ rest[1] = "?" /\ Joined(w, pre, rest)
  BY DEF Leading, Asks
<1>2. PICK m \in Nat, n \in Nat : m = Len(pre) /\ n = Len(rest)
  BY <1>1
<1>3. w \in Seq(Unit) /\ Len(w) = m + n /\ \A i \in 1..n : w[m + i] = rest[i]
  <2>1. Len(pre) = m /\ Len(rest) = n
    BY <1>2
  <2> QED
    BY <1>1, <2>1, ConcatIs
<1>4. 1 \in 1..n
  BY <1>1, <1>2, EmptySeq
<1>5. w[m + 1] = "?" /\ m + 1 \in 1..(m + n)
  BY <1>1, <1>3, <1>4
<1> QED
  BY <1>2, <1>3, <1>5

LEMMA UntilStops ==
  ASSUME NEW pre, NEW rest, Asks(rest), NEW w, Leading(w, pre, rest), NEW stops, "?" \in stops
  PROVE  Len(Until(w, stops)) \in 0..Len(pre)
<1>1. w \in Seq(Unit) /\ Len(pre) \in Nat /\ Len(pre) + 1 \in 1..Len(w) /\ w[Len(pre) + 1] = "?"
  BY AskAt
<1>2. PICK k \in Nat : k = Len(Until(w, stops)) /\ k <= Len(w) /\ \A i \in 1..k : w[i] \notin stops
  BY <1>1, UntilIs
<1>3. PICK m \in Nat : m = Len(pre)
  BY <1>1
<1>4. ~(m + 1 <= k)
  <2>1. SUFFICES ASSUME m + 1 <= k PROVE FALSE
    OBVIOUS
  <2>2. m + 1 \in 1..k
    BY <2>1
  <2> QED
    BY <1>1, <1>2, <1>3, <2>2
<1> QED
  BY <1>2, <1>3, <1>4

LEMMA TailIs ==
  ASSUME NEW S, NEW x \in Seq(S), x # << >>
  PROVE  Tail(x) = SubSeq(x, 1 + 1, Len(x))
<1>1. PICK j \in Nat : Len(x) = 1 + j
  <2>1. Len(x) \in Nat /\ Len(x) # 0
    BY EmptySeq
  <2>2. Len(x) - 1 \in Nat /\ Len(x) = 1 + (Len(x) - 1)
    BY <2>1
  <2> QED
    BY <2>2
<1>2. PICK u \in Seq(S) : u = SubSeq(x, 1 + 1, Len(x)) /\ Len(u) = j /\ \A i \in 1..j : u[i] = x[1 + i]
  <2>1. PICK k \in Nat : k = 1
    OBVIOUS
  <2>2. Len(x) = k + j
    BY <1>1, <2>1
  <2>3. /\ SubSeq(x, k + 1, Len(x)) \in Seq(S) /\ Len(SubSeq(x, k + 1, Len(x))) = j
        /\ \A i \in 1..j : SubSeq(x, k + 1, Len(x))[i] = x[k + i]
    BY <2>2, SuffixIs
  <2>4. PICK u : u = SubSeq(x, k + 1, Len(x))
    OBVIOUS
  <2>5. u \in Seq(S) /\ Len(u) = j /\ \A i \in 1..j : u[i] = x[k + i]
    BY <2>3, <2>4
  <2> QED
    BY <2>1, <2>4, <2>5
<1>3. PICK v \in Seq(S) : v = Tail(x) /\ Len(v) = j /\ \A i \in 1..j : v[i] = x[1 + i]
  <2>1. Tail(x) \in Seq(S) /\ Len(Tail(x)) = Len(x) - 1 /\ \A i \in 1..Len(Tail(x)) : Tail(x)[i] = x[i + 1]
    OBVIOUS
  <2>2. PICK v : v = Tail(x)
    OBVIOUS
  <2>3. v \in Seq(S) /\ Len(v) = j
    BY <1>1, <2>1, <2>2
  <2>4. \A i \in 1..j : v[i] = x[1 + i]
    BY <2>1, <2>2, <2>3
  <2> QED
    BY <2>2, <2>3, <2>4
<1>4. v = u
  BY <1>2, <1>3, SeqEqual
<1> QED
  BY <1>2, <1>3, <1>4

LEMMA HierReaches ==
  ASSUME NEW pre, NEW rest, Asks(rest), NEW w, Leading(w, pre, rest)
  PROVE  Reaches(Hier(w), rest)
<1>1. CASE ~HasScheme(w)
  BY <1>1 DEF Hier, Reaches
<1>2. CASE HasScheme(w)
  <2>1. w \in Seq(Unit)
    BY AskAt
  <2>2. PICK s \in Seq(Unit) : s = SchemeWord(w)
    BY <2>1, UntilIs DEF SchemeWord
  <2>3. Len(s) \in 0..Len(pre)
    <3>1. "?" \in Unit \ SchemeChar
      BY MarksAre
    <3> QED
      BY <2>2, <3>1, UntilStops DEF SchemeWord
  <2>4. PICK x : x = SubSeq(w, Len(s) + 1, Len(w))
    OBVIOUS
  <2>5. Reaches(x, rest)
    BY <2>3, <2>4, SkipAhead
  <2>6. PICK front : Leading(x, front, rest)
    BY <2>5 DEF Reaches
  <2>7. Starts(x, <<":">>) /\ Hier(w) = Tail(x)
    BY <1>2, <2>2, <2>4 DEF HasScheme, Hier, Behind
  <2>8. x \in Seq(Unit) /\ Len(front) \in Nat /\ Len(front) + 1 \in 1..Len(x) /\ x[Len(front) + 1] = "?"
    BY <2>6, AskAt
  <2>9. PICK colon \in Unit : colon = ":"
    BY MarksAre
  <2>10. Len(x) >= 1 /\ x[1] = colon
    BY <2>7, <2>8, <2>9, SingleIs
  <2>11. Len(front) # 0
    <3>1. SUFFICES ASSUME Len(front) = 0 PROVE FALSE
      OBVIOUS
    <3>2. x[1] = "?"
      BY <2>8, <3>1
    <3> QED
      BY <2>9, <2>10, <3>2
  <2>12. 1 \in 0..Len(front)
    BY <2>8, <2>11
  <2>13. Reaches(SubSeq(x, 1 + 1, Len(x)), rest)
    BY <2>6, <2>12, SkipAhead
  <2>14. x # << >>
    BY <2>8, <2>10, EmptySeq
  <2> QED
    BY <2>7, <2>8, <2>13, <2>14, TailIs
<1> QED
  BY <1>1, <1>2

LEMMA PathReaches ==
  ASSUME NEW pre, NEW rest, Asks(rest), NEW w, Leading(w, pre, rest)
  PROVE  Reaches(AfterAuthority(w), rest)
<1>1. PICK y : y = Hier(w)
  OBVIOUS
<1>2. PICK front : Leading(y, front, rest)
  BY <1>1, HierReaches DEF Reaches
<1>3. CASE ~HasAuthority(w)
  BY <1>1, <1>2, <1>3 DEF AfterAuthority, Reaches
<1>4. CASE HasAuthority(w)
  <2>1. y \in Seq(Unit) /\ Len(front) \in Nat /\ Len(front) + 1 \in 1..Len(y) /\ y[Len(front) + 1] = "?"
    BY <1>2, AskAt
  <2>2. PICK slash \in Unit : slash = "/"
    BY MarksAre
  <2>3. Len(y) >= 2 /\ y[1] = slash /\ y[2] = slash
    BY <1>1, <1>4, <2>1, <2>2, TwoIs DEF HasAuthority
  <2>4. PICK m \in Nat : m = Len(front)
    BY <2>1
  <2>5. m # 0 /\ m # 1
    <3>1. ASSUME m = 0 PROVE FALSE
      <4>1. y[1] = "?"
        BY <2>1, <2>4, <3>1
      <4> QED
        BY <2>2, <2>3, <4>1
    <3>2. ASSUME m = 1 PROVE FALSE
      <4>1. y[2] = "?"
        BY <2>1, <2>4, <3>2
      <4> QED
        BY <2>2, <2>3, <4>1
    <3> QED
      BY <3>1, <3>2
  <2>6. PICK z : z = SubSeq(y, 2 + 1, Len(y))
    OBVIOUS
  <2>7. Leading(z, SubSeq(front, 2 + 1, Len(front)), rest)
    <3>1. 2 \in 0..Len(front)
      BY <2>4, <2>5
    <3> QED
      BY <1>2, <2>6, <3>1, SkipAhead
  <2>8. PICK a \in Seq(Unit) : a = Authority(w)
    <3>1. z \in Seq(Unit)
      BY <2>7, AskAt
    <3>2. 2 + 1 = 3
      OBVIOUS
    <3> QED
      BY <1>1, <2>6, <3>1, <3>2, UntilIs DEF Authority
  <2>9. Len(a) \in 0..Len(SubSeq(front, 2 + 1, Len(front)))
    <3>1. a = Until(z, {"/", "?", "#"})
      BY <1>1, <2>6, <2>8 DEF Authority
    <3>2. "?" \in {"/", "?", "#"}
      OBVIOUS
    <3> QED
      BY <2>7, <3>1, <3>2, UntilStops
  <2>10. Len(SubSeq(front, 2 + 1, Len(front))) = m - 2
    <3>1. PICK j \in Nat : m = 2 + j
      <4>1. m - 2 \in Nat /\ m = 2 + (m - 2)
        BY <2>5
      <4> QED
        BY <4>1
    <3>2. front \in Seq(Unit)
      BY <1>2 DEF Leading
    <3>3. Len(SubSeq(front, 2 + 1, Len(front))) = j
      BY <2>4, <3>1, <3>2, SuffixIs
    <3> QED
      BY <3>1, <3>3
  <2>11. PICK two \in Seq(Unit) : two = <<slash, slash>> /\ Len(two) = 2
    <3>1. <<slash, slash>> \in Seq(Unit) /\ Len(<<slash, slash>>) = 2
      OBVIOUS
    <3> QED
      BY <3>1
  <2>12. Len(two \o a) = 2 + Len(a)
    BY <2>11, ConcatProperties
  <2>13. Len(two \o a) \in 0..Len(front)
    BY <2>4, <2>5, <2>9, <2>10, <2>12
  <2>14. AfterAuthority(w) = SubSeq(y, Len(two \o a) + 1, Len(y))
    BY <1>1, <1>4, <2>2, <2>8, <2>11 DEF AfterAuthority, Behind
  <2> QED
    BY <1>2, <2>13, <2>14, SkipAhead
<1> QED
  BY <1>3, <1>4

LEMMA QueryReached ==
  ASSUME NEW pre, NEW rest, Asks(rest), NEW w, Leading(w, pre, rest),
         NEW q \in Seq(Unit), Clear(q, {"#"}), NEW hf \in BOOLEAN, NEW f \in Seq(Unit),
         NEW u, Marked(u, "?", TRUE, q), NEW v, Marked(v, "#", hf, f), Joined(rest, u, v)
  PROVE  Query(w) = q
<1>1. PICK p : Leading(AfterAuthority(w), p, rest)
  BY PathReaches DEF Reaches
<1>2. AfterPath(w) = rest
  <2>1. p \in Seq(Unit) /\ Clear(p, {"?", "#"}) /\ AfterAuthority(w) = p \o rest
    BY <1>1 DEF Leading, Joined
  <2>2. rest \in Seq(Unit) /\ Stopped(rest, {"?", "#"})
    BY DEF Asks, Stopped
  <2> QED
    BY <2>1, <2>2, PathJoin
<1>3. Joined(AfterPath(w), u, v)
  BY <1>2
<1>4. PICK yes \in BOOLEAN : yes = TRUE
  OBVIOUS
<1>5. Query(w) = IF yes THEN q ELSE << >>
  <2>1. Marked(u, "?", yes, q)
    BY <1>4
  <2> QED
    BY <1>3, <2>1, QueryJoin
<1> QED
  BY <1>4, <1>5

\* Whatever units a path is of, no others are in it when its dots are gone.
LEMMA RemovedIn ==
  ASSUME NEW S \in SUBSET Unit, "/" \in S, NEW path \in Seq(S)
  PROVE  RemoveDotSegments(path) \in Seq(S)
<1>1. PICK Y : Y = Seq(S) \X Seq(S)
  OBVIOUS
<1>2. PICK X : X = Seq(S)
  OBVIOUS
<1> DEFINE size == [p \in Y |-> Len(p[1])]
<1>3. \A p \in Y : p[1] \in Seq(S) /\ p[2] \in Seq(S) /\ p = <<p[1], p[2]>>
  BY <1>1
<1>4. size \in [Y -> Nat] /\ \A p \in Y : size[p] = Len(p[1])
  BY <1>3
<1>5. ASSUME NEW u \in Seq(S), NEW v \in Seq(S) PROVE <<u, v>> \in Y /\ size[<<u, v>>] = Len(u)
  BY <1>1
<1> HIDE DEF size
<1>6. PICK loop \in [Pairs -> Seq(Unit)] :
        /\ \A p \in Pairs : loop[p] = Turn(p[1], p[2], loop)
        /\ \A w : RemoveDotSegments(w) = loop[<<w, << >>>>]
  BY LoopIs
<1>7. ASSUME NEW p \in Y PROVE loop[p] = Turn(p[1], p[2], loop)
  <2>1. p[1] \in Seq(Unit) /\ p[2] \in Seq(Unit)
    BY <1>3, SeqIn
  <2>2. p \in Pairs
    BY <1>3, <2>1 DEF Pairs
  <2> QED
    BY <1>6, <2>2
<1> DEFINE Q == {p \in Y : loop[p] \in X}
<1>8. ASSUME NEW p \in Y, \A q \in Y : size[q] < size[p] => q \in Q
      PROVE  p \in Q
  <2>1. loop[p] = Turn(p[1], p[2], loop)
    BY <1>7
  <2>2. CASE \E r \in Seq(S) : \A h : Turn(p[1], p[2], h) = r
    BY <1>2, <2>1, <2>2
  <2>3. CASE \E u, v \in Seq(S) : Len(u) < Len(p[1]) /\ \A h : Turn(p[1], p[2], h) = h[<<u, v>>]
    <3>1. PICK u \in Seq(S), v \in Seq(S) :
            Len(u) < Len(p[1]) /\ \A h : Turn(p[1], p[2], h) = h[<<u, v>>]
      BY <2>3
    <3>2. <<u, v>> \in Y /\ size[<<u, v>>] < size[p]
      BY <1>4, <1>5, <3>1
    <3>3. <<u, v>> \in Q
      BY <1>8, <3>2
    <3> QED
      BY <2>1, <3>1, <3>3
  <2> QED
    BY <1>3, <2>2, <2>3, TurnIs
<1>9. Q = Y
  <2>1. Q \in SUBSET Y
    OBVIOUS
  <2> HIDE DEF Q
  <2>2. Inherited(Y, size, Q)
    BY <1>4, <1>8, <2>1 DEF Inherited
  <2> QED
    BY <2>2, BySize
<1>10. <<path, << >>>> \in Y
  BY <1>1, EmptySeq
<1> QED
  BY <1>2, <1>6, <1>9, <1>10

LEMMA SlashIs == PathUnit \in SUBSET Unit /\ "/" \in PathUnit
BY DEF PathUnit, PlainUnit, Normal, NonAscii, Faulty, Unit, Punctuation, Refused, BadTriplet

LEMMA JoinedPlain ==
  ASSUME NEW r, r.path \in Seq(PathUnit), NEW b, b.path \in Seq(PathUnit)
  PROVE  JoinedPath(b, r) \in Seq(PathUnit)
<1>1. PICK v \in Seq(PathUnit) : v = r.path
  OBVIOUS
<1>2. PICK u \in Seq(PathUnit) : u = b.path
  OBVIOUS
<1>3. PICK slash \in PathUnit : slash = "/"
  BY SlashIs
<1>4. PICK k \in 0..Len(u) : k = LastSlash(u)
  <2>1. LastOf(u, {"/"}) \in 0..Len(u)
    BY LastIs
  <2>2. LastSlash(u) = LastOf(u, {"/"})
    BY DEF LastSlash, LastOf
  <2> QED
    BY <2>1, <2>2
<1>5. PICK head \in Seq(PathUnit) : head = SubSeq(u, 1, k)
  BY Halves
<1>6. head \o v \in Seq(PathUnit) /\ <<slash>> \o v \in Seq(PathUnit)
  BY ConcatProperties
<1>7. Merged(b, r.path) \in {head \o v, <<slash>> \o v}
  BY <1>1, <1>2, <1>3, <1>4, <1>5 DEF Merged, UpTo
<1>8. JoinedPath(b, r) \in {v, Merged(b, r.path)}
  BY <1>1 DEF JoinedPath
<1> QED
  BY <1>6, <1>7, <1>8

\* The path of a URL has neither a question mark nor a hash, whether or not it
\* has an authority.
LEMMA PlainPath ==
  ASSUME NEW w \in Seq(Unit), NEW base \in Seq(Unit) \cup {NoBase}, Parse(w, base).status = "OK"
  PROVE  Parse(w, base).url.path \in Seq(PathUnit)
<1>1. PICK r : r = Raw(Split(w))
  OBVIOUS
<1>2. Clean(r)
  BY <1>1, ParseWell, CleanRaw
<1>3. r.path \in Seq(PathUnit) /\ <<"/">> \in Seq(PathUnit)
  <2>1. PICK slash \in PathUnit : slash = "/"
    BY SlashIs
  <2>2. <<slash>> \in Seq(PathUnit)
    BY OneIs
  <2> QED
    BY <1>2, <2>1, <2>2 DEF Clean, Pathed
<1>4. CASE Split(w).has_scheme /\ Parse(w, base) = Absolute(r, RawWarnings(Split(w)))
  <2>1. PICK path \in Seq(PathUnit) : path = RemoveDotSegments(r.path)
    BY <1>3, RemovedIn, SlashIs
  <2>2. Parse(w, base).url.path = IF r.has_authority /\ path = << >> THEN <<"/">> ELSE path
    BY <1>1, <1>4, <2>1, AbsoluteIs
  <2> QED
    BY <1>3, <2>1, <2>2
<1>5. CASE /\ ~Split(w).has_scheme /\ base # NoBase
           /\ Parse(w, base) = Relative(r, BaseRaw(Split(base)), RawWarnings(Split(w)))
  <2>1. PICK b : b = BaseRaw(Split(base))
    OBVIOUS
  <2>2. PICK f : f = Raw(Split(base))
    OBVIOUS
  <2>3. Clean(f)
    BY <1>5, <2>2, ParseWell, CleanRaw
  <2>4. b.path \in Seq(PathUnit)
    <3>1. f.path \in Seq(PathUnit)
      BY <2>3 DEF Clean, Pathed
    <3>2. b.path = RemoveDotSegments(f.path)
      BY <2>1, <2>2, BaseRawIs
    <3> QED
      BY <3>1, <3>2, RemovedIn, SlashIs
  <2>5. RemoveDotSegments(JoinedPath(b, r)) \in Seq(PathUnit)
    <3>1. PICK joined \in Seq(PathUnit) : joined = JoinedPath(b, r)
      BY <1>3, <2>4, JoinedPlain
    <3> QED
      BY <3>1, RemovedIn, SlashIs
  <2>6. PICK path \in Seq(PathUnit) : path = IF KeepsPath(r) THEN b.path ELSE RemoveDotSegments(JoinedPath(b, r))
    BY <2>4, <2>5
  <2>7. Relative(r, b, RawWarnings(Split(w))).status = "OK"
    BY <1>5, <2>1
  <2>8. Parse(w, base).url.path \in {<<"/">>, path}
    BY <1>1, <1>5, <2>1, <2>6, <2>7, RelativeIs
  <2> QED
    BY <1>3, <2>6, <2>8
<1> QED
  BY <1>1, <1>4, <1>5, ParseIs

LEMMA FragmentParsed ==
  ASSUME NEW w \in Seq(Unit), NEW base \in Seq(Unit) \cup {NoBase}, Parse(w, base).status = "OK"
  PROVE  Parse(w, base).url.has_fragment \in BOOLEAN /\ Parse(w, base).url.fragment \in Seq(Unit)
<1>1. PICK c, r : c = Split(w) /\ r = Raw(c)
  OBVIOUS
<1>2. Clean(r)
  BY <1>1, ParseWell, CleanRaw
<1>3. r.has_fragment \in BOOLEAN /\ r.fragment \in Seq(Unit)
  <2>1. r.fragment \in Seq(PlainUnit) /\ r.has_fragment \in BOOLEAN
    BY <1>2 DEF Clean, Fragmented
  <2> QED
    BY <2>1, SeqIn, PlainAre
<1>4. \A t, warnings : /\ Finished(t, warnings).url.has_fragment = t.has_fragment
                       /\ Finished(t, warnings).url.fragment = t.fragment
  BY DEF Finished
<1>5. CASE Split(w).has_scheme /\ Parse(w, base) = Absolute(r, RawWarnings(c))
  <2>1. PICK p : p = RemoveDotSegments(r.path)
    OBVIOUS
  <2>2. PICK t : t = [r EXCEPT !.path = p]
    OBVIOUS
  <2>3. t.has_fragment = r.has_fragment /\ t.fragment = r.fragment
    BY <1>1, <2>2 DEF Raw
  <2>4. \E warnings : Parse(w, base) = Finished(t, warnings)
    BY <1>5, <2>1, <2>2 DEF Absolute
  <2> QED
    BY <1>3, <1>4, <2>3, <2>4
<1>6. CASE Parse(w, base) = Relative(r, BaseRaw(Split(base)), RawWarnings(c))
  <2>1. PICK b : b = BaseRaw(Split(base))
    OBVIOUS
  <2>2. PICK t : Targets(t, b, r)
    BY DEF Targets
  <2>3. t.has_fragment = r.has_fragment /\ t.fragment = r.fragment
    BY <1>1, <2>2, TargetIs DEF IsRaw
  <2>4. \E warnings : Parse(w, base) = Finished(t, warnings)
    <3>1. Failed("OVERFLOW").status # "OK"
      BY DEF Failed
    <3>2. Relative(r, b, RawWarnings(c)).status = "OK"
      BY <1>6, <2>1
    <3>3. \E warnings : Relative(r, b, RawWarnings(c)) = Finished(t, warnings)
      BY <2>2, <3>1, <3>2 DEF Relative, Targets
    <3> QED
      BY <1>6, <2>1, <3>3
  <2> QED
    BY <1>3, <1>4, <2>3, <2>4
<1> QED
  BY <1>1, <1>5, <1>6, ParseIs

\* A text whose query is q: what stands before the question mark has none, and
\* no hash.
AsksFor(rest, q) ==
  /\ Asks(rest)
  /\ \E hf \in BOOLEAN, f \in Seq(Unit) : \E u, v :
       Marked(u, "?", TRUE, q) /\ Marked(v, "#", hf, f) /\ Joined(rest, u, v)
Carries(w, q) == \E pre, rest : Leading(w, pre, rest) /\ AsksFor(rest, q)

LEMMA CarriedIs ==
  ASSUME NEW q \in Seq(Unit), Clear(q, {"#"}), NEW w, Carries(w, q)
  PROVE  w \in Seq(Unit) /\ Query(w) = q
<1>1. PICK pre, rest : Leading(w, pre, rest) /\ AsksFor(rest, q)
  BY DEF Carries
<1>2. PICK hf \in BOOLEAN, f \in Seq(Unit) : \E u, v :
        Marked(u, "?", TRUE, q) /\ Marked(v, "#", hf, f) /\ Joined(rest, u, v)
  BY <1>1 DEF AsksFor
<1>3. PICK u, v : Marked(u, "?", TRUE, q) /\ Marked(v, "#", hf, f) /\ Joined(rest, u, v)
  BY <1>2
<1>4. Asks(rest)
  BY <1>1 DEF AsksFor
<1> QED
  BY <1>1, <1>4, <1>3, AskAt, QueryReached

\* More before it changes nothing.
LEMMA CarriedBehind ==
  ASSUME NEW q, NEW w, Carries(w, q), NEW pre \in Seq(Unit), Clear(pre, {"?", "#"}), NEW x, Joined(x, pre, w)
  PROVE  Carries(x, q)
<1>1. PICK front, rest : Leading(w, front, rest) /\ AsksFor(rest, q)
  BY DEF Carries
<1>2. front \in Seq(Unit) /\ Clear(front, {"?", "#"}) /\ Joined(w, front, rest) /\ rest \in Seq(Unit)
  BY <1>1 DEF Leading, AsksFor, Asks
<1>3. PICK more : Joined(more, pre, front)
  BY DEF Joined
<1>4. more \in Seq(Unit) /\ Clear(more, {"?", "#"})
  BY <1>2, <1>3, ClearJoin, ConcatProperties DEF Joined
<1>5. Joined(x, more, rest)
  BY <1>2, <1>3, Regroup
<1>6. Leading(x, more, rest)
  BY <1>4, <1>5 DEF Leading
<1> QED
  BY <1>1, <1>6 DEF Carries

IsUrl(url) == \E t, warnings : url = Finished(t, warnings).url

LEMMA ParsedUrl ==
  ASSUME NEW w, NEW base, Parse(w, base).status = "OK"
  PROVE  IsUrl(Parse(w, base).url)
<1>1. PICK c, r, b, k : c = Split(w) /\ r = Raw(c) /\ b = BaseRaw(Split(base)) /\ k = RawWarnings(c)
  OBVIOUS
<1>2. CASE Parse(w, base) = Absolute(r, k)
  <2>1. \E t, warnings : Absolute(r, k) = Finished(t, warnings)
    BY DEF Absolute
  <2> QED
    BY <1>2, <2>1 DEF IsUrl
<1>3. CASE Parse(w, base) = Relative(r, b, k)
  <2>1. Failed("OVERFLOW").status # "OK"
    BY DEF Failed
  <2>2. \E t, warnings : Relative(r, b, k) = Finished(t, warnings)
    BY <1>3, <2>1 DEF Relative
  <2> QED
    BY <1>3, <2>2 DEF IsUrl
<1> QED
  BY <1>1, <1>2, <1>3, ParseIs

Retargeted(to, url, q) ==
  /\ to.scheme = url.scheme /\ to.has_authority = url.has_authority /\ to.host = url.host
  /\ to.has_port = url.has_port /\ to.port = url.port /\ to.path = url.path
  /\ to.has_query = TRUE /\ to.query = q
  /\ to.has_fragment = url.has_fragment /\ to.fragment = url.fragment

IsFields(url, a, b, c, d, e, f, g, h, i, j) ==
  url = [scheme |-> a, has_authority |-> b, host |-> c, has_port |-> d, port |-> e, path |-> f,
         has_query |-> g, query |-> h, has_fragment |-> i, fragment |-> j]

LEMMA FieldsSet ==
  ASSUME NEW url, NEW a, NEW b, NEW c, NEW d, NEW e, NEW f, NEW g, NEW h, NEW i, NEW j,
         IsFields(url, a, b, c, d, e, f, g, h, i, j), NEW q, NEW to, to = [url EXCEPT !.query = q, !.has_query = TRUE]
  PROVE  Retargeted(to, url, q)
BY DEF IsFields, Retargeted

LEMMA TargetGet ==
  ASSUME NEW url, IsUrl(url), NEW q
  PROVE  Retargeted(Target("GET", url, q), url, q)
<1>1. PICK t, warnings : url = Finished(t, warnings).url
  BY DEF IsUrl
<1>2. PICK to : to = Target("GET", url, q)
  OBVIOUS
<1>3. \E d, e, f :
        IsFields(url, t.scheme, t.has_authority, t.host, d, e, f,
                 t.has_query, t.query, t.has_fragment, t.fragment)
  BY <1>1 DEF Finished, IsFields
<1>4. to = [url EXCEPT !.query = q, !.has_query = TRUE]
  BY <1>2 DEF Target
<1>5. Retargeted(to, url, q)
  BY <1>3, <1>4, FieldsSet
<1> QED
  BY <1>2, <1>5

\* What stands before the query of a text.
Quiet == Unit \ {"?", "#"}

LEMMA QuietAre ==
  /\ HostUnit \subseteq Quiet /\ PathUnit \subseteq Quiet /\ Digit \subseteq Quiet
  /\ {"s", ":", "/"} \subseteq Quiet /\ Quiet \subseteq Unit
BY DEF Quiet, HostUnit, PathUnit, PlainUnit, Unit, Digit, Alpha, Punctuation

AuthorityText(url) ==
  IF ~url.has_authority THEN << >>
  ELSE <<"/", "/">> \o url.host \o
       (IF url.has_port THEN <<":">> \o Decimal(url.port) ELSE << >>)

LEMMA AuthorityQuiet ==
  ASSUME NEW url, url.has_authority => Sound(url)
  PROVE  AuthorityText(url) \in Seq(Quiet)
<1>1. CASE ~url.has_authority
  BY <1>1, EmptySeq DEF AuthorityText
<1>2. CASE url.has_authority
  <2>1. PICK h \in Seq(Quiet) : h = url.host
    <3>1. url.host \in Seq(HostUnit)
      BY <1>2 DEF Sound, Hosted
    <3> QED
      BY <3>1, QuietAre, SeqIn
  <2>2. PICK e \in Seq(Quiet) : e = IF url.has_port THEN <<":">> \o Decimal(url.port) ELSE << >>
    <3>1. CASE ~url.has_port
      BY <3>1, EmptySeq
    <3>2. CASE url.has_port
      <4>1. url.port \in Nat
        BY <1>2, <3>2, SoundParts, UrlConstants
      <4>2. PICK d \in Seq(Quiet) : d = Decimal(url.port)
        BY <4>1, DecimalIs, QuietAre, SeqIn
      <4>3. PICK colon \in Quiet : colon = ":"
        BY QuietAre
      <4>4. <<colon>> \o d \in Seq(Quiet)
        BY ConcatProperties
      <4> QED
        BY <3>2, <4>2, <4>3, <4>4
    <3> QED
      BY <3>1, <3>2
  <2>3. PICK slash \in Quiet : slash = "/"
    BY QuietAre
  <2>4. <<slash, slash>> \o h \o e \in Seq(Quiet)
    BY ConcatProperties
  <2>5. AuthorityText(url) = <<slash, slash>> \o h \o e
    BY <1>2, <2>1, <2>2, <2>3 DEF AuthorityText
  <2> QED
    BY <2>4, <2>5
<1> QED
  BY <1>1, <1>2

LEMMA TextCarries ==
  ASSUME NEW url, url.scheme = <<"s">>, url.path \in Seq(PathUnit), url.has_authority => Sound(url),
         url.has_fragment \in BOOLEAN, url.fragment \in Seq(Unit), NEW q \in Seq(Unit),
         NEW to, Retargeted(to, url, q), NEW text, text = Serialize(to, MaxLen), text # Overflow
  PROVE  Carries(text, q)
<1>1. PICK a \in Seq(Quiet) : a = AuthorityText(url)
  BY AuthorityQuiet
<1>2. PICK s \in Seq(Quiet), colon \in Seq(Quiet) : s = <<"s">> /\ colon = <<":">>
  <2>1. PICK c \in Quiet, d \in Quiet : c = "s" /\ d = ":"
    BY QuietAre
  <2>2. <<c>> \in Seq(Quiet) /\ <<d>> \in Seq(Quiet)
    OBVIOUS
  <2> QED
    BY <2>1, <2>2
<1>3. PICK p \in Seq(Quiet) : p = url.path
  BY QuietAre, SeqIn
<1>4. PICK pre \in Seq(Quiet) : pre = s \o colon \o a \o p
  BY ConcatProperties
<1>5. pre \in Seq(Unit) /\ Clear(pre, {"?", "#"})
  BY SeqIn DEF Quiet, Clear
<1>6. PICK u : Marked(u, "?", TRUE, q)
  BY DEF Marked
<1>7. PICK v : Marked(v, "#", url.has_fragment, url.fragment)
  BY DEF Marked
<1>8. u \in Seq(Unit) /\ u # << >> /\ u[1] = "?" /\ v \in Seq(Unit)
  <2>1. "?" \in Unit /\ "#" \in Unit
    BY MarksAre
  <2> QED
    BY <1>6, <1>7, <2>1, MarkedIs
<1>9. PICK rest : Joined(rest, u, v)
  BY DEF Joined
<1>10. Asks(rest)
  BY <1>8, <1>9, HeadJoin, ConcatProperties DEF Asks, Joined
<1>11. AsksFor(rest, q)
  BY <1>6, <1>7, <1>9, <1>10 DEF AsksFor
<1>12. PICK x : Joined(x, pre, rest)
  BY DEF Joined
<1>13. x = (pre \o u) \o v
  <2>1. PICK y : Joined(y, pre, u)
    BY DEF Joined
  <2>2. Joined(x, y, v)
    BY <1>5, <1>8, <1>9, <1>12, <2>1, Regroup
  <2> QED
    BY <2>1, <2>2 DEF Joined
<1>14. Serialize(to, MaxLen) = IF Size(x) > MaxLen THEN Overflow ELSE x
  <2>1. AuthorityText(to) = a
    BY <1>1 DEF Retargeted, AuthorityText
  <2>2. (IF to.has_query THEN <<"?">> \o to.query ELSE << >>) = u
    BY <1>6 DEF Marked, Retargeted
  <2>3. (IF to.has_fragment THEN <<"#">> \o to.fragment ELSE << >>) = v
    BY <1>7 DEF Marked, Retargeted
  <2>4. to.scheme = s /\ to.path = p
    BY <1>2, <1>3 DEF Retargeted
  <2>5. x = to.scheme \o <<":">> \o AuthorityText(to) \o to.path \o u \o v
    BY <1>2, <1>4, <1>13, <2>1, <2>4, Zenon
  <2> QED
    BY <2>2, <2>3, <2>5, Zenon DEF Serialize, AuthorityText
<1>15. text = x
  BY <1>14
<1>16. Leading(text, pre, rest)
  BY <1>5, <1>12, <1>15 DEF Leading
<1> QED
  BY <1>11, <1>16 DEF Carries

\* What the host makes of a text with a query is asked with that query.
LEMMA PreparedQuery ==
  ASSUME NEW q \in Seq(Unit), Clear(q, {"#"}), NEW text, Carries(text, q), PrepareUrl(text).status = "OK"
  PROVE  PrepareUrl(text).url.query = Normalized(q)
<1>1. PICK w : w = WithHttps(text)
  OBVIOUS
<1>2. Carries(w, q)
  <2>1. CASE NamesScheme(text)
    BY <1>1, <2>1 DEF WithHttps
  <2>2. CASE ~NamesScheme(text)
    <3>1. PICK s \in Quiet, colon \in Quiet, slash \in Quiet : s = "s" /\ colon = ":" /\ slash = "/"
      BY QuietAre
    <3>2. PICK pre \in Seq(Quiet) : pre = <<s, colon, slash, slash>>
      <4>1. <<s, colon, slash, slash>> \in Seq(Quiet)
        OBVIOUS
      <4> QED
        BY <4>1
    <3>3. pre \in Seq(Unit) /\ Clear(pre, {"?", "#"})
      BY SeqIn DEF Quiet, Clear
    <3>4. Joined(w, pre, text)
      BY <1>1, <2>2, <3>1, <3>2 DEF Joined, WithHttps
    <3> QED
      BY <3>3, <3>4, CarriedBehind
  <2> QED
    BY <2>1, <2>2
<1>3. w \in Seq(Unit) /\ Query(w) = q
  BY <1>2, CarriedIs
<1>4. PICK result : result = Parse(w, NoBase)
  OBVIOUS
<1>5. PrepareUrl(text) = HttpsOnly(result)
  BY <1>1, <1>4 DEF PrepareUrl
<1>6. result.status = "OK" /\ HttpsOnly(result) = result
  <2>1. Failed("ARGS").status # "OK" /\ Failed("SCHEME").status # "OK"
    BY DEF Failed
  <2> QED
    BY <1>5, <2>1 DEF HttpsOnly
<1>7. PICK c, r, k : c = Split(w) /\ r = Raw(c) /\ k = RawWarnings(c)
  OBVIOUS
<1>8. result = Absolute(r, k)
  BY <1>4, <1>6, <1>7, ParseIs
<1>9. r.query = Normalized(q)
  <2>1. c.query = q
    BY <1>3, <1>7 DEF Split
  <2>2. r.query = Normalized(c.query)
    BY <1>7 DEF Raw
  <2> QED
    BY <2>1, <2>2
<1>10. result.url.query = r.query
  <2>1. PICK p : p = RemoveDotSegments(r.path)
    OBVIOUS
  <2>2. PICK t : t = [r EXCEPT !.path = p]
    OBVIOUS
  <2>3. t.query = r.query
    BY <1>7, <2>2 DEF Raw
  <2>4. \E warnings : result = Finished(t, warnings)
    BY <1>8, <2>1, <2>2 DEF Absolute
  <2>5. \A warnings : Finished(t, warnings).url.query = t.query
    BY DEF Finished
  <2> QED
    BY <2>3, <2>4, <2>5
<1> QED
  BY <1>5, <1>6, <1>9, <1>10

\* Fields none of which is a null pointer.
LEMMA WholeIs ==
  ASSUME NEW fs \in Seq([name : Seq(FieldByte) \cup {Null}, value : Seq(FieldByte) \cup {Null}]),
         FieldsError(fs) = "OK"
  PROVE  fs \in Seq(Entry)
<1>1. Whole(fs) = fs
  <2>1. PICK checks : checks = << <<Size(EncodedFields(Whole(fs))) > BodyMax, "OVERFLOW">>,
                                  <<Whole(fs) # fs, "NULL">> >>
    OBVIOUS
  <2>2. PICK n \in Nat : n = 2 /\ Len(checks) = n
    BY <2>1
  <2>3. FirstError(checks) = "OK"
    BY <2>1 DEF FieldsError
  <2>4. \A i \in 1..n : checks[i][2] # "OK"
    BY <2>1, <2>2
  <2>5. \A i \in 1..n : ~checks[i][1]
    BY <2>2, <2>3, <2>4, FirstErrorIs
  <2>6. ~checks[2][1]
    BY <2>2, <2>5
  <2> QED
    BY <2>1, <2>6
<1> DEFINE I == {i \in 1..Len(fs) : IsNull(fs[i])}
<1>2. /\ Len(fs) \in Nat /\ I \in SUBSET Nat
      /\ Whole(fs) = IF (IF I # {} THEN Min(I) ELSE 0) = 0 THEN fs
                     ELSE SubSeq(fs, 1, (IF I # {} THEN Min(I) ELSE 0) - 1)
  BY DEF Whole, SelectInSeq
<1>3. I = {}
  <2>1. SUFFICES ASSUME I # {} PROVE FALSE
    OBVIOUS
  <2>2. PICK k \in 1..Len(fs) : k = Min(I)
    <3>1. I \in SUBSET (1..Len(fs))
      OBVIOUS
    <3> HIDE DEF I
    <3>2. Min(I) \in I
      BY <1>2, <2>1, MinIs
    <3> QED
      BY <3>1, <3>2
  <2> HIDE DEF I
  <2>3. Whole(fs) = SubSeq(fs, 1, k - 1)
    BY <1>2, <2>1, <2>2
  <2>4. PICK j \in Nat : k = j + 1 /\ j \in 0..Len(fs) /\ j # Len(fs)
    <3>1. k - 1 \in Nat /\ k = (k - 1) + 1 /\ k - 1 \in 0..Len(fs) /\ k - 1 # Len(fs)
      BY <1>2
    <3> QED
      BY <3>1
  <2>5. Len(SubSeq(fs, 1, j)) = j
    BY <2>4, Halves
  <2>6. k - 1 = j
    BY <2>4
  <2> QED
    BY <1>1, <2>3, <2>4, <2>5, <2>6
<1>4. ASSUME NEW i \in 1..Len(fs) PROVE fs[i] \in Entry
  <2>1. ~IsNull(fs[i])
    BY <1>3
  <2>2. PICK f \in [name : Seq(FieldByte) \cup {Null}, value : Seq(FieldByte) \cup {Null}] : f = fs[i]
    <3>1. PICK R : R = [name : Seq(FieldByte) \cup {Null}, value : Seq(FieldByte) \cup {Null}]
      OBVIOUS
    <3>2. fs \in Seq(R)
      BY <3>1
    <3>3. fs[i] \in R
      BY <3>2
    <3> QED
      BY <3>1, <3>3
  <2>3. f.name \in Seq(FieldByte) /\ f.value \in Seq(FieldByte)
    BY <2>1, <2>2 DEF IsNull
  <2>4. f \in Entry
    BY <2>3 DEF Entry
  <2> QED
    BY <2>2, <2>4
<1> QED
  BY <1>4, SeqIn

\* What is asked of a form whose request is made.
AskedOf(f, parse, text) ==
  /\ parse = Parse(f.action, f.base) /\ text = EncodedFields(f.fields)
  /\ parse.status = "OK" /\ parse.url.scheme = <<"s">>
  /\ f.action \in Seq(Unit) /\ f.base \in Seq(Unit) \cup {NoBase} /\ f.fields \in Seq(Entry)

LEMMA SubmittedIs ==
  ASSUME NEW f \in Submits, NEW result, result = Submit(f.method, f.action, f.base, f.fields),
         result.status = "OK"
  PROVE  \E parse, text :
           /\ AskedOf(f, parse, text) /\ result.method = f.method
           /\ f.method = "GET" => /\ result.url = Serialize(Target("GET", parse.url, text), MaxLen)
                                  /\ result.url # Overflow
           /\ f.method # "GET" => result.body = text
<1>1. PICK method, action, base, fs : method = f.method /\ action = f.action /\ base = f.base /\ fs = f.fields
  OBVIOUS
<1>2. /\ method \in Method /\ action \in Seq(Unit) \cup {Null} /\ base \in Seq(Unit) \cup {NoBase}
      /\ fs \in Seq([name : Seq(FieldByte) \cup {Null}, value : Seq(FieldByte) \cup {Null}])
  BY <1>1, RequestConstants
<1>3. \A m, code : code # "OK" => Refuse(m, code).status # "OK"
  BY DEF Refuse
<1>4. /\ action # Null /\ method # "OTHER" /\ FieldsError(fs) = "OK"
      /\ result = Submitted(method, Parse(action, base), EncodedFields(fs))
  <2>1. Refuse(method, "NULL").status # "OK" /\ Refuse(method, "METHOD").status # "OK"
    BY <1>3
  <2>2. FieldsError(fs) # "OK" => Refuse(method, FieldsError(fs)).status # "OK"
    BY <1>3
  <2>3. result = Submit(method, action, base, fs)
    BY <1>1
  <2> QED
    BY <2>1, <2>2, <2>3 DEF Submit
<1>5. fs \in Seq(Entry) /\ action \in Seq(Unit)
  BY <1>2, <1>4, WholeIs
<1>6. PICK parse, text : parse = Parse(action, base) /\ text = EncodedFields(fs)
  OBVIOUS
<1>7. PICK url : url = Serialize(Target(method, parse.url, text), MaxLen)
  OBVIOUS
<1>8. /\ parse.status = "OK" /\ parse.url.scheme = <<"s">> /\ url # Overflow
      /\ result.method = method /\ result.url = url
      /\ result.body = IF method = "POST" THEN text ELSE << >>
  <2>1. /\ Refuse(method, "URL").status # "OK" /\ Refuse(method, "SCHEME").status # "OK"
        /\ Refuse(method, "OVERFLOW").status # "OK"
    BY <1>3
  <2>2. result = Submitted(method, parse, text)
    BY <1>4, <1>6
  <2>3. PICK posted, type :
          /\ posted = IF method = "POST" THEN text ELSE << >>
          /\ type = IF method = "POST" THEN "application/x-www-form-urlencoded" ELSE ""
    OBVIOUS
  <2>4. PICK full : full = (method = "GET" /\ Size(text) > QueryMax)
    OBVIOUS
  <2>5. PICK made :
          made = [status |-> "OK", method |-> method, url |-> url, body |-> posted, content_type |-> type]
    OBVIOUS
  <2>6. result = IF parse.status # "OK" THEN Refuse(method, "URL")
                 ELSE IF parse.url.scheme # <<"s">> THEN Refuse(method, "SCHEME")
                 ELSE IF full THEN Refuse(method, "OVERFLOW")
                 ELSE IF url = Overflow THEN Refuse(method, "OVERFLOW")
                 ELSE made
    BY <1>7, <2>2, <2>3, <2>4, <2>5, Zenon DEF Submitted
  <2>7. parse.status = "OK" /\ parse.url.scheme = <<"s">> /\ url # Overflow /\ result = made
    <3>1. PICK no, other, over : /\ no = Refuse(method, "URL") /\ other = Refuse(method, "SCHEME")
                                 /\ over = Refuse(method, "OVERFLOW")
      OBVIOUS
    <3>2. result # no /\ result # other /\ result # over
      BY <2>1, <3>1
    <3> QED
      BY <2>6, <3>1, <3>2
  <2>8. method = made.method /\ url = made.url /\ posted = made.body
    BY <2>5
  <2> QED
    BY <2>3, <2>7, <2>8, Zenon
<1>9. method # "GET" => method = "POST"
  BY <1>2, <1>4 DEF Method
<1>10. AskedOf(f, parse, text)
  BY <1>1, <1>2, <1>5, <1>6, <1>8 DEF AskedOf
<1>11. f.method = "GET" => result.url = Serialize(Target("GET", parse.url, text), MaxLen) /\ result.url # Overflow
  BY <1>1, <1>7, <1>8
<1>12. result.method = f.method /\ (f.method # "GET" => result.body = text)
  BY <1>1, <1>8, <1>9
<1> QED
  BY <1>10, <1>11, <1>12

LEMMA FormStep == RequestInv => FieldsReachTheServer
<1> SUFFICES ASSUME RequestInv, call.kind = "form", stage = "prepared", form.status = "OK", prepared.status = "OK"
             PROVE  FieldsIn(IF form.method = "GET" THEN prepared.url.query ELSE form.body) = call.of.fields
  BY DEF FieldsReachTheServer
<1>1. PICK f : f = call.of
  OBVIOUS
<1>2. f \in Submits
  BY <1>1 DEF RequestInv, Calls
<1>3. form = Submit(f.method, f.action, f.base, f.fields) /\ target = form.url /\ prepared = PrepareUrl(target)
  BY <1>1 DEF RequestInv
<1>4. PICK parse, text :
        /\ AskedOf(f, parse, text) /\ form.method = f.method
        /\ f.method = "GET" => form.url = Serialize(Target("GET", parse.url, text), MaxLen) /\ form.url # Overflow
        /\ f.method # "GET" => form.body = text
  BY <1>2, <1>3, SubmittedIs
<1>5. /\ parse = Parse(f.action, f.base) /\ text = EncodedFields(f.fields)
      /\ parse.status = "OK" /\ parse.url.scheme = <<"s">>
      /\ f.action \in Seq(Unit) /\ f.base \in Seq(Unit) \cup {NoBase} /\ f.fields \in Seq(Entry)
  BY <1>4 DEF AskedOf
<1>6. text \in Seq(Unit) /\ Clear(text, {"#"}) /\ \A n \in BOOLEAN : FieldsIn(Sent(text, n)) = f.fields
  BY <1>5, FieldsRead
<1>7. CASE f.method = "GET"
  <2>1. PICK url : url = parse.url
    OBVIOUS
  <2>2. IsUrl(url) /\ url.path \in Seq(PathUnit) /\ (url.has_authority => Sound(url))
    BY <1>5, <2>1, ParsedUrl, PlainPath, ParseSound
  <2>3. url.has_fragment \in BOOLEAN /\ url.fragment \in Seq(Unit) /\ url.scheme = <<"s">>
    BY <1>5, <2>1, FragmentParsed
  <2>4. PICK to : to = Target("GET", url, text)
    OBVIOUS
  <2>5. Retargeted(to, url, text)
    BY <2>2, <2>4, TargetGet
  <2>6. target = Serialize(to, MaxLen) /\ target # Overflow
    BY <1>3, <1>4, <1>7, <2>1, <2>4
  <2>7. Carries(target, text)
    BY <1>6, <2>2, <2>3, <2>5, <2>6, TextCarries
  <2>8. prepared.url.query = Normalized(text)
    BY <1>3, <1>6, <2>7, PreparedQuery
  <2>9. Normalized(text) = Sent(text, TRUE)
    BY DEF Sent
  <2> QED
    BY <1>1, <1>4, <1>6, <1>7, <2>8, <2>9
<1>8. CASE f.method # "GET"
  <2>1. text = Sent(text, FALSE)
    BY DEF Sent
  <2> QED
    BY <1>1, <1>4, <1>6, <1>8, <2>1
<1> QED
  BY <1>7, <1>8

\* The server gets the fields of a form as they were entered, for every field,
\* action and base: in the body of a POST, and in the query of the URL the host
\* prepares for a GET, which it reads again and normalizes.
THEOREM FieldsReach == Spec => []FieldsReachTheServer
BY RequestSafe, FormStep, PTL

(***************************************************************************)
(* How long an href is that has been read.                                 *)
(***************************************************************************)
LEMMA ThinSize ==
  ASSUME NEW n \in 2..4, NEW w \in Seq(Unit), w = [i \in 1..n |-> NonAscii]
  PROVE  Size(w) = n
<1>1. PICK r : Sums(r, w) /\ Size(w) = r[Len(w)]
  BY SizeFold
<1>2. Len(w) = n /\ \A i \in 1..n : w[i] = NonAscii
  OBVIOUS
<1>3. Width(NonAscii) = 1
  BY DEF Width, NonAscii, Triplet, BadTriplet
<1>4. r[0] = 0 /\ \A k \in 1..n : r[k] = r[k - 1] + 1
  BY <1>1, <1>2, <1>3 DEF Sums
<1>5. r[1] = 1
  <2>1. 1 \in 1..n /\ 1 - 1 = 0
    OBVIOUS
  <2> QED
    BY <1>4, <2>1
<1>6. r[2] = 2
  <2>1. 2 \in 1..n /\ 2 - 1 = 1
    OBVIOUS
  <2> QED
    BY <1>4, <1>5, <2>1
<1>7. n >= 3 => r[3] = 3
  <2>1. n >= 3 => 3 \in 1..n /\ 3 - 1 = 2
    OBVIOUS
  <2> QED
    BY <1>4, <1>6, <2>1
<1>8. n = 4 => r[4] = 4
  <2>1. n = 4 => 4 \in 1..n /\ 4 - 1 = 3
    OBVIOUS
  <2> QED
    BY <1>4, <1>7, <2>1
<1> QED
  BY <1>1, <1>2, <1>6, <1>7, <1>8

\* The characters of ASCII among the units are of one byte.
LEMMA AsciiWidth == DOMAIN Ascii \in SUBSET Unit /\ \A c \in DOMAIN Ascii : Width(c) = 1
<1>1. DOMAIN Ascii = Alpha \cup Digit \cup Punctuation \cup {" "}
  BY DEF Ascii, Alnum
<1>2. Alpha \cup Digit \cup Punctuation \cup {" "} \in SUBSET Unit
  BY DEF Unit, Refused
<1>3. \A c \in Alpha \cup Digit \cup Punctuation \cup {" "} : c \notin Triplet /\ c # BadTriplet
  BY DEF Alpha, Digit, Punctuation, Triplet, BadTriplet
<1> QED
  BY <1>1, <1>2, <1>3 DEF Width

\* A character takes at most four bytes, and two below 2048.
LEMMA Utf8Size ==
  ASSUME NEW code
  PROVE  /\ Size(Utf8(code)) \in 1..4
         /\ code \in {38, 160} => Size(Utf8(code)) <= 2
<1>1. CASE code < 128
  <2>1. \E c : Utf8(code) = <<c>> /\ Width(c) \in 1..2
    <3>1. CASE \E c \in Unit : Stands(c, code)
      <4>1. PICK c \in Unit : c = CHOOSE d \in Unit : Stands(d, code)
        BY <3>1
      <4>2. Stands(c, code)
        BY <3>1, <4>1
      <4>3. Width(c) = 1
        BY <4>2, AsciiWidth DEF Stands
      <4>4. Utf8(code) = <<c>>
        BY <1>1, <3>1, <4>1 DEF Utf8
      <4> QED
        BY <4>3, <4>4
    <3>2. CASE ~\E c \in Unit : Stands(c, code)
      <4>1. Utf8(code) = <<OtherAscii(code)>>
        BY <1>1, <3>2 DEF Utf8
      <4> QED
        BY <4>1, OtherAsciiIs
    <3> QED
      BY <3>1, <3>2
  <2> QED
    BY <2>1, SizeOne
<1>2. CASE ~(code < 128)
  <2>1. PICK n \in 2..4 : n = IF code < 2048 THEN 2 ELSE IF code < 65536 THEN 3 ELSE 4
    OBVIOUS
  <2>2. PICK w \in Seq(Unit) : w = Utf8(code)
    BY Utf8Is
  <2>3. w = [i \in 1..n |-> NonAscii]
    BY <1>2, <2>1, <2>2 DEF Utf8
  <2>4. Size(w) = n
    BY <2>3, ThinSize
  <2>5. code \in {38, 160} => n = 2
    BY <1>2, <2>1
  <2> QED
    BY <2>2, <2>4, <2>5
<1> QED
  BY <1>1, <1>2

LEMMA NumericTakes ==
  ASSUME NEW in \in Seq(Unit), ~(Len(in) < 3), NEW p \in 3..4, NEW digits, NEW radix, NEW most,
         NumericReference(in, p, digits, radix, most).length > 0
  PROVE  NumericReference(in, p, digits, radix, most).length \in 4..Len(in)
<1>1. PICK ds \in Seq(Unit) : ds = Run(in, p, digits)
  BY RunIs
<1>2. NoReference.length = 0
  BY DEF NoReference
<1>3. ds # << >> /\ Ended(in, p + Len(ds))
  BY <1>1, <1>2 DEF NumericReference
<1>4. NumericReference(in, p, digits, radix, most).length = p + Len(ds)
  BY <1>1, <1>3 DEF NumericReference
<1>5. Len(ds) \in Nat /\ Len(ds) # 0
  BY <1>3, EmptySeq
<1>6. p + Len(ds) <= Len(in)
  BY <1>3 DEF Ended
<1> QED
  BY <1>4, <1>5, <1>6

LEMMA NamedTakes ==
  ASSUME NEW in \in Seq(Unit), ~(Len(in) < 3), NamedReference(in).length > 0
  PROVE  /\ NamedReference(in).length \in 3..Len(in)
         /\ NamedReference(in).code \in {38, 160}
<1>1. PICK name \in Seq(Unit) : name = Run(in, 2, Alnum)
  BY RunIs
<1>2. NoReference.length = 0
  BY DEF NoReference
<1>3. name \in DOMAIN EntityTable /\ Ended(in, 2 + Len(name))
  BY <1>1, <1>2 DEF NamedReference
<1>4. NamedReference(in) = [length |-> 2 + Len(name), code |-> EntityTable[name]]
  BY <1>1, <1>3 DEF NamedReference
<1>5. name \in {<<"a">>, <<"s">>}
  BY <1>3 DEF EntityTable
<1>6. Len(name) = 1
  BY <1>5
<1>7. EntityTable[name] \in {38, 160}
  BY <1>5 DEF EntityTable
<1>8. 2 + Len(name) <= Len(in)
  BY <1>3 DEF Ended
<1> QED
  BY <1>4, <1>6, <1>7, <1>8

\* What a reference stands for is no longer than the reference.
LEMMA ReferenceTakes ==
  ASSUME NEW in \in Seq(Unit), Refers(in)
  PROVE  \E n \in 1..Len(in) : n = Reference(in).length /\ Size(Utf8(Reference(in).code)) <= n
<1>1. Reference(in).length > 0
  BY DEF Refers
<1>2. NoReference.length = 0
  BY DEF NoReference
<1>3. ~(Len(in) < 3)
  BY <1>1, <1>2 DEF Reference
<1>4. \/ Reference(in) = NumericReference(in, 4, DOMAIN HexValue, 16, MaxHexDigits)
      \/ Reference(in) = NumericReference(in, 3, Digit, 10, MaxDecimals)
      \/ Reference(in) = NamedReference(in)
  BY <1>3, Zenon DEF Reference
<1>5. Size(Utf8(Reference(in).code)) \in 1..4
  BY Utf8Size
<1>6. CASE Reference(in) = NumericReference(in, 4, DOMAIN HexValue, 16, MaxHexDigits)
  <2>1. Reference(in).length \in 4..Len(in)
    BY <1>1, <1>3, <1>6, NumericTakes
  <2> QED
    BY <1>5, <2>1
<1>7. CASE Reference(in) = NumericReference(in, 3, Digit, 10, MaxDecimals)
  <2>1. Reference(in).length \in 4..Len(in)
    BY <1>1, <1>3, <1>7, NumericTakes
  <2> QED
    BY <1>5, <2>1
<1>8. CASE Reference(in) = NamedReference(in)
  <2>1. Reference(in).length \in 3..Len(in) /\ Reference(in).code \in {38, 160}
    BY <1>1, <1>3, <1>8, NamedTakes
  <2>2. Size(Utf8(Reference(in).code)) <= 2
    BY <2>1, Utf8Size
  <2> QED
    BY <1>5, <2>1, <2>2
<1> QED
  BY <1>4, <1>6, <1>7, <1>8

LEMMA HeadParts ==
  ASSUME NEW S, NEW v \in Seq(S), v # << >>
  PROVE  v[1] \in S /\ Tail(v) \in Seq(S) /\ v = <<v[1]>> \o Tail(v)
<1>1. v[1] \in S /\ Tail(v) \in Seq(S)
  BY LeftIs
<1>2. 1 \in 0..Len(v) /\ Len(v) \in Nat \ {0}
  BY EmptySeq
<1>3. /\ SubSeq(v, 1, 1) \in Seq(S) /\ Len(SubSeq(v, 1, 1)) = 1
      /\ v = SubSeq(v, 1, 1) \o SubSeq(v, 1 + 1, Len(v))
  BY <1>2, Halves
<1>4. PICK a \in Seq(S) : a = SubSeq(v, 1, 1) /\ Len(a) = 1
  BY <1>3
<1>5. a[1] = v[1]
  <2>1. PICK m : m = 1
    OBVIOUS
  <2>2. m \in 1..(Len(v) + 1) /\ m \in (m - 1)..Len(v)
    BY <1>2, <2>1
  <2>3. \A i \in 1..(m - m + 1) : SubSeq(v, m, m)[i] = v[m + i - 1]
    BY <2>2, PartIs
  <2> QED
    BY <1>4, <2>1, <2>3
<1>6. a = <<v[1]>>
  <2>1. PICK o \in Seq(S) : o = <<v[1]>> /\ Len(o) = 1 /\ o[1] = v[1]
    BY <1>1, OneIs
  <2>2. \A i \in 1..1 : a[i] = o[i]
    BY <1>5, <2>1
  <2> QED
    BY <1>4, <2>1, <2>2, SeqEqual
<1> QED
  BY <1>1, <1>3, <1>4, <1>6, TailIs

LEMMA HrefSize ==
  ASSUME NEW w \in Seq(Unit)
  PROVE  Size(HrefText(w)) <= Size(w)
<1> DEFINE D == Seq(Unit)
           size == [v \in D |-> Len(v)]
           Q == {v \in D : Size(HrefText(v)) <= Size(v)}
<1>1. ASSUME NEW v \in D, \A u \in D : Len(u) < Len(v) => Size(HrefText(u)) <= Size(u)
      PROVE  Size(HrefText(v)) <= Size(v)
  <2>1. CASE v = << >>
    <3>1. HrefText(v) = v
      BY <2>1, HrefTurn
    <3>2. Size(v) \in Nat
      BY SizeIs
    <3> QED
      BY <3>1, <3>2
  <2>2. CASE v # << >> /\ Refers(v)
    <3>1. PICK n \in 1..Len(v) : n = Reference(v).length /\ Size(Utf8(Reference(v).code)) <= n
      BY <2>2, ReferenceTakes
    <3>2. PICK a \in Seq(Unit), b \in Seq(Unit) :
            a = SubSeq(v, 1, n) /\ b = SubSeq(v, n + 1, Len(v)) /\ Len(a) = n /\ Len(b) = Len(v) - n /\ v = a \o b
      <4>1. n \in 0..Len(v)
        BY <3>1
      <4>2. /\ SubSeq(v, 1, n) \in Seq(Unit) /\ SubSeq(v, n + 1, Len(v)) \in Seq(Unit)
            /\ Len(SubSeq(v, 1, n)) = n /\ Len(SubSeq(v, n + 1, Len(v))) = Len(v) - n
            /\ v = SubSeq(v, 1, n) \o SubSeq(v, n + 1, Len(v))
        BY <4>1, Halves
      <4> QED
        BY <4>2, Zenon
    <3>3. PICK t \in Seq(Unit) : t = Utf8(Reference(v).code)
      BY Utf8Is
    <3>4. PICK h \in Seq(Unit) : h = HrefText(b)
      BY HrefIs
    <3>5. HrefText(v) = t \o h
      BY <2>2, <3>1, <3>2, <3>3, <3>4, HrefTurn
    <3>6. Size(t \o h) = Size(t) + Size(h) /\ Size(v) = Size(a) + Size(b)
      BY <3>2, SizeJoin
    <3>7. Size(a) \in Nat /\ Size(b) \in Nat /\ Size(t) \in Nat /\ Size(h) \in Nat /\ Size(a) >= Len(a)
      BY SizeIs
    <3>8. Len(b) < Len(v)
      <4>1. PICK m \in Nat : m = Len(v)
        OBVIOUS
      <4>2. n \in 1..m /\ Len(b) = m - n
        BY <3>1, <3>2, <4>1
      <4> QED
        BY <4>1, <4>2
    <3>9. Size(h) <= Size(b)
      BY <1>1, <3>4, <3>8
    <3> QED
      <4>1. PICK sa \in Nat, sb \in Nat, st \in Nat, sh \in Nat :
              sa = Size(a) /\ sb = Size(b) /\ st = Size(t) /\ sh = Size(h)
        BY <3>7
      <4>2. sa >= n /\ st <= n /\ sh <= sb
        BY <3>1, <3>2, <3>3, <3>7, <3>9, <4>1
      <4>3. n \in Nat
        OBVIOUS
      <4>4. st + sh <= sa + sb
        BY <4>2, <4>3
      <4> QED
        BY <3>5, <3>6, <4>1, <4>4
  <2>3. CASE v # << >> /\ ~Refers(v)
    <3>1. PICK c \in Unit, b \in Seq(Unit) : c = v[1] /\ b = Tail(v) /\ v = <<c>> \o b
      BY <2>3, HeadParts
    <3>2. PICK h \in Seq(Unit) : h = HrefText(b)
      BY HrefIs
    <3>3. PICK t \in Seq(Unit) : t = <<c>> /\ Len(t) = 1
      BY OneIs
    <3>4. HrefText(v) = t \o h
      BY <2>3, <3>1, <3>2, <3>3, HrefTurn
    <3>5. Size(t \o h) = Size(t) + Size(h) /\ Size(v) = Size(t) + Size(b)
      BY <3>1, <3>3, SizeJoin
    <3>6. Size(b) \in Nat /\ Size(t) \in Nat /\ Size(h) \in Nat
      BY SizeIs
    <3>7. Len(b) < Len(v)
      BY <2>3, <3>1, LeftIs
    <3>8. Size(h) <= Size(b)
      BY <1>1, <3>2, <3>7
    <3> QED
      BY <3>4, <3>5, <3>6, <3>8
  <2> QED
    BY <2>1, <2>2, <2>3
<1>2. Inherited(D, size, Q)
  <2>1. size \in [D -> Nat] /\ \A v \in D : size[v] = Len(v)
    OBVIOUS
  <2>2. Q \in SUBSET D /\ \A v \in D : v \in Q <=> Size(HrefText(v)) <= Size(v)
    OBVIOUS
  <2> HIDE DEF size, Q
  <2> QED
    BY <1>1, <2>1, <2>2 DEF Inherited
<1>3. Q = D
  <2> HIDE DEF size, Q, D
  <2> QED
    BY <1>2, BySize
<1>4. w \in Q
  <2> HIDE DEF Q
  <2> QED
    BY <1>3
<1> QED
  BY <1>4

(***************************************************************************)
(* The number a run of digits stands for.                                  *)
(***************************************************************************)
\* Two units that proofs speak of by name.
Semicolon == ";"
Space == " "

LEMMA EndedIs ==
  ASSUME NEW w, NEW p
  PROVE  Ended(w, p) <=> p <= Len(w) /\ w[p] = Semicolon
BY Zenon DEF Ended, Semicolon

LEMMA HexAre ==
  /\ Digit \in SUBSET DOMAIN HexValue /\ DOMAIN HexValue \in SUBSET (Unit \ {Semicolon})
  /\ \A d \in DOMAIN HexValue : HexValue[d] \in 0..10
  /\ \A d \in Digit : HexValue[d] = DigitValue[d]
  /\ "a" \in DOMAIN HexValue /\ HexValue["a"] = 10
<1>1. DOMAIN HexValue = Digit \cup {"a", "A"}
  BY DEF HexValue
<1>2. Digit \cup {"a", "A"} \in SUBSET Unit
  BY DEF Unit, Alpha
<1>3. Semicolon \notin Digit \cup {"a", "A"} /\ "a" \notin Digit
  BY Zenon DEF Digit, Semicolon
<1>4. \A d \in Digit : HexValue[d] = DigitValue[d] /\ HexValue[d] \in 0..10
  BY DigitsAre DEF HexValue
<1>5. \A d \in (Digit \cup {"a", "A"}) \ Digit : HexValue[d] = 10
  BY DEF HexValue
<1>6. PICK H : H = Digit \cup {"a", "A"}
  OBVIOUS
<1>7. DOMAIN HexValue = H /\ H \in SUBSET Unit /\ Semicolon \notin H /\ Digit \in SUBSET H /\ "a" \in H
  BY <1>1, <1>2, <1>3, <1>6
<1>8. HexValue["a"] = 10
  BY <1>3, <1>5
<1>9. ASSUME NEW d \in H PROVE HexValue[d] \in 0..10
  <2>1. CASE d \in Digit
    BY <1>4, <2>1
  <2>2. CASE d \notin Digit
    <3>1. HexValue[d] = 10
      BY <1>5, <1>6, <2>2
    <3> QED
      BY <3>1
  <2> QED
    BY <2>1, <2>2
<1>10. \A d \in Digit : HexValue[d] = DigitValue[d]
  BY <1>4
<1> QED
  BY <1>7, <1>8, <1>9, <1>10

LEMMA CodesAre ==
  MaxCode \in Nat /\ MaxCode >= 1000 /\ MaxDecimals \in Nat /\ MaxDecimals >= 6 /\ MaxHexDigits \in Nat /\ MaxHexDigits >= 2
BY SMT DEF MaxCode, MaxDecimals, MaxHexDigits

\* r says what the first digits of w come to.
Counts(r, w, radix) ==
  /\ r \in [0..Len(w) -> Nat] /\ r[0] = 0
  /\ \A k \in 1..Len(w) :
       r[k] = IF r[k - 1] <= MaxCode THEN r[k - 1] * radix + HexValue[w[k]] ELSE r[k - 1]

LEMMA NumberFold ==
  ASSUME NEW w \in Seq(DOMAIN HexValue), NEW radix \in {10, 16}, NEW most
  PROVE  \E r : /\ Counts(r, w, radix)
                /\ Number(w, radix, most) =
                     IF r[Len(w)] > MaxCode \/ Len(w) > most THEN Invalid ELSE r[Len(w)]
<1>1. PICK n \in Nat : n = Len(w)
  OBVIOUS
<1>2. DOMAIN w = 1..n
  BY <1>1
<1>p. ASSUME NEW k \in 1..n PROVE HexValue[w[k]] \in Nat
  <2>1. w[k] \in DOMAIN HexValue
    BY <1>1
  <2>2. HexValue[w[k]] \in 0..10
    BY <2>1, HexAre
  <2> QED
    BY <2>2
<1> DEFINE more(v, d) == IF v <= MaxCode THEN v * radix + HexValue[d] ELSE v
           G(f) == [s \in SUBSET DOMAIN w |->
                      IF s = {} THEN 0 ELSE more(f[s \ {Max(s)}], w[Max(s)])]
           g == CHOOSE f : f = G(f)
           T == [k \in 1..n |-> [v \in Nat |-> more(v, w[k])]]
<1>3. Number(w, radix, most) = IF g[1..n] > MaxCode \/ n > most THEN Invalid ELSE g[1..n]
  BY <1>1, <1>2 DEF Number, FoldLeft, MapThenFoldSet
<1>q. ASSUME NEW v \in Nat, NEW k \in 1..n PROVE more(v, w[k]) \in Nat
  <2>1. v * radix \in Nat
    <3>1. CASE radix = 10
      BY <3>1
    <3>2. CASE radix = 16
      BY <3>2
    <3> QED
      BY <3>1, <3>2
  <2> QED
    BY <1>p, <2>1
<1> HIDE DEF more
<1>4. T \in [1..n -> [Nat -> Nat]]
  BY <1>q
<1>c. PICK X : X = Nat
  OBVIOUS
<1>d. PICK zero \in X : zero = 0
  BY <1>c
<1>b. X = Nat /\ zero = 0
  BY <1>c, <1>d
<1>a. \A s \in SUBSET (1..n) : s # {} => Max(s) \in 1..n
  <2>1. ASSUME NEW s \in SUBSET (1..n), s # {} PROVE Max(s) \in 1..n
    <3>1. s \in SUBSET Nat /\ \A i \in s : i <= n
      BY <2>1
    <3> QED
      BY <2>1, <3>1, MaxIs
  <2> QED
    BY <2>1
<1>5. g = G(g)
  <2>1. PICK t \in [1..n -> [X -> X]] : t = T
    BY <1>b, <1>4
  <2>a. PICK f : FoldsAll(f, n, X, zero, t)
    <3> HIDE DEF T, G, g
    <3>1. n \in Nat /\ zero \in X /\ t \in [1..n -> [X -> X]]
      BY <1>1
    <3> QED
      BY <3>1, Folded
  <2>2. /\ f \in [SUBSET (1..n) -> X]
        /\ \A s \in SUBSET (1..n) : f[s] = IF s = {} THEN zero ELSE t[Max(s)][f[s \ {Max(s)}]]
    BY <2>a DEF FoldsAll
  <2>3. \A s \in SUBSET (1..n) : f[s] = IF s = {} THEN 0 ELSE more(f[s \ {Max(s)}], w[Max(s)])
    <3>1. ASSUME NEW s \in SUBSET (1..n), s # {} PROVE f[s] = more(f[s \ {Max(s)}], w[Max(s)])
      <4>1. f[s \ {Max(s)}] \in Nat
        BY <1>b, <2>2
      <4> QED
        BY <1>a, <1>b, <2>1, <2>2, <3>1, <4>1
    <3>2. f[{}] = 0
      BY <1>b, <2>2
    <3> QED
      BY <3>1, <3>2
  <2>4. f = G(f)
    BY <1>2, <2>2, <2>3
  <2> HIDE DEF G
  <2> QED
    BY <2>4
<1>6. Folding(g, n, X, zero, T)
  <2> HIDE DEF g
  <2>1. g[{}] = 0
    BY <1>5
  <2>2. ASSUME NEW s \in SUBSET (1..n), s # {}, g[s \ {Max(s)}] \in Nat
        PROVE  g[s] = T[Max(s)][g[s \ {Max(s)}]]
    <3>1. g[s] = more(g[s \ {Max(s)}], w[Max(s)])
      BY <1>2, <1>5, <2>2
    <3> QED
      BY <1>a, <2>2, <3>1
  <2> HIDE DEF T
  <2> QED
    BY <1>b, <2>1, <2>2 DEF Folding
<1>7. PICK r \in [0..n -> X] : r[0] = zero /\ \A k \in 1..n : r[k] = T[k][r[k - 1]]
  <2> HIDE DEF T
  <2>1. PICK t \in [1..n -> [X -> X]] : t = T
    BY <1>b, <1>4
  <2>2. \E r \in [0..n -> X] : r[0] = zero /\ \A k \in 1..n : r[k] = t[k][r[k - 1]]
    <3>1. n \in Nat /\ zero \in X /\ t \in [1..n -> [X -> X]]
      BY <1>1
    <3> HIDE DEF g
    <3> QED
      BY <3>1, Iterates
  <2> QED
    BY <2>1, <2>2
<1>8. Stepping(r, n, X, zero, T)
  <2> HIDE DEF T
  <2> QED
    BY <1>7 DEF Stepping
<1>9. g[1..n] = r[n]
  <2> HIDE DEF g, T
  <2>1. PICK t \in [1..n -> [X -> X]] : t = T
    BY <1>b, <1>4
  <2>2. Folding(g, n, X, zero, t) /\ Stepping(r, n, X, zero, t)
    BY <1>6, <1>8, <2>1
  <2> QED
    BY <2>2, FoldIs
<1>10. \A k \in 1..n : r[k] = more(r[k - 1], w[k])
  <2>1. ASSUME NEW k \in 1..n PROVE r[k] = more(r[k - 1], w[k])
    <3>1. k - 1 \in 0..n /\ r[k - 1] \in Nat
      BY <1>b
    <3> QED
      BY <1>7, <3>1
  <2> QED
    BY <2>1
<1>11. Counts(r, w, radix)
  <2> HIDE DEF g, T
  <2> QED
    BY <1>b, <1>1, <1>7, <1>10 DEF Counts, more
<1> QED
  <2> HIDE DEF g, T
  <2> QED
    BY <1>1, <1>3, <1>9, <1>11

\* Decimal digits are read as those of a port are.
LEMMA NumberDecimal ==
  ASSUME NEW w \in Seq(Digit), Len(w) <= MaxDecimals, PortValue(w) <= MaxCode
  PROVE  Number(w, 10, MaxDecimals) = PortValue(w)
<1>1. PICK n \in Nat : n = Len(w)
  OBVIOUS
<1>2. w \in Seq(DOMAIN HexValue) /\ \A k \in 1..n : HexValue[w[k]] = DigitValue[w[k]] /\ DigitValue[w[k]] \in Nat
  <2>1. ASSUME NEW k \in 1..n
        PROVE  w[k] \in DOMAIN HexValue /\ HexValue[w[k]] = DigitValue[w[k]] /\ DigitValue[w[k]] \in Nat
    <3>1. w[k] \in Digit
      BY <1>1
    <3>2. DigitValue[w[k]] \in 0..9
      BY <3>1, DigitsAre
    <3>3. w[k] \in DOMAIN HexValue
      BY <3>1, HexAre
    <3>4. HexValue[w[k]] = DigitValue[w[k]]
      BY <3>1, HexAre
    <3> QED
      BY <3>2, <3>3, <3>4
  <2>2. w \in Seq(DOMAIN HexValue)
    BY <1>1, <2>1, SeqIn
  <2> QED
    BY <2>1, <2>2
<1>3. PICK q : Values(q, w) /\ PortValue(w) = q[n]
  BY <1>1, PortFold
<1>4. PICK r : /\ Counts(r, w, 10)
               /\ Number(w, 10, MaxDecimals) = IF r[n] > MaxCode \/ n > MaxDecimals THEN Invalid ELSE r[n]
  <2>1. PICK radix \in {10, 16} : radix = 10
    OBVIOUS
  <2> QED
    BY <1>1, <1>2, <2>1, NumberFold
<1>5. q \in [0..n -> Nat] /\ q[0] = 0 /\ \A k \in 1..n : q[k] = 10 * q[k - 1] + DigitValue[w[k]]
  BY <1>1, <1>3 DEF Values
<1>6. /\ r \in [0..n -> Nat] /\ r[0] = 0
      /\ \A k \in 1..n : r[k] = IF r[k - 1] <= MaxCode THEN r[k - 1] * 10 + HexValue[w[k]] ELSE r[k - 1]
  BY <1>1, <1>4 DEF Counts
<1> DEFINE P == {k \in Nat : k <= n => r[k] = q[k] \/ q[k] > MaxCode}
<1>7. 0 \in P
  BY <1>5, <1>6
<1>8. ASSUME NEW k \in P PROVE k + 1 \in P
  <2>1. SUFFICES ASSUME k + 1 <= n PROVE r[k + 1] = q[k + 1] \/ q[k + 1] > MaxCode
    OBVIOUS
  <2>2. k \in 0..n /\ k + 1 \in 1..n /\ (k + 1) - 1 = k /\ (r[k] = q[k] \/ q[k] > MaxCode)
    BY <2>1
  <2>3. q[k + 1] = 10 * q[k] + DigitValue[w[k + 1]] /\ q[k] \in Nat /\ r[k] \in Nat
    BY <1>5, <1>6, <2>2
  <2>4. r[k + 1] = IF r[k] <= MaxCode THEN r[k] * 10 + DigitValue[w[k + 1]] ELSE r[k]
    BY <1>2, <1>6, <2>2
  <2>5. DigitValue[w[k + 1]] \in Nat
    BY <1>2, <2>2
  <2>6. PICK top \in Nat : top = MaxCode
    BY CodesAre
  <2>7. PICK a \in Nat, b \in Nat, d \in Nat : a = r[k] /\ b = q[k] /\ d = DigitValue[w[k + 1]]
    BY <2>3, <2>5
  <2>8. a = b \/ b > top
    BY <2>2, <2>6, <2>7
  <2>9. r[k + 1] = (IF a <= top THEN a * 10 + d ELSE a) /\ q[k + 1] = 10 * b + d
    BY <2>3, <2>4, <2>6, <2>7
  <2>10. (IF a <= top THEN a * 10 + d ELSE a) = 10 * b + d \/ 10 * b + d > top
    BY <2>8
  <2> QED
    BY <2>6, <2>9, <2>10
<1>9. P = Nat
  <2>1. P \in SUBSET Nat
    OBVIOUS
  <2> HIDE DEF P
  <2> QED
    BY <1>7, <1>8, <2>1, Induct
<1>10. r[n] = q[n]
  <2>1. n \in P
    BY <1>9
  <2>2. r[n] = q[n] \/ q[n] > MaxCode
    BY <2>1
  <2>3. q[n] \in Nat
    BY <1>5
  <2> QED
    BY <1>3, <2>2, <2>3, CodesAre
<1>11. r[n] \in Nat
  BY <1>6
<1> QED
  BY <1>1, <1>3, <1>4, <1>10, <1>11, CodesAre

\* Zeros in front change nothing.
LEMMA PaddedIs ==
  ASSUME NEW z \in Seq(Digit), PortValue(z) = 0, NEW n \in Nat
  PROVE  z \o Decimal(n) \in Seq(Digit) /\ PortValue(z \o Decimal(n)) = n
<1> DEFINE size == [k \in Nat |-> k]
           Q == {k \in Nat : PortValue(z \o Decimal(k)) = k}
<1>1. ASSUME NEW k \in Nat, \A j \in Nat : j < k => PortValue(z \o Decimal(j)) = j
      PROVE  PortValue(z \o Decimal(k)) = k
  <2>1. CASE k < 10
    <3>1. PICK d \in Digit : d = Numeral(k) /\ DigitValue[d] = k
      BY <2>1, DigitsAre
    <3>2. Decimal(k) = <<d>>
      BY <2>1, <3>1, DecimalTurn
    <3>3. z \o <<d>> = Append(z, d)
      OBVIOUS
    <3>4. PortValue(Append(z, d)) = 10 * PortValue(z) + DigitValue[d]
      BY PortMore
    <3>5. PortValue(Append(z, d)) = k
      BY <3>1, <3>4
    <3> QED
      BY <3>2, <3>3, <3>5
  <2>2. CASE ~(k < 10)
    <3>1. PICK j \in Nat : j = k \div 10 /\ j < k /\ k % 10 \in 0..9 /\ k = 10 * j + (k % 10)
      BY <2>2, TenfoldIs
    <3>2. PICK d \in Digit : d = Numeral(k % 10) /\ DigitValue[d] = k % 10
      BY <3>1, DigitsAre
    <3>3. PICK v \in Seq(Digit) : v = Decimal(j)
      BY DecimalIs
    <3>4. Decimal(k) = Append(v, d)
      BY <2>2, <3>1, <3>2, <3>3, DecimalTurn
    <3>5. PICK u \in Seq(Digit) : u = z \o v
      BY ConcatProperties
    <3>6. z \o Append(v, d) = Append(u, d)
      BY <3>5
    <3>7. PortValue(Append(u, d)) = 10 * PortValue(u) + DigitValue[d]
      BY PortMore
    <3>8. PortValue(u) = j
      BY <1>1, <3>1, <3>3, <3>5
    <3> QED
      BY <3>1, <3>2, <3>4, <3>6, <3>7, <3>8
  <2> QED
    BY <2>1, <2>2
<1>2. Inherited(Nat, size, Q)
  <2>1. size \in [Nat -> Nat] /\ \A k \in Nat : size[k] = k
    OBVIOUS
  <2>2. Q \in SUBSET Nat /\ \A k \in Nat : k \in Q <=> PortValue(z \o Decimal(k)) = k
    OBVIOUS
  <2> HIDE DEF size, Q
  <2> QED
    BY <1>1, <2>1, <2>2 DEF Inherited
<1>3. Q = Nat
  <2> HIDE DEF size, Q
  <2> QED
    BY <1>2, BySize
<1>4. PortValue(z \o Decimal(n)) = n
  BY <1>3
<1>5. Decimal(n) \in Seq(Digit)
  BY DecimalIs
<1> QED
  BY <1>4, <1>5, ConcatProperties

LEMMA DecimalShort ==
  ASSUME NEW n \in 0..999
  PROVE  Len(Decimal(n)) \in 1..3
<1>1. ASSUME NEW k \in 0..9 PROVE Len(Decimal(k)) = 1
  BY DecimalTurn
<1>2. ASSUME NEW k \in Nat, k >= 10 PROVE Len(Decimal(k)) = Len(Decimal(k \div 10)) + 1
  <2>1. PICK j \in Nat : j = k \div 10
    BY <1>2, TenfoldIs
  <2>2. PICK v \in Seq(Digit) : v = Decimal(j)
    BY DecimalIs
  <2>3. Decimal(k) = Append(v, Numeral(k % 10))
    BY <1>2, <2>1, <2>2, DecimalTurn
  <2> QED
    BY <2>1, <2>2, <2>3
<1>3. ASSUME NEW k \in 10..99 PROVE Len(Decimal(k)) = 2
  <2>1. k \in Nat /\ k >= 10 /\ k \div 10 \in 0..9
    OBVIOUS
  <2>2. Len(Decimal(k \div 10)) = 1
    BY <1>1, <2>1
  <2>3. Len(Decimal(k)) = 1 + 1
    BY <1>2, <2>1, <2>2
  <2> QED
    BY <2>3
<1>4. ASSUME NEW k \in 100..999 PROVE Len(Decimal(k)) = 3
  <2>1. k \in Nat /\ k >= 10 /\ k \div 10 \in 10..99
    OBVIOUS
  <2>2. Len(Decimal(k \div 10)) = 2
    BY <1>3, <2>1
  <2>3. Len(Decimal(k)) = Len(Decimal(k \div 10)) + 1
    BY <1>2, <2>1
  <2> QED
    BY <2>2, <2>3, SMTT(60)
<1>5. CASE n \in 0..9
  BY <1>1, <1>5
<1>6. CASE n \in 10..99
  <2>1. Len(Decimal(n)) = 2
    BY <1>3, <1>6
  <2> QED
    BY <2>1
<1>7. CASE n \in 100..999
  <2>1. Len(Decimal(n)) = 3
    BY <1>4, <1>7
  <2> QED
    BY <2>1
<1> QED
  BY <1>5, <1>6, <1>7

\* A number below 1000 is read from its digits, with zeros before them or not.
LEMMA DecimalRead ==
  ASSUME NEW n \in 0..999, NEW z \in {<< >>, <<"0", "0", "0">>}
  PROVE  z \o Decimal(n) \in Seq(Digit) /\ z \o Decimal(n) # << >> /\ Number(z \o Decimal(n), 10, MaxDecimals) = n
<1>1. "0" \in Digit /\ DigitValue["0"] = 0
  BY DEF Digit, DigitValue
<1>2. z \in Seq(Digit) /\ Len(z) \in 0..3 /\ PortValue(z) = 0
  <2>1. CASE z = << >>
    <3>1. z \in Seq(Digit) /\ Len(z) = 0
      BY <2>1, EmptySeq
    <3>2. PICK v \in Seq(Digit) : v = << >>
      BY EmptySeq
    <3>3. PICK r : Values(r, v) /\ PortValue(v) = r[Len(v)]
      BY PortFold
    <3>4. r[0] = 0
      BY <3>3 DEF Values
    <3>5. Len(v) = 0
      BY <3>2, EmptySeq
    <3>6. PortValue(v) = 0
      BY <3>3, <3>4, <3>5
    <3> QED
      BY <2>1, <3>1, <3>2, <3>6
  <2>2. CASE z = <<"0", "0", "0">>
    <3>1. PICK a \in Seq(Digit) : a = <<"0">>
      BY <1>1, OneIs, ZenonT(60)
    <3>2. PICK b \in Seq(Digit) : b = Append(a, "0")
      BY <1>1, AppendProperties, ZenonT(60)
    <3>3. z = Append(b, "0")
      BY <2>2, <3>1, <3>2
    <3>4. PortValue(a) = 0
      BY <1>1, <3>1, PortOne
    <3>5. PortValue(b) = 10 * PortValue(a) + DigitValue["0"]
      BY <1>1, <3>2, PortMore
    <3>6. PortValue(z) = 10 * PortValue(b) + DigitValue["0"]
      BY <1>1, <3>3, PortMore
    <3>7. z \in Seq(Digit) /\ Len(z) = 3
      BY <1>1, <2>2
    <3> QED
      BY <1>1, <3>4, <3>5, <3>6, <3>7
  <2> QED
    BY <2>1, <2>2
<1>i. n \in Nat
  OBVIOUS
<1>l. Len(Decimal(n)) \in 1..3
  BY DecimalShort, ZenonT(60)
<1>3. PICK v \in Seq(Digit) : v = Decimal(n) /\ Len(v) \in 1..3
  BY <1>i, <1>l, DecimalIs
<1>4. PICK w \in Seq(Digit) : w = z \o v /\ PortValue(w) = n
  BY <1>i, <1>2, <1>3, PaddedIs, ZenonT(60)
<1>5. Len(w) \in 1..6
  <2>1. PICK y \in Seq(Digit) : y = z /\ Len(y) \in 0..3
    BY <1>2
  <2>2. Len(y \o v) = Len(y) + Len(v)
    BY ConcatProperties
  <2>3. PICK i \in 0..3, j \in 1..3 : i = Len(y) /\ j = Len(v)
    BY <1>3, <2>1
  <2>4. i + j \in 1..6
    OBVIOUS
  <2> QED
    BY <1>4, <2>1, <2>2, <2>3, <2>4
<1>6. Len(w) <= MaxDecimals /\ PortValue(w) <= MaxCode
  BY <1>4, <1>5, CodesAre
<1>7. Number(w, 10, MaxDecimals) = n
  BY <1>4, <1>6, NumberDecimal
<1> QED
  BY <1>3, <1>4, <1>5, <1>7

LEMMA HexRead ==
  ASSUME NEW n \in 32..126, n % 16 <= 10
  PROVE  /\ Hex2(n) \in Seq(DOMAIN HexValue) /\ Hex2(n) # << >>
         /\ Number(Hex2(n), 16, MaxHexDigits) = n
<1>1. PICK h \in 2..7, l \in 0..10 : h = n \div 16 /\ l = n % 16 /\ n = 16 * h + l
  OBVIOUS
<1>2. PICK a \in DOMAIN HexValue : a = Numeral(h) /\ HexValue[a] = h
  <2>1. h \in 0..9
    BY <1>1
  <2> QED
    BY <2>1, DigitsAre, HexAre
<1>3. PICK b \in DOMAIN HexValue : b = (IF l < 10 THEN Numeral(l) ELSE "a") /\ HexValue[b] = l
  <2>1. CASE l < 10
    <3>1. l \in 0..9
      BY <2>1
    <3> QED
      BY <2>1, <3>1, DigitsAre, HexAre
  <2>2. CASE ~(l < 10)
    <3>1. l = 10
      BY <2>2
    <3> QED
      BY <2>2, <3>1, HexAre
  <2> QED
    BY <2>1, <2>2
<1>4. Hex2(n) = <<a, b>>
  <2>1. PICK d : d = [k \in 0..15 |-> IF k < 10 THEN Numeral(k) ELSE "a"]
    OBVIOUS
  <2>2. Hex2(n) = <<d[h], d[l]>>
    BY <1>1, <2>1, Zenon DEF Hex2
  <2>3. h \in 0..15 /\ h < 10 /\ l \in 0..15
    OBVIOUS
  <2>4. d[h] = a
    BY <1>2, <2>1, <2>3
  <2>5. d[l] = b
    BY <1>3, <2>1, <2>3
  <2> QED
    BY <2>2, <2>4, <2>5
<1>e. PICK H : H = DOMAIN HexValue
  OBVIOUS
<1>5. PICK w \in Seq(H) : w = <<a, b>>
  <2>1. a \in H /\ b \in H
    BY <1>e
  <2>2. <<a, b>> \in Seq(H)
    BY <2>1
  <2> QED
    BY <2>2
<1>6. w \in Seq(DOMAIN HexValue) /\ Len(w) = 2 /\ w[1] = a /\ w[2] = b
  BY <1>5, <1>e
<1>7. PICK r : /\ Counts(r, w, 16)
               /\ Number(w, 16, MaxHexDigits) = IF r[2] > MaxCode \/ 2 > MaxHexDigits THEN Invalid ELSE r[2]
  <2>1. PICK radix \in {10, 16} : radix = 16
    OBVIOUS
  <2> QED
    BY <1>6, <2>1, NumberFold, SMTT(60)
<1>8. r[0] = 0 /\ r[1] = (IF r[0] <= MaxCode THEN r[0] * 16 + HexValue[a] ELSE r[0])
      /\ r[2] = IF r[1] <= MaxCode THEN r[1] * 16 + HexValue[b] ELSE r[1]
  <2>1. 1 \in 1..2 /\ 2 \in 1..2 /\ 1 - 1 = 0 /\ 2 - 1 = 1
    OBVIOUS
  <2> QED
    BY <1>6, <1>7, <2>1 DEF Counts
<1>9. r[1] = h
  BY <1>2, <1>8, CodesAre
<1>10. r[2] = n
  BY <1>1, <1>3, <1>8, <1>9, CodesAre
<1> QED
  BY <1>4, <1>5, <1>6, <1>7, <1>10, CodesAre

LEMMA CodedIs ==
  ASSUME NEW n \in 1..127
  PROVE  Coded(n) = n /\ n # Invalid
<1>a. n \notin Surrogate
  <2>1. n \in Nat /\ n < 1000
    OBVIOUS
  <2>2. \A i \in Surrogate : i > 1000
    BY SMT DEF Surrogate
  <2> QED
    BY <2>1, <2>2
<1>1. n # 0 /\ n \notin Surrogate /\ n \notin 128..159
  BY <1>a
<1>2. Remapped(n) = n
  BY <1>1 DEF Remapped
<1>3. Coded(n) = n
  BY <1>1, <1>2 DEF Coded
<1>4. n # Invalid
  BY SMT DEF Invalid
<1> QED
  BY <1>3, <1>4

(***************************************************************************)
(* A reference that is written is read.                                    *)
(***************************************************************************)
LEMMA AsciiAre ==
  /\ \A c \in DOMAIN Ascii : Ascii[c] \in 32..126
  /\ \A c, d \in DOMAIN Ascii : Ascii[c] = Ascii[d] => c = d
  /\ "&" \in DOMAIN Ascii /\ Ascii["&"] = 38
<1> DEFINE Signs == {"#", "&", "+", ".", "/", ":", "=", "?", "@", "A", "S", "[", "]", "a", "s", "x", "~"}
           Others == Signs \cup {Space, Semicolon}
<1>a. DOMAIN Ascii = Alpha \cup Digit \cup Punctuation \cup {Space}
  BY Zenon DEF Ascii, Alnum, Space
<1>b. Alpha \cup Punctuation \cup {Space} = Others
  BY Zenon DEF Alpha, Punctuation, Space, Semicolon
<1>c. \A d \in Digit : d \notin Others
  BY Zenon DEF Digit, Space, Semicolon
<1>d. Space \notin Signs /\ Semicolon \notin Signs /\ Space # Semicolon
  BY Zenon DEF Space, Semicolon
<1>1. DOMAIN Ascii = Digit \cup Others /\ Digit \cap Others = {}
  <2> HIDE DEF Others
  <2> QED
    BY <1>a, <1>b, <1>c
<1>2. ASSUME NEW c \in Digit PROVE Ascii[c] = 48 + DigitValue[c] /\ DigitValue[c] \in 0..9
  <2>1. c \notin Others
    BY <1>c
  <2>2. c \in DOMAIN Ascii
    BY <1>1
  <2>3. Ascii[c] = 48 + DigitValue[c]
    BY <2>1, <2>2, Zenon DEF Ascii, Space, Semicolon
  <2> QED
    BY <2>3, DigitsAre
<1>3. /\ Ascii["#"] = 35 /\ Ascii["&"] = 38 /\ Ascii["+"] = 43 /\ Ascii["."] = 46
      /\ Ascii["/"] = 47 /\ Ascii[":"] = 58 /\ Ascii["="] = 61 /\ Ascii["?"] = 63
      /\ Ascii["@"] = 64 /\ Ascii["A"] = 65 /\ Ascii["S"] = 83 /\ Ascii["["] = 91 /\ Ascii["]"] = 93
      /\ Ascii["a"] = 97 /\ Ascii["s"] = 115 /\ Ascii["x"] = 120 /\ Ascii["~"] = 126
  BY DEF Ascii, Alnum, Alpha, Digit, Punctuation
<1>s. Ascii[Space] = 32 /\ Ascii[Semicolon] = 59
  BY Zenon DEF Ascii, Alnum, Alpha, Digit, Punctuation, Space, Semicolon
<1>4. \A c, d \in Digit : DigitValue[c] = DigitValue[d] => c = d
  BY DEF Digit, DigitValue
<1>5. ASSUME NEW c \in Signs PROVE Ascii[c] \in 33..126 /\ Ascii[c] \notin 48..57 /\ Ascii[c] # 59
  BY <1>3
<1>6. ASSUME NEW c \in Signs, NEW d \in Signs, Ascii[c] = Ascii[d] PROVE c = d
  BY <1>3, <1>6
<1>7. "&" \in Signs
  OBVIOUS
<1> HIDE DEF Signs
<1>o. ASSUME NEW c \in Others PROVE Ascii[c] \in 32..126 /\ Ascii[c] \notin 48..57
  BY <1>5, <1>s
<1>p. ASSUME NEW c \in Others, NEW d \in Others, Ascii[c] = Ascii[d] PROVE c = d
  <2>1. CASE c \in Signs /\ d \in Signs
    BY <1>6, <1>p, <2>1
  <2>2. CASE c \notin Signs \/ d \notin Signs
    BY <1>5, <1>d, <1>s, <1>p, <2>2
  <2> QED
    BY <2>1, <2>2
<1>q. "&" \in Others
  BY <1>7
<1> HIDE DEF Others
<1>8. \A c \in Digit : Ascii[c] \in 48..57
  BY <1>2
<1>9. ASSUME NEW c \in DOMAIN Ascii, NEW d \in DOMAIN Ascii, Ascii[c] = Ascii[d] PROVE c = d
  <2>1. CASE c \in Digit /\ d \in Digit
    <3>1. DigitValue[c] = DigitValue[d]
      BY <1>2, <1>9, <2>1
    <3> QED
      BY <1>4, <2>1, <3>1
  <2>2. CASE c \in Others /\ d \in Others
    BY <1>p, <1>9, <2>2
  <2>3. CASE c \in Digit /\ d \in Others
    BY <1>o, <1>8, <1>9, <2>3
  <2>4. CASE c \in Others /\ d \in Digit
    BY <1>o, <1>8, <1>9, <2>4
  <2> QED
    BY <1>1, <2>1, <2>2, <2>3, <2>4
<1>10. \A c \in DOMAIN Ascii : Ascii[c] \in 32..126
  <2>1. \A c \in Digit : Ascii[c] \in 32..126
    BY <1>8
  <2> QED
    BY <1>1, <1>o, <2>1
<1> QED
  BY <1>1, <1>3, <1>q, <1>9, <1>10

LEMMA Utf8One ==
  ASSUME NEW c \in DOMAIN Ascii
  PROVE  Utf8(Ascii[c]) = <<c>>
<1>1. PICK n \in 32..126 : n = Ascii[c]
  BY AsciiAre
<1>2. c \in Unit /\ Stands(c, n) /\ \A d \in Unit : Stands(d, n) => d = c
  BY <1>1, AsciiAre, AsciiWidth DEF Stands
<1>3. PICK d : d = CHOOSE e \in Unit : Stands(e, n)
  OBVIOUS
<1>4. d = c
  BY <1>2, <1>3
<1>5. (\E e \in Unit : Stands(e, n)) /\ n < 128
  BY <1>2
<1>6. Utf8(n) = <<d>>
  BY <1>3, <1>5 DEF Utf8
<1> QED
  BY <1>1, <1>4, <1>6

\* x is a reference and what comes behind it.
Spelt(x, pre, ds, rest) == x = pre \o (ds \o (<<Semicolon>> \o rest))

\* What x is then, with the lengths of pre and of ds.
SpeltWell(x, pre, ds, rest, m, k) ==
  /\ x \in Seq(Unit) /\ Len(x) \in Nat /\ Len(x) >= m + k + 1
  /\ (\A i \in 1..m : x[i] = pre[i]) /\ (\A i \in 1..k : x[m + i] = ds[i])
  /\ Ended(x, m + k + 1) /\ SubSeq(x, m + k + 2, Len(x)) = rest
  /\ \A units : ds \in Seq(units) /\ Semicolon \notin units => Run(x, m + 1, units) = ds

LEMMA SpeltIs ==
  ASSUME NEW pre \in Seq(Unit), NEW ds \in Seq(Unit), NEW rest \in Seq(Unit),
         NEW m \in Nat, NEW k \in Nat, Len(pre) = m, Len(ds) = k, NEW x, Spelt(x, pre, ds, rest)
  PROVE  SpeltWell(x, pre, ds, rest, m, k)
<1>0. Semicolon \in Unit
  BY Zenon DEF Unit, Punctuation, Semicolon
<1>1. PICK s \in Seq(Unit) : s = <<Semicolon>> /\ Len(s) = 1 /\ s[1] = Semicolon
  BY <1>0, OneIs
<1>2. PICK n \in Nat : n = Len(rest)
  OBVIOUS
<1>3. PICK c \in Seq(Unit) : Joined(c, s, rest)
  BY Joins
<1>4. Len(c) = 1 + n /\ c[1] = Semicolon /\ \A i \in 1..n : c[1 + i] = rest[i]
  <2>1. PICK one \in Nat : Len(s) = one
    OBVIOUS
  <2>2. Len(rest) = n
    BY <1>2
  <2>3. Len(c) = one + n /\ (\A i \in 1..one : c[i] = s[i]) /\ \A i \in 1..n : c[one + i] = rest[i]
    BY <1>3, <2>1, <2>2, ConcatIs
  <2>4. one = 1 /\ 1 \in 1..one
    BY <1>1, <2>1
  <2>5. c[1] = s[1]
    BY <2>3, <2>4
  <2> QED
    BY <1>1, <2>3, <2>4, <2>5
<1>5. PICK b \in Seq(Unit) : Joined(b, ds, c)
  BY Joins
<1>6. PICK l \in Nat : l = 1 + n /\ Len(c) = l
  <2>1. Len(c) \in Nat
    OBVIOUS
  <2> QED
    BY <1>4, <2>1, Zenon
<1>l. Len(c) = l
  BY <1>6
<1>7. Len(b) = k + l /\ (\A i \in 1..k : b[i] = ds[i]) /\ \A i \in 1..l : b[k + i] = c[i]
  BY <1>5, <1>l, ConcatIs
<1>8. PICK t \in Nat : t = k + l /\ Len(b) = t
  BY <1>7
<1>9. Joined(x, pre, b)
  BY <1>1, <1>3, <1>5 DEF Spelt, Joined
<1>10. /\ x \in Seq(Unit) /\ Len(x) = m + t /\ (\A i \in 1..m : x[i] = pre[i])
       /\ \A i \in 1..t : x[m + i] = b[i]
  <2>1. Len(b) = t
    BY <1>8
  <2> QED
    BY <1>9, <2>1, SMTT(60), ConcatIs
<1>11. \A i \in 1..k : x[m + i] = ds[i]
  BY <1>7, <1>8, <1>10
<1>12. x[m + k + 1] = Semicolon
  <2>1. 1 \in 1..l /\ k + 1 \in 1..t /\ m + (k + 1) = m + k + 1
    BY <1>6, <1>8
  <2> QED
    BY <1>4, <1>7, <1>10, <2>1
<1>13. Len(x) = m + k + 1 + n
  BY <1>6, <1>8, <1>10
<1>14. \A i \in 1..n : x[m + k + 1 + i] = rest[i]
  <2>1. ASSUME NEW i \in 1..n PROVE x[m + k + 1 + i] = rest[i]
    <3>1. 1 + i \in 1..l /\ k + (1 + i) \in 1..t /\ m + (k + (1 + i)) = m + k + 1 + i
      BY <1>6, <1>8
    <3>2. x[m + (k + (1 + i))] = b[k + (1 + i)]
      BY <1>10, <3>1, Zenon
    <3>3. b[k + (1 + i)] = c[1 + i]
      BY <1>7, <3>1, Zenon
    <3>4. c[1 + i] = rest[i]
      BY <1>4, Zenon
    <3> QED
      BY <3>1, <3>2, <3>3, <3>4, Zenon
  <2> QED
    BY <2>1
<1>15. SubSeq(x, m + k + 2, Len(x)) = rest
  <2>1. PICK p \in Nat, q \in Nat : p = m + k + 2 /\ q = Len(x)
    BY <1>13
  <2>2. p \in 1..(Len(x) + 1) /\ q \in (p - 1)..Len(x) /\ q - p + 1 = n
    BY <1>13, <2>1
  <2>3. /\ SubSeq(x, p, q) \in Seq(Unit) /\ Len(SubSeq(x, p, q)) = q - p + 1
        /\ \A i \in 1..(q - p + 1) : SubSeq(x, p, q)[i] = x[p + i - 1]
    BY <1>10, <2>2, PartIs
  <2>4. ASSUME NEW i \in 1..n PROVE SubSeq(x, p, q)[i] = rest[i]
    <3>1. p + i - 1 = m + k + 1 + i
      BY <2>1
    <3>2. SubSeq(x, p, q)[i] = x[p + i - 1]
      BY <2>2, <2>3
    <3> QED
      BY <1>14, <3>1, <3>2
  <2>5. SubSeq(x, p, q) = rest
    BY <1>2, <2>2, <2>3, <2>4, SeqEqual
  <2> QED
    BY <2>1, <2>5
<1>16. ASSUME NEW units, ds \in Seq(units), Semicolon \notin units PROVE Run(x, m + 1, units) = ds
  <2>1. Behind(x, pre) = b
    BY <1>9, BehindJoin DEF Joined
  <2>2. SubSeq(x, m + 1, Len(x)) = b
    BY <2>1 DEF Behind
  <2>3. PICK stops : stops = Unit \ units
    OBVIOUS
  <2>4. Clear(ds, stops)
    <3>1. PICK d \in Seq(units) : d = ds
      BY <1>16, Zenon
    <3>2. \A i \in 1..Len(d) : d[i] \in units
      OBVIOUS
    <3> QED
      BY <2>3, <3>1, <3>2 DEF Clear
  <2>5. Stopped(c, stops)
    BY <1>0, <1>4, <1>16, <2>3 DEF Stopped
  <2>6. Until(b, stops) = ds
    BY <1>5, <2>4, <2>5, UntilJoin DEF Joined
  <2> QED
    BY <2>2, <2>3, <2>6 DEF Run
<1>17. Len(x) \in Nat /\ Len(x) >= m + k + 1
  <2>1. m + k + 1 + n \in Nat /\ m + k + 1 + n >= m + k + 1
    OBVIOUS
  <2> QED
    BY <1>13, <2>1
<1>18. Ended(x, m + k + 1)
  BY <1>12, <1>17, EndedIs
<1>19. \A units : ds \in Seq(units) /\ Semicolon \notin units => Run(x, m + 1, units) = ds
  BY <1>16
<1> QED
  BY <1>10, <1>11, <1>15, <1>17, <1>18, <1>19 DEF SpeltWell

\* The reference x begins with has l units and stands for the number n.
Referred(x, l, n) == Reference(x).length = l /\ Reference(x).code = n

\* A reference to c is read as c, and no further.
LEMMA SpeltRead ==
  ASSUME NEW pre \in Seq(Unit), NEW ds \in Seq(Unit), NEW rest \in Seq(Unit),
         NEW m \in Nat, NEW k \in Nat, m >= 1, pre[1] = "&", NEW x, SpeltWell(x, pre, ds, rest, m, k),
         NEW c \in DOMAIN Ascii, Referred(x, m + k + 1, Ascii[c])
  PROVE  HrefText(x) = <<c>> \o HrefText(rest)
<1>1. /\ x \in Seq(Unit) /\ Len(x) \in Nat /\ Len(x) >= m + k + 1 /\ (\A i \in 1..m : x[i] = pre[i])
      /\ SubSeq(x, m + k + 2, Len(x)) = rest
  BY DEF SpeltWell
<1>2. x[1] = "&" /\ Len(x) # 0
  <2>1. 1 \in 1..m
    OBVIOUS
  <2> QED
    BY <1>1, <2>1
<1>3. Ascii[c] # Invalid
  <2>1. PICK n \in 32..126 : n = Ascii[c]
    BY AsciiAre
  <2>2. n \in 1..127
    OBVIOUS
  <2>3. n # Invalid
    BY <2>2, CodedIs
  <2> QED
    BY <2>1, <2>3
<1>4. PICK l \in Nat : l = m + k + 1 /\ l > 0 /\ l + 1 = m + k + 2
  OBVIOUS
<1>5. Reference(x).length = l /\ Reference(x).code = Ascii[c]
  BY <1>4 DEF Referred
<1>6. Refers(x)
  BY <1>2, <1>3, <1>4, <1>5 DEF Refers
<1>7. x # << >>
  BY <1>2, EmptySeq
<1>8. HrefText(x) = Utf8(Reference(x).code) \o HrefText(SubSeq(x, Reference(x).length + 1, Len(x)))
  BY <1>1, <1>6, <1>7, HrefTurn
<1>9. SubSeq(x, l + 1, Len(x)) = rest
  BY <1>1, <1>4
<1>10. HrefText(x) = Utf8(Ascii[c]) \o HrefText(rest)
  BY <1>5, <1>8, <1>9, Zenon
<1> QED
  BY <1>10, Utf8One, Zenon

\* t is read as the character c, whatever comes behind it.
StandsFor(t, c) ==
  t \in Seq(Unit) /\ \A rest \in Seq(Unit) : HrefText(t \o rest) = <<c>> \o HrefText(rest)

LEMMA PlainRead ==
  ASSUME NEW c \in Unit, c # "&"
  PROVE  StandsFor(<<c>>, c)
<1>1. <<c>> \in Seq(Unit)
  BY OneIs
<1>2. ASSUME NEW rest \in Seq(Unit) PROVE HrefText(<<c>> \o rest) = <<c>> \o HrefText(rest)
  <2>1. PICK x \in Seq(Unit) : x = <<c>> \o rest /\ Tail(x) = rest /\ x[1] = c /\ x # << >>
    BY TailJoin, ZenonT(60)
  <2>2. ~Refers(x)
    BY <2>1 DEF Refers
  <2> QED
    BY <2>1, <2>2, HrefTurn
<1> QED
  BY <1>1, <1>2 DEF StandsFor

LEMMA LettersAre == {"&", "#", "x", "a", "0", Semicolon} \in SUBSET Unit
  BY Zenon DEF Unit, Alpha, Digit, Punctuation, Semicolon

\* Three texts in a row.
Chained(head, mid, last) == (head \o mid) \o last = head \o (mid \o last)

LEMMA Chains ==
  ASSUME NEW S, NEW head \in Seq(S), NEW mid \in Seq(S), NEW last \in Seq(S)
  PROVE  Chained(head, mid, last)
BY ConcatAssociative DEF Chained

LEMMA Singles ==
  ASSUME NEW S, NEW a \in S, NEW b \in S, NEW c \in S
  PROVE  <<a>> \o <<b>> = <<a, b>> /\ <<a, b>> \o <<c>> = <<a, b, c>>
<1>1. PICK u \in Seq(S), v \in Seq(S), w \in Seq(S) : u = <<a>> /\ v = <<b>> /\ w = <<c>>
  BY OneIs
<1>2. PICK x \in Seq(S) : x = Append(u, b)
  BY AppendProperties
<1>3. u \o v = x
  BY <1>1, <1>2
<1>4. <<a, b>> = x
  BY <1>1, <1>2
<1>5. PICK y \in Seq(S) : y = Append(x, c)
  BY AppendProperties
<1>6. x \o w = y
  <2>1. w = <<c>>
    BY <1>1
  <2> QED
    BY <1>5, <2>1
<1>7. <<a, b, c>> = y
  <2>1. Len(y) = 3 /\ y[1] = x[1] /\ y[2] = x[2] /\ y[3] = c
    <3>1. Len(x) = 2
      BY <1>4
    <3>2. PICK n \in Nat : n = Len(x)
      OBVIOUS
    <3>3. Len(y) = n + 1 /\ (\A i \in 1..n : y[i] = x[i]) /\ y[n + 1] = c
      BY <1>5, <3>2, AppendProperties
    <3>4. 1 \in 1..n /\ 2 \in 1..n /\ n + 1 = 3
      BY <3>1, <3>2
    <3> QED
      BY <3>3, <3>4
  <2>2. x[1] = a /\ x[2] = b
    BY <1>4
  <2>3. PICK z \in Seq(S) : z = <<a, b, c>> /\ Len(z) = 3 /\ z[1] = a /\ z[2] = b /\ z[3] = c
    <3>1. <<a, b, c>> \in Seq(S)
      OBVIOUS
    <3> QED
      BY <3>1
  <2>4. \A i \in 1..3 : y[i] = z[i]
    BY <2>1, <2>2, <2>3
  <2>5. y = z
    BY <2>1, <2>3, <2>4, SeqEqual
  <2> QED
    BY <2>3, <2>5
<1> QED
  BY <1>1, <1>3, <1>4, <1>6, <1>7, Zenon

\* t is pre, ds and a semicolon.
Shut(t, pre, ds) == t = (pre \o ds) \o <<Semicolon>>

LEMMA SpeltJoin ==
  ASSUME NEW pre \in Seq(Unit), NEW ds \in Seq(Unit), NEW t, Shut(t, pre, ds)
  PROVE  t \in Seq(Unit) /\ \A rest \in Seq(Unit) : Spelt(t \o rest, pre, ds, rest)
<1>1. PICK s \in Seq(Unit) : s = <<Semicolon>>
  BY LettersAre, OneIs
<1>2. PICK u \in Seq(Unit) : u = pre \o ds
  BY ConcatProperties
<1>3. t = u \o s
  BY <1>1, <1>2 DEF Shut
<1>4. t \in Seq(Unit)
  BY <1>3, ConcatProperties
<1>5. ASSUME NEW rest \in Seq(Unit) PROVE Spelt(t \o rest, pre, ds, rest)
  <2>1. PICK c \in Seq(Unit) : c = s \o rest
    BY ConcatProperties
  <2>2. Chained(u, s, rest) /\ Chained(pre, ds, c)
    BY Chains
  <2>3. t \o rest = pre \o (ds \o c)
    BY <1>2, <1>3, <2>1, <2>2, Zenon DEF Chained
  <2> QED
    BY <1>1, <2>1, <2>3, Zenon DEF Spelt
<1> QED
  BY <1>4, <1>5

\* t is the reference to a '&' by its name.
InName(t) == t = <<"&", "a", Semicolon>>

LEMMA NamedRead ==
  ASSUME NEW t, InName(t)
  PROVE  StandsFor(t, "&")
<1>1. PICK pre \in Seq(Unit) : pre = <<"&">> /\ Len(pre) = 1 /\ pre[1] = "&"
  BY LettersAre, OneIs
<1>2. PICK ds \in Seq(Unit) : ds = <<"a">> /\ Len(ds) = 1 /\ ds[1] = "a"
  BY LettersAre, OneIs
<1>3. Shut(t, pre, ds)
  <2>1. "&" \in Unit /\ "a" \in Unit /\ Semicolon \in Unit
    BY LettersAre
  <2>2. <<"&">> \o <<"a">> = <<"&", "a">> /\ <<"&", "a">> \o <<Semicolon>> = <<"&", "a", Semicolon>>
    BY <2>1, Singles, Zenon
  <2> QED
    BY <1>1, <1>2, <2>2, Zenon DEF Shut, InName
<1>5. t \in Seq(Unit) /\ \A rest \in Seq(Unit) : Spelt(t \o rest, pre, ds, rest)
  BY <1>3, SpeltJoin
<1>6. ASSUME NEW rest \in Seq(Unit) PROVE HrefText(t \o rest) = <<"&">> \o HrefText(rest)
  <2>1. PICK x : x = t \o rest /\ Spelt(x, pre, ds, rest)
    BY <1>5
  <2>2. PICK m \in Nat, k \in Nat : Len(pre) = m /\ Len(ds) = k
    OBVIOUS
  <2>3. SpeltWell(x, pre, ds, rest, m, k)
    BY <2>1, <2>2, SpeltIs
  <2>4. m = 1 /\ k = 1
    BY <1>1, <1>2, <2>2
  <2>5. /\ x \in Seq(Unit) /\ Len(x) \in Nat /\ Len(x) >= m + k + 1
        /\ (\A i \in 1..m : x[i] = pre[i]) /\ (\A i \in 1..k : x[m + i] = ds[i])
        /\ Ended(x, m + k + 1)
    BY <2>3 DEF SpeltWell
  <2>6. x[1] = "&" /\ x[2] = "a" /\ Len(x) >= 3 /\ Ended(x, 3)
    <3>1. 1 \in 1..m /\ 1 \in 1..k /\ m + 1 = 2 /\ m + k + 1 = 3
      BY <2>4
    <3>2. x[1] = pre[1] /\ x[m + 1] = ds[1]
      BY <2>5, <3>1
    <3> QED
      BY <1>1, <1>2, <2>5, <3>1, <3>2
  <2>7. ~Starts(x, <<"&", "#", "x">>) /\ ~Starts(x, <<"&", "#">>)
    <3>1. PICK hash \in Unit : hash = "#" /\ x[2] # hash
      BY <2>6, LettersAre
    <3>2. "&" \in Unit /\ "x" \in Unit
      BY LettersAre
    <3>3. ~Starts(x, <<"&", hash, "x">>)
      BY <2>5, <3>1, <3>2, ThreeIs
    <3>4. ~Starts(x, <<"&", hash>>)
      BY <2>5, <3>1, <3>2, TwoIs
    <3> QED
      BY <3>1, <3>3, <3>4
  <2>8. Reference(x) = NamedReference(x)
    <3>1. ~(Len(x) < 3)
      BY <2>5, <2>6
    <3> QED
      BY <2>7, <3>1, Zenon DEF Reference
  <2>9. ds \in Seq(Alnum)
    <3>1. "a" \in Alnum
      BY DEF Alnum, Alpha
    <3> QED
      BY <1>2, <3>1, OneIs
  <2>10. Run(x, m + 1, Alnum) = ds
    <3>1. Semicolon \notin Alnum
      BY Zenon DEF Alnum, Alpha, Digit, Semicolon
    <3> QED
      BY <2>3, <2>9, <3>1, Zenon DEF SpeltWell
  <2>11. Run(x, 2, Alnum) = ds
    <3>1. m + 1 = 2
      BY <2>4
    <3> QED
      BY <2>10, <3>1
  <2>12. ds \in DOMAIN EntityTable /\ EntityTable[ds] = 38
    BY <1>2 DEF EntityTable
  <2>13. 2 + Len(ds) = 3 /\ m + k + 1 = 3
    BY <1>2, <2>4
  <2>14. NamedReference(x) = [length |-> 3, code |-> 38]
    BY <2>6, <2>11, <2>12, <2>13 DEF NamedReference
  <2>15. Referred(x, 3, Ascii["&"])
    BY <2>8, <2>14, AsciiAre DEF Referred
  <2>16. Referred(x, m + k + 1, Ascii["&"])
    BY <2>13, <2>15
  <2>17. m >= 1 /\ pre[1] = "&" /\ "&" \in DOMAIN Ascii
    BY <1>1, <2>4, AsciiAre
  <2>18. HrefText(x) = <<"&">> \o HrefText(rest)
    BY <2>3, <2>16, <2>17, SpeltRead
  <2> QED
    BY <2>1, <2>18
<1> QED
  BY <1>5, <1>6 DEF StandsFor

\* Behind pre, a reference is a number of these digits.
Numeric(pre, m, digits, radix, most) ==
  \A x \in Seq(Unit) : Starts(x, pre) /\ Len(x) > m /\ x[m + 1] \in digits =>
    Reference(x) = NumericReference(x, m + 1, digits, radix, most)

\* The digits are read as the code of c.
Coding(ds, radix, most, c) == Number(ds, radix, most) = Ascii[c]

LEMMA DigitsRead ==
  ASSUME NEW pre \in Seq(Unit), NEW m \in Nat, Len(pre) = m, m >= 1, pre[1] = "&",
         NEW digits \in SUBSET (Unit \ {Semicolon}), NEW ds \in Seq(digits), ds # << >>,
         NEW radix, NEW most, NEW c \in DOMAIN Ascii, Coding(ds, radix, most, c),
         NEW t, Shut(t, pre, ds), Numeric(pre, m, digits, radix, most)
  PROVE  StandsFor(t, c)
<1>1. ds \in Seq(Unit) /\ Semicolon \notin digits
  <2>1. ASSUME NEW i \in 1..Len(ds) PROVE ds[i] \in Unit
    <3>1. ds[i] \in digits
      BY <2>1
    <3> QED
      BY <3>1
  <2> QED
    BY <2>1, SeqIn
<1>2. PICK k \in Nat : Len(ds) = k
  OBVIOUS
<1>3. k >= 1
  BY <1>2, EmptySeq
<1>4. t \in Seq(Unit) /\ \A rest \in Seq(Unit) : Spelt(t \o rest, pre, ds, rest)
  BY <1>1, SpeltJoin
<1>5. ASSUME NEW rest \in Seq(Unit) PROVE HrefText(t \o rest) = <<c>> \o HrefText(rest)
  <2>1. PICK x : x = t \o rest /\ Spelt(x, pre, ds, rest)
    BY <1>4
  <2>2. SpeltWell(x, pre, ds, rest, m, k)
    BY <1>1, <1>2, <2>1, SpeltIs
  <2>3. /\ x \in Seq(Unit) /\ Len(x) \in Nat /\ Len(x) >= m + k + 1
        /\ (\A i \in 1..m : x[i] = pre[i]) /\ (\A i \in 1..k : x[m + i] = ds[i])
        /\ Ended(x, m + k + 1)
    BY <2>2 DEF SpeltWell
  <2>4. Run(x, m + 1, digits) = ds
    BY <1>1, <2>2, Zenon DEF SpeltWell
  <2>5. Starts(x, pre)
    <3>1. Len(pre) <= Len(x) /\ \A i \in 1..Len(pre) : x[i] = pre[i]
      BY <2>3
    <3> QED
      BY <2>3, <3>1, StartsIs
  <2>6. x[m + 1] \in digits
    <3>1. 1 \in 1..k
      BY <1>3
    <3>2. ds[1] \in digits
      BY <1>2, <3>1
    <3>3. x[m + 1] = ds[1]
      BY <2>3, <3>1
    <3> QED
      BY <3>2, <3>3
  <2>7. Len(x) > m
    BY <1>3, <2>3
  <2>8. Reference(x) = NumericReference(x, m + 1, digits, radix, most)
    BY <2>3, <2>5, <2>6, <2>7, Zenon DEF Numeric
  <2>9. m + 1 + Len(ds) = m + k + 1
    BY <1>2
  <2>10. Ended(x, m + 1 + Len(ds))
    BY <2>3, <2>9
  <2>11. NumericReference(x, m + 1, digits, radix, most)
          = [length |-> m + 1 + Len(ds), code |-> Coded(Number(ds, radix, most))]
    BY <2>4, <2>10, Zenon DEF NumericReference
  <2>12. PICK n \in 1..127 : n = Ascii[c] /\ Coded(n) = n
    <3>1. PICK n \in 32..126 : n = Ascii[c]
      BY AsciiAre
    <3>2. n \in 1..127
      OBVIOUS
    <3> QED
      BY <3>1, <3>2, CodedIs
  <2>13. Reference(x).length = m + 1 + Len(ds) /\ Reference(x).code = Coded(Number(ds, radix, most))
    BY <2>8, <2>11
  <2>14. Coded(Number(ds, radix, most)) = Ascii[c]
    BY <2>12, Zenon DEF Coding
  <2>15. Referred(x, m + k + 1, Ascii[c])
    BY <2>9, <2>13, <2>14 DEF Referred
  <2>16. HrefText(x) = <<c>> \o HrefText(rest)
    BY <1>1, <2>2, <2>15, SpeltRead
  <2> QED
    BY <2>1, <2>16
<1> QED
  BY <1>4, <1>5 DEF StandsFor

\* t is a reference to c by its decimal digits, with z before them, or by its
\* hex digits.
InDecimal(t, z, c) == t = (<<"&", "#">> \o (z \o Decimal(Ascii[c]))) \o <<Semicolon>>
InHex(t, c) == t = (<<"&", "#", "x">> \o Hex2(Ascii[c])) \o <<Semicolon>>

\* The prefixes of the two.
Openings(two, three) ==
  /\ two \in Seq(Unit) /\ two = <<"&", "#">> /\ Len(two) = 2 /\ two[1] = "&"
  /\ three \in Seq(Unit) /\ three = <<"&", "#", "x">> /\ Len(three) = 3 /\ three[1] = "&"

LEMMA OpeningsAre == \E two, three : Openings(two, three)
<1>1. PICK a \in Unit, b \in Unit, c \in Unit : a = "&" /\ b = "#" /\ c = "x"
  BY LettersAre
<1>2. <<a, b>> \in Seq(Unit) /\ Len(<<a, b>>) = 2 /\ <<a, b>>[1] = a
  OBVIOUS
<1>3. <<a, b, c>> \in Seq(Unit) /\ Len(<<a, b, c>>) = 3 /\ <<a, b, c>>[1] = a
  OBVIOUS
<1> QED
  BY <1>1, <1>2, <1>3, Zenon DEF Openings

LEMMA DecimalStands ==
  ASSUME NEW c \in DOMAIN Ascii, NEW z \in {<< >>, <<"0", "0", "0">>}, NEW t, InDecimal(t, z, c)
  PROVE  StandsFor(t, c)
<1>1. PICK pre \in Seq(Unit) : pre = <<"&", "#">> /\ Len(pre) = 2 /\ pre[1] = "&"
  BY OpeningsAre DEF Openings
<1>2. PICK n \in 0..999 : n = Ascii[c]
  <2>1. PICK n \in 32..126 : n = Ascii[c]
    BY AsciiAre
  <2>2. n \in 0..999
    OBVIOUS
  <2> QED
    BY <2>1, <2>2, ZenonT(60)
<1>3. PICK ds \in Seq(Digit) : ds = z \o Decimal(n) /\ ds # << >> /\ Number(ds, 10, MaxDecimals) = n
  BY DecimalRead, ZenonT(60)
<1>4. Digit \in SUBSET (Unit \ {Semicolon}) /\ "x" \notin Digit
  <2>1. "x" \notin Digit
    BY DEF Digit
  <2>2. PICK H : Digit \in SUBSET H /\ H \in SUBSET (Unit \ {Semicolon})
    BY HexAre
  <2> QED
    BY <2>1, <2>2
<1>5. PICK m \in Nat : Len(pre) = m
  OBVIOUS
<1>6. m = 2 /\ m >= 1 /\ m + 1 = 3
  BY <1>1, <1>5
<1>7. ASSUME NEW x \in Seq(Unit), Starts(x, pre), Len(x) > m, x[m + 1] \in Digit
      PROVE  Reference(x) = NumericReference(x, m + 1, Digit, 10, MaxDecimals)
  <2>1. ~(Len(x) < 3) /\ m + 1 = 3
    BY <1>6, <1>7
  <2>2. x[3] # "x"
    BY <1>4, <1>7, <2>1
  <2>3. ~Starts(x, <<"&", "#", "x">>)
    BY <2>2, LettersAre, ThreeIs
  <2>4. Starts(x, <<"&", "#">>)
    BY <1>1, <1>7
  <2>5. Reference(x) = NumericReference(x, 3, Digit, 10, MaxDecimals)
    BY <2>1, <2>3, <2>4, Zenon DEF Reference
  <2> QED
    BY <2>1, <2>5
<1>8. Numeric(pre, m, Digit, 10, MaxDecimals)
  BY <1>7 DEF Numeric
<1>9. Shut(t, pre, ds)
  BY <1>1, <1>2, <1>3, Zenon DEF Shut, InDecimal
<1>10. Coding(ds, 10, MaxDecimals, c)
  BY <1>2, <1>3 DEF Coding
<1> QED
  BY <1>1, <1>3, <1>4, <1>5, <1>6, <1>8, <1>9, <1>10, DigitsRead

LEMMA HexStands ==
  ASSUME NEW c \in DOMAIN Ascii, Ascii[c] % 16 <= 10, NEW t, InHex(t, c)
  PROVE  StandsFor(t, c)
<1>1. PICK pre \in Seq(Unit) : pre = <<"&", "#", "x">> /\ Len(pre) = 3 /\ pre[1] = "&"
  BY OpeningsAre DEF Openings
<1>2. PICK n \in 32..126 : n = Ascii[c]
  BY AsciiAre
<1>3. PICK D : D = DOMAIN HexValue
  OBVIOUS
<1>4. PICK ds \in Seq(D) : ds = Hex2(n) /\ ds # << >> /\ Number(ds, 16, MaxHexDigits) = n
  BY <1>2, <1>3, HexRead
<1>5. D \in SUBSET (Unit \ {Semicolon})
  BY <1>3, HexAre
<1>6. PICK m \in Nat : Len(pre) = m
  OBVIOUS
<1>7. m = 3 /\ m >= 1 /\ m + 1 = 4
  BY <1>1, <1>6
<1>8. ASSUME NEW x \in Seq(Unit), Starts(x, pre), Len(x) > m
      PROVE  Reference(x) = NumericReference(x, m + 1, D, 16, MaxHexDigits)
  <2>1. ~(Len(x) < 3) /\ m + 1 = 4
    BY <1>7, <1>8
  <2>2. Starts(x, <<"&", "#", "x">>)
    BY <1>1, <1>8
  <2>3. Reference(x) = NumericReference(x, 4, D, 16, MaxHexDigits)
    BY <1>3, <2>1, <2>2, Zenon DEF Reference
  <2> QED
    BY <2>1, <2>3
<1>9. Numeric(pre, m, D, 16, MaxHexDigits)
  BY <1>8 DEF Numeric
<1>10. Shut(t, pre, ds)
  BY <1>1, <1>2, <1>4, Zenon DEF Shut, InHex
<1>11. Coding(ds, 16, MaxHexDigits, c)
  BY <1>2, <1>4 DEF Coding
<1> QED
  BY <1>1, <1>4, <1>5, <1>6, <1>7, <1>9, <1>10, <1>11, DigitsRead

LEMMA DecimalUnits ==
  ASSUME NEW c \in DOMAIN Ascii
  PROVE  Decimal(Ascii[c]) \in Seq(Unit)
<1>1. PICK n \in 32..126 : n = Ascii[c]
  BY AsciiAre
<1>2. PICK ds \in Seq(Digit) : ds = Decimal(n)
  <2>1. n \in Nat
    OBVIOUS
  <2> QED
    BY <2>1, DecimalIs
<1>3. Digit \in SUBSET Unit
  BY DEF Unit
<1>4. ASSUME NEW i \in 1..Len(ds) PROVE ds[i] \in Unit
  <2>1. ds[i] \in Digit
    OBVIOUS
  <2> QED
    BY <1>3, <2>1
<1> QED
  BY <1>1, <1>2, <1>4, SeqIn

\* Every way of writing a character is read as that character.
LEMMA CharacterRead ==
  ASSUME NEW c \in Unit, NEW way \in Ways
  PROVE  StandsFor(CharacterAs(c, way), c)
<1>1. CASE way = "named" /\ c = "&"
  <2>1. InName(CharacterAs(c, way))
    BY <1>1, Zenon DEF CharacterAs, Semicolon, InName
  <2> QED
    BY <1>1, <2>1, NamedRead
<1>2. CASE way = "decimal" /\ c \in DOMAIN Ascii
  <2>1. CharacterAs(c, way) = (<<"&", "#">> \o Decimal(Ascii[c])) \o <<Semicolon>>
    BY <1>2, Zenon DEF CharacterAs, Semicolon
  <2>2. << >> \o Decimal(Ascii[c]) = Decimal(Ascii[c])
    BY <1>2, DecimalUnits, ConcatEmptySeq, Zenon
  <2>3. PICK t : t = CharacterAs(c, way)
    OBVIOUS
  <2>4. InDecimal(t, << >>, c)
    BY <2>1, <2>2, <2>3, Zenon DEF InDecimal
  <2> QED
    BY <1>2, <2>3, <2>4, DecimalStands
<1>3. CASE way = "padded" /\ c \in DOMAIN Ascii
  <2>1. PICK v \in Seq(Unit) : v = Decimal(Ascii[c])
    BY <1>3, DecimalUnits
  <2>2. PICK a \in Seq(Unit), b \in Seq(Unit) :
          a = <<"&", "#">> /\ b = <<"0", "0", "0">> /\ <<"&", "#", "0", "0", "0">> = a \o b
    <3>1. PICK x \in Unit, y \in Unit, o \in Unit : x = "&" /\ y = "#" /\ o = "0"
      BY LettersAre
    <3>2. <<x, y>> \in Seq(Unit) /\ <<o, o, o>> \in Seq(Unit)
      OBVIOUS
    <3>3. <<x, y, o, o, o>> = <<x, y>> \o <<o, o, o>>
      OBVIOUS
    <3> QED
      BY <3>1, <3>2, <3>3, Zenon
  <2>3. Chained(a, b, v)
    BY Chains
  <2>4. CharacterAs(c, way) = (<<"&", "#", "0", "0", "0">> \o Decimal(Ascii[c])) \o <<Semicolon>>
    BY <1>3, Zenon DEF CharacterAs, Semicolon
  <2>5. PICK t : t = CharacterAs(c, way)
    OBVIOUS
  <2>6. InDecimal(t, b, c)
    BY <2>1, <2>2, <2>3, <2>4, <2>5, Zenon DEF InDecimal, Chained
  <2> QED
    BY <1>3, <2>2, <2>5, <2>6, DecimalStands
<1>4. CASE way = "hex" /\ c \in DOMAIN Ascii /\ Ascii[c] % 16 <= 10
  <2>1. PICK t : t = CharacterAs(c, way)
    OBVIOUS
  <2>2. InHex(t, c)
    BY <1>4, <2>1, Zenon DEF CharacterAs, Semicolon, InHex
  <2> QED
    BY <1>4, <2>1, <2>2, HexStands
<1>5. CASE ~(\/ way = "named" /\ c = "&"
             \/ way = "decimal" /\ c \in DOMAIN Ascii
             \/ way = "padded" /\ c \in DOMAIN Ascii
             \/ way = "hex" /\ c \in DOMAIN Ascii /\ Ascii[c] % 16 <= 10)
  <2>1. CharacterAs(c, way) = <<c>>
    BY <1>5, Zenon DEF CharacterAs
  <2>2. c # "&"
    <3>1. SUFFICES ASSUME c = "&" PROVE FALSE
      OBVIOUS
    <3>2. c \in DOMAIN Ascii /\ Ascii[c] % 16 <= 10
      BY <3>1, AsciiAre
    <3> QED
      BY <1>5, <3>1, <3>2 DEF Ways
  <2> QED
    BY <2>1, <2>2, PlainRead
<1> QED
  BY <1>1, <1>2, <1>3, <1>4, <1>5

\* So a text written in such a way is read as that text.
LEMMA WrittenRead ==
  ASSUME NEW w \in Seq(Unit), NEW way \in Ways
  PROVE  HrefText(WrittenAs(w, way)) = w
<1>1. PICK n \in Nat : n = Len(w)
  OBVIOUS
<1>2. PICK ws : ws = [i \in 1..n |-> CharacterAs(w[i], way)]
  OBVIOUS
<1>3. \A i \in 1..n : w[i] \in Unit /\ ws[i] \in Seq(Unit) /\ StandsFor(ws[i], w[i])
  <2>1. ASSUME NEW i \in 1..n PROVE w[i] \in Unit /\ ws[i] \in Seq(Unit) /\ StandsFor(ws[i], w[i])
    <3>1. w[i] \in Unit /\ ws[i] = CharacterAs(w[i], way)
      BY <1>1, <1>2
    <3>2. StandsFor(ws[i], w[i])
      BY <3>1, CharacterRead
    <3> QED
      BY <3>1, <3>2 DEF StandsFor
  <2> QED
    BY <2>1
<1>4. ws \in Seq(Seq(Unit)) /\ Len(ws) = n
  BY <1>2, <1>3
<1>5. DOMAIN w = 1..n
  BY <1>1
<1>6. WrittenAs(w, way) = FlattenSeq(ws)
  BY <1>2, <1>5 DEF WrittenAs
<1>7. PICK r : Flattening(r, ws, Seq(Unit)) /\ FlattenSeq(ws) = r[n]
  BY <1>4, FlattenFold
<1>8. r \in [0..n -> Seq(Unit)] /\ r[0] = << >> /\ \A k \in 1..n : r[k] = r[k - 1] \o ws[k]
  BY <1>4, <1>7 DEF Flattening
<1> DEFINE ReadUpTo(k) == \A rest \in Seq(Unit) : HrefText(r[k] \o rest) = SubSeq(w, 1, k) \o HrefText(rest)
           P == {k \in Nat : k <= n => ReadUpTo(k)}
<1>9. 0 \in P
  <2>1. ASSUME NEW rest \in Seq(Unit) PROVE HrefText(r[0] \o rest) = SubSeq(w, 1, 0) \o HrefText(rest)
    <3>1. PICK h \in Seq(Unit) : h = HrefText(rest)
      BY HrefIs
    <3>2. << >> \o rest = rest /\ << >> \o h = h
      BY ConcatEmptySeq
    <3>3. SubSeq(w, 1, 0) = << >>
      OBVIOUS
    <3> QED
      BY <1>8, <3>1, <3>2, <3>3
  <2> QED
    BY <2>1
<1>10. ASSUME NEW k \in P PROVE k + 1 \in P
  <2>1. SUFFICES ASSUME k + 1 <= n PROVE ReadUpTo(k + 1)
    OBVIOUS
  <2>2. k \in 0..n /\ k + 1 \in 1..n /\ (k + 1) - 1 = k /\ ReadUpTo(k)
    BY <2>1
  <2>3. PICK c \in Unit, t \in Seq(Unit) : c = w[k + 1] /\ t = ws[k + 1] /\ StandsFor(t, c)
    BY <1>3, <2>2
  <2>4. PICK b \in Seq(Unit) : b = r[k] /\ r[k + 1] = b \o t
    BY <1>8, <2>2, <2>3
  <2>5. PICK a \in Seq(Unit) : a = SubSeq(w, 1, k) /\ SubSeq(w, 1, k + 1) = Append(a, c)
    BY <1>1, <2>1, <2>3, TakenMore
  <2>6. ASSUME NEW rest \in Seq(Unit)
        PROVE  HrefText(r[k + 1] \o rest) = SubSeq(w, 1, k + 1) \o HrefText(rest)
    <3>1. PICK h \in Seq(Unit) : h = HrefText(rest)
      BY HrefIs
    <3>2. PICK x \in Seq(Unit) : x = t \o rest
      BY ConcatProperties
    <3>3. Chained(b, t, rest)
      BY Chains
    <3>4. HrefText(b \o x) = a \o HrefText(x)
      BY <2>2, <2>4, <2>5
    <3>5. HrefText(x) = <<c>> \o h
      BY <2>3, <3>1, <3>2 DEF StandsFor
    <3>6. PICK s \in Seq(Unit) : s = <<c>>
      BY OneIs
    <3>7. Chained(a, s, h)
      BY Chains
    <3>8. a \o s = Append(a, c)
      BY <3>6
    <3> QED
      BY <2>4, <2>5, <3>1, <3>2, <3>3, <3>4, <3>5, <3>6, <3>7, <3>8, Zenon DEF Chained
  <2> QED
    BY <2>6
<1>11. P = Nat
  <2>1. P \in SUBSET Nat
    OBVIOUS
  <2> HIDE DEF P
  <2> QED
    BY <1>9, <1>10, <2>1, Induct
<1>12. ReadUpTo(n)
  <2>1. n \in P
    BY <1>11
  <2> HIDE DEF ReadUpTo
  <2> QED
    BY <2>1
<1>13. r[n] \in Seq(Unit) /\ << >> \in Seq(Unit)
  BY <1>8, EmptySeq
<1>14. HrefText(r[n] \o << >>) = SubSeq(w, 1, n) \o HrefText(<< >>)
  BY <1>12, <1>13
<1>15. r[n] \o << >> = r[n] /\ w \o << >> = w
  BY <1>13, ConcatEmptySeq
<1>16. SubSeq(w, 1, n) = w
  BY <1>1
<1>17. HrefText(<< >>) = << >>
  BY <1>13, HrefTurn
<1> QED
  BY <1>6, <1>7, <1>14, <1>15, <1>16, <1>17

LEMMA HrefStep == RequestInv => HrefsAreReadOnce
<1> SUFFICES ASSUME RequestInv, call.kind = "link", stage # "asked"
             PROVE  /\ \A way \in Ways : HrefText(WrittenAs(call.of.href, way)) = call.of.href
                    /\ Size(ref) <= Size(call.of.href)
  BY DEF HrefsAreReadOnce
<1>1. PICK l : l = call.of
  OBVIOUS
<1>2. l \in Links
  BY <1>1 DEF RequestInv, Calls
<1>3. PICK w \in Seq(Unit) : w = l.href
  BY <1>2, RequestConstants
<1>4. ref = HrefText(w)
  BY <1>1, <1>3 DEF RequestInv
<1>5. \A way \in Ways : HrefText(WrittenAs(w, way)) = w
  BY WrittenRead
<1>6. Size(HrefText(w)) <= Size(w)
  BY HrefSize
<1> QED
  BY <1>1, <1>3, <1>4, <1>5, <1>6

\* A text is read out of an href however a document writes it: by name, in
\* decimal, with zeros in front, or in hex; and it is read once, since what
\* a reference stands for is not read again. No href is made longer by it.
THEOREM HrefsRead == Spec => []HrefsAreReadOnce
BY RequestSafe, HrefStep, PTL
=============================================================================
