----------------------------- MODULE Induction -----------------------------
(***************************************************************************)
(* Induction over the natural numbers, as facts about sets of them.        *)
(***************************************************************************)
EXTENDS Naturals, WellFoundedInduction, TLAPS

LEMMA Smallest ==
  ASSUME NEW T \in SUBSET Nat, T # {}
  PROVE  \E n \in T : \A m \in T : n <= m
<1> DEFINE R == {p \in Nat \X Nat : p[1] < p[2]}
<1>1. IsWellFoundedOn(R, Nat)
  BY NatLessThanWellFounded DEF OpToRel
<1>2. PICK n \in T : \A m \in T : ~(<<m, n>> \in R)
  <2> HIDE DEF R
  <2> QED
    BY <1>1, WFMin
<1>3. ASSUME NEW m \in T PROVE n <= m
  <2>1. <<m, n>> \notin R
    BY <1>2
  <2> QED
    BY <2>1
<1> QED
  BY <1>2, <1>3

LEMMA Greatest ==
  ASSUME NEW T \in SUBSET Nat, T # {}, NEW b \in Nat, \A n \in T : n <= b
  PROVE  \E n \in T : \A m \in T : m <= n
<1> DEFINE U == {m \in 0..b : b - m \in T}
<1>1. PICK t \in T : TRUE
  OBVIOUS
<1>2. U # {} /\ U \in SUBSET Nat
  <2>1. b - t \in 0..b /\ b - (b - t) = t
    OBVIOUS
  <2> QED
    BY <2>1
<1>3. PICK u \in U : \A m \in U : u <= m
  <2> HIDE DEF U
  <2> QED
    BY <1>2, Smallest
<1>4. ASSUME NEW m \in T PROVE m <= b - u
  <2>1. b - m \in 0..b /\ b - (b - m) = m
    OBVIOUS
  <2>2. b - m \in U
    BY <2>1
  <2>3. u \in 0..b /\ u <= b - m
    BY <2>2, <1>3
  <2> QED
    BY <2>1, <2>3
<1> QED
  BY <1>3, <1>4

LEMMA Induct ==
  ASSUME NEW S \in SUBSET Nat, 0 \in S, \A n \in S : n + 1 \in S
  PROVE  S = Nat
<1>1. SUFFICES ASSUME Nat \ S # {} PROVE FALSE
  OBVIOUS
<1>2. PICK n \in Nat \ S : \A m \in Nat \ S : n <= m
  BY <1>1, Smallest
<1>3. n # 0 /\ n - 1 \in Nat /\ ~(n <= n - 1)
  BY <1>2
<1>4. n - 1 \in S
  BY <1>2, <1>3
<1>5. (n - 1) + 1 = n
  BY <1>2
<1> QED
  BY <1>2, <1>4, <1>5

\* The steps T, taken one after another.
LEMMA Iterates ==
  ASSUME NEW X, NEW x \in X, NEW m \in Nat, NEW T \in [1..m -> [X -> X]]
  PROVE  \E f \in [0..m -> X] : f[0] = x /\ \A k \in 1..m : f[k] = T[k][f[k - 1]]
<1> DEFINE S == {n \in Nat : n <= m =>
                   \E f \in [0..n -> X] : f[0] = x /\ \A k \in 1..n : f[k] = T[k][f[k - 1]]}
<1>1. 0 \in S
  <2>1. [k \in 0..0 |-> x] \in [0..0 -> X] /\ [k \in 0..0 |-> x][0] = x /\ 1..0 = {}
    OBVIOUS
  <2> QED
    BY <2>1
<1>2. ASSUME NEW n \in S PROVE n + 1 \in S
  <2>1. SUFFICES ASSUME n + 1 <= m
                 PROVE  \E g \in [0..(n + 1) -> X] :
                          g[0] = x /\ \A k \in 1..(n + 1) : g[k] = T[k][g[k - 1]]
    OBVIOUS
  <2>2. n \in Nat /\ n + 1 \in 1..m
    BY <2>1
  <2>3. PICK f \in [0..n -> X] : f[0] = x /\ \A k \in 1..n : f[k] = T[k][f[k - 1]]
    BY <2>1, <2>2
  <2> DEFINE next == T[n + 1][f[n]]
             g == [k \in 0..(n + 1) |-> IF k <= n THEN f[k] ELSE next]
  <2>4. next \in X
    <3>1. T[n + 1] \in [X -> X] /\ f[n] \in X
      BY <2>2, <2>3
    <3> QED
      BY <3>1
  <2>5. g \in [0..(n + 1) -> X] /\ g[n + 1] = next /\ \A k \in 0..n : g[k] = f[k]
    <3> HIDE DEF next
    <3> QED
      BY <2>2, <2>3, <2>4
  <2>6. ASSUME NEW k \in 1..(n + 1) PROVE g[k] = T[k][g[k - 1]]
    <3> HIDE DEF g
    <3>1. CASE k \in 1..n
      <4>1. k - 1 \in 0..n /\ k \in 0..n
        BY <2>2, <3>1
      <4> QED
        BY <2>3, <2>5, <3>1, <4>1
    <3>2. CASE k = n + 1
      <4>1. k - 1 = n /\ n \in 0..n
        BY <2>2, <3>2
      <4> QED
        BY <2>5, <3>2, <4>1
    <3> QED
      BY <2>2, <3>1, <3>2
  <2>7. g[0] = x
    BY <2>2, <2>3, <2>5
  <2> HIDE DEF g
  <2> QED
    BY <2>5, <2>6, <2>7
<1>3. S = Nat
  <2> HIDE DEF S
  <2>1. S \in SUBSET Nat
    BY DEF S
  <2> QED
    BY <1>1, <1>2, <2>1, Induct
<1>4. m \in S
  BY <1>3
<1> QED
  BY <1>4

\* A function that is defined by its values on smaller arguments exists: size
\* says which are smaller, and step makes of a function the next approximation.
Founded(D, X, size, step) ==
  /\ X # {} /\ size \in [D -> Nat] /\ step \in [[D -> X] -> [D -> X]]
  /\ \A f, g \in [D -> X], v \in D :
       (\A u \in D : size[u] < size[v] => f[u] = g[u]) => step[f][v] = step[g][v]

LEMMA Recursion ==
  ASSUME NEW D, NEW X, NEW size, NEW step, Founded(D, X, size, step)
  PROVE  \E f \in [D -> X] : f = step[f]
<1> USE DEF Founded
<1>a. PICK x \in X : TRUE
  OBVIOUS
<1> DEFINE Good(f, n) == \A v \in D : size[v] < n => f[v] = step[f][v]
           S == {n \in Nat : \E f \in [D -> X] : Good(f, n)}
           Agree(n) == \A f, g \in [D -> X] :
                         Good(f, n) /\ Good(g, n) => \A v \in D : size[v] < n => f[v] = g[v]
           T == {n \in Nat : Agree(n)}
<1>1. 0 \in S
  <2>1. [v \in D |-> x] \in [D -> X]
    OBVIOUS
  <2>2. \A v \in D : ~(size[v] < 0)
    OBVIOUS
  <2> QED
    BY <2>1, <2>2
<1>2. ASSUME NEW n \in S PROVE n + 1 \in S
  <2>1. PICK f \in [D -> X] : Good(f, n)
    OBVIOUS
  <2>2. step[f] \in [D -> X]
    OBVIOUS
  <2>3. ASSUME NEW v \in D, size[v] < n + 1 PROVE step[f][v] = step[step[f]][v]
    <3>1. ASSUME NEW u \in D, size[u] < size[v] PROVE f[u] = step[f][u]
      <4>1. size[u] < n
        BY <2>3, <3>1
      <4> QED
        BY <2>1, <4>1
    <3> QED
      BY <2>2, <3>1
  <2>4. Good(step[f], n + 1)
    BY <2>3
  <2> HIDE DEF Good
  <2> QED
    BY <2>2, <2>4
<1>3. 0 \in T
  <2>1. \A v \in D : ~(size[v] < 0)
    OBVIOUS
  <2> QED
    BY <2>1
<1>4. ASSUME NEW n \in T PROVE n + 1 \in T
  <2>1. SUFFICES ASSUME NEW f \in [D -> X], NEW g \in [D -> X], Good(f, n + 1), Good(g, n + 1),
                        NEW v \in D, size[v] < n + 1
                 PROVE  f[v] = g[v]
    OBVIOUS
  <2>2. Good(f, n) /\ Good(g, n)
    BY <2>1
  <2>3. \A u \in D : size[u] < n => f[u] = g[u]
    <3> HIDE DEF Good
    <3> QED
      BY <2>2
  <2>4. \A u \in D : size[u] < size[v] => f[u] = g[u]
    BY <2>1, <2>3
  <2>5. f[v] = step[f][v] /\ g[v] = step[g][v]
    BY <2>1
  <2> QED
    BY <2>4, <2>5
<1>5. S = Nat /\ T = Nat
  <2> HIDE DEF S, T
  <2>1. S \in SUBSET Nat /\ T \in SUBSET Nat
    BY DEF S, T
  <2> QED
    BY <1>1, <1>2, <1>3, <1>4, <2>1, Induct
<1> DEFINE F(n) == CHOOSE f \in [D -> X] : Good(f, n)
           h == [v \in D |-> F(size[v] + 1)[v]]
<1>6. ASSUME NEW n \in Nat PROVE F(n) \in [D -> X] /\ Good(F(n), n)
  <2>1. \E f \in [D -> X] : Good(f, n)
    BY <1>5
  <2> HIDE DEF Good
  <2> QED
    BY <2>1
<1>7. ASSUME NEW n \in Nat PROVE Agree(n)
  BY <1>5
<1> HIDE DEF F, S, T
<1>8. h \in [D -> X]
  BY <1>6
<1>9. ASSUME NEW v \in D PROVE h[v] = step[h][v]
  <2> DEFINE n == size[v] + 1
  <2>1. n \in Nat /\ size[v] < n /\ size[v] \in Nat
    OBVIOUS
  <2>2. F(n) \in [D -> X] /\ F(n)[v] = step[F(n)][v]
    BY <1>6, <2>1
  <2>3. ASSUME NEW u \in D, size[u] < size[v] PROVE F(n)[u] = h[u]
    <3> DEFINE m == size[u] + 1
    <3>1. m \in Nat /\ size[u] < m /\ m <= n
      BY <2>1, <2>3
    <3>2. F(m) \in [D -> X] /\ Good(F(m), m) /\ Good(F(n), n)
      BY <1>6, <2>1, <3>1
    <3>3. Good(F(n), m)
      BY <2>1, <3>1, <3>2
    <3>4. F(m)[u] = F(n)[u]
      <4> HIDE DEF Good, m, n
      <4> QED
        BY <1>7, <2>2, <3>1, <3>2, <3>3
    <3> QED
      BY <3>4
  <2>4. step[F(n)][v] = step[h][v]
    <3> HIDE DEF n, h
    <3> QED
      BY <1>8, <2>2, <2>3
  <2>5. h[v] = F(n)[v]
    OBVIOUS
  <2> QED
    BY <2>2, <2>4, <2>5
<1>10. step[h] \in [D -> X]
  <2> HIDE DEF h
  <2> QED
    BY <1>8
<1> HIDE DEF h
<1> QED
  BY <1>8, <1>9, <1>10

\* What holds of v whenever it holds of all that is smaller holds everywhere.
Inherited(D, size, Q) ==
  /\ size \in [D -> Nat] /\ Q \in SUBSET D
  /\ \A v \in D : (\A u \in D : size[u] < size[v] => u \in Q) => v \in Q

LEMMA BySize ==
  ASSUME NEW D, NEW size, NEW Q, Inherited(D, size, Q)
  PROVE  Q = D
<1> USE DEF Inherited
<1> DEFINE T == {size[v] : v \in D \ Q}
<1>1. SUFFICES ASSUME D \ Q # {} PROVE FALSE
  OBVIOUS
<1>2. T \in SUBSET Nat /\ T # {}
  BY <1>1
<1>3. PICK n \in T : \A m \in T : n <= m
  <2> HIDE DEF T
  <2> QED
    BY <1>2, Smallest
<1>4. PICK v \in D \ Q : size[v] = n
  OBVIOUS
<1>5. ASSUME NEW u \in D, size[u] < size[v] PROVE u \in Q
  <2>1. size[u] \in Nat /\ size[v] \in Nat
    OBVIOUS
  <2>2. size[u] \notin T
    <3> HIDE DEF T
    <3>1. size[u] \in T => n <= size[u]
      BY <1>3
    <3> QED
      BY <1>4, <1>5, <2>1, <3>1
  <2> QED
    BY <2>2
<1> QED
  BY <1>4, <1>5
=============================================================================
