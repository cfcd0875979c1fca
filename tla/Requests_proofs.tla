-------------------------- MODULE Requests_proofs --------------------------
(***************************************************************************)
(* What resolving a reference, fetching it and naming a download come to,  *)
(* for texts of any length.                                                *)
(***************************************************************************)
EXTENDS Requests, Induction, SequenceTheorems, FiniteSetTheorems

(***************************************************************************)
(* Words.                                                                  *)
(***************************************************************************)
LEMMA PartIs ==
  ASSUME NEW S, NEW w \in Seq(S), NEW m \in 1..(Len(w) + 1), NEW n \in (m - 1)..Len(w)
  PROVE  /\ SubSeq(w, m, n) \in Seq(S) /\ Len(SubSeq(w, m, n)) = n - m + 1
         /\ \A i \in 1..(n - m + 1) : SubSeq(w, m, n)[i] = w[m + i - 1]
<1>1. m \in Int /\ n \in Int /\ Len(w) \in Nat
  OBVIOUS
<1>2. \A i \in m..n : w[i] \in S
  BY <1>1
<1>3. /\ SubSeq(w, m, n) \in Seq(S)
      /\ Len(SubSeq(w, m, n)) = IF m <= n THEN n - m + 1 ELSE 0
      /\ \A i \in 1..(n - m + 1) : SubSeq(w, m, n)[i] = w[m + i - 1]
  BY <1>1, <1>2, SubSeqProperties
<1> QED
  BY <1>1, <1>3

LEMMA MinIs ==
  ASSUME NEW T \in SUBSET Nat, T # {}
  PROVE  Min(T) \in T /\ \A n \in T : Min(T) <= n
<1>1. \E n \in T : \A m \in T : n <= m
  BY Smallest
<1> QED
  BY <1>1 DEF Min

LEMMA MaxIs ==
  ASSUME NEW T \in SUBSET Nat, T # {}, NEW b \in Nat, \A n \in T : n <= b
  PROVE  Max(T) \in T /\ \A n \in T : n <= Max(T)
<1>1. \E n \in T : \A m \in T : m <= n
  BY Greatest
<1>2. \E n \in T : \A m \in T : n >= m
  <2>1. \A m, n \in T : m <= n <=> n >= m
    OBVIOUS
  <2> QED
    BY <1>1, <2>1
<1>3. Max(T) \in T /\ \A n \in T : Max(T) >= n
  BY <1>2 DEF Max
<1>4. \A m, n \in T : m <= n <=> n >= m
  OBVIOUS
<1> QED
  BY <1>3, <1>4

\* The first units of w, up to the first of stops.
LEMMA UntilIs ==
  ASSUME NEW S, NEW w \in Seq(S), NEW stops
  PROVE  /\ Until(w, stops) \in Seq(S) /\ Len(Until(w, stops)) \in 0..Len(w)
         /\ \A i \in 1..Len(Until(w, stops)) : Until(w, stops)[i] = w[i] /\ w[i] \notin stops
         /\ Len(Until(w, stops)) # Len(w) => w[Len(Until(w, stops)) + 1] \in stops
         /\ Until(w, stops) = SubSeq(w, 1, Len(Until(w, stops)))
<1> DEFINE I == {i \in 1..Len(w) : w[i] \in stops}
<1>1. /\ Len(w) \in Nat /\ I \in SUBSET Nat
      /\ Until(w, stops) = IF (IF I # {} THEN Min(I) ELSE 0) = 0 THEN w
                           ELSE SubSeq(w, 1, (IF I # {} THEN Min(I) ELSE 0) - 1)
  BY DEF Until, SelectInSeq
<1>2. \A i \in 1..Len(w) : w[i] \in stops <=> i \in I
  OBVIOUS
<1>3. I \in SUBSET (1..Len(w))
  OBVIOUS
<1> HIDE DEF I
<1>4. CASE I = {}
  <2>1. Until(w, stops) = w
    BY <1>1, <1>4
  <2>2. w = SubSeq(w, 1, Len(w))
    BY SubSeqFull
  <2> QED
    BY <1>1, <1>2, <1>4, <2>1, <2>2
<1>5. CASE I # {}
  <2> DEFINE k == Min(I)
  <2>1. k \in I /\ \A n \in I : k <= n
    BY <1>1, <1>5, MinIs
  <2>2. k \in 1..Len(w) /\ Until(w, stops) = SubSeq(w, 1, k - 1)
    <3>1. k \in 1..Len(w)
      BY <1>3, <2>1
    <3>2. (IF I # {} THEN Min(I) ELSE 0) = k /\ k # 0
      BY <1>5, <3>1
    <3> QED
      BY <1>1, <3>1, <3>2
  <2> HIDE DEF k
  <2>3. /\ SubSeq(w, 1, k - 1) \in Seq(S) /\ Len(SubSeq(w, 1, k - 1)) = k - 1
        /\ \A i \in 1..(k - 1) : SubSeq(w, 1, k - 1)[i] = w[i]
    <3>1. 1 \in 1..(Len(w) + 1) /\ k - 1 \in (1 - 1)..Len(w)
      BY <1>1, <2>2
    <3>2. /\ SubSeq(w, 1, k - 1) \in Seq(S) /\ Len(SubSeq(w, 1, k - 1)) = (k - 1) - 1 + 1
          /\ \A i \in 1..((k - 1) - 1 + 1) : SubSeq(w, 1, k - 1)[i] = w[1 + i - 1]
      BY <3>1, PartIs
    <3>3. (k - 1) - 1 + 1 = k - 1 /\ \A i \in 1..(k - 1) : 1 + i - 1 = i
      BY <2>2
    <3> QED
      BY <3>2, <3>3
  <2>4. \A i \in 1..(k - 1) : i \in 1..Len(w) /\ ~(k <= i)
    BY <1>1, <2>2
  <2>5. \A i \in 1..(k - 1) : w[i] \notin stops
    BY <1>2, <2>1, <2>4
  <2>6. w[k] \in stops /\ (k - 1) + 1 = k /\ k - 1 \in 0..Len(w)
    BY <1>1, <1>2, <2>1, <2>2
  <2> QED
    BY <2>2, <2>3, <2>5, <2>6
<1> QED
  BY <1>4, <1>5

\* The place of the last unit of w that is one of marks, 0 if there is none.
LastOf(w, marks) == SelectLastInSeq(w, LAMBDA c : c \in marks)

LEMMA LastIs ==
  ASSUME NEW S, NEW w \in Seq(S), NEW marks
  PROVE  /\ LastOf(w, marks) \in 0..Len(w)
         /\ LastOf(w, marks) # 0 => w[LastOf(w, marks)] \in marks
         /\ \A i \in (LastOf(w, marks) + 1)..Len(w) : w[i] \notin marks
<1> DEFINE I == {i \in 1..Len(w) : w[i] \in marks}
           k == LastOf(w, marks)
<1>1. /\ Len(w) \in Nat /\ I \in SUBSET Nat /\ \A n \in I : n <= Len(w)
      /\ k = IF I # {} THEN Max(I) ELSE 0
  BY DEF LastOf, SelectLastInSeq
<1>2. \A i \in 1..Len(w) : w[i] \in marks <=> i \in I
  OBVIOUS
<1>3. I \in SUBSET (1..Len(w))
  OBVIOUS
<1> HIDE DEF I, k
<1>4. CASE I = {}
  <2>1. k = 0 /\ \A i \in (k + 1)..Len(w) : i \in 1..Len(w)
    BY <1>1, <1>4
  <2> QED
    BY <1>1, <1>2, <1>4, <2>1 DEF k
<1>5. CASE I # {}
  <2>1. k \in I /\ \A n \in I : n <= k
    BY <1>1, <1>5, MaxIs
  <2>2. k \in 1..Len(w)
    BY <1>3, <2>1
  <2>3. \A i \in (k + 1)..Len(w) : i \in 1..Len(w) /\ ~(i <= k)
    BY <1>1, <2>2
  <2> QED
    BY <1>1, <1>2, <2>1, <2>2, <2>3 DEF k
<1> QED
  BY <1>4, <1>5

\* What begins with a word has its units.
LEMMA StartsIs ==
  ASSUME NEW S, NEW w \in Seq(S), NEW T, NEW word \in Seq(T)
  PROVE  Starts(w, word) <=> Len(word) <= Len(w) /\ \A i \in 1..Len(word) : w[i] = word[i]
<1> DEFINE n == Len(word)
<1>1. n \in Nat /\ Len(w) \in Nat /\ word \in Seq(S \cup T) /\ w \in Seq(S \cup T)
  OBVIOUS
<1>2. CASE n <= Len(w)
  <2> DEFINE u == SubSeq(word, 1, n)
             v == SubSeq(w, 1, n)
  <2>1. u = [i \in 1..n |-> word[i]]
    BY <1>1
  <2>2. v = [i \in 1..n |-> w[i]]
    BY <1>1, <1>2
  <2>3. Starts(w, word) <=> u = v
    BY <1>2 DEF Starts, IsPrefix
  <2> HIDE DEF u, v, n
  <2>4. ASSUME u = v, NEW i \in 1..n PROVE w[i] = word[i]
    <3>1. u[i] = word[i] /\ v[i] = w[i]
      BY <2>1, <2>2
    <3> QED
      BY <2>4, <3>1
  <2>5. ASSUME \A i \in 1..n : w[i] = word[i] PROVE u = v
    BY <2>1, <2>2, <2>5
  <2> QED
    BY <1>2, <2>3, <2>4, <2>5 DEF n
<1>3. CASE ~(n <= Len(w))
  BY <1>3 DEF Starts, IsPrefix
<1> QED
  BY <1>2, <1>3

LEMMA SeqIn ==
  ASSUME NEW S, NEW w \in Seq(S), NEW T, \A i \in 1..Len(w) : w[i] \in T
  PROVE  w \in Seq(T)
<1>1. Len(w) \in Nat /\ w = [i \in 1..Len(w) |-> w[i]]
  OBVIOUS
<1>2. w \in [1..Len(w) -> T]
  BY <1>1
<1> QED
  BY <1>1, <1>2, SeqDef

LEMMA OneIs ==
  ASSUME NEW S, NEW c \in S
  PROVE  <<c>> \in Seq(S) /\ Len(<<c>>) = 1 /\ <<c>>[1] = c
OBVIOUS

\* Sequences of some units, one after the other, are one of those units.
\* r says what the first words of ws come to.
Flattening(r, ws, Y) ==
  r \in [0..Len(ws) -> Y] /\ r[0] = << >> /\ \A k \in 1..Len(ws) : r[k] = r[k - 1] \o ws[k]

LEMMA FlattenFold ==
  ASSUME NEW S, NEW ws \in Seq(Seq(S))
  PROVE  \E r : Flattening(r, ws, Seq(S)) /\ FlattenSeq(ws) = r[Len(ws)]
<1>1. Len(ws) \in Nat
  OBVIOUS
<1>2. CASE Len(ws) = 0
  <2>1. FlattenSeq(ws) = << >>
    BY <1>2, EmptySeq DEF FlattenSeq
  <2>2. << >> \in Seq(S)
    BY EmptySeq
  <2>3. PICK r : r = [k \in 0..0 |-> << >>]
    OBVIOUS
  <2>4. r \in [0..0 -> Seq(S)] /\ r[0] = << >> /\ 1..0 = {}
    BY <2>2, <2>3
  <2> QED
    BY <1>2, <2>1, <2>4 DEF Flattening
<1>3. CASE Len(ws) # 0
  <2>a. PICK n \in Nat : n = Len(ws)
    BY <1>1
  <2>b. PICK Y : Y = Seq(S)
    OBVIOUS
  <2>c. PICK none \in Y : none = << >>
    BY <2>b, EmptySeq
  <2> DEFINE G(f) == [i \in 1..n |-> IF i = 1 THEN ws[i] ELSE f[i - 1] \o ws[i]]
             flat == CHOOSE f : f = G(f)
             T == [k \in 1..n |-> [w \in Y |-> IF k = 1 THEN ws[k] ELSE w \o ws[k]]]
  <2>1. FlattenSeq(ws) = flat[n]
    BY <1>3, <2>a DEF FlattenSeq
  <2>2. T \in [1..n -> [Y -> Y]]
    <3>1. \A k \in 1..n : ws[k] \in Y
      BY <2>a, <2>b
    <3>2. ASSUME NEW k \in 1..n, NEW w \in Y
          PROVE  (IF k = 1 THEN ws[k] ELSE w \o ws[k]) \in Y
      BY <2>b, <3>1, ConcatProperties
    <3> QED
      BY <3>2
  <2>3. PICK r \in [0..n -> Y] : r[0] = none /\ \A k \in 1..n : r[k] = T[k][r[k - 1]]
    <3> HIDE DEF T, G, flat
    <3>1. PICK t \in [1..n -> [Y -> Y]] : t = T
      BY <2>2
    <3>2. \E r \in [0..n -> Y] : r[0] = none /\ \A k \in 1..n : r[k] = t[k][r[k - 1]]
      BY Iterates, SMTT(60)
    <3> QED
      BY <3>1, <3>2
  <2> DEFINE g == [i \in 1..n |-> r[i]]
  <2>4. g = G(g)
    <3>1. ASSUME NEW i \in 1..n
          PROVE  r[i] = IF i = 1 THEN ws[i] ELSE g[i - 1] \o ws[i]
      <4>1. i - 1 \in 0..n /\ r[i] = T[i][r[i - 1]]
        <5> HIDE DEF T
        <5> QED
          BY <2>3, <3>1
      <4>2. T[i][r[i - 1]] = IF i = 1 THEN ws[i] ELSE r[i - 1] \o ws[i]
        BY <2>3, <4>1
      <4>3. i # 1 => i - 1 \in 1..n
        BY <3>1
      <4> QED
        BY <4>1, <4>2, <4>3
    <3> QED
      BY <3>1
  <2>5. flat = G(flat)
    <3> HIDE DEF G, g, T
    <3> QED
      BY <2>4
  <2>a1. \A k \in 1..n : r[k] = r[k - 1] \o ws[k]
    <3>1. ASSUME NEW k \in 1..n PROVE r[k] = r[k - 1] \o ws[k]
      <4>1. k - 1 \in 0..n /\ r[k] = T[k][r[k - 1]]
        <5> HIDE DEF T
        <5> QED
          BY <2>3, <3>1
      <4>2. T[k][r[k - 1]] = IF k = 1 THEN ws[k] ELSE r[k - 1] \o ws[k]
        BY <2>3, <4>1
      <4>3. CASE k = 1
        <5>1. r[k - 1] = << >> /\ ws[k] \in Seq(S)
          <6> HIDE DEF T
          <6> QED
            BY <2>3, <2>a, <2>c, <4>3
        <5>2. << >> \o ws[k] = ws[k]
          BY <5>1, ConcatEmptySeq
        <5> QED
          BY <4>1, <4>2, <4>3, <5>1, <5>2
      <4> QED
        BY <4>1, <4>2, <4>3
    <3> QED
      BY <3>1
  <2> HIDE DEF T
  <2> DEFINE P == {k \in Nat : k \in 1..n => flat[k] = r[k]}
  <2>6. 0 \in P
    OBVIOUS
  <2>7. ASSUME NEW k \in P PROVE k + 1 \in P
    <3> HIDE DEF flat
    <3>1. SUFFICES ASSUME k + 1 \in 1..n PROVE flat[k + 1] = r[k + 1]
      OBVIOUS
    <3>2. flat[k + 1] = IF k + 1 = 1 THEN ws[k + 1] ELSE flat[(k + 1) - 1] \o ws[k + 1]
      BY <2>5, <3>1
    <3>3. g[k + 1] = IF k + 1 = 1 THEN ws[k + 1] ELSE g[(k + 1) - 1] \o ws[k + 1]
      BY <2>4, <3>1
    <3>4. (k + 1) - 1 = k /\ (k + 1 # 1 => k \in 1..n)
      BY <3>1
    <3>5. k + 1 # 1 => flat[k] = r[k] /\ g[k] = r[k]
      BY <3>4
    <3>6. g[k + 1] = r[k + 1]
      BY <3>1
    <3> HIDE DEF g
    <3> QED
      BY <3>2, <3>3, <3>4, <3>5, <3>6
  <2>8. P = Nat
    <3> HIDE DEF P
    <3>1. P \in SUBSET Nat
      BY DEF P
    <3> QED
      BY <2>6, <2>7, <3>1, Induct
  <2>9. flat[n] = r[n]
    <3>1. n \in P /\ n \in 1..n
      <4> HIDE DEF P
      <4> QED
        BY <1>1, <1>3, <2>a, <2>8
    <3> QED
      BY <3>1
  <2> HIDE DEF flat
  <2>10. Flattening(r, ws, Y)
    BY <2>3, <2>a, <2>c, <2>a1 DEF Flattening
  <2> QED
    BY <2>1, <2>9, <2>10, <2>a, <2>b
<1> QED
  BY <1>2, <1>3

LEMMA FlattenIs ==
  ASSUME NEW S, NEW ws \in Seq(Seq(S))
  PROVE  FlattenSeq(ws) \in Seq(S)
<1>1. PICK r : Flattening(r, ws, Seq(S)) /\ FlattenSeq(ws) = r[Len(ws)]
  BY FlattenFold
<1>2. Len(ws) \in 0..Len(ws)
  OBVIOUS
<1> QED
  BY <1>1, <1>2 DEF Flattening

(***************************************************************************)
(* The name of a download.                                                 *)
(***************************************************************************)
LEMMA CutIs ==
  ASSUME NEW S, NEW w \in Seq(S), NEW most \in Nat
  PROVE  Cut(w, most) \in Seq(S) /\ Len(Cut(w, most)) <= most
<1>1. Len(w) \in Nat
  OBVIOUS
<1>2. CASE Len(w) > most
  <2>1. 1 \in 1..(Len(w) + 1) /\ most \in (1 - 1)..Len(w) /\ most - 1 + 1 = most
    BY <1>1, <1>2
  <2> QED
    BY <1>2, <2>1, PartIs DEF Cut
<1>3. CASE ~(Len(w) > most)
  BY <1>1, <1>3 DEF Cut
<1> QED
  BY <1>2, <1>3

Unsafe == Separators \cup Control \cup {Nul}

\* What a name is made of once it is sanitized.
LEMMA SanitizedIs ==
  ASSUME NEW S, NEW w \in Seq(S)
  PROVE  /\ SanitizeFilename(w) \in Seq(S \ Unsafe)
         /\ Len(SanitizeFilename(w)) <= NameMax
<1> DEFINE text == Until(w, {Nul})
           last == LastOf(text, Separators)
           base == BaseName(text)
<1>1. /\ text \in Seq(S) /\ Len(text) \in Nat
      /\ \A i \in 1..Len(text) : text[i] # Nul
  BY UntilIs
<1> HIDE DEF text
<1>2. last \in 0..Len(text) /\ \A i \in (last + 1)..Len(text) : text[i] \notin Separators
  BY <1>1, LastIs
<1>3. base = SubSeq(text, last + 1, Len(text))
  BY DEF BaseName, LastOf
<1>4. /\ base \in Seq(S) /\ Len(base) = Len(text) - (last + 1) + 1
      /\ \A i \in 1..(Len(text) - (last + 1) + 1) : base[i] = text[last + 1 + i - 1]
  <2>1. last + 1 \in 1..(Len(text) + 1) /\ Len(text) \in ((last + 1) - 1)..Len(text)
    BY <1>1, <1>2
  <2> HIDE DEF last, base
  <2> QED
    BY <1>1, <1>3, <2>1, PartIs
<1> HIDE DEF last, base
<1>5. ASSUME NEW i \in 1..Len(base) PROVE base[i] \in S /\ base[i] \notin Separators /\ base[i] # Nul
  <2>1. last + 1 + i - 1 \in (last + 1)..Len(text) /\ last + 1 + i - 1 \in 1..Len(text)
    BY <1>1, <1>2, <1>4
  <2>2. base[i] = text[last + 1 + i - 1]
    BY <1>4
  <2> QED
    BY <1>1, <1>2, <2>1, <2>2
<1> DEFINE parts == [i \in DOMAIN base |-> IF base[i] \in Control THEN << >> ELSE <<base[i]>>]
<1>6. parts \in Seq(Seq(S \ Unsafe))
  <2>1. DOMAIN base = 1..Len(base) /\ Len(base) \in Nat
    BY <1>4
  <2>2. ASSUME NEW i \in 1..Len(base)
        PROVE  (IF base[i] \in Control THEN << >> ELSE <<base[i]>>) \in Seq(S \ Unsafe)
    <3>1. base[i] \notin Control => base[i] \in S \ Unsafe
      BY <1>5 DEF Unsafe
    <3>2. CASE base[i] \in Control
      BY <3>2, EmptySeq
    <3>3. CASE base[i] \notin Control
      <4> DEFINE Safe == S \ Unsafe
      <4>1. base[i] \in Safe
        BY <3>1, <3>3
      <4> HIDE DEF Safe
      <4>2. <<base[i]>> \in Seq(Safe)
        BY <4>1, OneIs
      <4> QED
        BY <3>3, <4>2 DEF Safe
    <3> QED
      BY <3>2, <3>3
  <2> QED
    BY <2>1, <2>2
<1>7. Printed(base) \in Seq(S \ Unsafe)
  <2>1. Printed(base) = FlattenSeq(parts)
    BY DEF Printed
  <2> HIDE DEF parts
  <2> QED
    BY <1>6, <2>1, FlattenIs
<1>8. SanitizeFilename(w) = Cut(Printed(base), NameMax)
  BY DEF SanitizeFilename, base, text
<1> QED
  BY <1>7, <1>8, CutIs, DownloadConstants

\* One turn of decoding a header's value.
DecodedTurn(v, bytes) ==
  IF v = << >> THEN << >>
  ELSE IF IsTriplet(v) THEN <<Octet[<<v[2], v[3]>>]>> \o bytes[SubSeq(v, 4, Len(v))]
  ELSE <<v[1]>> \o bytes[Tail(v)]

LEMMA OctetIs ==
  ASSUME NEW v, IsTriplet(v)
  PROVE  Octet[<<v[2], v[3]>>] \in HeaderByte
<1>1. <<v[2], v[3]>> \in Hex \X Hex
  BY DEF IsTriplet
<1>2. "/" \in HeaderByte /\ "." \in HeaderByte /\ "^" \in HeaderByte /\ "o" \in HeaderByte
  <2>1. "/" \in Separators /\ "^" \in Control
    BY Zenon DEF Separators, Control
  <2> QED
    BY <2>1, Zenon DEF HeaderByte
<1>4. Nul \in HeaderByte
  BY Zenon DEF HeaderByte
<1> DEFINE pair == <<v[2], v[3]>>
<1>3. Octet[pair] =
        CASE pair = <<"2", "F">> -> "/" [] pair = <<"2", "E">> -> "." [] pair = <<"0", "0">> -> Nul
          [] pair = <<"0", "1">> -> "^" [] OTHER -> "o"
  BY <1>1, Zenon DEF Octet
<1> HIDE DEF pair
<1> QED
  BY <1>2, <1>3, <1>4 DEF pair

\* What a turn leaves is shorter.
LEMMA LeftIs ==
  ASSUME NEW S, NEW v \in Seq(S), v # << >>
  PROVE  /\ v[1] \in S /\ Tail(v) \in Seq(S) /\ Len(Tail(v)) < Len(v)
         /\ \A k \in 2..(Len(v) + 1) :
              SubSeq(v, k, Len(v)) \in Seq(S) /\ Len(SubSeq(v, k, Len(v))) < Len(v)
<1>1. Len(v) \in Nat \ {0}
  BY EmptySeq
<1>2. v[1] \in S /\ Tail(v) \in Seq(S) /\ Len(Tail(v)) < Len(v)
  BY <1>1, HeadTailProperties
<1>3. ASSUME NEW k \in 2..(Len(v) + 1)
      PROVE  SubSeq(v, k, Len(v)) \in Seq(S) /\ Len(SubSeq(v, k, Len(v))) < Len(v)
  <2>1. k \in 1..(Len(v) + 1) /\ Len(v) \in (k - 1)..Len(v) /\ Len(v) - k + 1 < Len(v)
    BY <1>1
  <2>2. SubSeq(v, k, Len(v)) \in Seq(S) /\ Len(SubSeq(v, k, Len(v))) = Len(v) - k + 1
    BY <2>1, PartIs
  <2> QED
    BY <2>1, <2>2
<1> QED
  BY <1>2, <1>3

LEMMA DecodedTyped ==
  ASSUME NEW v \in Seq(HeaderByte), NEW f,
         \A u \in Seq(HeaderByte) : Len(u) < Len(v) => f[u] \in Seq(HeaderByte)
  PROVE  DecodedTurn(v, f) \in Seq(HeaderByte)
<1>1. CASE v = << >>
  BY <1>1, EmptySeq DEF DecodedTurn
<1>2. CASE v # << >> /\ IsTriplet(v)
  <2>1. 4 \in 2..(Len(v) + 1)
    BY <1>2 DEF IsTriplet
  <2>2. f[SubSeq(v, 4, Len(v))] \in Seq(HeaderByte)
    BY <1>2, <2>1, LeftIs
  <2>3. <<Octet[<<v[2], v[3]>>]>> \in Seq(HeaderByte)
    BY <1>2, OctetIs, OneIs
  <2> QED
    BY <1>2, <2>2, <2>3, ConcatProperties DEF DecodedTurn
<1>3. CASE v # << >> /\ ~IsTriplet(v)
  <2>1. f[Tail(v)] \in Seq(HeaderByte) /\ <<v[1]>> \in Seq(HeaderByte)
    BY <1>3, LeftIs, OneIs
  <2> QED
    BY <1>3, <2>1, ConcatProperties DEF DecodedTurn
<1> QED
  BY <1>1, <1>2, <1>3

LEMMA DecodedAhead ==
  ASSUME NEW v \in Seq(HeaderByte), NEW f, NEW g,
         \A u \in Seq(HeaderByte) : Len(u) < Len(v) => f[u] = g[u]
  PROVE  DecodedTurn(v, f) = DecodedTurn(v, g)
<1>1. CASE v = << >>
  BY <1>1 DEF DecodedTurn
<1>2. CASE v # << >> /\ IsTriplet(v)
  <2>1. 4 \in 2..(Len(v) + 1)
    BY <1>2 DEF IsTriplet
  <2>2. f[SubSeq(v, 4, Len(v))] = g[SubSeq(v, 4, Len(v))]
    BY <1>2, <2>1, LeftIs
  <2> QED
    BY <1>2, <2>2 DEF DecodedTurn
<1>3. CASE v # << >> /\ ~IsTriplet(v)
  <2>1. f[Tail(v)] = g[Tail(v)]
    BY <1>3, LeftIs
  <2> QED
    BY <1>3, <2>1 DEF DecodedTurn
<1> QED
  BY <1>1, <1>2, <1>3

LEMMA DecodedIs ==
  ASSUME NEW w \in Seq(HeaderByte)
  PROVE  Decoded(w) \in Seq(HeaderByte)
<1>1. PICK Y : Y = Seq(HeaderByte)
  OBVIOUS
<1> DEFINE size == [v \in Y |-> Len(v)]
           step == [f \in [Y -> Y] |-> [v \in Y |-> DecodedTurn(v, f)]]
           bytes == CHOOSE f : f = [v \in Seq(HeaderByte) |-> DecodedTurn(v, f)]
<1>2. size \in [Y -> Nat] /\ \A v \in Y : size[v] = Len(v)
  BY <1>1
<1>3. step \in [[Y -> Y] -> [Y -> Y]]
  <2>1. ASSUME NEW f \in [Y -> Y], NEW v \in Y PROVE DecodedTurn(v, f) \in Y
    BY <1>1, DecodedTyped
  <2> QED
    BY <2>1
<1>4. ASSUME NEW f \in [Y -> Y], NEW g \in [Y -> Y], NEW v \in Y,
             \A u \in Y : size[u] < size[v] => f[u] = g[u]
      PROVE  step[f][v] = step[g][v]
  <2>1. DecodedTurn(v, f) = DecodedTurn(v, g)
    <3> HIDE DEF size
    <3>1. \A u \in Y : Len(u) < Len(v) => f[u] = g[u]
      BY <1>2, <1>4
    <3> QED
      BY <1>1, <3>1, DecodedAhead
  <2> QED
    BY <2>1
<1>5. PICK none \in Y : none = << >>
  BY <1>1, EmptySeq
<1>6. PICK f \in [Y -> Y] : f = step[f]
  <2> HIDE DEF size, step
  <2>1. Founded(Y, Y, size, step)
    BY <1>2, <1>3, <1>4, <1>5 DEF Founded
  <2> QED
    BY <2>1, Recursion
<1>7. f = [v \in Seq(HeaderByte) |-> DecodedTurn(v, f)]
  BY <1>1, <1>6
<1>8. bytes = [v \in Seq(HeaderByte) |-> DecodedTurn(v, bytes)]
  <2> HIDE DEF step
  <2> QED
    BY <1>7
<1>9. Decoded(w) = bytes[w]
  BY DEF Decoded, DecodedTurn
<1> HIDE DEF bytes
<1> DEFINE Q == {v \in Y : bytes[v] \in Y}
<1>10. ASSUME NEW v \in Y, \A u \in Y : size[u] < size[v] => u \in Q
       PROVE  v \in Q
  <2>1. \A u \in Y : Len(u) < Len(v) => bytes[u] \in Y
    BY <1>2, <1>10
  <2>2. DecodedTurn(v, bytes) \in Y
    BY <1>1, <2>1, DecodedTyped
  <2>3. bytes[v] = DecodedTurn(v, bytes)
    BY <1>1, <1>8
  <2> QED
    BY <2>2, <2>3
<1>11. Q = Y
  <2>1. Q \in SUBSET Y
    OBVIOUS
  <2> HIDE DEF Q, size
  <2>2. Inherited(Y, size, Q)
    BY <1>2, <1>10, <2>1 DEF Inherited
  <2> QED
    BY <2>2, BySize
<1> QED
  BY <1>1, <1>9, <1>11

LEMMA FromIs ==
  ASSUME NEW S, NEW cd \in Seq(S), NEW i \in 1..(Len(cd) + 1)
  PROVE  From(cd, i) \in Seq(S)
<1> DEFINE rest == SubSeq(cd, i, Len(cd))
           I == {k \in 1..Len(rest) : rest[k] \notin Ows}
<1>1. rest \in Seq(S) /\ Len(rest) \in Nat
  <2>1. Len(cd) \in (i - 1)..Len(cd)
    OBVIOUS
  <2> QED
    BY <2>1, PartIs
<1>2. From(cd, i) = IF (IF I # {} THEN Min(I) ELSE 0) = 0 THEN << >>
                    ELSE SubSeq(rest, IF I # {} THEN Min(I) ELSE 0, Len(rest))
  BY DEF From, SelectInSeq
<1>3. I \in SUBSET (1..Len(rest)) /\ I \in SUBSET Nat
  OBVIOUS
<1> HIDE DEF rest, I
<1>4. CASE I = {}
  BY <1>2, <1>4, EmptySeq
<1>5. CASE I # {}
  <2>1. Min(I) \in 1..Len(rest)
    BY <1>3, <1>5, MinIs
  <2>2. Min(I) # 0 /\ Min(I) \in 1..(Len(rest) + 1) /\ Len(rest) \in (Min(I) - 1)..Len(rest)
    BY <1>1, <2>1
  <2>3. SubSeq(rest, Min(I), Len(rest)) \in Seq(S)
    BY <1>1, <2>2, PartIs
  <2> QED
    BY <1>2, <1>5, <2>2, <2>3
<1> QED
  BY <1>4, <1>5

LEMMA ValueIs ==
  ASSUME NEW S, NEW cd \in Seq(S), NEW name, Named(cd, name) # {}
  PROVE  Value(cd, name) \in Seq(S)
<1> DEFINE places == Named(cd, name)
           at == From(cd, Min(places))
<1>1. places \in SUBSET (1..(Len(cd) + 1)) /\ Len(cd) \in Nat
  <2>1. Segments(cd) \in SUBSET (1..(Len(cd) + 1))
    <3>1. DOMAIN cd = 1..Len(cd) /\ Len(cd) \in Nat
      OBVIOUS
    <3>2. \A k \in 1..Len(cd) : k + 1 \in 1..(Len(cd) + 1)
      BY <3>1
    <3>3. 1 \in 1..(Len(cd) + 1)
      BY <3>1
    <3> QED
      BY <3>1, <3>2, <3>3 DEF Segments
  <2> QED
    BY <2>1 DEF Named
<1>2. \A i \in places : Starts(From(cd, i), <<name, "=">>)
  BY DEF Named
<1> HIDE DEF places
<1>3. Min(places) \in places
  <2>1. places \in SUBSET Nat /\ places # {}
    BY <1>1 DEF places
  <2> QED
    BY <2>1, MinIs
<1>4. at \in Seq(S) /\ Len(at) \in Nat
  <2>1. Min(places) \in 1..(Len(cd) + 1)
    BY <1>1, <1>3
  <2> QED
    BY <2>1, FromIs
<1>5. 2 <= Len(at)
  <2>1. Starts(at, <<name, "=">>)
    BY <1>2, <1>3
  <2>2. Len(<<name, "=">>) = 2
    OBVIOUS
  <2> HIDE DEF at
  <2> QED
    BY <2>1, <2>2 DEF Starts, IsPrefix
<1>6. Value(cd, name) = SubSeq(at, 3, Len(at))
  BY DEF Value, places
<1> HIDE DEF at
<1>7. 3 \in 1..(Len(at) + 1) /\ Len(at) \in (3 - 1)..Len(at)
  BY <1>4, <1>5
<1> QED
  BY <1>4, <1>6, <1>7, PartIs

LEMMA ExtendedIs ==
  ASSUME NEW value \in Seq(HeaderByte)
  PROVE  Extended(value) \in Seq(HeaderByte)
<1> DEFINE text == Until(value, {";"})
           quotes == {i \in DOMAIN text : text[i] = "'"}
           m == Min(quotes)
           n == Min(quotes \ {m})
<1>1. text \in Seq(HeaderByte) /\ Len(text) \in Nat
  <2>1. text \in Seq(HeaderByte)
    BY UntilIs, Zenon
  <2> HIDE DEF text
  <2> QED
    BY <2>1
<1>2. Extended(value) = Decoded(IF Cardinality(quotes) < 2 THEN text ELSE SubSeq(text, n + 1, Len(text)))
  BY DEF Extended
<1> HIDE DEF text
<1>3. quotes \in SUBSET (1..Len(text)) /\ quotes \in SUBSET Nat
  BY <1>1
<1> HIDE DEF quotes
<1>4. ASSUME ~(Cardinality(quotes) < 2) PROVE quotes # {} /\ quotes \ {m} # {}
  <2>1. quotes # {}
    <3>1. Cardinality({}) = 0
      BY FS_EmptySet
    <3>2. 0 < 2
      OBVIOUS
    <3> QED
      BY <1>4, <3>1, <3>2, Zenon
  <2>2. quotes # {m}
    <3>1. Cardinality({m}) = 1
      BY FS_Singleton
    <3>2. 1 < 2
      OBVIOUS
    <3> HIDE DEF m
    <3> QED
      BY <1>4, <3>1, <3>2, Zenon
  <2>3. m \in quotes
    BY <1>3, <2>1, MinIs
  <2> QED
    BY <2>1, <2>2, <2>3
<1>5. ASSUME ~(Cardinality(quotes) < 2) PROVE SubSeq(text, n + 1, Len(text)) \in Seq(HeaderByte)
  <2>1. quotes \ {m} \in SUBSET Nat /\ quotes \ {m} # {}
    BY <1>3, <1>4, <1>5
  <2>2. n \in quotes \ {m}
    BY <2>1, MinIs
  <2> HIDE DEF m, n
  <2>3. n + 1 \in 1..(Len(text) + 1) /\ Len(text) \in ((n + 1) - 1)..Len(text)
    BY <1>1, <1>3, <2>2
  <2> QED
    BY <1>1, <2>3, PartIs
<1> HIDE DEF m, n
<1> QED
  BY <1>1, <1>2, <1>5, DecodedIs

LEMMA PlainIs ==
  ASSUME NEW value \in Seq(HeaderByte)
  PROVE  Plain(value) \in Seq(HeaderByte)
<1>1. CASE Starts(value, <<"\"">>)
  <2>1. value # << >>
    <3>1. PICK quote : quote = "\""
      BY Zenon
    <3>2. Starts(value, <<quote>>)
      BY <1>1, <3>1, Zenon
    <3>3. Len(<<quote>>) = 1
      OBVIOUS
    <3> QED
      BY <3>2, <3>3, EmptySeq DEF Starts, IsPrefix
  <2>2. Tail(value) \in Seq(HeaderByte)
    BY <2>1, LeftIs
  <2> QED
    BY <1>1, <2>2, UntilIs, Zenon DEF Plain
<1>2. CASE ~Starts(value, <<"\"">>)
  BY <1>2, UntilIs, Zenon DEF Plain
<1> QED
  BY <1>1, <1>2

LEMMA ExtractedIs ==
  ASSUME NEW cd \in Seq(HeaderByte) \cup {NoHeader}
  PROVE  ExtractFilename(cd) \in Seq(HeaderByte)
<1>1. CASE cd = NoHeader
  BY <1>1, EmptySeq DEF ExtractFilename
<1>2. CASE cd # NoHeader /\ Named(cd, "filename*") # {}
  <2>1. Extended(Value(cd, "filename*")) \in Seq(HeaderByte)
    BY <1>2, ValueIs, ExtendedIs
  <2> QED
    BY <1>2, <2>1, CutIs, DownloadConstants DEF ExtractFilename
<1>3. CASE cd # NoHeader /\ Named(cd, "filename*") = {} /\ Named(cd, "filename") # {}
  <2>1. Plain(Value(cd, "filename")) \in Seq(HeaderByte)
    BY <1>3, ValueIs, PlainIs
  <2> QED
    BY <1>3, <2>1, CutIs, DownloadConstants DEF ExtractFilename
<1>4. CASE cd # NoHeader /\ Named(cd, "filename*") = {} /\ Named(cd, "filename") = {}
  BY <1>4, EmptySeq DEF ExtractFilename
<1> QED
  BY <1>1, <1>2, <1>3, <1>4

(***************************************************************************)
(* The path of a reference as it is parsed.                                *)
(***************************************************************************)
LEMMA BehindIs ==
  ASSUME NEW S, NEW w \in Seq(S), NEW prefix, Len(prefix) \in 0..Len(w)
  PROVE  /\ Behind(w, prefix) \in Seq(S) /\ Len(Behind(w, prefix)) = Len(w) - Len(prefix)
         /\ \A i \in 1..(Len(w) - Len(prefix)) : Behind(w, prefix)[i] = w[Len(prefix) + i]
<1> DEFINE n == Len(prefix)
<1>1. n \in 0..Len(w) /\ Len(w) \in Nat /\ Behind(w, prefix) = SubSeq(w, n + 1, Len(w))
  BY DEF Behind
<1> HIDE DEF n
<1>2. /\ n + 1 \in 1..(Len(w) + 1) /\ Len(w) \in ((n + 1) - 1)..Len(w)
      /\ Len(w) - (n + 1) + 1 = Len(w) - n /\ \A i \in 1..(Len(w) - n) : (n + 1) + i - 1 = n + i
  BY <1>1
<1>3. /\ SubSeq(w, n + 1, Len(w)) \in Seq(S)
      /\ Len(SubSeq(w, n + 1, Len(w))) = Len(w) - (n + 1) + 1
      /\ \A i \in 1..(Len(w) - (n + 1) + 1) : SubSeq(w, n + 1, Len(w))[i] = w[(n + 1) + i - 1]
  BY <1>2, PartIs
<1> QED
  BY <1>1, <1>2, <1>3 DEF n

LEMMA HierIs ==
  ASSUME NEW S, NEW w \in Seq(S)
  PROVE  Hier(w) \in Seq(S)
<1>1. CASE HasScheme(w)
  <2> DEFINE rest == Behind(w, SchemeWord(w))
  <2>1. Len(SchemeWord(w)) \in 0..Len(w)
    BY UntilIs DEF SchemeWord
  <2>2. rest \in Seq(S)
    BY <2>1, BehindIs
  <2>3. Starts(rest, <<":">>)
    BY <1>1 DEF HasScheme
  <2>4. Hier(w) = Tail(rest)
    BY <1>1 DEF Hier
  <2> HIDE DEF rest
  <2>5. rest # << >>
    <3>1. Len(<<":">>) = 1
      OBVIOUS
    <3> QED
      BY <2>3, <3>1, EmptySeq DEF Starts, IsPrefix
  <2> QED
    BY <2>2, <2>4, <2>5, LeftIs
<1>2. CASE ~HasScheme(w)
  BY <1>2 DEF Hier
<1> QED
  BY <1>1, <1>2

LEMMA AfterAuthorityIs ==
  ASSUME NEW S, NEW w \in Seq(S)
  PROVE  /\ AfterAuthority(w) \in Seq(S)
         /\ HasAuthority(w) /\ AfterAuthority(w) # << >> => AfterAuthority(w)[1] \in {"/", "?", "#"}
<1> DEFINE hier == Hier(w)
           rest == SubSeq(hier, 3, Len(hier))
           auth == Until(rest, {"/", "?", "#"})
           prefix == <<"/", "/">> \o auth
<1>1. hier \in Seq(S) /\ Len(hier) \in Nat
  BY HierIs
<1>2. CASE ~HasAuthority(w)
  BY <1>1, <1>2 DEF AfterAuthority
<1>3. CASE HasAuthority(w)
  <2>1. AfterAuthority(w) = Behind(hier, prefix) /\ Starts(hier, <<"/", "/">>)
    BY <1>3 DEF AfterAuthority, Authority, HasAuthority
  <2> HIDE DEF hier
  <2>2. 2 <= Len(hier)
    <3>1. Len(<<"/", "/">>) = 2
      OBVIOUS
    <3> QED
      BY <2>1, <3>1 DEF Starts, IsPrefix
  <2>3. /\ rest \in Seq(S) /\ Len(rest) = Len(hier) - 2
        /\ \A i \in 1..(Len(hier) - 2) : rest[i] = hier[i + 2]
    <3>1. /\ 3 \in 1..(Len(hier) + 1) /\ Len(hier) \in (3 - 1)..Len(hier)
          /\ Len(hier) - 3 + 1 = Len(hier) - 2 /\ \A i \in 1..(Len(hier) - 2) : 3 + i - 1 = i + 2
      BY <1>1, <2>2
    <3>2. /\ rest \in Seq(S) /\ Len(rest) = Len(hier) - 3 + 1
          /\ \A i \in 1..(Len(hier) - 3 + 1) : rest[i] = hier[3 + i - 1]
      BY <1>1, <3>1, PartIs
    <3> QED
      BY <3>1, <3>2
  <2> HIDE DEF rest
  <2>4. /\ auth \in Seq(S) /\ Len(auth) \in 0..Len(rest)
        /\ Len(auth) # Len(rest) => rest[Len(auth) + 1] \in {"/", "?", "#"}
    BY <2>3, UntilIs
  <2> HIDE DEF auth
  <2>5. Len(prefix) = 2 + Len(auth)
    BY <2>4
  <2> HIDE DEF prefix
  <2>6. /\ Behind(hier, prefix) \in Seq(S) /\ Len(Behind(hier, prefix)) = Len(hier) - Len(prefix)
        /\ \A i \in 1..(Len(hier) - Len(prefix)) : Behind(hier, prefix)[i] = hier[Len(prefix) + i]
    <3>1. Len(prefix) \in 0..Len(hier)
      BY <1>1, <2>2, <2>3, <2>4, <2>5
    <3> QED
      BY <1>1, <3>1, BehindIs
  <2>7. ASSUME Behind(hier, prefix) # << >> PROVE Behind(hier, prefix)[1] \in {"/", "?", "#"}
    <3>1. Len(Behind(hier, prefix)) # 0
      BY <2>6, <2>7, EmptySeq
    <3>2. 1 \in 1..(Len(hier) - Len(prefix)) /\ Len(auth) # Len(rest) /\ Len(auth) + 1 \in 1..(Len(hier) - 2)
      BY <1>1, <2>2, <2>3, <2>4, <2>5, <2>6, <3>1
    <3>3. Behind(hier, prefix)[1] = hier[Len(prefix) + 1] /\ rest[Len(auth) + 1] = hier[(Len(auth) + 1) + 2]
      BY <2>3, <2>6, <3>2
    <3>4. Len(prefix) + 1 = (Len(auth) + 1) + 2
      BY <2>4, <2>5
    <3> QED
      BY <2>4, <3>2, <3>3, <3>4
  <2> QED
    BY <2>1, <2>6, <2>7
<1> QED
  BY <1>2, <1>3

LEMMA PathIs ==
  ASSUME NEW S, NEW w \in Seq(S)
  PROVE  /\ Path(w) \in Seq(S)
         /\ HasAuthority(w) /\ Path(w) # << >> => Path(w)[1] = "/"
<1> DEFINE after == AfterAuthority(w)
<1>1. after \in Seq(S) /\ (HasAuthority(w) /\ after # << >> => after[1] \in {"/", "?", "#"})
  BY AfterAuthorityIs
<1>2. Path(w) = Until(after, {"?", "#"})
  BY DEF Path
<1> HIDE DEF after
<1>3. /\ Path(w) \in Seq(S) /\ Len(Path(w)) \in 0..Len(after)
      /\ \A i \in 1..Len(Path(w)) : Path(w)[i] = after[i] /\ after[i] \notin {"?", "#"}
  BY <1>1, <1>2, UntilIs
<1>4. ASSUME HasAuthority(w), Path(w) # << >> PROVE Path(w)[1] = "/"
  <2>1. Len(Path(w)) \in Nat \ {0}
    BY <1>3, <1>4, EmptySeq
  <2>2. 1 \in 1..Len(Path(w)) /\ Len(after) # 0 /\ after # << >>
    BY <1>1, <1>3, <2>1
  <2> QED
    BY <1>1, <1>3, <1>4, <2>2
<1> QED
  BY <1>3, <1>4

LEMMA UnitIs ==
  /\ "/" \in Unit /\ "." \in Unit
  /\ \A c \in Unit : Normal(c) \in Unit /\ (Normal(c) = "/" <=> c = "/")
<1>1. "/" \in Unit /\ "." \in Unit
  BY Zenon DEF Unit, Punctuation
<1>2. "A" \in Unit /\ "~" \in Unit /\ "%2F" \in Unit /\ "%C3" \in Unit
  BY Zenon DEF Unit, Alpha, Punctuation, Triplet
<1>3. NonAscii # "/"
  BY DEF NonAscii
<1> HIDE DEF NonAscii
<1>4. ASSUME NEW c \in Unit PROVE Normal(c) \in Unit /\ (Normal(c) = "/" <=> c = "/")
  <2>1. \/ c = "%2E" /\ Normal(c) = "."
        \/ c = "%41" /\ Normal(c) = "A"
        \/ c = "%7E" /\ Normal(c) = "~"
        \/ c = "%2f" /\ Normal(c) = "%2F"
        \/ c = NonAscii /\ Normal(c) = "%C3"
        \/ Normal(c) = c
    BY DEF Normal
  <2> QED
    BY <1>1, <1>2, <1>3, <1>4, <2>1
<1> QED
  BY <1>1, <1>4

LEMMA NormalizedIs ==
  ASSUME NEW w \in Seq(Unit)
  PROVE  /\ Normalized(w) \in Seq(Unit) /\ Len(Normalized(w)) = Len(w)
         /\ \A i \in 1..Len(w) : Normalized(w)[i] = "/" <=> w[i] = "/"
<1>1. DOMAIN w = 1..Len(w) /\ Len(w) \in Nat /\ \A i \in 1..Len(w) : w[i] \in Unit
  OBVIOUS
<1>2. Normalized(w) = [i \in 1..Len(w) |-> Normal(w[i])]
  BY <1>1 DEF Normalized
<1>3. \A i \in 1..Len(w) : Normal(w[i]) \in Unit /\ (Normal(w[i]) = "/" <=> w[i] = "/")
  BY <1>1, UnitIs
<1>4. Normalized(w) \in [1..Len(w) -> Unit]
  BY <1>2, <1>3
<1>5. Normalized(w) \in Seq(Unit) /\ Len(Normalized(w)) = Len(w)
  BY <1>1, <1>4
<1> QED
  BY <1>2, <1>3, <1>5

\* A path that begins with a slash.
Rooted(p) == p \in Seq(Unit) /\ p # << >> /\ p[1] = "/"

LEMMA RawIs ==
  ASSUME NEW w \in Seq(Unit), NEW r, r = Raw(Split(w))
  PROVE  /\ r.path \in Seq(Unit)
         /\ r.has_authority /\ r.path # << >> => Rooted(r.path)
         /\ r.has_scheme = HasScheme(w) /\ r.has_authority = HasAuthority(w)
<1>1. /\ r.path = Normalized(Path(w))
      /\ r.has_scheme = HasScheme(w) /\ r.has_authority = HasAuthority(w)
  BY DEF Raw, Split
<1>2. Path(w) \in Seq(Unit) /\ (HasAuthority(w) /\ Path(w) # << >> => Path(w)[1] = "/")
  BY PathIs
<1>3. /\ r.path \in Seq(Unit) /\ Len(r.path) = Len(Path(w))
      /\ \A i \in 1..Len(Path(w)) : r.path[i] = "/" <=> Path(w)[i] = "/"
  BY <1>1, <1>2, NormalizedIs
<1>4. ASSUME r.has_authority, r.path # << >> PROVE Rooted(r.path)
  <2>1. Len(r.path) \in Nat \ {0}
    BY <1>3, <1>4, EmptySeq
  <2>2. Path(w) # << >> /\ 1 \in 1..Len(Path(w))
    BY <1>2, <1>3, <2>1
  <2> QED
    BY <1>1, <1>2, <1>3, <1>4, <2>2 DEF Rooted
<1> QED
  BY <1>1, <1>3, <1>4

(***************************************************************************)
(* A path and its segments.                                                *)
(***************************************************************************)
Words == Seq(Seq(Unit))

FirstOfPath(p) == Until(Tail(p), {"/"})
RestOfPath(p) == Behind(p, <<"/">> \o FirstOfPath(p))

\* One turn of parting a path.
PartedTurn(p, of) == IF p = << >> THEN << >> ELSE <<FirstOfPath(p)>> \o of[RestOfPath(p)]

\* Empty, or with a slash at its beginning.
IsPath(p) == p = << >> \/ Rooted(p)

LEMMA FirstRest ==
  ASSUME NEW p \in Seq(Unit), p # << >>
  PROVE  LET s == FirstOfPath(p)
             rest == RestOfPath(p)
         IN /\ s \in Seq(Unit) /\ Len(s) + 1 <= Len(p)
            /\ \A i \in 1..Len(s) : s[i] = p[i + 1] /\ s[i] # "/"
            /\ Len(s) + 1 < Len(p) => p[Len(s) + 2] = "/"
            /\ rest \in Seq(Unit) /\ Len(rest) = Len(p) - (Len(s) + 1)
            /\ \A i \in 1..Len(rest) : rest[i] = p[Len(s) + 1 + i]
            /\ IsPath(rest)
<1> DEFINE tail == Tail(p)
           s == FirstOfPath(p)
           prefix == <<"/">> \o s
           rest == RestOfPath(p)
<1>1. Len(p) \in Nat \ {0}
  BY EmptySeq
<1>2. tail \in Seq(Unit) /\ Len(tail) = Len(p) - 1 /\ \A i \in 1..(Len(p) - 1) : tail[i] = p[i + 1]
  BY <1>1, HeadTailProperties
<1>3. s = Until(tail, {"/"}) /\ rest = Behind(p, prefix)
  BY DEF FirstOfPath, RestOfPath
<1> HIDE DEF tail, s, rest
<1>4. /\ s \in Seq(Unit) /\ Len(s) \in 0..(Len(p) - 1)
      /\ \A i \in 1..Len(s) : s[i] = tail[i] /\ tail[i] \notin {"/"}
      /\ Len(s) # Len(p) - 1 => tail[Len(s) + 1] \in {"/"}
  BY <1>2, <1>3, UntilIs
<1>5. \A i \in 1..Len(s) : s[i] = p[i + 1] /\ s[i] # "/"
  <2>1. \A i \in 1..Len(s) : i \in 1..(Len(p) - 1)
    BY <1>1, <1>4
  <2> QED
    BY <1>2, <1>4, <2>1
<1>6. ASSUME Len(s) + 1 < Len(p) PROVE p[Len(s) + 2] = "/"
  <2>1. Len(s) + 1 \in 1..(Len(p) - 1) /\ (Len(s) + 1) + 1 = Len(s) + 2 /\ Len(s) # Len(p) - 1
    BY <1>1, <1>4, <1>6
  <2> QED
    BY <1>2, <1>4, <2>1
<1>7. Len(prefix) = Len(s) + 1
  BY <1>4
<1> HIDE DEF prefix
<1>8. /\ rest \in Seq(Unit) /\ Len(rest) = Len(p) - (Len(s) + 1)
      /\ \A i \in 1..Len(rest) : rest[i] = p[Len(s) + 1 + i]
  <2>1. Len(prefix) \in 0..Len(p)
    BY <1>1, <1>4, <1>7
  <2> QED
    BY <1>3, <1>7, <2>1, BehindIs
<1>9. IsPath(rest)
  <2>1. CASE Len(rest) = 0
    BY <1>8, <2>1 DEF IsPath
  <2>2. CASE Len(rest) # 0
    <3>1. 1 \in 1..Len(rest) /\ Len(s) + 1 < Len(p) /\ Len(s) + 1 + 1 = Len(s) + 2
      BY <1>1, <1>4, <1>8, <2>2
    <3> QED
      BY <1>6, <1>8, <2>2, <3>1 DEF IsPath, Rooted
  <2> QED
    BY <2>1, <2>2
<1> QED
  BY <1>4, <1>5, <1>6, <1>8, <1>9 DEF s, rest

LEMMA PartedTyped ==
  ASSUME NEW p \in Seq(Unit), NEW f, \A u \in Seq(Unit) : Len(u) < Len(p) => f[u] \in Words
  PROVE  PartedTurn(p, f) \in Words
<1>1. CASE p = << >>
  BY <1>1, EmptySeq DEF PartedTurn, Words
<1>2. CASE p # << >>
  <2>1. RestOfPath(p) \in Seq(Unit) /\ Len(RestOfPath(p)) < Len(p) /\ FirstOfPath(p) \in Seq(Unit)
    BY <1>2, FirstRest
  <2>2. f[RestOfPath(p)] \in Words /\ <<FirstOfPath(p)>> \in Words
    BY <2>1, OneIs DEF Words
  <2> QED
    BY <1>2, <2>2, ConcatProperties DEF PartedTurn, Words
<1> QED
  BY <1>1, <1>2

LEMMA PartedAhead ==
  ASSUME NEW p \in Seq(Unit), NEW f, NEW g, \A u \in Seq(Unit) : Len(u) < Len(p) => f[u] = g[u]
  PROVE  PartedTurn(p, f) = PartedTurn(p, g)
<1>1. CASE p = << >>
  BY <1>1 DEF PartedTurn
<1>2. CASE p # << >>
  <2>1. RestOfPath(p) \in Seq(Unit) /\ Len(RestOfPath(p)) < Len(p)
    BY <1>2, FirstRest
  <2> QED
    BY <1>2, <2>1 DEF PartedTurn
<1> QED
  BY <1>1, <1>2

LEMMA SegmentsTurn ==
  ASSUME NEW p \in Seq(Unit)
  PROVE  /\ SegmentsOf(p) \in Words
         /\ p = << >> => SegmentsOf(p) = << >>
         /\ p # << >> => SegmentsOf(p) = <<FirstOfPath(p)>> \o SegmentsOf(RestOfPath(p))
<1>1. PICK Y : Y = Seq(Unit)
  OBVIOUS
<1>2. PICK X : X = Words
  OBVIOUS
<1> DEFINE size == [v \in Y |-> Len(v)]
           step == [f \in [Y -> X] |-> [v \in Y |-> PartedTurn(v, f)]]
           of == CHOOSE f : f = [v \in Seq(Unit) |-> PartedTurn(v, f)]
<1>3. size \in [Y -> Nat] /\ \A v \in Y : size[v] = Len(v)
  BY <1>1
<1>4. step \in [[Y -> X] -> [Y -> X]]
  <2>1. ASSUME NEW f \in [Y -> X], NEW v \in Y PROVE PartedTurn(v, f) \in X
    BY <1>1, <1>2, PartedTyped
  <2> QED
    BY <2>1
<1>5. ASSUME NEW f \in [Y -> X], NEW g \in [Y -> X], NEW v \in Y,
             \A u \in Y : size[u] < size[v] => f[u] = g[u]
      PROVE  step[f][v] = step[g][v]
  <2>1. PartedTurn(v, f) = PartedTurn(v, g)
    <3> HIDE DEF size
    <3>1. \A u \in Y : Len(u) < Len(v) => f[u] = g[u]
      BY <1>3, <1>5
    <3> QED
      BY <1>1, <3>1, PartedAhead
  <2> QED
    BY <2>1
<1>6. X # {}
  BY <1>2, EmptySeq DEF Words
<1>7. PICK f \in [Y -> X] : f = step[f]
  <2> HIDE DEF size, step
  <2>1. Founded(Y, X, size, step)
    BY <1>3, <1>4, <1>5, <1>6 DEF Founded
  <2> QED
    BY <2>1, Recursion
<1>8. f = [v \in Seq(Unit) |-> PartedTurn(v, f)]
  BY <1>1, <1>7
<1>9. of = [v \in Seq(Unit) |-> PartedTurn(v, of)]
  <2> HIDE DEF step
  <2> QED
    BY <1>8
<1>10. \A w : SegmentsOf(w) = of[w]
  BY DEF SegmentsOf, PartedTurn, FirstOfPath, RestOfPath
<1> HIDE DEF of
<1> DEFINE Q == {v \in Y : of[v] \in X}
<1>11. ASSUME NEW v \in Y, \A u \in Y : size[u] < size[v] => u \in Q
       PROVE  v \in Q
  <2>1. \A u \in Y : Len(u) < Len(v) => of[u] \in X
    BY <1>3, <1>11
  <2>2. PartedTurn(v, of) \in X
    BY <1>1, <1>2, <2>1, PartedTyped
  <2>3. of[v] = PartedTurn(v, of)
    BY <1>1, <1>9
  <2> QED
    BY <2>2, <2>3
<1>12. Q = Y
  <2>1. Q \in SUBSET Y
    OBVIOUS
  <2> HIDE DEF Q, size
  <2>2. Inherited(Y, size, Q)
    BY <1>3, <1>11, <2>1 DEF Inherited
  <2> QED
    BY <2>2, BySize
<1>13. of[p] \in Words
  BY <1>1, <1>2, <1>12
<1>14. of[p] = PartedTurn(p, of)
  BY <1>9
<1> QED
  BY <1>10, <1>13, <1>14 DEF PartedTurn

NoSlash(s) == s \in Seq(Unit) /\ \A i \in 1..Len(s) : s[i] # "/"

\* A slash, a segment and what follows, as one path.
Composed(p, s, rest) == p = (<<"/">> \o s) \o rest

LEMMA PathOf ==
  ASSUME NEW s \in Seq(Unit), NEW rest \in Seq(Unit), NEW p, Composed(p, s, rest)
  PROVE  /\ p \in Seq(Unit) /\ Len(p) = Len(s) + 1 + Len(rest) /\ p # << >> /\ p[1] = "/"
         /\ \A i \in 1..Len(s) : p[i + 1] = s[i]
         /\ \A i \in 1..Len(rest) : p[Len(s) + 1 + i] = rest[i]
<1>1. <<"/">> \in Seq(Unit) /\ Len(<<"/">>) = 1 /\ <<"/">>[1] = "/"
  BY UnitIs, OneIs
<1>2. PICK q \in Seq(Unit) : q = <<"/">> \o s
  BY <1>1, ConcatProperties
<1>3. /\ Len(q) = Len(s) + 1 /\ q[1] = "/" /\ \A i \in 1..Len(s) : q[i + 1] = s[i]
  BY <1>1, <1>2, ConcatProperties
<1>4. p = q \o rest
  BY <1>2 DEF Composed
<1>5. /\ p \in Seq(Unit) /\ Len(p) = Len(q) + Len(rest)
      /\ \A i \in 1..(Len(q) + Len(rest)) : p[i] = IF i <= Len(q) THEN q[i] ELSE rest[i - Len(q)]
  BY <1>4, ConcatProperties
<1>6. Len(s) \in Nat /\ Len(rest) \in Nat
  OBVIOUS
<1>7. Len(p) = Len(s) + 1 + Len(rest) /\ p # << >> /\ p[1] = "/"
  BY <1>3, <1>5, <1>6, EmptySeq
<1>8. ASSUME NEW i \in 1..Len(s) PROVE p[i + 1] = s[i]
  <2>1. i + 1 \in 1..(Len(q) + Len(rest)) /\ i + 1 <= Len(q)
    BY <1>3, <1>6
  <2> QED
    BY <1>3, <1>5, <2>1
<1>9. ASSUME NEW i \in 1..Len(rest) PROVE p[Len(s) + 1 + i] = rest[i]
  <2>1. /\ Len(s) + 1 + i \in 1..(Len(q) + Len(rest)) /\ ~(Len(s) + 1 + i <= Len(q))
        /\ (Len(s) + 1 + i) - Len(q) = i
    BY <1>3, <1>6
  <2> QED
    BY <1>5, <2>1
<1> QED
  BY <1>5, <1>7, <1>8, <1>9

LEMMA PathParts ==
  ASSUME NEW p, Rooted(p)
  PROVE  Composed(p, FirstOfPath(p), RestOfPath(p))
<1> DEFINE s == FirstOfPath(p)
           rest == RestOfPath(p)
<1>1. p \in Seq(Unit) /\ p # << >> /\ p[1] = "/" /\ Len(p) \in Nat
  BY DEF Rooted
<1>2. /\ s \in Seq(Unit) /\ Len(s) + 1 <= Len(p)
      /\ \A i \in 1..Len(s) : s[i] = p[i + 1] /\ s[i] # "/"
      /\ rest \in Seq(Unit) /\ Len(rest) = Len(p) - (Len(s) + 1)
      /\ \A i \in 1..Len(rest) : rest[i] = p[Len(s) + 1 + i]
  BY <1>1, FirstRest
<1> HIDE DEF s, rest
<1>3. PICK q : Composed(q, s, rest)
  BY DEF Composed
<1>4. /\ q \in Seq(Unit) /\ Len(q) = Len(s) + 1 + Len(rest) /\ q[1] = "/"
      /\ \A i \in 1..Len(s) : q[i + 1] = s[i]
      /\ \A i \in 1..Len(rest) : q[Len(s) + 1 + i] = rest[i]
  <2>1. s \in Seq(Unit) /\ rest \in Seq(Unit)
    BY <1>2
  <2> QED
    BY <1>3, <2>1, PathOf
<1>5. Len(q) = Len(p) /\ Len(s) \in Nat
  BY <1>1, <1>2, <1>4
<1>6. ASSUME NEW i \in 1..Len(p) PROVE p[i] = q[i]
  <2>1. CASE i = 1
    BY <1>1, <1>4, <2>1
  <2>2. CASE i # 1 /\ i <= Len(s) + 1
    <3>1. i - 1 \in 1..Len(s) /\ (i - 1) + 1 = i
      BY <1>1, <1>5, <2>2
    <3>2. s[i - 1] = p[(i - 1) + 1] /\ q[(i - 1) + 1] = s[i - 1]
      BY <1>2, <1>4, <3>1
    <3> QED
      BY <3>1, <3>2
  <2>3. CASE i > Len(s) + 1
    <3> DEFINE j == i - (Len(s) + 1)
    <3>1. j \in 1..Len(rest) /\ Len(s) + 1 + j = i
      BY <1>1, <1>2, <1>5, <2>3
    <3> HIDE DEF j
    <3>2. rest[j] = p[Len(s) + 1 + j] /\ q[Len(s) + 1 + j] = rest[j]
      BY <1>2, <1>4, <3>1
    <3> QED
      BY <3>1, <3>2
  <2> QED
    BY <1>5, <2>1, <2>2, <2>3
<1>7. p = q
  BY <1>1, <1>4, <1>5, <1>6, SeqEqual
<1> QED
  BY <1>3, <1>7 DEF s, rest

\* There is one way to part a path.
LEMMA PartsAre ==
  ASSUME NEW s, NoSlash(s), NEW rest \in Seq(Unit), IsPath(rest), NEW p, Composed(p, s, rest)
  PROVE  /\ Rooted(p) /\ FirstOfPath(p) = s /\ RestOfPath(p) = rest
<1> DEFINE f == FirstOfPath(p)
           r == RestOfPath(p)
<1>1. s \in Seq(Unit) /\ Len(s) \in Nat /\ \A i \in 1..Len(s) : s[i] # "/"
  BY DEF NoSlash
<1>2. /\ p \in Seq(Unit) /\ Len(p) = Len(s) + 1 + Len(rest) /\ p # << >> /\ p[1] = "/"
      /\ \A i \in 1..Len(s) : p[i + 1] = s[i]
      /\ \A i \in 1..Len(rest) : p[Len(s) + 1 + i] = rest[i]
  BY <1>1, PathOf
<1>3. /\ f \in Seq(Unit) /\ Len(f) + 1 <= Len(p)
      /\ \A i \in 1..Len(f) : f[i] = p[i + 1] /\ f[i] # "/"
      /\ Len(f) + 1 < Len(p) => p[Len(f) + 2] = "/"
      /\ r \in Seq(Unit) /\ Len(r) = Len(p) - (Len(f) + 1)
      /\ \A i \in 1..Len(r) : r[i] = p[Len(f) + 1 + i]
  BY <1>2, FirstRest
<1> HIDE DEF f, r
<1>4. Len(rest) \in Nat /\ Len(f) \in Nat /\ Len(r) \in Nat
  BY <1>3
<1>5. ~(Len(f) < Len(s))
  <2> SUFFICES ASSUME Len(f) < Len(s) PROVE FALSE
    OBVIOUS
  <2>1. Len(f) + 1 \in 1..Len(s) /\ (Len(f) + 1) + 1 = Len(f) + 2 /\ Len(f) + 1 < Len(p)
    BY <1>1, <1>2, <1>4
  <2>2. p[Len(f) + 2] = s[Len(f) + 1]
    BY <1>2, <2>1
  <2> QED
    BY <1>1, <1>3, <2>1, <2>2
<1>6. ~(Len(f) > Len(s))
  <2> SUFFICES ASSUME Len(f) > Len(s) PROVE FALSE
    OBVIOUS
  <2>1. Len(rest) # 0 /\ Len(s) + 1 \in 1..Len(f) /\ (Len(s) + 1) + 1 = Len(s) + 1 + 1 /\ 1 \in 1..Len(rest)
    BY <1>1, <1>2, <1>3, <1>4, SMTT(60)
  <2>2. rest # << >> /\ rest[1] = "/"
    BY <2>1 DEF IsPath, Rooted
  <2>3. p[(Len(s) + 1) + 1] = rest[1] /\ f[Len(s) + 1] = p[(Len(s) + 1) + 1] /\ f[Len(s) + 1] # "/"
    BY <1>2, <1>3, <2>1
  <2> QED
    BY <2>2, <2>3
<1>7. Len(f) = Len(s) /\ Len(r) = Len(rest)
  <2>1. Len(f) = Len(s)
    BY <1>1, <1>4, <1>5, <1>6
  <2>2. Len(p) = Len(s) + 1 + Len(rest) /\ Len(r) = Len(p) - (Len(f) + 1)
    BY <1>2, <1>3
  <2> QED
    BY <1>1, <1>4, <2>1, <2>2
<1>8. f = s
  BY <1>1, <1>2, <1>3, <1>7, SeqEqual
<1>9. r = rest
  BY <1>2, <1>3, <1>7, SeqEqual
<1> QED
  BY <1>2, <1>8, <1>9 DEF Rooted, f, r

LEMMA WordsJoin ==
  ASSUME NEW a \in Words, NEW b \in Words, NEW c \in Words
  PROVE  a \o b \in Words /\ (a \o b) \o c = a \o (b \o c)
BY ConcatProperties, ConcatAssociative, SMTT(60) DEF Words

LEMMA SegmentsOne ==
  ASSUME NEW s, NoSlash(s)
  PROVE  SegmentsOf(<<"/">> \o s) = <<s>> /\ Rooted(<<"/">> \o s)
<1>1. s \in Seq(Unit) /\ <<"/">> \o s \in Seq(Unit)
  BY UnitIs, OneIs, ConcatProperties DEF NoSlash
<1>2. << >> \in Seq(Unit) /\ IsPath(<< >>)
  BY EmptySeq DEF IsPath
<1>3. PICK p : p = <<"/">> \o s
  OBVIOUS
<1>4. Composed(p, s, << >>)
  BY <1>1, <1>3, ConcatEmptySeq DEF Composed
<1>5. Rooted(p) /\ FirstOfPath(p) = s /\ RestOfPath(p) = << >>
  BY <1>2, <1>4, PartsAre
<1>6. SegmentsOf(p) = <<s>> \o SegmentsOf(<< >>) /\ SegmentsOf(<< >>) = << >>
  <2>1. p \in Seq(Unit) /\ p # << >>
    BY <1>5 DEF Rooted
  <2> QED
    BY <1>2, <1>5, <2>1, SegmentsTurn
<1>7. <<s>> \in Words
  BY <1>1, OneIs DEF Words
<1>8. <<s>> \o << >> = <<s>>
  BY <1>7, ConcatEmptySeq DEF Words
<1> QED
  BY <1>3, <1>5, <1>6, <1>8

\* The segments of two paths, one behind the other.
LEMMA SegmentsJoin ==
  ASSUME NEW b \in Seq(Unit), IsPath(b), NEW a \in Seq(Unit), IsPath(a)
  PROVE  SegmentsOf(a \o b) = SegmentsOf(a) \o SegmentsOf(b) /\ IsPath(a \o b)
<1>1. PICK Y : Y = Seq(Unit)
  OBVIOUS
<1> DEFINE size == [v \in Y |-> Len(v)]
           Q == {v \in Y : IsPath(v) => SegmentsOf(v \o b) = SegmentsOf(v) \o SegmentsOf(b) /\ IsPath(v \o b)}
<1>2. size \in [Y -> Nat] /\ \A v \in Y : size[v] = Len(v)
  BY <1>1
<1>3. SegmentsOf(b) \in Words
  BY SegmentsTurn
<1>4. ASSUME NEW v \in Y, \A u \in Y : size[u] < size[v] => u \in Q
      PROVE  v \in Q
  <2>1. SUFFICES ASSUME IsPath(v)
                 PROVE  SegmentsOf(v \o b) = SegmentsOf(v) \o SegmentsOf(b) /\ IsPath(v \o b)
    OBVIOUS
  <2>2. CASE v = << >>
    <3>1. v \o b = b /\ SegmentsOf(v) = << >>
      BY <1>1, <2>2, SegmentsTurn, ConcatEmptySeq
    <3>2. << >> \o SegmentsOf(b) = SegmentsOf(b)
      BY <1>3, ConcatEmptySeq DEF Words
    <3> QED
      BY <3>1, <3>2
  <2>3. CASE v # << >>
    <3> DEFINE s == FirstOfPath(v)
               rest == RestOfPath(v)
    <3>1. v \in Seq(Unit) /\ Rooted(v)
      BY <1>1, <2>1, <2>3 DEF IsPath
    <3>2. Composed(v, s, rest)
      BY <3>1, PathParts
    <3>3. NoSlash(s) /\ rest \in Seq(Unit) /\ IsPath(rest) /\ Len(rest) < Len(v)
      BY <2>3, <3>1, FirstRest DEF NoSlash
    <3>4. SegmentsOf(v) = <<s>> \o SegmentsOf(rest)
      BY <2>3, <3>1, SegmentsTurn
    <3> HIDE DEF s, rest
    <3>5. SegmentsOf(rest \o b) = SegmentsOf(rest) \o SegmentsOf(b) /\ IsPath(rest \o b)
      <4>1. rest \in Q
        <5> HIDE DEF Q, size
        <5> QED
          BY <1>1, <1>2, <1>4, <3>3
      <4> QED
        BY <3>3, <4>1
    <3>6. rest \o b \in Seq(Unit)
      BY <3>3, ConcatProperties
    <3>7. Composed(v \o b, s, rest \o b)
      <4>1. <<"/">> \o s \in Seq(Unit)
        BY <3>3, UnitIs, OneIs, ConcatProperties DEF NoSlash
      <4> QED
        BY <3>2, <3>3, <4>1, ConcatAssociative, SMTT(60) DEF Composed
    <3>8. PICK w : w = v \o b
      OBVIOUS
    <3>9. Rooted(w) /\ FirstOfPath(w) = s /\ RestOfPath(w) = rest \o b
      BY <3>3, <3>5, <3>6, <3>7, <3>8, PartsAre
    <3>10. SegmentsOf(w) = <<s>> \o SegmentsOf(rest \o b)
      <4>1. w \in Seq(Unit) /\ w # << >>
        BY <3>9 DEF Rooted
      <4> QED
        BY <3>9, <4>1, SegmentsTurn
    <3>11. <<s>> \o (SegmentsOf(rest) \o SegmentsOf(b)) = (<<s>> \o SegmentsOf(rest)) \o SegmentsOf(b)
      <4>1. <<s>> \in Words
        BY <3>3, OneIs DEF NoSlash, Words
      <4>2. SegmentsOf(rest) \in Words
        BY <3>3, SegmentsTurn
      <4> QED
        BY <1>3, <4>1, <4>2, WordsJoin
    <3> QED
      BY <3>4, <3>5, <3>8, <3>9, <3>10, <3>11 DEF IsPath
  <2> QED
    BY <2>2, <2>3
<1>5. Q = Y
  <2>1. Q \in SUBSET Y
    OBVIOUS
  <2> HIDE DEF Q, size
  <2>2. Inherited(Y, size, Q)
    BY <1>2, <1>4, <2>1 DEF Inherited
  <2> QED
    BY <2>2, BySize
<1> QED
  BY <1>1, <1>5

(***************************************************************************)
(* The loop that removes the dot segments.                                 *)
(***************************************************************************)
LEMMA SkipIs ==
  ASSUME NEW S, NEW in \in Seq(S), NEW m \in 2..(Len(in) + 1)
  PROVE  SubSeq(in, m, Len(in)) \in Seq(S) /\ Len(SubSeq(in, m, Len(in))) < Len(in)
<1>1. Len(in) \in Nat /\ m \in 1..(Len(in) + 1) /\ Len(in) \in (m - 1)..Len(in) /\ m >= 2
  OBVIOUS
<1>2. SubSeq(in, m, Len(in)) \in Seq(S) /\ Len(SubSeq(in, m, Len(in))) = Len(in) - m + 1
  BY <1>1, PartIs
<1> QED
  BY <1>1, <1>2

LEMMA SegmentIs ==
  ASSUME NEW S \in SUBSET Unit, "/" \in S, NEW in \in Seq(S), in # << >>
  PROVE  Segment(in) \in Seq(S) /\ Len(Segment(in)) \in 1..Len(in)
<1>1. Len(in) \in Nat \ {0}
  BY EmptySeq
<1>2. CASE in[1] = "/"
  <2>1. FirstOfPath(in) \in Seq(S) /\ Len(FirstOfPath(in)) + 1 <= Len(in)
    <3>1. Tail(in) \in Seq(S) /\ in \in Seq(Unit)
      OBVIOUS
    <3> QED
      BY <3>1, FirstRest, UntilIs DEF FirstOfPath
  <2>2. Segment(in) = <<"/">> \o FirstOfPath(in)
    BY <1>2 DEF Segment, FirstOfPath
  <2>3. <<"/">> \in Seq(S) /\ Len(<<"/">>) = 1
    BY OneIs
  <2>4. Segment(in) \in Seq(S) /\ Len(Segment(in)) = 1 + Len(FirstOfPath(in))
    BY <2>1, <2>2, <2>3, ConcatProperties
  <2> QED
    BY <1>1, <2>1, <2>4
<1>3. CASE in[1] # "/"
  <2> DEFINE n == Len(Until(in, {"/"}))
  <2>1. /\ Until(in, {"/"}) \in Seq(S) /\ n \in 0..Len(in)
        /\ n # Len(in) => in[n + 1] \in {"/"}
    BY UntilIs
  <2>2. Segment(in) = Until(in, {"/"})
    BY <1>3 DEF Segment
  <2>3. n # 0
    <3> HIDE DEF n
    <3>1. n = 0 => n + 1 = 1 /\ n # Len(in)
      BY <1>1
    <3> QED
      BY <1>3, <2>1, <3>1
  <2> QED
    BY <1>1, <2>1, <2>2, <2>3
<1> QED
  BY <1>2, <1>3

LEMMA PopIs ==
  ASSUME NEW S, NEW out \in Seq(S)
  PROVE  Pop(out) \in Seq(S)
<1> DEFINE k == LastOf(out, {"/"})
<1>1. k \in 0..Len(out) /\ Len(out) \in Nat
  BY LastIs
<1>2. Pop(out) = IF k = 0 THEN << >> ELSE SubSeq(out, 1, k - 1)
  BY DEF Pop, UpTo, LastSlash, LastOf
<1> HIDE DEF k
<1>3. CASE k = 0
  BY <1>2, <1>3, EmptySeq
<1>4. CASE k # 0
  <2>1. 1 \in 1..(Len(out) + 1) /\ k - 1 \in (1 - 1)..Len(out)
    BY <1>1, <1>4
  <2> QED
    BY <1>2, <1>4, <2>1, PartIs
<1> QED
  BY <1>3, <1>4

\* A word that is written out, and what begins with it.
LEMMA TwoIs ==
  ASSUME NEW in \in Seq(Unit), NEW a \in Unit, NEW b \in Unit
  PROVE  /\ Starts(in, <<a, b>>) <=> Len(in) >= 2 /\ in[1] = a /\ in[2] = b
         /\ in = <<a, b>> <=> Len(in) = 2 /\ in[1] = a /\ in[2] = b
<1>1. PICK word \in Seq(Unit) : word = <<a, b>>
  <2>1. <<a, b>> \in Seq(Unit)
    OBVIOUS
  <2> QED
    BY <2>1
<1>2. Len(in) \in Nat /\ Len(word) = 2 /\ word[1] = a /\ word[2] = b
  BY <1>1
<1>3. 1 \in 1..2 /\ 2 \in 1..2 /\ \A i \in 1..2 : i = 1 \/ i = 2
  OBVIOUS
<1>4. (\A i \in 1..2 : in[i] = word[i]) <=> in[1] = a /\ in[2] = b
  BY <1>2, <1>3
<1>5. Starts(in, word) <=> 2 <= Len(in) /\ \A i \in 1..2 : in[i] = word[i]
  <2>1. Starts(in, word) <=> Len(word) <= Len(in) /\ \A i \in 1..Len(word) : in[i] = word[i]
    BY StartsIs
  <2> QED
    BY <1>2, <2>1
<1>6. in = word <=> Len(in) = 2 /\ \A i \in 1..2 : in[i] = word[i]
  BY <1>2, SeqEqual
<1> QED
  BY <1>1, <1>2, <1>4, <1>5, <1>6

LEMMA ThreeIs ==
  ASSUME NEW in \in Seq(Unit), NEW a \in Unit, NEW b \in Unit, NEW c \in Unit
  PROVE  /\ Starts(in, <<a, b, c>>) <=> Len(in) >= 3 /\ in[1] = a /\ in[2] = b /\ in[3] = c
         /\ in = <<a, b, c>> <=> Len(in) = 3 /\ in[1] = a /\ in[2] = b /\ in[3] = c
<1>1. PICK word \in Seq(Unit) : word = <<a, b, c>>
  <2>1. <<a, b, c>> \in Seq(Unit)
    OBVIOUS
  <2> QED
    BY <2>1
<1>2. Len(in) \in Nat /\ Len(word) = 3 /\ word[1] = a /\ word[2] = b /\ word[3] = c
  BY <1>1
<1>3. 1 \in 1..3 /\ 2 \in 1..3 /\ 3 \in 1..3 /\ \A i \in 1..3 : i = 1 \/ i = 2 \/ i = 3
  OBVIOUS
<1>4. (\A i \in 1..3 : in[i] = word[i]) <=> in[1] = a /\ in[2] = b /\ in[3] = c
  BY <1>2, <1>3
<1>5. Starts(in, word) <=> 3 <= Len(in) /\ \A i \in 1..3 : in[i] = word[i]
  <2>1. Starts(in, word) <=> Len(word) <= Len(in) /\ \A i \in 1..Len(word) : in[i] = word[i]
    BY StartsIs
  <2> QED
    BY <1>2, <2>1
<1>6. in = word <=> Len(in) = 3 /\ \A i \in 1..3 : in[i] = word[i]
  BY <1>2, SeqEqual
<1> QED
  BY <1>1, <1>2, <1>4, <1>5, <1>6

LEMMA FourIs ==
  ASSUME NEW in \in Seq(Unit), NEW a \in Unit, NEW b \in Unit, NEW c \in Unit, NEW d \in Unit
  PROVE  Starts(in, <<a, b, c, d>>) <=> Len(in) >= 4 /\ in[1] = a /\ in[2] = b /\ in[3] = c /\ in[4] = d
<1>1. PICK word \in Seq(Unit) : word = <<a, b, c, d>>
  <2>1. <<a, b, c, d>> \in Seq(Unit)
    OBVIOUS
  <2> QED
    BY <2>1
<1>2. Len(in) \in Nat /\ Len(word) = 4 /\ word[1] = a /\ word[2] = b /\ word[3] = c /\ word[4] = d
  BY <1>1
<1>3. 1 \in 1..4 /\ 2 \in 1..4 /\ 3 \in 1..4 /\ 4 \in 1..4 /\ \A i \in 1..4 : i = 1 \/ i = 2 \/ i = 3 \/ i = 4
  OBVIOUS
<1>4. (\A i \in 1..4 : in[i] = word[i]) <=> in[1] = a /\ in[2] = b /\ in[3] = c /\ in[4] = d
  BY <1>2, <1>3
<1>5. Starts(in, word) <=> 4 <= Len(in) /\ \A i \in 1..4 : in[i] = word[i]
  <2>1. Starts(in, word) <=> Len(word) <= Len(in) /\ \A i \in 1..Len(word) : in[i] = word[i]
    BY StartsIs
  <2> QED
    BY <1>2, <2>1
<1> QED
  BY <1>1, <1>2, <1>4, <1>5

LEMMA SingleIs ==
  ASSUME NEW in \in Seq(Unit), NEW a \in Unit
  PROVE  /\ in = <<a>> <=> Len(in) = 1 /\ in[1] = a
         /\ Starts(in, <<a>>) <=> Len(in) >= 1 /\ in[1] = a
<1>1. PICK word \in Seq(Unit) : word = <<a>>
  <2>1. <<a>> \in Seq(Unit)
    OBVIOUS
  <2> QED
    BY <2>1
<1>2. Len(in) \in Nat /\ Len(word) = 1 /\ word[1] = a
  BY <1>1
<1>3. 1 \in 1..1 /\ \A i \in 1..1 : i = 1
  OBVIOUS
<1>4. (\A i \in 1..1 : in[i] = word[i]) <=> in[1] = a
  BY <1>2, <1>3
<1>5. in = word <=> Len(in) = 1 /\ \A i \in 1..1 : in[i] = word[i]
  BY <1>2, SeqEqual
<1>6. Starts(in, word) <=> 1 <= Len(in) /\ \A i \in 1..1 : in[i] = word[i]
  <2>1. Starts(in, word) <=> Len(word) <= Len(in) /\ \A i \in 1..Len(word) : in[i] = word[i]
    BY StartsIs
  <2> QED
    BY <1>2, <2>1
<1> QED
  BY <1>1, <1>2, <1>4, <1>5, <1>6

\* The ways a turn can go.
Empties(in) == in = << >>
Climbs(in) == Starts(in, <<".", ".", "/">>)
Idles(in) == Starts(in, <<".", "/">>)
Stays(in) == Starts(in, <<"/", ".", "/">>)
StaysLast(in) == in = <<"/", ".">>
Backs(in) == Starts(in, <<"/", ".", ".", "/">>)
BacksLast(in) == in = <<"/", ".", ".">>
Drops(in) == in \in {<<".">>, <<".", ".">>}

\* It goes no two of them.
LEMMA WaysApart ==
  ASSUME NEW in \in Seq(Unit)
  PROVE  /\ Empties(in) <=> Len(in) = 0
         /\ Climbs(in) <=> Len(in) >= 3 /\ in[1] = "." /\ in[2] = "." /\ in[3] = "/"
         /\ Idles(in) <=> Len(in) >= 2 /\ in[1] = "." /\ in[2] = "/"
         /\ Stays(in) <=> Len(in) >= 3 /\ in[1] = "/" /\ in[2] = "." /\ in[3] = "/"
         /\ StaysLast(in) <=> Len(in) = 2 /\ in[1] = "/" /\ in[2] = "."
         /\ Backs(in) <=> Len(in) >= 4 /\ in[1] = "/" /\ in[2] = "." /\ in[3] = "." /\ in[4] = "/"
         /\ BacksLast(in) <=> Len(in) = 3 /\ in[1] = "/" /\ in[2] = "." /\ in[3] = "."
         /\ Drops(in) <=> \/ Len(in) = 1 /\ in[1] = "."
                          \/ Len(in) = 2 /\ in[1] = "." /\ in[2] = "."
<1>1. Empties(in) <=> Len(in) = 0
  BY EmptySeq DEF Empties
<1>2. Climbs(in) <=> Len(in) >= 3 /\ in[1] = "." /\ in[2] = "." /\ in[3] = "/"
  BY UnitIs, ThreeIs DEF Climbs
<1>3. Idles(in) <=> Len(in) >= 2 /\ in[1] = "." /\ in[2] = "/"
  BY UnitIs, TwoIs DEF Idles
<1>4. Stays(in) <=> Len(in) >= 3 /\ in[1] = "/" /\ in[2] = "." /\ in[3] = "/"
  BY UnitIs, ThreeIs DEF Stays
<1>5. StaysLast(in) <=> Len(in) = 2 /\ in[1] = "/" /\ in[2] = "."
  BY UnitIs, TwoIs DEF StaysLast
<1>6. Backs(in) <=> Len(in) >= 4 /\ in[1] = "/" /\ in[2] = "." /\ in[3] = "." /\ in[4] = "/"
  BY UnitIs, FourIs DEF Backs
<1>7. BacksLast(in) <=> Len(in) = 3 /\ in[1] = "/" /\ in[2] = "." /\ in[3] = "."
  BY UnitIs, ThreeIs DEF BacksLast
<1>8. /\ in = <<".">> <=> Len(in) = 1 /\ in[1] = "."
      /\ in = <<".", ".">> <=> Len(in) = 2 /\ in[1] = "." /\ in[2] = "."
  BY UnitIs, SingleIs, TwoIs
<1> QED
  BY <1>1, <1>2, <1>3, <1>4, <1>5, <1>6, <1>7, <1>8 DEF Drops

\* What a turn comes to, whichever way it goes.
LEMMA TurnGoes ==
  ASSUME NEW in \in Seq(Unit), NEW out, NEW f
  PROVE  /\ Empties(in) => Turn(in, out, f) = out
         /\ Climbs(in) => Turn(in, out, f) = f[<<SubSeq(in, 4, Len(in)), out>>]
         /\ Idles(in) => Turn(in, out, f) = f[<<SubSeq(in, 3, Len(in)), out>>]
         /\ Stays(in) => Turn(in, out, f) = f[<<SubSeq(in, 3, Len(in)), out>>]
         /\ StaysLast(in) => Turn(in, out, f) = Append(out, "/")
         /\ Backs(in) => Turn(in, out, f) = f[<<SubSeq(in, 4, Len(in)), Pop(out)>>]
         /\ BacksLast(in) => Turn(in, out, f) = Append(Pop(out), "/")
         /\ Drops(in) => Turn(in, out, f) = out
         /\ ~Empties(in) /\ ~Climbs(in) /\ ~Idles(in) /\ ~Stays(in) /\ ~StaysLast(in)
              /\ ~Backs(in) /\ ~BacksLast(in) /\ ~Drops(in) =>
              Turn(in, out, f) = f[<<Behind(in, Segment(in)), out \o Segment(in)>>]
<1>1. Turn(in, out, f) =
        CASE Empties(in) -> out
          [] Climbs(in) -> f[<<SubSeq(in, 4, Len(in)), out>>]
          [] Idles(in) -> f[<<SubSeq(in, 3, Len(in)), out>>]
          [] Stays(in) -> f[<<SubSeq(in, 3, Len(in)), out>>]
          [] StaysLast(in) -> Append(out, "/")
          [] Backs(in) -> f[<<SubSeq(in, 4, Len(in)), Pop(out)>>]
          [] BacksLast(in) -> Append(Pop(out), "/")
          [] Drops(in) -> out
          [] OTHER -> f[<<Behind(in, Segment(in)), out \o Segment(in)>>]
  BY DEF Turn, Empties, Climbs, Idles, Stays, StaysLast, Backs, BacksLast, Drops
<1>2. /\ Empties(in) => ~Climbs(in) /\ ~Idles(in) /\ ~Stays(in) /\ ~StaysLast(in) /\ ~Backs(in) /\ ~BacksLast(in) /\ ~Drops(in)
      /\ Climbs(in) => ~Idles(in) /\ ~Stays(in) /\ ~StaysLast(in) /\ ~Backs(in) /\ ~BacksLast(in) /\ ~Drops(in)
      /\ Idles(in) => ~Stays(in) /\ ~StaysLast(in) /\ ~Backs(in) /\ ~BacksLast(in) /\ ~Drops(in)
      /\ Stays(in) => ~StaysLast(in) /\ ~Backs(in) /\ ~BacksLast(in) /\ ~Drops(in)
      /\ StaysLast(in) => ~Backs(in) /\ ~BacksLast(in) /\ ~Drops(in)
      /\ Backs(in) => ~BacksLast(in) /\ ~Drops(in)
      /\ BacksLast(in) => ~Drops(in)
  <2>1. Len(in) \in Nat /\ "." # "/"
    OBVIOUS
  <2> QED
    BY <2>1, WaysApart
<1> QED
  BY <1>1, <1>2

\* A turn has the answer or leaves it to one with less input.
LEMMA TurnIs ==
  ASSUME NEW S \in SUBSET Unit, "/" \in S, NEW in \in Seq(S), NEW out \in Seq(S)
  PROVE  \/ \E r \in Seq(S) : \A f : Turn(in, out, f) = r
         \/ \E u, v \in Seq(S) : Len(u) < Len(in) /\ \A f : Turn(in, out, f) = f[<<u, v>>]
<1>1. Append(out, "/") \in Seq(S) /\ Pop(out) \in Seq(S) /\ Append(Pop(out), "/") \in Seq(S)
  BY PopIs
<1>2. Len(in) \in Nat /\ \A m \in 2..(Len(in) + 1) :
        SubSeq(in, m, Len(in)) \in Seq(S) /\ Len(SubSeq(in, m, Len(in))) < Len(in)
  BY SkipIs
<1> in \in Seq(Unit)
  OBVIOUS
<1>3. CASE Empties(in) \/ Drops(in)
  <2>1. \A f : Turn(in, out, f) = out
    BY <1>3, TurnGoes
  <2> QED
    BY <2>1
<1>4. CASE Climbs(in)
  <2>1. 4 \in 2..(Len(in) + 1)
    BY <1>2, <1>4, WaysApart
  <2>2. \A f : Turn(in, out, f) = f[<<SubSeq(in, 4, Len(in)), out>>]
    BY <1>4, TurnGoes
  <2> QED
    BY <1>2, <2>1, <2>2
<1>5. CASE Idles(in) \/ Stays(in)
  <2>1. 3 \in 2..(Len(in) + 1)
    BY <1>2, <1>5, WaysApart
  <2>2. \A f : Turn(in, out, f) = f[<<SubSeq(in, 3, Len(in)), out>>]
    BY <1>5, TurnGoes
  <2> QED
    BY <1>2, <2>1, <2>2
<1>6. CASE StaysLast(in)
  <2>1. \A f : Turn(in, out, f) = Append(out, "/")
    BY <1>6, TurnGoes
  <2> QED
    BY <1>1, <2>1
<1>7. CASE Backs(in)
  <2>1. 4 \in 2..(Len(in) + 1)
    BY <1>2, <1>7, WaysApart
  <2>2. \A f : Turn(in, out, f) = f[<<SubSeq(in, 4, Len(in)), Pop(out)>>]
    BY <1>7, TurnGoes
  <2> QED
    BY <1>1, <1>2, <2>1, <2>2
<1>8. CASE BacksLast(in)
  <2>1. \A f : Turn(in, out, f) = Append(Pop(out), "/")
    BY <1>8, TurnGoes
  <2> QED
    BY <1>1, <2>1
<1>9. CASE /\ ~Empties(in) /\ ~Climbs(in) /\ ~Idles(in) /\ ~Stays(in) /\ ~StaysLast(in)
           /\ ~Backs(in) /\ ~BacksLast(in) /\ ~Drops(in)
  <2>1. in # << >>
    BY <1>9 DEF Empties
  <2>2. Segment(in) \in Seq(S) /\ Len(Segment(in)) \in 1..Len(in)
    BY <2>1, SegmentIs
  <2>3. /\ Behind(in, Segment(in)) \in Seq(S) /\ Len(Behind(in, Segment(in))) < Len(in)
        /\ out \o Segment(in) \in Seq(S)
    <3>1. Len(Segment(in)) \in 0..Len(in)
      BY <1>2, <2>2
    <3>2. Behind(in, Segment(in)) \in Seq(S) /\ Len(Behind(in, Segment(in))) = Len(in) - Len(Segment(in))
      BY <3>1, BehindIs
    <3> QED
      BY <1>2, <2>2, <3>2, ConcatProperties
  <2>4. \A f : Turn(in, out, f) = f[<<Behind(in, Segment(in)), out \o Segment(in)>>]
    BY <1>9, TurnGoes
  <2> QED
    BY <2>3, <2>4
<1> QED
  BY <1>3, <1>4, <1>5, <1>6, <1>7, <1>8, <1>9

Pairs == Seq(Unit) \X Seq(Unit)

\* The loop, as the function it is.
LEMMA LoopIs ==
  \E loop \in [Pairs -> Seq(Unit)] :
    /\ \A p \in Pairs : loop[p] = Turn(p[1], p[2], loop)
    /\ \A path : RemoveDotSegments(path) = loop[<<path, << >>>>]
<1>1. PICK Y : Y = Pairs
  OBVIOUS
<1>2. PICK X : X = Seq(Unit)
  OBVIOUS
<1> DEFINE size == [p \in Y |-> Len(p[1])]
           step == [f \in [Y -> X] |-> [p \in Y |-> Turn(p[1], p[2], f)]]
           loop == CHOOSE f : f = [p \in Seq(Unit) \X Seq(Unit) |-> Turn(p[1], p[2], f)]
<1>17. Unit \in SUBSET Unit /\ "/" \in Unit
  BY UnitIs
<1>3. \A p \in Y : p[1] \in Seq(Unit) /\ p[2] \in Seq(Unit)
  BY <1>1 DEF Pairs
<1>4. size \in [Y -> Nat] /\ \A p \in Y : size[p] = Len(p[1])
  BY <1>3
<1>5. ASSUME NEW u \in Seq(Unit), NEW v \in Seq(Unit) PROVE <<u, v>> \in Y /\ size[<<u, v>>] = Len(u)
  BY <1>1 DEF Pairs
<1> HIDE DEF size
<1>6. ASSUME NEW f \in [Y -> X], NEW p \in Y PROVE Turn(p[1], p[2], f) \in X
  <2>1. CASE \E r \in Seq(Unit) : \A g : Turn(p[1], p[2], g) = r
    BY <1>2, <2>1
  <2>2. CASE \E u, v \in Seq(Unit) : Len(u) < Len(p[1]) /\ \A g : Turn(p[1], p[2], g) = g[<<u, v>>]
    BY <1>5, <2>2
  <2> QED
    BY <1>17, <1>3, <2>1, <2>2, TurnIs
<1>7. step \in [[Y -> X] -> [Y -> X]]
  BY <1>6
<1>8. ASSUME NEW f \in [Y -> X], NEW g \in [Y -> X], NEW p \in Y,
             \A q \in Y : size[q] < size[p] => f[q] = g[q]
      PROVE  step[f][p] = step[g][p]
  <2>1. Turn(p[1], p[2], f) = Turn(p[1], p[2], g)
    <3>1. CASE \E r \in Seq(Unit) : \A h : Turn(p[1], p[2], h) = r
      BY <3>1
    <3>2. CASE \E u, v \in Seq(Unit) : Len(u) < Len(p[1]) /\ \A h : Turn(p[1], p[2], h) = h[<<u, v>>]
      <4>1. PICK u \in Seq(Unit), v \in Seq(Unit) :
              Len(u) < Len(p[1]) /\ \A h : Turn(p[1], p[2], h) = h[<<u, v>>]
        BY <3>2
      <4>2. <<u, v>> \in Y /\ size[<<u, v>>] < size[p]
        BY <1>4, <1>5, <4>1
      <4>3. f[<<u, v>>] = g[<<u, v>>]
        BY <1>8, <4>2
      <4> QED
        BY <4>1, <4>3
    <3> QED
      BY <1>17, <1>3, <3>1, <3>2, TurnIs
  <2> QED
    BY <2>1
<1>9. PICK f \in [Y -> X] : f = step[f]
  <2> HIDE DEF step
  <2>1. X # {}
    BY <1>2, EmptySeq
  <2>2. Founded(Y, X, size, step)
    BY <1>4, <1>7, <1>8, <2>1 DEF Founded
  <2> QED
    BY <2>2, Recursion
<1>10. f = [p \in Seq(Unit) \X Seq(Unit) |-> Turn(p[1], p[2], f)]
  BY <1>1, <1>9 DEF Pairs
<1>11. loop = [p \in Seq(Unit) \X Seq(Unit) |-> Turn(p[1], p[2], loop)]
  <2> HIDE DEF step
  <2> QED
    BY <1>10
<1>12. \A path : RemoveDotSegments(path) = loop[<<path, << >>>>]
  BY DEF RemoveDotSegments
<1> HIDE DEF loop, step
<1>13. \A p \in Y : loop[p] = Turn(p[1], p[2], loop)
  BY <1>1, <1>11 DEF Pairs
<1> DEFINE Q == {p \in Y : loop[p] \in X}
<1>14. ASSUME NEW p \in Y, \A q \in Y : size[q] < size[p] => q \in Q
       PROVE  p \in Q
  <2>1. loop[p] = Turn(p[1], p[2], loop)
    BY <1>13
  <2>2. CASE \E r \in Seq(Unit) : \A h : Turn(p[1], p[2], h) = r
    BY <1>2, <2>1, <2>2
  <2>3. CASE \E u, v \in Seq(Unit) : Len(u) < Len(p[1]) /\ \A h : Turn(p[1], p[2], h) = h[<<u, v>>]
    <3>1. PICK u \in Seq(Unit), v \in Seq(Unit) :
            Len(u) < Len(p[1]) /\ \A h : Turn(p[1], p[2], h) = h[<<u, v>>]
      BY <2>3
    <3>2. <<u, v>> \in Y /\ size[<<u, v>>] < size[p]
      BY <1>4, <1>5, <3>1
    <3>3. <<u, v>> \in Q
      BY <1>14, <3>2
    <3> QED
      BY <2>1, <3>1, <3>3
  <2> QED
    BY <1>17, <1>3, <2>2, <2>3, TurnIs
<1>15. Q = Y
  <2>1. Q \in SUBSET Y
    OBVIOUS
  <2> HIDE DEF Q
  <2>2. Inherited(Y, size, Q)
    BY <1>4, <1>14, <2>1 DEF Inherited
  <2> QED
    BY <2>2, BySize
<1>16. loop \in [Pairs -> Seq(Unit)]
  <2>1. \A p \in Y : loop[p] \in X
    BY <1>15
  <2>2. loop = [p \in Y |-> Turn(p[1], p[2], loop)]
    BY <1>1, <1>11 DEF Pairs
  <2>3. loop \in [Y -> X]
    BY <1>13, <2>1, <2>2
  <2> QED
    BY <1>1, <1>2, <2>3
<1> QED
  BY <1>1, <1>12, <1>13, <1>16

\* The same of a path, by its first segment.
LEMMA RootedTurn ==
  ASSUME NEW in, Rooted(in), NEW out, NEW f
  PROVE  LET s == FirstOfPath(in)
             rest == RestOfPath(in)
         IN /\ s = <<".">> /\ rest # << >> => Turn(in, out, f) = f[<<rest, out>>]
            /\ s = <<".">> /\ rest = << >> => Turn(in, out, f) = Append(out, "/")
            /\ s = <<".", ".">> /\ rest # << >> => Turn(in, out, f) = f[<<rest, Pop(out)>>]
            /\ s = <<".", ".">> /\ rest = << >> => Turn(in, out, f) = Append(Pop(out), "/")
            /\ s \notin Dots => Turn(in, out, f) = f[<<rest, out \o (<<"/">> \o s)>>]
<1> DEFINE s == FirstOfPath(in)
           rest == RestOfPath(in)
<1>1. in \in Seq(Unit) /\ in # << >> /\ in[1] = "/" /\ Len(in) \in Nat
  BY DEF Rooted
<1>2. /\ s \in Seq(Unit) /\ \A i \in 1..Len(s) : s[i] = in[i + 1] /\ s[i] # "/"
      /\ rest \in Seq(Unit) /\ Len(in) = Len(s) + 1 + Len(rest)
      /\ \A i \in 1..Len(rest) : rest[i] = in[Len(s) + 1 + i]
      /\ IsPath(rest)
  BY <1>1, FirstRest
<1>3. Len(s) \in Nat /\ Len(rest) \in Nat /\ (rest # << >> <=> Len(rest) # 0)
  BY <1>2, EmptySeq
<1>4. Segment(in) = <<"/">> \o s /\ Behind(in, Segment(in)) = rest
  BY <1>1 DEF Segment, FirstOfPath, RestOfPath
<1>5. rest = SubSeq(in, Len(<<"/">> \o s) + 1, Len(in)) /\ Len(<<"/">> \o s) = Len(s) + 1
  <2>1. rest = SubSeq(in, Len(<<"/">> \o s) + 1, Len(in))
    BY DEF RestOfPath, Behind
  <2>2. <<"/">> \in Seq(Unit) /\ Len(<<"/">>) = 1
    BY UnitIs, OneIs
  <2>3. PICK one \in Seq(Unit) : one = <<"/">> /\ Len(one) = 1
    BY <2>2
  <2>4. s \in Seq(Unit)
    BY <1>2
  <2> HIDE DEF s, rest
  <2>5. Len(one \o s) = Len(one) + Len(s)
    BY <2>3, <2>4, ConcatProperties
  <2>6. Len(one) + Len(s) = Len(s) + 1
    BY <1>3, <2>3
  <2> QED
    BY <2>1, <2>3, <2>5, <2>6
<1> HIDE DEF s, rest
<1>a. PICK n \in Nat, m \in Nat, l \in Nat : n = Len(s) /\ m = Len(rest) /\ l = Len(in)
  BY <1>1, <1>3
<1>b. l = n + 1 + m /\ (rest # << >> <=> m # 0)
  BY <1>2, <1>3, <1>a
<1>6. s = <<".">> <=> n = 1 /\ s[1] = "."
  BY <1>2, <1>a, UnitIs, SingleIs
<1>7. s = <<".", ".">> <=> n = 2 /\ s[1] = "." /\ s[2] = "."
  BY <1>2, <1>a, UnitIs, TwoIs
<1>8. m # 0 => in[n + 2] = "/"
  <2> SUFFICES ASSUME m # 0 PROVE in[n + 2] = "/"
    OBVIOUS
  <2>1. 1 \in 1..m /\ n + 1 + 1 = n + 2
    BY <1>a
  <2>2. rest[1] = "/"
    BY <1>2, <1>b DEF IsPath, Rooted
  <2> QED
    BY <1>2, <1>a, <2>1, <2>2
<1>9. /\ n >= 1 => in[2] = s[1] /\ s[1] # "/"
      /\ n >= 2 => in[3] = s[2] /\ s[2] # "/"
      /\ n >= 3 => in[4] = s[3] /\ s[3] # "/"
  <2>1. /\ n >= 1 => 1 \in 1..n /\ 1 + 1 = 2
        /\ n >= 2 => 2 \in 1..n /\ 2 + 1 = 3
        /\ n >= 3 => 3 \in 1..n /\ 3 + 1 = 4
    OBVIOUS
  <2>2. \A i \in 1..n : s[i] = in[i + 1] /\ s[i] # "/"
    BY <1>2, <1>a
  <2> QED
    BY <2>1, <2>2
<1>10. "." # "/" /\ ~Empties(in) /\ ~Climbs(in) /\ ~Idles(in) /\ ~Drops(in)
  BY <1>1, WaysApart DEF Empties
<1>11. /\ n = 0 /\ m # 0 => in[2] = "/"
       /\ n = 1 /\ m # 0 => in[3] = "/"
       /\ n = 2 /\ m # 0 => in[4] = "/"
  <2>1. (n = 0 => n + 2 = 2) /\ (n = 1 => n + 2 = 3) /\ (n = 2 => n + 2 = 4)
    OBVIOUS
  <2> QED
    BY <1>8, <2>1
<1>12. Stays(in) <=> s = <<".">> /\ rest # << >>
  <2>1. Stays(in) <=> l >= 3 /\ in[1] = "/" /\ in[2] = "." /\ in[3] = "/"
    BY <1>1, <1>a, WaysApart
  <2> QED
    BY <1>1, <1>a, <1>b, <1>6, <1>9, <1>10, <1>11, <2>1
<1>13. StaysLast(in) <=> s = <<".">> /\ rest = << >>
  <2>1. StaysLast(in) <=> l = 2 /\ in[1] = "/" /\ in[2] = "."
    BY <1>1, <1>a, WaysApart
  <2>2. ASSUME l = 2, in[2] = "." PROVE n = 1 /\ m = 0 /\ s[1] = "."
    <3>1. n # 0
      BY <1>a, <1>b, <1>10, <1>11, <2>2
    <3> QED
      BY <1>a, <1>b, <1>9, <2>2, <3>1
  <2>3. ASSUME n = 1, m = 0, s[1] = "." PROVE l = 2 /\ in[2] = "."
    BY <1>b, <1>9, <2>3
  <2> QED
    BY <1>1, <1>b, <1>6, <2>1, <2>2, <2>3
<1>14. Backs(in) <=> s = <<".", ".">> /\ rest # << >>
  <2>1. Backs(in) <=> l >= 4 /\ in[1] = "/" /\ in[2] = "." /\ in[3] = "." /\ in[4] = "/"
    BY <1>1, <1>a, WaysApart
  <2> QED
    BY <1>1, <1>a, <1>b, <1>7, <1>9, <1>10, <1>11, <2>1
<1>15. BacksLast(in) <=> s = <<".", ".">> /\ rest = << >>
  <2>1. BacksLast(in) <=> l = 3 /\ in[1] = "/" /\ in[2] = "." /\ in[3] = "."
    BY <1>1, <1>a, WaysApart
  <2> QED
    BY <1>1, <1>a, <1>b, <1>7, <1>9, <1>10, <1>11, <2>1
<1>16. /\ s = <<".">> => rest = SubSeq(in, 3, Len(in))
       /\ s = <<".", ".">> => rest = SubSeq(in, 4, Len(in))
  <2>1. (n = 1 => n + 1 + 1 = 3) /\ (n = 2 => n + 1 + 1 = 4)
    OBVIOUS
  <2>2. rest = SubSeq(in, n + 1 + 1, Len(in))
    BY <1>5, <1>a
  <2> QED
    BY <1>6, <1>7, <2>1, <2>2
<1>17. s = <<".">> /\ rest # << >> => Turn(in, out, f) = f[<<rest, out>>]
  <2>1. Stays(in) => Turn(in, out, f) = f[<<SubSeq(in, 3, Len(in)), out>>]
    BY <1>1, TurnGoes
  <2> QED
    BY <1>12, <1>16, <2>1
<1>18. s = <<".">> /\ rest = << >> => Turn(in, out, f) = Append(out, "/")
  BY <1>1, <1>13, TurnGoes
<1>19. s = <<".", ".">> /\ rest # << >> => Turn(in, out, f) = f[<<rest, Pop(out)>>]
  <2>1. Backs(in) => Turn(in, out, f) = f[<<SubSeq(in, 4, Len(in)), Pop(out)>>]
    BY <1>1, TurnGoes
  <2> QED
    BY <1>14, <1>16, <2>1
<1>20. s = <<".", ".">> /\ rest = << >> => Turn(in, out, f) = Append(Pop(out), "/")
  BY <1>1, <1>15, TurnGoes
<1>21. ASSUME s \notin Dots PROVE Turn(in, out, f) = f[<<rest, out \o (<<"/">> \o s)>>]
  <2>1. ~Stays(in) /\ ~StaysLast(in) /\ ~Backs(in) /\ ~BacksLast(in)
    BY <1>12, <1>13, <1>14, <1>15, <1>21 DEF Dots
  <2> QED
    BY <1>1, <1>4, <1>10, <2>1, TurnGoes, ZenonT(60)
<1> QED
  BY <1>17, <1>18, <1>19, <1>20, <1>21 DEF s, rest

\* A path with another segment.
LEMMA SegmentsMore ==
  ASSUME NEW a \in Seq(Unit), IsPath(a), NEW s, NoSlash(s)
  PROVE  /\ Rooted(a \o (<<"/">> \o s)) /\ SegmentsOf(a \o (<<"/">> \o s)) = Append(SegmentsOf(a), s)
<1>1. PICK q : q = <<"/">> \o s
  OBVIOUS
<1>2. SegmentsOf(q) = <<s>> /\ Rooted(q)
  BY <1>1, SegmentsOne
<1>3. q \in Seq(Unit) /\ IsPath(q) /\ q # << >>
  BY <1>2 DEF Rooted, IsPath
<1>4. SegmentsOf(a \o q) = SegmentsOf(a) \o SegmentsOf(q) /\ IsPath(a \o q)
  BY <1>3, SegmentsJoin
<1>5. a \o q # << >>
  <2>1. Len(a) \in Nat /\ Len(q) \in Nat \ {0} /\ Len(a \o q) = Len(a) + Len(q)
    BY <1>3, EmptySeq, ConcatProperties
  <2>2. Len(a \o q) # 0
    BY <2>1
  <2> QED
    BY <2>2, EmptySeq
<1>6. SegmentsOf(a) \o <<s>> = Append(SegmentsOf(a), s)
  <2>1. SegmentsOf(a) \in Words /\ s \in Seq(Unit)
    BY SegmentsTurn DEF NoSlash
  <2> QED
    BY <2>1, AppendIsConcat DEF Words
<1> QED
  BY <1>1, <1>2, <1>4, <1>5, <1>6 DEF IsPath

\* A path is what is left of it without its last segment, and that.
LEMMA PopParts ==
  ASSUME NEW out, Rooted(out)
  PROVE  \E s : /\ NoSlash(s) /\ IsPath(Pop(out)) /\ Pop(out) \in Seq(Unit)
                /\ out = Pop(out) \o (<<"/">> \o s)
                /\ UpTo(out, LastSlash(out)) = Pop(out) \o <<"/">>
<1> DEFINE k == LastOf(out, {"/"})
           a == SubSeq(out, 1, k - 1)
           s == SubSeq(out, k + 1, Len(out))
<1>1. out \in Seq(Unit) /\ out # << >> /\ out[1] = "/" /\ Len(out) \in Nat
  BY DEF Rooted
<1>2. /\ k \in 0..Len(out) /\ (k # 0 => out[k] \in {"/"})
      /\ \A i \in (k + 1)..Len(out) : out[i] \notin {"/"}
  BY <1>1, LastIs
<1>3. LastSlash(out) = k
  BY DEF LastSlash, LastOf
<1> HIDE DEF k
<1>4. k \in 1..Len(out) /\ out[k] = "/"
  <2>1. Len(out) # 0
    BY <1>1, EmptySeq
  <2>2. k # 0
    <3>1. k = 0 => 1 \in (k + 1)..Len(out)
      BY <1>1, <2>1
    <3> QED
      BY <1>1, <1>2, <3>1
  <2> QED
    BY <1>1, <1>2, <2>2
<1>5. Pop(out) = a /\ UpTo(out, LastSlash(out)) = SubSeq(out, 1, k)
  BY <1>3, <1>4 DEF Pop, UpTo
<1>6. /\ a \in Seq(Unit) /\ Len(a) = k - 1 /\ \A i \in 1..(k - 1) : a[i] = out[i]
  <2>1. 1 \in 1..(Len(out) + 1) /\ k - 1 \in (1 - 1)..Len(out) /\ (k - 1) - 1 + 1 = k - 1
    BY <1>1, <1>4
  <2>2. /\ a \in Seq(Unit) /\ Len(a) = (k - 1) - 1 + 1
        /\ \A i \in 1..((k - 1) - 1 + 1) : a[i] = out[1 + i - 1]
    BY <1>1, <2>1, PartIs
  <2>3. \A i \in 1..(k - 1) : 1 + i - 1 = i
    OBVIOUS
  <2> QED
    BY <2>1, <2>2, <2>3
<1>7. /\ s \in Seq(Unit) /\ Len(s) = Len(out) - k /\ \A i \in 1..(Len(out) - k) : s[i] = out[k + i]
  <2>1. /\ k + 1 \in 1..(Len(out) + 1) /\ Len(out) \in ((k + 1) - 1)..Len(out)
        /\ Len(out) - (k + 1) + 1 = Len(out) - k
    BY <1>1, <1>4
  <2>2. /\ s \in Seq(Unit) /\ Len(s) = Len(out) - (k + 1) + 1
        /\ \A i \in 1..(Len(out) - (k + 1) + 1) : s[i] = out[(k + 1) + i - 1]
    BY <1>1, <2>1, PartIs
  <2>3. \A i \in 1..(Len(out) - k) : (k + 1) + i - 1 = k + i
    BY <1>1, <1>4
  <2> QED
    BY <2>1, <2>2, <2>3
<1>8. /\ SubSeq(out, 1, k) \in Seq(Unit) /\ Len(SubSeq(out, 1, k)) = k
      /\ \A i \in 1..k : SubSeq(out, 1, k)[i] = out[i]
  <2>1. 1 \in 1..(Len(out) + 1) /\ k \in (1 - 1)..Len(out) /\ k - 1 + 1 = k
    BY <1>1, <1>4
  <2>2. /\ SubSeq(out, 1, k) \in Seq(Unit) /\ Len(SubSeq(out, 1, k)) = k - 1 + 1
        /\ \A i \in 1..(k - 1 + 1) : SubSeq(out, 1, k)[i] = out[1 + i - 1]
    BY <1>1, <2>1, PartIs
  <2>3. \A i \in 1..k : 1 + i - 1 = i
    BY <1>4
  <2> QED
    BY <2>1, <2>2, <2>3
<1>9. PICK head : head = SubSeq(out, 1, k)
  OBVIOUS
<1> HIDE DEF a, s
<1>10. NoSlash(s)
  <2>1. \A i \in 1..Len(s) : k + i \in (k + 1)..Len(out) /\ s[i] = out[k + i]
    BY <1>1, <1>4, <1>7
  <2> QED
    BY <1>2, <1>7, <2>1 DEF NoSlash
<1>11. IsPath(a)
  <2>1. CASE k = 1
    <3>1. Len(a) = 0
      BY <1>6, <2>1
    <3> QED
      BY <1>6, <3>1, EmptySeq DEF IsPath
  <2>2. CASE k # 1
    <3>1. 1 \in 1..(k - 1) /\ Len(a) # 0
      BY <1>4, <1>6, <2>2
    <3> QED
      BY <1>1, <1>6, <3>1, EmptySeq DEF IsPath, Rooted
  <2> QED
    BY <2>1, <2>2
<1>12. <<"/">> \in Seq(Unit) /\ Len(<<"/">>) = 1 /\ <<"/">>[1] = "/"
  BY UnitIs, OneIs
<1>13. PICK one \in Seq(Unit) : one = <<"/">> /\ Len(one) = 1 /\ one[1] = "/"
  BY <1>12
<1>14. head = a \o one
  <2>1. /\ a \o one \in Seq(Unit) /\ Len(a \o one) = Len(a) + Len(one)
        /\ \A i \in 1..(Len(a) + Len(one)) : (a \o one)[i] = IF i <= Len(a) THEN a[i] ELSE one[i - Len(a)]
    BY <1>6, ConcatProperties
  <2>2. Len(a) + Len(one) = k
    BY <1>4, <1>6, <1>13
  <2>3. ASSUME NEW i \in 1..k PROVE (a \o one)[i] = head[i]
    <3>1. CASE i <= k - 1
      <4>1. i \in 1..(k - 1) /\ i <= Len(a)
        BY <1>4, <1>6, <3>1
      <4> QED
        BY <1>6, <1>8, <1>9, <2>1, <2>2, <4>1
    <3>2. CASE i = k
      <4>1. ~(i <= Len(a)) /\ i - Len(a) = 1
        BY <1>4, <1>6, <3>2
      <4> QED
        <5>1. (a \o one)[i] = one[1]
          BY <2>1, <2>2, <4>1
        <5>2. head[i] = out[k]
          BY <1>4, <1>8, <1>9, <3>2
        <5> QED
          BY <1>4, <1>13, <5>1, <5>2
    <3>3. k \in Nat /\ (i <= k - 1 \/ i = k)
      BY <1>1, <1>4
    <3> QED
      BY <3>1, <3>2, <3>3
  <2> QED
    BY <1>8, <1>9, <2>1, <2>2, <2>3, SeqEqual
<1>15. out = head \o s
  <2>1. /\ head \o s \in Seq(Unit) /\ Len(head \o s) = Len(head) + Len(s)
        /\ \A i \in 1..(Len(head) + Len(s)) : (head \o s)[i] = IF i <= Len(head) THEN head[i] ELSE s[i - Len(head)]
    BY <1>7, <1>8, <1>9, ConcatProperties
  <2>2. Len(head) = k /\ Len(head) + Len(s) = Len(out)
    BY <1>1, <1>4, <1>7, <1>8, <1>9
  <2>3. ASSUME NEW i \in 1..Len(out) PROVE (head \o s)[i] = out[i]
    <3>1. CASE i <= k
      <4>1. i \in 1..k
        BY <1>4, <3>1
      <4> QED
        BY <1>8, <1>9, <2>1, <2>2, <4>1
    <3>2. CASE ~(i <= k)
      <4>1. i - k \in 1..(Len(out) - k) /\ k + (i - k) = i
        BY <1>1, <1>4, <3>2
      <4>2. s[i - k] = out[k + (i - k)]
        BY <1>7, <4>1
      <4> QED
        BY <2>1, <2>2, <3>2, <4>1, <4>2
    <3> QED
      BY <3>1, <3>2
  <2> QED
    BY <1>1, <2>1, <2>2, <2>3, SeqEqual
<1>16. out = a \o (one \o s)
  BY <1>6, <1>7, <1>14, <1>15, ConcatAssociative, SMTT(60)
<1> QED
  BY <1>5, <1>6, <1>9, <1>10, <1>11, <1>13, <1>14, <1>16

LEMMA FrontMore ==
  ASSUME NEW S, NEW w \in Seq(S), NEW c \in S
  PROVE  Front(Append(w, c)) = w /\ Last(Append(w, c)) = c /\ Append(w, c) # << >>
<1>1. Append(w, c) \in Seq(S) /\ Len(Append(w, c)) = Len(w) + 1 /\ Len(w) \in Nat
  OBVIOUS
<1>2. /\ \A i \in 1..Len(w) : Append(w, c)[i] = w[i]
      /\ Append(w, c)[Len(w) + 1] = c
  OBVIOUS
<1>3. PICK v : v = Append(w, c)
  OBVIOUS
<1>4. Front(v) = SubSeq(v, 1, Len(w)) /\ Last(v) = v[Len(w) + 1]
  BY <1>1, <1>3 DEF Front, Last
<1>5. /\ SubSeq(v, 1, Len(w)) \in Seq(S) /\ Len(SubSeq(v, 1, Len(w))) = Len(w)
      /\ \A i \in 1..Len(w) : SubSeq(v, 1, Len(w))[i] = v[i]
  <2>1. 1 \in 1..(Len(v) + 1) /\ Len(w) \in (1 - 1)..Len(v) /\ Len(w) - 1 + 1 = Len(w)
    BY <1>1, <1>3
  <2>2. /\ SubSeq(v, 1, Len(w)) \in Seq(S) /\ Len(SubSeq(v, 1, Len(w))) = Len(w) - 1 + 1
        /\ \A i \in 1..(Len(w) - 1 + 1) : SubSeq(v, 1, Len(w))[i] = v[1 + i - 1]
    BY <1>1, <1>3, <2>1, PartIs
  <2>3. \A i \in 1..Len(w) : 1 + i - 1 = i
    OBVIOUS
  <2> QED
    BY <2>1, <2>2, <2>3
<1>6. SubSeq(v, 1, Len(w)) = w
  BY <1>2, <1>3, <1>5, SeqEqual
<1> QED
  BY <1>1, <1>2, <1>3, <1>4, <1>6, EmptySeq

\* To go up is to drop the last segment.
LEMMA PopSegments ==
  ASSUME NEW out \in Seq(Unit), IsPath(out)
  PROVE  /\ IsPath(Pop(out)) /\ Pop(out) \in Seq(Unit)
         /\ SegmentsOf(Pop(out)) = Gone(SegmentsOf(out), <<".", ".">>)
<1>1. Gone(SegmentsOf(out), <<".", ".">>) =
        IF SegmentsOf(out) = << >> THEN SegmentsOf(out) ELSE Front(SegmentsOf(out))
  <2>1. <<".">> # <<".", ".">>
    <3>1. Len(<<".">>) = 1 /\ Len(<<".", ".">>) = 2
      OBVIOUS
    <3> QED
      BY <3>1
  <2> QED
    BY <2>1 DEF Gone
<1>2. CASE out = << >>
  <2>1. LastOf(out, {"/"}) = 0
    <3>1. LastOf(out, {"/"}) \in 0..Len(out)
      BY LastIs
    <3>2. Len(out) = 0
      BY <1>2
    <3> QED
      BY <3>1, <3>2
  <2>2. Pop(out) = << >>
    BY <2>1 DEF Pop, LastSlash, LastOf
  <2>3. SegmentsOf(out) = << >>
    BY <1>2, SegmentsTurn
  <2> QED
    BY <1>1, <1>2, <2>2, <2>3 DEF IsPath
<1>3. CASE out # << >>
  <2>1. Rooted(out)
    BY <1>3 DEF IsPath
  <2>2. PICK s : NoSlash(s) /\ IsPath(Pop(out)) /\ Pop(out) \in Seq(Unit) /\ out = Pop(out) \o (<<"/">> \o s)
    BY <2>1, PopParts
  <2>3. PICK a \in Seq(Unit) : a = Pop(out)
    BY <2>2
  <2>4. SegmentsOf(out) = Append(SegmentsOf(a), s)
    BY <2>2, <2>3, SegmentsMore
  <2>5. SegmentsOf(a) \in Seq(Seq(Unit)) /\ s \in Seq(Unit)
    BY <2>2, SegmentsTurn DEF Words, NoSlash
  <2>6. Front(SegmentsOf(out)) = SegmentsOf(a) /\ SegmentsOf(out) # << >>
    BY <2>4, <2>5, FrontMore
  <2> QED
    BY <1>1, <2>2, <2>3, <2>6
<1> QED
  BY <1>2, <1>3

(***************************************************************************)
(* Walking the segments.                                                   *)
(***************************************************************************)
\* One step of the walk.
WalkTurn(ts, walk) == IF ts = << >> THEN << >> ELSE Gone(walk[Front(ts)], Last(ts))

LEMMA FrontIs ==
  ASSUME NEW S, NEW w \in Seq(S), w # << >>
  PROVE  /\ Front(w) \in Seq(S) /\ Len(Front(w)) = Len(w) - 1 /\ Last(w) \in S
<1>1. Len(w) \in Nat \ {0}
  BY EmptySeq
<1>2. 1 \in 1..(Len(w) + 1) /\ Len(w) - 1 \in (1 - 1)..Len(w) /\ (Len(w) - 1) - 1 + 1 = Len(w) - 1
  BY <1>1
<1>3. Front(w) = SubSeq(w, 1, Len(w) - 1) /\ Last(w) = w[Len(w)]
  BY DEF Front, Last
<1>4. Front(w) \in Seq(S) /\ Len(Front(w)) = (Len(w) - 1) - 1 + 1
  BY <1>2, <1>3, PartIs
<1>5. w[Len(w)] \in S
  BY <1>1
<1> QED
  BY <1>2, <1>3, <1>4, <1>5

LEMMA FrontWord ==
  ASSUME NEW ts \in Words, ts # << >>
  PROVE  Front(ts) \in Words /\ Len(Front(ts)) = Len(ts) - 1 /\ Last(ts) \in Seq(Unit) /\ Len(ts) \in Nat
<1>1. PICK Y : Y = Seq(Unit)
  OBVIOUS
<1>2. ts \in Seq(Y) /\ Len(ts) \in Nat
  BY <1>1 DEF Words
<1>3. Front(ts) \in Seq(Y) /\ Len(Front(ts)) = Len(ts) - 1 /\ Last(ts) \in Y
  BY <1>2, FrontIs
<1> QED
  BY <1>1, <1>2, <1>3 DEF Words

LEMMA GoneIs ==
  ASSUME NEW out \in Words, NEW s \in Seq(Unit)
  PROVE  /\ Gone(out, s) \in Words
         /\ s = <<".">> => Gone(out, s) = out
         /\ s \notin Dots => Gone(out, s) = Append(out, s)
<1>1. <<".">> # <<".", ".">>
  <2>1. Len(<<".">>) = 1 /\ Len(<<".", ".">>) = 2
    OBVIOUS
  <2> QED
    BY <2>1
<1>2. CASE s = <<".">>
  BY <1>1, <1>2 DEF Gone, Dots
<1>3. CASE s = <<".", ".">>
  <2>1. Gone(out, s) = IF out = << >> THEN out ELSE Front(out)
    BY <1>1, <1>3 DEF Gone
  <2>2. out # << >> => Front(out) \in Words
    BY FrontIs DEF Words
  <2> QED
    BY <1>1, <1>3, <2>1, <2>2 DEF Dots
<1>4. CASE s \notin Dots
  BY <1>4 DEF Gone, Dots, Words
<1> QED
  BY <1>2, <1>3, <1>4 DEF Dots

LEMMA WalkTyped ==
  ASSUME NEW ts \in Words, NEW f, \A u \in Words : Len(u) < Len(ts) => f[u] \in Words
  PROVE  WalkTurn(ts, f) \in Words
<1>1. CASE ts = << >>
  BY <1>1, EmptySeq DEF WalkTurn, Words
<1>2. CASE ts # << >>
  <2>1. Front(ts) \in Words /\ Len(Front(ts)) = Len(ts) - 1 /\ Last(ts) \in Seq(Unit) /\ Len(ts) \in Nat
    BY <1>2, FrontWord
  <2>2. f[Front(ts)] \in Words
    BY <2>1
  <2> QED
    BY <1>2, <2>1, <2>2, GoneIs DEF WalkTurn
<1> QED
  BY <1>1, <1>2

LEMMA WalkAhead ==
  ASSUME NEW ts \in Words, NEW f, NEW g, \A u \in Words : Len(u) < Len(ts) => f[u] = g[u]
  PROVE  WalkTurn(ts, f) = WalkTurn(ts, g)
<1>1. CASE ts = << >>
  BY <1>1 DEF WalkTurn
<1>2. CASE ts # << >>
  <2>1. Front(ts) \in Words /\ Len(Front(ts)) = Len(ts) - 1 /\ Len(ts) \in Nat
    BY <1>2, FrontWord
  <2>2. f[Front(ts)] = g[Front(ts)]
    BY <2>1
  <2> QED
    BY <2>2 DEF WalkTurn
<1> QED
  BY <1>1, <1>2

\* The walk, as the function it is.
LEMMA WalkIs ==
  \E walk \in [Words -> Words] :
    /\ walk[<< >>] = << >>
    /\ \A ts \in Words, s \in Seq(Unit) : walk[Append(ts, s)] = Gone(walk[ts], s)
    /\ \A ss : Walked(ss) = IF Last(ss) \in Dots THEN Append(walk[ss], << >>) ELSE walk[ss]
<1>1. PICK Y : Y = Words
  OBVIOUS
<1> DEFINE size == [v \in Y |-> Len(v)]
           step == [f \in [Y -> Y] |-> [v \in Y |-> WalkTurn(v, f)]]
           walk == CHOOSE f : f = [ts \in Seq(Seq(Unit)) |-> WalkTurn(ts, f)]
<1>2. size \in [Y -> Nat] /\ \A v \in Y : size[v] = Len(v)
  BY <1>1 DEF Words
<1> HIDE DEF size
<1>3. step \in [[Y -> Y] -> [Y -> Y]]
  <2>1. ASSUME NEW f \in [Y -> Y], NEW v \in Y PROVE WalkTurn(v, f) \in Y
    BY <1>1, WalkTyped
  <2> QED
    BY <2>1
<1>4. ASSUME NEW f \in [Y -> Y], NEW g \in [Y -> Y], NEW v \in Y,
             \A u \in Y : size[u] < size[v] => f[u] = g[u]
      PROVE  step[f][v] = step[g][v]
  <2>1. WalkTurn(v, f) = WalkTurn(v, g)
    <3>1. \A u \in Y : Len(u) < Len(v) => f[u] = g[u]
      BY <1>2, <1>4
    <3> QED
      BY <1>1, <3>1, WalkAhead
  <2> QED
    BY <2>1
<1>5. << >> \in Y
  BY <1>1, EmptySeq DEF Words
<1>6. PICK f \in [Y -> Y] : f = step[f]
  <2> HIDE DEF step
  <2>1. Y # {}
    BY <1>5
  <2>2. Founded(Y, Y, size, step)
    BY <1>2, <1>3, <1>4, <2>1 DEF Founded
  <2> QED
    BY <2>2, Recursion
<1>7. f = [ts \in Seq(Seq(Unit)) |-> WalkTurn(ts, f)]
  BY <1>1, <1>6 DEF Words
<1>8. walk = [ts \in Seq(Seq(Unit)) |-> WalkTurn(ts, walk)]
  <2> HIDE DEF step
  <2> QED
    BY <1>7
<1>9. \A ss : Walked(ss) = IF Last(ss) \in Dots THEN Append(walk[ss], << >>) ELSE walk[ss]
  BY DEF Walked, WalkTurn
<1> HIDE DEF walk, step
<1>10. \A v \in Y : walk[v] = WalkTurn(v, walk)
  BY <1>1, <1>8 DEF Words
<1> DEFINE Q == {v \in Y : walk[v] \in Y}
<1>11. ASSUME NEW v \in Y, \A u \in Y : size[u] < size[v] => u \in Q
       PROVE  v \in Q
  <2>1. \A u \in Y : Len(u) < Len(v) => walk[u] \in Y
    BY <1>2, <1>11
  <2>2. WalkTurn(v, walk) \in Y
    BY <1>1, <2>1, WalkTyped
  <2> QED
    BY <1>10, <2>2
<1>12. Q = Y
  <2>1. Q \in SUBSET Y
    OBVIOUS
  <2> HIDE DEF Q
  <2>2. Inherited(Y, size, Q)
    BY <1>2, <1>11, <2>1 DEF Inherited
  <2> QED
    BY <2>2, BySize
<1>13. walk \in [Words -> Words]
  <2>1. \A v \in Y : walk[v] \in Y
    BY <1>12
  <2>2. walk = [v \in Y |-> WalkTurn(v, walk)]
    BY <1>1, <1>8 DEF Words
  <2>3. walk \in [Y -> Y]
    BY <1>10, <2>1, <2>2
  <2> QED
    BY <1>1, <2>3
<1>14. walk[<< >>] = << >>
  BY <1>5, <1>10 DEF WalkTurn
<1>15. ASSUME NEW ts \in Words, NEW s \in Seq(Unit) PROVE walk[Append(ts, s)] = Gone(walk[ts], s)
  <2>1. Append(ts, s) \in Y
    BY <1>1 DEF Words
  <2>2. Front(Append(ts, s)) = ts /\ Last(Append(ts, s)) = s /\ Append(ts, s) # << >>
    BY FrontMore DEF Words
  <2> QED
    BY <1>10, <2>1, <2>2 DEF WalkTurn
<1> QED
  BY <1>9, <1>13, <1>14, <1>15

(***************************************************************************)
(* The loop walks the segments.                                            *)
(***************************************************************************)
IsLoop(loop) ==
  /\ loop \in [Pairs -> Seq(Unit)]
  /\ \A p \in Pairs : loop[p] = Turn(p[1], p[2], loop)

IsWalk(walk) ==
  /\ walk \in [Words -> Words] /\ walk[<< >>] = << >>
  /\ \A ts \in Words, s \in Seq(Unit) : walk[Append(ts, s)] = Gone(walk[ts], s)

\* Where a walk ends: after a dot segment in a directory.
EndOf(walk, ss) == IF Last(ss) \in Dots THEN Append(walk[ss], << >>) ELSE walk[ss]

\* From an output that the segments pre lead to, the loop gets where the walk
\* gets with those of the input.
Leads(loop, walk, in, out, pre) ==
  /\ Rooted(loop[<<in, out>>])
  /\ SegmentsOf(loop[<<in, out>>]) = EndOf(walk, pre \o SegmentsOf(in))

AllLead(loop, walk, in) ==
  \A out \in Seq(Unit), pre \in Words :
    IsPath(out) /\ walk[pre] = SegmentsOf(out) => Leads(loop, walk, in, out, pre)

\* One turn further, the walk has gone one segment.
LEMMA OneFurther ==
  ASSUME NEW loop, NEW walk, IsWalk(walk), NEW in, Rooted(in), NEW pre \in Words,
         NEW out \in Seq(Unit), walk[pre] = SegmentsOf(out)
  PROVE  LET s == FirstOfPath(in)
             rest == RestOfPath(in)
         IN /\ Append(pre, s) \in Words
            /\ walk[Append(pre, s)] = Gone(SegmentsOf(out), s)
            /\ pre \o SegmentsOf(in) = Append(pre, s) \o SegmentsOf(rest)
            /\ rest = << >> => pre \o SegmentsOf(in) = Append(pre, s)
            /\ Last(Append(pre, s)) = s
            /\ NoSlash(s) /\ rest \in Seq(Unit) /\ IsPath(rest) /\ Len(rest) < Len(in)
<1> DEFINE s == FirstOfPath(in)
           rest == RestOfPath(in)
<1>1. in \in Seq(Unit) /\ in # << >>
  BY DEF Rooted
<1>2. NoSlash(s) /\ rest \in Seq(Unit) /\ IsPath(rest) /\ Len(rest) < Len(in) /\ s \in Seq(Unit)
  BY <1>1, FirstRest DEF NoSlash
<1>3. SegmentsOf(in) = <<s>> \o SegmentsOf(rest) /\ (rest = << >> => SegmentsOf(rest) = << >>)
  BY <1>1, <1>2, SegmentsTurn
<1> HIDE DEF s, rest
<1>4. <<s>> \in Words /\ SegmentsOf(rest) \in Words
  BY <1>2, OneIs, SegmentsTurn DEF Words
<1>5. Append(pre, s) = pre \o <<s>> /\ Append(pre, s) \in Words /\ Last(Append(pre, s)) = s
  <2>1. pre \in Seq(Seq(Unit))
    BY DEF Words
  <2>2. Append(pre, s) = pre \o <<s>>
    BY <1>2, <2>1, AppendIsConcat
  <2>3. Append(pre, s) \in Seq(Seq(Unit))
    BY <1>2, <2>1
  <2>4. Last(Append(pre, s)) = s
    BY <1>2, <2>1, FrontMore
  <2> QED
    BY <2>2, <2>3, <2>4 DEF Words
<1>6. (pre \o <<s>>) \o SegmentsOf(rest) = pre \o (<<s>> \o SegmentsOf(rest))
  BY <1>4, WordsJoin
<1>7. pre \o SegmentsOf(in) = Append(pre, s) \o SegmentsOf(rest)
  BY <1>3, <1>5, <1>6
<1>8. Append(pre, s) \o << >> = Append(pre, s)
  BY <1>5, ConcatEmptySeq DEF Words
<1>9. walk[Append(pre, s)] = Gone(SegmentsOf(out), s)
  BY <1>2 DEF IsWalk
<1> QED
  BY <1>2, <1>3, <1>5, <1>7, <1>8, <1>9 DEF s, rest

\* A path that gets a slash.
LEMMA SlashMore ==
  ASSUME NEW a \in Seq(Unit), IsPath(a)
  PROVE  Rooted(Append(a, "/")) /\ SegmentsOf(Append(a, "/")) = Append(SegmentsOf(a), << >>)
<1>1. PICK none : none = << >>
  OBVIOUS
<1>2. NoSlash(none) /\ none \in Seq(Unit)
  <2>1. << >> \in Seq(Unit) /\ Len(<< >>) = 0
    BY EmptySeq
  <2> QED
    BY <1>1, <2>1 DEF NoSlash
<1>3. Append(a, "/") = a \o (<<"/">> \o none)
  <2>1. PICK one \in Seq(Unit) : one = <<"/">>
    BY UnitIs, OneIs
  <2>2. one \o none = one
    BY <1>1, ConcatEmptySeq
  <2>3. Append(a, "/") = a \o <<"/">>
    BY UnitIs, AppendIsConcat
  <2> QED
    BY <2>1, <2>2, <2>3
<1>4. /\ Rooted(a \o (<<"/">> \o none))
      /\ SegmentsOf(a \o (<<"/">> \o none)) = Append(SegmentsOf(a), none)
  BY <1>2, SegmentsMore
<1> QED
  BY <1>1, <1>3, <1>4

LEMMA LeadOn ==
  ASSUME NEW loop, IsLoop(loop), NEW walk, IsWalk(walk), NEW in, Rooted(in),
         Rooted(RestOfPath(in)) => AllLead(loop, walk, RestOfPath(in))
  PROVE  AllLead(loop, walk, in)
<1>1. SUFFICES ASSUME NEW out \in Seq(Unit), NEW pre \in Words, IsPath(out), walk[pre] = SegmentsOf(out)
               PROVE  Leads(loop, walk, in, out, pre)
  BY DEF AllLead
<1>2. PICK s : s = FirstOfPath(in)
  OBVIOUS
<1>3. PICK rest : rest = RestOfPath(in)
  OBVIOUS
<1>4. PICK next : next = Append(pre, s)
  OBVIOUS
<1>5. /\ next \in Words /\ walk[next] = Gone(SegmentsOf(out), s) /\ Last(next) = s
      /\ pre \o SegmentsOf(in) = next \o SegmentsOf(rest)
      /\ rest = << >> => pre \o SegmentsOf(in) = next
      /\ NoSlash(s) /\ rest \in Seq(Unit) /\ IsPath(rest) /\ Len(rest) < Len(in)
  <2>1. LET first == FirstOfPath(in)
            left == RestOfPath(in)
        IN /\ Append(pre, first) \in Words
           /\ walk[Append(pre, first)] = Gone(SegmentsOf(out), first)
           /\ pre \o SegmentsOf(in) = Append(pre, first) \o SegmentsOf(left)
           /\ left = << >> => pre \o SegmentsOf(in) = Append(pre, first)
           /\ Last(Append(pre, first)) = first
           /\ NoSlash(first) /\ left \in Seq(Unit) /\ IsPath(left) /\ Len(left) < Len(in)
    BY <1>1, OneFurther, Zenon
  <2> QED
    BY <1>2, <1>3, <1>4, <2>1, Zenon
<1>6. s \in Seq(Unit) /\ in \in Seq(Unit) /\ SegmentsOf(out) \in Words
  BY <1>1, <1>5, SegmentsTurn DEF NoSlash, Rooted
<1>7. loop[<<in, out>>] = Turn(in, out, loop)
  <2>1. <<in, out>> \in Pairs /\ <<in, out>>[1] = in /\ <<in, out>>[2] = out
    BY <1>1, <1>6 DEF Pairs
  <2> QED
    BY <2>1 DEF IsLoop
<1>8. /\ s = <<".">> /\ rest # << >> => Turn(in, out, loop) = loop[<<rest, out>>]
      /\ s = <<".">> /\ rest = << >> => Turn(in, out, loop) = Append(out, "/")
      /\ s = <<".", ".">> /\ rest # << >> => Turn(in, out, loop) = loop[<<rest, Pop(out)>>]
      /\ s = <<".", ".">> /\ rest = << >> => Turn(in, out, loop) = Append(Pop(out), "/")
      /\ s \notin Dots => Turn(in, out, loop) = loop[<<rest, out \o (<<"/">> \o s)>>]
  <2>1. LET first == FirstOfPath(in)
            left == RestOfPath(in)
        IN /\ first = <<".">> /\ left # << >> => Turn(in, out, loop) = loop[<<left, out>>]
           /\ first = <<".">> /\ left = << >> => Turn(in, out, loop) = Append(out, "/")
           /\ first = <<".", ".">> /\ left # << >> => Turn(in, out, loop) = loop[<<left, Pop(out)>>]
           /\ first = <<".", ".">> /\ left = << >> => Turn(in, out, loop) = Append(Pop(out), "/")
           /\ first \notin Dots => Turn(in, out, loop) = loop[<<left, out \o (<<"/">> \o first)>>]
    BY RootedTurn, Zenon
  <2> QED
    BY <1>2, <1>3, <2>1
\* With input left, the next turns go on from what this one gave.
<1>9. ASSUME NEW to \in Seq(Unit), IsPath(to), SegmentsOf(to) = Gone(SegmentsOf(out), s),
             rest # << >>, Turn(in, out, loop) = loop[<<rest, to>>]
      PROVE  Leads(loop, walk, in, out, pre)
  <2>1. Rooted(rest)
    BY <1>5, <1>9 DEF IsPath
  <2>2. AllLead(loop, walk, rest)
    BY <1>3, <2>1
  <2>3. Leads(loop, walk, rest, to, next)
    BY <1>5, <1>9, <2>2 DEF AllLead
  <2> QED
    BY <1>5, <1>7, <1>9, <2>3 DEF Leads
\* Without, this one is the last.
<1>10. ASSUME NEW to, Rooted(to), rest = << >>, Turn(in, out, loop) = to,
              SegmentsOf(to) = IF s \in Dots THEN Append(Gone(SegmentsOf(out), s), << >>)
                               ELSE Gone(SegmentsOf(out), s)
       PROVE  Leads(loop, walk, in, out, pre)
  BY <1>5, <1>7, <1>10 DEF Leads, EndOf
<1>11. CASE s = <<".">>
  <2>1. Gone(SegmentsOf(out), s) = SegmentsOf(out)
    BY <1>6, <1>11, GoneIs
  <2>2. CASE rest # << >>
    BY <1>1, <1>8, <1>9, <1>11, <2>1, <2>2
  <2>3. CASE rest = << >>
    <3>1. Rooted(Append(out, "/")) /\ SegmentsOf(Append(out, "/")) = Append(SegmentsOf(out), << >>)
      BY <1>1, SlashMore
    <3>2. s \in Dots
      BY <1>11 DEF Dots
    <3> QED
      BY <1>8, <1>10, <1>11, <2>1, <2>3, <3>1, <3>2
  <2> QED
    BY <2>2, <2>3
<1>12. CASE s = <<".", ".">>
  <2>1. IsPath(Pop(out)) /\ Pop(out) \in Seq(Unit) /\ SegmentsOf(Pop(out)) = Gone(SegmentsOf(out), s)
    BY <1>1, <1>12, PopSegments
  <2>2. CASE rest # << >>
    BY <1>8, <1>9, <1>12, <2>1, <2>2
  <2>3. CASE rest = << >>
    <3>1. /\ Rooted(Append(Pop(out), "/"))
          /\ SegmentsOf(Append(Pop(out), "/")) = Append(SegmentsOf(Pop(out)), << >>)
      BY <2>1, SlashMore
    <3>2. s \in Dots
      BY <1>12 DEF Dots
    <3> QED
      BY <1>8, <1>10, <1>12, <2>1, <2>3, <3>1, <3>2
  <2> QED
    BY <2>2, <2>3
<1>13. CASE s \notin Dots
  <2>1. PICK to : to = out \o (<<"/">> \o s)
    OBVIOUS
  <2>2. Rooted(to) /\ SegmentsOf(to) = Gone(SegmentsOf(out), s)
    <3>1. Rooted(to) /\ SegmentsOf(to) = Append(SegmentsOf(out), s)
      BY <1>1, <1>5, <2>1, SegmentsMore
    <3> QED
      BY <1>6, <1>13, <3>1, GoneIs
  <2>3. to \in Seq(Unit) /\ IsPath(to) /\ Turn(in, out, loop) = loop[<<rest, to>>]
    BY <1>8, <1>13, <2>1, <2>2 DEF Rooted, IsPath
  <2>4. CASE rest # << >>
    BY <1>9, <2>2, <2>3, <2>4
  <2>5. CASE rest = << >>
    <3>1. loop[<<rest, to>>] = Turn(rest, to, loop)
      <4>1. <<rest, to>> \in Pairs /\ <<rest, to>>[1] = rest /\ <<rest, to>>[2] = to
        BY <1>5, <2>3 DEF Pairs
      <4> QED
        BY <4>1 DEF IsLoop
    <3>2. Turn(rest, to, loop) = to
      <4>1. Empties(rest)
        BY <2>5 DEF Empties
      <4> QED
        BY <1>5, <4>1, TurnGoes
    <3> QED
      BY <1>10, <1>13, <2>2, <2>3, <2>5, <3>1, <3>2
  <2> QED
    BY <2>4, <2>5
<1> QED
  BY <1>11, <1>12, <1>13 DEF Dots

\* What the loop makes of a path is what its segments lead to.
LEMMA Resolved ==
  ASSUME NEW path, Rooted(path)
  PROVE  /\ Rooted(RemoveDotSegments(path))
         /\ SegmentsOf(RemoveDotSegments(path)) = Walked(SegmentsOf(path))
<1>1. PICK loop : IsLoop(loop) /\ \A w : RemoveDotSegments(w) = loop[<<w, << >>>>]
  BY LoopIs DEF IsLoop
<1>2. PICK walk : IsWalk(walk) /\ \A ss : Walked(ss) = EndOf(walk, ss)
  BY WalkIs DEF IsWalk, EndOf
<1>3. PICK Y : Y = Seq(Unit)
  OBVIOUS
<1> DEFINE size == [v \in Y |-> Len(v)]
           Q == {v \in Y : Rooted(v) => AllLead(loop, walk, v)}
<1>4. size \in [Y -> Nat] /\ \A v \in Y : size[v] = Len(v)
  BY <1>3
<1>5. ASSUME NEW v \in Y, \A u \in Y : size[u] < size[v] => u \in Q
      PROVE  v \in Q
  <2>1. SUFFICES ASSUME Rooted(v) PROVE AllLead(loop, walk, v)
    OBVIOUS
  <2>2. RestOfPath(v) \in Y /\ Len(RestOfPath(v)) < Len(v)
    <3>1. v \in Seq(Unit) /\ v # << >> /\ Len(v) \in Nat
      BY <2>1 DEF Rooted
    <3> QED
      BY <1>3, <3>1, FirstRest
  <2>3. RestOfPath(v) \in Q
    <3> HIDE DEF Q, size
    <3> QED
      BY <1>4, <1>5, <2>2
  <2>4. Rooted(RestOfPath(v)) => AllLead(loop, walk, RestOfPath(v))
    BY <2>3
  <2> QED
    BY <1>1, <1>2, <2>1, <2>4, LeadOn
<1>6. Q = Y
  <2>1. Q \in SUBSET Y
    OBVIOUS
  <2> HIDE DEF Q, size
  <2>2. Inherited(Y, size, Q)
    BY <1>4, <1>5, <2>1 DEF Inherited
  <2> QED
    BY <2>2, BySize
<1>7. AllLead(loop, walk, path) /\ path \in Seq(Unit)
  BY <1>3, <1>6 DEF Rooted
<1>8. Leads(loop, walk, path, << >>, << >>)
  <2>1. << >> \in Seq(Unit) /\ << >> \in Words /\ IsPath(<< >>)
    BY EmptySeq DEF Words, IsPath
  <2>2. walk[<< >>] = SegmentsOf(<< >>)
    BY <1>2, <2>1, SegmentsTurn DEF IsWalk
  <2> QED
    BY <1>7, <2>1, <2>2 DEF AllLead
<1>9. << >> \o SegmentsOf(path) = SegmentsOf(path)
  BY <1>7, SegmentsTurn, ConcatEmptySeq DEF Words
<1> QED
  BY <1>1, <1>2, <1>8, <1>9 DEF Leads

(***************************************************************************)
(* The text of an href.                                                    *)
(***************************************************************************)
\* The stand-in of a character of ASCII is a unit of one or two bytes.
LEMMA OtherAsciiIs ==
  ASSUME NEW code
  PROVE  OtherAscii(code) \in Unit /\ Width(OtherAscii(code)) \in 1..2
<1>1. OtherAscii(code) \in {"^", BadTriplet, "+", "A", "x", "~"}
  BY Zenon DEF OtherAscii
<1>2. {"^", BadTriplet, "+", "A", "x", "~"} \in SUBSET Unit
  BY Zenon DEF Unit, Refused, Punctuation, Alpha
<1>3. \A c \in {"^", BadTriplet, "+", "A", "x", "~"} : c \notin Triplet
  BY DEF Triplet, BadTriplet
<1>4. \A c \in {"^", BadTriplet, "+", "A", "x", "~"} : Width(c) \in 1..2
  BY <1>3 DEF Width
<1> QED
  BY <1>1, <1>2, <1>4

LEMMA Utf8Is ==
  ASSUME NEW code
  PROVE  Utf8(code) \in Seq(Unit)
<1>1. NonAscii \in Unit
  BY Zenon DEF Unit
<1> DEFINE long == [i \in 1..(IF code < 2048 THEN 2 ELSE IF code < 65536 THEN 3 ELSE 4) |-> NonAscii]
<1>2. long \in Seq(Unit)
  <2>1. PICK n \in Nat : n = IF code < 2048 THEN 2 ELSE IF code < 65536 THEN 3 ELSE 4
    OBVIOUS
  <2>2. long = [i \in 1..n |-> NonAscii]
    BY <2>1
  <2> HIDE DEF long
  <2> QED
    BY <1>1, <2>2
<1>3. CASE ~(code < 128)
  BY <1>2, <1>3 DEF Utf8
<1>4. CASE code < 128 /\ \E c \in Unit : Stands(c, code)
  <2>1. PICK c \in Unit : c = CHOOSE d \in Unit : Stands(d, code)
    BY <1>4
  <2>2. Utf8(code) = <<c>>
    BY <1>4, <2>1 DEF Utf8
  <2> QED
    BY <2>2, OneIs
<1>5. CASE code < 128 /\ ~\E c \in Unit : Stands(c, code)
  <2>1. Utf8(code) = <<OtherAscii(code)>>
    BY <1>5 DEF Utf8
  <2>2. PICK c \in Unit : c = OtherAscii(code)
    BY OtherAsciiIs
  <2> QED
    BY <2>1, <2>2, OneIs
<1> QED
  BY <1>3, <1>4, <1>5

LEMMA RunIs ==
  ASSUME NEW in \in Seq(Unit), ~(Len(in) < 3), NEW p \in 2..4, NEW units
  PROVE  Run(in, p, units) \in Seq(Unit)
<1>1. p \in 1..(Len(in) + 1) /\ Len(in) \in (p - 1)..Len(in)
  OBVIOUS
<1>2. SubSeq(in, p, Len(in)) \in Seq(Unit)
  BY <1>1, PartIs
<1> QED
  BY <1>2, UntilIs DEF Run

LEMMA ReferenceIs ==
  ASSUME NEW in \in Seq(Unit)
  PROVE  Reference(in).length \in Nat
<1>1. NoReference.length \in Nat
  BY DEF NoReference
<1>2. CASE Len(in) < 3
  BY <1>1, <1>2 DEF Reference
<1>3. CASE ~(Len(in) < 3)
  <2>1. ASSUME NEW p \in 2..4, NEW units PROVE Len(Run(in, p, units)) \in Nat
    <3>1. Run(in, p, units) \in Seq(Unit)
      BY <1>3, RunIs
    <3> QED
      BY <3>1
  <2>2. ASSUME NEW p \in 2..4, NEW digits, NEW radix, NEW most
        PROVE  NumericReference(in, p, digits, radix, most).length \in Nat
    <3>1. Len(Run(in, p, digits)) \in Nat
      BY <2>1
    <3>2. p + Len(Run(in, p, digits)) \in Nat
      BY <3>1
    <3> QED
      BY <1>1, <3>2 DEF NumericReference
  <2>3. NamedReference(in).length \in Nat
    <3>1. Len(Run(in, 2, Alnum)) \in Nat
      BY <2>1
    <3>2. 2 + Len(Run(in, 2, Alnum)) \in Nat
      BY <3>1
    <3> QED
      BY <1>1, <3>2 DEF NamedReference
  <2>4. \/ Reference(in) = NumericReference(in, 4, DOMAIN HexValue, 16, MaxHexDigits)
        \/ Reference(in) = NumericReference(in, 3, Digit, 10, MaxDecimals)
        \/ Reference(in) = NamedReference(in)
    BY <1>3, Zenon DEF Reference
  <2> QED
    BY <2>2, <2>3, <2>4
<1> QED
  BY <1>2, <1>3

\* What stands at the beginning is a reference to a character.
Refers(in) == in[1] = "&" /\ Reference(in).length > 0 /\ Reference(in).code # Invalid

\* One turn of reading an href.
ReadTurn(in, text) ==
  IF in = << >> THEN << >>
  ELSE IF in[1] = "&" /\ Reference(in).length > 0 /\ Reference(in).code # Invalid
    THEN Utf8(Reference(in).code) \o text[SubSeq(in, Reference(in).length + 1, Len(in))]
  ELSE <<in[1]>> \o text[Tail(in)]

\* A turn has the answer, or puts some units before one with less input.
LEMMA ReadIs ==
  ASSUME NEW in \in Seq(Unit)
  PROVE  \/ \A f : ReadTurn(in, f) = << >>
         \/ \E u, v \in Seq(Unit) : Len(u) < Len(in) /\ \A f : ReadTurn(in, f) = v \o f[u]
<1>1. CASE in = << >>
  BY <1>1 DEF ReadTurn
<1>2. CASE in # << >> /\ in[1] = "&" /\ Reference(in).length > 0 /\ Reference(in).code # Invalid
  <2>1. PICK n \in Nat : n = Reference(in).length /\ n > 0
    BY <1>2, ReferenceIs
  <2>2. PICK v \in Seq(Unit) : v = Utf8(Reference(in).code)
    BY Utf8Is
  <2>3. Len(in) \in Nat \ {0}
    BY <1>2, EmptySeq
  <2>4. SubSeq(in, n + 1, Len(in)) \in Seq(Unit) /\ Len(SubSeq(in, n + 1, Len(in))) < Len(in)
    <3>1. \A i \in (n + 1)..Len(in) : in[i] \in Unit
      BY <2>3
    <3>2. /\ SubSeq(in, n + 1, Len(in)) \in Seq(Unit)
          /\ Len(SubSeq(in, n + 1, Len(in))) = IF n + 1 <= Len(in) THEN Len(in) - (n + 1) + 1 ELSE 0
      BY <2>3, <3>1, SubSeqProperties
    <3> QED
      BY <2>1, <2>3, <3>2
  <2>5. \A f : ReadTurn(in, f) = v \o f[SubSeq(in, n + 1, Len(in))]
    BY <1>2, <2>1, <2>2 DEF ReadTurn
  <2> QED
    BY <2>4, <2>5
<1>3. CASE in # << >> /\ ~(in[1] = "&" /\ Reference(in).length > 0 /\ Reference(in).code # Invalid)
  <2>1. Len(in) \in Nat \ {0}
    BY <1>3, EmptySeq
  <2>2. Tail(in) \in Seq(Unit) /\ Len(Tail(in)) < Len(in)
    BY <1>3, <2>1, HeadTailProperties
  <2>3. PICK v \in Seq(Unit) : v = <<in[1]>>
    <3>1. in[1] \in Unit
      BY <2>1
    <3> QED
      BY <3>1, OneIs
  <2>4. \A f : ReadTurn(in, f) = v \o f[Tail(in)]
    BY <1>3, <2>3 DEF ReadTurn
  <2> QED
    BY <2>2, <2>4
<1> QED
  BY <1>1, <1>2, <1>3

LEMMA HrefTurn ==
  ASSUME NEW w \in Seq(Unit)
  PROVE  /\ HrefText(w) \in Seq(Unit)
         /\ w = << >> => HrefText(w) = << >>
         /\ w # << >> /\ Refers(w) =>
              HrefText(w) = Utf8(Reference(w).code) \o HrefText(SubSeq(w, Reference(w).length + 1, Len(w)))
         /\ w # << >> /\ ~Refers(w) => HrefText(w) = <<w[1]>> \o HrefText(Tail(w))
<1>1. PICK Y : Y = Seq(Unit)
  OBVIOUS
<1>2. \A u, v \in Y : u \o v \in Y
  BY <1>1, ConcatProperties
<1>3. << >> \in Y
  BY <1>1, EmptySeq
<1> DEFINE size == [v \in Y |-> Len(v)]
           step == [f \in [Y -> Y] |-> [v \in Y |-> ReadTurn(v, f)]]
           text == CHOOSE f : f = [in \in Seq(Unit) |-> ReadTurn(in, f)]
<1>4. size \in [Y -> Nat] /\ \A v \in Y : size[v] = Len(v)
  BY <1>1
<1> HIDE DEF size
<1>5. \A in \in Y : \/ \A f : ReadTurn(in, f) = << >>
                    \/ \E u, v \in Y : Len(u) < Len(in) /\ \A f : ReadTurn(in, f) = v \o f[u]
  BY <1>1, ReadIs
<1>6. step \in [[Y -> Y] -> [Y -> Y]]
  <2>1. ASSUME NEW f \in [Y -> Y], NEW in \in Y PROVE ReadTurn(in, f) \in Y
    <3>1. CASE \A g : ReadTurn(in, g) = << >>
      BY <1>3, <3>1
    <3>2. CASE \E u, v \in Y : Len(u) < Len(in) /\ \A g : ReadTurn(in, g) = v \o g[u]
      <4>1. PICK u \in Y, v \in Y : \A g : ReadTurn(in, g) = v \o g[u]
        BY <3>2
      <4>2. f[u] \in Y
        OBVIOUS
      <4> QED
        BY <1>2, <4>1, <4>2
    <3> QED
      BY <1>5, <3>1, <3>2
  <2> QED
    BY <2>1
<1>7. ASSUME NEW f \in [Y -> Y], NEW g \in [Y -> Y], NEW in \in Y,
             \A u \in Y : size[u] < size[in] => f[u] = g[u]
      PROVE  step[f][in] = step[g][in]
  <2>1. ReadTurn(in, f) = ReadTurn(in, g)
    <3>1. CASE \A h : ReadTurn(in, h) = << >>
      BY <3>1
    <3>2. CASE \E u, v \in Y : Len(u) < Len(in) /\ \A h : ReadTurn(in, h) = v \o h[u]
      <4>1. PICK u \in Y, v \in Y : Len(u) < Len(in) /\ \A h : ReadTurn(in, h) = v \o h[u]
        BY <3>2
      <4>2. f[u] = g[u]
        BY <1>4, <1>7, <4>1
      <4> QED
        BY <4>1, <4>2
    <3> QED
      BY <1>5, <3>1, <3>2
  <2> QED
    BY <2>1
<1>8. PICK f \in [Y -> Y] : f = step[f]
  <2> HIDE DEF step
  <2>1. Y # {}
    BY <1>3
  <2>2. Founded(Y, Y, size, step)
    BY <1>4, <1>6, <1>7, <2>1 DEF Founded
  <2> QED
    BY <2>2, Recursion
<1>9. f = [in \in Seq(Unit) |-> ReadTurn(in, f)]
  BY <1>1, <1>8
<1>10. text = [in \in Seq(Unit) |-> ReadTurn(in, text)]
  <2> HIDE DEF step
  <2> QED
    BY <1>9
<1>11. \A v : HrefText(v) = text[v]
  BY DEF HrefText, ReadTurn
<1> HIDE DEF text, step
<1> DEFINE Q == {v \in Y : text[v] \in Y}
<1>12. ASSUME NEW in \in Y, \A u \in Y : size[u] < size[in] => u \in Q
       PROVE  in \in Q
  <2>1. text[in] = ReadTurn(in, text)
    BY <1>1, <1>10
  <2>2. CASE \A g : ReadTurn(in, g) = << >>
    BY <1>3, <2>1, <2>2
  <2>3. CASE \E u, v \in Y : Len(u) < Len(in) /\ \A g : ReadTurn(in, g) = v \o g[u]
    <3>1. PICK u \in Y, v \in Y : Len(u) < Len(in) /\ \A g : ReadTurn(in, g) = v \o g[u]
      BY <2>3
    <3>2. text[u] \in Y
      BY <1>4, <1>12, <3>1
    <3> QED
      BY <1>2, <2>1, <3>1, <3>2
  <2> QED
    BY <1>5, <2>2, <2>3
<1>13. Q = Y
  <2>1. Q \in SUBSET Y
    OBVIOUS
  <2> HIDE DEF Q
  <2>2. Inherited(Y, size, Q)
    BY <1>4, <1>12, <2>1 DEF Inherited
  <2> QED
    BY <2>2, BySize
<1>14. text[w] = ReadTurn(w, text)
  BY <1>10
<1>15. HrefText(w) \in Seq(Unit)
  BY <1>1, <1>11, <1>13
<1> QED
  BY <1>11, <1>14, <1>15 DEF ReadTurn, Refers

LEMMA HrefIs ==
  ASSUME NEW w \in Seq(Unit)
  PROVE  HrefText(w) \in Seq(Unit)
BY HrefTurn

(***************************************************************************)
(* The path of a parsed URL.                                               *)
(***************************************************************************)
LEMMA RemovedIs ==
  ASSUME NEW path \in Seq(Unit)
  PROVE  RemoveDotSegments(path) \in Seq(Unit)
<1>1. PICK loop \in [Pairs -> Seq(Unit)] : \A w : RemoveDotSegments(w) = loop[<<w, << >>>>]
  BY LoopIs
<1>2. <<path, << >>>> \in Pairs
  BY EmptySeq DEF Pairs
<1> QED
  BY <1>1, <1>2

LEMMA UpToIs ==
  ASSUME NEW w \in Seq(Unit)
  PROVE  UpTo(w, LastSlash(w)) \in Seq(Unit)
<1> DEFINE k == LastOf(w, {"/"})
<1>1. k \in 0..Len(w) /\ Len(w) \in Nat
  <2>1. LastOf(w, {"/"}) \in 0..Len(w)
    BY LastIs
  <2> QED
    BY <2>1
<1>2. UpTo(w, LastSlash(w)) = SubSeq(w, 1, k)
  <2>1. LastSlash(w) = k
    BY DEF LastSlash, LastOf
  <2> QED
    BY <2>1 DEF UpTo
<1> HIDE DEF k
<1>3. 1 \in 1..(Len(w) + 1) /\ k \in (1 - 1)..Len(w)
  BY <1>1
<1> QED
  BY <1>2, <1>3, PartIs

LEMMA FinishedIs ==
  ASSUME NEW t, NEW warnings
  PROVE  /\ Finished(t, warnings).url.path = IF t.has_authority /\ t.path = << >> THEN <<"/">> ELSE t.path
         /\ Finished(t, warnings).url.has_authority = t.has_authority
BY DEF Finished

LEMMA AbsoluteIs ==
  ASSUME NEW c, NEW warnings, NEW r, r = Raw(c)
  PROVE  LET url == Absolute(r, warnings).url
             path == RemoveDotSegments(r.path)
         IN /\ url.path = IF r.has_authority /\ path = << >> THEN <<"/">> ELSE path
            /\ url.has_authority = r.has_authority
<1> DEFINE path == RemoveDotSegments(r.path)
           t == [r EXCEPT !.path = path]
<1>1. t.path = path /\ t.has_authority = r.has_authority
  <2> HIDE DEF path
  <2> QED
    BY DEF Raw
<1>2. Absolute(r, warnings) = Finished(t, warnings \cup DotWarning(r.path, path))
  BY DEF Absolute
<1> HIDE DEF t, path
<1>3. \A w : /\ Finished(t, w).url.path = IF t.has_authority /\ t.path = << >> THEN <<"/">> ELSE t.path
             /\ Finished(t, w).url.has_authority = t.has_authority
  BY FinishedIs
<1> QED
  BY <1>1, <1>2, <1>3 DEF path

LEMMA TransformedIs ==
  ASSUME NEW c, NEW base, NEW r, r = Raw(c)
  PROVE  LET t == Transformed(base, r)
         IN /\ t.path = IF KeepsPath(r) THEN base.path ELSE RemoveDotSegments(JoinedPath(base, r))
            /\ t.has_authority = (IF r.has_authority THEN r ELSE base).has_authority
<1>1. PICK path : path = IF KeepsPath(r) THEN base.path ELSE RemoveDotSegments(JoinedPath(base, r))
  OBVIOUS
<1> QED
  BY <1>1 DEF Transformed, Raw

LEMMA RelativeIs ==
  ASSUME NEW c, NEW base, NEW warnings, NEW r, r = Raw(c),
         Relative(r, base, warnings).status = "OK"
  PROVE  LET url == Relative(r, base, warnings).url
             path == IF KeepsPath(r) THEN base.path ELSE RemoveDotSegments(JoinedPath(base, r))
             home == (IF r.has_authority THEN r ELSE base).has_authority
         IN /\ url.path = IF home /\ path = << >> THEN <<"/">> ELSE path
            /\ url.has_authority = home
<1> DEFINE path == IF KeepsPath(r) THEN base.path ELSE RemoveDotSegments(JoinedPath(base, r))
           home == (IF r.has_authority THEN r ELSE base).has_authority
           t == Transformed(base, r)
<1>1. t.path = path /\ t.has_authority = home
  BY TransformedIs
<1>2. \E w : Relative(r, base, warnings) = Finished(t, w)
  <2>1. Failed("OVERFLOW").status # "OK"
    BY DEF Failed
  <2> QED
    BY <2>1 DEF Relative
<1> HIDE DEF t, path, home
<1>3. \A w : /\ Finished(t, w).url.path = IF t.has_authority /\ t.path = << >> THEN <<"/">> ELSE t.path
             /\ Finished(t, w).url.has_authority = t.has_authority
  BY FinishedIs
<1> QED
  BY <1>1, <1>2, <1>3 DEF path, home

LEMMA BaseRawIs ==
  ASSUME NEW b
  PROVE  /\ BaseRaw(b).path = RemoveDotSegments(Raw(b).path)
         /\ BaseRaw(b).has_authority = Raw(b).has_authority
<1>1. PICK path : path = RemoveDotSegments(Raw(b).path)
  OBVIOUS
<1>2. BaseRaw(b) = [Raw(b) EXCEPT !.path = path]
  BY <1>1 DEF BaseRaw
<1> QED
  BY <1>1, <1>2 DEF Raw

\* What is parsed comes of a reference alone, or of one and its base.
LEMMA ParseIs ==
  ASSUME NEW w, NEW base, Parse(w, base).status = "OK"
  PROVE  \/ Split(w).has_scheme /\ Parse(w, base) = Absolute(Raw(Split(w)), RawWarnings(Split(w)))
         \/ /\ ~Split(w).has_scheme /\ base # NoBase
            /\ Parse(w, base) = Relative(Raw(Split(w)), BaseRaw(Split(base)), RawWarnings(Split(w)))
<1>1. \A code : Failed(code).status = code
  BY DEF Failed
<1>2. base = NoBase => BaseError(base, Split(base)) # "OK"
  <2> SUFFICES ASSUME base = NoBase PROVE BaseError(base, Split(base)) # "OK"
    OBVIOUS
  <2> DEFINE b == Split(base)
             two == RawError(b)
             three == IF b.has_scheme THEN ComponentsError(b) ELSE "BASE"
  <2>1. BaseError(base, b) = FirstOf(<<"BASE", two, three>>)
    BY DEF BaseError
  <2> HIDE DEF two, three, b
  <2>2. PICK codes : codes = <<"BASE", two, three>>
    OBVIOUS
  <2>3. Len(codes) = 3 /\ codes[1] = "BASE"
    BY <2>2
  <2> DEFINE I == {i \in 1..Len(codes) : codes[i] # "OK"}
             k == SelectInSeq(codes, LAMBDA c : c # "OK")
  <2>4. k = IF I # {} THEN Min(I) ELSE 0
    BY DEF SelectInSeq
  <2>5. I \in SUBSET Nat /\ 1 \in I
    BY <2>3
  <2>6. \A i \in I : codes[i] # "OK"
    OBVIOUS
  <2>7. \A i \in I : i # 0
    BY <2>3
  <2>8. FirstOf(codes) = IF k = 0 THEN "OK" ELSE codes[k]
    BY DEF FirstOf
  <2> HIDE DEF I, k
  <2>9. k \in I
    BY <2>4, <2>5, MinIs
  <2> QED
    BY <2>1, <2>2, <2>6, <2>7, <2>8, <2>9 DEF b
<1> QED
  BY <1>1, <1>2 DEF Parse, ParseSplit

LEMMA RootedIs ==
  ASSUME NEW w \in Seq(Unit)
  PROVE  Starts(w, <<"/">>) <=> Rooted(w)
<1>1. Starts(w, <<"/">>) <=> Len(w) >= 1 /\ w[1] = "/"
  BY UnitIs, SingleIs
<1>2. w # << >> <=> Len(w) # 0
  BY EmptySeq
<1>3. Len(w) \in Nat
  OBVIOUS
<1> QED
  BY <1>1, <1>2, <1>3 DEF Rooted

LEMMA JoinedIs ==
  ASSUME NEW r, r.path \in Seq(Unit), NEW base, base.path \in Seq(Unit)
  PROVE  JoinedPath(base, r) \in Seq(Unit)
<1>1. UpTo(base.path, LastSlash(base.path)) \in Seq(Unit)
  BY UpToIs
<1>2. <<"/">> \in Seq(Unit)
  BY UnitIs, OneIs
<1>3. <<"/">> \o r.path \in Seq(Unit) /\ UpTo(base.path, LastSlash(base.path)) \o r.path \in Seq(Unit)
  BY <1>1, <1>2, ConcatProperties
<1> QED
  BY <1>3 DEF JoinedPath, Merged

\* The path of a URL is a text.
LEMMA ParsedPath ==
  ASSUME NEW w \in Seq(Unit), NEW base \in Seq(Unit) \cup {NoBase}, Parse(w, base).status = "OK"
  PROVE  Parse(w, base).url.path \in Seq(Unit)
<1>1. PICK r : r = Raw(Split(w))
  OBVIOUS
<1>2. r.path \in Seq(Unit) /\ <<"/">> \in Seq(Unit)
  BY <1>1, RawIs, UnitIs, OneIs
<1>3. CASE Split(w).has_scheme /\ Parse(w, base) = Absolute(r, RawWarnings(Split(w)))
  <2>1. PICK path \in Seq(Unit) : path = RemoveDotSegments(r.path)
    BY <1>2, RemovedIs
  <2>2. Parse(w, base).url.path = IF r.has_authority /\ path = << >> THEN <<"/">> ELSE path
    BY <1>1, <1>3, <2>1, AbsoluteIs
  <2> QED
    BY <1>2, <2>1, <2>2
<1>4. CASE base # NoBase /\ Parse(w, base) = Relative(r, BaseRaw(Split(base)), RawWarnings(Split(w)))
  <2>1. PICK b : b = BaseRaw(Split(base))
    OBVIOUS
  <2>2. b.path \in Seq(Unit)
    <3>1. base \in Seq(Unit)
      BY <1>4
    <3>2. Raw(Split(base)).path \in Seq(Unit)
      BY <3>1, RawIs
    <3> QED
      BY <2>1, <3>2, BaseRawIs, RemovedIs
  <2>3. RemoveDotSegments(JoinedPath(b, r)) \in Seq(Unit)
    BY <1>2, <2>2, JoinedIs, RemovedIs
  <2>4. PICK path \in Seq(Unit) : path = IF KeepsPath(r) THEN b.path ELSE RemoveDotSegments(JoinedPath(b, r))
    BY <2>2, <2>3
  <2>5. Relative(r, b, RawWarnings(Split(w))).status = "OK"
    BY <1>4, <2>1
  <2>6. Parse(w, base).url.path \in {<<"/">>, path}
    BY <1>1, <1>4, <2>1, <2>4, <2>5, RelativeIs
  <2> QED
    BY <1>2, <2>4, <2>6
<1> QED
  BY <1>1, <1>3, <1>4, ParseIs

\* A reference is put in place of the last segment of its base.
LEMMA MergedIs ==
  ASSUME NEW r, r.path \in Seq(Unit), NEW base, Rooted(base.path)
  PROVE  /\ Rooted(Merged(base, r.path))
         /\ SegmentsOf(Merged(base, r.path)) = Front(SegmentsOf(base.path)) \o SegmentsOf(<<"/">> \o r.path)
<1>1. PICK b : b = base.path
  OBVIOUS
<1>2. Rooted(b) /\ b # << >> /\ b \in Seq(Unit)
  BY <1>1 DEF Rooted
<1>3. PICK s : /\ NoSlash(s) /\ IsPath(Pop(b)) /\ Pop(b) \in Seq(Unit)
               /\ b = Pop(b) \o (<<"/">> \o s)
               /\ UpTo(b, LastSlash(b)) = Pop(b) \o <<"/">>
  BY <1>2, PopParts
<1>4. PICK a \in Seq(Unit) : a = Pop(b)
  BY <1>3
<1>5. PICK q : q = <<"/">> \o r.path
  OBVIOUS
<1>6. <<"/">> \in Seq(Unit)
  BY UnitIs, OneIs
<1>7. Rooted(q) /\ q \in Seq(Unit) /\ IsPath(q) /\ q # << >>
  <2>1. q \in Seq(Unit) /\ Len(q) = 1 + Len(r.path) /\ q[1] = "/"
    <3>1. Len(<<"/">>) = 1 /\ <<"/">>[1] = "/" /\ Len(r.path) \in Nat
      OBVIOUS
    <3>2. PICK one \in Seq(Unit) : one = <<"/">> /\ Len(one) = 1 /\ one[1] = "/"
      BY <1>6, <3>1
    <3>3. /\ one \o r.path \in Seq(Unit) /\ Len(one \o r.path) = Len(one) + Len(r.path)
          /\ \A i \in 1..(Len(one) + Len(r.path)) :
               (one \o r.path)[i] = IF i <= Len(one) THEN one[i] ELSE r.path[i - Len(one)]
      BY ConcatProperties
    <3>4. 1 \in 1..(Len(one) + Len(r.path)) /\ 1 <= Len(one)
      BY <3>1, <3>2
    <3> QED
      BY <1>5, <3>2, <3>3, <3>4
  <2>2. q # << >>
    <3>1. Len(q) # 0
      BY <2>1
    <3> QED
      BY <2>1, <3>1, EmptySeq
  <2> QED
    BY <2>1, <2>2 DEF Rooted, IsPath
<1>8. Merged(base, r.path) = a \o q
  <2>1. Merged(base, r.path) = (a \o <<"/">>) \o r.path
    BY <1>1, <1>2, <1>3, <1>4 DEF Merged
  <2>2. PICK one \in Seq(Unit) : one = <<"/">>
    BY <1>6
  <2>3. PICK p \in Seq(Unit) : p = r.path
    OBVIOUS
  <2>4. (a \o one) \o p = a \o (one \o p)
    BY ConcatAssociative
  <2> QED
    BY <1>5, <2>1, <2>2, <2>3, <2>4
<1>9. SegmentsOf(a \o q) = SegmentsOf(a) \o SegmentsOf(q) /\ IsPath(a \o q)
  BY <1>3, <1>4, <1>7, SegmentsJoin
<1>10. a \o q # << >>
  <2>1. Len(a) \in Nat /\ Len(q) \in Nat \ {0} /\ Len(a \o q) = Len(a) + Len(q)
    BY <1>7, EmptySeq, ConcatProperties
  <2>2. Len(a \o q) # 0
    BY <2>1
  <2> QED
    BY <2>2, EmptySeq
<1>11. SegmentsOf(b) = Append(SegmentsOf(a), s)
  BY <1>3, <1>4, SegmentsMore
<1>12. Front(SegmentsOf(b)) = SegmentsOf(a)
  <2>1. SegmentsOf(a) \in Seq(Seq(Unit)) /\ s \in Seq(Unit)
    BY <1>3, SegmentsTurn DEF Words, NoSlash
  <2> QED
    BY <1>11, <2>1, FrontMore
<1> QED
  BY <1>1, <1>5, <1>8, <1>9, <1>10, <1>12 DEF IsPath

\* The path of a URL is where the segments of the reference lead.
LEMMA ParsedSegments ==
  ASSUME NEW w \in Seq(Unit), NEW base \in Seq(Unit) \cup {NoBase}, Parse(w, base).status = "OK",
         NEW r, r = Raw(Split(w)), NEW b, b = Raw(Split(base)),
         Parse(w, base).url.has_authority, r.path # << >>, r.has_scheme \/ Starts(b.path, <<"/">>)
  PROVE  SegmentsOf(Parse(w, base).url.path) = Walked(WantedPath(r, b))
<1>a. r = Raw(Split(w))
  OBVIOUS
<1>1. /\ r.path \in Seq(Unit) /\ (r.has_authority => Rooted(r.path))
      /\ r.has_scheme = Split(w).has_scheme
  <2>1. /\ r.path \in Seq(Unit) /\ (r.has_authority /\ r.path # << >> => Rooted(r.path))
    BY RawIs
  <2>2. r.has_scheme = Split(w).has_scheme
    BY DEF Raw
  <2> QED
    BY <2>1, <2>2
<1>2. ASSUME NEW p, Rooted(p)
      PROVE  /\ RemoveDotSegments(p) # << >> /\ RemoveDotSegments(p) \in Seq(Unit)
             /\ Rooted(RemoveDotSegments(p))
             /\ SegmentsOf(RemoveDotSegments(p)) = Walked(SegmentsOf(p))
  BY <1>2, Resolved DEF Rooted
<1>3. CASE Split(w).has_scheme /\ Parse(w, base) = Absolute(r, RawWarnings(Split(w)))
  <2>1. PICK path : path = RemoveDotSegments(r.path)
    OBVIOUS
  <2>2. /\ Parse(w, base).url.path = IF r.has_authority /\ path = << >> THEN <<"/">> ELSE path
        /\ Parse(w, base).url.has_authority = r.has_authority
    <3>1. LET url == Absolute(r, RawWarnings(Split(w))).url
              removed == RemoveDotSegments(r.path)
          IN /\ url.path = IF r.has_authority /\ removed = << >> THEN <<"/">> ELSE removed
             /\ url.has_authority = r.has_authority
      BY <1>a, AbsoluteIs
    <3> QED
      BY <1>3, <2>1, <3>1
  <2>3. Rooted(r.path)
    BY <1>1, <2>2
  <2>4. path # << >> /\ SegmentsOf(path) = Walked(SegmentsOf(r.path))
    BY <1>2, <2>1, <2>3
  <2>5. Parse(w, base).url.path = path
    BY <2>2, <2>4
  <2>6. WantedPath(r, b) = SegmentsOf(r.path)
    BY <1>1, <1>3 DEF WantedPath
  <2> QED
    BY <2>4, <2>5, <2>6
<1>4. CASE /\ ~Split(w).has_scheme /\ base # NoBase
           /\ Parse(w, base) = Relative(r, BaseRaw(Split(base)), RawWarnings(Split(w)))
  <2>1. PICK home : home = BaseRaw(Split(base))
    OBVIOUS
  <2>2. b.path \in Seq(Unit) /\ Rooted(b.path)
    <3>1. base \in Seq(Unit)
      BY <1>4
    <3>2. b.path \in Seq(Unit)
      BY <3>1, RawIs
    <3> QED
      BY <1>1, <1>4, <3>2, RootedIs
  <2>3. home.path = RemoveDotSegments(b.path) /\ home.has_authority = b.has_authority
    BY <2>1, BaseRawIs
  <2>4. Rooted(home.path) /\ SegmentsOf(home.path) = Walked(SegmentsOf(b.path)) /\ home.path \in Seq(Unit)
    BY <1>2, <2>2, <2>3
  <2>5. ~KeepsPath(r)
    BY DEF KeepsPath
  <2>6. PICK path : path = RemoveDotSegments(JoinedPath(home, r))
    OBVIOUS
  <2>7. Relative(r, home, RawWarnings(Split(w))).status = "OK"
    BY <1>4, <2>1
  <2>8. path # << >> => Parse(w, base).url.path = path
    BY <1>4, <1>a, <2>1, <2>5, <2>6, <2>7, RelativeIs
  <2>9. Rooted(JoinedPath(home, r)) /\ SegmentsOf(JoinedPath(home, r)) = WantedPath(r, b)
    <3>1. CASE r.has_authority \/ Starts(r.path, <<"/">>)
      <4>1. Rooted(r.path)
        BY <1>1, <3>1, RootedIs
      <4>2. JoinedPath(home, r) = r.path /\ WantedPath(r, b) = SegmentsOf(r.path)
        BY <3>1 DEF JoinedPath, WantedPath
      <4> QED
        BY <4>1, <4>2
    <3>2. CASE ~(r.has_authority \/ Starts(r.path, <<"/">>))
      <4>1. JoinedPath(home, r) = Merged(home, r.path)
        BY <3>2 DEF JoinedPath
      <4>2. WantedPath(r, b) = Front(Walked(SegmentsOf(b.path))) \o SegmentsOf(<<"/">> \o r.path)
        BY <1>1, <1>4, <3>2 DEF WantedPath
      <4>3. /\ Rooted(Merged(home, r.path))
            /\ SegmentsOf(Merged(home, r.path)) = Front(SegmentsOf(home.path)) \o SegmentsOf(<<"/">> \o r.path)
        BY <1>1, <2>4, MergedIs
      <4> QED
        BY <2>4, <4>1, <4>2, <4>3
    <3> QED
      BY <3>1, <3>2
  <2>10. path # << >> /\ SegmentsOf(path) = Walked(WantedPath(r, b))
    BY <1>2, <2>6, <2>9
  <2> QED
    BY <2>8, <2>10
<1> QED
  BY <1>3, <1>4, ParseIs

(***************************************************************************)
(* The name of a download.                                                 *)
(***************************************************************************)
LEMMA SpelledIs ==
  ASSUME NEW w \in Seq(Unit)
  PROVE  Spelled(w) \in Seq(Unit \cup {"%", "digit"})
<1>1. PICK S : S = Unit \cup {"%", "digit"}
  OBVIOUS
<1>2. "%" \in S /\ "digit" \in S /\ \A c \in Unit : c \in S
  BY <1>1
<1> DEFINE ws == [i \in DOMAIN w |-> IF w[i] \in Triplet THEN <<"%", "digit", "digit">> ELSE <<w[i]>>]
<1>3. ASSUME NEW i \in 1..Len(w)
      PROVE  (IF w[i] \in Triplet THEN <<"%", "digit", "digit">> ELSE <<w[i]>>) \in Seq(S)
  <2>1. <<"%", "digit", "digit">> \in Seq(S)
    BY <1>2
  <2>2. w[i] \in S
    BY <1>2
  <2> QED
    BY <2>1, <2>2
<1>4. ws \in Seq(Seq(S))
  <2>1. DOMAIN w = 1..Len(w) /\ Len(w) \in Nat
    OBVIOUS
  <2> QED
    BY <1>3, <2>1
<1>5. Spelled(w) = FlattenSeq(ws)
  BY DEF Spelled
<1> HIDE DEF ws
<1> QED
  BY <1>1, <1>4, <1>5, FlattenIs

LEMMA LastSegmentIs ==
  ASSUME NEW url, url.path \in Seq(Unit)
  PROVE  UrlLastSegment(url) \in Seq(Unit \cup {"%", "digit"})
<1>1. PICK p \in Seq(Unit) : p = url.path
  OBVIOUS
<1>2. Len(UpTo(p, LastSlash(p))) \in 0..Len(p)
  <2> DEFINE k == LastOf(p, {"/"})
  <2>1. k \in 0..Len(p)
    BY LastIs
  <2>2. LastSlash(p) = k
    BY DEF LastSlash, LastOf
  <2> HIDE DEF k
  <2>3. UpTo(p, LastSlash(p)) = SubSeq(p, 1, k)
    BY <2>2 DEF UpTo
  <2>4. 1 \in 1..(Len(p) + 1) /\ k \in (1 - 1)..Len(p) /\ k - 1 + 1 = k
    BY <2>1
  <2>5. Len(SubSeq(p, 1, k)) = k - 1 + 1
    BY <2>4, PartIs
  <2> QED
    BY <2>1, <2>3, <2>4, <2>5
<1>3. Behind(p, UpTo(p, LastSlash(p))) \in Seq(Unit)
  BY <1>2, BehindIs
<1>4. Spelled(Behind(p, UpTo(p, LastSlash(p)))) \in Seq(Unit \cup {"%", "digit"})
  BY <1>3, SpelledIs
<1> QED
  BY <1>1, <1>4, CutIs, DownloadConstants DEF UrlLastSegment

\* A name that may be saved under.
SafeName(name) == Usable(name) /\ Len(name) <= NameMax /\ ToSet(name) \cap Unsafe = {}

LEMMA SanitizedSafe ==
  ASSUME NEW S, NEW w \in Seq(S), Usable(SanitizeFilename(w))
  PROVE  SafeName(SanitizeFilename(w))
<1>1. PICK name : name = SanitizeFilename(w)
  OBVIOUS
<1>2. name \in Seq(S \ Unsafe) /\ Len(name) <= NameMax
  BY <1>1, SanitizedIs
<1>3. \A i \in DOMAIN name : name[i] \notin Unsafe
  BY <1>2
<1>4. ToSet(name) \cap Unsafe = {}
  BY <1>3 DEF ToSet
<1> QED
  BY <1>1, <1>2, <1>4 DEF SafeName

LEMMA DefaultSafe ==
  SafeName(<<"download">>)
<1>1. PICK word : word = "download"
  OBVIOUS
<1>2. "download" \notin Unsafe
  <2>1. "download" # Nul
    BY Zenon DEF Nul
  <2>2. "download" \notin Control
    BY Zenon DEF Control
  <2>3. "download" \notin Separators
    BY Zenon DEF Separators
  <2> QED
    BY <2>1, <2>2, <2>3 DEF Unsafe
<1>3. word \notin Unsafe /\ word # "."
  BY <1>1, <1>2
<1>4. PICK name : name = <<word>>
  OBVIOUS
<1>5. Len(name) = 1 /\ name[1] = word /\ DOMAIN name = {1}
  BY <1>4
<1>6. Usable(name)
  <2>1. Len(<< >>) = 0 /\ Len(<<".", ".">>) = 2 /\ <<".">>[1] = "."
    OBVIOUS
  <2> QED
    BY <1>3, <1>5, <2>1 DEF Usable
<1>7. 1 <= NameMax
  BY DownloadConstants
<1>8. ToSet(name) \cap Unsafe = {}
  BY <1>3, <1>5 DEF ToSet
<1> QED
  BY <1>1, <1>4, <1>5, <1>6, <1>7, <1>8 DEF SafeName

LEMMA PreparedSafe ==
  ASSUME NEW w \in Seq(Unit), NEW base \in Seq(Unit) \cup {NoBase},
         NEW cd \in Seq(HeaderByte) \cup {NoHeader}, NEW length, NEW max,
         NEW d, d = PrepareDownload(w, base, cd, length, max), d.verdict = "ACCEPT"
  PROVE  SafeName(d.filename)
<1>1. PICK result : result = Parse(w, base)
  OBVIOUS
<1>2. PICK given : given = ExtractFilename(cd)
  OBVIOUS
<1>3. d = Judged(result, cd, length, max)
  BY <1>1 DEF PrepareDownload
<1>4. \A code, text : Rejected(code, text).verdict = code
  BY DEF Rejected
<1>5. /\ "REJECT_URL" # "ACCEPT" /\ "REJECT_SCHEME" # "ACCEPT"
      /\ "REJECT_TOO_LARGE" # "ACCEPT" /\ "REJECT_FILENAME" # "ACCEPT"
  OBVIOUS
<1>6. result.status = "OK" /\ \E text : d = Accepted(result.url, text, given)
  <2>1. \/ \E text : d = Rejected("REJECT_URL", text)
        \/ \E text : d = Rejected("REJECT_SCHEME", text)
        \/ \E text : d = Rejected("REJECT_TOO_LARGE", text)
        \/ result.status = "OK" /\ \E text : d = Accepted(result.url, text, given)
    BY <1>2, <1>3, Zenon DEF Judged
  <2> QED
    BY <1>4, <1>5, <2>1
<1>7. PICK text : d = Accepted(result.url, text, given)
  BY <1>6
<1>8. PICK from : from = IF given # << >> THEN given ELSE UrlLastSegment(result.url)
  OBVIOUS
<1>9. \E S : from \in Seq(S)
  <2>1. given \in Seq(HeaderByte)
    BY <1>2, ExtractedIs
  <2>2. result.url.path \in Seq(Unit)
    BY <1>1, <1>6, ParsedPath
  <2>3. UrlLastSegment(result.url) \in Seq(Unit \cup {"%", "digit"})
    BY <2>2, LastSegmentIs
  <2> QED
    BY <1>8, <2>1, <2>3
<1>10. PICK name : name = SanitizeFilename(from)
  OBVIOUS
<1>11. d = IF Usable(name) THEN Under(text, name)
           ELSE IF given # << >> THEN Rejected("REJECT_FILENAME", text)
           ELSE Under(text, <<"download">>)
  BY <1>7, <1>8, <1>10 DEF Accepted
<1>12. \A u, n : Under(u, n).filename = n
  BY DEF Under
<1>13. Usable(name) => SafeName(name)
  BY <1>9, <1>10, SanitizedSafe
<1> QED
  BY <1>4, <1>5, <1>11, <1>12, <1>13, DefaultSafe

(***************************************************************************)
(* The requests.                                                           *)
(***************************************************************************)
Calls ==
  {[kind |-> "link", of |-> l] : l \in Links}
    \cup {[kind |-> "form", of |-> f] : f \in Submits}
    \cup {[kind |-> "download", of |-> d] : d \in Responses}

\* What is answered is the answer to the call, and stays.
RequestInv ==
  /\ call \in Calls /\ stage \in {"asked", "answered", "prepared"}
  /\ call.kind = "link" /\ stage # "asked" =>
       /\ ref = HrefText(call.of.href)
       /\ parsed = ParseHref(ref, call.of.base)
       /\ target = TextOf(parsed)
  /\ call.kind = "download" /\ stage # "asked" =>
       download = PrepareDownload(call.of.ref, call.of.base, call.of.header, call.of.length, call.of.max)
  /\ call.kind = "form" /\ stage # "asked" =>
       /\ form = Submit(call.of.method, call.of.action, call.of.base, call.of.fields)
       /\ target = form.url
  /\ stage = "prepared" => prepared = PrepareUrl(target)

LEMMA RequestInit == Init => RequestInv
BY DEF Init, RequestInv, Calls

LEMMA RequestStep == RequestInv /\ [Next]_vars => RequestInv'
<1> SUFFICES ASSUME RequestInv, [Next]_vars PROVE RequestInv'
  OBVIOUS
<1>1. CASE ResolveLink
  BY <1>1 DEF ResolveLink, Asked, RequestInv
<1>2. CASE SubmitForm
  BY <1>2 DEF SubmitForm, Asked, RequestInv
<1>3. CASE Prepare
  BY <1>3 DEF Prepare, Asked, RequestInv
<1>4. CASE HandToHost
  BY <1>4 DEF HandToHost, RequestInv
<1>5. CASE UNCHANGED vars
  BY <1>5 DEF vars, RequestInv
<1> QED
  BY <1>1, <1>2, <1>3, <1>4, <1>5 DEF Next, Answered

\* What a link resolves to, what a form submits, what a download comes to and
\* what the host prepares are functions of the call alone, and no later step
\* changes them.
THEOREM RequestSafe == Spec => []RequestInv
BY RequestInit, RequestStep, PTL DEF Spec

LEMMA NamesStep == RequestInv => NamesAreSafe
<1> SUFFICES ASSUME RequestInv, call.kind = "download", stage # "asked", download.verdict = "ACCEPT"
             PROVE  SafeName(download.filename)
  BY DEF NamesAreSafe, SafeName, Unsafe
<1>1. PICK d : d = call.of
  OBVIOUS
<1>2. d \in Responses
  BY <1>1 DEF RequestInv, Calls
<1>3. /\ d.ref \in Seq(Unit) /\ d.base \in Seq(Unit) \cup {NoBase}
      /\ d.header \in Seq(HeaderByte) \cup {NoHeader}
  BY <1>2, RequestConstants
<1>4. download = PrepareDownload(d.ref, d.base, d.header, d.length, d.max)
  BY <1>1 DEF RequestInv
<1> QED
  BY <1>3, <1>4, PreparedSafe

\* The name a response is saved under is one segment that stays in its
\* directory, whatever the header says and however the URL ends.
THEOREM NamesSafe == Spec => []NamesAreSafe
BY RequestSafe, NamesStep, PTL

LEMMA PathStep == RequestInv => PathIsResolved
<1> SUFFICES ASSUME RequestInv, call.kind = "link", stage # "asked", target # << >>
             PROVE  ResolvedPath(Raw(Split(ref)), Raw(Split(call.of.base)))
  BY DEF PathIsResolved, IsLink
<1>1. PICK l : l = call.of
  OBVIOUS
<1>2. l \in Links
  BY <1>1 DEF RequestInv, Calls
<1>3. l.href \in Seq(Unit) /\ l.base \in Seq(Unit) \cup {NoBase}
  BY <1>2, RequestConstants
<1>4. ref = HrefText(l.href) /\ parsed = ParseHref(ref, l.base) /\ target = TextOf(parsed)
  BY <1>1 DEF RequestInv
<1>5. ref \in Seq(Unit)
  BY <1>3, <1>4, HrefIs
<1>6. parsed.status = "OK"
  BY <1>4 DEF TextOf
<1>7. parsed = Parse(ref, l.base)
  <2>1. Failed("HREF").status # "OK"
    BY DEF Failed
  <2> QED
    BY <1>4, <1>6, <2>1 DEF ParseHref
<1>8. PICK r : r = Raw(Split(ref))
  OBVIOUS
<1>9. PICK b : b = Raw(Split(l.base))
  OBVIOUS
<1>10. ASSUME parsed.url.has_authority, r.path # << >>, r.has_scheme \/ Starts(b.path, <<"/">>)
       PROVE  SegmentsOf(parsed.url.path) = Walked(WantedPath(r, b))
  BY <1>3, <1>5, <1>6, <1>7, <1>8, <1>9, <1>10, ParsedSegments
<1> QED
  BY <1>1, <1>8, <1>9, <1>10 DEF ResolvedPath

\* Dot segments are resolved as directories are and never above the root, for
\* an href and a base of any length.
THEOREM PathsResolved == Spec => []PathIsResolved
BY RequestSafe, PathStep, PTL

(***************************************************************************)
(* Folds.                                                                  *)
(***************************************************************************)
\* The steps T over the members of a set of numbers, the least one first.
FoldsAll(f, n, X, x, T) ==
  /\ f \in [SUBSET (1..n) -> X]
  /\ \A s \in SUBSET (1..n) : f[s] = IF s = {} THEN x ELSE T[Max(s)][f[s \ {Max(s)}]]

LEMMA Folded ==
  ASSUME NEW n \in Nat, NEW X, NEW x \in X, NEW T \in [1..n -> [X -> X]]
  PROVE  \E f : FoldsAll(f, n, X, x, T)
<1> DEFINE D == SUBSET (1..n)
           size == [s \in D |-> IF s = {} THEN 0 ELSE Max(s)]
           step == [f \in [D -> X] |-> [s \in D |-> IF s = {} THEN x ELSE T[Max(s)][f[s \ {Max(s)}]]]]
<1>1. \A s \in D : s # {} => Max(s) \in s /\ Max(s) \in 1..n /\ \A i \in s : i <= Max(s)
  <2>1. ASSUME NEW s \in D, s # {} PROVE Max(s) \in s /\ \A i \in s : i <= Max(s)
    <3>1. s \in SUBSET Nat /\ \A i \in s : i <= n
      BY <2>1
    <3> QED
      BY <2>1, <3>1, MaxIs
  <2> QED
    BY <2>1
<1>2. size \in [D -> Nat]
  BY <1>1
<1>3. step \in [[D -> X] -> [D -> X]]
  <2>1. ASSUME NEW f \in [D -> X], NEW s \in D
        PROVE  (IF s = {} THEN x ELSE T[Max(s)][f[s \ {Max(s)}]]) \in X
    <3>1. CASE s # {}
      <4>1. Max(s) \in 1..n /\ s \ {Max(s)} \in D
        BY <1>1, <3>1
      <4>2. T[Max(s)] \in [X -> X] /\ f[s \ {Max(s)}] \in X
        BY <4>1
      <4> QED
        BY <3>1, <4>2
    <3> QED
      BY <3>1
  <2> QED
    BY <2>1
<1>4. \A s \in D : s # {} => s \ {Max(s)} \in D /\ size[s \ {Max(s)}] < size[s]
  <2>1. ASSUME NEW s \in D, s # {} PROVE size[s \ {Max(s)}] < size[s]
    <3>1. size[s] = Max(s) /\ Max(s) \in Nat /\ Max(s) > 0
      BY <1>1, <2>1
    <3>2. s \ {Max(s)} \in D
      OBVIOUS
    <3>3. CASE s \ {Max(s)} = {}
      BY <3>1, <3>2, <3>3
    <3>4. CASE s \ {Max(s)} # {}
      <4>1. Max(s \ {Max(s)}) \in s \ {Max(s)}
        <5>1. PICK t \in D : t = s \ {Max(s)}
          BY <3>2
        <5> QED
          BY <1>1, <3>4, <5>1
      <4>2. Max(s \ {Max(s)}) <= Max(s) /\ Max(s \ {Max(s)}) # Max(s) /\ Max(s \ {Max(s)}) \in Nat
        <5>1. PICK m : m = Max(s \ {Max(s)})
          OBVIOUS
        <5>2. m \in s /\ m # Max(s)
          BY <4>1, <5>1
        <5>3. m <= Max(s) /\ m \in Nat
          BY <1>1, <2>1, <5>2
        <5> QED
          BY <5>1, <5>2, <5>3
      <4> QED
        BY <3>1, <3>2, <3>4, <4>2
    <3> QED
      BY <3>3, <3>4
  <2> QED
    BY <2>1
<1>5. ASSUME NEW f \in [D -> X], NEW g \in [D -> X], NEW s \in D,
             \A u \in D : size[u] < size[s] => f[u] = g[u]
      PROVE  step[f][s] = step[g][s]
  <2>1. s # {} => f[s \ {Max(s)}] = g[s \ {Max(s)}]
    <3> HIDE DEF size, step
    <3> QED
      BY <1>4, <1>5
  <2> QED
    BY <2>1
<1>6. Founded(D, X, size, step)
  <2> HIDE DEF D, size, step
  <2> QED
    BY <1>2, <1>3, <1>5 DEF Founded
<1>7. PICK f \in [D -> X] : f = step[f]
  <2> HIDE DEF D, size, step
  <2> QED
    BY <1>6, Recursion
<1> QED
  BY <1>7 DEF FoldsAll

\* Such a function, on all the numbers, is the last of the steps.
Folding(g, n, X, x, T) ==
  /\ g[{}] = x
  /\ \A s \in SUBSET (1..n) :
       s # {} /\ g[s \ {Max(s)}] \in X => g[s] = T[Max(s)][g[s \ {Max(s)}]]

Stepping(r, n, X, x, T) ==
  r \in [0..n -> X] /\ r[0] = x /\ \A k \in 1..n : r[k] = T[k][r[k - 1]]

LEMMA FoldIs ==
  ASSUME NEW n \in Nat, NEW X, NEW x \in X, NEW T \in [1..n -> [X -> X]], NEW g, NEW r,
         Folding(g, n, X, x, T), Stepping(r, n, X, x, T)
  PROVE  g[1..n] = r[n]
<1> DEFINE P == {k \in Nat : k <= n => g[1..k] = r[k]}
<1>1. 0 \in P
  <2>1. 1..0 = {}
    OBVIOUS
  <2> QED
    BY <2>1 DEF Folding, Stepping
<1>2. ASSUME NEW k \in P PROVE k + 1 \in P
  <2>1. SUFFICES ASSUME k + 1 <= n PROVE g[1..(k + 1)] = r[k + 1]
    OBVIOUS
  <2>2. k \in Nat /\ g[1..k] = r[k] /\ r[k] \in X
    BY <2>1 DEF Stepping
  <2>3. Max(1..(k + 1)) = k + 1
    <3>1. 1..(k + 1) \in SUBSET Nat /\ k + 1 \in 1..(k + 1) /\ k + 1 \in Nat /\ \A i \in 1..(k + 1) : i <= k + 1
      BY <2>2
    <3>2. Max(1..(k + 1)) \in 1..(k + 1) /\ \A i \in 1..(k + 1) : i <= Max(1..(k + 1))
      <4>1. PICK M : M = 1..(k + 1)
        OBVIOUS
      <4> QED
        BY <3>1, <4>1, MaxIs
    <3> QED
      BY <2>2, <3>2
  <2>4. (1..(k + 1)) \ {k + 1} = 1..k
    BY <2>2
  <2>5. 1..(k + 1) \in SUBSET (1..n) /\ 1..(k + 1) # {}
    BY <2>1, <2>2, SMTT(60)
  <2>6. g[1..(k + 1)] = T[k + 1][g[1..k]]
    BY <2>2, <2>3, <2>4, <2>5 DEF Folding
  <2>7. k + 1 \in 1..n /\ (k + 1) - 1 = k
    BY <2>1, <2>2
  <2> QED
    BY <2>2, <2>6, <2>7 DEF Stepping
<1>3. P \in SUBSET Nat
  OBVIOUS
<1>4. P = Nat
  <2> HIDE DEF P
  <2> QED
    BY <1>1, <1>2, <1>3, Induct
<1> QED
  BY <1>4

(***************************************************************************)
(* Sizes.                                                                  *)
(***************************************************************************)
LEMMA WidthIs == \A c : Width(c) \in Nat /\ Width(c) >= 1
  BY DEF Width

\* r says what the first units of w come to.
Sums(r, w) ==
  r \in [0..Len(w) -> Nat] /\ r[0] = 0 /\ \A k \in 1..Len(w) : r[k] = r[k - 1] + Width(w[k])

LEMMA SizeFold ==
  ASSUME NEW S, NEW w \in Seq(S)
  PROVE  \E r : Sums(r, w) /\ Size(w) = r[Len(w)]
<1>1. PICK n \in Nat : n = Len(w)
  OBVIOUS
<1>2. DOMAIN w = 1..n
  BY <1>1
<1> DEFINE G(f) == [s \in SUBSET DOMAIN w |->
                      IF s = {} THEN 0 ELSE f[s \ {Max(s)}] + Width(w[Max(s)])]
           g == CHOOSE f : f = G(f)
           T == [k \in 1..n |-> [v \in Nat |-> v + Width(w[k])]]
<1>3. Size(w) = g[1..n]
  BY <1>2 DEF Size, FoldLeft, MapThenFoldSet
<1>4. T \in [1..n -> [Nat -> Nat]]
  BY WidthIs
<1>c. PICK X : X = Nat
  OBVIOUS
<1>d. PICK zero \in X : zero = 0
  BY <1>c
<1>b. X = Nat /\ zero = 0
  BY <1>c, <1>d
<1>a. \A s \in SUBSET (1..n) : s # {} => Max(s) \in 1..n
  <2>1. ASSUME NEW s \in SUBSET (1..n), s # {} PROVE Max(s) \in 1..n
    <3>1. s \in SUBSET Nat /\ \A i \in s : i <= n
      BY <2>1
    <3> QED
      BY <2>1, <3>1, MaxIs
  <2> QED
    BY <2>1
<1>5. g = G(g)
  <2>1. PICK t \in [1..n -> [X -> X]] : t = T
    BY <1>b, <1>4
  <2>a. PICK f : FoldsAll(f, n, X, zero, t)
    <3> HIDE DEF T, G, g
    <3>1. n \in Nat /\ zero \in X /\ t \in [1..n -> [X -> X]]
      BY <1>1
    <3> QED
      BY <3>1, Folded
  <2>2. /\ f \in [SUBSET (1..n) -> X]
        /\ \A s \in SUBSET (1..n) : f[s] = IF s = {} THEN zero ELSE t[Max(s)][f[s \ {Max(s)}]]
    BY <2>a DEF FoldsAll
  <2>3. \A s \in SUBSET (1..n) : f[s] = IF s = {} THEN 0 ELSE f[s \ {Max(s)}] + Width(w[Max(s)])
    <3>1. ASSUME NEW s \in SUBSET (1..n), s # {} PROVE f[s] = f[s \ {Max(s)}] + Width(w[Max(s)])
      <4>1. f[s \ {Max(s)}] \in Nat
        BY <1>b, <2>2
      <4> QED
        BY <1>a, <1>b, <2>1, <2>2, <3>1, <4>1
    <3>2. f[{}] = 0
      BY <1>b, <2>2
    <3> QED
      BY <3>1, <3>2
  <2>4. f = G(f)
    BY <1>2, <2>2, <2>3
  <2> HIDE DEF G
  <2> QED
    BY <2>4
<1>6. Folding(g, n, X, zero, T)
  <2> HIDE DEF g
  <2>1. g[{}] = 0
    BY <1>5
  <2>2. ASSUME NEW s \in SUBSET (1..n), s # {}, g[s \ {Max(s)}] \in Nat
        PROVE  g[s] = T[Max(s)][g[s \ {Max(s)}]]
    <3>1. g[s] = g[s \ {Max(s)}] + Width(w[Max(s)])
      BY <1>2, <1>5, <2>2
    <3> QED
      BY <1>a, <2>2, <3>1
  <2> HIDE DEF T
  <2> QED
    BY <1>b, <2>1, <2>2 DEF Folding
<1>7. PICK r \in [0..n -> X] : r[0] = zero /\ \A k \in 1..n : r[k] = T[k][r[k - 1]]
  <2> HIDE DEF T
  <2>1. PICK t \in [1..n -> [X -> X]] : t = T
    BY <1>b, <1>4
  <2>2. \E r \in [0..n -> X] : r[0] = zero /\ \A k \in 1..n : r[k] = t[k][r[k - 1]]
    BY Iterates, SMTT(60)
  <2> QED
    BY <2>1, <2>2
<1>8. Stepping(r, n, X, zero, T)
  <2> HIDE DEF T
  <2> QED
    BY <1>7 DEF Stepping
<1>9. g[1..n] = r[n]
  <2> HIDE DEF g, T
  <2>1. PICK t \in [1..n -> [X -> X]] : t = T
    BY <1>b, <1>4
  <2>2. Folding(g, n, X, zero, t) /\ Stepping(r, n, X, zero, t)
    BY <1>6, <1>8, <2>1
  <2> QED
    BY <2>2, FoldIs
<1>10. \A k \in 1..n : r[k] = r[k - 1] + Width(w[k])
  <2>1. ASSUME NEW k \in 1..n PROVE r[k] = r[k - 1] + Width(w[k])
    <3>1. k - 1 \in 0..n /\ r[k - 1] \in Nat
      BY <1>b
    <3> QED
      BY <1>7, <3>1
  <2> QED
    BY <2>1
<1> QED
  BY <1>b, <1>1, <1>3, <1>7, <1>9, <1>10 DEF Sums

LEMMA SizeIs ==
  ASSUME NEW S, NEW w \in Seq(S)
  PROVE  Size(w) \in Nat /\ Size(w) >= Len(w) /\ (w = << >> => Size(w) = 0)
<1>1. PICK r : Sums(r, w) /\ Size(w) = r[Len(w)]
  BY SizeFold
<1>2. PICK n \in Nat : n = Len(w)
  OBVIOUS
<1>3. r \in [0..n -> Nat] /\ r[0] = 0 /\ \A k \in 1..n : r[k] = r[k - 1] + Width(w[k])
  BY <1>1, <1>2 DEF Sums
<1> DEFINE P == {k \in Nat : k <= n => r[k] >= k}
<1>4. 0 \in P
  BY <1>3
<1>5. ASSUME NEW k \in P PROVE k + 1 \in P
  <2>1. SUFFICES ASSUME k + 1 <= n PROVE r[k + 1] >= k + 1
    OBVIOUS
  <2>2. k \in 0..n /\ k + 1 \in 1..n /\ r[k] >= k /\ (k + 1) - 1 = k
    BY <2>1
  <2>3. r[k + 1] = r[k] + Width(w[k + 1]) /\ r[k] \in Nat
    BY <1>3, <2>2
  <2> QED
    BY <2>2, <2>3, WidthIs
<1>6. P = Nat
  <2>1. P \in SUBSET Nat
    OBVIOUS
  <2> HIDE DEF P
  <2> QED
    BY <1>4, <1>5, <2>1, Induct
<1>7. n \in 0..n /\ r[n] >= n
  BY <1>6
<1>8. w = << >> => n = 0
  BY <1>2
<1> QED
  BY <1>1, <1>2, <1>3, <1>7, <1>8

LEMMA SizeOne ==
  ASSUME NEW c
  PROVE  Size(<<c>>) = Width(c)
<1>1. PICK S : S = {c}
  OBVIOUS
<1>2. PICK w \in Seq(S) : w = <<c>>
  BY <1>1, OneIs
<1>3. Len(w) = 1 /\ w[1] = c
  BY <1>2
<1>4. PICK r : Sums(r, w) /\ Size(w) = r[Len(w)]
  BY SizeFold
<1>5. r[0] = 0 /\ r[1] = r[0] + Width(w[1])
  BY <1>3, <1>4 DEF Sums
<1> QED
  BY <1>2, <1>3, <1>4, <1>5, WidthIs

\* A text that has units no wider is no longer.
LEMMA SizeLess ==
  ASSUME NEW S, NEW v \in Seq(S), NEW w \in Seq(S), Len(v) = Len(w),
         \A i \in 1..Len(w) : Width(v[i]) <= Width(w[i])
  PROVE  Size(v) <= Size(w)
<1>1. PICK q : Sums(q, v) /\ Size(v) = q[Len(v)]
  BY SizeFold
<1>2. PICK r : Sums(r, w) /\ Size(w) = r[Len(w)]
  BY SizeFold
<1>3. PICK n \in Nat : n = Len(w) /\ n = Len(v)
  OBVIOUS
<1>4. q \in [0..n -> Nat] /\ q[0] = 0 /\ \A k \in 1..n : q[k] = q[k - 1] + Width(v[k])
  BY <1>1, <1>3 DEF Sums
<1>5. r \in [0..n -> Nat] /\ r[0] = 0 /\ \A k \in 1..n : r[k] = r[k - 1] + Width(w[k])
  BY <1>2, <1>3 DEF Sums
<1> DEFINE P == {k \in Nat : k <= n => q[k] <= r[k]}
<1>6. 0 \in P
  BY <1>4, <1>5
<1>7. ASSUME NEW k \in P PROVE k + 1 \in P
  <2>1. SUFFICES ASSUME k + 1 <= n PROVE q[k + 1] <= r[k + 1]
    OBVIOUS
  <2>2. k \in 0..n /\ k + 1 \in 1..n /\ q[k] <= r[k] /\ (k + 1) - 1 = k
    BY <2>1
  <2>3. q[k + 1] = q[k] + Width(v[k + 1]) /\ q[k] \in Nat
    BY <1>4, <2>2
  <2>4. r[k + 1] = r[k] + Width(w[k + 1]) /\ r[k] \in Nat
    BY <1>5, <2>2
  <2>5. Width(v[k + 1]) <= Width(w[k + 1])
    BY <1>3, <2>2
  <2> QED
    BY <2>2, <2>3, <2>4, <2>5, WidthIs
<1>8. P = Nat
  <2>1. P \in SUBSET Nat
    OBVIOUS
  <2> HIDE DEF P
  <2> QED
    BY <1>6, <1>7, <2>1, Induct
<1>9. q[n] <= r[n]
  BY <1>8
<1> QED
  BY <1>1, <1>2, <1>3, <1>9

LEMMA SizeJoin ==
  ASSUME NEW S, NEW v \in Seq(S), NEW w \in Seq(S)
  PROVE  Size(v \o w) = Size(v) + Size(w)
<1>1. PICK x \in Seq(S) : x = v \o w
  BY ConcatProperties
<1>2. PICK m \in Nat, n \in Nat : m = Len(v) /\ n = Len(w)
  OBVIOUS
<1>3. Len(x) = m + n /\ (\A i \in 1..m : x[i] = v[i]) /\ (\A i \in 1..n : x[m + i] = w[i])
  BY <1>1, <1>2
<1>4. PICK p : Sums(p, v) /\ Size(v) = p[m]
  BY <1>2, SizeFold
<1>5. PICK q : Sums(q, w) /\ Size(w) = q[n]
  BY <1>2, SizeFold
<1>6. PICK r : Sums(r, x) /\ Size(x) = r[m + n]
  BY <1>3, SizeFold
<1>7. p \in [0..m -> Nat] /\ p[0] = 0 /\ \A k \in 1..m : p[k] = p[k - 1] + Width(v[k])
  BY <1>2, <1>4 DEF Sums
<1>8. q \in [0..n -> Nat] /\ q[0] = 0 /\ \A k \in 1..n : q[k] = q[k - 1] + Width(w[k])
  BY <1>2, <1>5 DEF Sums
<1>9. r \in [0..(m + n) -> Nat] /\ r[0] = 0 /\ \A k \in 1..(m + n) : r[k] = r[k - 1] + Width(x[k])
  BY <1>3, <1>6 DEF Sums
<1> DEFINE P == {k \in Nat : k <= m => r[k] = p[k]}
           Q == {k \in Nat : k <= n => r[m + k] = p[m] + q[k]}
<1>10. P = Nat
  <2>1. 0 \in P
    BY <1>7, <1>9
  <2>2. ASSUME NEW k \in P PROVE k + 1 \in P
    <3>1. SUFFICES ASSUME k + 1 <= m PROVE r[k + 1] = p[k + 1]
      OBVIOUS
    <3>2. k \in 0..m /\ k + 1 \in 1..m /\ k + 1 \in 1..(m + n) /\ r[k] = p[k] /\ (k + 1) - 1 = k
      BY <3>1
    <3> QED
      BY <1>3, <1>7, <1>9, <3>2
  <2>3. P \in SUBSET Nat
    OBVIOUS
  <2> HIDE DEF P
  <2> QED
    BY <2>1, <2>2, <2>3, Induct
<1>11. r[m] = p[m] /\ p[m] \in Nat
  BY <1>7, <1>10, SMTT(60)
<1>12. Q = Nat
  <2>1. 0 \in Q
    BY <1>8, <1>11
  <2>2. ASSUME NEW k \in Q PROVE k + 1 \in Q
    <3>1. SUFFICES ASSUME k + 1 <= n PROVE r[m + (k + 1)] = p[m] + q[k + 1]
      OBVIOUS
    <3>2. k \in 0..n /\ k + 1 \in 1..n /\ r[m + k] = p[m] + q[k] /\ (k + 1) - 1 = k
      BY <3>1
    <3>3. m + (k + 1) \in 1..(m + n) /\ (m + (k + 1)) - 1 = m + k
      BY <3>2
    <3>4. r[m + (k + 1)] = r[m + k] + Width(w[k + 1])
      BY <1>3, <1>9, <3>2, <3>3
    <3>5. q[k + 1] = q[k] + Width(w[k + 1]) /\ q[k] \in Nat
      BY <1>8, <3>2
    <3> QED
      BY <1>11, <3>2, <3>4, <3>5, WidthIs
  <2>3. Q \in SUBSET Nat
    OBVIOUS
  <2> HIDE DEF Q
  <2> QED
    BY <2>1, <2>2, <2>3, Induct
<1>13. r[m + n] = p[m] + q[n]
  <2>1. n \in Q
    <3> HIDE DEF Q
    <3> QED
      BY <1>12
  <2> QED
    BY <2>1
<1> QED
  BY <1>1, <1>4, <1>5, <1>6, <1>13

(***************************************************************************)
(* A text that is put together, taken apart.                               *)
(***************************************************************************)
Joined(w, u, v) == w = u \o v

LEMMA Regroup ==
  ASSUME NEW S, NEW a \in Seq(S), NEW b \in Seq(S), NEW c \in Seq(S),
         NEW ab, Joined(ab, a, b), NEW bc, Joined(bc, b, c), NEW w, Joined(w, a, bc)
  PROVE  Joined(w, ab, c)
<1>1. (a \o b) \o c = a \o (b \o c)
  BY ConcatAssociative
<1> QED
  BY <1>1 DEF Joined

Clear(w, stops) == \A i \in 1..Len(w) : w[i] \notin stops

\* v begins with one of stops, if it begins at all.
Stopped(v, stops) == v = << >> \/ v[1] \in stops

LEMMA UntilJoin ==
  ASSUME NEW S, NEW u \in Seq(S), NEW v \in Seq(S), NEW stops, Clear(u, stops), Stopped(v, stops)
  PROVE  Until(u \o v, stops) = u
<1>1. PICK x \in Seq(S) : x = u \o v
  BY ConcatProperties
<1>2. PICK m \in Nat, n \in Nat : m = Len(u) /\ n = Len(v)
  OBVIOUS
<1>3. Len(x) = m + n /\ (\A i \in 1..m : x[i] = u[i]) /\ (\A i \in 1..n : x[m + i] = v[i])
  BY <1>1, <1>2
<1>4. PICK z : z = Until(x, stops)
  OBVIOUS
<1>5. /\ z \in Seq(S) /\ Len(z) \in 0..Len(x)
      /\ \A i \in 1..Len(z) : z[i] = x[i] /\ x[i] \notin stops
      /\ Len(z) # Len(x) => x[Len(z) + 1] \in stops
  BY <1>4, UntilIs
<1>6. PICK k \in Nat : k = Len(z)
  BY <1>5
<1>7. ~(k < m)
  <2>1. SUFFICES ASSUME k < m PROVE FALSE
    OBVIOUS
  <2>2. k # Len(x) /\ k + 1 \in 1..m
    BY <1>3, <2>1
  <2>3. x[k + 1] \in stops /\ x[k + 1] = u[k + 1]
    BY <1>3, <1>5, <1>6, <2>2
  <2> QED
    BY <1>2, <2>2, <2>3 DEF Clear
<1>8. ~(k > m)
  <2>1. SUFFICES ASSUME k > m PROVE FALSE
    OBVIOUS
  <2>2. 1 \in 1..n /\ m + 1 \in 1..k
    BY <1>3, <1>5, <1>6, <2>1
  <2>3. x[m + 1] \notin stops /\ x[m + 1] = v[1]
    BY <1>3, <1>5, <1>6, <2>2
  <2>4. v # << >>
    BY <1>2, <2>2, EmptySeq
  <2> QED
    BY <2>3, <2>4 DEF Stopped
<1>9. k = m
  BY <1>7, <1>8
<1>10. \A i \in 1..m : z[i] = u[i]
  BY <1>3, <1>5, <1>6, <1>9
<1> QED
  <2>1. Len(z) = Len(u) /\ \A i \in 1..Len(z) : z[i] = u[i]
    BY <1>2, <1>6, <1>9, <1>10
  <2>2. z = u
    BY <1>5, <2>1, SeqEqual
  <2> QED
    BY <1>1, <1>4, <2>2

LEMMA BehindJoin ==
  ASSUME NEW S, NEW u \in Seq(S), NEW v \in Seq(S)
  PROVE  Behind(u \o v, u) = v
<1>1. PICK x \in Seq(S) : x = u \o v
  BY ConcatProperties
<1>2. PICK m \in Nat, n \in Nat : m = Len(u) /\ n = Len(v)
  OBVIOUS
<1>3. Len(x) = m + n /\ (\A i \in 1..n : x[m + i] = v[i])
  BY <1>1, <1>2
<1>4. PICK z : z = Behind(x, u)
  OBVIOUS
<1>5. Len(u) \in 0..Len(x)
  BY <1>2, <1>3
<1>6. z \in Seq(S) /\ Len(z) = Len(x) - Len(u) /\ \A i \in 1..(Len(x) - Len(u)) : z[i] = x[Len(u) + i]
  BY <1>4, <1>5, BehindIs
<1>7. Len(z) = n /\ \A i \in 1..n : z[i] = v[i]
  BY <1>2, <1>3, <1>6
<1> QED
  BY <1>1, <1>2, <1>4, <1>6, <1>7, SeqEqual

LEMMA TailJoin ==
  ASSUME NEW S, NEW c \in S, NEW v \in Seq(S)
  PROVE  /\ Tail(<<c>> \o v) = v /\ (<<c>> \o v)[1] = c /\ <<c>> \o v # << >>
         /\ <<c>> \o v \in Seq(S)
         /\ Starts(<<c>> \o v, <<c>>) /\ \A d : d # c => ~Starts(<<c>> \o v, <<d>>)
<1>1. PICK u \in Seq(S) : u = <<c>>
  BY OneIs
<1>2. Len(u) = 1 /\ u[1] = c
  BY <1>1
<1>3. PICK x \in Seq(S) : x = u \o v
  BY ConcatProperties
<1>4. Len(x) = 1 + Len(v) /\ x[1] = u[1] /\ \A i \in 1..Len(v) : x[1 + i] = v[i]
  <2>1. PICK n \in Nat : n = Len(v)
    OBVIOUS
  <2>2. \A i \in 1..(1 + n) : x[i] = IF i <= 1 THEN u[i] ELSE v[i - 1]
    <3>1. \A i \in 1..(Len(u) + Len(v)) : x[i] = IF i <= Len(u) THEN u[i] ELSE v[i - Len(u)]
      BY <1>3, ConcatProperties, SMTT(60)
    <3>2. Len(u) = 1 /\ Len(v) = n
      BY <1>2, <2>1
    <3> QED
      BY <3>1, <3>2
  <2>3. x[1] = u[1]
    BY <2>2
  <2>4. ASSUME NEW i \in 1..n PROVE x[1 + i] = v[i]
    <3>1. 1 + i \in 1..(1 + n) /\ ~(1 + i <= 1) /\ (1 + i) - 1 = i
      OBVIOUS
    <3> QED
      BY <2>2, <3>1
  <2>5. Len(x) = 1 + n
    BY <1>2, <1>3, <2>1, ConcatProperties, SMTT(60)
  <2> QED
    BY <2>1, <2>3, <2>4, <2>5
<1>7. x # << >>
  <2>1. PICK n \in Nat : n = Len(v)
    OBVIOUS
  <2>2. Len(x) # 0
    BY <1>4, <2>1
  <2> QED
    BY <2>2, EmptySeq
<1>5. Tail(x) = v
  <2>1. x # << >>
    BY <1>7
  <2>2. PICK t \in Seq(S) : t = Tail(x)
    BY <2>1, HeadTailProperties
  <2>3. Len(t) = Len(v) /\ \A i \in 1..Len(v) : t[i] = x[i + 1]
    <3>1. Len(t) = Len(x) - 1 /\ \A i \in 1..Len(t) : t[i] = x[i + 1]
      BY <2>1, <2>2, HeadTailProperties
    <3>2. PICK n \in Nat : n = Len(v)
      OBVIOUS
    <3>3. Len(t) = n
      BY <1>4, <3>1, <3>2
    <3> QED
      BY <3>1, <3>2, <3>3
  <2> QED
    <3>1. \A i \in 1..Len(v) : t[i] = v[i]
      <4>1. PICK n \in Nat : n = Len(v)
        OBVIOUS
      <4>2. \A i \in 1..n : x[i + 1] = v[i]
        BY <1>4, <4>1
      <4> QED
        BY <2>3, <4>1, <4>2
    <3>2. t = v
      BY <2>2, <2>3, <3>1, SeqEqual
    <3> QED
      BY <2>2, <3>2
<1>6. ASSUME NEW d PROVE Starts(x, <<d>>) <=> x[1] = d
  <2>1. PICK T : T = {d}
    OBVIOUS
  <2>2. PICK word \in Seq(T) : word = <<d>>
    BY <2>1, OneIs
  <2>3. Len(word) = 1 /\ word[1] = d
    BY <2>2
  <2>4. Starts(x, word) <=> Len(word) <= Len(x) /\ \A i \in 1..Len(word) : x[i] = word[i]
    BY StartsIs
  <2> QED
    BY <1>4, <2>2, <2>3, <2>4
<1> QED
  BY <1>1, <1>2, <1>3, <1>4, <1>5, <1>6, <1>7

LEMMA StartsJoin ==
  ASSUME NEW S, NEW u \in Seq(S), NEW v \in Seq(S)
  PROVE  Starts(u \o v, u)
<1>1. PICK x \in Seq(S) : x = u \o v
  BY ConcatProperties
<1>2. PICK m \in Nat, n \in Nat : m = Len(u) /\ n = Len(v)
  OBVIOUS
<1>3. Len(x) = m + n /\ (\A i \in 1..m : x[i] = u[i])
  BY <1>1, <1>2
<1>4. Starts(x, u) <=> Len(u) <= Len(x) /\ \A i \in 1..Len(u) : x[i] = u[i]
  BY StartsIs
<1> QED
  BY <1>1, <1>2, <1>3, <1>4

LEMMA ClearJoin ==
  ASSUME NEW S, NEW u \in Seq(S), NEW v \in Seq(S), NEW stops, Clear(u, stops), Clear(v, stops)
  PROVE  Clear(u \o v, stops)
<1>1. PICK x \in Seq(S) : x = u \o v
  BY ConcatProperties
<1>2. PICK m \in Nat, n \in Nat : m = Len(u) /\ n = Len(v)
  OBVIOUS
<1>3. Len(x) = m + n /\ \A i \in 1..(m + n) : x[i] = IF i <= m THEN u[i] ELSE v[i - m]
  BY <1>1, <1>2, ConcatProperties
<1>4. ASSUME NEW i \in 1..(m + n) PROVE x[i] \notin stops
  <2>1. CASE i <= m
    BY <1>2, <1>3, <2>1 DEF Clear
  <2>2. CASE ~(i <= m)
    <3>1. i - m \in 1..n
      BY <2>2
    <3> QED
      BY <1>2, <1>3, <2>2, <3>1 DEF Clear
  <2> QED
    BY <2>1, <2>2
<1> QED
  BY <1>1, <1>3, <1>4 DEF Clear

\* What a text begins with.
LEMMA HeadJoin ==
  ASSUME NEW S, NEW u \in Seq(S), NEW v \in Seq(S)
  PROVE  /\ u # << >> => u \o v # << >> /\ (u \o v)[1] = u[1]
         /\ u = << >> => u \o v = v
<1>1. PICK x \in Seq(S) : x = u \o v
  BY ConcatProperties
<1>2. PICK m \in Nat, n \in Nat : m = Len(u) /\ n = Len(v)
  OBVIOUS
<1>3. Len(x) = m + n /\ (\A i \in 1..m : x[i] = u[i])
  BY <1>1, <1>2
<1>4. ASSUME u # << >> PROVE x # << >> /\ x[1] = u[1]
  <2>1. m # 0
    BY <1>2, <1>4, EmptySeq
  <2>2. Len(x) # 0 /\ 1 \in 1..m
    BY <1>3, <2>1
  <2> QED
    BY <1>3, <2>2, EmptySeq
<1>5. << >> \o v = v
  BY ConcatEmptySeq
<1> QED
  BY <1>1, <1>4, <1>5

LEMMA MarksAre ==
  /\ {":", "/", "?", "#", ".", "@", "[", "]"} \subseteq Unit
  /\ ":" \in Unit \ SchemeChar /\ SchemeChar \subseteq Unit /\ Alpha \subseteq SchemeChar
  /\ SchemeChar \cap {":", "/", "?", "#"} = {}
BY DEF Unit, SchemeChar, Alpha, Digit, Punctuation, Triplet, BadTriplet, NonAscii, Refused

\* The scheme, and what is behind it.
LEMMA SchemeJoin ==
  ASSUME NEW s \in Seq(Unit), Clear(s, Unit \ SchemeChar), s # << >>, s[1] \in Alpha, NEW h \in Seq(Unit),
         NEW w, w = s \o (<<":">> \o h)
  PROVE  w \in Seq(Unit) /\ HasScheme(w) /\ SchemeWord(w) = s /\ Hier(w) = h
<1>1. PICK colon \in Unit : colon = ":"
  BY MarksAre
<1>2. PICK v : v = <<colon>> \o h
  OBVIOUS
<1>3. v \in Seq(Unit) /\ Tail(v) = h /\ v[1] = colon /\ Starts(v, <<colon>>)
  BY <1>2, TailJoin
<1>4. w = s \o v
  BY <1>1, <1>2
<1>5. w \in Seq(Unit)
  BY <1>3, <1>4, ConcatProperties
<1>6. Stopped(v, Unit \ SchemeChar)
  BY <1>1, <1>3, MarksAre DEF Stopped
<1>7. SchemeWord(w) = s
  BY <1>3, <1>4, <1>6, UntilJoin DEF SchemeWord
<1>8. Behind(w, s) = v
  BY <1>3, <1>4, BehindJoin
<1>9. w # << >> /\ w[1] = s[1]
  BY <1>3, <1>4, HeadJoin
<1>10. HasScheme(w)
  BY <1>1, <1>3, <1>7, <1>8, <1>9 DEF HasScheme
<1> QED
  BY <1>3, <1>5, <1>7, <1>8, <1>10 DEF Hier

\* The authority, and what is behind it.
LEMMA AuthorityJoin ==
  ASSUME NEW a \in Seq(Unit), Clear(a, {"/", "?", "#"}), NEW rest \in Seq(Unit),
         Stopped(rest, {"/", "?", "#"}), NEW w, Hier(w) = <<"/", "/">> \o (a \o rest)
  PROVE  HasAuthority(w) /\ Authority(w) = a /\ AfterAuthority(w) = rest
<1>1. PICK two \in Seq(Unit) : two = <<"/", "/">> /\ Len(two) = 2
  <2>1. PICK slash \in Unit : slash = "/"
    BY MarksAre
  <2>2. <<slash, slash>> \in Seq(Unit) /\ Len(<<slash, slash>>) = 2
    OBVIOUS
  <2> QED
    BY <2>1, <2>2
<1>2. PICK x \in Seq(Unit) : x = a \o rest
  BY ConcatProperties
<1>3. Hier(w) = two \o x
  BY <1>1, <1>2
<1>4. HasAuthority(w)
  BY <1>1, <1>3, StartsJoin DEF HasAuthority
<1>5. Behind(two \o x, two) = x
  BY BehindJoin
<1>6. SubSeq(Hier(w), 3, Len(Hier(w))) = x
  <2>1. Len(two) + 1 = 3
    BY <1>1
  <2> QED
    BY <1>3, <1>5, <2>1 DEF Behind
<1>7. Authority(w) = a
  <2>1. PICK stops : stops = {"/", "?", "#"}
    OBVIOUS
  <2>2. Until(a \o rest, stops) = a
    BY <2>1, UntilJoin
  <2>3. Authority(w) = Until(SubSeq(Hier(w), 3, Len(Hier(w))), stops)
    BY <2>1 DEF Authority
  <2> QED
    BY <1>2, <1>6, <2>2, <2>3
<1>8. two \o x = (two \o a) \o rest /\ two \o a \in Seq(Unit)
  <2>1. (two \o a) \o rest = two \o (a \o rest)
    BY ConcatAssociative, SMTT(60)
  <2>2. two \o a \in Seq(Unit)
    BY ConcatProperties
  <2> QED
    BY <1>2, <2>1, <2>2
<1>9. Behind((two \o a) \o rest, two \o a) = rest
  BY <1>8, BehindJoin
<1> QED
  BY <1>1, <1>3, <1>4, <1>7, <1>8, <1>9 DEF AfterAuthority

LEMMA PathJoin ==
  ASSUME NEW p \in Seq(Unit), Clear(p, {"?", "#"}), NEW rest \in Seq(Unit), Stopped(rest, {"?", "#"}),
         NEW w, AfterAuthority(w) = p \o rest
  PROVE  Path(w) = p /\ AfterPath(w) = rest
<1>1. PICK stops : stops = {"?", "#"}
  OBVIOUS
<1>2. Until(p \o rest, stops) = p
  BY <1>1, UntilJoin
<1>3. Path(w) = p
  BY <1>1, <1>2 DEF Path
<1>4. Behind(p \o rest, p) = rest
  BY BehindJoin
<1> QED
  BY <1>3, <1>4 DEF AfterPath

\* A mark and what follows it, if there is any.
Marked(v, mark, has, part) == v = IF has THEN <<mark>> \o part ELSE << >>

LEMMA MarkedIs ==
  ASSUME NEW mark \in Unit, NEW has \in BOOLEAN, NEW part \in Seq(Unit), NEW v, Marked(v, mark, has, part)
  PROVE  v \in Seq(Unit) /\ (v # << >> <=> has) /\ (has => v[1] = mark /\ Tail(v) = part)
<1>1. CASE has
  <2>1. v = <<mark>> \o part
    BY <1>1 DEF Marked
  <2> QED
    BY <1>1, <2>1, TailJoin
<1>2. CASE ~has
  BY <1>2, EmptySeq DEF Marked
<1> QED
  BY <1>1, <1>2

LEMMA QueryJoin ==
  ASSUME NEW hq \in BOOLEAN, NEW q \in Seq(Unit), Clear(q, {"#"}),
         NEW hf \in BOOLEAN, NEW f \in Seq(Unit),
         NEW u, Marked(u, "?", hq, q), NEW v, Marked(v, "#", hf, f),
         NEW w, Joined(AfterPath(w), u, v)
  PROVE  HasQuery(w) = hq /\ Query(w) = IF hq THEN q ELSE << >>
<1>1. PICK ask \in Unit, hash \in Unit : ask = "?" /\ hash = "#"
  BY MarksAre
<1>2. u \in Seq(Unit) /\ (u # << >> <=> hq) /\ (hq => u[1] = ask)
  BY <1>1, MarkedIs
<1>3. v \in Seq(Unit) /\ (v # << >> <=> hf) /\ (hf => v[1] = hash)
  BY <1>1, MarkedIs
<1>4. PICK x \in Seq(Unit) : x = u \o v /\ x = AfterPath(w)
  BY <1>2, <1>3, ConcatProperties DEF Joined
<1>5. CASE hq
  <2>1. PICK y \in Seq(Unit) : y = q \o v
    BY <1>3, ConcatProperties
  <2>2. x = <<ask>> \o y
    <3>1. u = <<ask>> \o q /\ <<ask>> \in Seq(Unit)
      BY <1>1, <1>5 DEF Marked
    <3>2. (<<ask>> \o q) \o v = <<ask>> \o (q \o v)
      BY <1>3, <3>1, ConcatAssociative
    <3> QED
      BY <1>4, <2>1, <3>1, <3>2
  <2>3. Tail(x) = y /\ Starts(x, <<ask>>)
    BY <2>2, TailJoin
  <2>4. HasQuery(w)
    BY <1>1, <1>4, <2>3 DEF HasQuery
  <2>5. PICK stops : stops = {"#"}
    OBVIOUS
  <2>6. Stopped(v, stops)
    BY <1>1, <1>3, <2>5 DEF Stopped
  <2>7. Until(q \o v, stops) = q
    BY <1>3, <2>5, <2>6, UntilJoin
  <2>8. Query(w) = q
    BY <1>4, <2>1, <2>3, <2>4, <2>5, <2>7 DEF Query
  <2> QED
    BY <1>5, <2>4, <2>8 DEF HasQuery, Starts, IsPrefix
<1>6. CASE ~hq
  <2>1. x = v
    BY <1>2, <1>3, <1>4, <1>6, HeadJoin
  <2>2. ~Starts(x, <<ask>>)
    <3>1. Starts(v, <<ask>>) => v # << >> /\ v[1] = ask
      <4>1. Starts(v, <<ask>>) <=> Len(v) >= 1 /\ v[1] = ask
        BY <1>3, SingleIs
      <4> QED
        BY <1>3, <4>1, EmptySeq
    <3>2. ask # hash
      BY <1>1
    <3> QED
      BY <1>3, <2>1, <3>1, <3>2
  <2>3. ~HasQuery(w)
    BY <1>1, <1>4, <2>2 DEF HasQuery
  <2> QED
    BY <1>6, <2>3 DEF Query, HasQuery, Starts, IsPrefix
<1> QED
  BY <1>5, <1>6

LEMMA FragmentJoin ==
  ASSUME NEW pre \in Seq(Unit), Clear(pre, {"#"}), NEW hf \in BOOLEAN, NEW f \in Seq(Unit),
         NEW v, Marked(v, "#", hf, f), NEW w, Joined(w, pre, v)
  PROVE  HasFragment(w) = hf /\ Fragment(w) = IF hf THEN f ELSE << >>
<1>1. PICK hash \in Unit : hash = "#"
  BY MarksAre
<1>2. v \in Seq(Unit) /\ (v # << >> <=> hf) /\ (hf => v[1] = hash)
  BY <1>1, MarkedIs
<1>3. PICK m \in Nat : m = Len(pre)
  OBVIOUS
<1>a. w = pre \o v
  BY DEF Joined
<1>4. \A i \in 1..m : pre[i] # hash
  BY <1>1, <1>3 DEF Clear
<1>5. CASE hf
  <2>1. PICK y \in Seq(Unit) : y = pre \o <<hash>> /\ Len(y) = m + 1
    <3>1. <<hash>> \in Seq(Unit) /\ Len(<<hash>>) = 1
      OBVIOUS
    <3>2. pre \o <<hash>> \in Seq(Unit) /\ Len(pre \o <<hash>>) = m + 1
      BY <1>3, <3>1, ConcatProperties
    <3> QED
      BY <3>2
  <2>2. w = y \o f
    <3>1. v = <<hash>> \o f /\ <<hash>> \in Seq(Unit)
      BY <1>1, <1>5 DEF Marked
    <3>2. (pre \o <<hash>>) \o f = pre \o (<<hash>> \o f)
      BY <3>1, ConcatAssociative
    <3> QED
      BY <1>a, <2>1, <3>1, <3>2
  <2>3. w \in Seq(Unit) /\ Behind(w, y) = f
    BY <2>2, BehindJoin, ConcatProperties
  <2>4. Len(w) = m + Len(v) /\ (\A i \in 1..m : w[i] = pre[i]) /\ w[m + 1] = hash /\ Len(v) \in Nat \ {0}
    <3>1. PICK n \in Nat : n = Len(v)
      BY <1>2
    <3>2. n # 0
      BY <1>2, <1>5, <3>1, EmptySeq
    <3>3. Len(w) = m + n /\ \A i \in 1..(m + n) : w[i] = IF i <= m THEN pre[i] ELSE v[i - m]
      BY <1>a, <1>2, <1>3, <3>1, ConcatProperties
    <3>4. w[m + 1] = v[(m + 1) - m] /\ (m + 1) - m = 1
      BY <3>2, <3>3
    <3> QED
      BY <1>2, <1>5, <3>1, <3>2, <3>3, <3>4
  <2> DEFINE I == {i \in 1..Len(w) : w[i] = hash}
  <2>5. I \in SUBSET Nat /\ m + 1 \in I
    BY <2>3, <2>4
  <2>6. Min(I) = m + 1
    <3>1. PICK k : k = Min(I)
      OBVIOUS
    <3>2. k \in I /\ \A n \in I : k <= n
      <4> HIDE DEF I
      <4> QED
        BY <2>5, <3>1, MinIs
    <3>3. k \in Nat /\ k >= 1 /\ w[k] = hash /\ k <= m + 1
      BY <2>4, <2>5, <3>2
    <3>4. ~(k <= m)
      <4>1. \A i \in 1..m : w[i] = pre[i] /\ pre[i] # hash
        BY <1>4, <2>4
      <4>2. k \in 1..m => w[k] # hash
        BY <4>1
      <4> QED
        BY <3>3, <4>2
    <3>5. k = m + 1
      BY <3>3, <3>4
    <3> HIDE DEF I
    <3> QED
      BY <3>1, <3>5
  <2>7. SelectInSeq(w, LAMBDA c : c = "#") = m + 1
    BY <1>1, <2>5, <2>6 DEF SelectInSeq
  <2>8. HasFragment(w)
    <3>1. m + 1 \in 1..Len(w)
      BY <2>4
    <3> QED
      BY <1>1, <2>4, <3>1 DEF HasFragment, Contains
  <2>9. Fragment(w) = SubSeq(w, (m + 1) + 1, Len(w))
    BY <2>7, <2>8 DEF Fragment
  <2>10. Fragment(w) = f
    BY <2>1, <2>3, <2>9 DEF Behind
  <2> QED
    BY <1>5, <2>8, <2>10 DEF HasFragment, Contains
<1>6. CASE ~hf
  <2>1. w = pre
    <3>1. v = << >>
      BY <1>2, <1>6
    <3>2. pre \o << >> = pre
      BY ConcatEmptySeq
    <3> QED
      BY <1>a, <3>1, <3>2
  <2>2. ~HasFragment(w)
    BY <1>1, <1>3, <1>4, <2>1 DEF HasFragment, Contains
  <2> QED
    BY <1>6, <2>2 DEF Fragment, HasFragment, Contains
<1> QED
  BY <1>5, <1>6

Assembled(w, s, a, p, u, v) == w = s \o (<<":">> \o (<<"/", "/">> \o (a \o (p \o (u \o v)))))

\* What the parts of a URL with an authority are, and how they are read.
UrlParts(s, a, p, hq, q, hf, f) ==
  /\ s \in Seq(Unit) /\ Clear(s, Unit \ SchemeChar) /\ s # << >> /\ s[1] \in Alpha
  /\ a \in Seq(Unit) /\ Clear(a, {"/", "?", "#"}) /\ Rooted(p) /\ Clear(p, {"?", "#"})
  /\ hq \in BOOLEAN /\ q \in Seq(Unit) /\ Clear(q, {"#"}) /\ (hq \/ q = << >>)
  /\ hf \in BOOLEAN /\ f \in Seq(Unit) /\ (hf \/ f = << >>)

ReadAs(w, s, a, p, hq, q, hf, f) ==
  /\ w \in Seq(Unit)
  /\ Split(w) = [has_scheme |-> TRUE, scheme |-> s, has_authority |-> TRUE, authority |-> a,
                 path |-> p, has_query |-> hq, query |-> q, has_fragment |-> hf, fragment |-> f]

LEMMA SplitJoin ==
  ASSUME NEW s, NEW a, NEW p, NEW hq, NEW q, NEW hf, NEW f, UrlParts(s, a, p, hq, q, hf, f),
         NEW u, Marked(u, "?", hq, q), NEW v, Marked(v, "#", hf, f),
         NEW w, Assembled(w, s, a, p, u, v)
  PROVE  ReadAs(w, s, a, p, hq, q, hf, f)
<1>0. /\ s \in Seq(Unit) /\ Clear(s, Unit \ SchemeChar) /\ s # << >> /\ s[1] \in Alpha
      /\ a \in Seq(Unit) /\ Clear(a, {"/", "?", "#"}) /\ Rooted(p) /\ Clear(p, {"?", "#"})
      /\ hq \in BOOLEAN /\ q \in Seq(Unit) /\ Clear(q, {"#"}) /\ (hq \/ q = << >>)
      /\ hf \in BOOLEAN /\ f \in Seq(Unit) /\ (hf \/ f = << >>)
  BY DEF UrlParts
<1> USE <1>0
<1>1. PICK ask \in Unit, hash \in Unit, slash \in Unit : ask = "?" /\ hash = "#" /\ slash = "/"
  BY MarksAre
<1>2. u \in Seq(Unit) /\ (u # << >> <=> hq) /\ (hq => u[1] = ask)
  BY <1>1, MarkedIs
<1>3. v \in Seq(Unit) /\ (v # << >> <=> hf) /\ (hf => v[1] = hash)
  BY <1>1, MarkedIs
<1>4. p \in Seq(Unit) /\ p # << >> /\ p[1] = slash
  BY <1>1 DEF Rooted
<1>5. PICK uv \in Seq(Unit) : uv = u \o v
  BY <1>2, <1>3, ConcatProperties
<1>6. PICK rest \in Seq(Unit) : rest = p \o uv
  BY <1>4, <1>5, ConcatProperties
<1>7. PICK x \in Seq(Unit) : x = a \o rest
  BY <1>6, ConcatProperties
<1>8. PICK two \in Seq(Unit) : two = <<"/", "/">>
  <2>1. <<slash, slash>> \in Seq(Unit)
    OBVIOUS
  <2> QED
    BY <1>1, <2>1
<1>9. PICK h \in Seq(Unit) : h = two \o x
  BY <1>7, <1>8, ConcatProperties
<1>10. w = s \o (<<":">> \o h)
  BY <1>5, <1>6, <1>7, <1>8, <1>9 DEF Assembled
<1>11. w \in Seq(Unit) /\ HasScheme(w) /\ SchemeWord(w) = s /\ Hier(w) = h
  BY <1>10, SchemeJoin
<1>12. rest # << >> /\ rest[1] = slash
  BY <1>4, <1>5, <1>6, HeadJoin
<1>13. HasAuthority(w) /\ Authority(w) = a /\ AfterAuthority(w) = rest
  <2>1. Stopped(rest, {"/", "?", "#"})
    BY <1>1, <1>12 DEF Stopped
  <2>2. Hier(w) = <<"/", "/">> \o (a \o rest)
    BY <1>7, <1>8, <1>9, <1>11
  <2> QED
    BY <2>1, <2>2, AuthorityJoin
<1>14. Stopped(uv, {"?", "#"})
  <2>1. CASE hq
    <3>1. uv[1] = ask
      BY <1>2, <1>3, <1>5, <2>1, HeadJoin
    <3> QED
      BY <1>1, <3>1 DEF Stopped
  <2>2. CASE ~hq
    <3>1. uv = v
      BY <1>2, <1>3, <1>5, <2>2, HeadJoin
    <3> QED
      BY <1>1, <1>3, <3>1 DEF Stopped
  <2> QED
    BY <2>1, <2>2
<1>15. Path(w) = p /\ AfterPath(w) = uv
  BY <1>4, <1>6, <1>13, <1>14, PathJoin
<1>16. HasQuery(w) = hq /\ Query(w) = q
  <2>1. Joined(AfterPath(w), u, v)
    BY <1>5, <1>15 DEF Joined
  <2>2. HasQuery(w) = hq /\ Query(w) = IF hq THEN q ELSE << >>
    BY <2>1, QueryJoin
  <2> QED
    BY <2>2
<1>17. HasFragment(w) = hf /\ Fragment(w) = f
  <2>1. PICK colon \in Unit : colon = ":" /\ colon # hash
    BY <1>1, MarksAre
  <2>2. PICK cs \in Seq(Unit) : cs = <<colon>> /\ Len(cs) = 1 /\ cs[1] = colon
    <3>1. <<colon>> \in Seq(Unit) /\ Len(<<colon>>) = 1 /\ <<colon>>[1] = colon
      OBVIOUS
    <3> QED
      BY <3>1
  <2>a. PICK pu \in Seq(Unit) : pu = p \o u
    BY <1>2, <1>4, ConcatProperties
  <2>b. PICK apu \in Seq(Unit) : apu = a \o pu
    BY ConcatProperties
  <2>c. PICK tapu \in Seq(Unit) : tapu = two \o apu
    BY ConcatProperties
  <2>d. PICK ctapu \in Seq(Unit) : ctapu = cs \o tapu
    BY ConcatProperties
  <2>e. PICK pre \in Seq(Unit) : pre = s \o ctapu
    BY ConcatProperties
  <2>f. PICK no : no = {hash}
    OBVIOUS
  <2>4. Joined(w, pre, v)
    <3>1. u \in Seq(Unit) /\ v \in Seq(Unit) /\ p \in Seq(Unit)
      BY <1>2, <1>3, <1>4
    <3>2. PICK ch \in Seq(Unit) : ch = cs \o h
      BY ConcatProperties
    <3>3. Joined(rest, pu, v)
      <4>1. Joined(pu, p, u) /\ Joined(uv, u, v) /\ Joined(rest, p, uv)
        BY <1>5, <1>6, <2>a DEF Joined
      <4> QED
        BY <3>1, <4>1, Regroup, SMTT(60)
    <3>4. Joined(x, apu, v)
      <4>1. Joined(apu, a, pu) /\ Joined(x, a, rest)
        BY <1>7, <2>b DEF Joined
      <4> QED
        BY <3>1, <3>3, <4>1, Regroup, SMTT(60)
    <3>5. Joined(h, tapu, v)
      <4>1. Joined(tapu, two, apu) /\ Joined(h, two, x)
        BY <1>9, <2>c DEF Joined
      <4> QED
        BY <3>1, <3>4, <4>1, Regroup, SMTT(60)
    <3>6. Joined(ch, ctapu, v)
      <4>1. Joined(ctapu, cs, tapu) /\ Joined(ch, cs, h)
        BY <2>d, <3>2 DEF Joined
      <4> QED
        BY <3>1, <3>5, <4>1, Regroup, SMTT(60)
    <3>7. Joined(pre, s, ctapu) /\ Joined(w, s, ch)
      BY <1>10, <2>1, <2>2, <2>e, <3>2 DEF Joined
    <3> QED
      BY <3>1, <3>6, <3>7, Regroup, SMTT(60)
  <2>5. Clear(pre, no)
    <3>1. Clear(p, no) /\ Clear(a, no)
      BY <1>1, <2>f DEF Clear
    <3>2. Clear(u, no)
      <4>1. CASE hq
        <5>1. u = <<ask>> \o q /\ <<ask>> \in Seq(Unit) /\ Len(<<ask>>) = 1 /\ <<ask>>[1] = ask
          BY <1>1, <4>1, SMTT(60) DEF Marked
        <5>2. Clear(<<ask>>, no) /\ Clear(q, no)
          BY <1>1, <2>f, <5>1 DEF Clear
        <5> QED
          BY <5>1, <5>2, ClearJoin
      <4>2. CASE ~hq
        BY <4>2 DEF Marked, Clear
      <4> QED
        BY <4>1, <4>2
    <3>3. Clear(two, no)
      <4>1. two = <<slash, slash>> /\ slash # hash
        BY <1>1, <1>8
      <4>2. Len(<<slash, slash>>) = 2 /\ <<slash, slash>>[1] = slash /\ <<slash, slash>>[2] = slash
        OBVIOUS
      <4>3. Len(two) = 2 /\ \A i \in 1..2 : two[i] = slash
        BY <4>1, <4>2
      <4> QED
        BY <2>f, <4>1, <4>3 DEF Clear
    <3>4. Clear(cs, no)
      BY <2>1, <2>2, <2>f DEF Clear
    <3>5. Clear(s, no)
      BY <1>1, <2>f, MarksAre DEF Clear
    <3>6. Clear(pu, no)
      BY <1>2, <1>4, <2>a, <3>1, <3>2, ClearJoin
    <3>7. Clear(apu, no)
      BY <2>b, <3>1, <3>6, ClearJoin
    <3>8. Clear(tapu, no)
      BY <2>c, <3>3, <3>7, ClearJoin
    <3>9. Clear(ctapu, no)
      BY <2>d, <3>4, <3>8, ClearJoin
    <3> QED
      BY <2>e, <3>5, <3>9, ClearJoin
  <2>6. HasFragment(w) = hf /\ Fragment(w) = IF hf THEN f ELSE << >>
    <3>1. Clear(pre, {"#"})
      BY <1>1, <2>5, <2>f
    <3> QED
      BY <2>4, <3>1, FragmentJoin
  <2> QED
    BY <2>6
<1> QED
  BY <1>11, <1>13, <1>15, <1>16, <1>17 DEF Split, ReadAs

(***************************************************************************)
(* Errors.                                                                 *)
(***************************************************************************)
LEMMA FirstErrorIs ==
  ASSUME NEW checks, NEW n \in Nat, Len(checks) = n
  PROVE  /\ (\A i \in 1..n : ~checks[i][1]) => FirstError(checks) = "OK"
         /\ (FirstError(checks) = "OK" /\ \A i \in 1..n : checks[i][2] # "OK") => \A i \in 1..n : ~checks[i][1]
<1> DEFINE I == {i \in 1..n : checks[i][1]}
           k == IF I # {} THEN Min(I) ELSE 0
<1>1. FirstError(checks) = IF k = 0 THEN "OK" ELSE checks[k][2]
  BY DEF FirstError, SelectInSeq
<1>2. ASSUME \A i \in 1..n : ~checks[i][1] PROVE FirstError(checks) = "OK"
  <2>1. I = {}
    BY <1>2
  <2> QED
    BY <1>1, <2>1
<1>3. ASSUME FirstError(checks) = "OK", \A i \in 1..n : checks[i][2] # "OK", NEW i \in 1..n, checks[i][1]
      PROVE  FALSE
  <2>1. I # {} /\ I \in SUBSET Nat
    BY <1>3
  <2>2. k \in I
    <3> HIDE DEF I
    <3> QED
      BY <2>1, MinIs
  <2>3. k \in 1..n /\ k # 0
    <3> HIDE DEF k
    <3> QED
      BY <2>2
  <2> HIDE DEF k
  <2> QED
    BY <1>1, <1>3, <2>3
<1> QED
  BY <1>2, <1>3

LEMMA FirstOfIs ==
  ASSUME NEW codes, NEW n \in Nat, Len(codes) = n
  PROVE  FirstOf(codes) = "OK" <=> \A i \in 1..n : codes[i] = "OK"
<1> DEFINE I == {i \in 1..n : codes[i] # "OK"}
           k == IF I # {} THEN Min(I) ELSE 0
<1>1. FirstOf(codes) = IF k = 0 THEN "OK" ELSE codes[k]
  BY DEF FirstOf, SelectInSeq
<1>2. ASSUME \A i \in 1..n : codes[i] = "OK" PROVE FirstOf(codes) = "OK"
  <2>1. I = {}
    BY <1>2
  <2> QED
    BY <1>1, <2>1
<1>3. ASSUME FirstOf(codes) = "OK", NEW i \in 1..n, codes[i] # "OK"
      PROVE  FALSE
  <2>1. I # {} /\ I \in SUBSET Nat
    BY <1>3
  <2>2. k \in I
    <3> HIDE DEF I
    <3> QED
      BY <2>1, MinIs
  <2>3. k \in 1..n /\ k # 0 /\ codes[k] # "OK"
    <3> HIDE DEF k
    <3> QED
      BY <2>2
  <2> HIDE DEF k
  <2> QED
    BY <1>1, <1>3, <2>3
<1> QED
  BY <1>2, <1>3

LEMMA AuthorityErrorIs ==
  ASSUME NEW a
  PROVE  AuthorityError(a) = "OK" <=>
           /\ ~Contains(a, "@")
           /\ ~(IsLiteral(a) /\ ~Contains(a, "]"))
           /\ ~(PortPart(a) # << >> /\ PortPart(a)[1] # ":")
           /\ Host(a) # << >>
           /\ ~(Size(Host(a)) > HostMax)
           /\ IsPort(PortDigits(a))
<1> DEFINE c1 == Contains(a, "@")
           c2 == IsLiteral(a) /\ ~Contains(a, "]")
           c3 == PortPart(a) # << >> /\ PortPart(a)[1] # ":"
           c4 == Host(a) = << >>
           c5 == Size(Host(a)) > HostMax
           c6 == ~IsPort(PortDigits(a))
           checks == << <<c1, "HOST">>, <<c2, "HOST">>, <<c3, "HOST">>, <<c4, "HOST">>, <<c5, "OVERFLOW">>, <<c6, "PORT">> >>
<1>1. AuthorityError(a) = FirstError(checks)
  BY DEF AuthorityError
<1> HIDE DEF c1, c2, c3, c4, c5, c6
<1>2. Len(checks) = 6 /\ \A i \in 1..6 : checks[i][2] # "OK"
  OBVIOUS
<1>3. (\A i \in 1..6 : ~checks[i][1]) <=> ~c1 /\ ~c2 /\ ~c3 /\ ~c4 /\ ~c5 /\ ~c6
  OBVIOUS
<1> HIDE DEF checks
<1>4. FirstError(checks) = "OK" <=> ~c1 /\ ~c2 /\ ~c3 /\ ~c4 /\ ~c5 /\ ~c6
  BY <1>2, <1>3, FirstErrorIs
<1> QED
  BY <1>1, <1>4 DEF c1, c2, c3, c4, c5, c6

LEMMA UntilSame ==
  ASSUME NEW S, NEW w \in Seq(S), NEW stops
  PROVE  Until(w, stops) = w <=> Clear(w, stops)
<1>1. ASSUME Until(w, stops) = w PROVE Clear(w, stops)
  BY <1>1, UntilIs DEF Clear
<1>2. ASSUME Clear(w, stops) PROVE Until(w, stops) = w
  <2>1. << >> \in Seq(S) /\ w \o << >> = w /\ Stopped(<< >>, stops)
    BY EmptySeq, ConcatEmptySeq DEF Stopped
  <2>2. Until(w \o << >>, stops) = w
    BY <1>2, <2>1, UntilJoin
  <2> QED
    BY <2>1, <2>2
<1> QED
  BY <1>1, <1>2

LEMMA InputErrorIs ==
  ASSUME NEW w \in Seq(Unit)
  PROVE  InputError(w) = "OK" <=> Clear(w, Refused) /\ Size(w) <= MaxLen /\ w # << >>
<1> DEFINE clean == Until(w, Refused)
           c1 == Size(clean) >= MaxLen /\ (clean # w \/ Size(w) > MaxLen)
           c2 == clean # w /\ w[Len(clean) + 1] = " "
           c3 == clean # w
           c4 == w = << >>
           checks == << <<c1, "TOO_LONG">>, <<c2, "SPACE">>, <<c3, "CONTROL">>, <<c4, "EMPTY">> >>
<1>1. InputError(w) = FirstError(checks)
  BY DEF InputError
<1>2. ~c1 /\ ~c2 /\ ~c3 /\ ~c4 <=> Clear(w, Refused) /\ Size(w) <= MaxLen /\ w # << >>
  <2>1. Size(w) \in Nat /\ MaxLen \in Nat
    BY SizeIs, UrlConstants
  <2>2. clean = w <=> Clear(w, Refused)
    BY UntilSame
  <2>3. PICK n \in Nat, m \in Nat : n = Size(w) /\ m = MaxLen
    BY <2>1
  <2>4. CASE clean = w
    <3>1. ~c2 /\ ~c3 /\ (c1 <=> n > m)
      BY <2>3, <2>4
    <3> QED
      BY <2>2, <2>3, <2>4, <3>1
  <2>5. CASE clean # w
    BY <2>2, <2>5
  <2> QED
    BY <2>4, <2>5
<1> HIDE DEF c1, c2, c3, c4
<1>3. Len(checks) = 4 /\ \A i \in 1..4 : checks[i][2] # "OK"
  OBVIOUS
<1>4. (\A i \in 1..4 : ~checks[i][1]) <=> ~c1 /\ ~c2 /\ ~c3 /\ ~c4
  OBVIOUS
<1> HIDE DEF checks
<1>5. FirstError(checks) = "OK" <=> ~c1 /\ ~c2 /\ ~c3 /\ ~c4
  BY <1>3, <1>4, FirstErrorIs
<1> QED
  BY <1>1, <1>2, <1>5

LEMMA NormalErrorIs ==
  ASSUME NEW w \in Seq(Unit), NEW cap \in Nat
  PROVE  NormalError(w, cap) = "OK" <=> Clear(w, {BadTriplet}) /\ Size(Normalized(w)) <= cap
<1>0. PICK bad : bad = {BadTriplet}
  OBVIOUS
<1> DEFINE good == Until(w, bad)
           c1 == Size(Normalized(good)) > cap
           c2 == good # w
           checks == << <<c1, "OVERFLOW">>, <<c2, "PERCENT">> >>
<1>1. NormalError(w, cap) = FirstError(checks)
  BY <1>0 DEF NormalError
<1>2. ~c1 /\ ~c2 <=> Clear(w, bad) /\ Size(Normalized(w)) <= cap
  <2>1. Size(Normalized(w)) \in Nat
    BY SizeIs, NormalizedIs
  <2>2. good = w <=> Clear(w, bad)
    BY UntilSame
  <2> QED
    BY <2>1, <2>2
<1> HIDE DEF c1, c2
<1>3. Len(checks) = 2 /\ \A i \in 1..2 : checks[i][2] # "OK"
  OBVIOUS
<1>4. (\A i \in 1..2 : ~checks[i][1]) <=> ~c1 /\ ~c2
  OBVIOUS
<1> HIDE DEF checks
<1>5. FirstError(checks) = "OK" <=> ~c1 /\ ~c2
  BY <1>3, <1>4, FirstErrorIs
<1> QED
  BY <1>0, <1>1, <1>2, <1>5

\* What parse_raw and normalize_raw leave of the components of a text.
Sized(c) ==
  /\ Size(c.scheme) <= SchemeMax /\ Size(c.path) <= PathMax
  /\ Size(c.query) <= QueryMax /\ Size(c.fragment) <= QueryMax

LEMMA RawErrorIs ==
  ASSUME NEW c, Size(c.scheme) \in Nat, Size(c.path) \in Nat, Size(c.query) \in Nat, Size(c.fragment) \in Nat
  PROVE  RawError(c) = "OK" <=> Sized(c) /\ (c.has_authority => AuthorityError(c.authority) = "OK")
<1> DEFINE c1 == IF Size(c.scheme) > SchemeMax THEN "SCHEME" ELSE "OK"
           c2 == IF c.has_authority THEN AuthorityError(c.authority) ELSE "OK"
           c3 == IF Size(c.path) > PathMax THEN "OVERFLOW" ELSE "OK"
           c4 == IF Size(c.query) > QueryMax THEN "OVERFLOW" ELSE "OK"
           c5 == IF Size(c.fragment) > QueryMax THEN "OVERFLOW" ELSE "OK"
           codes == <<c1, c2, c3, c4, c5>>
<1>1. RawError(c) = FirstOf(codes)
  BY DEF RawError
<1>2. c1 = "OK" /\ c2 = "OK" /\ c3 = "OK" /\ c4 = "OK" /\ c5 = "OK" <=>
        Sized(c) /\ (c.has_authority => AuthorityError(c.authority) = "OK")
  BY UrlConstants DEF Sized
<1> HIDE DEF c1, c2, c3, c4, c5
<1>3. Len(codes) = 5 /\ ((\A i \in 1..5 : codes[i] = "OK") <=> c1 = "OK" /\ c2 = "OK" /\ c3 = "OK" /\ c4 = "OK" /\ c5 = "OK")
  OBVIOUS
<1> HIDE DEF codes
<1>4. FirstOf(codes) = "OK" <=> \A i \in 1..5 : codes[i] = "OK"
  BY <1>3, FirstOfIs
<1> QED
  BY <1>1, <1>2, <1>3, <1>4

LEMMA ComponentsErrorIs ==
  ASSUME NEW c
  PROVE  ComponentsError(c) = "OK" <=>
           /\ NormalError(Host(c.authority), HostMax) = "OK" /\ NormalError(c.path, PathMax) = "OK"
           /\ NormalError(c.query, QueryMax) = "OK" /\ NormalError(c.fragment, QueryMax) = "OK"
<1> DEFINE c1 == NormalError(Host(c.authority), HostMax)
           c2 == NormalError(c.path, PathMax)
           c3 == NormalError(c.query, QueryMax)
           c4 == NormalError(c.fragment, QueryMax)
           codes == <<c1, c2, c3, c4>>
<1>1. ComponentsError(c) = FirstOf(codes)
  BY DEF ComponentsError
<1> HIDE DEF c1, c2, c3, c4
<1>2. Len(codes) = 4 /\ ((\A i \in 1..4 : codes[i] = "OK") <=> c1 = "OK" /\ c2 = "OK" /\ c3 = "OK" /\ c4 = "OK")
  OBVIOUS
<1> HIDE DEF codes
<1>3. FirstOf(codes) = "OK" <=> \A i \in 1..4 : codes[i] = "OK"
  BY <1>2, FirstOfIs
<1> QED
  BY <1>1, <1>2, <1>3 DEF c1, c2, c3, c4

LEMMA RefErrorIs ==
  ASSUME NEW w, NEW c
  PROVE  RefError(w, c) = "OK" <=> InputError(w) = "OK" /\ RawError(c) = "OK" /\ ComponentsError(c) = "OK"
<1> DEFINE c1 == InputError(w)
           c2 == RawError(c)
           c3 == ComponentsError(c)
           codes == <<c1, c2, c3>>
<1>1. RefError(w, c) = FirstOf(codes)
  BY DEF RefError
<1> HIDE DEF c1, c2, c3
<1>2. Len(codes) = 3 /\ ((\A i \in 1..3 : codes[i] = "OK") <=> c1 = "OK" /\ c2 = "OK" /\ c3 = "OK")
  OBVIOUS
<1> HIDE DEF codes
<1>3. FirstOf(codes) = "OK" <=> \A i \in 1..3 : codes[i] = "OK"
  BY <1>2, FirstOfIs
<1> QED
  BY <1>1, <1>2, <1>3 DEF c1, c2, c3

LEMMA BaseErrorIs ==
  ASSUME NEW base, NEW b
  PROVE  BaseError(base, b) = "OK" <=>
           base # NoBase /\ InputError(base) = "OK" /\ RawError(b) = "OK" /\ b.has_scheme /\ ComponentsError(b) = "OK"
<1> DEFINE c1 == IF base = NoBase THEN "BASE" ELSE InputError(base)
           c2 == RawError(b)
           c3 == IF b.has_scheme THEN ComponentsError(b) ELSE "BASE"
           codes == <<c1, c2, c3>>
<1>1. BaseError(base, b) = FirstOf(codes)
  BY DEF BaseError
<1>2. c1 = "OK" /\ c2 = "OK" /\ c3 = "OK" <=>
        base # NoBase /\ InputError(base) = "OK" /\ RawError(b) = "OK" /\ b.has_scheme /\ ComponentsError(b) = "OK"
  OBVIOUS
<1> HIDE DEF c1, c2, c3
<1>3. Len(codes) = 3 /\ ((\A i \in 1..3 : codes[i] = "OK") <=> c1 = "OK" /\ c2 = "OK" /\ c3 = "OK")
  OBVIOUS
<1> HIDE DEF codes
<1>4. FirstOf(codes) = "OK" <=> \A i \in 1..3 : codes[i] = "OK"
  BY <1>3, FirstOfIs
<1> QED
  BY <1>1, <1>2, <1>3, <1>4

(***************************************************************************)
(* Hosts and ports.                                                        *)
(***************************************************************************)
\* A name, or a literal in brackets.
HostShape(h) ==
  /\ h \in Seq(Unit) /\ Len(h) >= 1 /\ Clear(h, {"/", "?", "#", "@"})
  /\ IF h[1] = "[" THEN h[Len(h)] = "]" /\ \A i \in 1..(Len(h) - 1) : h[i] # "]"
     ELSE Clear(h, {":"})

LEMMA LiteralIs ==
  ASSUME NEW a \in Seq(Unit)
  PROVE  /\ IsLiteral(a) <=> Len(a) >= 1 /\ a[1] = "["
         /\ Contains(a, "]") <=> ~Clear(a, {"]"})
         /\ Contains(a, "@") <=> ~Clear(a, {"@"})
<1>1. PICK open \in Unit : open = "["
  BY MarksAre
<1>2. Starts(a, <<open>>) <=> Len(a) >= 1 /\ a[1] = open
  BY SingleIs
<1> QED
  BY <1>1, <1>2 DEF IsLiteral, Contains, Clear

LEMMA HostShaped ==
  ASSUME NEW a \in Seq(Unit), Clear(a, {"/", "?", "#"}), AuthorityError(a) = "OK"
  PROVE  HostShape(Host(a)) /\ Len(Host(a)) <= Len(a)
<1>1. /\ ~Contains(a, "@") /\ (IsLiteral(a) => Contains(a, "]"))
      /\ Host(a) # << >>
  BY AuthorityErrorIs
<1>2. \A i \in 1..Len(a) : a[i] \notin {"/", "?", "#", "@"}
  BY <1>1, LiteralIs DEF Clear
<1>3. CASE IsLiteral(a)
  <2>1. PICK shut \in Unit : shut = "]"
    BY MarksAre
  <2>2. PICK u : u = Until(a, {"]"})
    OBVIOUS
  <2>3. Host(a) = Append(u, shut)
    BY <1>1, <1>3, <2>1, <2>2 DEF Host
  <2>4. /\ u \in Seq(Unit) /\ Len(u) \in 0..Len(a)
        /\ \A i \in 1..Len(u) : u[i] = a[i] /\ a[i] # shut
        /\ Len(u) # Len(a) => a[Len(u) + 1] = shut
    <3>1. PICK stops : stops = {"]"}
      OBVIOUS
    <3>2. /\ u \in Seq(Unit) /\ Len(u) \in 0..Len(a)
          /\ \A i \in 1..Len(u) : u[i] = a[i] /\ a[i] \notin stops
          /\ Len(u) # Len(a) => a[Len(u) + 1] \in stops
      BY <2>2, <3>1, UntilIs
    <3> QED
      BY <2>1, <3>1, <3>2
  <2>5. PICK m \in Nat, n \in Nat : m = Len(u) /\ n = Len(a)
    BY <2>4
  <2>6. m < n
    <3>1. PICK i \in 1..n : a[i] = shut
      BY <1>1, <1>3, <2>1, <2>5 DEF Contains
    <3>2. ~(i <= m)
      BY <2>4, <2>5, <3>1
    <3> QED
      BY <3>1, <3>2
  <2>7. a[m + 1] = shut /\ n >= 1 /\ a[1] = "["
    BY <1>3, <2>4, <2>5, <2>6, LiteralIs
  <2>8. m # 0
    BY <2>1, <2>7
  <2>9. PICK h \in Seq(Unit) : h = Append(u, shut) /\ Len(h) = m + 1 /\ (\A i \in 1..m : h[i] = u[i]) /\ h[m + 1] = shut
    <3>1. Append(u, shut) \in Seq(Unit) /\ Len(Append(u, shut)) = m + 1
      BY <2>4, <2>5, AppendProperties
    <3>2. (\A i \in 1..m : Append(u, shut)[i] = u[i]) /\ Append(u, shut)[m + 1] = shut
      BY <2>4, <2>5, AppendProperties
    <3> QED
      BY <3>1, <3>2
  <2>10. \A i \in 1..(m + 1) : h[i] = a[i]
    <3>1. ASSUME NEW i \in 1..(m + 1) PROVE h[i] = a[i]
      <4>1. CASE i <= m
        BY <2>4, <2>5, <2>9, <4>1
      <4>2. CASE ~(i <= m)
        BY <2>7, <2>9, <4>2
      <4> QED
        BY <4>1, <4>2
    <3> QED
      BY <3>1
  <2>11. h[1] = "[" /\ h[Len(h)] = "]" /\ \A i \in 1..(Len(h) - 1) : h[i] # "]"
    <3>1. h[1] = a[1] /\ Len(h) - 1 = m
      BY <2>9, <2>10
    <3> QED
      BY <2>1, <2>4, <2>5, <2>7, <2>9, <3>1
  <2>12. Clear(h, {"/", "?", "#", "@"})
    <3>1. \A i \in 1..(m + 1) : i \in 1..Len(a)
      BY <2>5, <2>6
    <3> QED
      BY <1>2, <2>9, <2>10, <3>1 DEF Clear
  <2>13. HostShape(h)
    BY <2>9, <2>11, <2>12 DEF HostShape
  <2> QED
    BY <2>3, <2>5, <2>6, <2>9, <2>13
<1>4. CASE ~IsLiteral(a)
  <2>1. PICK stops : stops = {":"}
    OBVIOUS
  <2>2. PICK h : h = Until(a, stops)
    OBVIOUS
  <2>3. Host(a) = h
    BY <1>4, <2>1, <2>2 DEF Host
  <2>4. /\ h \in Seq(Unit) /\ Len(h) \in 0..Len(a)
        /\ \A i \in 1..Len(h) : h[i] = a[i] /\ a[i] \notin stops
    BY <2>2, UntilIs
  <2>5. PICK m \in Nat, n \in Nat : m = Len(h) /\ n = Len(a) /\ m <= n /\ m # 0
    BY <1>1, <2>3, <2>4, EmptySeq
  <2>6. h[1] # "["
    <3>1. h[1] = a[1]
      BY <2>4, <2>5
    <3> QED
      BY <1>4, <2>5, <3>1, LiteralIs
  <2>7. Clear(h, stops)
    BY <2>4 DEF Clear
  <2>8. Clear(h, {"/", "?", "#", "@"})
    BY <1>2, <2>4, <2>5 DEF Clear
  <2> QED
    BY <2>1, <2>3, <2>4, <2>5, <2>6, <2>7, <2>8 DEF HostShape
<1> QED
  BY <1>3, <1>4

LEMMA HostJoin ==
  ASSUME NEW h, HostShape(h), NEW hp \in BOOLEAN, NEW ds \in Seq(Unit),
         NEW pp, Marked(pp, ":", hp, ds), NEW a, Joined(a, h, pp)
  PROVE  /\ Host(a) = h /\ PortPart(a) = pp /\ PortDigits(a) = IF hp THEN ds ELSE << >>
         /\ IsLiteral(a) => Contains(a, "]")
<1>1. PICK colon \in Unit, shut \in Unit : colon = ":" /\ shut = "]"
  BY MarksAre
<1>2. pp \in Seq(Unit) /\ (pp # << >> <=> hp) /\ (hp => pp[1] = colon /\ Tail(pp) = ds)
  BY <1>1, MarkedIs
<1>3. h \in Seq(Unit) /\ a = h \o pp
  BY DEF HostShape, Joined
<1>4. PICK m \in Nat, n \in Nat : m = Len(h) /\ n = Len(pp)
  BY <1>2, <1>3
<1>5. a \in Seq(Unit) /\ Len(a) = m + n /\ (\A i \in 1..m : a[i] = h[i]) /\ m >= 1
  <2>1. a \in Seq(Unit) /\ Len(a) = m + n
    BY <1>2, <1>3, <1>4, ConcatProperties
  <2>2. \A i \in 1..(m + n) : a[i] = IF i <= m THEN h[i] ELSE pp[i - m]
    BY <1>2, <1>3, <1>4, ConcatProperties
  <2>3. \A i \in 1..m : i \in 1..(m + n) /\ i <= m
    OBVIOUS
  <2>4. m >= 1
    BY <1>4 DEF HostShape
  <2> QED
    BY <2>1, <2>2, <2>3, <2>4
<1>6. a[1] = h[1]
  BY <1>5
<1>7. ASSUME h[1] = "[" PROVE Host(a) = h /\ (IsLiteral(a) => Contains(a, "]"))
  <2>1. h[m] = shut /\ \A i \in 1..(m - 1) : h[i] # shut
    BY <1>1, <1>4, <1>7 DEF HostShape
  <2>2. IsLiteral(a)
    BY <1>5, <1>6, <1>7, LiteralIs
  <2>3. Contains(a, "]")
    <3>1. m \in 1..Len(a) /\ a[m] = shut
      BY <1>5, <2>1
    <3> QED
      BY <1>1, <3>1 DEF Contains
  <2>4. PICK stops : stops = {"]"}
    OBVIOUS
  <2>5. PICK u : u = Until(a, stops)
    OBVIOUS
  <2>6. /\ u \in Seq(Unit) /\ Len(u) \in 0..Len(a)
        /\ \A i \in 1..Len(u) : u[i] = a[i] /\ a[i] \notin stops
        /\ Len(u) # Len(a) => a[Len(u) + 1] \in stops
    BY <1>5, <2>5, UntilIs
  <2>7. PICK k \in Nat : k = Len(u)
    BY <2>6
  <2>8. k < m
    <3>1. SUFFICES ASSUME k >= m PROVE FALSE
      OBVIOUS
    <3>2. m \in 1..k
      BY <1>5, <3>1
    <3>3. a[m] # shut
      BY <1>1, <2>4, <2>6, <2>7, <3>2
    <3> QED
      BY <1>5, <2>1, <3>3
  <2>9. k + 1 = m
    <3>1. k # Len(a) /\ k + 1 \in 1..m
      BY <1>5, <2>8
    <3>2. h[k + 1] = shut
      BY <1>1, <1>5, <2>4, <2>6, <2>7, <3>1
    <3>3. k + 1 \notin 1..(m - 1)
      BY <2>1, <3>2
    <3> QED
      BY <3>1, <3>3
  <2>10. Append(u, shut) = h
    <3>1. PICK z \in Seq(Unit) : z = Append(u, shut)
      BY <2>6, AppendProperties
    <3>2. Len(z) = m /\ (\A i \in 1..k : z[i] = u[i]) /\ z[k + 1] = shut
      BY <2>6, <2>7, <2>9, <3>1, AppendProperties
    <3>3. ASSUME NEW i \in 1..m PROVE z[i] = h[i]
      <4>1. CASE i = m
        BY <2>1, <2>9, <3>2, <4>1
      <4>2. CASE i # m
        <5>1. i \in 1..k
          BY <2>9, <4>2
        <5> QED
          BY <1>5, <2>6, <2>7, <3>2, <5>1
      <4> QED
        BY <4>1, <4>2
    <3>4. z = h
      BY <1>3, <1>4, <3>1, <3>2, <3>3, SeqEqual
    <3> QED
      BY <3>1, <3>4
  <2> QED
    BY <1>1, <2>2, <2>3, <2>4, <2>5, <2>10 DEF Host
<1>8. ASSUME h[1] # "[" PROVE Host(a) = h /\ (IsLiteral(a) => Contains(a, "]"))
  <2>1. ~IsLiteral(a)
    BY <1>5, <1>6, <1>8, LiteralIs
  <2>2. PICK stops : stops = {":"}
    OBVIOUS
  <2>3. Clear(h, stops) /\ Stopped(pp, stops)
    BY <1>1, <1>2, <1>8, <2>2 DEF HostShape, Stopped
  <2>4. Until(h \o pp, stops) = h
    BY <1>2, <1>3, <2>3, UntilJoin
  <2> QED
    BY <1>3, <2>1, <2>2, <2>4 DEF Host
<1>9. Host(a) = h /\ (IsLiteral(a) => Contains(a, "]"))
  BY <1>7, <1>8

<1>10. PortPart(a) = pp
  <2>1. Behind(h \o pp, h) = pp
    BY <1>2, <1>3, BehindJoin
  <2> QED
    BY <1>3, <1>9, <2>1 DEF PortPart
<1>11. PortDigits(a) = IF hp THEN ds ELSE << >>
  <2>1. PortDigits(a) = SubSeq(pp, 2, Len(pp))
    BY <1>10 DEF PortDigits
  <2>2. CASE hp
    <3>1. pp # << >> /\ Tail(pp) = ds
      BY <1>2, <2>2
    <3>2. SubSeq(pp, 2, Len(pp)) = Tail(pp)
      BY <1>2, <3>1, TailIsSubSeq
    <3> QED
      BY <2>1, <2>2, <3>1, <3>2
  <2>3. CASE ~hp
    <3>1. pp = << >>
      BY <1>2, <2>3
    <3>2. Len(pp) = 0
      BY <3>1
    <3>3. SubSeq(pp, 2, 0) = << >>
      BY <1>2, SubSeqEmpty
    <3> QED
      BY <2>1, <2>3, <3>2, <3>3
  <2> QED
    BY <2>2, <2>3
<1> QED
  BY <1>9, <1>10, <1>11

(***************************************************************************)
(* Ports.                                                                  *)
(***************************************************************************)
LEMMA DigitsAre ==
  /\ \A d \in Digit : DigitValue[d] \in 0..9
  /\ \A k \in 0..9 : Numeral(k) \in Digit /\ DigitValue[Numeral(k)] = k
<1>1. \A d \in Digit : DigitValue[d] \in 0..9
  BY DEF DigitValue, Digit
<1>2. ASSUME NEW k \in 0..9 PROVE \E d \in Digit : DigitValue[d] = k
  BY DEF DigitValue, Digit
<1> QED
  BY <1>1, <1>2 DEF Numeral

\* r says what the first digits of w come to.
Values(r, w) ==
  r \in [0..Len(w) -> Nat] /\ r[0] = 0 /\ \A k \in 1..Len(w) : r[k] = 10 * r[k - 1] + DigitValue[w[k]]

LEMMA PortFold ==
  ASSUME NEW w \in Seq(Digit)
  PROVE  \E r : Values(r, w) /\ PortValue(w) = r[Len(w)]
<1>1. PICK n \in Nat : n = Len(w)
  OBVIOUS
<1>2. DOMAIN w = 1..n
  BY <1>1
<1>p. ASSUME NEW k \in 1..n PROVE DigitValue[w[k]] \in Nat
  <2>1. w[k] \in Digit
    BY <1>1
  <2>2. DigitValue[w[k]] \in 0..9
    BY <2>1, DigitsAre
  <2> QED
    BY <2>2
<1> DEFINE G(f) == [s \in SUBSET DOMAIN w |->
                      IF s = {} THEN 0 ELSE 10 * f[s \ {Max(s)}] + DigitValue[w[Max(s)]]]
           g == CHOOSE f : f = G(f)
           T == [k \in 1..n |-> [v \in Nat |-> 10 * v + DigitValue[w[k]]]]
<1>3. PortValue(w) = g[1..n]
  BY <1>2 DEF PortValue, FoldLeft, MapThenFoldSet
<1>4. T \in [1..n -> [Nat -> Nat]]
  BY <1>p
<1>c. PICK X : X = Nat
  OBVIOUS
<1>d. PICK zero \in X : zero = 0
  BY <1>c
<1>b. X = Nat /\ zero = 0
  BY <1>c, <1>d
<1>a. \A s \in SUBSET (1..n) : s # {} => Max(s) \in 1..n
  <2>1. ASSUME NEW s \in SUBSET (1..n), s # {} PROVE Max(s) \in 1..n
    <3>1. s \in SUBSET Nat /\ \A i \in s : i <= n
      BY <2>1
    <3> QED
      BY <2>1, <3>1, MaxIs
  <2> QED
    BY <2>1
<1>5. g = G(g)
  <2>1. PICK t \in [1..n -> [X -> X]] : t = T
    BY <1>b, <1>4
  <2>a. PICK f : FoldsAll(f, n, X, zero, t)
    <3> HIDE DEF T, G, g
    <3>1. n \in Nat /\ zero \in X /\ t \in [1..n -> [X -> X]]
      BY <1>1
    <3> QED
      BY <3>1, Folded
  <2>2. /\ f \in [SUBSET (1..n) -> X]
        /\ \A s \in SUBSET (1..n) : f[s] = IF s = {} THEN zero ELSE t[Max(s)][f[s \ {Max(s)}]]
    BY <2>a DEF FoldsAll
  <2>3. \A s \in SUBSET (1..n) : f[s] = IF s = {} THEN 0 ELSE 10 * f[s \ {Max(s)}] + DigitValue[w[Max(s)]]
    <3>1. ASSUME NEW s \in SUBSET (1..n), s # {} PROVE f[s] = 10 * f[s \ {Max(s)}] + DigitValue[w[Max(s)]]
      <4>1. f[s \ {Max(s)}] \in Nat
        BY <1>b, <2>2
      <4> QED
        BY <1>a, <1>b, <1>p, <2>1, <2>2, <3>1, <4>1
    <3>2. f[{}] = 0
      BY <1>b, <2>2
    <3> QED
      BY <3>1, <3>2
  <2>4. f = G(f)
    BY <1>2, <2>2, <2>3
  <2> HIDE DEF G
  <2> QED
    BY <2>4
<1>6. Folding(g, n, X, zero, T)
  <2> HIDE DEF g
  <2>1. g[{}] = 0
    BY <1>5
  <2>2. ASSUME NEW s \in SUBSET (1..n), s # {}, g[s \ {Max(s)}] \in Nat
        PROVE  g[s] = T[Max(s)][g[s \ {Max(s)}]]
    <3>1. g[s] = 10 * g[s \ {Max(s)}] + DigitValue[w[Max(s)]]
      BY <1>2, <1>5, <2>2
    <3> QED
      BY <1>a, <2>2, <3>1
  <2> HIDE DEF T
  <2> QED
    BY <1>b, <2>1, <2>2 DEF Folding
<1>7. PICK r \in [0..n -> X] : r[0] = zero /\ \A k \in 1..n : r[k] = T[k][r[k - 1]]
  <2> HIDE DEF T
  <2>1. PICK t \in [1..n -> [X -> X]] : t = T
    BY <1>b, <1>4
  <2>2. \E r \in [0..n -> X] : r[0] = zero /\ \A k \in 1..n : r[k] = t[k][r[k - 1]]
    BY Iterates, SMTT(60)
  <2> QED
    BY <2>1, <2>2
<1>8. Stepping(r, n, X, zero, T)
  <2> HIDE DEF T
  <2> QED
    BY <1>7 DEF Stepping
<1>9. g[1..n] = r[n]
  <2> HIDE DEF g, T
  <2>1. PICK t \in [1..n -> [X -> X]] : t = T
    BY <1>b, <1>4
  <2>2. Folding(g, n, X, zero, t) /\ Stepping(r, n, X, zero, t)
    BY <1>6, <1>8, <2>1
  <2> QED
    BY <2>2, FoldIs
<1>10. \A k \in 1..n : r[k] = 10 * r[k - 1] + DigitValue[w[k]]
  <2>1. ASSUME NEW k \in 1..n PROVE r[k] = 10 * r[k - 1] + DigitValue[w[k]]
    <3>1. k - 1 \in 0..n /\ r[k - 1] \in Nat
      BY <1>b
    <3> QED
      BY <1>7, <3>1
  <2> QED
    BY <2>1
<1> QED
  BY <1>b, <1>1, <1>3, <1>7, <1>9, <1>10 DEF Values

LEMMA PortOne ==
  ASSUME NEW d \in Digit
  PROVE  PortValue(<<d>>) = DigitValue[d]
<1>1. PICK w \in Seq(Digit) : w = <<d>> /\ Len(w) = 1 /\ w[1] = d
  BY OneIs
<1>2. PICK r : Values(r, w) /\ PortValue(w) = r[Len(w)]
  BY PortFold
<1>3. r[0] = 0 /\ r[1] = 10 * r[0] + DigitValue[w[1]]
  BY <1>1, <1>2 DEF Values
<1>4. DigitValue[d] \in 0..9
  BY DigitsAre
<1> QED
  BY <1>1, <1>2, <1>3, <1>4

LEMMA PortMore ==
  ASSUME NEW v \in Seq(Digit), NEW d \in Digit
  PROVE  PortValue(Append(v, d)) = 10 * PortValue(v) + DigitValue[d]
<1>1. PICK n \in Nat : n = Len(v)
  OBVIOUS
<1>2. PICK w \in Seq(Digit) : w = Append(v, d)
  BY AppendProperties
<1>3. Len(w) = n + 1 /\ (\A i \in 1..n : w[i] = v[i]) /\ w[n + 1] = d
  BY <1>1, <1>2, AppendProperties
<1>4. PICK q : Values(q, v) /\ PortValue(v) = q[n]
  BY <1>1, PortFold
<1>5. PICK r : Values(r, w) /\ PortValue(w) = r[n + 1]
  BY <1>3, PortFold
<1>6. q \in [0..n -> Nat] /\ q[0] = 0 /\ \A k \in 1..n : q[k] = 10 * q[k - 1] + DigitValue[v[k]]
  BY <1>1, <1>4 DEF Values
<1>7. r \in [0..(n + 1) -> Nat] /\ r[0] = 0 /\ \A k \in 1..(n + 1) : r[k] = 10 * r[k - 1] + DigitValue[w[k]]
  BY <1>3, <1>5 DEF Values
<1> DEFINE P == {k \in Nat : k <= n => r[k] = q[k]}
<1>8. P = Nat
  <2>1. 0 \in P
    BY <1>6, <1>7
  <2>2. ASSUME NEW k \in P PROVE k + 1 \in P
    <3>1. SUFFICES ASSUME k + 1 <= n PROVE r[k + 1] = q[k + 1]
      OBVIOUS
    <3>2. k \in 0..n /\ k + 1 \in 1..n /\ k + 1 \in 1..(n + 1) /\ r[k] = q[k] /\ (k + 1) - 1 = k
      BY <3>1
    <3>3. w[k + 1] = v[k + 1]
      BY <1>3, <3>2
    <3>4. r[k + 1] = 10 * r[k] + DigitValue[w[k + 1]]
      BY <1>7, <3>2
    <3>5. q[k + 1] = 10 * q[k] + DigitValue[v[k + 1]]
      BY <1>6, <3>2
    <3> QED
      BY <3>2, <3>3, <3>4, <3>5
  <2>3. P \in SUBSET Nat
    OBVIOUS
  <2> HIDE DEF P
  <2> QED
    BY <2>1, <2>2, <2>3, Induct
<1>9. r[n] = q[n]
  BY <1>8
<1>10. n + 1 \in 1..(n + 1) /\ (n + 1) - 1 = n
  OBVIOUS
<1>11. r[n + 1] = 10 * r[n] + DigitValue[d]
  BY <1>3, <1>7, <1>10
<1> QED
  BY <1>2, <1>4, <1>5, <1>9, <1>11

LEMMA TenfoldIs ==
  ASSUME NEW k \in Nat, k >= 10
  PROVE  k \div 10 \in Nat /\ k \div 10 < k /\ k % 10 \in 0..9 /\ k = 10 * (k \div 10) + (k % 10)
<1>1. k \div 10 \in Nat /\ k % 10 \in 0..9 /\ k = 10 * (k \div 10) + (k % 10)
  OBVIOUS
<1>2. PICK q \in Nat, r \in 0..9 : q = k \div 10 /\ k = 10 * q + r
  BY <1>1
<1>3. q < k
  BY <1>2
<1> QED
  BY <1>1, <1>2, <1>3

LEMMA DecimalTurn ==
  ASSUME NEW n \in Nat
  PROVE  /\ n < 10 => Decimal(n) = <<Numeral(n)>>
         /\ n >= 10 => Decimal(n) = Append(Decimal(n \div 10), Numeral(n % 10))
<1>1. PICK X : X = Seq(Digit)
  OBVIOUS
<1> DEFINE next(f, k) == IF k < 10 THEN <<Numeral(k)>> ELSE Append(f[k \div 10], Numeral(k % 10))
           size == [k \in Nat |-> k]
           step == [f \in [Nat -> X] |-> [k \in Nat |-> next(f, k)]]
           digits == CHOOSE f : f = [k \in Nat |-> next(f, k)]
<1>2. \A k \in Nat : k >= 10 => k \div 10 \in Nat /\ k \div 10 < k /\ k % 10 \in 0..9 /\ k = 10 * (k \div 10) + (k % 10)
  BY TenfoldIs
<1>3. X # {}
  BY <1>1, EmptySeq
<1>4. step \in [[Nat -> X] -> [Nat -> X]]
  <2>1. ASSUME NEW f \in [Nat -> X], NEW k \in Nat PROVE next(f, k) \in X
    <3>1. CASE k < 10
      <4>1. Numeral(k) \in Digit
        BY <3>1, DigitsAre
      <4> QED
        BY <1>1, <3>1, <4>1, OneIs
    <3>2. CASE ~(k < 10)
      <4>1. f[k \div 10] \in Seq(Digit)
        BY <1>1, <1>2, <3>2
      <4>2. k % 10 \in 0..9
        BY <1>2, <3>2
      <4>3. Numeral(k % 10) \in Digit
        BY <4>2, DigitsAre
      <4> QED
        BY <1>1, <3>2, <4>1, <4>3, AppendProperties
    <3> QED
      BY <3>1, <3>2
  <2> HIDE DEF next
  <2> QED
    BY <2>1
<1>5. ASSUME NEW f \in [Nat -> X], NEW g \in [Nat -> X], NEW k \in Nat, \A j \in Nat : size[j] < size[k] => f[j] = g[j]
      PROVE  step[f][k] = step[g][k]
  <2>1. k >= 10 => f[k \div 10] = g[k \div 10]
    BY <1>2, <1>5
  <2>2. next(f, k) = next(g, k)
    BY <2>1
  <2> HIDE DEF next
  <2> QED
    BY <2>2
<1>6. Founded(Nat, X, size, step)
  <2> HIDE DEF step
  <2>1. size \in [Nat -> Nat]
    OBVIOUS
  <2> HIDE DEF size
  <2> QED
    BY <1>3, <1>4, <1>5, <2>1 DEF Founded
<1>7. PICK f \in [Nat -> X] : f = step[f]
  <2> HIDE DEF size, step
  <2> QED
    BY <1>6, Recursion
<1>8. digits = [k \in Nat |-> next(digits, k)]
  <2>1. f = [k \in Nat |-> next(f, k)]
    <3> HIDE DEF next
    <3> QED
      BY <1>7
  <2> HIDE DEF next
  <2> QED
    BY <2>1
<1>9. \A k : Decimal(k) = digits[k]
  BY DEF Decimal
<1> HIDE DEF digits
<1>10. digits[n] = next(digits, n)
  BY <1>8
<1>11. n >= 10 <=> ~(n < 10)
  OBVIOUS
<1> HIDE DEF size, step
<1> QED
  BY <1>9, <1>10, <1>11, Zenon

\* url_append_u32 writes digits that are read as the number.
LEMMA DecimalIs ==
  ASSUME NEW n \in Nat
  PROVE  Decimal(n) \in Seq(Digit) /\ Decimal(n) # << >> /\ PortValue(Decimal(n)) = n
<1> DEFINE size == [k \in Nat |-> k]
           Q == {k \in Nat : Decimal(k) \in Seq(Digit) /\ Decimal(k) # << >> /\ PortValue(Decimal(k)) = k}
<1>1. ASSUME NEW k \in Nat, \A j \in Nat : j < k => j \in Q PROVE k \in Q
  <2>1. CASE k < 10
    <3>1. PICK d \in Digit : d = Numeral(k) /\ DigitValue[d] = k
      BY <2>1, DigitsAre
    <3>2. Decimal(k) = <<d>>
      BY <2>1, <3>1, DecimalTurn
    <3>3. <<d>> \in Seq(Digit) /\ <<d>> # << >> /\ PortValue(<<d>>) = k
      BY <3>1, OneIs, PortOne
    <3> QED
      BY <3>2, <3>3
  <2>2. CASE ~(k < 10)
    <3>1. PICK j \in Nat : j = k \div 10 /\ j < k /\ k % 10 \in 0..9 /\ k = 10 * j + (k % 10)
      BY <2>2, TenfoldIs
    <3>2. PICK d \in Digit : d = Numeral(k % 10) /\ DigitValue[d] = k % 10
      BY <3>1, DigitsAre
    <3>3. PICK v \in Seq(Digit) : v = Decimal(j) /\ PortValue(v) = j
      BY <1>1, <3>1
    <3>4. Decimal(k) = Append(v, d)
      BY <2>2, <3>1, <3>2, <3>3, DecimalTurn
    <3>5. Append(v, d) \in Seq(Digit) /\ Append(v, d) # << >>
      BY AppendProperties
    <3>6. PortValue(Append(v, d)) = k
      BY <3>1, <3>2, <3>3, PortMore
    <3> QED
      BY <3>4, <3>5, <3>6
  <2> QED
    BY <2>1, <2>2
<1>2. Q = Nat
  <2>1. Q \in SUBSET Nat
    OBVIOUS
  <2> HIDE DEF Q
  <2>2. ASSUME NEW k \in Nat, \A j \in Nat : size[j] < size[k] => j \in Q PROVE k \in Q
    <3>1. \A j \in Nat : j < k => j \in Q
      BY <2>2
    <3> QED
      BY <1>1, <3>1
  <2>3. size \in [Nat -> Nat]
    OBVIOUS
  <2>4. Inherited(Nat, size, Q)
    <3> HIDE DEF size
    <3> QED
      BY <2>1, <2>2, <2>3 DEF Inherited
  <2> HIDE DEF size
  <2> QED
    BY <2>4, BySize
<1> QED
  BY <1>2

(***************************************************************************)
(* A path without its dot segments.                                        *)
(***************************************************************************)
LEMMA Halves ==
  ASSUME NEW S, NEW w \in Seq(S), NEW k \in 0..Len(w)
  PROVE  /\ SubSeq(w, 1, k) \in Seq(S) /\ SubSeq(w, k + 1, Len(w)) \in Seq(S)
         /\ Len(SubSeq(w, 1, k)) = k /\ Len(SubSeq(w, k + 1, Len(w))) = Len(w) - k
         /\ w = SubSeq(w, 1, k) \o SubSeq(w, k + 1, Len(w))
<1>1. PICK n \in Nat : n = Len(w)
  OBVIOUS
<1>2. 1 \in 1..(n + 1) /\ k \in (1 - 1)..n /\ k - 1 + 1 = k
  BY <1>1
<1>3. k + 1 \in 1..(n + 1) /\ n \in ((k + 1) - 1)..n /\ n - (k + 1) + 1 = n - k
  BY <1>1
<1>4. PICK u : u = SubSeq(w, 1, k)
  OBVIOUS
<1>5. PICK v : v = SubSeq(w, k + 1, n)
  OBVIOUS
<1>6. u \in Seq(S) /\ Len(u) = k /\ \A i \in 1..k : u[i] = w[i]
  <2>1. u \in Seq(S) /\ Len(u) = k - 1 + 1 /\ \A i \in 1..(k - 1 + 1) : u[i] = w[1 + i - 1]
    BY <1>1, <1>2, <1>4, PartIs
  <2>2. \A i \in 1..k : 1 + i - 1 = i
    BY <1>2
  <2> QED
    BY <1>2, <2>1, <2>2
<1>7. v \in Seq(S) /\ Len(v) = n - k /\ \A i \in 1..(n - k) : v[i] = w[k + i]
  <2>1. v \in Seq(S) /\ Len(v) = n - (k + 1) + 1 /\ \A i \in 1..(n - (k + 1) + 1) : v[i] = w[(k + 1) + i - 1]
    BY <1>1, <1>3, <1>5, PartIs
  <2>2. \A i \in 1..(n - k) : (k + 1) + i - 1 = k + i
    BY <1>1, <1>2
  <2> QED
    BY <1>3, <2>1, <2>2
<1>8. PICK x : x = u \o v
  OBVIOUS
<1>9. /\ x \in Seq(S) /\ Len(x) = n
      /\ \A i \in 1..n : x[i] = IF i <= k THEN u[i] ELSE v[i - k]
  <2>1. /\ x \in Seq(S) /\ Len(x) = Len(u) + Len(v)
        /\ \A i \in 1..(Len(u) + Len(v)) : x[i] = IF i <= Len(u) THEN u[i] ELSE v[i - Len(u)]
    BY <1>6, <1>7, <1>8, ConcatProperties
  <2>2. Len(u) + Len(v) = n
    BY <1>1, <1>2, <1>6, <1>7
  <2> QED
    BY <1>6, <2>1, <2>2
<1>10. ASSUME NEW i \in 1..n PROVE x[i] = w[i]
  <2>1. CASE i <= k
    BY <1>6, <1>9, <2>1
  <2>2. CASE ~(i <= k)
    <3>1. i - k \in 1..(n - k) /\ k + (i - k) = i
      BY <1>1, <2>2
    <3>2. v[i - k] = w[k + (i - k)]
      BY <1>7, <3>1
    <3> QED
      BY <1>9, <2>2, <3>1, <3>2
  <2> QED
    BY <2>1, <2>2
<1>11. x = w
  BY <1>1, <1>9, <1>10, SeqEqual
<1> QED
  BY <1>1, <1>4, <1>5, <1>6, <1>7, <1>8, <1>11

LEMMA SizeFront ==
  ASSUME NEW S, NEW w \in Seq(S), NEW k \in 0..Len(w)
  PROVE  Size(SubSeq(w, 1, k)) <= Size(w)
<1>1. /\ SubSeq(w, 1, k) \in Seq(S) /\ SubSeq(w, k + 1, Len(w)) \in Seq(S)
      /\ w = SubSeq(w, 1, k) \o SubSeq(w, k + 1, Len(w))
  BY Halves
<1>2. PICK u \in Seq(S), v \in Seq(S) : u = SubSeq(w, 1, k) /\ w = u \o v
  BY <1>1
<1>3. Size(w) = Size(u) + Size(v)
  BY <1>2, SizeJoin
<1>4. Size(u) \in Nat /\ Size(v) \in Nat
  BY SizeIs
<1> QED
  BY <1>2, <1>3, <1>4

LEMMA PopKept ==
  ASSUME NEW S \in SUBSET Unit, NEW out \in Seq(S)
  PROVE  Pop(out) \in Seq(S) /\ Size(Pop(out)) <= Size(out)
<1> DEFINE k == LastOf(out, {"/"})
<1>1. k \in 0..Len(out) /\ Len(out) \in Nat
  BY LastIs
<1>2. Pop(out) = IF k = 0 THEN << >> ELSE SubSeq(out, 1, k - 1)
  BY DEF Pop, UpTo, LastSlash, LastOf
<1> HIDE DEF k
<1>3. CASE k = 0
  <2>1. << >> \in Seq(S)
    BY EmptySeq
  <2>2. Size(<< >>) = 0 /\ Size(out) \in Nat
    BY <2>1, SizeIs
  <2> QED
    BY <1>2, <1>3, <2>1, <2>2
<1>4. CASE k # 0
  <2>1. k - 1 \in 0..Len(out)
    BY <1>1, <1>4
  <2> QED
    BY <1>2, <1>4, <2>1, Halves, SizeFront
<1> QED
  BY <1>3, <1>4

Parts(in, s, rest) == s = FirstOfPath(in) /\ rest = RestOfPath(in)

\* A path of some units, and its parts.
LEMMA PartsKept ==
  ASSUME NEW S \in SUBSET Unit, "/" \in S, NEW in \in Seq(S), Rooted(in),
         NEW s, NEW rest, Parts(in, s, rest)
  PROVE  /\ <<"/">> \o s \in Seq(S) /\ rest \in Seq(S) /\ Len(rest) < Len(in) /\ IsPath(rest)
         /\ Size(in) = Size(<<"/">> \o s) + Size(rest) /\ Size(in) >= 1
<1>1. in \in Seq(Unit) /\ in # << >> /\ Len(in) \in Nat
  BY DEF Rooted
<1>2. /\ s \in Seq(Unit) /\ Len(s) + 1 <= Len(in)
      /\ \A i \in 1..Len(s) : s[i] = in[i + 1] /\ s[i] # "/"
      /\ rest \in Seq(Unit) /\ Len(rest) = Len(in) - (Len(s) + 1)
      /\ \A i \in 1..Len(rest) : rest[i] = in[Len(s) + 1 + i]
      /\ Len(rest) < Len(in) /\ IsPath(rest)
  BY <1>1, FirstRest DEF Parts
<1>3. PICK n \in Nat, m \in Nat : n = Len(s) /\ m = Len(rest) /\ Len(in) = n + 1 + m
  <2>1. Len(s) \in Nat /\ Len(rest) \in Nat /\ Len(in) = Len(s) + 1 + Len(rest)
    BY <1>1, <1>2
  <2> QED
    BY <2>1
<1>4. s \in Seq(S)
  <2>1. \A i \in 1..n : i + 1 \in 1..Len(in)
    BY <1>3
  <2>2. \A i \in 1..Len(s) : s[i] \in S
    BY <1>2, <1>3, <2>1, SMTT(60)
  <2> QED
    BY <1>2, <2>2, SeqIn
<1>5. rest \in Seq(S)
  <2>1. ASSUME NEW i \in 1..m PROVE rest[i] \in S
    <3>1. n + 1 + i \in 1..Len(in)
      BY <1>3
    <3>2. rest[i] = in[n + 1 + i]
      BY <1>2, <1>3
    <3> QED
      BY <3>1, <3>2
  <2>2. \A i \in 1..Len(rest) : rest[i] \in S
    BY <1>3, <2>1
  <2> QED
    BY <1>2, <2>2, SeqIn
<1>6. PICK q : q = <<"/">> \o s
  OBVIOUS
<1>7. q \in Seq(S)
  <2>1. <<"/">> \in Seq(S)
    BY OneIs
  <2> QED
    BY <1>4, <1>6, <2>1, ConcatProperties
<1>8. in = q \o rest
  <2>1. Composed(in, FirstOfPath(in), RestOfPath(in))
    BY PathParts
  <2> QED
    BY <1>6, <2>1 DEF Composed, Parts
<1>9. Size(in) = Size(q) + Size(rest)
  BY <1>5, <1>7, <1>8, SizeJoin
<1>10. Size(in) >= Len(in) /\ Size(in) \in Nat /\ Len(in) # 0
  BY <1>1, SizeIs, EmptySeq
<1> QED
  BY <1>1, <1>2, <1>5, <1>6, <1>7, <1>9, <1>10

AllKept(loop, S, in) ==
  \A out \in Seq(S) : loop[<<in, out>>] \in Seq(S) /\ Size(loop[<<in, out>>]) <= Size(out) + Size(in)

LEMMA KeepOn ==
  ASSUME NEW loop, IsLoop(loop), NEW S \in SUBSET Unit, "/" \in S, NEW in \in Seq(S), Rooted(in),
         Rooted(RestOfPath(in)) => AllKept(loop, S, RestOfPath(in))
  PROVE  AllKept(loop, S, in)
<1>1. SUFFICES ASSUME NEW out \in Seq(S)
               PROVE  loop[<<in, out>>] \in Seq(S) /\ Size(loop[<<in, out>>]) <= Size(out) + Size(in)
  BY DEF AllKept
<1>2. PICK s : s = FirstOfPath(in)
  OBVIOUS
<1>3. PICK rest : rest = RestOfPath(in)
  OBVIOUS
<1>4. PICK q : q = <<"/">> \o s
  OBVIOUS
<1>5. /\ q \in Seq(S) /\ rest \in Seq(S) /\ IsPath(rest)
      /\ Size(in) = Size(q) + Size(rest) /\ Size(in) >= 1
  <2>1. Parts(in, s, rest)
    BY <1>2, <1>3 DEF Parts
  <2> QED
    BY <1>4, <2>1, PartsKept, SMTT(60)
<1>6. PICK a \in Nat, b \in Nat, c \in Nat, n \in Nat :
        a = Size(q) /\ b = Size(rest) /\ c = Size(out) /\ n = Size(in) /\ n = a + b /\ n >= 1
  <2>1. Size(q) \in Nat /\ Size(rest) \in Nat /\ Size(out) \in Nat /\ Size(in) \in Nat
    BY <1>5, SizeIs
  <2> QED
    BY <1>5, <2>1
<1>7. loop[<<in, out>>] = Turn(in, out, loop)
  <2>1. in \in Seq(Unit) /\ out \in Seq(Unit)
    OBVIOUS
  <2>2. <<in, out>> \in Pairs /\ <<in, out>>[1] = in /\ <<in, out>>[2] = out
    BY <2>1 DEF Pairs
  <2> QED
    BY <2>2 DEF IsLoop
<1>8. /\ s = <<".">> /\ rest # << >> => Turn(in, out, loop) = loop[<<rest, out>>]
      /\ s = <<".">> /\ rest = << >> => Turn(in, out, loop) = Append(out, "/")
      /\ s = <<".", ".">> /\ rest # << >> => Turn(in, out, loop) = loop[<<rest, Pop(out)>>]
      /\ s = <<".", ".">> /\ rest = << >> => Turn(in, out, loop) = Append(Pop(out), "/")
      /\ s \notin Dots => Turn(in, out, loop) = loop[<<rest, out \o q>>]
  <2>1. LET first == FirstOfPath(in)
            left == RestOfPath(in)
        IN /\ first = <<".">> /\ left # << >> => Turn(in, out, loop) = loop[<<left, out>>]
           /\ first = <<".">> /\ left = << >> => Turn(in, out, loop) = Append(out, "/")
           /\ first = <<".", ".">> /\ left # << >> => Turn(in, out, loop) = loop[<<left, Pop(out)>>]
           /\ first = <<".", ".">> /\ left = << >> => Turn(in, out, loop) = Append(Pop(out), "/")
           /\ first \notin Dots => Turn(in, out, loop) = loop[<<left, out \o (<<"/">> \o first)>>]
    BY RootedTurn, Zenon
  <2> QED
    BY <1>2, <1>3, <1>4, <2>1
\* With an output no larger than what the turn took, the next turns go on.
<1>9. ASSUME NEW to \in Seq(S), Size(to) <= c + a, Turn(in, out, loop) = loop[<<rest, to>>] \/ rest = << >>
      PROVE  rest # << >> => loop[<<in, out>>] \in Seq(S) /\ Size(loop[<<in, out>>]) <= c + n
  <2>1. SUFFICES ASSUME rest # << >> PROVE loop[<<in, out>>] \in Seq(S) /\ Size(loop[<<in, out>>]) <= c + n
    OBVIOUS
  <2>2. AllKept(loop, S, rest)
    BY <1>3, <1>5, <2>1 DEF IsPath
  <2>3. PICK r \in Seq(S) : r = loop[<<rest, to>>] /\ Size(r) <= Size(to) + Size(rest)
    BY <2>2 DEF AllKept
  <2>4. PICK x \in Nat, y \in Nat : x = Size(r) /\ y = Size(to)
    BY SizeIs
  <2>a. y <= c + a /\ x <= y + b
    BY <1>6, <1>9, <2>3, <2>4
  <2>b. x <= c + n
    BY <1>6, <2>a, SMTT(60)
  <2>5. Size(r) <= c + n
    BY <2>4, <2>b
  <2> QED
    BY <1>7, <1>9, <2>1, <2>3, <2>5
\* A slash is no more than what there was.
<1>10. ASSUME NEW to \in Seq(S), Size(to) <= c, Turn(in, out, loop) = Append(to, "/")
       PROVE  loop[<<in, out>>] \in Seq(S) /\ Size(loop[<<in, out>>]) <= c + n
  <2>1. PICK one \in Seq(S) : one = <<"/">>
    BY OneIs
  <2>2. Append(to, "/") = to \o one
    BY <2>1, AppendIsConcat
  <2>3. to \o one \in Seq(S) /\ Size(to \o one) = Size(to) + Size(one)
    BY ConcatProperties, SizeJoin
  <2>4. Size(one) = 1
    BY <2>1, SizeOne DEF Width, Triplet, BadTriplet
  <2>5. PICK y \in Nat : y = Size(to)
    BY SizeIs
  <2>6. Size(to \o one) <= c + n
    BY <1>6, <1>10, <2>3, <2>4, <2>5, SMTT(60)
  <2> QED
    BY <1>7, <1>10, <2>2, <2>3, <2>6
<1>11. Pop(out) \in Seq(S) /\ Size(Pop(out)) <= c
  BY <1>6, PopKept
<1>12. Size(Pop(out)) \in Nat
  BY <1>11, SizeIs
<1>13. CASE s \in Dots
  <2>1. CASE rest # << >>
    <3>1. CASE s = <<".">>
      <4>1. Turn(in, out, loop) = loop[<<rest, out>>] /\ Size(out) <= c + a
        BY <1>6, <1>8, <2>1, <3>1
      <4> QED
        BY <1>6, <1>9, <2>1, <4>1
    <3>2. CASE s = <<".", ".">>
      <4>1. Turn(in, out, loop) = loop[<<rest, Pop(out)>>] /\ Size(Pop(out)) <= c + a
        BY <1>6, <1>8, <1>11, <1>12, <2>1, <3>2, SMTT(60)
      <4> QED
        BY <1>6, <1>9, <1>11, <2>1, <4>1
    <3> QED
      BY <1>13, <3>1, <3>2 DEF Dots
  <2>2. CASE rest = << >>
    <3>1. CASE s = <<".">>
      <4>1. Turn(in, out, loop) = Append(out, "/") /\ Size(out) <= c
        BY <1>6, <1>8, <2>2, <3>1
      <4> QED
        BY <1>6, <1>10, <4>1
    <3>2. CASE s = <<".", ".">>
      <4>1. Turn(in, out, loop) = Append(Pop(out), "/")
        BY <1>8, <2>2, <3>2
      <4> QED
        BY <1>6, <1>10, <1>11, <4>1
    <3> QED
      BY <1>13, <3>1, <3>2 DEF Dots
  <2> QED
    BY <2>1, <2>2
<1>14. CASE s \notin Dots
  <2>1. PICK to \in Seq(S) : to = out \o q /\ Size(to) = c + a
    <3>1. out \o q \in Seq(S)
      BY <1>5, ConcatProperties
    <3>2. Size(out \o q) = Size(out) + Size(q)
      BY <1>5, SizeJoin
    <3> QED
      BY <1>6, <3>1, <3>2
  <2>2. Turn(in, out, loop) = loop[<<rest, to>>]
    BY <1>8, <1>14, <2>1
  <2>3. CASE rest # << >>
    <3>1. Size(to) <= c + a
      BY <2>1
    <3> QED
      BY <1>6, <1>9, <2>2, <2>3, <3>1
  <2>4. CASE rest = << >>
    <3>1. <<rest, to>> \in Pairs /\ <<rest, to>>[1] = rest /\ <<rest, to>>[2] = to /\ rest \in Seq(Unit)
      <4>1. to \in Seq(Unit) /\ rest \in Seq(Unit)
        BY <1>5
      <4> QED
        BY <4>1 DEF Pairs
    <3>2. loop[<<rest, to>>] = Turn(rest, to, loop)
      BY <3>1 DEF IsLoop
    <3>3. Empties(rest)
      BY <2>4 DEF Empties
    <3>4. Turn(rest, to, loop) = to
      BY <3>1, <3>3, TurnGoes
    <3>5. c + a <= c + n
      BY <1>6
    <3> QED
      BY <1>6, <1>7, <2>1, <2>2, <3>2, <3>4, <3>5
  <2> QED
    BY <2>3, <2>4
<1> QED
  BY <1>13, <1>14

\* What is left of a path has no other units, and is not longer.
LEMMA PathKept ==
  ASSUME NEW S \in SUBSET Unit, "/" \in S, NEW path \in Seq(S), Rooted(path)
  PROVE  RemoveDotSegments(path) \in Seq(S) /\ Size(RemoveDotSegments(path)) <= Size(path)
<1>1. PICK loop : IsLoop(loop) /\ \A w : RemoveDotSegments(w) = loop[<<w, << >>>>]
  BY LoopIs DEF IsLoop
<1>2. PICK Y : Y = Seq(S)
  OBVIOUS
<1> DEFINE size == [v \in Y |-> Len(v)]
           Q == {v \in Y : Rooted(v) => AllKept(loop, S, v)}
<1>3. size \in [Y -> Nat] /\ \A v \in Y : size[v] = Len(v)
  BY <1>2
<1>4. ASSUME NEW v \in Y, \A u \in Y : size[u] < size[v] => u \in Q
      PROVE  v \in Q
  <2>1. SUFFICES ASSUME Rooted(v) PROVE AllKept(loop, S, v)
    OBVIOUS
  <2>2. RestOfPath(v) \in Y /\ Len(RestOfPath(v)) < Len(v)
    <3>1. PICK s, rest : Parts(v, s, rest)
      BY DEF Parts
    <3>2. rest \in Seq(S) /\ Len(rest) < Len(v)
      BY <1>2, <2>1, <3>1, PartsKept
    <3> QED
      BY <1>2, <3>1, <3>2 DEF Parts
  <2>3. RestOfPath(v) \in Q
    <3> HIDE DEF Q, size
    <3> QED
      BY <1>3, <1>4, <2>2
  <2>4. Rooted(RestOfPath(v)) => AllKept(loop, S, RestOfPath(v))
    BY <2>3
  <2> QED
    BY <1>1, <1>2, <2>1, <2>4, KeepOn
<1>5. Q = Y
  <2>1. Q \in SUBSET Y
    OBVIOUS
  <2> HIDE DEF Q, size
  <2>2. Inherited(Y, size, Q)
    BY <1>3, <1>4, <2>1 DEF Inherited
  <2> QED
    BY <2>2, BySize
<1>6. AllKept(loop, S, path)
  BY <1>2, <1>5
<1>7. << >> \in Seq(S) /\ Size(<< >>) = 0
  <2>1. << >> \in Seq(S)
    BY EmptySeq
  <2> QED
    BY <2>1, SizeIs
<1>8. PICK r \in Seq(S) : r = RemoveDotSegments(path) /\ Size(r) <= 0 + Size(path)
  BY <1>1, <1>6, <1>7 DEF AllKept
<1>9. Size(path) \in Nat
  BY SizeIs
<1> QED
  BY <1>8, <1>9

(***************************************************************************)
(* A path without dot segments stays as it is.                             *)
(***************************************************************************)
LEMMA FrontLast ==
  ASSUME NEW S, NEW w \in Seq(S), w # << >>
  PROVE  Front(w) \in Seq(S) /\ Last(w) \in S /\ Len(Front(w)) < Len(w) /\ Append(Front(w), Last(w)) = w
<1>1. PICK n \in Nat : n = Len(w) /\ n # 0
  BY EmptySeq
<1>2. PICK u \in Seq(S) : u = Front(w)
  BY FrontIs
<1>3. PICK c \in S : c = Last(w) /\ c = w[n]
  BY <1>1, FrontIs DEF Last
<1>4. Len(u) = n - 1
  BY <1>1, <1>2, FrontIs
<1>5. \A i \in 1..(n - 1) : u[i] = w[i]
  <2>1. u = SubSeq(w, 1, n - 1)
    BY <1>1, <1>2 DEF Front
  <2>2. 1 \in 1..(n + 1) /\ n - 1 \in (1 - 1)..n /\ (n - 1) - 1 + 1 = n - 1
    BY <1>1
  <2>3. \A i \in 1..((n - 1) - 1 + 1) : u[i] = w[1 + i - 1]
    BY <1>1, <2>1, <2>2, PartIs
  <2>4. \A i \in 1..(n - 1) : 1 + i - 1 = i
    OBVIOUS
  <2> QED
    BY <2>2, <2>3, <2>4
<1>6. PICK v \in Seq(S) : v = Append(u, c)
  BY AppendProperties
<1>7. Len(v) = n /\ (\A i \in 1..(n - 1) : v[i] = u[i]) /\ v[n] = c
  <2>1. Len(v) = Len(u) + 1 /\ (\A i \in 1..Len(u) : v[i] = u[i]) /\ v[Len(u) + 1] = c
    BY <1>6, AppendProperties
  <2>2. (n - 1) + 1 = n
    BY <1>1
  <2> QED
    BY <1>4, <2>1, <2>2
<1>8. ASSUME NEW i \in 1..n PROVE v[i] = w[i]
  <2>1. CASE i = n
    BY <1>3, <1>7, <2>1
  <2>2. CASE i # n
    <3>1. i \in 1..(n - 1)
      BY <2>2
    <3> QED
      BY <1>5, <1>7, <3>1
  <2> QED
    BY <2>1, <2>2
<1>9. v = w
  BY <1>1, <1>7, <1>8, SeqEqual
<1> QED
  BY <1>1, <1>2, <1>3, <1>4, <1>6, <1>9

Free == Seq(Unit) \ Dots

LEMMA GoneFree ==
  ASSUME NEW out \in Seq(Free), NEW s \in Seq(Unit)
  PROVE  Gone(out, s) \in Seq(Free) /\ (s \in Free => Gone(out, s) = Append(out, s))
<1>1. <<".">> # <<".", ".">>
  <2>1. Len(<<".">>) = 1 /\ Len(<<".", ".">>) = 2
    OBVIOUS
  <2> QED
    BY <2>1
<1>2. CASE s = <<".">>
  BY <1>1, <1>2 DEF Gone, Dots, Free
<1>3. CASE s = <<".", ".">>
  <2>1. Gone(out, s) = IF out = << >> THEN out ELSE Front(out)
    BY <1>1, <1>3 DEF Gone
  <2>2. out # << >> => Front(out) \in Seq(Free)
    BY FrontIs
  <2> QED
    BY <1>3, <2>1, <2>2 DEF Dots, Free
<1>4. CASE s \notin Dots
  <2>1. s \in Free
    BY <1>4 DEF Free
  <2>2. Gone(out, s) = Append(out, s)
    BY <1>4 DEF Gone, Dots
  <2>3. Append(out, s) \in Seq(Free)
    BY <2>1, AppendProperties
  <2> QED
    BY <2>2, <2>3
<1> QED
  BY <1>2, <1>3, <1>4 DEF Dots

LEMMA FreeIs ==
  /\ Seq(Free) \subseteq Words /\ << >> \in Free
<1>1. Free \subseteq Seq(Unit)
  BY DEF Free
<1>2. \A w \in Seq(Free) : w \in Words
  BY <1>1 DEF Words
<1>3. << >> \in Free
  <2>1. << >> \in Seq(Unit) /\ Len(<< >>) = 0 /\ Len(<<".">>) = 1 /\ Len(<<".", ".">>) = 2
    BY EmptySeq
  <2>2. << >> # <<".">> /\ << >> # <<".", ".">>
    BY <2>1
  <2> QED
    BY <2>1, <2>2 DEF Free, Dots
<1> QED
  BY <1>2, <1>3

\* A walk gives no dot segment, and keeps what has none.
LEMMA WalkFree ==
  ASSUME NEW walk, IsWalk(walk), NEW ts \in Words
  PROVE  walk[ts] \in Seq(Free) /\ (ts \in Seq(Free) => walk[ts] = ts)
<1>1. PICK Y : Y = Words
  OBVIOUS
<1> DEFINE size == [v \in Y |-> Len(v)]
           Q == {v \in Y : walk[v] \in Seq(Free) /\ (v \in Seq(Free) => walk[v] = v)}
<1>2. size \in [Y -> Nat] /\ \A v \in Y : size[v] = Len(v)
  BY <1>1 DEF Words
<1>3. ASSUME NEW v \in Y, \A u \in Y : size[u] < size[v] => u \in Q
      PROVE  v \in Q
  <2>1. CASE v = << >>
    <3>1. walk[v] = << >> /\ << >> \in Seq(Free)
      BY <2>1, EmptySeq DEF IsWalk
    <3> QED
      BY <2>1, <3>1
  <2>2. CASE v # << >>
    <3>1. v \in Seq(Seq(Unit))
      BY <1>1 DEF Words
    <3>2. PICK u \in Seq(Seq(Unit)), s \in Seq(Unit) :
            u = Front(v) /\ s = Last(v) /\ Len(u) < Len(v) /\ v = Append(u, s)
      BY <2>2, <3>1, FrontLast
    <3>3. u \in Q
      <4>1. u \in Y /\ size[u] < size[v]
        BY <1>1, <1>2, <3>2 DEF Words
      <4> HIDE DEF Q, size
      <4> QED
        BY <1>3, <4>1
    <3>4. walk[v] = Gone(walk[u], s)
      BY <3>2 DEF IsWalk, Words
    <3>5. walk[u] \in Seq(Free) /\ (u \in Seq(Free) => walk[u] = u)
      BY <3>3
    <3>6. Gone(walk[u], s) \in Seq(Free) /\ (s \in Free => Gone(walk[u], s) = Append(walk[u], s))
      BY <3>5, GoneFree
    <3>7. v \in Seq(Free) => u \in Seq(Free) /\ s \in Free
      BY <2>2, <3>2, FrontLast
    <3> QED
      BY <3>2, <3>4, <3>5, <3>6, <3>7
  <2> QED
    BY <2>1, <2>2
<1>4. Q = Y
  <2>1. Q \in SUBSET Y
    OBVIOUS
  <2> HIDE DEF Q, size
  <2>2. Inherited(Y, size, Q)
    BY <1>2, <1>3, <2>1 DEF Inherited
  <2> QED
    BY <2>2, BySize
<1> QED
  BY <1>1, <1>4

LEMMA WalkedFree ==
  ASSUME NEW ss \in Words, ss # << >>
  PROVE  Walked(ss) \in Seq(Free) /\ (ss \in Seq(Free) => Walked(ss) = ss)
<1>1. PICK walk : IsWalk(walk) /\ \A ts : Walked(ts) = EndOf(walk, ts)
  BY WalkIs DEF IsWalk, EndOf
<1>2. walk[ss] \in Seq(Free) /\ (ss \in Seq(Free) => walk[ss] = ss)
  BY <1>1, WalkFree
<1>3. Append(walk[ss], << >>) \in Seq(Free)
  BY <1>2, FreeIs, AppendProperties
<1>4. ss \in Seq(Free) => Last(ss) \notin Dots
  <2>1. ss \in Seq(Free) => Last(ss) \in Free
    BY FrontIs
  <2> QED
    BY <2>1 DEF Free
<1> QED
  BY <1>1, <1>2, <1>3, <1>4 DEF EndOf

\* A path is known by its segments.
LEMMA SegmentsTell ==
  ASSUME NEW a \in Seq(Unit), IsPath(a), NEW b \in Seq(Unit), IsPath(b), SegmentsOf(a) = SegmentsOf(b)
  PROVE  a = b
<1>1. PICK Y : Y = Seq(Unit)
  OBVIOUS
<1> DEFINE size == [v \in Y |-> Len(v)]
           Q == {v \in Y : IsPath(v) => \A w \in Y : IsPath(w) /\ SegmentsOf(v) = SegmentsOf(w) => v = w}
<1>2. size \in [Y -> Nat] /\ \A v \in Y : size[v] = Len(v)
  BY <1>1
<1>3. ASSUME NEW v \in Seq(Unit), IsPath(v), v # << >>
      PROVE  \E s, rest : /\ Composed(v, s, rest) /\ rest \in Seq(Unit) /\ IsPath(rest) /\ Len(rest) < Len(v)
                          /\ SegmentsOf(rest) \in Words /\ SegmentsOf(v) # << >>
                          /\ SegmentsOf(v)[1] = s /\ Tail(SegmentsOf(v)) = SegmentsOf(rest)
  <2>1. PICK s, rest : Parts(v, s, rest)
    BY DEF Parts
  <2>2. Rooted(v)
    BY <1>3 DEF IsPath
  <2>3. Composed(v, s, rest)
    BY <2>1, <2>2, PathParts DEF Parts
  <2>4. s \in Seq(Unit) /\ rest \in Seq(Unit) /\ IsPath(rest) /\ Len(rest) < Len(v)
    BY <1>3, <2>1, FirstRest DEF Parts
  <2>5. SegmentsOf(v) = <<s>> \o SegmentsOf(rest)
    BY <1>3, <2>1, SegmentsTurn DEF Parts
  <2>6. PICK x \in Seq(Seq(Unit)) : x = SegmentsOf(rest)
    BY <2>4, SegmentsTurn DEF Words
  <2>7. Tail(<<s>> \o x) = x /\ (<<s>> \o x)[1] = s /\ <<s>> \o x # << >>
    BY <2>4, TailJoin
  <2> QED
    BY <2>3, <2>4, <2>5, <2>6, <2>7 DEF Words
<1>4. ASSUME NEW v \in Y, \A u \in Y : size[u] < size[v] => u \in Q
      PROVE  v \in Q
  <2>1. SUFFICES ASSUME IsPath(v), NEW w \in Y, IsPath(w), SegmentsOf(v) = SegmentsOf(w)
                 PROVE  v = w
    OBVIOUS
  <2>2. (v = << >> => SegmentsOf(v) = << >>) /\ (w = << >> => SegmentsOf(w) = << >>)
    BY <1>1, SegmentsTurn
  <2>3. CASE v = << >>
    BY <1>1, <1>3, <2>1, <2>2, <2>3
  <2>4. CASE v # << >>
    <3>1. w # << >>
      BY <1>1, <1>3, <2>1, <2>2, <2>4
    <3>2. PICK s, rest : /\ Composed(v, s, rest) /\ rest \in Seq(Unit) /\ IsPath(rest) /\ Len(rest) < Len(v)
                         /\ SegmentsOf(v)[1] = s /\ Tail(SegmentsOf(v)) = SegmentsOf(rest)
      BY <1>1, <1>3, <2>1, <2>4
    <3>3. PICK t, left : /\ Composed(w, t, left) /\ left \in Seq(Unit) /\ IsPath(left)
                         /\ SegmentsOf(w)[1] = t /\ Tail(SegmentsOf(w)) = SegmentsOf(left)
      BY <1>1, <1>3, <2>1, <3>1
    <3>4. s = t /\ SegmentsOf(rest) = SegmentsOf(left)
      BY <2>1, <3>2, <3>3
    <3>5. rest \in Q
      <4>1. rest \in Y /\ size[rest] < size[v]
        BY <1>1, <1>2, <3>2
      <4> HIDE DEF Q, size
      <4> QED
        BY <1>4, <4>1
    <3>6. rest = left
      BY <1>1, <3>2, <3>3, <3>4, <3>5
    <3> QED
      BY <3>2, <3>3, <3>4, <3>6 DEF Composed
  <2> QED
    BY <2>3, <2>4
<1>5. Q = Y
  <2>1. Q \in SUBSET Y
    OBVIOUS
  <2> HIDE DEF Q, size
  <2>2. Inherited(Y, size, Q)
    BY <1>2, <1>4, <2>1 DEF Inherited
  <2> QED
    BY <2>2, BySize
<1> QED
  BY <1>1, <1>5

Settled(p) == RemoveDotSegments(p) = p

\* To remove the dot segments twice is to remove them once.
LEMMA SettledIs ==
  ASSUME NEW path, Rooted(path)
  PROVE  Settled(RemoveDotSegments(path)) /\ Rooted(RemoveDotSegments(path))
<1>1. PICK q : q = RemoveDotSegments(path)
  OBVIOUS
<1>2. Rooted(q) /\ SegmentsOf(q) = Walked(SegmentsOf(path))
  BY <1>1, Resolved
<1>3. Rooted(RemoveDotSegments(q)) /\ SegmentsOf(RemoveDotSegments(q)) = Walked(SegmentsOf(q))
  BY <1>2, Resolved
<1>4. ASSUME NEW v, Rooted(v) PROVE SegmentsOf(v) \in Words /\ SegmentsOf(v) # << >>
  <2>1. v \in Seq(Unit) /\ v # << >>
    BY <1>4 DEF Rooted
  <2>2. FirstOfPath(v) \in Seq(Unit) /\ RestOfPath(v) \in Seq(Unit)
    BY <2>1, FirstRest
  <2>3. PICK s \in Seq(Unit), x \in Seq(Seq(Unit)) : s = FirstOfPath(v) /\ x = SegmentsOf(RestOfPath(v))
    BY <2>2, SegmentsTurn DEF Words
  <2>4. SegmentsOf(v) = <<s>> \o x
    BY <2>1, <2>3, SegmentsTurn
  <2>5. <<s>> \o x # << >>
    BY TailJoin
  <2> QED
    BY <2>1, <2>4, <2>5, SegmentsTurn
<1>5. SegmentsOf(q) \in Seq(Free)
  BY <1>2, <1>4, WalkedFree
<1>6. Walked(SegmentsOf(q)) = SegmentsOf(q)
  BY <1>2, <1>4, <1>5, WalkedFree
<1>7. RemoveDotSegments(q) = q
  <2>1. PICK p : p = RemoveDotSegments(q)
    OBVIOUS
  <2>2. Rooted(p) /\ SegmentsOf(p) = SegmentsOf(q)
    BY <1>3, <1>6, <2>1
  <2>3. p = q
    BY <1>2, <2>2, SegmentsTell DEF Rooted, IsPath
  <2> QED
    BY <2>1, <2>3
<1> QED
  BY <1>1, <1>2, <1>7 DEF Settled

LEMMA SettledFree ==
  ASSUME NEW q, Rooted(q), SegmentsOf(q) \in Seq(Free)
  PROVE  Settled(q)
<1>1. PICK p : p = RemoveDotSegments(q)
  OBVIOUS
<1>2. Rooted(p) /\ SegmentsOf(p) = Walked(SegmentsOf(q))
  BY <1>1, Resolved
<1>3. SegmentsOf(q) \in Words /\ SegmentsOf(q) # << >>
  <2>1. q \in Seq(Unit) /\ q # << >>
    BY DEF Rooted
  <2>2. FirstOfPath(q) \in Seq(Unit) /\ RestOfPath(q) \in Seq(Unit)
    BY <2>1, FirstRest
  <2>3. PICK s \in Seq(Unit), x \in Seq(Seq(Unit)) : s = FirstOfPath(q) /\ x = SegmentsOf(RestOfPath(q))
    BY <2>2, SegmentsTurn DEF Words
  <2>4. SegmentsOf(q) = <<s>> \o x
    BY <2>1, <2>3, SegmentsTurn
  <2>5. <<s>> \o x # << >>
    BY TailJoin
  <2> QED
    BY <2>1, <2>4, <2>5, SegmentsTurn
<1>4. SegmentsOf(p) = SegmentsOf(q)
  BY <1>2, <1>3, WalkedFree
<1>5. p = q
  BY <1>2, <1>4, SegmentsTell DEF Rooted, IsPath
<1> QED
  BY <1>1, <1>5 DEF Settled

LEMMA RootSettled ==
  Settled(<<"/">>) /\ Rooted(<<"/">>) /\ Settled(<< >>)
<1>1. PICK none \in Seq(Unit) : none = << >>
  BY EmptySeq
<1>2. PICK slash \in Unit : slash = "/"
  BY MarksAre
<1>3. Append(none, slash) = <<slash>>
  BY <1>1
<1>4. IsPath(none)
  BY <1>1 DEF IsPath
<1>5. Rooted(Append(none, "/")) /\ SegmentsOf(Append(none, "/")) = Append(SegmentsOf(none), << >>)
  BY <1>4, SlashMore
<1>6. SegmentsOf(none) = << >>
  BY <1>1, SegmentsTurn
<1>7. Append(SegmentsOf(none), << >>) \in Seq(Free)
  BY <1>6, FreeIs, EmptySeq, AppendProperties
<1>8. Settled(Append(none, "/"))
  BY <1>5, <1>7, SettledFree
<1>9. Settled(<< >>)
  <2>1. PICK loop : IsLoop(loop) /\ \A w : RemoveDotSegments(w) = loop[<<w, << >>>>]
    BY LoopIs DEF IsLoop
  <2>2. <<none, none>> \in Pairs /\ <<none, none>>[1] = none /\ <<none, none>>[2] = none
    BY DEF Pairs
  <2>3. loop[<<none, none>>] = Turn(none, none, loop)
    BY <2>1, <2>2 DEF IsLoop
  <2>4. Empties(none)
    BY <1>1 DEF Empties
  <2>5. Turn(none, none, loop) = none
    BY <2>4, TurnGoes
  <2> QED
    BY <1>1, <2>1, <2>3, <2>5 DEF Settled
<1> QED
  BY <1>2, <1>3, <1>5, <1>8, <1>9

(***************************************************************************)
(* What normalization leaves.                                              *)
(***************************************************************************)
Faulty == Refused \cup {BadTriplet}
Marks == {":", "/", "?", "#", "@", "[", "]"}

\* The units of a normalized text, and of its parts.
PlainUnit == {c \in Unit \ Faulty : Normal(c) = c}
PathUnit == PlainUnit \ {"?", "#"}
QueryUnit == PlainUnit \ {"#"}
HostUnit == PlainUnit \ {"A", "S", "/", "?", "#", "@"}
SchemeUnit == SchemeChar \ {"A", "S"}

Small(c) == IF c = "A" THEN "a" ELSE IF c = "S" THEN "s" ELSE c

LEMMA NormalKept ==
  ASSUME NEW c \in Unit \ Faulty
  PROVE  Normal(c) \in PlainUnit /\ \A d \in Marks : Normal(c) = d <=> c = d
<1>1. {".", "A", "~", "%2F", "%C3"} \subseteq Unit \ Faulty
  BY DEF Unit, Faulty, Alpha, Digit, Punctuation, Triplet, BadTriplet, NonAscii, Refused
<1>2. \/ c = "%2E" /\ Normal(c) = "."
      \/ c = "%41" /\ Normal(c) = "A"
      \/ c = "%7E" /\ Normal(c) = "~"
      \/ c = "%2f" /\ Normal(c) = "%2F"
      \/ c = NonAscii /\ Normal(c) = "%C3"
      \/ Normal(c) = c
  BY DEF Normal
<1>3. /\ Normal(".") = "." /\ Normal("A") = "A" /\ Normal("~") = "~"
      /\ Normal("%2F") = "%2F" /\ Normal("%C3") = "%C3"
  BY DEF Normal, NonAscii
<1>4. {".", "A", "~", "%2F", "%C3", "%2E", "%41", "%7E", "%2f", NonAscii} \cap Marks = {}
  BY DEF Marks, NonAscii
<1>5. Normal(c) \in PlainUnit
  BY <1>1, <1>2, <1>3 DEF PlainUnit
<1>6. \A d \in Marks : Normal(c) = d <=> c = d
  BY <1>2, <1>4
<1> QED
  BY <1>5, <1>6

LEMMA SmallKept ==
  ASSUME NEW c \in PlainUnit
  PROVE  /\ Small(c) \in PlainUnit \ {"A", "S"} /\ Width(Small(c)) = Width(c)
         /\ \A d \in Marks : Small(c) = d <=> c = d
         /\ c \notin {"A", "S"} => Small(c) = c
<1>1. {"a", "s"} \subseteq Unit \ Faulty
  BY DEF Unit, Faulty, Alpha, Digit, Punctuation, Triplet, BadTriplet, NonAscii, Refused
<1>2. Normal("a") = "a" /\ Normal("s") = "s"
  BY DEF Normal, NonAscii
<1>3. Width("a") = 1 /\ Width("s") = 1 /\ Width("A") = 1 /\ Width("S") = 1
  BY DEF Width, Triplet, BadTriplet
<1>4. {"a", "s", "A", "S"} \cap Marks = {} /\ {"a", "s"} \cap {"A", "S"} = {}
  BY DEF Marks
<1> QED
  BY <1>1, <1>2, <1>3, <1>4 DEF Small, PlainUnit

\* Of a text that is clear of faults, its normal form.
LEMMA NormalizedKept ==
  ASSUME NEW w \in Seq(Unit \ Faulty)
  PROVE  /\ Normalized(w) \in Seq(PlainUnit) /\ Len(Normalized(w)) = Len(w)
         /\ \A i \in 1..Len(w), d \in Marks : Normalized(w)[i] = d <=> w[i] = d
<1>1. PICK n \in Nat : n = Len(w)
  OBVIOUS
<1>2. Normalized(w) = [i \in 1..n |-> Normal(w[i])]
  BY <1>1 DEF Normalized
<1>3. ASSUME NEW i \in 1..n PROVE Normal(w[i]) \in PlainUnit /\ \A d \in Marks : Normal(w[i]) = d <=> w[i] = d
  <2>1. w[i] \in Unit \ Faulty
    BY <1>1
  <2> QED
    BY <2>1, NormalKept
<1>4. Normalized(w) \in [1..n -> PlainUnit]
  BY <1>2, <1>3
<1>5. Normalized(w) \in Seq(PlainUnit) /\ Len(Normalized(w)) = n
  BY <1>4
<1> QED
  BY <1>1, <1>2, <1>3, <1>5

LEMMA NormalizedSame ==
  ASSUME NEW w \in Seq(PlainUnit)
  PROVE  Normalized(w) = w
<1>1. PICK n \in Nat : n = Len(w)
  OBVIOUS
<1>2. \A i \in 1..n : Normal(w[i]) = w[i]
  BY <1>1 DEF PlainUnit
<1>3. w = [i \in 1..n |-> w[i]]
  BY <1>1
<1>4. Normalized(w) = [i \in 1..n |-> Normal(w[i])]
  BY <1>1 DEF Normalized
<1> QED
  BY <1>2, <1>3, <1>4

LEMMA LowerIs ==
  ASSUME NEW w \in Seq(PlainUnit)
  PROVE  /\ Lower(w) \in Seq(PlainUnit \ {"A", "S"}) /\ Len(Lower(w)) = Len(w) /\ Size(Lower(w)) <= Size(w)
         /\ \A i \in 1..Len(w), d \in Marks : Lower(w)[i] = d <=> w[i] = d
<1>1. PICK n \in Nat : n = Len(w)
  OBVIOUS
<1>2. Lower(w) = [i \in 1..n |-> Small(w[i])]
  BY <1>1 DEF Lower, Small
<1>3. ASSUME NEW i \in 1..n
      PROVE  /\ Small(w[i]) \in PlainUnit \ {"A", "S"} /\ Width(Small(w[i])) = Width(w[i])
             /\ \A d \in Marks : Small(w[i]) = d <=> w[i] = d
  <2>1. w[i] \in PlainUnit
    BY <1>1
  <2> QED
    BY <2>1, SmallKept
<1>4. Lower(w) \in [1..n -> PlainUnit \ {"A", "S"}]
  BY <1>2, <1>3
<1>5. Lower(w) \in Seq(PlainUnit \ {"A", "S"}) /\ Len(Lower(w)) = n
  BY <1>4
<1>6. Size(Lower(w)) <= Size(w)
  <2>1. PICK v \in Seq(PlainUnit) : v = Lower(w)
    BY <1>5
  <2>2. \A i \in 1..Len(w) : Width(v[i]) <= Width(w[i])
    <3>1. ASSUME NEW i \in 1..n PROVE Width(v[i]) <= Width(w[i])
      <4>1. Width(v[i]) = Width(w[i])
        BY <1>2, <1>3, <2>1
      <4> QED
        BY <4>1, WidthIs
    <3> QED
      BY <1>1, <3>1
  <2>3. Size(v) <= Size(w)
    BY <1>1, <1>5, <2>1, <2>2, SizeLess
  <2> QED
    BY <2>1, <2>3
<1> QED
  BY <1>1, <1>2, <1>3, <1>5, <1>6

LEMMA LowerSame ==
  ASSUME NEW S, "A" \notin S, "S" \notin S, NEW w \in Seq(S)
  PROVE  Lower(w) = w
<1>1. PICK n \in Nat : n = Len(w)
  OBVIOUS
<1>2. \A i \in 1..n : w[i] \in S
  BY <1>1
<1>3. w = [i \in 1..n |-> w[i]]
  BY <1>1
<1>4. Lower(w) = [i \in 1..n |-> Small(w[i])]
  BY <1>1 DEF Lower, Small
<1>5. \A i \in 1..n : Small(w[i]) = w[i]
  BY <1>2 DEF Small
<1> QED
  BY <1>3, <1>4, <1>5

LEMMA LowerScheme ==
  ASSUME NEW w \in Seq(SchemeChar), w # << >>, w[1] \in Alpha
  PROVE  /\ Lower(w) \in Seq(SchemeUnit) /\ Lower(w) # << >> /\ Lower(w)[1] \in Alpha
         /\ Size(Lower(w)) <= Size(w)
<1>1. PICK n \in Nat : n = Len(w) /\ n # 0
  BY EmptySeq
<1>2. Lower(w) = [i \in 1..n |-> Small(w[i])]
  BY <1>1 DEF Lower, Small
<1>3. /\ {"a", "s"} \subseteq SchemeUnit /\ {"a", "s"} \subseteq Alpha
      /\ Width("a") = 1 /\ Width("s") = 1 /\ Width("A") = 1 /\ Width("S") = 1
  BY DEF SchemeUnit, SchemeChar, Alpha, Width, Triplet, BadTriplet
<1>4. ASSUME NEW c \in SchemeChar PROVE Small(c) \in SchemeUnit /\ Width(Small(c)) <= Width(c) /\ (c \in Alpha => Small(c) \in Alpha)
  <2>1. Width(c) \in Nat
    BY WidthIs
  <2> QED
    BY <1>3, <2>1 DEF Small, SchemeUnit
<1>5. \A i \in 1..n : w[i] \in SchemeChar
  BY <1>1
<1>6. Lower(w) \in [1..n -> SchemeUnit]
  BY <1>2, <1>4, <1>5
<1>7. Lower(w) \in Seq(SchemeUnit) /\ Len(Lower(w)) = n
  BY <1>6
<1>8. Lower(w)[1] = Small(w[1]) /\ 1 \in 1..n
  BY <1>1, <1>2
<1>9. Lower(w) # << >>
  BY <1>1, <1>7
<1>10. PICK v \in Seq(SchemeChar) : v = Lower(w)
  <2>1. SchemeUnit \subseteq SchemeChar
    BY DEF SchemeUnit
  <2> QED
    BY <1>7, <2>1
<1>11. \A i \in 1..Len(w) : Width(v[i]) <= Width(w[i])
  BY <1>1, <1>2, <1>4, <1>5, <1>10
<1>12. Size(v) <= Size(w)
  BY <1>1, <1>7, <1>10, <1>11, SizeLess
<1> QED
  BY <1>4, <1>7, <1>8, <1>9, <1>10, <1>12

LEMMA QueryIs ==
  ASSUME NEW S, NEW w \in Seq(S)
  PROVE  Query(w) \in Seq(S) /\ Clear(Query(w), {"#"})
<1>1. PICK q \in Seq(S) : q = AfterPath(w)
  <2>1. PICK a \in Seq(S) : a = AfterAuthority(w)
    BY AfterAuthorityIs
  <2>2. Len(Path(w)) \in 0..Len(a)
    BY <2>1, UntilIs DEF Path
  <2> QED
    BY <2>1, <2>2, BehindIs DEF AfterPath
<1>2. CASE HasQuery(w)
  <2>1. Starts(q, <<"?">>)
    BY <1>1, <1>2 DEF HasQuery
  <2>2. q # << >>
    <3>1. Len(<<"?">>) = 1
      OBVIOUS
    <3> QED
      BY <2>1, <3>1, EmptySeq DEF Starts, IsPrefix
  <2>3. Tail(q) \in Seq(S)
    BY <2>2
  <2>4. PICK v \in Seq(S) : v = Tail(q)
    BY <2>3
  <2>5. Query(w) = Until(v, {"#"})
    BY <1>1, <1>2, <2>4 DEF Query
  <2> QED
    BY <2>5, UntilIs DEF Clear
<1>3. CASE ~HasQuery(w)
  <2>1. << >> \in Seq(S) /\ \A i : i \notin 1..Len(<< >>)
    BY EmptySeq
  <2> QED
    BY <1>3, <2>1 DEF Query, Clear
<1> QED
  BY <1>2, <1>3

LEMMA AuthorityIs ==
  ASSUME NEW S, NEW w \in Seq(S)
  PROVE  Authority(w) \in Seq(S) /\ Clear(Authority(w), {"/", "?", "#"})
<1>1. PICK h \in Seq(S) : h = Hier(w)
  BY HierIs
<1>2. PICK v \in Seq(S) : v = SubSeq(h, 3, Len(h))
  <2>1. PICK n \in Nat : n = Len(h)
    OBVIOUS
  <2>2. SubSeq(h, 3, n) \in Seq(S)
    BY <2>1
  <2> QED
    BY <2>1, <2>2
<1>3. Authority(w) = Until(v, {"/", "?", "#"})
  BY <1>1, <1>2 DEF Authority
<1> QED
  BY <1>3, UntilIs DEF Clear

LEMMA FragmentIs ==
  ASSUME NEW S, NEW w \in Seq(S)
  PROVE  Fragment(w) \in Seq(S)
<1>1. PICK k : k = SelectInSeq(w, LAMBDA c : c = "#")
  OBVIOUS
<1>2. CASE ~HasFragment(w)
  <2>1. << >> \in Seq(S)
    BY EmptySeq
  <2> QED
    BY <1>2, <2>1 DEF Fragment
<1>3. CASE HasFragment(w)
  <2> DEFINE I == {i \in 1..Len(w) : w[i] = "#"}
  <2>1. k = IF I # {} THEN Min(I) ELSE 0
    BY <1>1 DEF SelectInSeq
  <2>2. I \in SUBSET Nat
    OBVIOUS
  <2>3. k \in Nat
    <3>1. I # {} => Min(I) \in I
      BY <2>2, MinIs
    <3> HIDE DEF I
    <3> QED
      BY <2>1, <2>2, <3>1
  <2>4. PICK n \in Nat : n = Len(w)
    OBVIOUS
  <2>5. SubSeq(w, k + 1, n) \in Seq(S)
    BY <2>3, <2>4
  <2> QED
    BY <1>1, <1>3, <2>4, <2>5 DEF Fragment
<1> QED
  BY <1>2, <1>3

LEMMA PathClear ==
  ASSUME NEW w \in Seq(Unit)
  PROVE  Clear(Path(w), {"?", "#"})
<1>1. PICK v \in Seq(Unit) : v = AfterAuthority(w)
  BY AfterAuthorityIs
<1>2. Path(w) = Until(v, {"?", "#"})
  BY <1>1 DEF Path
<1> QED
  BY <1>2, UntilIs DEF Clear

LEMMA ClearIn ==
  ASSUME NEW S, NEW w \in Seq(S), NEW stops
  PROVE  Clear(w, stops) <=> w \in Seq(S \ stops)
<1>1. Clear(w, stops) => w \in Seq(S \ stops)
  <2> SUFFICES ASSUME Clear(w, stops) PROVE w \in Seq(S \ stops)
    OBVIOUS
  <2>1. \A i \in 1..Len(w) : w[i] \in S \ stops
    BY DEF Clear
  <2> QED
    BY <2>1, SeqIn
<1>2. w \in Seq(S \ stops) => Clear(w, stops)
  BY DEF Clear
<1> QED
  BY <1>1, <1>2

\* What the checks leave of each component.
Schemed(has, s) ==
  s \in Seq(SchemeUnit) /\ Size(s) <= SchemeMax /\ (has => s # << >> /\ s[1] \in Alpha)
Hosted(h) == h \in Seq(HostUnit) /\ HostShape(h) /\ Size(h) <= HostMax
Pathed(p) == p \in Seq(PathUnit) /\ Size(p) <= PathMax
Queried(has, q) == has \in BOOLEAN /\ q \in Seq(QueryUnit) /\ Size(q) <= QueryMax /\ (has \/ q = << >>)
Fragmented(has, f) == has \in BOOLEAN /\ f \in Seq(PlainUnit) /\ Size(f) <= QueryMax /\ (has \/ f = << >>)

\* The same marks stand at the same places.
SameMarks(v, w) == Len(v) = Len(w) /\ \A i \in 1..Len(w), d \in Marks : v[i] = d <=> w[i] = d

LEMMA SameClear ==
  ASSUME NEW S, NEW v \in Seq(S), NEW T, NEW w \in Seq(T), SameMarks(v, w),
         NEW stops \in SUBSET Marks, Clear(w, stops)
  PROVE  Clear(v, stops)
<1>1. Len(v) = Len(w) /\ \A i \in 1..Len(w), d \in Marks : v[i] = d <=> w[i] = d
  BY DEF SameMarks
<1>2. \A i \in 1..Len(w) : w[i] \notin stops
  BY DEF Clear
<1>3. ASSUME NEW i \in 1..Len(v) PROVE v[i] \notin stops
  <2>1. i \in 1..Len(w)
    BY <1>1
  <2> QED
    BY <1>1, <1>2, <2>1
<1> QED
  BY <1>3 DEF Clear

LEMMA NormalizedMarks ==
  ASSUME NEW w \in Seq(Unit \ Faulty)
  PROVE  Normalized(w) \in Seq(PlainUnit) /\ SameMarks(Normalized(w), w)
BY NormalizedKept DEF SameMarks

\* A part that is clear of its stops stays clear of them.
LEMMA PartKept ==
  ASSUME NEW w \in Seq(Unit \ Refused), NEW cap \in Nat, NormalError(w, cap) = "OK",
         NEW stops \in SUBSET Marks, Clear(w, stops)
  PROVE  /\ Normalized(w) \in Seq(PlainUnit \ stops) /\ Size(Normalized(w)) <= cap
         /\ SameMarks(Normalized(w), w)
<1>1. w \in Seq(Unit)
  BY SeqIn
<1>2. Clear(w, {BadTriplet}) /\ Size(Normalized(w)) <= cap
  BY <1>1, NormalErrorIs
<1>3. w \in Seq((Unit \ Refused) \ {BadTriplet})
  BY <1>2, ClearIn
<1>4. w \in Seq(Unit \ Faulty)
  <2>1. (Unit \ Refused) \ {BadTriplet} = Unit \ Faulty
    BY DEF Faulty
  <2> QED
    BY <1>3, <2>1
<1>5. Normalized(w) \in Seq(PlainUnit) /\ SameMarks(Normalized(w), w)
  BY <1>4, NormalizedMarks
<1>6. PICK v \in Seq(PlainUnit) : v = Normalized(w)
  BY <1>5
<1>7. Clear(v, stops)
  BY <1>4, <1>5, <1>6, SameClear
<1>8. v \in Seq(PlainUnit \ stops)
  BY <1>7, ClearIn
<1> QED
  BY <1>2, <1>5, <1>6, <1>8

LEMMA HostMade ==
  ASSUME NEW S, "]" \in S, NEW a \in Seq(S)
  PROVE  Host(a) \in Seq(S)
<1>1. Until(a, {":"}) \in Seq(S) /\ Until(a, {"]"}) \in Seq(S)
  BY UntilIs
<1>2. Append(Until(a, {"]"}), "]") \in Seq(S)
  BY <1>1, AppendProperties
<1> QED
  BY <1>1, <1>2 DEF Host

LEMMA HostShapeKept ==
  ASSUME NEW g, HostShape(g), NEW h \in Seq(Unit), SameMarks(h, g)
  PROVE  HostShape(h)
<1>1. g \in Seq(Unit) /\ Len(g) >= 1 /\ Clear(g, {"/", "?", "#", "@"})
  BY DEF HostShape
<1>2. /\ {"/", "?", "#", "@"} \subseteq Marks /\ {":"} \subseteq Marks /\ "[" \in Marks /\ "]" \in Marks
  BY DEF Marks
<1>3. Clear(h, {"/", "?", "#", "@"})
  BY <1>1, <1>2, SameClear
<1>4. PICK n \in Nat : n = Len(g) /\ n = Len(h) /\ n >= 1
  BY <1>1 DEF SameMarks
<1>5. \A i \in 1..n : (h[i] = "[" <=> g[i] = "[") /\ (h[i] = "]" <=> g[i] = "]")
  BY <1>2, <1>4 DEF SameMarks
<1>6. ASSUME h[1] = "[" PROVE h[Len(h)] = "]" /\ \A i \in 1..(Len(h) - 1) : h[i] # "]"
  <2>1. 1 \in 1..n /\ n \in 1..n
    BY <1>4
  <2>2. g[1] = "["
    BY <1>5, <1>6, <2>1
  <2>3. g[n] = "]" /\ \A i \in 1..(n - 1) : g[i] # "]"
    BY <1>4, <2>2 DEF HostShape
  <2>4. h[n] = "]"
    BY <1>5, <2>1, <2>3
  <2>5. \A i \in 1..(n - 1) : h[i] # "]"
    <3>1. \A i \in 1..(n - 1) : i \in 1..n
      BY <1>4
    <3> QED
      BY <1>5, <2>3, <3>1
  <2> QED
    BY <1>4, <2>4, <2>5
<1>7. ASSUME h[1] # "[" PROVE Clear(h, {":"})
  <2>1. 1 \in 1..n
    BY <1>4
  <2>2. g[1] # "["
    BY <1>5, <1>7, <2>1
  <2>3. Clear(g, {":"})
    BY <2>2 DEF HostShape
  <2> QED
    BY <1>1, <1>2, <2>3, SameClear
<1> QED
  BY <1>3, <1>4, <1>6, <1>7 DEF HostShape

LEMMA HostKept ==
  ASSUME NEW a \in Seq(Unit \ Refused), Clear(a, {"/", "?", "#"}), AuthorityError(a) = "OK",
         NormalError(Host(a), HostMax) = "OK"
  PROVE  Hosted(Lower(Normalized(Host(a))))
<1>1. a \in Seq(Unit)
  BY SeqIn
<1>2. HostShape(Host(a))
  BY <1>1, HostShaped
<1>3. "]" \in Unit \ Refused
  BY DEF Unit, Punctuation, Refused
<1>4. PICK g \in Seq(Unit \ Refused) : g = Host(a)
  BY <1>3, HostMade
<1>5. Clear(g, {"/", "?", "#", "@"}) /\ {"/", "?", "#", "@"} \in SUBSET Marks
  BY <1>2, <1>4 DEF HostShape, Marks
<1>6. HostMax \in Nat
  BY UrlConstants
<1>7. /\ Normalized(g) \in Seq(PlainUnit \ {"/", "?", "#", "@"}) /\ Size(Normalized(g)) <= HostMax
      /\ SameMarks(Normalized(g), g)
  BY <1>4, <1>5, <1>6, PartKept
<1>8. PICK v : v = Normalized(g)
  OBVIOUS
<1>9. v \in Seq(PlainUnit)
  <2>1. v \in Seq(PlainUnit \ {"/", "?", "#", "@"})
    BY <1>7, <1>8
  <2> QED
    BY <2>1, SeqIn
<1>10. PICK h : h = Lower(v)
  OBVIOUS
<1>11. /\ h \in Seq(PlainUnit \ {"A", "S"}) /\ Len(h) = Len(v) /\ Size(h) <= Size(v)
       /\ \A i \in 1..Len(v), d \in Marks : h[i] = d <=> v[i] = d
  BY <1>9, <1>10, LowerIs
<1>12. SameMarks(h, g)
  <2>1. Len(v) = Len(g) /\ \A i \in 1..Len(g), d \in Marks : v[i] = d <=> g[i] = d
    BY <1>7, <1>8 DEF SameMarks
  <2> QED
    BY <1>11, <2>1 DEF SameMarks
<1>13. h \in Seq(Unit) /\ g \in Seq(Unit)
  <2>1. PlainUnit \ {"A", "S"} \subseteq Unit
    BY DEF PlainUnit
  <2>2. h \in Seq(PlainUnit \ {"A", "S"}) /\ g \in Seq(Unit \ Refused)
    BY <1>11
  <2> QED
    BY <2>1, <2>2, SeqIn
<1>14. HostShape(h)
  BY <1>2, <1>4, <1>12, <1>13, HostShapeKept
<1>15. h \in Seq(HostUnit)
  <2>1. Clear(h, {"/", "?", "#", "@"})
    BY <1>14 DEF HostShape
  <2>2. h \in Seq((PlainUnit \ {"A", "S"}) \ {"/", "?", "#", "@"})
    BY <1>11, <2>1, ClearIn
  <2>3. (PlainUnit \ {"A", "S"}) \ {"/", "?", "#", "@"} = HostUnit
    BY DEF HostUnit
  <2> QED
    BY <2>2, <2>3
<1>16. Size(h) <= HostMax
  <2>1. Size(h) \in Nat /\ Size(v) \in Nat
    BY <1>9, <1>13, SizeIs
  <2> QED
    BY <1>6, <1>7, <1>8, <1>11, <2>1
<1> QED
  BY <1>4, <1>8, <1>10, <1>14, <1>15, <1>16 DEF Hosted

\* A reference or a base that is not refused, and what it is normalized to.
Wellformed(w) ==
  /\ w \in Seq(Unit) /\ InputError(w) = "OK"
  /\ RawError(Split(w)) = "OK" /\ ComponentsError(Split(w)) = "OK"

Clean(t) ==
  /\ t.has_scheme \in BOOLEAN /\ Schemed(t.has_scheme, t.scheme)
  /\ t.has_authority \in BOOLEAN /\ (t.has_authority => Hosted(t.host) /\ IsPath(t.path))
  /\ t.has_port \in BOOLEAN /\ t.port \in 0..MaxPort
  /\ Pathed(t.path) /\ Queried(t.has_query, t.query) /\ Fragmented(t.has_fragment, t.fragment)

LEMMA NoPort ==
  PortDigits(<< >>) = << >> /\ PortValue(<< >>) = 0 /\ Host(<< >>) = << >>
<1>1. PICK none \in Seq(Digit) : none = << >>
  BY EmptySeq
<1>2. PortValue(none) = 0
  <2>1. PICK r : Values(r, none) /\ PortValue(none) = r[Len(none)]
    BY PortFold
  <2>2. Len(none) = 0
    BY <1>1
  <2> QED
    BY <2>1, <2>2 DEF Values
<1>3. \A stops : Until(none, stops) = none
  <2>1. \A stops : Clear(none, stops)
    BY <1>1 DEF Clear
  <2> QED
    BY <2>1, UntilSame
<1>4. Host(none) = none
  <2>1. ~IsLiteral(none)
    <3>1. Len(<<"[">>) = 1 /\ Len(none) = 0
      BY <1>1
    <3> QED
      BY <3>1 DEF IsLiteral, Starts, IsPrefix
  <2> QED
    BY <1>3, <2>1 DEF Host
<1>5. PortDigits(none) = none
  <2>1. SubSeq(none, 1, 0) = none /\ SubSeq(none, 2, 0) = none /\ Len(none) = 0
    BY <1>1
  <2>2. PortPart(none) = none
    BY <1>4, <2>1 DEF PortPart, Behind
  <2> QED
    BY <2>1, <2>2 DEF PortDigits
<1> QED
  BY <1>1, <1>2, <1>4, <1>5

LEMMA PortTyped ==
  ASSUME NEW ds, IsPort(ds), NEW S, ds \in Seq(S)
  PROVE  ds \in Seq(Digit) /\ PortValue(ds) \in 0..MaxPort
<1>1. ds \in Seq(Digit)
  <2>1. \A i \in 1..Len(ds) : ds[i] \in Digit
    BY DEF IsPort, ToSet
  <2> QED
    BY <2>1, SeqIn
<1>2. PortValue(ds) \in Nat
  <2>1. PICK r : Values(r, ds) /\ PortValue(ds) = r[Len(ds)]
    BY <1>1, PortFold
  <2>2. PICK n \in Nat : n = Len(ds)
    OBVIOUS
  <2>3. n \in 0..n
    OBVIOUS
  <2> QED
    BY <2>1, <2>2, <2>3 DEF Values
<1>3. PortValue(ds) <= MaxPort /\ MaxPort \in Nat
  BY UrlConstants DEF IsPort
<1> QED
  BY <1>1, <1>2, <1>3

\* The scheme of a reference.
LEMMA SchemeKept ==
  ASSUME NEW w \in Seq(Unit), NEW s, s = IF HasScheme(w) THEN SchemeWord(w) ELSE << >>, Size(s) <= SchemeMax
  PROVE  HasScheme(w) \in BOOLEAN /\ Schemed(HasScheme(w), Lower(s))
<1>1. HasScheme(w) \in BOOLEAN
  BY DEF HasScheme
<1>m. SchemeMax \in Nat
  BY UrlConstants
<1>2. CASE HasScheme(w)
  <2>1. PICK n \in Nat : n = Len(w)
    OBVIOUS
  <2>2. w # << >> /\ w[1] \in Alpha
    BY <1>2 DEF HasScheme
  <2>3. n # 0
    BY <2>1, <2>2, EmptySeq
  <2>4. PICK v \in Seq(Unit) : v = SchemeWord(w)
    BY UntilIs DEF SchemeWord
  <2>5. /\ Len(v) \in 0..n /\ \A i \in 1..Len(v) : v[i] = w[i] /\ w[i] \notin Unit \ SchemeChar
        /\ Len(v) # n => w[Len(v) + 1] \in Unit \ SchemeChar
    BY <2>1, <2>4, UntilIs DEF SchemeWord
  <2>6. Len(v) # 0
    <3>1. SUFFICES ASSUME Len(v) = 0 PROVE FALSE
      OBVIOUS
    <3>2. w[1] \in Unit \ SchemeChar
      BY <2>3, <2>5, <3>1
    <3> QED
      BY <2>2, <3>2, MarksAre
  <2>7. v[1] = w[1]
    BY <2>5, <2>6
  <2>8. v \in Seq(SchemeChar)
    <3>1. \A i \in 1..Len(v) : v[i] \in SchemeChar
      BY <2>4, <2>5
    <3> QED
      BY <2>4, <3>1, SeqIn
  <2>9. v # << >>
    BY <2>6
  <2>10. /\ Lower(v) \in Seq(SchemeUnit) /\ Lower(v) # << >> /\ Lower(v)[1] \in Alpha
         /\ Size(Lower(v)) <= Size(v)
    BY <2>2, <2>7, <2>8, <2>9, LowerScheme
  <2>11. PICK m \in Nat : m = Size(v)
    BY <2>4, SizeIs
  <2>12. PICK k \in Nat : k = Size(Lower(v))
    BY <2>10, SizeIs
  <2>13. k <= m /\ m <= SchemeMax
    BY <1>2, <2>4, <2>10, <2>11, <2>12
  <2>14. k <= SchemeMax
    BY <1>m, <2>13
  <2> QED
    BY <1>1, <1>2, <2>4, <2>10, <2>12, <2>14 DEF Schemed
<1>3. CASE ~HasScheme(w)
  <2>1. PICK none \in Seq(SchemeUnit) : none = << >>
    BY EmptySeq
  <2>2. Lower(none) = none
    BY LowerSame DEF SchemeUnit
  <2>3. Size(none) = 0
    BY <2>1, SizeIs
  <2> QED
    BY <1>1, <1>m, <1>3, <2>1, <2>2, <2>3 DEF Schemed
<1> QED
  BY <1>2, <1>3

LEMMA ScopeOfPath ==
  ASSUME NEW w \in Seq(Unit \ Refused), NormalError(Path(w), PathMax) = "OK"
  PROVE  /\ Pathed(Normalized(Path(w)))
         /\ HasAuthority(w) => IsPath(Normalized(Path(w)))
<1>1. w \in Seq(Unit)
  BY SeqIn
<1>2. PICK p \in Seq(Unit \ Refused) : p = Path(w)
  BY PathIs
<1>3. Clear(p, {"?", "#"}) /\ {"?", "#"} \in SUBSET Marks /\ "/" \in Marks
  BY <1>1, <1>2, PathClear DEF Marks
<1>4. PathMax \in Nat
  BY UrlConstants
<1>5. /\ Normalized(p) \in Seq(PlainUnit \ {"?", "#"}) /\ Size(Normalized(p)) <= PathMax
      /\ SameMarks(Normalized(p), p)
  BY <1>2, <1>3, <1>4, PartKept
<1>6. PICK v \in Seq(PathUnit) : v = Normalized(p)
  BY <1>5 DEF PathUnit
<1>7. Pathed(v)
  BY <1>5, <1>6 DEF Pathed
<1>8. v \in Seq(Unit)
  <2>1. PathUnit \subseteq Unit
    BY DEF PathUnit, PlainUnit
  <2> QED
    BY <2>1, SeqIn
<1>9. ASSUME HasAuthority(w), v # << >> PROVE v[1] = "/"
  <2>1. PICK n \in Nat : n = Len(p) /\ n = Len(v)
    BY <1>5, <1>6 DEF SameMarks
  <2>2. n # 0
    BY <1>9, <2>1, EmptySeq
  <2>3. p # << >> /\ 1 \in 1..n
    <3>1. Len(p) # 0 /\ Len(<< >>) = 0
      BY <2>1, <2>2
    <3>2. 1 \in 1..n
      BY <2>2
    <3> QED
      BY <3>1, <3>2
  <2>4. p[1] = "/"
    BY <1>1, <1>2, <1>9, <2>3, PathIs
  <2> QED
    BY <1>3, <1>5, <1>6, <2>1, <2>3, <2>4 DEF SameMarks
<1> QED
  BY <1>2, <1>6, <1>7, <1>8, <1>9 DEF IsPath, Rooted

LEMMA QueryKept ==
  ASSUME NEW w \in Seq(Unit \ Refused), NormalError(Query(w), QueryMax) = "OK"
  PROVE  Queried(HasQuery(w), Normalized(Query(w)))
<1>1. PICK q \in Seq(Unit \ Refused) : q = Query(w)
  BY QueryIs
<1>2. Clear(q, {"#"}) /\ {"#"} \in SUBSET Marks
  BY <1>1, QueryIs DEF Marks
<1>3. QueryMax \in Nat
  BY UrlConstants
<1>4. Normalized(q) \in Seq(PlainUnit \ {"#"}) /\ Size(Normalized(q)) <= QueryMax
  BY <1>1, <1>2, <1>3, PartKept
<1>5. HasQuery(w) \in BOOLEAN
  BY DEF HasQuery, Starts, IsPrefix
<1>6. ~HasQuery(w) => Normalized(q) = << >>
  <2>1. SUFFICES ASSUME ~HasQuery(w) PROVE Normalized(q) = << >>
    OBVIOUS
  <2>2. q = << >>
    BY <1>1, <2>1 DEF Query
  <2>3. PICK none \in Seq(PlainUnit) : none = << >>
    BY EmptySeq
  <2>4. Normalized(none) = none
    BY NormalizedSame
  <2> QED
    BY <2>2, <2>3, <2>4
<1> QED
  BY <1>1, <1>4, <1>5, <1>6 DEF Queried, QueryUnit

LEMMA FragmentKept ==
  ASSUME NEW w \in Seq(Unit \ Refused), NormalError(Fragment(w), QueryMax) = "OK"
  PROVE  Fragmented(HasFragment(w), Normalized(Fragment(w)))
<1>1. PICK f \in Seq(Unit \ Refused) : f = Fragment(w)
  BY FragmentIs
<1>2. Clear(f, {}) /\ {} \in SUBSET Marks
  BY DEF Clear
<1>3. QueryMax \in Nat
  BY UrlConstants
<1>4. Normalized(f) \in Seq(PlainUnit \ {}) /\ Size(Normalized(f)) <= QueryMax
  BY <1>1, <1>2, <1>3, PartKept
<1>5. PlainUnit \ {} = PlainUnit
  OBVIOUS
<1>6. HasFragment(w) \in BOOLEAN
  BY DEF HasFragment, Contains
<1>7. ~HasFragment(w) => Normalized(f) = << >>
  <2>1. SUFFICES ASSUME ~HasFragment(w) PROVE Normalized(f) = << >>
    OBVIOUS
  <2>2. f = << >>
    BY <1>1, <2>1 DEF Fragment
  <2>3. PICK none \in Seq(PlainUnit) : none = << >>
    BY EmptySeq
  <2>4. Normalized(none) = none
    BY NormalizedSame
  <2> QED
    BY <2>2, <2>3, <2>4
<1> QED
  BY <1>1, <1>4, <1>5, <1>6, <1>7 DEF Fragmented

LEMMA PortKept ==
  ASSUME NEW w \in Seq(Unit), NEW a, a = IF HasAuthority(w) THEN Authority(w) ELSE << >>,
         HasAuthority(w) => AuthorityError(a) = "OK"
  PROVE  PortValue(PortDigits(a)) \in 0..MaxPort /\ HasAuthority(w) \in BOOLEAN
<1>1. HasAuthority(w) \in BOOLEAN
  BY DEF HasAuthority, Starts, IsPrefix
<1>m. MaxPort \in Nat
  BY UrlConstants
<1>2. CASE HasAuthority(w)
  <2>1. PICK v \in Seq(Unit) : v = a
    BY <1>2, AuthorityIs
  <2>2. IsPort(PortDigits(v))
    BY <1>2, <2>1, AuthorityErrorIs
  <2>3. PICK pp : pp = PortPart(v)
    OBVIOUS
  <2>4. Clear(v, {"/", "?", "#"}) /\ AuthorityError(v) = "OK"
    BY <1>2, <2>1, AuthorityIs
  <2>5. Len(Host(v)) \in 0..Len(v)
    <3>1. HostShape(Host(v)) /\ Len(Host(v)) <= Len(v)
      BY <2>4, HostShaped
    <3>2. PICK h \in Seq(Unit) : h = Host(v)
      BY <3>1 DEF HostShape
    <3> QED
      BY <3>1, <3>2
  <2>6. pp \in Seq(Unit)
    BY <2>3, <2>5, BehindIs DEF PortPart
  <2>7. PICK n \in Nat : n = Len(pp)
    BY <2>6
  <2>8. SubSeq(pp, 2, n) \in Seq(Unit)
    BY <2>6, <2>7
  <2>9. PortDigits(v) \in Seq(Unit)
    BY <2>3, <2>7, <2>8 DEF PortDigits
  <2> QED
    BY <1>1, <2>1, <2>2, <2>9, PortTyped
<1>3. CASE ~HasAuthority(w)
  BY <1>1, <1>m, <1>3, NoPort
<1> QED
  BY <1>2, <1>3

LEMMA CleanRaw ==
  ASSUME NEW w, Wellformed(w), NEW t, t = Raw(Split(w))
  PROVE  Clean(t)
<1>1. w \in Seq(Unit) /\ InputError(w) = "OK" /\ RawError(Split(w)) = "OK" /\ ComponentsError(Split(w)) = "OK"
  BY DEF Wellformed
<1>2. w \in Seq(Unit \ Refused)
  BY <1>1, InputErrorIs, ClearIn
<1>3. PICK s : s = IF HasScheme(w) THEN SchemeWord(w) ELSE << >>
  OBVIOUS
<1>4. PICK a : a = IF HasAuthority(w) THEN Authority(w) ELSE << >>
  OBVIOUS
<1>5. PICK c : c = Split(w)
  OBVIOUS
<1>6. /\ c.has_scheme = HasScheme(w) /\ c.scheme = s /\ c.has_authority = HasAuthority(w)
      /\ c.authority = a /\ c.path = Path(w) /\ c.has_query = HasQuery(w) /\ c.query = Query(w)
      /\ c.has_fragment = HasFragment(w) /\ c.fragment = Fragment(w)
  BY <1>3, <1>4, <1>5 DEF Split
<1>7. s \in Seq(Unit) /\ Path(w) \in Seq(Unit) /\ Query(w) \in Seq(Unit) /\ Fragment(w) \in Seq(Unit)
  <2>1. SchemeWord(w) \in Seq(Unit)
    BY <1>1, UntilIs DEF SchemeWord
  <2>2. << >> \in Seq(Unit)
    BY EmptySeq
  <2> QED
    BY <1>1, <1>3, <2>1, <2>2, PathIs, QueryIs, FragmentIs
<1>8. Sized(c) /\ (c.has_authority => AuthorityError(c.authority) = "OK")
  <2>1. Size(s) \in Nat /\ Size(Path(w)) \in Nat /\ Size(Query(w)) \in Nat /\ Size(Fragment(w)) \in Nat
    BY <1>7, SizeIs
  <2>2. Size(c.scheme) \in Nat /\ Size(c.path) \in Nat /\ Size(c.query) \in Nat /\ Size(c.fragment) \in Nat
    BY <1>6, <2>1
  <2>3. RawError(c) = "OK"
    BY <1>1, <1>5
  <2> QED
    BY <2>2, <2>3, RawErrorIs
<1>9. /\ NormalError(Host(a), HostMax) = "OK" /\ NormalError(Path(w), PathMax) = "OK"
      /\ NormalError(Query(w), QueryMax) = "OK" /\ NormalError(Fragment(w), QueryMax) = "OK"
  <2>1. ComponentsError(c) = "OK"
    BY <1>1, <1>5
  <2>2. /\ NormalError(Host(c.authority), HostMax) = "OK" /\ NormalError(c.path, PathMax) = "OK"
        /\ NormalError(c.query, QueryMax) = "OK" /\ NormalError(c.fragment, QueryMax) = "OK"
    BY <2>1, ComponentsErrorIs
  <2> QED
    BY <1>6, <2>2
<1>10. /\ t.has_scheme = HasScheme(w) /\ t.scheme = Lower(s) /\ t.has_authority = HasAuthority(w)
       /\ t.host = Lower(Normalized(Host(a))) /\ t.has_port = (PortDigits(a) # << >>)
       /\ t.port = PortValue(PortDigits(a)) /\ t.path = Normalized(Path(w))
       /\ t.has_query = HasQuery(w) /\ t.query = Normalized(Query(w))
       /\ t.has_fragment = HasFragment(w) /\ t.fragment = Normalized(Fragment(w))
  <2>1. t = Raw(c)
    BY <1>5
  <2>2. /\ t.has_scheme = c.has_scheme /\ t.scheme = Lower(c.scheme) /\ t.has_authority = c.has_authority
        /\ t.host = Lower(Normalized(Host(c.authority)))
        /\ t.port = PortValue(PortDigits(c.authority)) /\ t.path = Normalized(c.path)
        /\ t.has_query = c.has_query /\ t.query = Normalized(c.query)
        /\ t.has_fragment = c.has_fragment /\ t.fragment = Normalized(c.fragment)
    BY <2>1 DEF Raw
  <2>3. t.has_port = (PortDigits(c.authority) # << >>)
    BY <2>1 DEF Raw
  <2>4. PICK e : e = c.authority
    OBVIOUS
  <2>5. e = a
    BY <1>6, <2>4
  <2>6. t.has_port = (PortDigits(e) # << >>)
    BY <2>3, <2>4
  <2>7. t.host = Lower(Normalized(Host(e))) /\ t.port = PortValue(PortDigits(e))
    BY <2>2, <2>4
  <2> QED
    BY <1>6, <2>2, <2>5, <2>6, <2>7
<1>11. HasScheme(w) \in BOOLEAN /\ Schemed(HasScheme(w), Lower(s))
  <2>1. Size(s) <= SchemeMax
    BY <1>6, <1>8 DEF Sized
  <2> QED
    BY <1>1, <1>3, <2>1, SchemeKept
<1>12. PortValue(PortDigits(a)) \in 0..MaxPort /\ HasAuthority(w) \in BOOLEAN
  <2>1. HasAuthority(w) => AuthorityError(a) = "OK"
    BY <1>6, <1>8
  <2> QED
    BY <1>1, <1>4, <2>1, PortKept
<1>13. ASSUME HasAuthority(w) PROVE Hosted(Lower(Normalized(Host(a))))
  <2>1. a \in Seq(Unit \ Refused) /\ Clear(a, {"/", "?", "#"})
    BY <1>2, <1>4, <1>13, AuthorityIs
  <2>2. AuthorityError(a) = "OK"
    BY <1>6, <1>8, <1>13
  <2> QED
    BY <1>9, <2>1, <2>2, HostKept
<1>14. Pathed(Normalized(Path(w))) /\ (HasAuthority(w) => IsPath(Normalized(Path(w))))
  BY <1>2, <1>9, ScopeOfPath
<1>15. Queried(HasQuery(w), Normalized(Query(w)))
  BY <1>2, <1>9, QueryKept
<1>16. Fragmented(HasFragment(w), Normalized(Fragment(w)))
  BY <1>2, <1>9, FragmentKept
<1>17. t.has_port \in BOOLEAN
  BY <1>10
<1> QED
  BY <1>10, <1>11, <1>12, <1>13, <1>14, <1>15, <1>16, <1>17 DEF Clean

\* The port of a URL is not the one its scheme stands for, or none.
Addressed(scheme, has, port) ==
  IF has THEN port \in 0..MaxPort /\ ~(DefaultPort(scheme) # 0 /\ port = DefaultPort(scheme))
  ELSE port = DefaultPort(scheme)

\* A URL with an authority, as capy_url_parse makes it.
Sound(url) ==
  /\ url = [scheme |-> url.scheme, has_authority |-> TRUE, host |-> url.host,
            has_port |-> url.has_port, port |-> url.port, path |-> url.path,
            has_query |-> url.has_query, query |-> url.query,
            has_fragment |-> url.has_fragment, fragment |-> url.fragment]
  /\ Schemed(TRUE, url.scheme) /\ Hosted(url.host)
  /\ url.has_port \in BOOLEAN /\ Addressed(url.scheme, url.has_port, url.port)
  /\ Pathed(url.path) /\ Rooted(url.path) /\ Settled(url.path)
  /\ Queried(url.has_query, url.query) /\ Fragmented(url.has_fragment, url.fragment)

LEMMA SlashPathed == Pathed(<<"/">>)
<1>1. PICK slash \in PathUnit : slash = "/"
  BY DEF PathUnit, PlainUnit, Normal, NonAscii, Faulty, Unit, Punctuation, Refused, BadTriplet
<1>2. Size(<<slash>>) = 1
  <2>1. Width(slash) = 1
    BY <1>1 DEF Width, Triplet, BadTriplet
  <2> QED
    BY <2>1, SizeOne
<1>3. PathMax >= 1
  BY UrlConstants
<1>4. <<slash>> \in Seq(PathUnit)
  OBVIOUS
<1> QED
  BY <1>1, <1>2, <1>3, <1>4 DEF Pathed

LEMMA FinishedSound ==
  ASSUME NEW t, Clean(t), t.has_scheme, t.has_authority, Settled(t.path), NEW warnings
  PROVE  Finished(t, warnings).status = "OK" /\ Sound(Finished(t, warnings).url)
<1>1. PICK default \in BOOLEAN :
        default = (t.has_port /\ DefaultPort(t.scheme) # 0 /\ t.port = DefaultPort(t.scheme))
  OBVIOUS
<1>2. PICK path : path = IF t.path = << >> THEN <<"/">> ELSE t.path
  OBVIOUS
<1>3. PICK port : port = IF t.has_port THEN t.port ELSE DefaultPort(t.scheme)
  OBVIOUS
<1>4. PICK has \in BOOLEAN : has = (t.has_port /\ ~default)
  OBVIOUS
<1>5. t.has_authority = TRUE /\ t.has_scheme = TRUE /\ t.has_port \in BOOLEAN
  BY DEF Clean
<1>6. PICK url : url = [scheme |-> t.scheme, has_authority |-> TRUE, host |-> t.host,
                        has_port |-> has, port |-> port, path |-> path,
                        has_query |-> t.has_query, query |-> t.query,
                        has_fragment |-> t.has_fragment, fragment |-> t.fragment]
  OBVIOUS
<1>7. Finished(t, warnings).status = "OK"
  BY DEF Finished
<1>8. Finished(t, warnings).url = url
  <2>1. Finished(t, warnings).url =
          [scheme |-> t.scheme, has_authority |-> t.has_authority, host |-> t.host,
           has_port |-> t.has_port /\ ~default,
           port |-> IF t.has_port THEN t.port ELSE DefaultPort(t.scheme),
           path |-> IF t.has_authority /\ t.path = << >> THEN <<"/">> ELSE t.path,
           has_query |-> t.has_query, query |-> t.query,
           has_fragment |-> t.has_fragment, fragment |-> t.fragment]
    BY <1>1 DEF Finished
  <2>2. (IF t.has_authority /\ t.path = << >> THEN <<"/">> ELSE t.path) = path
    BY <1>2, <1>5
  <2> QED
    BY <1>3, <1>4, <1>5, <1>6, <2>1, <2>2
<1>9. Pathed(path) /\ Rooted(path) /\ Settled(path)
  <2>1. Pathed(t.path) /\ IsPath(t.path)
    BY <1>5 DEF Clean
  <2>2. CASE t.path = << >>
    BY <1>2, <2>2, SlashPathed, RootSettled
  <2>3. CASE t.path # << >>
    BY <1>2, <2>1, <2>3 DEF IsPath
  <2> QED
    BY <2>2, <2>3
<1>10. Addressed(t.scheme, has, port)
  <2>1. t.port \in 0..MaxPort
    BY DEF Clean
  <2>2. CASE has
    BY <1>1, <1>3, <1>4, <2>1, <2>2 DEF Addressed
  <2>3. CASE ~has
    BY <1>1, <1>3, <1>4, <1>5, <2>3 DEF Addressed
  <2> QED
    BY <2>2, <2>3
<1>11. /\ url.scheme = t.scheme /\ url.host = t.host /\ url.has_port = has /\ url.port = port
       /\ url.path = path /\ url.has_query = t.has_query /\ url.query = t.query
       /\ url.has_fragment = t.has_fragment /\ url.fragment = t.fragment
  BY <1>6
<1>12. url = [scheme |-> url.scheme, has_authority |-> TRUE, host |-> url.host,
              has_port |-> url.has_port, port |-> url.port, path |-> url.path,
              has_query |-> url.has_query, query |-> url.query,
              has_fragment |-> url.has_fragment, fragment |-> url.fragment]
  BY <1>6
<1>13. /\ Schemed(TRUE, t.scheme) /\ Hosted(t.host)
       /\ Queried(t.has_query, t.query) /\ Fragmented(t.has_fragment, t.fragment)
  BY <1>5 DEF Clean
<1>14. Sound(url)
  <2>1. Addressed(url.scheme, url.has_port, url.port) /\ url.has_port \in BOOLEAN
    BY <1>4, <1>10, <1>11
  <2>2. Pathed(url.path) /\ Rooted(url.path) /\ Settled(url.path)
    BY <1>9, <1>11
  <2>3. /\ Schemed(TRUE, url.scheme) /\ Hosted(url.host)
        /\ Queried(url.has_query, url.query) /\ Fragmented(url.has_fragment, url.fragment)
    BY <1>11, <1>13
  <2> QED
    BY <1>12, <2>1, <2>2, <2>3 DEF Sound
<1> QED
  BY <1>7, <1>8, <1>14

LEMMA CleanWith ==
  ASSUME NEW c, NEW r, r = Raw(c), Clean(r), NEW p, Pathed(p), r.has_authority => IsPath(p),
         NEW t, t = [r EXCEPT !.path = p]
  PROVE  Clean(t) /\ t.path = p /\ t.has_authority = r.has_authority /\ t.has_scheme = r.has_scheme
<1>1. /\ t.has_scheme = r.has_scheme /\ t.scheme = r.scheme /\ t.has_authority = r.has_authority
      /\ t.host = r.host /\ t.has_port = r.has_port /\ t.port = r.port /\ t.path = p
      /\ t.has_query = r.has_query /\ t.query = r.query
      /\ t.has_fragment = r.has_fragment /\ t.fragment = r.fragment
  BY DEF Raw
<1>2. /\ r.has_scheme \in BOOLEAN /\ Schemed(r.has_scheme, r.scheme)
      /\ r.has_authority \in BOOLEAN /\ (r.has_authority => Hosted(r.host) /\ IsPath(r.path))
      /\ r.has_port \in BOOLEAN /\ r.port \in 0..MaxPort
      /\ Pathed(r.path) /\ Queried(r.has_query, r.query) /\ Fragmented(r.has_fragment, r.fragment)
  BY DEF Clean
<1>3. /\ t.has_scheme \in BOOLEAN /\ Schemed(t.has_scheme, t.scheme)
      /\ t.has_authority \in BOOLEAN /\ t.has_port \in BOOLEAN /\ t.port \in 0..MaxPort
      /\ Queried(t.has_query, t.query) /\ Fragmented(t.has_fragment, t.fragment)
  BY <1>1, <1>2
<1>4. t.has_authority => Hosted(t.host) /\ IsPath(t.path)
  BY <1>1, <1>2
<1> QED
  BY <1>1, <1>3, <1>4 DEF Clean

\* The path that is left of a clean one.
LEMMA PathLeft ==
  ASSUME NEW p, IsPath(p), Pathed(p)
  PROVE  /\ Pathed(RemoveDotSegments(p)) /\ IsPath(RemoveDotSegments(p)) /\ Settled(RemoveDotSegments(p))
<1>1. CASE p = << >>
  BY <1>1, RootSettled DEF Settled
<1>2. CASE Rooted(p)
  <2>1. PICK q : q = RemoveDotSegments(p)
    OBVIOUS
  <2>2. Settled(q) /\ Rooted(q)
    BY <1>2, <2>1, SettledIs
  <2>3. PathUnit \in SUBSET Unit /\ "/" \in PathUnit /\ p \in Seq(PathUnit)
    BY DEF PathUnit, PlainUnit, Normal, NonAscii, Faulty, Unit, Punctuation, Refused, BadTriplet, Pathed
  <2>4. q \in Seq(PathUnit) /\ Size(q) <= Size(p)
    BY <1>2, <2>1, <2>3, PathKept
  <2>5. Size(q) \in Nat /\ Size(p) \in Nat /\ PathMax \in Nat /\ Size(p) <= PathMax
    BY <2>3, <2>4, SizeIs, UrlConstants DEF Pathed
  <2> QED
    BY <2>1, <2>2, <2>4, <2>5 DEF Pathed, IsPath
<1> QED
  BY <1>1, <1>2 DEF IsPath

LEMMA MergedPathed ==
  ASSUME NEW r, Pathed(r.path), NEW b, Pathed(b.path), IsPath(b.path), b.has_authority,
         Size(Merged(b, r.path)) <= PathMax
  PROVE  Rooted(Merged(b, r.path)) /\ Pathed(Merged(b, r.path))
<1>1. PICK v \in Seq(PathUnit) : v = r.path
  BY DEF Pathed
<1>2. PICK u \in Seq(PathUnit) : u = b.path
  BY DEF Pathed
<1>3. PICK slash \in PathUnit : slash = "/"
  BY DEF PathUnit, PlainUnit, Normal, NonAscii, Faulty, Unit, Punctuation, Refused, BadTriplet
<1>4. PathUnit \subseteq Unit
  BY DEF PathUnit, PlainUnit
<1>5. v \in Seq(Unit) /\ u \in Seq(Unit)
  BY <1>4, SeqIn
<1>6. CASE u = << >>
  <2>1. PICK w : w = <<slash>> \o v
    OBVIOUS
  <2>2. w \in Seq(PathUnit) /\ w # << >> /\ w[1] = slash
    BY <2>1, TailJoin
  <2>3. w \in Seq(Unit)
    BY <1>4, <2>2, SeqIn
  <2>4. Merged(b, r.path) = w
    BY <1>1, <1>2, <1>3, <1>6, <2>1 DEF Merged
  <2> QED
    BY <1>3, <2>2, <2>3, <2>4 DEF Rooted, Pathed
<1>7. CASE u # << >>
  <2>1. Rooted(b.path)
    BY <1>2, <1>7 DEF IsPath
  <2>2. Rooted(Merged(b, r.path))
    BY <1>1, <1>5, <2>1, MergedIs
  <2>3. PICK k \in 0..Len(u) : k = LastSlash(u)
    <3>1. LastOf(u, {"/"}) \in 0..Len(u)
      BY LastIs
    <3>2. LastSlash(u) = LastOf(u, {"/"})
      BY DEF LastSlash, LastOf
    <3> QED
      BY <3>1, <3>2
  <2>4. PICK head \in Seq(PathUnit) : head = SubSeq(u, 1, k)
    BY Halves
  <2>5. head \o v \in Seq(PathUnit)
    BY ConcatProperties
  <2>6. Merged(b, r.path) = head \o v
    BY <1>1, <1>2, <1>7, <2>3, <2>4 DEF Merged, UpTo
  <2> QED
    BY <2>2, <2>5, <2>6 DEF Pathed
<1> QED
  BY <1>6, <1>7

LEMMA TransformedClean ==
  ASSUME NEW c, NEW r, r = Raw(c), Clean(r), NEW b, Schemed(TRUE, b.scheme),
         b.has_authority \in BOOLEAN, b.has_authority => Clean(b) /\ Settled(b.path),
         KeepsPath(r) \/ Size(JoinedPath(b, r)) <= PathMax,
         NEW t, t = Transformed(b, r), t.has_authority
  PROVE  Clean(t) /\ t.has_scheme /\ Settled(t.path)
<1>1. PICK path : path = IF KeepsPath(r) THEN b.path ELSE RemoveDotSegments(JoinedPath(b, r))
  OBVIOUS
<1>2. PICK from : from = IF r.has_authority THEN r ELSE b
  OBVIOUS
<1>3. PICK asks : asks = IF KeepsPath(r) /\ ~r.has_query THEN b ELSE r
  OBVIOUS
<1>4. /\ t.has_scheme = TRUE /\ t.scheme = b.scheme /\ t.has_authority = from.has_authority
      /\ t.host = from.host /\ t.has_port = from.has_port /\ t.port = from.port /\ t.path = path
      /\ t.has_query = asks.has_query /\ t.query = asks.query
      /\ t.has_fragment = r.has_fragment /\ t.fragment = r.fragment
  BY <1>1, <1>2, <1>3 DEF Transformed, Raw
<1>6. Pathed(r.path) /\ (r.has_authority => IsPath(r.path)) /\ r.has_authority \in BOOLEAN
  BY DEF Clean
<1>7. b.has_authority => Pathed(b.path) /\ IsPath(b.path)
  BY DEF Clean
<1>8. r.has_authority \/ b.has_authority
  BY <1>2, <1>4, <1>6
<1>5. Clean(from) /\ Clean(asks)
  BY <1>2, <1>3, <1>8 DEF KeepsPath
<1>9. IsPath(path) /\ Pathed(path) /\ Settled(path)
  <2>1. CASE KeepsPath(r)
    <3>1. b.has_authority
      BY <1>8, <2>1 DEF KeepsPath
    <3> QED
      BY <1>1, <1>7, <2>1, <3>1
  <2>2. CASE ~KeepsPath(r)
    <3>1. IsPath(JoinedPath(b, r)) /\ Pathed(JoinedPath(b, r))
      <4>1. CASE r.has_authority
        BY <1>6, <4>1 DEF JoinedPath
      <4>2. CASE Starts(r.path, <<"/">>)
        <5>1. r.path \in Seq(Unit)
          <6>1. PathUnit \subseteq Unit
            BY DEF PathUnit, PlainUnit
          <6>2. r.path \in Seq(PathUnit)
            BY <1>6 DEF Pathed
          <6> QED
            BY <6>1, <6>2, SeqIn
        <5>2. Rooted(r.path)
          BY <4>2, <5>1, RootedIs
        <5> QED
          BY <1>6, <4>2, <5>2 DEF JoinedPath, IsPath
      <4>3. CASE ~r.has_authority /\ ~Starts(r.path, <<"/">>)
        <5>1. JoinedPath(b, r) = Merged(b, r.path)
          BY <4>3 DEF JoinedPath
        <5>2. Size(Merged(b, r.path)) <= PathMax
          BY <2>2, <5>1
        <5> QED
          BY <1>6, <1>7, <1>8, <4>3, <5>1, <5>2, MergedPathed DEF IsPath
      <4> QED
        BY <4>1, <4>2, <4>3
    <3> QED
      BY <1>1, <2>2, <3>1, PathLeft
  <2> QED
    BY <2>1, <2>2
<1>10. /\ from.has_authority \in BOOLEAN /\ from.has_port \in BOOLEAN /\ from.port \in 0..MaxPort
       /\ (from.has_authority => Hosted(from.host))
  BY <1>5 DEF Clean
<1>11. Queried(asks.has_query, asks.query)
  BY <1>5 DEF Clean
<1>12. Fragmented(r.has_fragment, r.fragment)
  BY DEF Clean
<1>14. /\ t.has_scheme \in BOOLEAN /\ Schemed(t.has_scheme, t.scheme)
       /\ t.has_authority \in BOOLEAN /\ (t.has_authority => Hosted(t.host) /\ IsPath(t.path))
  BY <1>4, <1>9, <1>10
<1>15. /\ t.has_port \in BOOLEAN /\ t.port \in 0..MaxPort /\ Pathed(t.path)
       /\ Queried(t.has_query, t.query) /\ Fragmented(t.has_fragment, t.fragment)
  BY <1>4, <1>9, <1>10, <1>11, <1>12
<1> QED
  BY <1>4, <1>9, <1>14, <1>15 DEF Clean

LEMMA ParseWell ==
  ASSUME NEW w \in Seq(Unit), NEW base \in Seq(Unit) \cup {NoBase}, Parse(w, base).status = "OK"
  PROVE  /\ Wellformed(w)
         /\ ~Split(w).has_scheme => base # NoBase /\ Wellformed(base) /\ Split(base).has_scheme
<1>1. \A code : Failed(code).status = code
  BY DEF Failed
<1>2. RefError(w, Split(w)) = "OK"
  BY <1>1 DEF Parse, ParseSplit
<1>3. Wellformed(w)
  BY <1>2, RefErrorIs DEF Wellformed
<1>4. ASSUME ~Split(w).has_scheme PROVE base # NoBase /\ Wellformed(base) /\ Split(base).has_scheme
  <2>1. BaseError(base, Split(base)) = "OK"
    BY <1>1, <1>2, <1>4 DEF Parse, ParseSplit
  <2>2. /\ base # NoBase /\ InputError(base) = "OK" /\ RawError(Split(base)) = "OK"
        /\ Split(base).has_scheme /\ ComponentsError(Split(base)) = "OK"
    BY <2>1, BaseErrorIs
  <2> QED
    BY <2>2 DEF Wellformed
<1> QED
  BY <1>3, <1>4

LEMMA BaseClean ==
  ASSUME NEW base, Wellformed(base), Split(base).has_scheme, NEW b, b = BaseRaw(Split(base))
  PROVE  /\ Schemed(TRUE, b.scheme) /\ b.has_authority \in BOOLEAN
         /\ b.has_authority => Clean(b) /\ Settled(b.path) /\ b.has_scheme
<1>1. PICK c : c = Split(base)
  OBVIOUS
<1>2. PICK r : r = Raw(c)
  OBVIOUS
<1>3. Clean(r)
  BY <1>1, <1>2, CleanRaw
<1>4. PICK p : p = RemoveDotSegments(r.path)
  OBVIOUS
<1>5. b = [r EXCEPT !.path = p]
  BY <1>1, <1>2, <1>4 DEF BaseRaw
<1>6. b.scheme = r.scheme /\ b.has_authority = r.has_authority /\ r.has_scheme = c.has_scheme
  BY <1>2, <1>5 DEF Raw
<1>7. Schemed(r.has_scheme, r.scheme) /\ r.has_scheme \in BOOLEAN /\ r.has_authority \in BOOLEAN
  BY <1>3 DEF Clean
<1>8. Schemed(TRUE, r.scheme) /\ r.has_scheme = TRUE
  BY <1>1, <1>6, <1>7
<1>9. ASSUME b.has_authority PROVE Clean(b) /\ Settled(b.path) /\ b.has_scheme
  <2>1. IsPath(r.path) /\ Pathed(r.path)
    BY <1>3, <1>6, <1>9 DEF Clean
  <2>2. Pathed(p) /\ IsPath(p) /\ Settled(p)
    BY <1>4, <2>1, PathLeft
  <2>3. Clean(b) /\ b.path = p /\ b.has_scheme = r.has_scheme
    BY <1>2, <1>3, <1>5, <2>2, CleanWith
  <2> QED
    BY <1>8, <2>2, <2>3
<1> QED
  BY <1>6, <1>7, <1>8, <1>9

\* What is parsed is sound.
LEMMA ParseSound ==
  ASSUME NEW w \in Seq(Unit), NEW base \in Seq(Unit) \cup {NoBase}, Parse(w, base).status = "OK",
         Parse(w, base).url.has_authority
  PROVE  Sound(Parse(w, base).url)
<1>1. PICK c : c = Split(w)
  OBVIOUS
<1>2. PICK r : r = Raw(c)
  OBVIOUS
<1>3. Wellformed(w) /\ (~c.has_scheme => base # NoBase /\ Wellformed(base) /\ Split(base).has_scheme)
  BY <1>1, ParseWell
<1>4. Clean(r)
  BY <1>1, <1>2, <1>3, CleanRaw
<1>5. r.has_scheme = c.has_scheme
  BY <1>2 DEF Raw
<1>6. CASE c.has_scheme /\ Parse(w, base) = Absolute(r, RawWarnings(c))
  <2>1. PICK p : p = RemoveDotSegments(r.path)
    OBVIOUS
  <2>2. PICK t : t = [r EXCEPT !.path = p]
    OBVIOUS
  <2>3. Parse(w, base) = Finished(t, RawWarnings(c) \cup DotWarning(r.path, p))
    BY <1>6, <2>1, <2>2 DEF Absolute
  <2>4. t.has_authority
    BY <2>3, FinishedIs
  <2>5. t.has_authority = r.has_authority
    BY <1>2, <2>2 DEF Raw
  <2>6. IsPath(r.path) /\ Pathed(r.path)
    BY <1>4, <2>4, <2>5 DEF Clean
  <2>7. Pathed(p) /\ IsPath(p) /\ Settled(p)
    BY <2>1, <2>6, PathLeft
  <2>8. Clean(t) /\ t.path = p /\ t.has_scheme = r.has_scheme
    BY <1>2, <1>4, <2>2, <2>7, CleanWith
  <2>9. t.has_scheme /\ Settled(t.path)
    BY <1>5, <1>6, <2>7, <2>8
  <2> QED
    BY <2>3, <2>4, <2>8, <2>9, FinishedSound
<1>7. CASE ~c.has_scheme /\ Parse(w, base) = Relative(r, BaseRaw(Split(base)), RawWarnings(c))
  <2>1. PICK b : b = BaseRaw(Split(base))
    OBVIOUS
  <2>2. /\ Schemed(TRUE, b.scheme) /\ b.has_authority \in BOOLEAN
        /\ b.has_authority => Clean(b) /\ Settled(b.path)
    BY <1>3, <1>7, <2>1, BaseClean
  <2>3. PICK t : t = Transformed(b, r)
    OBVIOUS
  <2>4. Failed("OVERFLOW").status # "OK"
    BY DEF Failed
  <2>5. KeepsPath(r) \/ ~(Size(JoinedPath(b, r)) > PathMax)
    BY <1>7, <2>1, <2>4 DEF Relative
  <2>6. \E warnings : Parse(w, base) = Finished(t, warnings)
    BY <1>7, <2>1, <2>3, <2>4 DEF Relative
  <2>7. t.has_authority
    BY <2>6, FinishedIs
  <2>8. KeepsPath(r) \/ Size(JoinedPath(b, r)) <= PathMax
    <3>1. SUFFICES ASSUME ~KeepsPath(r) PROVE Size(JoinedPath(b, r)) <= PathMax
      OBVIOUS
    <3>2. Size(JoinedPath(b, r)) \in Nat
      <4>1. r.path \in Seq(Unit)
        BY <1>1, <1>2, RawIs
      <4>2. b.path \in Seq(Unit)
        <5>1. base \in Seq(Unit)
          BY <1>3, <1>7
        <5>2. Raw(Split(base)).path \in Seq(Unit)
          BY <5>1, RawIs
        <5> QED
          BY <2>1, <5>2, BaseRawIs, RemovedIs
      <4>3. JoinedPath(b, r) \in Seq(Unit)
        BY <4>1, <4>2, JoinedIs
      <4> QED
        BY <4>3, SizeIs
    <3> QED
      BY <2>5, <3>1, <3>2, UrlConstants
  <2>9. Clean(t) /\ t.has_scheme /\ Settled(t.path)
    BY <1>2, <1>4, <2>2, <2>3, <2>7, <2>8, TransformedClean
  <2> QED
    BY <2>6, <2>7, <2>9, FinishedSound
<1> QED
  BY <1>1, <1>2, <1>6, <1>7, ParseIs

LEMMA Joins ==
  ASSUME NEW S, NEW u \in Seq(S), NEW v \in Seq(S)
  PROVE  \E w \in Seq(S) : Joined(w, u, v)
BY ConcatProperties DEF Joined

\* The eight parts of a URL, joined from the left and from the right.
FromLeft(w, s, c, d, h, e, p, u, v) == w = s \o c \o (d \o h \o e) \o p \o u \o v
FromRight(w, s, c, d, h, e, p, u, v) == w = s \o (c \o (d \o ((h \o e) \o (p \o (u \o v)))))

LEMMA Regrouped ==
  ASSUME NEW S, NEW s \in Seq(S), NEW c \in Seq(S), NEW d \in Seq(S), NEW h \in Seq(S), NEW e \in Seq(S),
         NEW p \in Seq(S), NEW u \in Seq(S), NEW v \in Seq(S),
         NEW text, FromLeft(text, s, c, d, h, e, p, u, v)
  PROVE  text \in Seq(S) /\ FromRight(text, s, c, d, h, e, p, u, v)
<1>1. PICK a \in Seq(S) : Joined(a, h, e)
  BY Joins
<1>2. PICK b \in Seq(S) : Joined(b, d, a)
  BY Joins
<1>3. PICK dh \in Seq(S) : Joined(dh, d, h)
  BY Joins
<1>4. Joined(b, dh, e)
  BY <1>1, <1>2, <1>3, Regroup
<1>5. PICK y \in Seq(S) : Joined(y, u, v)
  BY Joins
<1>6. PICK z \in Seq(S) : Joined(z, p, y)
  BY Joins
<1>7. PICK az \in Seq(S) : Joined(az, a, z)
  BY Joins
<1>8. PICK bz \in Seq(S) : Joined(bz, d, az)
  BY Joins
<1>9. PICK cz \in Seq(S) : Joined(cz, c, bz)
  BY Joins
<1>10. PICK w \in Seq(S) : Joined(w, s, cz)
  BY Joins
<1>11. PICK x \in Seq(S) : Joined(x, s, c)
  BY Joins
<1>12. Joined(w, x, bz)
  BY <1>9, <1>10, <1>11, Regroup, SMTT(60)
<1>13. Joined(bz, b, z)
  BY <1>2, <1>7, <1>8, Regroup, SMTT(60)
<1>14. PICK xb \in Seq(S) : Joined(xb, x, b)
  BY Joins
<1>15. Joined(w, xb, z)
  BY <1>12, <1>13, <1>14, Regroup, SMTT(60)
<1>16. PICK xp \in Seq(S) : Joined(xp, xb, p)
  BY Joins
<1>17. Joined(w, xp, y)
  BY <1>6, <1>15, <1>16, SMTT(60), Regroup
<1>18. PICK xu \in Seq(S) : Joined(xu, xp, u)
  BY Joins
<1>19. Joined(w, xu, v)
  BY <1>5, <1>17, <1>18, SMTT(60), Regroup
<1>20. FromRight(w, s, c, d, h, e, p, u, v)
  BY <1>1, <1>5, <1>6, <1>7, <1>8, <1>9, <1>10, Zenon DEF Joined, FromRight
<1>21. w = text
  BY <1>3, <1>4, <1>11, <1>14, <1>16, <1>18, <1>19, Zenon DEF Joined, FromLeft
<1> QED
  BY <1>20, <1>21

\* A plain text passes the checks a normalized part is put to.
LEMMA PlainPasses ==
  ASSUME NEW w \in Seq(PlainUnit), NEW cap \in Nat, Size(w) <= cap
  PROVE  NormalError(w, cap) = "OK"
<1>1. Normalized(w) = w
  BY NormalizedSame
<1>2. Clear(w, {BadTriplet})
  <2>1. \A i \in 1..Len(w) : w[i] \in PlainUnit
    OBVIOUS
  <2> QED
    BY <2>1 DEF Clear, PlainUnit, Faulty
<1>3. w \in Seq(Unit)
  <2>1. PlainUnit \subseteq Unit
    BY DEF PlainUnit
  <2> QED
    BY <2>1, SeqIn
<1> QED
  BY <1>1, <1>2, <1>3, NormalErrorIs

LEMMA PlainAre ==
  /\ {":", "/", "?", "#"} \subseteq PlainUnit /\ SchemeUnit \subseteq PlainUnit /\ Digit \subseteq PlainUnit
  /\ HostUnit \subseteq PlainUnit /\ PathUnit \subseteq PlainUnit /\ QueryUnit \subseteq PlainUnit /\ PlainUnit \subseteq Unit
  /\ PlainUnit \cap Refused = {}
<1>1. ASSUME NEW c \in {":", "/", "?", "#"} \cup SchemeUnit \cup Digit PROVE c \in PlainUnit
  <2>1. c \in Unit \ Faulty
    BY DEF SchemeUnit, SchemeChar, Alpha, Digit, Unit, Punctuation, Faulty, Refused, BadTriplet
  <2>2. c \notin {"%2E", "%41", "%7E", "%2f", NonAscii}
    BY DEF SchemeUnit, SchemeChar, Alpha, Digit, NonAscii
  <2>3. Normal(c) = c
    BY <2>2 DEF Normal
  <2> QED
    BY <2>1, <2>3 DEF PlainUnit
<1>2. HostUnit \subseteq PlainUnit /\ PathUnit \subseteq PlainUnit /\ QueryUnit \subseteq PlainUnit
  BY DEF HostUnit, PathUnit, QueryUnit
<1>3. PlainUnit \subseteq Unit /\ PlainUnit \cap Refused = {}
  BY DEF PlainUnit, Faulty
<1> QED
  BY <1>1, <1>2, <1>3

\* What is written of a port.
Ending(pp, has, port) == pp = IF has THEN <<":">> \o Decimal(port) ELSE << >>

\* An authority that is read as it is written.
AuthorityRead(a, h, has, port) ==
  /\ a \in Seq(PlainUnit) /\ Clear(a, {"/", "?", "#"}) /\ AuthorityError(a) = "OK"
  /\ Host(a) = h /\ (PortDigits(a) # << >> <=> has)
  /\ PortValue(PortDigits(a)) = IF has THEN port ELSE 0

LEMMA AuthorityWritten ==
  ASSUME NEW h, Hosted(h), NEW has \in BOOLEAN, NEW port, has => port \in 0..MaxPort,
         NEW pp, Ending(pp, has, port), NEW a, Joined(a, h, pp)
  PROVE  pp \in Seq(PlainUnit) /\ AuthorityRead(a, h, has, port)
<1>m. MaxPort \in Nat
  BY UrlConstants
<1>1. PICK ds \in Seq(Digit) :
        /\ has => ds = Decimal(port) /\ ds # << >> /\ PortValue(ds) = port
        /\ ~has => ds = << >> /\ PortValue(ds) = 0
  <2>1. CASE has
    <3>1. port \in Nat
      BY <1>m, <2>1
    <3> QED
      BY <2>1, <3>1, DecimalIs
  <2>2. CASE ~has
    <3>1. PICK none \in Seq(Digit) : none = << >>
      BY EmptySeq
    <3> QED
      BY <2>2, <3>1, NoPort
  <2> QED
    BY <2>1, <2>2
<1>2. ds \in Seq(PlainUnit) /\ ds \in Seq(Unit) /\ \A i \in 1..Len(ds) : ds[i] \in Digit
  <2>1. Digit \subseteq PlainUnit /\ PlainUnit \subseteq Unit
    BY PlainAre
  <2>2. \A i \in 1..Len(ds) : ds[i] \in Digit
    OBVIOUS
  <2> QED
    BY <2>1, <2>2, SeqIn
<1>3. Marked(pp, ":", has, ds)
  BY <1>1 DEF Marked, Ending
<1>4. PICK colon \in PlainUnit : colon = ":"
  BY PlainAre
<1>5. pp \in Seq(PlainUnit) /\ Clear(pp, {"/", "?", "#", "@"})
  <2>1. CASE has
    <3>1. PICK one \in Seq(PlainUnit) : one = <<colon>>
      BY OneIs
    <3>2. pp = one \o ds
      BY <1>1, <1>4, <2>1, <3>1 DEF Ending
    <3>3. PICK stops : stops = {"/", "?", "#", "@"}
      OBVIOUS
    <3>4. Clear(one, stops)
      BY <1>4, <3>1, <3>3 DEF Clear
    <3>5. Clear(ds, stops)
      BY <1>2, <3>3 DEF Clear, Digit
    <3>6. one \o ds \in Seq(PlainUnit) /\ Clear(one \o ds, stops)
      BY <1>2, <3>4, <3>5, ClearJoin, ConcatProperties
    <3> QED
      BY <3>2, <3>3, <3>6
  <2>2. CASE ~has
    <3>1. << >> \in Seq(PlainUnit) /\ Len(<< >>) = 0
      BY EmptySeq
    <3> QED
      BY <2>2, <3>1 DEF Clear, Ending
  <2> QED
    BY <2>1, <2>2
<1>6. h \in Seq(PlainUnit) /\ HostShape(h) /\ Size(h) <= HostMax
  <2>1. h \in Seq(HostUnit) /\ HostUnit \subseteq PlainUnit
    BY PlainAre DEF Hosted
  <2>2. h \in Seq(PlainUnit)
    BY <2>1, SeqIn
  <2> QED
    BY <2>2 DEF Hosted
<1>7. Clear(h, {"/", "?", "#", "@"})
  BY <1>6 DEF HostShape
<1>8. a \in Seq(PlainUnit) /\ Clear(a, {"/", "?", "#", "@"})
  BY <1>5, <1>6, <1>7, ClearJoin, ConcatProperties DEF Joined
<1>9. Clear(a, {"/", "?", "#"}) /\ Clear(a, {"@"})
  BY <1>8 DEF Clear
<1>10. /\ Host(a) = h /\ PortPart(a) = pp /\ PortDigits(a) = IF has THEN ds ELSE << >>
       /\ IsLiteral(a) => Contains(a, "]")
  BY <1>2, <1>3, <1>6, HostJoin
<1>11. PortDigits(a) = ds
  BY <1>1, <1>10
<1>12. IsPort(ds)
  <2>1. ToSet(ds) \subseteq Digit
    BY <1>2 DEF ToSet
  <2>2. PortValue(ds) <= MaxPort
    BY <1>1, <1>m
  <2> QED
    BY <2>1, <2>2 DEF IsPort
<1>13. a \in Seq(Unit)
  <2>1. PlainUnit \subseteq Unit
    BY PlainAre
  <2> QED
    BY <1>8, <2>1, SeqIn
<1>14. AuthorityError(a) = "OK"
  <2>1. ~Contains(a, "@")
    BY <1>9, <1>13, LiteralIs
  <2>2. ~(PortPart(a) # << >> /\ PortPart(a)[1] # ":")
    <3>1. ":" \in Unit
      BY MarksAre
    <3>2. (pp # << >> <=> has) /\ (has => pp[1] = ":")
      BY <1>2, <1>3, <3>1, MarkedIs
    <3> QED
      BY <1>10, <3>2
  <2>3. Host(a) # << >>
    <3>1. Len(h) >= 1
      BY <1>6 DEF HostShape
    <3>2. h # << >>
      BY <3>1
    <3> QED
      BY <1>10, <3>2
  <2>4. ~(Size(Host(a)) > HostMax)
    <3>1. Size(h) \in Nat /\ HostMax \in Nat
      BY <1>6, SizeIs, UrlConstants
    <3> QED
      BY <1>6, <1>10, <3>1
  <2>5. IsPort(PortDigits(a))
    BY <1>11, <1>12
  <2> QED
    BY <1>10, <2>1, <2>2, <2>3, <2>4, <2>5, AuthorityErrorIs
<1>15. PortDigits(a) # << >> <=> has
  BY <1>1, <1>11
<1>16. PortValue(PortDigits(a)) = IF has THEN port ELSE 0
  BY <1>1, <1>11
<1> QED
  BY <1>5, <1>8, <1>9, <1>10, <1>14, <1>15, <1>16 DEF AuthorityRead

\* What a URL is as a reference.
AsRaw(url) ==
  [has_scheme |-> TRUE, scheme |-> url.scheme, has_authority |-> TRUE, host |-> url.host,
   has_port |-> url.has_port, port |-> IF url.has_port THEN url.port ELSE 0, path |-> url.path,
   has_query |-> url.has_query, query |-> url.query,
   has_fragment |-> url.has_fragment, fragment |-> url.fragment]

\* The text of a URL, from its parts.
Written(text, url, e, a, u, v) ==
  /\ Ending(e, url.has_port, url.port) /\ Joined(a, url.host, e)
  /\ Marked(u, "?", url.has_query, url.query) /\ Marked(v, "#", url.has_fragment, url.fragment)
  /\ Assembled(text, url.scheme, a, url.path, u, v)

LEMMA SoundParts ==
  ASSUME NEW url, Sound(url)
  PROVE  /\ url.scheme \in Seq(SchemeUnit) /\ url.scheme \in Seq(PlainUnit) /\ url.scheme \in Seq(Unit)
         /\ url.scheme # << >> /\ url.scheme[1] \in Alpha /\ Clear(url.scheme, Unit \ SchemeChar)
         /\ Size(url.scheme) <= SchemeMax /\ Hosted(url.host) /\ url.host \in Seq(PlainUnit)
         /\ url.has_port \in BOOLEAN /\ (url.has_port => url.port \in 0..MaxPort)
         /\ url.path \in Seq(PlainUnit) /\ Rooted(url.path) /\ Clear(url.path, {"?", "#"})
         /\ Size(url.path) <= PathMax
         /\ url.has_query \in BOOLEAN /\ url.query \in Seq(PlainUnit) /\ Clear(url.query, {"#"})
         /\ Size(url.query) <= QueryMax /\ (url.has_query \/ url.query = << >>)
         /\ url.has_fragment \in BOOLEAN /\ url.fragment \in Seq(PlainUnit)
         /\ Size(url.fragment) <= QueryMax /\ (url.has_fragment \/ url.fragment = << >>)
<1>1. /\ Schemed(TRUE, url.scheme) /\ Hosted(url.host)
      /\ url.has_port \in BOOLEAN /\ Addressed(url.scheme, url.has_port, url.port)
      /\ Pathed(url.path) /\ Rooted(url.path)
      /\ Queried(url.has_query, url.query) /\ Fragmented(url.has_fragment, url.fragment)
  BY DEF Sound
<1>2. /\ url.scheme \in Seq(SchemeUnit) /\ url.scheme \in Seq(PlainUnit) /\ url.scheme \in Seq(Unit)
      /\ url.scheme # << >> /\ url.scheme[1] \in Alpha /\ Clear(url.scheme, Unit \ SchemeChar)
      /\ Size(url.scheme) <= SchemeMax
  <2>1. PICK s \in Seq(SchemeUnit) : s = url.scheme
    BY <1>1 DEF Schemed
  <2>2. s # << >> /\ s[1] \in Alpha /\ Size(s) <= SchemeMax
    BY <1>1, <2>1 DEF Schemed
  <2>3. s \in Seq(PlainUnit) /\ s \in Seq(Unit)
    BY PlainAre, SeqIn
  <2>4. Clear(s, Unit \ SchemeChar)
    BY DEF Clear, SchemeUnit
  <2> QED
    BY <2>1, <2>2, <2>3, <2>4
<1>3. url.host \in Seq(PlainUnit)
  <2>1. url.host \in Seq(HostUnit)
    BY <1>1 DEF Hosted
  <2> QED
    BY <2>1, PlainAre, SeqIn
<1>4. url.has_port => url.port \in 0..MaxPort
  BY <1>1 DEF Addressed
<1>5. url.path \in Seq(PlainUnit) /\ Clear(url.path, {"?", "#"}) /\ Size(url.path) <= PathMax
  <2>1. PICK p \in Seq(PathUnit) : p = url.path
    BY <1>1 DEF Pathed
  <2>2. p \in Seq(PlainUnit)
    BY PlainAre, SeqIn
  <2>3. Clear(p, {"?", "#"})
    BY DEF Clear, PathUnit
  <2> QED
    BY <1>1, <2>1, <2>2, <2>3 DEF Pathed
<1>6. /\ url.has_query \in BOOLEAN /\ url.query \in Seq(PlainUnit) /\ Clear(url.query, {"#"})
      /\ Size(url.query) <= QueryMax /\ (url.has_query \/ url.query = << >>)
  <2>1. PICK q \in Seq(QueryUnit) : q = url.query
    BY <1>1 DEF Queried
  <2>2. q \in Seq(PlainUnit)
    BY PlainAre, SeqIn
  <2>3. Clear(q, {"#"})
    BY DEF Clear, QueryUnit
  <2> QED
    BY <1>1, <2>1, <2>2, <2>3 DEF Queried
<1>7. /\ url.has_fragment \in BOOLEAN /\ url.fragment \in Seq(PlainUnit)
      /\ Size(url.fragment) <= QueryMax /\ (url.has_fragment \/ url.fragment = << >>)
  BY <1>1 DEF Fragmented
<1> QED
  BY <1>1, <1>2, <1>3, <1>4, <1>5, <1>6, <1>7

LEMMA MarkedPlain ==
  ASSUME NEW mark \in PlainUnit, NEW has \in BOOLEAN, NEW part \in Seq(PlainUnit), NEW v, Marked(v, mark, has, part)
  PROVE  v \in Seq(PlainUnit)
<1>1. << >> \in Seq(PlainUnit) /\ <<mark>> \o part \in Seq(PlainUnit)
  BY EmptySeq, TailJoin
<1> QED
  BY <1>1 DEF Marked

LEMMA Serialized ==
  ASSUME NEW url, Sound(url), NEW text, text = Serialize(url, MaxLen), text # Overflow
  PROVE  /\ text \in Seq(PlainUnit) /\ Size(text) <= MaxLen
         /\ \E e, a, u, v : Written(text, url, e, a, u, v)
<1>1. /\ url.scheme \in Seq(PlainUnit) /\ url.host \in Seq(PlainUnit) /\ url.path \in Seq(PlainUnit)
      /\ url.has_query \in BOOLEAN /\ url.query \in Seq(PlainUnit)
      /\ url.has_fragment \in BOOLEAN /\ url.fragment \in Seq(PlainUnit)
      /\ Hosted(url.host) /\ url.has_port \in BOOLEAN /\ (url.has_port => url.port \in 0..MaxPort)
  BY SoundParts
<1>2. PICK e : Ending(e, url.has_port, url.port)
  BY DEF Ending
<1>13. PICK a : Joined(a, url.host, e)
  BY DEF Joined
<1>3. e \in Seq(PlainUnit)
  BY <1>1, <1>2, <1>13, AuthorityWritten
<1>4. PICK u : Marked(u, "?", url.has_query, url.query)
  BY DEF Marked
<1>5. PICK v : Marked(v, "#", url.has_fragment, url.fragment)
  BY DEF Marked
<1>6. u \in Seq(PlainUnit) /\ v \in Seq(PlainUnit)
  <2>1. "?" \in PlainUnit /\ "#" \in PlainUnit
    BY PlainAre
  <2> QED
    BY <1>1, <1>4, <1>5, <2>1, MarkedPlain
<1>7. PICK s \in Seq(PlainUnit), h \in Seq(PlainUnit), p \in Seq(PlainUnit) : s = url.scheme /\ h = url.host /\ p = url.path
  BY <1>1
<1>8. PICK colon \in Seq(PlainUnit), slashes \in Seq(PlainUnit) : colon = <<":">> /\ slashes = <<"/", "/">>
  <2>1. PICK c \in PlainUnit : c = ":"
    BY PlainAre
  <2>2. PICK d \in PlainUnit : d = "/"
    BY PlainAre
  <2>3. <<c>> \in Seq(PlainUnit) /\ <<d, d>> \in Seq(PlainUnit)
    OBVIOUS
  <2> QED
    BY <2>1, <2>2, <2>3
<1>9. PICK w : FromLeft(w, s, colon, slashes, h, e, p, u, v)
  BY DEF FromLeft
<1>10. w \in Seq(PlainUnit) /\ FromRight(w, s, colon, slashes, h, e, p, u, v)
  BY <1>3, <1>6, <1>7, <1>8, <1>9, Regrouped
<1>11. Serialize(url, MaxLen) = IF Size(w) > MaxLen THEN Overflow ELSE w
  <2>1. url.has_authority = TRUE
    BY DEF Sound
  <2>2. (IF url.has_query THEN <<"?">> \o url.query ELSE << >>) = u
    BY <1>4 DEF Marked
  <2>3. (IF url.has_fragment THEN <<"#">> \o url.fragment ELSE << >>) = v
    BY <1>5 DEF Marked
  <2>4. (IF url.has_port THEN <<":">> \o Decimal(url.port) ELSE << >>) = e
    BY <1>2 DEF Ending
  <2>5. w = url.scheme \o <<":">> \o (<<"/", "/">> \o url.host \o e) \o url.path \o u \o v
    BY <1>7, <1>8, <1>9, Zenon DEF FromLeft
  <2> QED
    BY <2>1, <2>2, <2>3, <2>4, <2>5, Zenon DEF Serialize
<1>12. text = w /\ Size(text) <= MaxLen
  <2>1. Size(w) \in Nat /\ MaxLen \in Nat
    BY <1>10, SizeIs, UrlConstants
  <2> QED
    BY <1>11, <2>1
<1>14. Assembled(text, url.scheme, a, url.path, u, v)
  BY <1>7, <1>8, <1>10, <1>12, <1>13, Zenon DEF Assembled, FromRight, Joined
<1>15. Written(text, url, e, a, u, v)
  BY <1>2, <1>4, <1>5, <1>13, <1>14 DEF Written
<1> QED
  BY <1>10, <1>12, <1>15

\* The text of a sound URL, taken apart again.
LEMMA SplitAgain ==
  ASSUME NEW url, Sound(url), NEW text, text \in Seq(PlainUnit), NEW e, NEW a, NEW u, NEW v,
         Written(text, url, e, a, u, v)
  PROVE  /\ Split(text) =
              [has_scheme |-> TRUE, scheme |-> url.scheme, has_authority |-> TRUE, authority |-> a,
               path |-> url.path, has_query |-> url.has_query, query |-> url.query,
               has_fragment |-> url.has_fragment, fragment |-> url.fragment]
         /\ AuthorityRead(a, url.host, url.has_port, url.port)
<1>1. /\ Ending(e, url.has_port, url.port) /\ Joined(a, url.host, e)
      /\ Marked(u, "?", url.has_query, url.query) /\ Marked(v, "#", url.has_fragment, url.fragment)
      /\ Assembled(text, url.scheme, a, url.path, u, v)
  BY DEF Written
<1>2. /\ Hosted(url.host) /\ url.has_port \in BOOLEAN /\ (url.has_port => url.port \in 0..MaxPort)
  BY SoundParts
<1>3. AuthorityRead(a, url.host, url.has_port, url.port)
  BY <1>1, <1>2, AuthorityWritten
<1>4. /\ url.scheme \in Seq(Unit) /\ Clear(url.scheme, Unit \ SchemeChar)
      /\ url.scheme # << >> /\ url.scheme[1] \in Alpha
      /\ Rooted(url.path) /\ Clear(url.path, {"?", "#"})
      /\ url.has_query \in BOOLEAN /\ url.query \in Seq(PlainUnit) /\ Clear(url.query, {"#"})
      /\ (url.has_query \/ url.query = << >>)
      /\ url.has_fragment \in BOOLEAN /\ url.fragment \in Seq(PlainUnit)
      /\ (url.has_fragment \/ url.fragment = << >>)
  BY SoundParts
<1>5. a \in Seq(PlainUnit) /\ Clear(a, {"/", "?", "#"})
  BY <1>3 DEF AuthorityRead
<1>6. a \in Seq(Unit) /\ url.query \in Seq(Unit) /\ url.fragment \in Seq(Unit)
  BY <1>4, <1>5, PlainAre, SeqIn
<1>7. UrlParts(url.scheme, a, url.path, url.has_query, url.query, url.has_fragment, url.fragment)
  BY <1>4, <1>5, <1>6 DEF UrlParts
<1>8. ReadAs(text, url.scheme, a, url.path, url.has_query, url.query, url.has_fragment, url.fragment)
  BY <1>1, <1>7, SplitJoin
<1> QED
  BY <1>3, <1>8 DEF ReadAs

LEMMA ReadsWell ==
  ASSUME NEW url, Sound(url), NEW text, text = Serialize(url, MaxLen), text # Overflow
  PROVE  /\ Wellformed(text) /\ text # NoBase
         /\ Split(text).has_scheme /\ Raw(Split(text)) = AsRaw(url)
<1>1. text \in Seq(PlainUnit) /\ Size(text) <= MaxLen
  BY Serialized
<1>2. PICK e, a, u, v : Written(text, url, e, a, u, v)
  BY Serialized
<1>3. PICK c : c = Split(text)
  OBVIOUS
<1>4. /\ c = [has_scheme |-> TRUE, scheme |-> url.scheme, has_authority |-> TRUE, authority |-> a,
              path |-> url.path, has_query |-> url.has_query, query |-> url.query,
              has_fragment |-> url.has_fragment, fragment |-> url.fragment]
      /\ a \in Seq(PlainUnit) /\ AuthorityError(a) = "OK" /\ Host(a) = url.host
      /\ (PortDigits(a) # << >> <=> url.has_port)
      /\ PortValue(PortDigits(a)) = IF url.has_port THEN url.port ELSE 0
  BY <1>1, <1>2, <1>3, SplitAgain DEF AuthorityRead
<1>5. /\ c.has_scheme = TRUE /\ c.scheme = url.scheme /\ c.has_authority = TRUE /\ c.authority = a
      /\ c.path = url.path /\ c.has_query = url.has_query /\ c.query = url.query
      /\ c.has_fragment = url.has_fragment /\ c.fragment = url.fragment
  BY <1>4
<1>6. /\ url.scheme \in Seq(SchemeUnit) /\ url.scheme \in Seq(PlainUnit) /\ Size(url.scheme) <= SchemeMax
      /\ url.scheme # << >> /\ url.scheme[1] \in Alpha /\ url.has_port \in BOOLEAN
      /\ Hosted(url.host) /\ url.host \in Seq(PlainUnit)
      /\ url.path \in Seq(PlainUnit) /\ Size(url.path) <= PathMax
      /\ url.query \in Seq(PlainUnit) /\ Size(url.query) <= QueryMax
      /\ url.fragment \in Seq(PlainUnit) /\ Size(url.fragment) <= QueryMax
  BY SoundParts
<1>7. {HostMax, QueryMax, PathMax, MaxLen} \subseteq Nat
  BY UrlConstants
<1>8. text \in Seq(Unit) /\ Clear(text, Refused)
  <2>1. \A i \in 1..Len(text) : text[i] \in PlainUnit
    BY <1>1
  <2> QED
    BY <1>1, <2>1, PlainAre, SeqIn DEF Clear
<1>9. text # << >> /\ text # NoBase
  <2>1. PICK s \in Seq(PlainUnit) : s = url.scheme
    BY <1>6
  <2>2. PICK h : h = <<":">> \o (<<"/", "/">> \o (a \o (url.path \o (u \o v))))
    OBVIOUS
  <2>3. text = s \o h
    BY <1>2, <2>1, <2>2 DEF Written, Assembled
  <2>4. HasScheme(text)
    BY <1>3, <1>5 DEF Split
  <2>5. text # << >> /\ text[1] \in Alpha
    BY <2>4 DEF HasScheme
  <2>6. NoBase[1] \notin Alpha
    BY DEF NoBase, Alpha
  <2> QED
    BY <2>5, <2>6
<1>10. InputError(text) = "OK"
  BY <1>1, <1>8, <1>9, InputErrorIs
<1>11. RawError(c) = "OK"
  <2>1. /\ Size(url.scheme) \in Nat /\ Size(url.path) \in Nat /\ Size(url.query) \in Nat
        /\ Size(url.fragment) \in Nat
    BY <1>6, SizeIs
  <2>2. Size(c.scheme) \in Nat /\ Size(c.path) \in Nat /\ Size(c.query) \in Nat /\ Size(c.fragment) \in Nat
    BY <1>5, <2>1
  <2>3. Sized(c)
    BY <1>5, <1>6 DEF Sized
  <2>4. AuthorityError(c.authority) = "OK"
    BY <1>4, <1>5
  <2> QED
    BY <2>2, <2>3, <2>4, RawErrorIs
<1>12. ComponentsError(c) = "OK"
  <2>1. Size(url.host) <= HostMax
    BY <1>6 DEF Hosted
  <2>2. /\ NormalError(url.host, HostMax) = "OK" /\ NormalError(url.path, PathMax) = "OK"
        /\ NormalError(url.query, QueryMax) = "OK" /\ NormalError(url.fragment, QueryMax) = "OK"
    BY <1>6, <1>7, <2>1, PlainPasses
  <2>3. Host(c.authority) = url.host
    BY <1>4, <1>5
  <2> QED
    BY <1>5, <2>2, <2>3, ComponentsErrorIs
<1>13. Raw(c) = AsRaw(url)
  <2>1. Lower(c.scheme) = url.scheme
    <3>1. Lower(url.scheme) = url.scheme
      BY <1>6, LowerSame DEF SchemeUnit
    <3> QED
      BY <1>5, <3>1
  <2>2. Lower(Normalized(Host(c.authority))) = url.host
    <3>1. Normalized(url.host) = url.host
      BY <1>6, NormalizedSame
    <3>2. Lower(url.host) = url.host
      <4>1. url.host \in Seq(HostUnit) /\ "A" \notin HostUnit /\ "S" \notin HostUnit
        BY <1>6 DEF Hosted, HostUnit
      <4> QED
        BY <4>1, LowerSame
    <3>3. Host(c.authority) = url.host
      BY <1>4, <1>5
    <3> QED
      BY <3>1, <3>2, <3>3
  <2>3. /\ Normalized(c.path) = url.path /\ Normalized(c.query) = url.query
        /\ Normalized(c.fragment) = url.fragment
    BY <1>5, <1>6, NormalizedSame
  <2>4. PortValue(PortDigits(c.authority)) = IF url.has_port THEN url.port ELSE 0
    BY <1>4, <1>5
  <2>5. (PortDigits(c.authority) # << >>) = url.has_port
    <3>1. PortDigits(c.authority) # << >> <=> url.has_port
      BY <1>4, <1>5
    <3> QED
      BY <1>6, <3>1
  <2>6. Raw(c) =
          [has_scheme |-> c.has_scheme, scheme |-> Lower(c.scheme),
           has_authority |-> c.has_authority, host |-> Lower(Normalized(Host(c.authority))),
           has_port |-> (PortDigits(c.authority) # << >>), port |-> PortValue(PortDigits(c.authority)),
           path |-> Normalized(c.path),
           has_query |-> c.has_query, query |-> Normalized(c.query),
           has_fragment |-> c.has_fragment, fragment |-> Normalized(c.fragment)]
    BY DEF Raw
  <2> QED
    BY <1>5, <2>1, <2>2, <2>3, <2>4, <2>5, <2>6, Zenon DEF AsRaw
<1> QED
  BY <1>3, <1>5, <1>8, <1>9, <1>10, <1>11, <1>12, <1>13 DEF Wellformed

\* The record of a raw reference, and what leaves it as it is.
IsRecord(r, a, b, c, d, e, f, g, h, i, j, k) ==
  r = [has_scheme |-> a, scheme |-> b, has_authority |-> c, host |-> d, has_port |-> e,
       port |-> f, path |-> g, has_query |-> h, query |-> i, has_fragment |-> j, fragment |-> k]
Unmoved(r, g) == [r EXCEPT !.path = g] = r

LEMMA SameRecord ==
  ASSUME NEW r, NEW a, NEW b, NEW c, NEW d, NEW e, NEW f, NEW g, NEW h, NEW i, NEW j, NEW k,
         IsRecord(r, a, b, c, d, e, f, g, h, i, j, k)
  PROVE  Unmoved(r, g)
BY DEF IsRecord, Unmoved

\* A URL is read again as itself, whatever the base.
LEMMA ParseAgain ==
  ASSUME NEW url, Sound(url), NEW text, text = Serialize(url, MaxLen), text # Overflow, NEW base
  PROVE  Parse(text, base).status = "OK" /\ Parse(text, base).url = url
<1>1. /\ Wellformed(text) /\ Split(text).has_scheme /\ Raw(Split(text)) = AsRaw(url)
  BY ReadsWell
<1>2. PICK c : c = Split(text)
  OBVIOUS
<1>3. RefError(text, c) = "OK"
  BY <1>1, <1>2, RefErrorIs DEF Wellformed
<1>4. PICK r : r = AsRaw(url)
  OBVIOUS
<1>5. Parse(text, base) = Absolute(r, RawWarnings(c))
  BY <1>1, <1>2, <1>3, <1>4 DEF Parse, ParseSplit
<1>6. r.path = url.path /\ Settled(url.path)
  BY <1>4 DEF AsRaw, Sound
<1>7. [r EXCEPT !.path = url.path] = r
  <2>1. PICK port : port = IF url.has_port THEN url.port ELSE 0
    OBVIOUS
  <2>2. IsRecord(r, TRUE, url.scheme, TRUE, url.host, url.has_port, port, url.path,
                 url.has_query, url.query, url.has_fragment, url.fragment)
    BY <1>4, <2>1, Zenon DEF AsRaw, IsRecord
  <2>3. Unmoved(r, url.path)
    BY <2>2, SameRecord
  <2> QED
    BY <2>3 DEF Unmoved
<1>8. \E warnings : Parse(text, base) = Finished(r, warnings)
  <2>1. RemoveDotSegments(r.path) = url.path
    BY <1>6 DEF Settled
  <2> QED
    BY <1>5, <1>7, <2>1 DEF Absolute
<1>9. PICK warnings : Parse(text, base) = Finished(r, warnings)
  BY <1>8
<1>10. /\ r.scheme = url.scheme /\ r.has_authority = TRUE /\ r.host = url.host
       /\ r.has_port = url.has_port /\ r.port = (IF url.has_port THEN url.port ELSE 0)
       /\ r.has_query = url.has_query /\ r.query = url.query
       /\ r.has_fragment = url.has_fragment /\ r.fragment = url.fragment
  BY <1>4 DEF AsRaw
<1>11. url.path # << >>
  BY DEF Sound, Rooted
<1>12. url.has_port \in BOOLEAN /\ Addressed(url.scheme, url.has_port, url.port)
  BY DEF Sound
<1>13. PICK default \in BOOLEAN :
         default = (r.has_port /\ DefaultPort(r.scheme) # 0 /\ r.port = DefaultPort(r.scheme))
  OBVIOUS
<1>14. default = FALSE
  BY <1>10, <1>12, <1>13 DEF Addressed
<1>15. /\ Finished(r, warnings).status = "OK"
       /\ Finished(r, warnings).url =
            [scheme |-> r.scheme, has_authority |-> r.has_authority, host |-> r.host,
             has_port |-> r.has_port /\ ~default,
             port |-> IF r.has_port THEN r.port ELSE DefaultPort(r.scheme),
             path |-> IF r.has_authority /\ r.path = << >> THEN <<"/">> ELSE r.path,
             has_query |-> r.has_query, query |-> r.query,
             has_fragment |-> r.has_fragment, fragment |-> r.fragment]
  BY <1>13 DEF Finished
<1>16. (r.has_port /\ ~default) = url.has_port
  BY <1>10, <1>12, <1>14
<1>17. (IF r.has_port THEN r.port ELSE DefaultPort(r.scheme)) = url.port
  BY <1>10, <1>12 DEF Addressed
<1>18. (IF r.has_authority /\ r.path = << >> THEN <<"/">> ELSE r.path) = url.path
  BY <1>6, <1>11
<1>19. url = [scheme |-> url.scheme, has_authority |-> TRUE, host |-> url.host,
              has_port |-> url.has_port, port |-> url.port, path |-> url.path,
              has_query |-> url.has_query, query |-> url.query,
              has_fragment |-> url.has_fragment, fragment |-> url.fragment]
  BY DEF Sound
<1>20. Finished(r, warnings).url = url
  BY <1>10, <1>15, <1>16, <1>17, <1>18, <1>19, Zenon
<1> QED
  BY <1>9, <1>15, <1>20

LEMMA NamesItsScheme ==
  ASSUME NEW url, Sound(url), NEW text, text = Serialize(url, MaxLen), text # Overflow
  PROVE  NamesScheme(text)
<1>1. text \in Seq(PlainUnit)
  BY Serialized
<1>2. PICK e, a, u, v : Written(text, url, e, a, u, v)
  BY Serialized
<1>3. PICK s \in Seq(Unit) : s = url.scheme
  BY SoundParts
<1>4. Split(text).has_scheme /\ Split(text).scheme = url.scheme
  BY <1>1, <1>2, SplitAgain
<1>5. text \in Seq(Unit)
  BY <1>1, PlainAre, SeqIn
<1>6. HasScheme(text) /\ SchemeWord(text) = s
  BY <1>3, <1>4 DEF Split
<1>7. Split(text).has_authority
  BY <1>1, <1>2, SplitAgain
<1>8. HasAuthority(text)
  BY <1>7 DEF Split
<1>9. PICK v1 : v1 = Behind(text, s)
  OBVIOUS
<1>10. Starts(v1, <<":">>) /\ Starts(Tail(v1), <<"/", "/">>)
  BY <1>6, <1>8, <1>9 DEF HasScheme, HasAuthority, Hier
<1>11. PICK n \in Nat, m \in Nat : n = Len(text) /\ m = Len(s)
  BY <1>5
<1>12. m \in 0..n
  BY <1>5, <1>6, <1>11, UntilIs DEF SchemeWord
<1>13. v1 \in Seq(Unit) /\ Len(v1) = n - m
  BY <1>5, <1>9, <1>11, <1>12, BehindIs
<1>14. PICK colon \in Unit, slash \in Unit : colon = ":" /\ slash = "/"
  BY MarksAre
<1>15. Len(v1) >= 1 /\ v1[1] = colon
  BY <1>10, <1>13, <1>14, SingleIs
<1>16. PICK x \in Seq(Unit) : x = Tail(v1) /\ Len(x) = n - m - 1 /\ \A i \in 1..Len(x) : x[i] = v1[i + 1]
  <2>1. v1 # << >>
    BY <1>15, EmptySeq
  <2>2. Tail(v1) \in Seq(Unit) /\ Len(Tail(v1)) = Len(v1) - 1 /\ \A i \in 1..Len(Tail(v1)) : Tail(v1)[i] = v1[i + 1]
    BY <1>13, <2>1
  <2>3. Len(v1) - 1 = n - m - 1
    BY <1>11, <1>13
  <2> QED
    BY <2>2, <2>3
<1>17. Len(x) >= 2 /\ x[1] = slash /\ x[2] = slash
  BY <1>10, <1>14, <1>16, TwoIs
<1>18. Len(v1) >= 3 /\ v1[2] = slash /\ v1[3] = slash
  <2>1. 1 \in 1..Len(x) /\ 2 \in 1..Len(x)
    BY <1>16, <1>17
  <2>2. x[1] = v1[1 + 1] /\ x[2] = v1[2 + 1]
    BY <1>16, <2>1
  <2> QED
    BY <1>11, <1>13, <1>16, <1>17, <2>2
<1>19. Starts(v1, <<":", "/", "/">>)
  BY <1>13, <1>14, <1>15, <1>18, ThreeIs
<1>20. m + 1 \in DOMAIN text /\ SubSeq(text, m + 1, Len(text)) = v1
  <2>1. m + 1 \in 1..n
    BY <1>11, <1>12, <1>13, <1>15
  <2> QED
    BY <1>5, <1>9, <1>11, <2>1 DEF Behind
<1> QED
  BY <1>19, <1>20 DEF NamesScheme

\* A link that came to a text is one that was parsed.
LEMMA LinkParsed ==
  ASSUME RequestInv, call.kind = "link", stage # "asked", target # << >>
  PROVE  /\ call.of.href \in Seq(Unit) /\ call.of.base \in Seq(Unit) \cup {NoBase}
         /\ ref \in Seq(Unit) /\ ref = HrefText(call.of.href) /\ parsed = Parse(ref, call.of.base)
         /\ parsed.status = "OK" /\ target = Serialize(parsed.url, MaxLen) /\ target # Overflow
         /\ parsed.url.has_authority => Sound(parsed.url)
<1>1. PICK l : l = call.of
  OBVIOUS
<1>2. l \in Links
  BY <1>1 DEF RequestInv, Calls
<1>3. l.href \in Seq(Unit) /\ l.base \in Seq(Unit) \cup {NoBase}
  BY <1>2, RequestConstants
<1>4. ref = HrefText(l.href) /\ parsed = ParseHref(ref, l.base) /\ target = TextOf(parsed)
  BY <1>1 DEF RequestInv
<1>5. ref \in Seq(Unit)
  BY <1>3, <1>4, HrefIs
<1>6. parsed.status = "OK" /\ target = Serialize(parsed.url, MaxLen) /\ target # Overflow
  BY <1>4 DEF TextOf
<1>7. parsed = Parse(ref, l.base)
  <2>1. Failed("HREF").status # "OK"
    BY DEF Failed
  <2> QED
    BY <1>4, <1>6, <2>1 DEF ParseHref
<1>8. parsed.url.has_authority => Sound(parsed.url)
  BY <1>3, <1>5, <1>6, <1>7, ParseSound
<1> QED
  BY <1>1, <1>3, <1>4, <1>5, <1>6, <1>7, <1>8

\* What the host makes of the text of a sound URL.
LEMMA Prepared ==
  ASSUME NEW url, Sound(url), NEW text, text = Serialize(url, MaxLen), text # Overflow
  PROVE  IF url.scheme = <<"s">> THEN PrepareUrl(text).status = "OK" /\ PrepareUrl(text).url = url
         ELSE PrepareUrl(text).status = "SCHEME"
<1>1. WithHttps(text) = text
  BY NamesItsScheme DEF WithHttps
<1>2. PICK result : result = Parse(text, NoBase)
  OBVIOUS
<1>3. result.status = "OK" /\ result.url = url
  BY <1>2, ParseAgain
<1>4. PrepareUrl(text) = HttpsOnly(result)
  BY <1>1, <1>2 DEF PrepareUrl
<1>5. Serialize(result.url, MaxLen) # Overflow
  BY <1>3
<1>6. CASE url.scheme = <<"s">>
  <2>1. HttpsOnly(result) = result
    BY <1>3, <1>5, <1>6 DEF HttpsOnly
  <2> QED
    BY <1>3, <1>4, <1>6, <2>1
<1>7. CASE url.scheme # <<"s">>
  <2>1. HttpsOnly(result).status = "SCHEME"
    BY <1>3, <1>7 DEF HttpsOnly, Failed
  <2> QED
    BY <1>4, <1>7, <2>1
<1> QED
  BY <1>6, <1>7

LEMMA FetchedStep == RequestInv => LinkWithAuthorityIsFetched
<1> SUFFICES ASSUME RequestInv, call.kind = "link", target # << >>, stage = "prepared",
                    parsed.url.has_authority
             PROVE  IF parsed.url.scheme = <<"s">> THEN prepared.status = "OK" /\ prepared.url = parsed.url
                    ELSE prepared.status = "SCHEME"
  BY DEF LinkWithAuthorityIsFetched, IsLink
<1>1. stage # "asked"
  OBVIOUS
<1>2. Sound(parsed.url) /\ target = Serialize(parsed.url, MaxLen) /\ target # Overflow
  BY <1>1, LinkParsed
<1>3. prepared = PrepareUrl(target)
  BY DEF RequestInv
<1> QED
  BY <1>2, <1>3, Prepared

\* A link with an authority is fetched as the URL it stands for when its scheme
\* is https, and refused for its scheme when it is not: the text the host reads
\* again, with no base, is read as the URL it was written from.
THEOREM LinksFetched == Spec => []LinkWithAuthorityIsFetched
BY RequestSafe, FetchedStep, PTL

\* A base that is accepted is a URL of its own.
LEMMA HomeIs ==
  ASSUME NEW base, Wellformed(base), Split(base).has_scheme
  PROVE  \E warnings : Parse(base, NoBase) = Finished(BaseRaw(Split(base)), warnings)
<1>1. PICK c : c = Split(base)
  OBVIOUS
<1>2. RefError(base, c) = "OK"
  BY <1>1, RefErrorIs DEF Wellformed
<1>3. PICK r : r = Raw(c)
  OBVIOUS
<1>4. Parse(base, NoBase) = Absolute(r, RawWarnings(c))
  BY <1>1, <1>2, <1>3 DEF Parse, ParseSplit
<1>5. PICK p : p = RemoveDotSegments(r.path)
  OBVIOUS
<1>6. BaseRaw(c) = [r EXCEPT !.path = p]
  BY <1>3, <1>5 DEF BaseRaw
<1>7. Absolute(r, RawWarnings(c)) = Finished([r EXCEPT !.path = p], RawWarnings(c) \cup DotWarning(r.path, p))
  BY <1>5 DEF Absolute
<1> QED
  BY <1>1, <1>4, <1>6, <1>7

\* How a reference without a scheme is read against an accepted base.
ReadFrom(result, r, b) ==
  /\ KeepsPath(r) \/ ~(Size(JoinedPath(b, r)) > PathMax)
  /\ \E warnings : result = Finished(Transformed(b, r), warnings)

LEMMA ReadAgainst ==
  ASSUME NEW w, Wellformed(w), ~Split(w).has_scheme, NEW base, base # NoBase, Wellformed(base),
         Split(base).has_scheme, NEW r, r = Raw(Split(w)), NEW b, b = BaseRaw(Split(base))
  PROVE  IF KeepsPath(r) \/ ~(Size(JoinedPath(b, r)) > PathMax) THEN ReadFrom(Parse(w, base), r, b)
         ELSE Parse(w, base).status # "OK"
<1>1. RefError(w, Split(w)) = "OK"
  BY RefErrorIs DEF Wellformed
<1>2. BaseError(base, Split(base)) = "OK"
  BY BaseErrorIs DEF Wellformed
<1>3. Parse(w, base) = Relative(r, b, RawWarnings(Split(w)))
  BY <1>1, <1>2 DEF Parse, ParseSplit
<1>4. Failed("OVERFLOW").status # "OK"
  BY DEF Failed
<1> QED
  BY <1>3, <1>4 DEF Relative, ReadFrom

LEMMA ReferenceRead ==
  ASSUME NEW w \in Seq(Unit), NEW base \in Seq(Unit) \cup {NoBase}, Parse(w, base).status = "OK",
         ~HasScheme(w), NEW r, r = Raw(Split(w)), NEW b, b = BaseRaw(Split(base))
  PROVE  /\ Wellformed(w) /\ ~Split(w).has_scheme
         /\ base # NoBase /\ Wellformed(base) /\ Split(base).has_scheme
         /\ ReadFrom(Parse(w, base), r, b)
<1>1. ~Split(w).has_scheme
  BY DEF Split
<1>2. Wellformed(w) /\ base # NoBase /\ Wellformed(base) /\ Split(base).has_scheme
  BY <1>1, ParseWell
<1> QED
  BY <1>1, <1>2, ReadAgainst

\* Two targets that come to the same URL: the port of one may be dropped for
\* being the default, and its path be the one an authority has.
Twins(t, u) ==
  /\ t.scheme = u.scheme /\ t.host = u.host /\ t.has_authority = TRUE /\ u.has_authority = TRUE
  /\ t.has_query = u.has_query /\ t.query = u.query
  /\ t.has_fragment = u.has_fragment /\ t.fragment = u.fragment
  /\ u.path = t.path \/ (t.path = << >> /\ u.path = <<"/">>)
  /\ t.has_port \in BOOLEAN /\ u.has_port \in BOOLEAN
  /\ \/ u.has_port = t.has_port /\ u.port = t.port
     \/ /\ u.has_port <=> t.has_port /\ ~(DefaultPort(t.scheme) # 0 /\ t.port = DefaultPort(t.scheme))
        /\ u.has_port => u.port = t.port

LEMMA TwinsMeet ==
  ASSUME NEW t, NEW u, Twins(t, u), NEW v, NEW w
  PROVE  Finished(u, w).status = "OK" /\ Finished(u, w).url = Finished(t, v).url
<1>1. PICK dt \in BOOLEAN :
        dt = (t.has_port /\ DefaultPort(t.scheme) # 0 /\ t.port = DefaultPort(t.scheme))
  OBVIOUS
<1>2. PICK du \in BOOLEAN :
        du = (u.has_port /\ DefaultPort(u.scheme) # 0 /\ u.port = DefaultPort(u.scheme))
  OBVIOUS
<1>3. /\ t.scheme = u.scheme /\ t.host = u.host /\ t.has_authority = TRUE /\ u.has_authority = TRUE
      /\ t.has_query = u.has_query /\ t.query = u.query
      /\ t.has_fragment = u.has_fragment /\ t.fragment = u.fragment
      /\ t.has_port \in BOOLEAN /\ u.has_port \in BOOLEAN
  BY DEF Twins
<1>4. Finished(t, v).url =
        [scheme |-> t.scheme, has_authority |-> t.has_authority, host |-> t.host,
         has_port |-> t.has_port /\ ~dt,
         port |-> IF t.has_port THEN t.port ELSE DefaultPort(t.scheme),
         path |-> IF t.has_authority /\ t.path = << >> THEN <<"/">> ELSE t.path,
         has_query |-> t.has_query, query |-> t.query,
         has_fragment |-> t.has_fragment, fragment |-> t.fragment]
  BY <1>1 DEF Finished
<1>5. /\ Finished(u, w).status = "OK"
      /\ Finished(u, w).url =
           [scheme |-> u.scheme, has_authority |-> u.has_authority, host |-> u.host,
            has_port |-> u.has_port /\ ~du,
            port |-> IF u.has_port THEN u.port ELSE DefaultPort(u.scheme),
            path |-> IF u.has_authority /\ u.path = << >> THEN <<"/">> ELSE u.path,
            has_query |-> u.has_query, query |-> u.query,
            has_fragment |-> u.has_fragment, fragment |-> u.fragment]
  BY <1>2 DEF Finished
<1>6. (t.has_port /\ ~dt) = (u.has_port /\ ~du)
  BY <1>1, <1>2, <1>3 DEF Twins
<1>7. (IF t.has_port THEN t.port ELSE DefaultPort(t.scheme)) = (IF u.has_port THEN u.port ELSE DefaultPort(u.scheme))
  BY <1>3 DEF Twins
<1>8. <<"/">> # << >>
  OBVIOUS
<1>9. (IF t.has_authority /\ t.path = << >> THEN <<"/">> ELSE t.path)
        = (IF u.has_authority /\ u.path = << >> THEN <<"/">> ELSE u.path)
  BY <1>3, <1>8 DEF Twins
<1> QED
  BY <1>3, <1>4, <1>5, <1>6, <1>7, <1>9, ZenonT(60)

\* The target of a reference that is resolved, field by field.
IsRaw(r) == \E c : r = Raw(c)
Targets(t, b, r) == t = Transformed(b, r)
TakesPlace(t, from) ==
  /\ t.has_authority = from.has_authority /\ t.host = from.host
  /\ t.has_port = from.has_port /\ t.port = from.port
TakesQuery(t, from) == t.has_query = from.has_query /\ t.query = from.query

LEMMA TargetIs ==
  ASSUME NEW r, IsRaw(r), NEW b, NEW t, Targets(t, b, r)
  PROVE  /\ t.scheme = b.scheme /\ t.has_fragment = r.has_fragment /\ t.fragment = r.fragment
         /\ IF r.has_authority THEN TakesPlace(t, r) ELSE TakesPlace(t, b)
         /\ t.path = (IF KeepsPath(r) THEN b.path ELSE RemoveDotSegments(JoinedPath(b, r)))
         /\ IF KeepsPath(r) /\ ~r.has_query THEN TakesQuery(t, b) ELSE TakesQuery(t, r)
<1>1. PICK path : path = IF KeepsPath(r) THEN b.path ELSE RemoveDotSegments(JoinedPath(b, r))
  OBVIOUS
<1>2. PICK from : from = IF r.has_authority THEN r ELSE b
  OBVIOUS
<1>3. PICK asks : asks = IF KeepsPath(r) /\ ~r.has_query THEN b ELSE r
  OBVIOUS
<1>4. PICK c : r = Raw(c)
  BY DEF IsRaw
<1>5. /\ t.scheme = b.scheme /\ t.has_authority = from.has_authority
      /\ t.host = from.host /\ t.has_port = from.has_port /\ t.port = from.port /\ t.path = path
      /\ t.has_query = asks.has_query /\ t.query = asks.query
      /\ t.has_fragment = r.has_fragment /\ t.fragment = r.fragment
  BY <1>1, <1>2, <1>3, <1>4 DEF Targets, Transformed, Raw
<1>6. TakesPlace(t, from) /\ TakesQuery(t, asks)
  BY <1>5 DEF TakesPlace, TakesQuery
<1>7. IF r.has_authority THEN TakesPlace(t, r) ELSE TakesPlace(t, b)
  BY <1>2, <1>6
<1>8. IF KeepsPath(r) /\ ~r.has_query THEN TakesQuery(t, b) ELSE TakesQuery(t, r)
  BY <1>3, <1>6
<1> QED
  BY <1>1, <1>5, <1>7, <1>8

LEMMA OriginIs ==
  ASSUME NEW t, NEW warnings
  PROVE  Origin(Finished(t, warnings).url) =
           [scheme |-> t.scheme, host |-> t.host,
            port |-> IF t.has_port THEN t.port ELSE DefaultPort(t.scheme)]
BY DEF Finished, Origin

LEMMA HomeStep == RequestInv => ReferencesStayHome
<1> SUFFICES ASSUME RequestInv, call.kind = "link", stage # "asked", target # << >>,
                    ~HasScheme(ref), ~HasAuthority(ref),
                    Parse(call.of.base, NoBase).url.has_authority
             PROVE  /\ Parse(target, NoBase).status = "OK"
                    /\ Origin(Parse(target, NoBase).url) = Origin(Parse(call.of.base, NoBase).url)
  BY DEF ReferencesStayHome, IsLink, StaysHome
<1>1. PICK base : base = call.of.base
  OBVIOUS
<1>2. /\ base \in Seq(Unit) \cup {NoBase} /\ ref \in Seq(Unit) /\ parsed = Parse(ref, base)
      /\ parsed.status = "OK" /\ target = Serialize(parsed.url, MaxLen) /\ target # Overflow
      /\ parsed.url.has_authority => Sound(parsed.url)
  BY <1>1, LinkParsed
<1>3. PICK r : r = Raw(Split(ref))
  OBVIOUS
<1>4. PICK b : b = BaseRaw(Split(base))
  OBVIOUS
<1>5. /\ base # NoBase /\ Wellformed(base) /\ Split(base).has_scheme /\ ReadFrom(Parse(ref, base), r, b)
  BY <1>2, <1>3, <1>4, ReferenceRead
<1>6. PICK t : Targets(t, b, r)
  BY DEF Targets
<1>7. PICK v : parsed = Finished(t, v)
  BY <1>2, <1>5, <1>6 DEF ReadFrom, Targets
<1>8. PICK w : Parse(base, NoBase) = Finished(b, w)
  BY <1>4, <1>5, HomeIs
<1>9. ~r.has_authority
  BY <1>2, <1>3, RawIs
<1>10. /\ t.scheme = b.scheme /\ t.has_authority = b.has_authority /\ t.host = b.host
       /\ t.has_port = b.has_port /\ t.port = b.port
  <2>1. IsRaw(r)
    BY <1>3 DEF IsRaw
  <2>2. TakesPlace(t, b) /\ t.scheme = b.scheme
    BY <1>6, <1>9, <2>1, TargetIs
  <2> QED
    BY <2>2 DEF TakesPlace
<1>11. b.has_authority
  BY <1>1, <1>8, FinishedIs
<1>12. Sound(parsed.url)
  <2>1. parsed.url.has_authority = t.has_authority
    BY <1>7, FinishedIs
  <2> QED
    BY <1>2, <1>10, <1>11, <2>1
<1>13. Parse(target, NoBase).status = "OK" /\ Parse(target, NoBase).url = parsed.url
  BY <1>2, <1>12, ParseAgain
<1>14. Origin(parsed.url) = Origin(Parse(base, NoBase).url)
  <2>1. Origin(parsed.url) = [scheme |-> t.scheme, host |-> t.host,
                              port |-> IF t.has_port THEN t.port ELSE DefaultPort(t.scheme)]
    BY <1>7, OriginIs
  <2>2. Origin(Parse(base, NoBase).url) = [scheme |-> b.scheme, host |-> b.host,
                                           port |-> IF b.has_port THEN b.port ELSE DefaultPort(b.scheme)]
    BY <1>8, OriginIs
  <2> QED
    BY <1>10, <2>1, <2>2
<1> QED
  BY <1>1, <1>13, <1>14

\* A reference that names neither scheme nor authority stays with the origin of
\* its page, whatever its path climbs over, and its text does when it is read
\* again.
THEOREM HomeKept == Spec => []ReferencesStayHome
BY RequestSafe, HomeStep, PTL

\* The base of a page and its normalized text give a reference the same path.
LEMMA PathsMeet ==
  ASSUME NEW r, r.path \in Seq(Unit), NEW b, NEW n, b.has_authority, n.has_authority,
         n.path = b.path \/ (b.path = << >> /\ n.path = <<"/">>)
  PROVE  JoinedPath(n, r) = JoinedPath(b, r)
<1>1. Merged(n, r.path) = Merged(b, r.path)
  <2>1. CASE n.path = b.path
    BY <2>1 DEF Merged
  <2>2. CASE b.path = << >> /\ n.path = <<"/">>
    <3>1. Merged(b, r.path) = <<"/">> \o r.path
      BY <2>2 DEF Merged
    <3>2. PICK slash \in Unit : slash = "/"
      BY MarksAre
    <3>3. PICK one \in Seq(Unit) : one = <<slash>> /\ Len(one) = 1 /\ one[1] = slash
      <4>1. <<slash>> \in Seq(Unit) /\ Len(<<slash>>) = 1 /\ <<slash>>[1] = slash
        OBVIOUS
      <4> QED
        BY <4>1
    <3>4. PICK k : k = LastSlash(one)
      OBVIOUS
    <3>5. k \in 0..Len(one) /\ \A i \in (k + 1)..Len(one) : one[i] # "/"
      <4>1. /\ LastOf(one, {"/"}) \in 0..Len(one)
            /\ \A i \in (LastOf(one, {"/"}) + 1)..Len(one) : one[i] \notin {"/"}
        BY LastIs
      <4>2. LastSlash(one) = LastOf(one, {"/"})
        BY DEF LastSlash, LastOf
      <4> QED
        BY <3>4, <4>1, <4>2
    <3>6. k = 1
      <4>1. k # 0
        <5>1. SUFFICES ASSUME k = 0 PROVE FALSE
          OBVIOUS
        <5>2. 1 \in (k + 1)..Len(one)
          BY <3>3, <5>1
        <5> QED
          BY <3>2, <3>3, <3>5, <5>2
      <4> QED
        BY <3>3, <3>5, <4>1
    <3>7. SubSeq(one, 1, 1) = one
      <4>1. SubSeq(one, 1, Len(one)) = one
        OBVIOUS
      <4> QED
        BY <3>3, <4>1
    <3>8. UpTo(one, LastSlash(one)) = one
      BY <3>4, <3>6, <3>7 DEF UpTo
    <3>9. one # << >>
      BY <3>3, EmptySeq
    <3>10. Merged(n, r.path) = one \o r.path
      BY <2>2, <3>2, <3>3, <3>8, <3>9 DEF Merged
    <3> QED
      BY <3>1, <3>2, <3>3, <3>10
  <2> QED
    BY <2>1, <2>2
<1> QED
  BY <1>1 DEF JoinedPath

\* The base that the text of a sound URL is, read as a base.
LEMMA TextAsBase ==
  ASSUME NEW url, Sound(url), NEW text, text = Serialize(url, MaxLen), text # Overflow
  PROVE  BaseRaw(Split(text)) = AsRaw(url)
<1>1. PICK r : r = AsRaw(url)
  OBVIOUS
<1>2. Raw(Split(text)) = r
  BY <1>1, ReadsWell
<1>3. r.path = url.path /\ RemoveDotSegments(url.path) = url.path
  BY <1>1 DEF AsRaw, Sound, Settled
<1>4. PICK port : port = IF url.has_port THEN url.port ELSE 0
  OBVIOUS
<1>5. IsRecord(r, TRUE, url.scheme, TRUE, url.host, url.has_port, port, url.path,
               url.has_query, url.query, url.has_fragment, url.fragment)
  BY <1>1, <1>4, Zenon DEF AsRaw, IsRecord
<1>6. Unmoved(r, url.path)
  BY <1>5, SameRecord
<1>7. BaseRaw(Split(text)) = [r EXCEPT !.path = RemoveDotSegments(@)]
  BY <1>2, Zenon DEF BaseRaw
<1>8. [r EXCEPT !.path = RemoveDotSegments(@)] = [r EXCEPT !.path = url.path]
  BY <1>3
<1> QED
  BY <1>1, <1>6, <1>7, <1>8, Zenon DEF Unmoved

\* A base as it came, and as the text of the URL it is.
Retold(b, n) ==
  /\ n.scheme = b.scheme /\ n.host = b.host /\ b.has_authority = TRUE /\ n.has_authority = TRUE
  /\ b.has_port \in BOOLEAN /\ n.has_port \in BOOLEAN
  /\ n.has_port <=> b.has_port /\ ~(DefaultPort(b.scheme) # 0 /\ b.port = DefaultPort(b.scheme))
  /\ n.has_port => n.port = b.port
  /\ n.path = b.path \/ (b.path = << >> /\ n.path = <<"/">>)
  /\ n.has_query = b.has_query /\ n.query = b.query

LEMMA BaseKept ==
  ASSUME NEW c, NEW b, b = BaseRaw(c), NEW warnings, NEW url, url = Finished(b, warnings).url,
         Sound(url)
  PROVE  Retold(b, AsRaw(url))
<1>1. /\ b.has_authority = c.has_authority /\ b.has_port \in BOOLEAN
  BY DEF BaseRaw, Raw
<1>2. url.has_authority = TRUE
  BY DEF Sound
<1>3. PICK default \in BOOLEAN :
         default = (b.has_port /\ DefaultPort(b.scheme) # 0 /\ b.port = DefaultPort(b.scheme))
  OBVIOUS
<1>4. url =
        [scheme |-> b.scheme, has_authority |-> b.has_authority, host |-> b.host,
         has_port |-> b.has_port /\ ~default,
         port |-> IF b.has_port THEN b.port ELSE DefaultPort(b.scheme),
         path |-> IF b.has_authority /\ b.path = << >> THEN <<"/">> ELSE b.path,
         has_query |-> b.has_query, query |-> b.query,
         has_fragment |-> b.has_fragment, fragment |-> b.fragment]
  BY <1>3 DEF Finished
<1>5. /\ url.scheme = b.scheme /\ url.has_authority = b.has_authority /\ url.host = b.host
      /\ url.port = (IF b.has_port THEN b.port ELSE DefaultPort(b.scheme))
      /\ url.path = (IF b.has_authority /\ b.path = << >> THEN <<"/">> ELSE b.path)
      /\ url.has_query = b.has_query /\ url.query = b.query
  BY <1>4
<1>6. url.has_port = (b.has_port /\ ~default)
  BY <1>4
<1>7. PICK n : n = AsRaw(url)
  OBVIOUS
<1>8. /\ n.scheme = url.scheme /\ n.has_authority = TRUE /\ n.host = url.host
      /\ n.has_port = url.has_port /\ n.port = (IF url.has_port THEN url.port ELSE 0)
      /\ n.path = url.path /\ n.has_query = url.has_query /\ n.query = url.query
  BY <1>7 DEF AsRaw
<1>9. n.has_port <=> b.has_port /\ ~(DefaultPort(b.scheme) # 0 /\ b.port = DefaultPort(b.scheme))
  BY <1>1, <1>3, <1>6, <1>8
<1>10. n.has_port => n.port = b.port
  BY <1>5, <1>8, <1>9
<1>11. n.path = b.path \/ (b.path = << >> /\ n.path = <<"/">>)
  BY <1>5, <1>8
<1>12. url.has_port \in BOOLEAN
  BY DEF Sound
<1> QED
  BY <1>1, <1>2, <1>5, <1>7, <1>8, <1>9, <1>10, <1>11, <1>12 DEF Retold

LEMMA BasesMeet ==
  ASSUME NEW r, IsRaw(r), r.path \in Seq(Unit), r.has_authority \in BOOLEAN,
         NEW b, NEW n, Retold(b, n), NEW t, Targets(t, b, r), NEW u, Targets(u, n, r)
  PROVE  JoinedPath(n, r) = JoinedPath(b, r) /\ Twins(t, u)
<1>1. JoinedPath(n, r) = JoinedPath(b, r)
  BY PathsMeet DEF Retold
<1>2. /\ t.scheme = b.scheme /\ t.has_fragment = r.has_fragment /\ t.fragment = r.fragment
      /\ IF r.has_authority THEN TakesPlace(t, r) ELSE TakesPlace(t, b)
      /\ t.path = (IF KeepsPath(r) THEN b.path ELSE RemoveDotSegments(JoinedPath(b, r)))
      /\ IF KeepsPath(r) /\ ~r.has_query THEN TakesQuery(t, b) ELSE TakesQuery(t, r)
  BY TargetIs
<1>3. /\ u.scheme = n.scheme /\ u.has_fragment = r.has_fragment /\ u.fragment = r.fragment
      /\ IF r.has_authority THEN TakesPlace(u, r) ELSE TakesPlace(u, n)
      /\ u.path = (IF KeepsPath(r) THEN n.path ELSE RemoveDotSegments(JoinedPath(n, r)))
      /\ IF KeepsPath(r) /\ ~r.has_query THEN TakesQuery(u, n) ELSE TakesQuery(u, r)
  BY TargetIs
<1>4. t.scheme = u.scheme /\ t.has_fragment = u.has_fragment /\ t.fragment = u.fragment
  BY <1>2, <1>3 DEF Retold
<1>5. u.path = t.path \/ (t.path = << >> /\ u.path = <<"/">>)
  <2>1. CASE KeepsPath(r)
    BY <1>2, <1>3, <2>1 DEF Retold
  <2>2. CASE ~KeepsPath(r)
    BY <1>1, <1>2, <1>3, <2>2
  <2> QED
    BY <2>1, <2>2
<1>6. t.has_query = u.has_query /\ t.query = u.query
  <2>1. CASE KeepsPath(r) /\ ~r.has_query
    BY <1>2, <1>3, <2>1 DEF Retold, TakesQuery
  <2>2. CASE ~(KeepsPath(r) /\ ~r.has_query)
    BY <1>2, <1>3, <2>2 DEF TakesQuery
  <2> QED
    BY <2>1, <2>2
<1>7. CASE r.has_authority
  <2>1. r.has_port \in BOOLEAN
    BY DEF IsRaw, Raw
  <2>2. TakesPlace(t, r) /\ TakesPlace(u, r)
    BY <1>2, <1>3, <1>7
  <2> QED
    BY <1>1, <1>4, <1>5, <1>6, <1>7, <2>1, <2>2 DEF Twins, TakesPlace
<1>8. CASE ~r.has_authority
  <2>1. TakesPlace(t, b) /\ TakesPlace(u, n) /\ t.scheme = b.scheme
    BY <1>2, <1>3, <1>8
  <2> QED
    BY <1>1, <1>4, <1>5, <1>6, <2>1 DEF Twins, TakesPlace, Retold
<1> QED
  BY <1>7, <1>8

LEMMA BaseStep == RequestInv => BaseMayBeNormalized
<1> SUFFICES ASSUME RequestInv, call.kind = "link", stage # "asked", target # << >>, ~HasScheme(ref),
                    Parse(call.of.base, NoBase).url.has_authority,
                    TextOf(Parse(call.of.base, NoBase)) # << >>
             PROVE  /\ Parse(ref, TextOf(Parse(call.of.base, NoBase))).status = "OK"
                    /\ Parse(ref, TextOf(Parse(call.of.base, NoBase))).url = parsed.url
  BY DEF BaseMayBeNormalized, IsLink, ResolvesTheSame, Reads
<1>1. PICK base : base = call.of.base
  OBVIOUS
<1>2. PICK home : home = Parse(base, NoBase)
  OBVIOUS
<1>3. PICK text : text = TextOf(home)
  OBVIOUS
<1>4. /\ base \in Seq(Unit) \cup {NoBase} /\ ref \in Seq(Unit) /\ parsed = Parse(ref, base)
      /\ parsed.status = "OK"
  BY <1>1, LinkParsed
<1>5. PICK r : r = Raw(Split(ref))
  OBVIOUS
<1>6. PICK b : b = BaseRaw(Split(base))
  OBVIOUS
<1>7. /\ Wellformed(ref) /\ ~Split(ref).has_scheme
      /\ base # NoBase /\ Wellformed(base) /\ Split(base).has_scheme /\ ReadFrom(Parse(ref, base), r, b)
  BY <1>4, <1>5, <1>6, ReferenceRead
<1>8. home.status = "OK" /\ text = Serialize(home.url, MaxLen) /\ text # Overflow
  BY <1>1, <1>2, <1>3 DEF TextOf
<1>9. Sound(home.url)
  BY <1>1, <1>2, <1>4, <1>7, <1>8, ParseSound
<1>10. PICK n : n = AsRaw(home.url)
  OBVIOUS
<1>11. n = BaseRaw(Split(text)) /\ Wellformed(text) /\ text # NoBase /\ Split(text).has_scheme
  BY <1>8, <1>9, <1>10, TextAsBase, ReadsWell
<1>12. Retold(b, n)
  <2>1. PICK w : home = Finished(b, w)
    BY <1>2, <1>6, <1>7, HomeIs
  <2> QED
    BY <1>6, <1>9, <1>10, <2>1, BaseKept
<1>13. PICK t : Targets(t, b, r)
  BY DEF Targets
<1>14. PICK u : Targets(u, n, r)
  BY DEF Targets
<1>15. JoinedPath(n, r) = JoinedPath(b, r) /\ Twins(t, u)
  <2>1. IsRaw(r)
    BY <1>5 DEF IsRaw
  <2>2. r.path \in Seq(Unit) /\ r.has_authority \in BOOLEAN
    <3>1. HasAuthority(ref) \in BOOLEAN
      BY DEF HasAuthority, Starts, IsPrefix
    <3>2. r.path \in Seq(Unit) /\ r.has_authority = HasAuthority(ref)
      BY <1>4, <1>5, RawIs
    <3> QED
      BY <3>1, <3>2
  <2> QED
    BY <1>12, <1>13, <1>14, <2>1, <2>2, BasesMeet
<1>16. ReadFrom(Parse(ref, text), r, n)
  <2>1. KeepsPath(r) \/ ~(Size(JoinedPath(n, r)) > PathMax)
    BY <1>7, <1>15 DEF ReadFrom
  <2> QED
    BY <1>5, <1>7, <1>11, <2>1, ReadAgainst
<1>17. PICK v : parsed = Finished(t, v)
  BY <1>4, <1>7, <1>13 DEF ReadFrom, Targets
<1>18. PICK w : Parse(ref, text) = Finished(u, w)
  BY <1>14, <1>16 DEF ReadFrom, Targets
<1>19. Finished(u, w).status = "OK" /\ Finished(u, w).url = Finished(t, v).url
  BY <1>15, TwinsMeet
<1> QED
  BY <1>1, <1>2, <1>3, <1>17, <1>18, <1>19

\* The shell keeps the normalized text of a page in place of the URL it came
\* by: a reference is resolved against the one as it is against the other.
THEOREM BaseNormalized == Spec => []BaseMayBeNormalized
BY RequestSafe, BaseStep, PTL

=============================================================================
