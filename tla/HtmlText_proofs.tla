-------------------------- MODULE HtmlText_proofs --------------------------
(***************************************************************************)
(* What the text view keeps, for every kind of document, every size of its *)
(* buffers and any nesting of lists.                                       *)
(***************************************************************************)
EXTENDS HtmlText, Induction, FiniteSetTheorems

Digital == {"0", "1", "2", "3", "4", "5", "6", "7", "8", "9"}
Inky == {"x", "s", "t", "lead", "cont"}
\* The SMT translation needs a name for the space.
Space == " "
Gap == {Space, "\n"}
Byte == Digital \cup Inky \cup Gap \cup {"\t", "\r", ".", "-", "[", "]"}

Line == [buf : Seq(Byte), bounded : BOOLEAN, line_has_content : BOOLEAN,
         pending_space : BOOLEAN, pending_newline : BOOLEAN, cut : BOOLEAN]

TitleRec == [text : Seq(Byte), pending_space : BOOLEAN, cut : BOOLEAN]

LEMMA PrefixIs ==
  ASSUME NEW s \in Seq(Byte), NEW t \in Seq(Byte)
  PROVE  IsPrefix(s, t) <=> Len(s) <= Len(t) /\ \A i \in 1..Len(s) : s[i] = t[i]
<1>1. CASE Len(s) <= Len(t)
  <2> DEFINE n == Len(s)
             u == SubSeq(s, 1, n)
             v == SubSeq(t, 1, n)
  <2>1. n \in Nat /\ Len(t) \in Nat /\ n <= Len(t)
    BY <1>1
  <2>2. u = [i \in 1..n |-> s[i]]
    BY <2>1
  <2>3. v = [i \in 1..n |-> t[i]]
    BY <2>1
  <2>4. u = v <=> \A i \in 1..n : s[i] = t[i]
    <3> HIDE DEF u, v
    <3>1. ASSUME u = v, NEW i \in 1..n PROVE s[i] = t[i]
      <4>1. u[i] = s[i] /\ v[i] = t[i]
        BY <2>2, <2>3
      <4> QED
        BY <3>1, <4>1
    <3>2. ASSUME \A i \in 1..n : s[i] = t[i] PROVE u = v
      BY <2>2, <2>3, <3>2
    <3> QED
      BY <3>1, <3>2
  <2> QED
    BY <1>1, <2>4 DEF IsPrefix
<1>2. CASE ~(Len(s) <= Len(t))
  BY <1>2 DEF IsPrefix
<1> QED
  BY <1>1, <1>2

(***************************************************************************)
(* What a byte does to a line: the text with what comes before the byte is *)
(* stored as far as it fits.                                               *)
(***************************************************************************)
FullAt(e, buf) == e.bounded /\ Len(buf) + 1 >= Cap

\* The text r has when c is written to e behind a separator, as sb shows.
Written(r, e, sb, c) ==
  /\ r \in Line /\ r.bounded = e.bounded
  /\ r.buf = IF Full(e) THEN e.buf ELSE IF FullAt(e, sb) THEN sb ELSE Append(sb, c)
  /\ r.cut = (e.cut \/ FullAt(e, sb))

SpaceDue(e) == e.pending_space /\ e.line_has_content

Apart(e) ==
  IF e.pending_newline THEN Append(e.buf, "\n")
  ELSE IF SpaceDue(e) THEN Append(e.buf, Space) ELSE e.buf

LEMMA ByteOut ==
  ASSUME NEW e \in Line, NEW c \in Byte
  PROVE  LET r == OutRawByte(e, c)
         IN /\ r \in Line /\ r.bounded = e.bounded
            /\ r.line_has_content = e.line_has_content
            /\ r.pending_space = e.pending_space /\ r.pending_newline = e.pending_newline
            /\ r.buf = IF Full(e) THEN e.buf ELSE Append(e.buf, c)
            /\ r.cut = (e.cut \/ Full(e))
<1>1. CASE Full(e)
  BY <1>1 DEF OutRawByte, Line
<1>2. CASE ~Full(e)
  <2>1. Append(e.buf, c) \in Seq(Byte)
    BY DEF Line
  <2> QED
    BY <1>2, <2>1 DEF OutRawByte, Line
<1> QED
  BY <1>1, <1>2

LEMMA EmitWrites ==
  ASSUME NEW e \in Line, NEW c \in Byte
  PROVE  LET r == BodyEmitChar(e, c)
         IN /\ Written(r, e, Apart(e), c)
            /\ r.line_has_content = (e.line_has_content \/ ~FullAt(e, Apart(e)))
            /\ r.pending_newline = (e.pending_newline /\ Full(e))
            /\ r.pending_space = (Full(e) /\ (e.pending_newline \/ SpaceDue(e)) /\ e.pending_space)
<1> DEFINE sep == Separator(e)
           s == [Separated(e) EXCEPT !.pending_newline = FALSE, !.pending_space = FALSE]
           r == BodyEmitChar(e, c)
<1>1. /\ e.buf \in Seq(Byte) /\ Len(e.buf) \in Nat /\ Cap \in Nat
      /\ e.bounded \in BOOLEAN /\ e.line_has_content \in BOOLEAN /\ e.pending_space \in BOOLEAN
      /\ e.pending_newline \in BOOLEAN /\ e.cut \in BOOLEAN
  BY TextConstants DEF Line
<1>2. /\ sep = << >> <=> ~e.pending_newline /\ ~SpaceDue(e)
      /\ sep # << >> => sep[1] \in Byte /\ Apart(e) = Append(e.buf, sep[1])
      /\ sep = << >> => Apart(e) = e.buf
  <2>1. CASE e.pending_newline
    <3>1. sep = <<"\n">> /\ Apart(e) = Append(e.buf, "\n")
      BY <2>1 DEF Separator, Apart
    <3>2. <<"\n">> # << >> /\ <<"\n">>[1] = "\n" /\ "\n" \in Byte
      BY DEF Byte, Gap
    <3> HIDE DEF sep
    <3>3. sep # << >> /\ sep[1] = "\n"
      BY <3>1, <3>2
    <3> QED
      BY <2>1, <3>1, <3>2, <3>3
  <2>2. CASE ~e.pending_newline /\ SpaceDue(e)
    <3>1. sep = <<Space>> /\ Apart(e) = Append(e.buf, Space)
      BY <2>2, Zenon DEF Separator, SpaceDue, Apart, Space
    <3>2. <<Space>> # << >> /\ <<Space>>[1] = Space /\ Space \in Byte
      BY DEF Byte, Gap
    <3> HIDE DEF sep
    <3>3. sep # << >> /\ sep[1] = Space
      BY <3>1, <3>2
    <3> QED
      BY <2>2, <3>1, <3>2, <3>3
  <2>3. CASE ~e.pending_newline /\ ~SpaceDue(e)
    BY <2>3 DEF Separator, SpaceDue, Apart
  <2> QED
    BY <2>1, <2>2, <2>3
<1>3. Apart(e) \in Seq(Byte) /\ Len(Apart(e)) >= Len(e.buf)
  BY <1>1, <1>2
<1>4. Full(e) => FullAt(e, Apart(e))
  BY <1>1, <1>3 DEF Full, FullAt
<1>5. CASE sep # << >> /\ Full(e)
  <2>1. r = OutRawByte(e, sep[1])
    BY <1>5 DEF BodyEmitChar, Separated
  <2>2. PICK c1 : c1 = sep[1]
    OBVIOUS
  <2>3. c1 \in Byte /\ r = OutRawByte(e, c1)
    BY <1>2, <1>5, <2>1, <2>2
  <2>4. /\ r \in Line /\ r.bounded = e.bounded
        /\ r.line_has_content = e.line_has_content
        /\ r.pending_space = e.pending_space /\ r.pending_newline = e.pending_newline
        /\ r.buf = e.buf /\ r.cut = TRUE
    <3> HIDE DEF r
    <3> QED
      BY <1>5, <2>3, ByteOut
  <2>5. e.pending_newline \/ SpaceDue(e)
    BY <1>2, <1>5
  <2>6. Written(r, e, Apart(e), c)
    <3> HIDE DEF r
    <3> QED
      BY <1>1, <1>4, <1>5, <2>4 DEF Written
  <2> HIDE DEF r
  <2> QED
    BY <1>1, <1>4, <1>5, <2>4, <2>5, <2>6 DEF r, SpaceDue
<1>6. CASE ~(sep # << >> /\ Full(e))
  <2>1. /\ s \in Line /\ s.bounded = e.bounded /\ s.line_has_content = e.line_has_content
        /\ s.pending_newline = FALSE /\ s.pending_space = FALSE
        /\ s.buf = Apart(e) /\ s.cut = e.cut
    <3>1. PICK t : t = Separated(e)
      OBVIOUS
    <3>2. /\ t \in Line /\ t.bounded = e.bounded /\ t.line_has_content = e.line_has_content
          /\ t.buf = Apart(e) /\ t.cut = e.cut
      BY <1>1, <1>2, <1>6, <3>1, ByteOut DEF Separated
    <3>3. s = [t EXCEPT !.pending_newline = FALSE, !.pending_space = FALSE]
      BY <3>1
    <3> HIDE DEF s
    <3> QED
      BY <3>2, <3>3 DEF Line
  <2> HIDE DEF s
  <2>2. PICK o : o = OutRawByte(s, c)
    OBVIOUS
  <2>3. r = [o EXCEPT !.line_has_content = @ \/ ~Full(s)]
    BY <1>6, <2>2 DEF BodyEmitChar, s
  <2>4. Full(s) = FullAt(e, Apart(e))
    BY <2>1 DEF Full, FullAt
  <2>5. /\ o \in Line /\ o.bounded = e.bounded /\ o.line_has_content = e.line_has_content
        /\ o.pending_space = FALSE /\ o.pending_newline = FALSE
        /\ o.buf = IF Full(s) THEN Apart(e) ELSE Append(Apart(e), c)
        /\ o.cut = (e.cut \/ Full(s))
    BY <2>1, <2>2, ByteOut
  <2>6. /\ r \in Line /\ r.bounded = o.bounded /\ r.buf = o.buf /\ r.cut = o.cut
        /\ r.pending_space = FALSE /\ r.pending_newline = FALSE
        /\ r.line_has_content = (e.line_has_content \/ ~Full(s))
    <3> HIDE DEF r
    <3> QED
      BY <1>1, <2>3, <2>4, <2>5 DEF Line, FullAt
  <2> HIDE DEF r
  <2>7. Full(e) => Apart(e) = e.buf
    BY <1>2, <1>6
  <2> QED
    BY <1>2, <1>4, <1>6, <2>4, <2>5, <2>6, <2>7 DEF Written, r
<1> QED
  BY <1>5, <1>6

Broken(e) == IF e.pending_newline THEN Append(e.buf, "\n") ELSE e.buf

LEMMA PreWrites ==
  ASSUME NEW e \in Line, NEW c \in Byte
  PROVE  LET r == BodyEmitPreByte(e, c)
         IN /\ Written(r, e, Broken(e), c)
            /\ r.line_has_content = IF FullAt(e, Broken(e)) THEN e.line_has_content ELSE c # "\n"
            /\ r.pending_newline = (e.pending_newline /\ Full(e))
            /\ r.pending_space = IF e.pending_newline /\ ~Full(e) THEN FALSE ELSE e.pending_space
<1> DEFINE o == OutRawByte(e, "\n")
           s == IF e.pending_newline
                  THEN [o EXCEPT !.pending_newline = FALSE, !.pending_space = FALSE] ELSE e
           r == BodyEmitPreByte(e, c)
<1>1. /\ e.buf \in Seq(Byte) /\ Len(e.buf) \in Nat /\ Cap \in Nat /\ "\n" \in Byte
      /\ e.bounded \in BOOLEAN /\ e.line_has_content \in BOOLEAN /\ e.pending_space \in BOOLEAN
      /\ e.pending_newline \in BOOLEAN /\ e.cut \in BOOLEAN
  <2>1. "\n" \in Byte
    BY DEF Byte, Gap
  <2> QED
    BY <2>1, TextConstants DEF Line
<1>2. Broken(e) \in Seq(Byte) /\ Len(Broken(e)) >= Len(e.buf)
  BY <1>1 DEF Broken
<1>3. Full(e) => FullAt(e, Broken(e))
  BY <1>1, <1>2 DEF Full, FullAt
<1>4. /\ o \in Line /\ o.bounded = e.bounded
      /\ o.line_has_content = e.line_has_content
      /\ o.pending_space = e.pending_space /\ o.pending_newline = e.pending_newline
      /\ o.buf = IF Full(e) THEN e.buf ELSE Append(e.buf, "\n")
      /\ o.cut = (e.cut \/ Full(e))
  BY <1>1, ByteOut
<1>5. CASE e.pending_newline /\ Full(e)
  <2>1. r = o
    BY <1>5 DEF BodyEmitPreByte
  <2> HIDE DEF o, r
  <2>2. Written(r, e, Broken(e), c)
    BY <1>1, <1>3, <1>4, <1>5, <2>1 DEF Written
  <2> QED
    BY <1>1, <1>3, <1>4, <1>5, <2>1, <2>2 DEF r
<1>6. CASE ~(e.pending_newline /\ Full(e))
  <2>1. /\ s \in Line /\ s.bounded = e.bounded /\ s.line_has_content = e.line_has_content
        /\ s.pending_newline = FALSE /\ s.buf = Broken(e) /\ s.cut = e.cut
        /\ s.pending_space = IF e.pending_newline THEN FALSE ELSE e.pending_space
    <3> HIDE DEF o
    <3>1. CASE e.pending_newline
      <4>1. s = [o EXCEPT !.pending_newline = FALSE, !.pending_space = FALSE]
        BY <3>1
      <4> HIDE DEF s
      <4> QED
        BY <1>4, <1>6, <3>1, <4>1 DEF Line, Broken
    <3>2. CASE ~e.pending_newline
      BY <1>1, <3>2 DEF Broken
    <3> QED
      BY <3>1, <3>2
  <2>2. PICK p : p = OutRawByte(s, c)
    OBVIOUS
  <2>3. r = [p EXCEPT !.line_has_content = IF Full(s) THEN @ ELSE c # "\n"]
    BY <1>6, <2>2 DEF BodyEmitPreByte
  <2> HIDE DEF s, o
  <2>4. Full(s) = FullAt(e, Broken(e))
    BY <2>1 DEF Full, FullAt
  <2>5. /\ p \in Line /\ p.bounded = e.bounded /\ p.line_has_content = e.line_has_content
        /\ p.pending_newline = FALSE
        /\ p.pending_space = IF e.pending_newline THEN FALSE ELSE e.pending_space
        /\ p.buf = IF Full(s) THEN Broken(e) ELSE Append(Broken(e), c)
        /\ p.cut = (e.cut \/ Full(s))
    <3>1. s \in Line
      BY <2>1
    <3>2. /\ p \in Line /\ p.bounded = s.bounded
          /\ p.line_has_content = s.line_has_content
          /\ p.pending_space = s.pending_space /\ p.pending_newline = s.pending_newline
          /\ p.buf = IF Full(s) THEN s.buf ELSE Append(s.buf, c)
          /\ p.cut = (s.cut \/ Full(s))
      BY <2>2, <3>1, ByteOut
    <3> QED
      BY <2>1, <3>2
  <2>6. /\ r \in Line /\ r.bounded = p.bounded /\ r.buf = p.buf /\ r.cut = p.cut
        /\ r.pending_newline = FALSE
        /\ r.pending_space = IF e.pending_newline THEN FALSE ELSE e.pending_space
        /\ r.line_has_content = IF Full(s) THEN e.line_has_content ELSE c # "\n"
    <3> HIDE DEF r
    <3> QED
      BY <1>1, <2>3, <2>4, <2>5 DEF Line, FullAt
  <2> HIDE DEF r
  <2>7. Full(e) => Broken(e) = e.buf
    BY <1>1, <1>6 DEF Broken
  <2>8. Written(r, e, Broken(e), c)
    BY <1>3, <2>4, <2>5, <2>6, <2>7 DEF Written
  <2> QED
    BY <1>1, <1>6, <2>4, <2>6, <2>8 DEF r
<1> QED
  BY <1>5, <1>6

LEMMA SpaceIs ==
  ASSUME NEW e \in Line, NEW r, r = BodySpace(e)
  PROVE  /\ r \in Line /\ r.buf = e.buf /\ r.bounded = e.bounded /\ r.cut = e.cut
         /\ r.line_has_content = e.line_has_content /\ r.pending_space = TRUE
         /\ r.pending_newline = e.pending_newline
BY DEF BodySpace, Line

LEMMA FlushIs ==
  ASSUME NEW e \in Line, NEW r, r = BodyFlushBlock(e)
  PROVE  /\ r \in Line /\ r.buf = e.buf /\ r.bounded = e.bounded /\ r.cut = e.cut
         /\ r.line_has_content = FALSE /\ r.pending_space = FALSE
         /\ r.pending_newline = (e.pending_newline \/ e.line_has_content)
BY DEF BodyFlushBlock, Line

(***************************************************************************)
(* The two bodies, the one that ends and the one that does not.            *)
(***************************************************************************)
SameLine(b, w) ==
  /\ b.buf = w.buf /\ b.line_has_content = w.line_has_content /\ b.pending_space = w.pending_space
  /\ b.pending_newline = w.pending_newline /\ b.cut = w.cut

Pair(b, w) ==
  /\ b \in Line /\ w \in Line /\ b.bounded /\ ~w.bounded /\ ~w.cut
  /\ Len(b.buf) <= (IF Cap = 0 THEN 0 ELSE Cap - 1)
  /\ IF b.cut THEN Full(b) /\ IsPrefix(b.buf, w.buf) ELSE SameLine(b, w)

LEMMA PrefixGrows ==
  ASSUME NEW s \in Seq(Byte), NEW t \in Seq(Byte), IsPrefix(s, t), NEW c \in Byte
  PROVE  IsPrefix(s, Append(t, c)) /\ IsPrefix(t, Append(t, c)) /\ IsPrefix(t, t)
<1>1. Append(t, c) \in Seq(Byte)
  OBVIOUS
<1>2. /\ Len(s) \in Nat /\ Len(t) \in Nat /\ Len(s) <= Len(t) /\ \A i \in 1..Len(s) : s[i] = t[i]
      /\ Len(Append(t, c)) = Len(t) + 1 /\ \A i \in 1..Len(t) : Append(t, c)[i] = t[i]
  BY PrefixIs
<1>3. \A i \in 1..Len(s) : s[i] = Append(t, c)[i]
  BY <1>2
<1>4. IsPrefix(s, Append(t, c))
  <2>1. Len(s) <= Len(Append(t, c))
    BY <1>2
  <2> QED
    BY <1>1, <1>3, <2>1, PrefixIs
<1>5. IsPrefix(t, Append(t, c))
  <2>1. Len(t) <= Len(Append(t, c)) /\ \A i \in 1..Len(t) : t[i] = Append(t, c)[i]
    BY <1>2
  <2> QED
    BY <1>1, <2>1, PrefixIs
<1>6. IsPrefix(t, t)
  BY <1>2, PrefixIs
<1> QED
  BY <1>4, <1>5, <1>6

\* sb is the line's text with what is due before a byte.
LEMMA PairWrites ==
  ASSUME NEW b, NEW w, Pair(b, w), NEW c \in Byte, NEW sb \in Seq(Byte), NEW sw \in Seq(Byte),
         ~b.cut => sb = sw,
         sb = b.buf \/ (\E d \in Byte : sb = Append(b.buf, d)),
         sw = w.buf \/ (\E d \in Byte : sw = Append(w.buf, d)),
         NEW r, Written(r, b, sb, c), NEW q, Written(q, w, sw, c),
         ~r.cut => SameLine(r, q) \/ r.buf # q.buf
  PROVE  Pair(r, q)
<1>1. /\ b \in Line /\ w \in Line /\ b.bounded /\ ~w.bounded /\ ~w.cut
      /\ b.buf \in Seq(Byte) /\ w.buf \in Seq(Byte) /\ Cap \in Nat
      /\ Len(b.buf) \in Nat /\ Len(w.buf) \in Nat /\ Len(sb) \in Nat /\ Len(sw) \in Nat
  BY TextConstants DEF Pair, Line
<1>2. /\ q \in Line /\ ~q.bounded /\ ~q.cut /\ q.buf = Append(sw, c) /\ q.buf \in Seq(Byte)
      /\ r \in Line /\ r.bounded
  BY <1>1 DEF Written, FullAt, Full, Line
<1>3. IsPrefix(w.buf, sw) /\ IsPrefix(sw, q.buf) /\ IsPrefix(w.buf, q.buf)
  <2>1. IsPrefix(w.buf, w.buf)
    BY <1>1, PrefixIs
  <2>2. IsPrefix(w.buf, sw)
    BY <1>1, <2>1, PrefixGrows
  <2> QED
    BY <1>1, <1>2, <2>2, PrefixGrows
<1>4. CASE b.cut
  <2>1. Full(b) /\ IsPrefix(b.buf, w.buf)
    BY <1>4 DEF Pair
  <2>2. r.buf = b.buf /\ r.cut
    BY <1>4, <2>1 DEF Written
  <2>3. Full(r)
    BY <1>1, <1>2, <2>1, <2>2 DEF Full
  <2>4. IsPrefix(b.buf, sw) /\ IsPrefix(b.buf, q.buf)
    <3>1. IsPrefix(b.buf, sw)
      BY <1>1, <2>1, PrefixGrows
    <3> QED
      BY <1>1, <1>2, <3>1, PrefixGrows
  <2> QED
    BY <1>2, <2>2, <2>3, <2>4 DEF Pair
<1>5. CASE ~b.cut
  <2>1. b.buf = w.buf /\ sb = sw
    BY <1>5 DEF Pair, SameLine
  <2>2. Len(b.buf) <= (IF Cap = 0 THEN 0 ELSE Cap - 1)
    BY DEF Pair
  <2>3. CASE Full(b)
    <3>1. FullAt(b, sb)
      BY <1>1, <2>3 DEF Full, FullAt
    <3>2. r.buf = b.buf /\ r.cut
      BY <2>3, <3>1 DEF Written
    <3>3. Full(r)
      BY <1>1, <1>2, <2>3, <3>2 DEF Full
    <3> QED
      BY <1>2, <1>3, <2>1, <2>2, <3>2, <3>3 DEF Pair
  <2>4. CASE ~Full(b) /\ FullAt(b, sb)
    <3>1. r.buf = sb /\ r.cut
      BY <2>4 DEF Written
    <3>2. Full(r) /\ Len(sb) <= (IF Cap = 0 THEN 0 ELSE Cap - 1)
      BY <1>1, <1>2, <2>2, <2>4, <3>1 DEF Full, FullAt
    <3> QED
      BY <1>2, <1>3, <2>1, <3>1, <3>2 DEF Pair
  <2>5. CASE ~Full(b) /\ ~FullAt(b, sb)
    <3>1. r.buf = Append(sb, c) /\ ~r.cut
      BY <1>5, <2>5 DEF Written
    <3>2. Len(r.buf) <= (IF Cap = 0 THEN 0 ELSE Cap - 1)
      BY <1>1, <2>5, <3>1 DEF FullAt
    <3>3. SameLine(r, q)
      BY <1>2, <2>1, <3>1
    <3> QED
      BY <1>2, <3>1, <3>2, <3>3 DEF Pair
  <2> QED
    BY <2>3, <2>4, <2>5
<1> QED
  BY <1>4, <1>5

LEMMA DueBytes ==
  ASSUME NEW e \in Line
  PROVE  /\ Apart(e) \in Seq(Byte) /\ (Apart(e) = e.buf \/ \E d \in Gap : Apart(e) = Append(e.buf, d))
         /\ Broken(e) \in Seq(Byte) /\ (Broken(e) = e.buf \/ \E d \in Gap : Broken(e) = Append(e.buf, d))
         /\ Gap \subseteq Byte
<1>1. "\n" \in Gap /\ Space \in Gap /\ Gap \subseteq Byte /\ e.buf \in Seq(Byte)
  BY DEF Gap, Byte, Line
<1> QED
  BY <1>1 DEF Apart, Broken

LEMMA PairEmits ==
  ASSUME NEW b, NEW w, Pair(b, w), NEW c \in Byte
  PROVE  Pair(BodyEmitChar(b, c), BodyEmitChar(w, c))
<1> DEFINE r == BodyEmitChar(b, c)
           q == BodyEmitChar(w, c)
<1>1. b \in Line /\ w \in Line /\ ~w.bounded
  BY DEF Pair
<1>2. /\ Written(r, b, Apart(b), c)
      /\ r.line_has_content = (b.line_has_content \/ ~FullAt(b, Apart(b)))
      /\ r.pending_newline = (b.pending_newline /\ Full(b))
      /\ r.pending_space = (Full(b) /\ (b.pending_newline \/ SpaceDue(b)) /\ b.pending_space)
  BY <1>1, EmitWrites
<1>3. /\ Written(q, w, Apart(w), c)
      /\ q.line_has_content = (w.line_has_content \/ ~FullAt(w, Apart(w)))
      /\ q.pending_newline = (w.pending_newline /\ Full(w))
      /\ q.pending_space = (Full(w) /\ (w.pending_newline \/ SpaceDue(w)) /\ w.pending_space)
  BY <1>1, EmitWrites
<1> HIDE DEF r, q
<1>4. ~b.cut => Apart(b) = Apart(w)
  BY DEF Pair, SameLine, Apart, SpaceDue
<1>5. /\ Apart(b) \in Seq(Byte) /\ (Apart(b) = b.buf \/ \E d \in Byte : Apart(b) = Append(b.buf, d))
      /\ Apart(w) \in Seq(Byte) /\ (Apart(w) = w.buf \/ \E d \in Byte : Apart(w) = Append(w.buf, d))
  BY <1>1, DueBytes
<1>6. ASSUME ~r.cut PROVE SameLine(r, q) \/ r.buf # q.buf
  <2>1. ~FullAt(b, Apart(b)) /\ ~Full(w) /\ ~FullAt(w, Apart(w))
    BY <1>1, <1>2, <1>6 DEF Written, Full, FullAt
  <2>2. ~Full(b)
    <3>1. /\ Len(b.buf) \in Nat /\ Len(Apart(b)) \in Nat /\ Len(b.buf) <= Len(Apart(b)) /\ Cap \in Nat
      BY <1>1, <1>5, TextConstants DEF Line
    <3> QED
      BY <2>1, <3>1 DEF Full, FullAt
  <2>3. ~q.cut
    BY <1>3, <2>1 DEF Written, Pair
  <2>4. r.cut = FALSE /\ q.cut = FALSE
    BY <1>2, <1>3, <1>6, <2>3 DEF Written, Line
  <2> QED
    BY <1>2, <1>3, <2>1, <2>2, <2>4 DEF SameLine
<1>7. Pair(r, q)
  BY <1>2, <1>3, <1>4, <1>5, <1>6, PairWrites
<1> QED
  BY <1>7 DEF r, q

LEMMA PairPres ==
  ASSUME NEW b, NEW w, Pair(b, w), NEW c \in Byte
  PROVE  Pair(BodyEmitPreByte(b, c), BodyEmitPreByte(w, c))
<1> DEFINE r == BodyEmitPreByte(b, c)
           q == BodyEmitPreByte(w, c)
<1>1. b \in Line /\ w \in Line /\ ~w.bounded
  BY DEF Pair
<1>2. /\ Written(r, b, Broken(b), c)
      /\ r.line_has_content = IF FullAt(b, Broken(b)) THEN b.line_has_content ELSE c # "\n"
      /\ r.pending_newline = (b.pending_newline /\ Full(b))
      /\ r.pending_space = IF b.pending_newline /\ ~Full(b) THEN FALSE ELSE b.pending_space
  BY <1>1, PreWrites
<1>3. /\ Written(q, w, Broken(w), c)
      /\ q.line_has_content = IF FullAt(w, Broken(w)) THEN w.line_has_content ELSE c # "\n"
      /\ q.pending_newline = (w.pending_newline /\ Full(w))
      /\ q.pending_space = IF w.pending_newline /\ ~Full(w) THEN FALSE ELSE w.pending_space
  BY <1>1, PreWrites
<1> HIDE DEF r, q
<1>4. ~b.cut => Broken(b) = Broken(w)
  BY DEF Pair, SameLine, Broken
<1>5. /\ Broken(b) \in Seq(Byte) /\ (Broken(b) = b.buf \/ \E d \in Byte : Broken(b) = Append(b.buf, d))
      /\ Broken(w) \in Seq(Byte) /\ (Broken(w) = w.buf \/ \E d \in Byte : Broken(w) = Append(w.buf, d))
  BY <1>1, DueBytes
<1>6. ASSUME ~r.cut PROVE SameLine(r, q) \/ r.buf # q.buf
  <2>1. ~FullAt(b, Broken(b)) /\ ~Full(w) /\ ~FullAt(w, Broken(w)) /\ ~b.cut
    BY <1>1, <1>2, <1>6 DEF Written, Full, FullAt
  <2>2. ~Full(b)
    <3>1. /\ Len(b.buf) \in Nat /\ Len(Broken(b)) \in Nat /\ Len(b.buf) <= Len(Broken(b)) /\ Cap \in Nat
      BY <1>1, <1>5, TextConstants DEF Line
    <3> QED
      BY <2>1, <3>1 DEF Full, FullAt
  <2>3. ~q.cut
    BY <1>3, <2>1 DEF Written, Pair
  <2>4. r.cut = FALSE /\ q.cut = FALSE
    BY <1>2, <1>3, <1>6, <2>3 DEF Written, Line
  <2>5. b.pending_newline = w.pending_newline /\ b.pending_space = w.pending_space
    BY <2>1 DEF Pair, SameLine
  <2> QED
    BY <1>2, <1>3, <2>1, <2>2, <2>4, <2>5 DEF SameLine
<1>7. Pair(r, q)
  BY <1>2, <1>3, <1>4, <1>5, <1>6, PairWrites
<1> QED
  BY <1>7 DEF r, q

LEMMA PairFlags ==
  ASSUME NEW b, NEW w, Pair(b, w)
  PROVE  Pair(BodySpace(b), BodySpace(w)) /\ Pair(BodyFlushBlock(b), BodyFlushBlock(w))
<1>1. b \in Line /\ w \in Line
  BY DEF Pair
<1>2. Pair(BodySpace(b), BodySpace(w))
  <2>1. PICK r : r = BodySpace(b)
    OBVIOUS
  <2>2. PICK q : q = BodySpace(w)
    OBVIOUS
  <2>3. /\ r \in Line /\ r.buf = b.buf /\ r.bounded = b.bounded /\ r.cut = b.cut
        /\ r.line_has_content = b.line_has_content /\ r.pending_space = TRUE
        /\ r.pending_newline = b.pending_newline
    BY <1>1, <2>1, SpaceIs
  <2>4. /\ q \in Line /\ q.buf = w.buf /\ q.bounded = w.bounded /\ q.cut = w.cut
        /\ q.line_has_content = w.line_has_content /\ q.pending_space = TRUE
        /\ q.pending_newline = w.pending_newline
    BY <1>1, <2>2, SpaceIs
  <2>5. Pair(r, q)
    BY <2>3, <2>4 DEF Pair, SameLine, Full
  <2> QED
    BY <2>1, <2>2, <2>5
<1>3. Pair(BodyFlushBlock(b), BodyFlushBlock(w))
  <2>1. PICK r : r = BodyFlushBlock(b)
    OBVIOUS
  <2>2. PICK q : q = BodyFlushBlock(w)
    OBVIOUS
  <2>3. /\ r \in Line /\ r.buf = b.buf /\ r.bounded = b.bounded /\ r.cut = b.cut
        /\ r.line_has_content = FALSE /\ r.pending_space = FALSE
        /\ r.pending_newline = (b.pending_newline \/ b.line_has_content)
    BY <1>1, <2>1, FlushIs
  <2>4. /\ q \in Line /\ q.buf = w.buf /\ q.bounded = w.bounded /\ q.cut = w.cut
        /\ q.line_has_content = FALSE /\ q.pending_space = FALSE
        /\ q.pending_newline = (w.pending_newline \/ w.line_has_content)
    BY <1>1, <2>2, FlushIs
  <2>5. Pair(r, q)
    BY <2>3, <2>4 DEF Pair, SameLine, Full
  <2> QED
    BY <2>1, <2>2, <2>5
<1> QED
  BY <1>2, <1>3

\* A body that is not cut is the same but for its end.
LEMMA PairSays ==
  ASSUME NEW b, NEW w, Pair(b, w)
  PROVE  /\ Len(b.buf) <= (IF Cap = 0 THEN 0 ELSE Cap - 1)
         /\ IsPrefix(b.buf, w.buf)
         /\ ~b.cut => b = [w EXCEPT !.bounded = TRUE]
<1>1. /\ b \in Line /\ w \in Line /\ b.bounded = TRUE /\ b.buf \in Seq(Byte) /\ w.buf \in Seq(Byte)
  BY DEF Pair, Line
<1>2. IsPrefix(b.buf, w.buf)
  <2>1. CASE b.cut
    BY <2>1 DEF Pair
  <2>2. CASE ~b.cut
    <3>1. b.buf = w.buf
      BY <2>2 DEF Pair, SameLine
    <3> QED
      BY <1>1, <3>1, PrefixIs
  <2> QED
    BY <2>1, <2>2
<1>3. ASSUME ~b.cut PROVE b = [w EXCEPT !.bounded = TRUE]
  <2>1. SameLine(b, w)
    BY <1>3 DEF Pair
  <2> QED
    BY <1>1, <2>1 DEF SameLine, Line
<1> QED
  BY <1>2, <1>3 DEF Pair

(***************************************************************************)
(* The title, in the same way.                                             *)
(***************************************************************************)
TitlePair(t, w) ==
  /\ t \in TitleRec /\ w \in TitleRec /\ ~w.cut /\ Len(t.text) <= TitleMax
  /\ IF t.cut THEN Len(t.text) = TitleMax /\ IsPrefix(t.text, w.text) ELSE t = w

Due(t) == IF t.pending_space /\ t.text # << >> THEN Append(t.text, Space) ELSE t.text

LEMMA TitleWrites ==
  ASSUME NEW t \in TitleRec, NEW c \in Byte, NEW max \in Nat, Len(t.text) <= max
  PROVE  LET r == TitleEmitChar(t, c, max)
         IN /\ r \in TitleRec /\ ~r.pending_space /\ Due(t) \in Seq(Byte)
            /\ r.text = IF Len(t.text) = max THEN t.text
                        ELSE IF Len(Due(t)) = max THEN Due(t) ELSE Append(Due(t), c)
            /\ r.cut = (t.cut \/ Len(t.text) = max \/ Len(Due(t)) = max)
<1> DEFINE r == TitleEmitChar(t, c, max)
           s == IF t.pending_space /\ t.text # << >> /\ Len(t.text) < max THEN Append(t.text, Space) ELSE t.text
<1>1. t.text \in Seq(Byte) /\ Len(t.text) \in Nat /\ Space \in Byte /\ t.cut \in BOOLEAN
  <2>1. Space \in Byte
    BY DEF Byte, Gap
  <2> QED
    BY <2>1 DEF TitleRec
<1>2. Due(t) \in Seq(Byte) /\ (Due(t) = t.text \/ Len(Due(t)) = Len(t.text) + 1)
  BY <1>1 DEF Due
<1>3. s = IF Len(t.text) = max THEN t.text ELSE Due(t)
  BY <1>1 DEF Due
<1>4. /\ s \in Seq(Byte) /\ Len(s) \in Nat /\ Len(s) <= max
  BY <1>1, <1>2, <1>3
<1>5. r = [t EXCEPT !.text = IF Len(s) < max THEN Append(s, c) ELSE s,
                    !.pending_space = FALSE, !.cut = t.cut \/ Len(s) >= max]
  BY Zenon DEF TitleEmitChar, Space
<1> HIDE DEF s, r
<1>6. (IF Len(s) < max THEN Append(s, c) ELSE s) \in Seq(Byte)
  BY <1>4
<1>7. /\ r \in TitleRec /\ r.pending_space = FALSE
      /\ r.text = IF Len(s) < max THEN Append(s, c) ELSE s
      /\ r.cut = (t.cut \/ Len(s) >= max)
  BY <1>5, <1>6 DEF TitleRec
<1>8. Len(s) >= max <=> Len(t.text) = max \/ Len(Due(t)) = max
  BY <1>1, <1>2, <1>3, <1>4
<1> QED
  BY <1>1, <1>2, <1>3, <1>4, <1>7, <1>8 DEF r

LEMMA TitleEmits ==
  ASSUME NEW t, NEW w, TitlePair(t, w), NEW c \in Byte
  PROVE  TitlePair(TitleEmitChar(t, c, TitleMax), TitleEmitChar(w, c, Len(w.text) + 2))
<1>1. /\ t \in TitleRec /\ w \in TitleRec /\ ~w.cut /\ Len(t.text) <= TitleMax /\ TitleMax \in Nat
      /\ t.text \in Seq(Byte) /\ w.text \in Seq(Byte) /\ Len(w.text) \in Nat /\ Len(t.text) \in Nat
  BY TextConstants DEF TitlePair, TitleRec
<1>2. PICK r : r = TitleEmitChar(t, c, TitleMax)
  OBVIOUS
<1>3. PICK max : max = Len(w.text) + 2
  OBVIOUS
<1>4. PICK q : q = TitleEmitChar(w, c, max)
  OBVIOUS
<1>5. /\ r \in TitleRec /\ ~r.pending_space /\ Due(t) \in Seq(Byte)
      /\ r.text = IF Len(t.text) = TitleMax THEN t.text
                  ELSE IF Len(Due(t)) = TitleMax THEN Due(t) ELSE Append(Due(t), c)
      /\ r.cut = (t.cut \/ Len(t.text) = TitleMax \/ Len(Due(t)) = TitleMax)
  BY <1>1, <1>2, TitleWrites
<1>6. Space \in Byte
  BY DEF Byte, Gap
<1>7. /\ Due(w) \in Seq(Byte) /\ Len(Due(w)) <= Len(w.text) + 1 /\ Len(Due(w)) \in Nat
      /\ Due(t) \in Seq(Byte) /\ Len(Due(t)) \in Nat /\ Len(Due(t)) <= Len(t.text) + 1
      /\ Due(w) = w.text \/ Due(w) = Append(w.text, Space)
  BY <1>1, <1>6 DEF Due
<1>8. q \in TitleRec /\ ~q.pending_space /\ q.text = Append(Due(w), c) /\ ~q.cut
  <2>1. max \in Nat /\ Len(w.text) <= max /\ Len(w.text) # max /\ Len(Due(w)) # max
    BY <1>1, <1>3, <1>7
  <2>2. /\ q \in TitleRec /\ ~q.pending_space
        /\ q.text = IF Len(w.text) = max THEN w.text
                    ELSE IF Len(Due(w)) = max THEN Due(w) ELSE Append(Due(w), c)
        /\ q.cut = (w.cut \/ Len(w.text) = max \/ Len(Due(w)) = max)
    BY <1>1, <1>4, <2>1, TitleWrites
  <2> QED
    BY <1>1, <2>1, <2>2
<1>9. IsPrefix(w.text, Due(w)) /\ IsPrefix(w.text, q.text) /\ IsPrefix(Due(w), q.text)
  <2>1. IsPrefix(w.text, w.text)
    BY <1>1, PrefixIs
  <2>2. IsPrefix(w.text, Due(w))
    BY <1>1, <1>6, <1>7, <2>1, PrefixGrows
  <2> QED
    BY <1>7, <1>8, <1>1, <2>2, PrefixGrows
<1>10. CASE t.cut
  <2>1. Len(t.text) = TitleMax /\ IsPrefix(t.text, w.text)
    BY <1>10 DEF TitlePair
  <2>2. r.text = t.text /\ r.cut
    BY <1>5, <1>10, <2>1
  <2>3. IsPrefix(t.text, Due(w))
    BY <1>1, <1>6, <1>7, <2>1, PrefixGrows
  <2>4. IsPrefix(t.text, q.text)
    BY <1>1, <1>7, <1>8, <2>3, PrefixGrows
  <2>5. TitlePair(r, q)
    BY <1>1, <1>5, <1>8, <2>1, <2>2, <2>4 DEF TitlePair
  <2> QED
    BY <1>2, <1>3, <1>4, <2>5
<1>11. CASE ~t.cut
  <2>1. t = w
    BY <1>11 DEF TitlePair
  <2>2. CASE Len(t.text) = TitleMax \/ Len(Due(t)) = TitleMax
    <3>1. r.cut /\ Len(r.text) = TitleMax /\ (r.text = w.text \/ r.text = Due(w))
      BY <1>1, <1>5, <1>7, <2>1, <2>2
    <3>2. TitlePair(r, q)
      BY <1>1, <1>5, <1>8, <1>9, <3>1 DEF TitlePair
    <3> QED
      BY <1>2, <1>3, <1>4, <3>2
  <2>3. CASE ~(Len(t.text) = TitleMax \/ Len(Due(t)) = TitleMax)
    <3>1. r.text = q.text /\ ~r.cut
      BY <1>5, <1>8, <1>11, <2>1, <2>3
    <3>2. Len(r.text) <= TitleMax
      BY <1>1, <1>5, <1>7, <2>3
    <3>3. r = q
      <4>1. r.pending_space = FALSE /\ q.pending_space = FALSE /\ r.cut = FALSE /\ q.cut = FALSE
        BY <1>5, <1>8, <3>1 DEF TitleRec
      <4>2. r = [text |-> r.text, pending_space |-> FALSE, cut |-> FALSE]
        BY <1>5, <4>1 DEF TitleRec
      <4>3. q = [text |-> q.text, pending_space |-> FALSE, cut |-> FALSE]
        BY <1>8, <4>1 DEF TitleRec
      <4>4. r.text = q.text
        BY <3>1
      <4> QED
        BY <4>2, <4>3, <4>4
    <3>4. TitlePair(r, q)
      BY <1>8, <3>1, <3>2, <3>3 DEF TitlePair
    <3> QED
      BY <1>2, <1>3, <1>4, <3>4
  <2> QED
    BY <2>2, <2>3
<1> QED
  BY <1>10, <1>11

(***************************************************************************)
(* The inductive invariant.                                                *)
(***************************************************************************)
Tracked(e) ==
  e.line_has_content <=> e.buf # << >> /\ e.buf[Len(e.buf)] # "\n" /\ ~e.pending_newline

\* No byte of a script, a style sheet or the first title.
Plain(s) == \A i \in 1..Len(s) : s[i] \notin {"s", "t"}

Titled(s) == \A i \in 1..Len(s) : s[i] \in {"t", "lead", "cont", Space}

Trimmed(e) == Collapsed(e.buf) /\ (e.pending_newline => e.buf # << >>)

Seen == [of : Documents, tokens : Nat, titles : Nat, tags : SUBSET {"pre", "li"}]

NoRaw == ""

\* The element whose text is read is what the flags say.
ReadInv ==
  /\ feed \in {"any", "raw", "end", "done"} /\ raw \in RawText \cup {NoRaw}
  /\ in_skip \in BOOLEAN /\ in_title \in BOOLEAN /\ title_seen \in BOOLEAN /\ in_pre \in BOOLEAN
  /\ seen \in Seen
  /\ title_seen <=> seen.titles > 0
  /\ feed = "any" => raw = NoRaw /\ ~in_skip /\ ~in_title
  /\ feed = "raw" =>
       /\ raw \in RawText
       /\ in_skip <=> raw \in Skipped
       /\ in_title <=> raw = "title" /\ seen.titles = 1
  /\ in_pre => "pre" \in seen.tags

QueueInv ==
  /\ queue \in Seq(Byte)
  /\ \A i \in 1..Len(queue) :
       /\ queue[i] # "\n"
       /\ IF in_title THEN queue[i] \in {"t", "lead", "cont"} ELSE queue[i] \notin {"s", "t"}
       /\ seen.tags = {} => queue[i] # Space
  /\ feed = "done" => queue = << >>

BodyInv ==
  /\ Pair(body, whole) /\ Tracked(body) /\ Tracked(whole) /\ Plain(whole.buf)
  /\ seen.tags = {} => Trimmed(whole)

TitleInv == TitlePair(title, whole_title) /\ Titled(whole_title.text)

Item == [ordered : BOOLEAN, counter : Nat]

ListInv ==
  /\ list_depth \in 0..NestMax /\ list_stack \in [1..ListMax -> Item] /\ lists \in Seq(Item)
  /\ ItemsAreNumbered

LinksTyped == links \in Seq({links[i] : i \in DOMAIN links})

DoneInv == feed = "done" => truncated = Truncated

TextInv == ReadInv /\ QueueInv /\ BodyInv /\ TitleInv /\ ListInv /\ LinksTyped /\ DoneInv

(***************************************************************************)
(* What writing keeps of one body.                                         *)
(***************************************************************************)
LEMMA FullStays ==
  ASSUME NEW e \in Line, NEW sb \in Seq(Byte), sb = e.buf \/ \E d \in Gap : sb = Append(e.buf, d)
  PROVE  /\ e.buf \in Seq(Byte) /\ Len(e.buf) \in Nat /\ Len(sb) \in Nat
         /\ Full(e) => FullAt(e, sb)
         /\ ~Full(e) /\ FullAt(e, sb) => sb # e.buf
BY TextConstants DEF Line, Full, FullAt

LEMMA LastOf ==
  ASSUME NEW s \in Seq(Byte), NEW d \in Byte
  PROVE  /\ Append(s, d) \in Seq(Byte) /\ Append(s, d) # << >> /\ Append(s, d)[Len(Append(s, d))] = d
         /\ Len(Append(s, d)) = Len(s) + 1 /\ Len(s) \in Nat
         /\ \A i \in 1..Len(s) : Append(s, d)[i] = s[i]
         /\ Append(s, d)[Len(s) + 1] = d
<1>1. Append(s, d) \in Seq(Byte) /\ Len(Append(s, d)) = Len(s) + 1 /\ Len(s) \in Nat
  OBVIOUS
<1>2. Append(s, d)[Len(s) + 1] = d /\ \A i \in 1..Len(s) : Append(s, d)[i] = s[i]
  OBVIOUS
<1> QED
  BY <1>1, <1>2

LEMMA EmitTracks ==
  ASSUME NEW e \in Line, Tracked(e), NEW c \in Byte, c # "\n"
  PROVE  Tracked(BodyEmitChar(e, c))
<1>1. PICK r : r = BodyEmitChar(e, c)
  OBVIOUS
<1> SUFFICES Tracked(r)
  BY <1>1
<1>2. PICK sb : sb = Apart(e)
  OBVIOUS
<1>3. /\ Written(r, e, sb, c)
      /\ r.line_has_content = (e.line_has_content \/ ~FullAt(e, sb))
      /\ r.pending_newline = (e.pending_newline /\ Full(e))
  BY <1>1, <1>2, EmitWrites
<1>4. sb \in Seq(Byte) /\ (sb = e.buf \/ \E d \in Gap : sb = Append(e.buf, d))
  BY <1>2, DueBytes
<1>5. /\ e.buf \in Seq(Byte)
      /\ Full(e) => FullAt(e, sb)
      /\ ~Full(e) /\ FullAt(e, sb) => sb # e.buf
  BY <1>4, FullStays
<1>6. e.line_has_content \in BOOLEAN /\ e.pending_newline \in BOOLEAN
  BY DEF Line
<1>7. CASE Full(e)
  <2>1. /\ r.buf = e.buf /\ r.line_has_content = e.line_has_content
        /\ r.pending_newline = e.pending_newline
    BY <1>3, <1>5, <1>6, <1>7 DEF Written
  <2> QED
    BY <2>1 DEF Tracked
<1>8. CASE ~Full(e) /\ FullAt(e, sb)
  <2>1. r.buf = sb /\ r.line_has_content = e.line_has_content /\ r.pending_newline = FALSE
    BY <1>3, <1>6, <1>8 DEF Written
  <2>2. CASE e.pending_newline
    <3>1. sb = Append(e.buf, "\n") /\ "\n" \in Byte
      BY <1>2, <2>2 DEF Apart, Byte, Gap
    <3> QED
      BY <1>5, <2>1, <2>2, <3>1, LastOf DEF Tracked
  <2>3. CASE ~e.pending_newline
    <3>1. sb = Append(e.buf, Space) /\ Space \in Byte /\ e.line_has_content
      BY <1>2, <1>5, <1>8, <2>3 DEF Apart, Byte, Gap, SpaceDue
    <3>2. Space # "\n"
      BY Zenon DEF Space
    <3> QED
      BY <1>5, <2>1, <3>1, <3>2, LastOf DEF Tracked
  <2> QED
    BY <2>2, <2>3
<1>9. CASE ~FullAt(e, sb)
  <2>1. r.buf = Append(sb, c) /\ r.line_has_content = TRUE /\ r.pending_newline = FALSE
    BY <1>3, <1>5, <1>6, <1>9 DEF Written
  <2> QED
    BY <1>4, <2>1, LastOf DEF Tracked
<1> QED
  BY <1>7, <1>8, <1>9

LEMMA PreTracks ==
  ASSUME NEW e \in Line, Tracked(e), NEW c \in Byte
  PROVE  Tracked(BodyEmitPreByte(e, c))
<1>1. PICK r : r = BodyEmitPreByte(e, c)
  OBVIOUS
<1> SUFFICES Tracked(r)
  BY <1>1
<1>2. PICK sb : sb = Broken(e)
  OBVIOUS
<1>3. /\ Written(r, e, sb, c)
      /\ r.line_has_content = IF FullAt(e, sb) THEN e.line_has_content ELSE c # "\n"
      /\ r.pending_newline = (e.pending_newline /\ Full(e))
  BY <1>1, <1>2, PreWrites
<1>4. sb \in Seq(Byte) /\ (sb = e.buf \/ \E d \in Gap : sb = Append(e.buf, d))
  BY <1>2, DueBytes
<1>5. /\ e.buf \in Seq(Byte)
      /\ Full(e) => FullAt(e, sb)
      /\ ~Full(e) /\ FullAt(e, sb) => sb # e.buf
  BY <1>4, FullStays
<1>6. e.line_has_content \in BOOLEAN /\ e.pending_newline \in BOOLEAN
  BY DEF Line
<1>7. CASE Full(e)
  <2>1. /\ r.buf = e.buf /\ r.line_has_content = e.line_has_content
        /\ r.pending_newline = e.pending_newline
    BY <1>3, <1>5, <1>6, <1>7 DEF Written
  <2> QED
    BY <2>1 DEF Tracked
<1>8. CASE ~Full(e) /\ FullAt(e, sb)
  <2>1. r.buf = sb /\ r.line_has_content = e.line_has_content /\ r.pending_newline = FALSE
    BY <1>3, <1>6, <1>8 DEF Written
  <2>2. e.pending_newline /\ sb = Append(e.buf, "\n") /\ "\n" \in Byte
    BY <1>2, <1>5, <1>8 DEF Broken, Byte, Gap
  <2> QED
    BY <1>5, <2>1, <2>2, LastOf DEF Tracked
<1>9. CASE ~FullAt(e, sb)
  <2>1. r.buf = Append(sb, c) /\ r.line_has_content = (c # "\n") /\ r.pending_newline = FALSE
    BY <1>3, <1>5, <1>6, <1>9 DEF Written
  <2>2. r.buf # << >> /\ r.buf[Len(r.buf)] = c
    BY <1>4, <2>1, LastOf
  <2>3. r.line_has_content <=> c # "\n"
    BY <2>1
  <2> QED
    BY <2>1, <2>2, <2>3 DEF Tracked
<1> QED
  BY <1>7, <1>8, <1>9

LEMMA FlagsTrack ==
  ASSUME NEW e \in Line, Tracked(e)
  PROVE  Tracked(BodySpace(e)) /\ Tracked(BodyFlushBlock(e))
<1>1. Tracked(BodySpace(e))
  <2>1. PICK r : r = BodySpace(e)
    OBVIOUS
  <2>2. r.buf = e.buf /\ r.line_has_content = e.line_has_content /\ r.pending_newline = e.pending_newline
    BY <2>1, SpaceIs
  <2> QED
    BY <2>1, <2>2 DEF Tracked
<1>2. Tracked(BodyFlushBlock(e))
  <2>1. PICK r : r = BodyFlushBlock(e)
    OBVIOUS
  <2>2. /\ r.buf = e.buf /\ r.line_has_content = FALSE
        /\ r.pending_newline = (e.pending_newline \/ e.line_has_content)
    BY <2>1, FlushIs
  <2>3. Tracked(r)
    BY <2>2 DEF Tracked
  <2> QED
    BY <2>1, <2>3
<1> QED
  BY <1>1, <1>2

\* A body with no end, which has room for every byte.
LEMMA WholeWrites ==
  ASSUME NEW e \in Line, ~e.bounded, NEW c \in Byte, NEW sb \in Seq(Byte),
         sb = e.buf \/ \E d \in Gap : sb = Append(e.buf, d),
         NEW r, Written(r, e, sb, c)
  PROVE  r.buf = Append(sb, c) /\ (Plain(e.buf) /\ c \notin {"s", "t"} => Plain(r.buf))
<1>1. r.buf = Append(sb, c)
  BY DEF Written, Full, FullAt
<1>2. Plain(e.buf) => Plain(sb)
  <2>1. ASSUME NEW d \in Gap, sb = Append(e.buf, d), Plain(e.buf) PROVE Plain(sb)
    <3>1. e.buf \in Seq(Byte) /\ d \in Byte
      BY DueBytes DEF Line
    <3>2. d \notin {"s", "t"}
      BY Zenon DEF Gap, Space
    <3> QED
      BY <2>1, <3>1, <3>2, LastOf DEF Plain
  <2> QED
    BY <2>1
<1>3. ASSUME Plain(sb), c \notin {"s", "t"} PROVE Plain(Append(sb, c))
  BY <1>3, LastOf DEF Plain
<1> QED
  BY <1>1, <1>2, <1>3

LEMMA CollapsedIs ==
  ASSUME NEW s
  PROVE  Collapsed(s) <=> \A i \in 1..Len(s) : s[i] \in Gap => i # 1 /\ i # Len(s) /\ s[i + 1] \notin Gap
BY Zenon DEF Collapsed, Gap, Space

LEMMA EmitTrims ==
  ASSUME NEW e \in Line, ~e.bounded, Tracked(e), Trimmed(e), NEW c \in Byte, c \notin Gap
  PROVE  Trimmed(BodyEmitChar(e, c))
<1>1. PICK r : r = BodyEmitChar(e, c)
  OBVIOUS
<1> SUFFICES Trimmed(r)
  BY <1>1
<1>2. PICK sb : sb = Apart(e)
  OBVIOUS
<1>3. Written(r, e, sb, c) /\ r.pending_newline = (e.pending_newline /\ Full(e))
  BY <1>1, <1>2, EmitWrites
<1>4. sb \in Seq(Byte) /\ (sb = e.buf \/ \E d \in Gap : sb = Append(e.buf, d)) /\ Gap \subseteq Byte
  BY <1>2, DueBytes
<1>5. r.buf = Append(sb, c)
  BY <1>3, <1>4, WholeWrites
<1>6. r.pending_newline = FALSE
  BY <1>3 DEF Full
<1>7. e.buf \in Seq(Byte) /\ e.line_has_content \in BOOLEAN /\ e.pending_newline \in BOOLEAN
  BY DEF Line
<1>8. \A i \in 1..Len(e.buf) : e.buf[i] \in Gap => i # 1 /\ i # Len(e.buf) /\ e.buf[i + 1] \notin Gap
  BY CollapsedIs DEF Trimmed
<1>9. CASE sb = e.buf
  <2>1. \A i \in 1..Len(r.buf) : r.buf[i] \in Gap => i # 1 /\ i # Len(r.buf) /\ r.buf[i + 1] \notin Gap
    <3>1. SUFFICES ASSUME NEW i \in 1..Len(r.buf), r.buf[i] \in Gap
                   PROVE  i # 1 /\ i # Len(r.buf) /\ r.buf[i + 1] \notin Gap
      OBVIOUS
    <3>2. /\ Len(r.buf) = Len(e.buf) + 1 /\ Len(e.buf) \in Nat /\ r.buf[Len(e.buf) + 1] = c
          /\ \A k \in 1..Len(e.buf) : r.buf[k] = e.buf[k]
      BY <1>5, <1>7, <1>9, LastOf
    <3>3. i \in 1..Len(e.buf) /\ e.buf[i] \in Gap
      BY <3>1, <3>2
    <3>4. i # 1 /\ i # Len(e.buf) /\ e.buf[i + 1] \notin Gap
      BY <1>8, <3>3
    <3>5. i + 1 \in 1..Len(e.buf) /\ i # Len(r.buf)
      BY <3>2, <3>3, <3>4
    <3> QED
      BY <3>2, <3>4, <3>5
  <2> QED
    BY <1>6, <2>1, CollapsedIs DEF Trimmed
<1>10. CASE sb # e.buf
  <2>1. PICK d \in Gap : sb = Append(e.buf, d)
    BY <1>4, <1>10
  <2>2. e.buf # << >>
    BY <1>2, <1>10 DEF Apart, SpaceDue, Trimmed, Tracked
  <2>3. d \in Byte /\ Len(e.buf) \in Nat /\ Len(e.buf) # 0
    BY <1>4, <1>7, <2>2
  <2>4. \A i \in 1..Len(r.buf) : r.buf[i] \in Gap => i # 1 /\ i # Len(r.buf) /\ r.buf[i + 1] \notin Gap
    <3>1. SUFFICES ASSUME NEW i \in 1..Len(r.buf), r.buf[i] \in Gap
                   PROVE  i # 1 /\ i # Len(r.buf) /\ r.buf[i + 1] \notin Gap
      OBVIOUS
    <3>2. /\ Len(sb) = Len(e.buf) + 1 /\ sb[Len(e.buf) + 1] = d
          /\ \A k \in 1..Len(e.buf) : sb[k] = e.buf[k]
      BY <1>7, <2>1, <2>3, LastOf
    <3>3. /\ Len(r.buf) = Len(sb) + 1 /\ r.buf[Len(sb) + 1] = c
          /\ \A k \in 1..Len(sb) : r.buf[k] = sb[k]
      BY <1>4, <1>5, LastOf
    <3>4. i # Len(sb) + 1
      BY <3>1, <3>3
    <3>5. CASE i = Len(sb)
      BY <2>3, <3>2, <3>3, <3>5
    <3>6. CASE i # Len(sb)
      <4>1. i \in 1..Len(e.buf) /\ i \in 1..Len(sb)
        BY <2>3, <3>2, <3>3, <3>4, <3>6
      <4>2. e.buf[i] \in Gap
        BY <3>1, <3>2, <3>3, <4>1
      <4>3. i # 1 /\ i # Len(e.buf) /\ e.buf[i + 1] \notin Gap
        BY <1>8, <4>1, <4>2
      <4>4. i + 1 \in 1..Len(e.buf) /\ i + 1 \in 1..Len(sb)
        BY <2>3, <3>2, <4>1, <4>3
      <4>5. r.buf[i + 1] = e.buf[i + 1]
        BY <3>2, <3>3, <4>4
      <4> QED
        BY <3>3, <3>4, <4>3, <4>5
    <3> QED
      BY <3>5, <3>6
  <2> QED
    BY <1>6, <2>4, CollapsedIs DEF Trimmed
<1> QED
  BY <1>9, <1>10

LEMMA FlagsTrim ==
  ASSUME NEW e \in Line, Tracked(e), Trimmed(e)
  PROVE  Trimmed(BodySpace(e)) /\ Trimmed(BodyFlushBlock(e))
<1>1. Trimmed(BodySpace(e))
  <2>1. PICK r : r = BodySpace(e)
    OBVIOUS
  <2>2. r.buf = e.buf /\ r.pending_newline = e.pending_newline
    BY <2>1, SpaceIs
  <2> QED
    BY <2>1, <2>2 DEF Trimmed
<1>2. Trimmed(BodyFlushBlock(e))
  <2>1. PICK r : r = BodyFlushBlock(e)
    OBVIOUS
  <2>2. r.buf = e.buf /\ r.pending_newline = (e.pending_newline \/ e.line_has_content)
    BY <2>1, FlushIs
  <2>3. Trimmed(r)
    BY <2>2 DEF Trimmed, Tracked
  <2> QED
    BY <2>1, <2>3
<1> QED
  BY <1>1, <1>2

\* A title takes only what the queue holds for it.
LEMMA TitleInk ==
  ASSUME NEW w \in TitleRec, Titled(w.text), NEW c \in {"t", "lead", "cont"}
  PROVE  Titled(TitleEmitChar(w, c, Len(w.text) + 2).text)
<1>1. PICK max : max = Len(w.text) + 2
  OBVIOUS
<1>2. PICK q : q = TitleEmitChar(w, c, max)
  OBVIOUS
<1>3. c \in Byte /\ Space \in Byte /\ w.text \in Seq(Byte) /\ Len(w.text) \in Nat
  <2>1. c \in Byte /\ Space \in Byte
    BY DEF Byte, Inky, Gap
  <2> QED
    BY <2>1 DEF TitleRec
<1>4. /\ Due(w) \in Seq(Byte) /\ Len(Due(w)) \in Nat /\ Len(Due(w)) <= Len(w.text) + 1
      /\ Titled(Due(w))
  <2>1. CASE Due(w) = w.text
    BY <1>3, <2>1
  <2>2. CASE Due(w) = Append(w.text, Space)
    BY <1>3, <2>2, LastOf DEF Titled
  <2> QED
    BY <2>1, <2>2 DEF Due
<1>5. q.text = Append(Due(w), c)
  <2>1. max \in Nat /\ Len(w.text) <= max /\ Len(w.text) # max /\ Len(Due(w)) # max
    BY <1>1, <1>3, <1>4
  <2>2. q.text = IF Len(w.text) = max THEN w.text
                 ELSE IF Len(Due(w)) = max THEN Due(w) ELSE Append(Due(w), c)
    BY <1>2, <1>3, <2>1, TitleWrites
  <2> QED
    BY <2>1, <2>2
<1>6. Titled(q.text)
  BY <1>3, <1>4, <1>5, LastOf DEF Titled
<1> QED
  BY <1>1, <1>2, <1>6

(***************************************************************************)
(* What waits in the queue.                                                *)
(***************************************************************************)
Decimal(g, n) ==
  g = [k \in 0..n |-> IF k < 10 THEN <<Digit[k + 1]>>
                      ELSE Append(g[k \div 10], Digit[(k % 10) + 1])]

LEMMA DigitIs == \A k \in 0..9 : Digit[k + 1] \in Digital
<1>1. ASSUME NEW k \in 0..9 PROVE Digit[k + 1] \in Digital
  <2>1. k \in {0, 1, 2, 3, 4, 5, 6, 7, 8, 9}
    OBVIOUS
  <2> QED
    BY <2>1 DEF Digit, Digital
<1> QED
  BY <1>1

LEMMA TenthIs ==
  ASSUME NEW k \in Nat, k >= 10
  PROVE  k \div 10 \in 0..(k - 1) /\ k % 10 \in 0..9
OBVIOUS

LEMMA DecimalExists ==
  ASSUME NEW n \in Nat
  PROVE  \E g : Decimal(g, n)
<1> DEFINE S == {m \in Nat : \E g : Decimal(g, m)}
<1>1. 0 \in S
  <2>1. Decimal([k \in 0..0 |-> <<Digit[1]>>], 0)
    BY DEF Decimal
  <2> QED
    BY <2>1
<1>2. ASSUME NEW m \in S PROVE m + 1 \in S
  <2>1. PICK f : Decimal(f, m)
    OBVIOUS
  <2> DEFINE Body(h, k) == IF k < 10 THEN <<Digit[k + 1]>>
                           ELSE Append(h[k \div 10], Digit[(k % 10) + 1])
             g == [k \in 0..(m + 1) |-> Body(f, k)]
  <2>2. \A k \in 0..m : f[k] = Body(f, k)
    BY <2>1 DEF Decimal
  <2>3. ASSUME NEW k \in 0..(m + 1) PROVE Body(f, k) = Body(g, k)
    <3>1. CASE k < 10
      BY <3>1
    <3>2. CASE ~(k < 10)
      <4>1. k \div 10 \in 0..(k - 1)
        BY <3>2, TenthIs
      <4>2. k \div 10 \in 0..m /\ k \div 10 \in 0..(m + 1)
        BY <4>1
      <4>3. g[k \div 10] = f[k \div 10]
        BY <2>2, <4>2
      <4> HIDE DEF g
      <4> QED
        BY <3>2, <4>3
    <3> QED
      BY <3>1, <3>2
  <2>4. g = [k \in 0..(m + 1) |-> Body(g, k)]
    <3> HIDE DEF Body
    <3> QED
      BY <2>3
  <2>5. Decimal(g, m + 1)
    <3> HIDE DEF g
    <3> QED
      BY <2>4 DEF Decimal
  <2> HIDE DEF g
  <2> QED
    BY <2>5
<1>3. S = Nat
  <2> HIDE DEF S
  <2>1. S \in SUBSET Nat
    BY DEF S
  <2> QED
    BY <1>1, <1>2, <2>1, Induct
<1> QED
  BY <1>3

\* A number is written in digits.
LEMMA DigitsTyped ==
  ASSUME NEW n \in Nat
  PROVE  Digits(n) \in Seq(Digital)
<1>1. PICK d : d = CHOOSE g : g = [k \in 0..n |-> IF k < 10 THEN <<Digit[k + 1]>>
                                   ELSE Append(g[k \div 10], Digit[(k % 10) + 1])]
  OBVIOUS
<1>2. Digits(n) = d[n]
  BY <1>1 DEF Digits
<1>3. Decimal(d, n)
  <2>1. d = CHOOSE g : Decimal(g, n)
    BY <1>1 DEF Decimal
  <2> QED
    BY <2>1, DecimalExists
<1>4. \A k \in 0..n : d[k] = IF k < 10 THEN <<Digit[k + 1]>>
                             ELSE Append(d[k \div 10], Digit[(k % 10) + 1])
  BY <1>3 DEF Decimal
<1> DEFINE T == {k \in 0..n : d[k] \notin Seq(Digital)}
<1>5. T = {}
  <2>1. SUFFICES ASSUME T # {} PROVE FALSE
    OBVIOUS
  <2>2. PICK k \in T : \A m \in T : k <= m
    <3>1. T \in SUBSET Nat
      OBVIOUS
    <3> HIDE DEF T
    <3> QED
      BY <2>1, <3>1, Smallest
  <2>3. k \in 0..n /\ d[k] \notin Seq(Digital)
    OBVIOUS
  <2>4. CASE k < 10
    <3>1. k \in 0..9
      BY <2>3, <2>4
    <3>2. d[k] = <<Digit[k + 1]>>
      <4> HIDE DEF T
      <4> QED
        BY <1>4, <2>3, <2>4
    <3> QED
      BY <2>3, <3>1, <3>2, DigitIs
  <2>5. CASE ~(k < 10)
    <3>1. k \div 10 \in 0..(k - 1) /\ k % 10 \in 0..9
      BY <2>3, <2>5, TenthIs
    <3>2. k \div 10 \in 0..n /\ k \div 10 \notin T
      BY <2>2, <2>3, <3>1
    <3>3. d[k \div 10] \in Seq(Digital)
      BY <3>2
    <3>4. d[k] = Append(d[k \div 10], Digit[(k % 10) + 1])
      BY <1>4, <2>3, <2>5
    <3> QED
      BY <2>3, <3>1, <3>3, <3>4, DigitIs
  <2> QED
    BY <2>4, <2>5
<1> QED
  BY <1>2, <1>5

\* Bytes of the body, none of them out of a script, a style sheet or the title.
Solid == Digital \cup {"x", "lead", "cont", ".", "-", "[", "]"}
Loose == Solid \cup {Space}

LEMMA BodyBytes ==
  /\ Loose \subseteq Byte
  /\ \A c \in Loose : c # "\n" /\ c \notin {"s", "t"}
  /\ \A c \in Solid : c # Space
<1>1. Loose \subseteq Byte
  BY DEF Loose, Solid, Byte, Inky, Gap
<1>2. \A c \in Loose : c # "\n" /\ c \notin {"s", "t"}
  BY Zenon DEF Loose, Solid, Space, Digital
<1>3. \A c \in Solid : c # Space
  BY Zenon DEF Loose, Solid, Space, Digital
<1> QED
  BY <1>1, <1>2, <1>3

LEMMA MarkIs ==
  ASSUME NEW n \in Nat
  PROVE  Mark(n) \in Seq(Solid)
<1>1. Digits(n) \in Seq(Solid)
  <2>1. Digital \subseteq Solid
    BY DEF Solid
  <2> QED
    BY <2>1, DigitsTyped
<1>2. <<"[">> \in Seq(Solid) /\ <<"]">> \in Seq(Solid)
  BY DEF Solid
<1> QED
  BY <1>1, <1>2 DEF Mark

Dot == <<".", " ">>
Dash == <<"-", " ">>

\* What a list item begins with.
Bullet == Digital \cup {Space, ".", "-"}

LEMMA BulletBytes == Bullet \subseteq Loose /\ \A c \in Bullet : c \notin {"[", "lead", "cont"}
<1>1. Space \notin {"[", "lead", "cont"}
  BY Zenon DEF Space
<1> QED
  BY <1>1 DEF Bullet, Loose, Solid, Digital

LEMMA SuffixIs == Dot \in Seq(Bullet) /\ Dash \in Seq(Bullet)
<1>1. Dot = <<".", Space>> /\ Dash = <<"-", Space>>
  BY Zenon DEF Dot, Dash, Space
<1>2. Space \in Bullet /\ "." \in Bullet /\ "-" \in Bullet
  BY DEF Bullet
<1> QED
  BY <1>1, <1>2

LEMMA IndentIs ==
  ASSUME list_depth \in Nat
  PROVE  Indent \in Seq(Bullet)
<1> DEFINE n == 2 * Least(IF list_depth > 0 THEN list_depth - 1 ELSE 0, ListMax - 1)
<1>1. n \in Nat
  BY TextConstants DEF Least
<1>2. Indent = [k \in 1..n |-> Space]
  BY Zenon DEF Indent, Space
<1>3. Space \in Bullet
  BY DEF Bullet
<1> QED
  BY <1>1, <1>2, <1>3

LEMMA ItemBytes ==
  ASSUME list_depth \in Nat
  PROVE  /\ Indent \o Dash \in Seq(Bullet)
         /\ \A n \in Nat : Indent \o Digits(n) \o Dot \in Seq(Bullet)
<1>1. \A n \in Nat : Digits(n) \in Seq(Bullet)
  <2>1. Digital \subseteq Bullet
    BY DEF Bullet
  <2> QED
    BY <2>1, DigitsTyped
<1> QED
  BY <1>1, IndentIs, SuffixIs

(***************************************************************************)
(* What the actions do, with names for the strings that have blanks.       *)
(***************************************************************************)
Nbsp == "&nbsp;"

LEMMA BlankBytes ==
  ASSUME NEW c \in Blank, c # Nbsp
  PROVE  c \in Byte /\ c \notin {"s", "t"}
<1>1. c \in {Space, "\n", "\t", "\r"}
  BY Zenon DEF Blank, Nbsp, Space
<1>2. Space \notin {"s", "t"}
  BY Zenon DEF Space
<1> QED
  BY <1>1, <1>2 DEF Byte, Gap

LEMMA BodyTextIs ==
  ASSUME NEW c, BodyText(c)
  PROVE  /\ ~in_skip /\ ~in_title
         /\ \/ c \in Visible /\ queue' = Bytes(c) /\ UNCHANGED <<body, whole>>
            \/ c \notin Visible /\ in_pre /\ c # Nbsp /\ PreBlank(c)
            \/ c \notin Visible /\ body' = BodySpace(body) /\ whole' = BodySpace(whole) /\ UNCHANGED queue
         /\ UNCHANGED <<title, whole_title>>
BY Zenon DEF BodyText, Nbsp

LEMMA ItemIs ==
  ASSUME NEW name, StartItem(name)
  PROVE  /\ name = "li"
         /\ \/ Numbered /\ queue' = Indent \o Digits(list_stack[list_depth].counter + 1) \o Dot
               /\ list_stack' = [list_stack EXCEPT ![list_depth].counter = @ + 1]
            \/ ~Numbered /\ queue' = Indent \o Dash /\ UNCHANGED list_stack
         /\ lists' = IF lists # << >> /\ lists[Len(lists)].ordered
                       THEN [lists EXCEPT ![Len(lists)].counter = @ + 1] ELSE lists
         /\ UNCHANGED <<list_depth, in_pre, pre_lead>>
<1>1. CASE Numbered
  BY <1>1, Zenon DEF StartItem, Dot, Dash
<1>2. CASE ~Numbered
  BY <1>2, Zenon DEF StartItem, Dot, Dash
<1> QED
  BY <1>1, <1>2

LEMMA EndIs ==
  ASSUME NEW name, NEW unclosed \in BOOLEAN, End(name, unclosed)
  PROVE  /\ Read(IF name = raw THEN {"any", "raw"} ELSE {"any"})
         /\ EndSkip(name) \/ EndTitle(name) \/ EndAnchor(name) \/ EndBlock(name) \/ EndOther(name)
         /\ feed' = IF unclosed THEN "end" ELSE "any"
         /\ raw' = NoRaw
         /\ seen' = [seen EXCEPT !.tokens = @ + 1]
         /\ UNCHANGED truncated
BY Zenon DEF End, NoRaw

LEMMA NamesApart ==
  /\ NoRaw \notin RawText
  /\ "a" \notin RawText /\ Block \cap RawText = {}
  /\ Skipped \subseteq RawText /\ "title" \in RawText \ Skipped
<1>1. NoRaw \notin RawText
  BY Zenon DEF NoRaw, RawText
<1> QED
  BY <1>1 DEF RawText, Block, Skipped

LEMMA SeenTyped ==
  ASSUME seen \in Seen
  PROVE  /\ seen.of \in Documents /\ seen.tokens \in Nat /\ seen.titles \in Nat
         /\ seen.tags \subseteq {"pre", "li"}
         /\ \A c \in seen.of.characters : c \in Visible \cup Blank
         /\ \A name \in seen.of.tags : name \in Known
<1>1. seen.of \in Documents /\ seen.tokens \in Nat /\ seen.titles \in Nat /\ seen.tags \subseteq {"pre", "li"}
  BY DEF Seen
<1> QED
  BY <1>1, TextConstants

(***************************************************************************)
(* Which element is being read.                                            *)
(***************************************************************************)
LEMMA ReadByStart ==
  ASSUME ReadInv, NEW name \in Known, NEW self_closing \in BOOLEAN, NEW unclosed \in BOOLEAN, NEW href,
         Start(name, self_closing, href, unclosed)
  PROVE  ReadInv' /\ seen.tags \subseteq seen'.tags
<1>1. /\ queue = << >> /\ feed = "any" /\ ~(self_closing /\ unclosed)
      /\ \/ ~self_closing /\ (StartSkip(name) \/ StartTitle(name))
         \/ StartAnchor(name, href)
         \/ StartBlock(name, self_closing)
         \/ StartOther(name, self_closing)
      /\ seen' = [seen EXCEPT !.tokens = @ + 1, !.tags = @ \cup ({name} \cap {"pre", "li"}),
                   !.titles = @ + (IF name = "title" /\ ~self_closing THEN 1 ELSE 0)]
      /\ IF unclosed THEN feed' = "end" /\ UNCHANGED raw
         ELSE IF name \in RawText /\ ~self_closing THEN feed' = "raw" /\ raw' = name
         ELSE UNCHANGED <<feed, raw>>
  BY DEF Start, Read
<1>2. /\ seen' \in Seen /\ seen.tags \subseteq seen'.tags
      /\ seen'.titles = seen.titles + (IF name = "title" /\ ~self_closing THEN 1 ELSE 0)
      /\ name = "pre" => "pre" \in seen'.tags
      /\ seen.titles \in Nat
  <2>1. seen \in Seen
    BY DEF ReadInv
  <2>2. seen.titles \in Nat /\ seen.tokens \in Nat
    BY <2>1, SeenTyped
  <2> DEFINE more == IF name = "title" /\ ~self_closing THEN 1 ELSE 0
             some == {name} \cap {"pre", "li"}
  <2>3. more \in Nat /\ some \subseteq {"pre", "li"} /\ (name = "pre" => "pre" \in some)
    OBVIOUS
  <2>4. seen' = [seen EXCEPT !.tokens = @ + 1, !.tags = @ \cup some, !.titles = @ + more]
    BY <1>1
  <2>5. seen'.titles = seen.titles + more
    <3> HIDE DEF more, some
    <3> QED
      BY <2>1, <2>4 DEF Seen
  <2>6. seen' \in Seen /\ seen'.tags = seen.tags \cup some
    <3> DEFINE tags == seen.tags \cup some
    <3>1. tags \in SUBSET {"pre", "li"} /\ seen.tokens + 1 \in Nat /\ seen.titles + more \in Nat
      BY <2>1, <2>2, <2>3, SeenTyped
    <3>2. seen' = [seen EXCEPT !.tokens = seen.tokens + 1, !.tags = tags, !.titles = seen.titles + more]
      BY <2>4
    <3> HIDE DEF more, some, tags
    <3>3. seen' \in Seen /\ seen'.tags = tags
      BY <2>1, <3>1, <3>2 DEF Seen
    <3> QED
      BY <3>3 DEF tags
  <2> QED
    BY <2>2, <2>3, <2>5, <2>6
<1>3. /\ feed' \in {"any", "raw", "end", "done"} /\ raw' \in RawText \cup {NoRaw}
      /\ raw = NoRaw /\ ~in_skip /\ ~in_title
      /\ in_skip \in BOOLEAN /\ in_title \in BOOLEAN /\ title_seen \in BOOLEAN /\ in_pre \in BOOLEAN
  BY <1>1 DEF ReadInv
<1>4. CASE ~self_closing /\ StartSkip(name)
  <2>1. name \in Skipped /\ in_skip' = TRUE /\ UNCHANGED <<in_pre, in_title, title_seen>>
    BY <1>4 DEF StartSkip
  <2>2. name \in RawText /\ name # "title"
    BY <2>1, NamesApart
  <2> QED
    BY <1>1, <1>2, <1>3, <1>4, <2>1, <2>2 DEF ReadInv
<1>5. CASE ~self_closing /\ StartTitle(name)
  <2>1. name = "title" /\ in_title' = ~title_seen /\ title_seen' = TRUE /\ UNCHANGED <<in_skip, in_pre>>
    BY <1>3, <1>5 DEF StartTitle, TitleOpens
  <2>2. name \in RawText /\ name \notin Skipped /\ seen'.titles = seen.titles + 1
    BY <1>2, <1>5, <2>1, NamesApart
  <2>3. title_seen <=> seen.titles > 0
    BY DEF ReadInv
  <2>4. in_title' <=> seen'.titles = 1
    <3>1. in_title' <=> ~title_seen
      BY <1>3, <2>1
    <3>2. seen'.titles = 1 <=> ~(seen.titles > 0)
      BY <1>2, <2>2
    <3> QED
      BY <2>3, <3>1, <3>2
  <2> QED
    BY <1>1, <1>2, <1>3, <1>5, <2>1, <2>2, <2>4 DEF ReadInv
<1>6. CASE StartAnchor(name, href) \/ StartOther(name, self_closing)
  <2>1. /\ UNCHANGED <<in_skip, in_pre, in_title, title_seen>>
        /\ ~(name = "title" /\ ~self_closing)
        /\ name \in RawText /\ ~self_closing => name = "textarea"
    BY <1>6 DEF StartAnchor, StartOther, flags, RawText, Skipped
  <2>2. "textarea" \notin Skipped
    BY DEF Skipped
  <2> QED
    BY <1>1, <1>2, <1>3, <2>1, <2>2 DEF ReadInv
<1>7. CASE StartBlock(name, self_closing)
  <2>1. /\ UNCHANGED <<in_skip, in_title, title_seen>> /\ name \notin RawText /\ name # "title"
        /\ in_pre' = in_pre \/ (in_pre' = TRUE /\ name = "pre")
    BY <1>7, ItemIs, NamesApart DEF StartBlock, StartPre, StartList, flags
  <2>2. in_pre' \in BOOLEAN /\ (in_pre' => "pre" \in seen'.tags)
    <3>1. in_pre => "pre" \in seen.tags
      BY DEF ReadInv
    <3>2. CASE in_pre' = in_pre
      BY <1>2, <1>3, <3>1, <3>2
    <3>3. CASE in_pre' = TRUE /\ name = "pre"
      BY <1>2, <3>3
    <3> QED
      BY <2>1, <3>2, <3>3
  <2>3. feed' # "raw" /\ (feed' = "any" => raw' = NoRaw)
    BY <1>1, <1>3, <2>1
  <2>4. title_seen' <=> seen'.titles > 0
    BY <1>2, <2>1 DEF ReadInv
  <2> QED
    BY <1>2, <1>3, <2>1, <2>2, <2>3, <2>4 DEF ReadInv
<1> QED
  BY <1>1, <1>2, <1>4, <1>5, <1>6, <1>7

LEMMA ReadByEnd ==
  ASSUME ReadInv, NEW name \in Known, NEW unclosed \in BOOLEAN, End(name, unclosed)
  PROVE  ReadInv' /\ seen'.tags = seen.tags
<1>1. /\ feed = "any" \/ (feed = "raw" /\ name = raw)
      /\ EndSkip(name) \/ EndTitle(name) \/ EndAnchor(name) \/ EndBlock(name) \/ EndOther(name)
      /\ feed' = (IF unclosed THEN "end" ELSE "any") /\ raw' = NoRaw
      /\ seen' = [seen EXCEPT !.tokens = @ + 1]
  BY EndIs DEF Read
<1>2. seen' \in Seen /\ seen.tags = seen'.tags /\ seen'.titles = seen.titles
  BY <1>1 DEF ReadInv, Seen
<1>3. /\ in_skip \in BOOLEAN /\ in_title \in BOOLEAN /\ title_seen \in BOOLEAN /\ in_pre \in BOOLEAN
      /\ in_skip => name \in Skipped
      /\ in_title => name = "title"
  BY <1>1 DEF ReadInv
<1>4. /\ in_skip' \in BOOLEAN /\ in_title' \in BOOLEAN /\ in_pre' \in BOOLEAN
      /\ ~in_skip' /\ ~in_title' /\ title_seen' = title_seen /\ (in_pre' => in_pre)
  <2>1. CASE EndSkip(name)
    BY <1>3, <2>1, NamesApart DEF EndSkip
  <2>2. CASE EndTitle(name)
    BY <1>3, <2>2, NamesApart DEF EndTitle
  <2>3. CASE EndAnchor(name) \/ EndOther(name)
    <3>1. name \in {"a", "b", "textarea"} /\ UNCHANGED <<in_skip, in_pre, in_title, title_seen>>
      BY <2>3 DEF EndAnchor, EndOther, flags
    <3>2. name \notin Skipped /\ name # "title"
      BY <3>1 DEF Skipped
    <3> QED
      BY <1>3, <3>1, <3>2
  <2>4. CASE EndBlock(name)
    <3>1. name \in Block /\ UNCHANGED <<in_skip, in_title, title_seen>>
      BY <2>4 DEF EndBlock
    <3>2. name \notin Skipped /\ name # "title"
      BY <3>1, NamesApart
    <3>3. in_pre' \in BOOLEAN /\ (in_pre' => in_pre)
      BY <1>3, <2>4 DEF EndBlock
    <3> QED
      BY <1>3, <3>1, <3>2, <3>3
  <2> QED
    BY <1>1, <2>1, <2>2, <2>3, <2>4
<1>5. feed' \in {"any", "end"}
  BY <1>1
<1> QED
  BY <1>1, <1>2, <1>4, <1>5 DEF ReadInv

(***************************************************************************)
(* What a step may do to the body, to the title and to the queue.          *)
(***************************************************************************)
BodyStep ==
  \/ UNCHANGED <<body, whole>>
  \/ body' = BodySpace(body) /\ whole' = BodySpace(whole)
  \/ body' = BodyFlushBlock(body) /\ whole' = BodyFlushBlock(whole)
  \/ \E c \in Byte :
       /\ c \notin {"s", "t"} /\ seen.tags # {}
       /\ body' = BodyEmitPreByte(body, c) /\ whole' = BodyEmitPreByte(whole, c)
  \/ \E c \in Byte :
       /\ c # "\n" /\ c \notin {"s", "t"} /\ (seen.tags = {} => c # Space)
       /\ body' = BodyEmitChar(body, c) /\ whole' = BodyEmitChar(whole, c)

LEMMA BodyKept ==
  ASSUME BodyInv, BodyStep, seen.tags \subseteq seen'.tags
  PROVE  BodyInv'
<1>1. /\ Pair(body, whole) /\ Tracked(body) /\ Tracked(whole) /\ Plain(whole.buf)
      /\ seen.tags = {} => Trimmed(whole)
      /\ body \in Line /\ whole \in Line /\ ~whole.bounded
  BY DEF BodyInv, Pair
<1>2. seen'.tags = {} => seen.tags = {}
  OBVIOUS
<1>3. PICK e : e = whole
  OBVIOUS
<1>4. CASE UNCHANGED <<body, whole>>
  BY <1>1, <1>2, <1>4 DEF BodyInv
<1>5. CASE body' = BodySpace(body) /\ whole' = BodySpace(whole)
  <2>1. Plain(whole'.buf)
    BY <1>1, <1>5, SpaceIs
  <2> QED
    BY <1>1, <1>2, <1>5, <2>1, PairFlags, FlagsTrack, FlagsTrim DEF BodyInv
<1>6. CASE body' = BodyFlushBlock(body) /\ whole' = BodyFlushBlock(whole)
  <2>1. Plain(whole'.buf)
    BY <1>1, <1>6, FlushIs
  <2> QED
    BY <1>1, <1>2, <1>6, <2>1, PairFlags, FlagsTrack, FlagsTrim DEF BodyInv
<1>7. ASSUME NEW c \in Byte, c \notin {"s", "t"}, seen.tags # {},
             body' = BodyEmitPreByte(body, c), whole' = BodyEmitPreByte(whole, c)
      PROVE  BodyInv'
  <2>1. Plain(whole'.buf)
    <3>1. PICK r : r = BodyEmitPreByte(whole, c)
      OBVIOUS
    <3>2. PICK sb : sb = Broken(whole)
      OBVIOUS
    <3>3. Written(r, whole, sb, c)
      BY <1>1, <3>1, <3>2, PreWrites
    <3>4. sb \in Seq(Byte) /\ (sb = whole.buf \/ \E d \in Gap : sb = Append(whole.buf, d))
      BY <1>1, <3>2, DueBytes
    <3>5. Plain(r.buf)
      BY <1>1, <1>7, <3>3, <3>4, WholeWrites
    <3> QED
      BY <1>7, <3>1, <3>5
  <2> QED
    BY <1>1, <1>2, <1>7, <2>1, PairPres, PreTracks DEF BodyInv
<1>8. ASSUME NEW c \in Byte, c # "\n", c \notin {"s", "t"}, seen.tags = {} => c # Space,
             body' = BodyEmitChar(body, c), whole' = BodyEmitChar(whole, c)
      PROVE  BodyInv'
  <2>1. Plain(whole'.buf)
    <3>1. PICK r : r = BodyEmitChar(whole, c)
      OBVIOUS
    <3>2. PICK sb : sb = Apart(whole)
      OBVIOUS
    <3>3. Written(r, whole, sb, c)
      BY <1>1, <3>1, <3>2, EmitWrites
    <3>4. sb \in Seq(Byte) /\ (sb = whole.buf \/ \E d \in Gap : sb = Append(whole.buf, d))
      BY <1>1, <3>2, DueBytes
    <3>5. Plain(r.buf)
      BY <1>1, <1>8, <3>3, <3>4, WholeWrites
    <3> QED
      BY <1>8, <3>1, <3>5
  <2>2. seen'.tags = {} => Trimmed(whole')
    <3>1. c \notin Gap <=> c # Space
      BY <1>8 DEF Gap
    <3> QED
      BY <1>1, <1>2, <1>8, <3>1, EmitTrims
  <2> QED
    BY <1>1, <1>8, <2>1, <2>2, PairEmits, EmitTracks DEF BodyInv
<1> QED
  BY <1>4, <1>5, <1>6, <1>7, <1>8 DEF BodyStep

TitleStep ==
  \/ UNCHANGED <<title, whole_title>>
  \/ /\ title' = [title EXCEPT !.pending_space = TRUE]
     /\ whole_title' = [whole_title EXCEPT !.pending_space = TRUE]
  \/ \E c \in {"t", "lead", "cont"} :
       /\ title' = TitleEmitChar(title, c, TitleMax)
       /\ whole_title' = TitleEmitChar(whole_title, c, Len(whole_title.text) + 2)

LEMMA TitleKept ==
  ASSUME TitleInv, TitleStep
  PROVE  TitleInv'
<1>1. TitlePair(title, whole_title) /\ Titled(whole_title.text) /\ whole_title \in TitleRec
  BY DEF TitleInv, TitlePair
<1>2. CASE UNCHANGED <<title, whole_title>>
  BY <1>1, <1>2 DEF TitleInv
<1>3. CASE /\ title' = [title EXCEPT !.pending_space = TRUE]
           /\ whole_title' = [whole_title EXCEPT !.pending_space = TRUE]
  <2>1. /\ title' \in TitleRec /\ title'.text = title.text /\ title'.cut = title.cut
        /\ whole_title' \in TitleRec /\ whole_title'.text = whole_title.text
        /\ whole_title'.cut = whole_title.cut
        /\ title = whole_title => title' = whole_title'
    BY <1>1, <1>3 DEF TitlePair, TitleRec
  <2> QED
    BY <1>1, <2>1 DEF TitleInv, TitlePair
<1>4. ASSUME NEW c \in {"t", "lead", "cont"},
             title' = TitleEmitChar(title, c, TitleMax),
             whole_title' = TitleEmitChar(whole_title, c, Len(whole_title.text) + 2)
      PROVE  TitleInv'
  <2>1. c \in Byte
    BY DEF Byte, Inky
  <2> QED
    BY <1>1, <1>4, <2>1, TitleEmits, TitleInk DEF TitleInv
<1> QED
  BY <1>2, <1>3, <1>4 DEF TitleStep

QueueStep ==
  \/ queue # << >> /\ queue' = Tail(queue) /\ in_title' = in_title /\ feed' = feed /\ seen' = seen
  \/ queue' = << >>
  \/ /\ feed' # "done" /\ ~in_title'
     /\ queue' \in Seq(Solid) \/ (queue' \in Seq(Loose) /\ seen'.tags # {})
  \/ feed' # "done" /\ in_title' /\ queue' \in Seq({"t", "lead", "cont"})

LEMMA QueueKept ==
  ASSUME QueueInv, QueueStep
  PROVE  QueueInv'
<1>1. CASE queue # << >> /\ queue' = Tail(queue) /\ in_title' = in_title /\ feed' = feed /\ seen' = seen
  <2>1. queue \in Seq(Byte)
    BY DEF QueueInv
  <2>2. /\ queue' \in Seq(Byte) /\ Len(queue') = Len(queue) - 1 /\ Len(queue) \in Nat
        /\ \A i \in 1..Len(queue') : i + 1 \in 1..Len(queue) /\ queue'[i] = queue[i + 1]
    BY <1>1, <2>1
  <2> QED
    BY <1>1, <2>2 DEF QueueInv
<1>2. CASE queue' = << >>
  BY <1>2 DEF QueueInv
<1>3. CASE feed' # "done" /\ ~in_title' /\ queue' \in Seq(Solid)
  <2>1. queue' \in Seq(Byte) /\ \A i \in 1..Len(queue') : queue'[i] \in Solid /\ queue'[i] \in Loose
    BY <1>3, BodyBytes DEF Loose
  <2> QED
    BY <1>3, <2>1, BodyBytes DEF QueueInv
<1>4. CASE feed' # "done" /\ ~in_title' /\ queue' \in Seq(Loose) /\ seen'.tags # {}
  <2>1. queue' \in Seq(Byte) /\ \A i \in 1..Len(queue') : queue'[i] \in Loose
    BY <1>4, BodyBytes
  <2> QED
    BY <1>4, <2>1, BodyBytes DEF QueueInv
<1>5. CASE feed' # "done" /\ in_title' /\ queue' \in Seq({"t", "lead", "cont"})
  <2>1. {"t", "lead", "cont"} \subseteq Byte
    BY DEF Byte, Inky
  <2>2. Space \notin {"t", "lead", "cont"}
    BY Zenon DEF Space
  <2>3. queue' \in Seq(Byte) /\ \A i \in 1..Len(queue') : queue'[i] \in {"t", "lead", "cont"}
    BY <1>5, <2>1
  <2> QED
    BY <1>5, <2>2, <2>3 DEF QueueInv
<1> QED
  BY <1>1, <1>2, <1>3, <1>4, <1>5 DEF QueueStep

(***************************************************************************)
(* The counters of the lists.                                              *)
(***************************************************************************)
LEMMA ListsTyped ==
  ASSUME ListInv
  PROVE  /\ list_depth \in Nat /\ list_depth <= NestMax /\ NestMax \in Nat /\ ListMax \in Nat
         /\ ListMax >= 1 /\ ListMax <= NestMax
         /\ list_stack \in [1..ListMax -> Item] /\ lists \in Seq(Item) /\ Len(lists) \in Nat
         /\ \A k \in 1..Len(lists) : lists[k] \in Item
         /\ \A k \in 1..ListMax : list_stack[k] \in Item
         /\ list_depth <= Len(lists)
         /\ list_depth = Len(lists) =>
              \A k \in 1..Len(lists) : k <= ListMax =>
                lists[k].ordered = list_stack[k].ordered /\ lists[k].counter = list_stack[k].counter
BY TextConstants DEF ListInv, ItemsAreNumbered, Least

\* In the other direction, for the next state.
LEMMA ListsHold ==
  ASSUME NEW d \in 0..NestMax, NEW t \in [1..ListMax -> Item], NEW l \in Seq(Item),
         d <= Len(l),
         d = Len(l) => \A k \in 1..Len(l) : k <= ListMax =>
                         l[k].ordered = t[k].ordered /\ l[k].counter = t[k].counter,
         list_depth' = d, list_stack' = t, lists' = l
  PROVE  ListInv'
<1>1. NestMax \in Nat /\ ListMax \in Nat /\ Len(l) \in Nat
  BY TextConstants
<1>2. ItemsAreNumbered'
  <2>1. \A k \in 1..Least(d, ListMax) : k \in 1..d /\ k <= ListMax
    BY <1>1 DEF Least
  <2> QED
    BY <1>1, <2>1 DEF ItemsAreNumbered
<1> QED
  BY <1>2 DEF ListInv

LEMMA ListByStart ==
  ASSUME ListInv, NEW name, StartList(name)
  PROVE  ListInv'
<1> DEFINE r == [ordered |-> name = "ol", counter |-> 0]
           t == IF list_depth < ListMax THEN [list_stack EXCEPT ![list_depth + 1] = r] ELSE list_stack
           d == IF list_depth < NestMax THEN list_depth + 1 ELSE list_depth
           l == Append(lists, r)
<1>1. list_depth' = d /\ list_stack' = t /\ lists' = l
  BY DEF StartList, ListPush
<1>2. /\ list_depth \in Nat /\ list_depth <= NestMax /\ NestMax \in Nat /\ ListMax \in Nat
      /\ ListMax >= 1 /\ ListMax <= NestMax
      /\ list_stack \in [1..ListMax -> Item] /\ lists \in Seq(Item) /\ Len(lists) \in Nat
      /\ list_depth <= Len(lists)
      /\ list_depth = Len(lists) =>
           \A k \in 1..Len(lists) : k <= ListMax =>
             lists[k].ordered = list_stack[k].ordered /\ lists[k].counter = list_stack[k].counter
  BY ListsTyped
<1>3. r \in Item
  BY DEF Item
<1> HIDE DEF r
<1>4. /\ l \in Seq(Item) /\ Len(l) = Len(lists) + 1 /\ l[Len(lists) + 1] = r
      /\ \A k \in 1..Len(lists) : l[k] = lists[k]
  BY <1>2, <1>3
<1>5. t \in [1..ListMax -> Item] /\ d \in 0..NestMax
  BY <1>2, <1>3
<1>6. d <= Len(l)
  BY <1>2, <1>4
<1>7. ASSUME d = Len(l), NEW k \in 1..Len(l), k <= ListMax
      PROVE  l[k].ordered = t[k].ordered /\ l[k].counter = t[k].counter
  <2>1. list_depth = Len(lists) /\ d = list_depth + 1
    BY <1>2, <1>4, <1>7
  <2>2. CASE k = Len(l)
    <3>1. t[k] = r /\ l[k] = r
      BY <1>2, <1>4, <1>7, <2>1, <2>2
    <3> QED
      BY <3>1
  <2>3. CASE k # Len(l)
    <3>1. k \in 1..Len(lists) /\ t[k] = list_stack[k] /\ l[k] = lists[k]
      BY <1>2, <1>4, <1>7, <2>1, <2>3
    <3> QED
      BY <1>2, <1>7, <2>1, <3>1
  <2> QED
    BY <2>2, <2>3
<1> HIDE DEF t, d, l
<1> QED
  BY <1>1, <1>4, <1>5, <1>6, <1>7, ListsHold

LEMMA ListByItem ==
  ASSUME ListInv, NEW name, StartItem(name)
  PROVE  ListInv'
<1> DEFINE n == Len(lists)
           t == IF Numbered THEN [list_stack EXCEPT ![list_depth].counter = @ + 1] ELSE list_stack
           l == IF lists # << >> /\ lists[n].ordered THEN [lists EXCEPT ![n].counter = @ + 1] ELSE lists
<1>1. list_depth' = list_depth /\ list_stack' = t /\ lists' = l
  BY ItemIs
<1>2. /\ list_depth \in Nat /\ list_depth <= NestMax /\ NestMax \in Nat /\ ListMax \in Nat
      /\ list_stack \in [1..ListMax -> Item] /\ lists \in Seq(Item) /\ n \in Nat
      /\ list_depth <= n
      /\ \A k \in 1..n : lists[k] \in Item
      /\ \A k \in 1..ListMax : list_stack[k] \in Item
      /\ list_depth = n =>
           \A k \in 1..n : k <= ListMax =>
             lists[k].ordered = list_stack[k].ordered /\ lists[k].counter = list_stack[k].counter
  BY ListsTyped
<1>3. /\ l \in Seq(Item) /\ Len(l) = n /\ \A k \in 1..n : k # n => l[k] = lists[k]
      /\ n # 0 => l[n].ordered = lists[n].ordered
      /\ n # 0 => l[n].counter = IF lists[n].ordered THEN lists[n].counter + 1 ELSE lists[n].counter
  <2>1. CASE lists # << >> /\ lists[n].ordered
    <3>1. n \in 1..n /\ lists[n] \in Item
      BY <1>2, <2>1
    <3> DEFINE r == [lists[n] EXCEPT !.counter = @ + 1]
    <3>2. r \in Item /\ r.ordered = lists[n].ordered /\ r.counter = lists[n].counter + 1
      BY <3>1 DEF Item
    <3>3. l = [lists EXCEPT ![n] = r]
      BY <2>1
    <3> HIDE DEF r, l
    <3>4. l \in Seq(Item) /\ Len(l) = n /\ l[n] = r /\ \A k \in 1..n : k # n => l[k] = lists[k]
      BY <1>2, <3>1, <3>2, <3>3
    <3> QED
      BY <2>1, <3>2, <3>4
  <2>2. CASE ~(lists # << >> /\ lists[n].ordered)
    BY <1>2, <2>2
  <2> QED
    BY <2>1, <2>2
<1>4. /\ t \in [1..ListMax -> Item]
      /\ \A k \in 1..ListMax : k # list_depth => t[k] = list_stack[k]
      /\ list_depth \in 1..ListMax =>
           /\ t[list_depth].ordered = list_stack[list_depth].ordered
           /\ t[list_depth].counter = IF list_stack[list_depth].ordered
                                        THEN list_stack[list_depth].counter + 1
                                        ELSE list_stack[list_depth].counter
  <2>1. CASE Numbered
    <3>1. list_depth \in 1..ListMax /\ list_stack[list_depth].ordered
      BY <2>1 DEF Numbered
    <3> DEFINE r == [list_stack[list_depth] EXCEPT !.counter = @ + 1]
    <3>2. /\ r \in Item /\ r.ordered = list_stack[list_depth].ordered
          /\ r.counter = list_stack[list_depth].counter + 1
      <4>1. PICK s : s = list_stack[list_depth]
        OBVIOUS
      <4>2. s \in Item /\ r = [s EXCEPT !.counter = s.counter + 1]
        BY <1>2, <3>1, <4>1
      <4> HIDE DEF r
      <4>3. r \in Item /\ r.ordered = s.ordered /\ r.counter = s.counter + 1
        BY <4>2 DEF Item
      <4> QED
        BY <4>1, <4>3
    <3>3. t = [list_stack EXCEPT ![list_depth] = r]
      BY <2>1
    <3> HIDE DEF r, t
    <3> QED
      BY <1>2, <3>1, <3>2, <3>3
  <2>2. CASE ~Numbered
    BY <1>2, <2>2 DEF Numbered
  <2> QED
    BY <2>1, <2>2
<1> HIDE DEF t, l
<1>5. ASSUME list_depth = n, NEW k \in 1..n, k <= ListMax
      PROVE  l[k].ordered = t[k].ordered /\ l[k].counter = t[k].counter
  <2>1. k \in 1..ListMax
    BY <1>2, <1>5
  <2>2. lists[k].ordered = list_stack[k].ordered /\ lists[k].counter = list_stack[k].counter
    BY <1>2, <1>5
  <2>3. CASE k = n
    <3>1. list_depth \in 1..ListMax /\ n # 0
      BY <1>5, <2>1, <2>3
    <3>2. /\ l[k].ordered = lists[k].ordered
          /\ l[k].counter = IF lists[k].ordered THEN lists[k].counter + 1 ELSE lists[k].counter
      BY <1>3, <2>3, <3>1
    <3>3. /\ t[k].ordered = list_stack[k].ordered
          /\ t[k].counter = IF list_stack[k].ordered THEN list_stack[k].counter + 1
                            ELSE list_stack[k].counter
      BY <1>4, <1>5, <2>3, <3>1
    <3> QED
      BY <2>2, <3>2, <3>3
  <2>4. CASE k # n
    BY <1>3, <1>4, <1>5, <2>1, <2>2, <2>4
  <2> QED
    BY <2>3, <2>4
<1>6. list_depth \in 0..NestMax
  BY <1>2
<1> QED
  BY <1>1, <1>2, <1>3, <1>4, <1>5, <1>6, ListsHold

LEMMA ListByEnd ==
  ASSUME ListInv, NEW name, EndBlock(name)
  PROVE  ListInv'
<1> DEFINE n == Len(lists)
           d == IF list_depth > 0 THEN list_depth - 1 ELSE 0
           l == IF lists = << >> THEN lists ELSE SubSeq(lists, 1, n - 1)
<1>1. /\ list_depth \in Nat /\ list_depth <= NestMax /\ NestMax \in Nat /\ ListMax \in Nat
      /\ list_stack \in [1..ListMax -> Item] /\ lists \in Seq(Item) /\ n \in Nat
      /\ list_depth <= n
      /\ list_depth = n =>
           \A k \in 1..n : k <= ListMax =>
             lists[k].ordered = list_stack[k].ordered /\ lists[k].counter = list_stack[k].counter
  BY ListsTyped
<1>2. CASE UNCHANGED listVars
  BY <1>2 DEF listVars, ListInv, ItemsAreNumbered
<1>3. CASE list_depth' = d /\ list_stack' = list_stack /\ lists' = l
  <2>1. /\ l \in Seq(Item) /\ Len(l) = (IF n = 0 THEN 0 ELSE n - 1)
        /\ \A k \in 1..Len(l) : k \in 1..n /\ l[k] = lists[k]
    <3>1. CASE lists = << >>
      BY <1>1, <3>1
    <3>2. CASE lists # << >>
      <4>1. l = SubSeq(lists, 1, n - 1) /\ n \in Nat /\ n # 0
        BY <1>1, <3>2
      <4> HIDE DEF l
      <4>2. l = [k \in 1..(n - 1) |-> lists[k]]
        BY <1>1, <4>1
      <4>3. l \in Seq(Item) /\ Len(l) = n - 1
        <5>1. PICK m \in Nat : m = n - 1
          BY <4>1
        <5>2. \A k \in 1..m : lists[k] \in Item
          BY <1>1, <5>1
        <5>3. l = [k \in 1..m |-> lists[k]]
          BY <4>2, <5>1
        <5>4. l \in Seq(Item) /\ Len(l) = m
          BY <5>2, <5>3
        <5> QED
          BY <5>1, <5>4
      <4> QED
        BY <1>1, <4>1, <4>2, <4>3
    <3> QED
      BY <3>1, <3>2
  <2>2. d \in 0..NestMax /\ d <= Len(l) /\ (d = Len(l) /\ d # 0 => list_depth = n)
    BY <1>1, <2>1
  <2>3. ASSUME d = Len(l), NEW k \in 1..Len(l), k <= ListMax
        PROVE  l[k].ordered = list_stack[k].ordered /\ l[k].counter = list_stack[k].counter
    <3>1. list_depth = n
      BY <2>1, <2>2, <2>3
    <3> HIDE DEF l, d
    <3> QED
      BY <1>1, <2>1, <2>3, <3>1
  <2> HIDE DEF d, l
  <2> QED
    BY <1>1, <1>3, <2>1, <2>2, <2>3, ListsHold
<1> QED
  BY <1>2, <1>3 DEF EndBlock, ListPop

(***************************************************************************)
(* Every action keeps the invariant.                                       *)
(***************************************************************************)
LEMMA Holds ==
  ASSUME TextInv, ReadInv', seen.tags \subseteq seen'.tags, BodyStep, TitleStep, QueueStep,
         ListInv' \/ UNCHANGED listVars, LinksTyped' \/ UNCHANGED links,
         DoneInv' \/ feed' # "done"
  PROVE  TextInv'
<1>1. BodyInv' /\ TitleInv' /\ QueueInv'
  BY BodyKept, TitleKept, QueueKept DEF TextInv
<1>2. ListInv'
  BY DEF TextInv, ListInv, ItemsAreNumbered, listVars
<1>3. LinksTyped'
  BY DEF TextInv, LinksTyped
<1>4. DoneInv'
  BY DEF DoneInv
<1> QED
  BY <1>1, <1>2, <1>3, <1>4 DEF TextInv

LEMMA ByEmitByte ==
  ASSUME TextInv, EmitByte
  PROVE  TextInv'
<1>1. /\ queue # << >> /\ queue' = Tail(queue) /\ UNCHANGED <<feed, raw, seen>>
      /\ UNCHANGED <<in_skip, in_pre, in_title, title_seen>>
      /\ UNCHANGED listVars /\ UNCHANGED links
  BY DEF EmitByte, flags, linkVars
<1>2. ReadInv' /\ seen.tags \subseteq seen'.tags
  BY <1>1 DEF TextInv, ReadInv
<1>3. PICK c : c = Head(queue)
  OBVIOUS
<1>4. /\ c \in Byte /\ c # "\n" /\ (seen.tags = {} => c # Space)
      /\ IF in_title THEN c \in {"t", "lead", "cont"} ELSE c \notin {"s", "t"}
  <2>1. queue \in Seq(Byte) /\ c = queue[1] /\ 1 \in 1..Len(queue)
    BY <1>1, <1>3 DEF TextInv, QueueInv
  <2> QED
    BY <2>1 DEF TextInv, QueueInv
<1>5. BodyStep
  BY <1>3, <1>4 DEF EmitByte, BodyStep
<1>6. TitleStep
  BY <1>3, <1>4 DEF EmitByte, TitleStep
<1>7. QueueStep
  BY <1>1 DEF QueueStep
<1>8. feed' # "done"
  BY <1>1 DEF TextInv, QueueInv
<1> QED
  BY <1>1, <1>2, <1>5, <1>6, <1>7, <1>8, Holds

\* A character stands for bytes of the place where it is read.
LEMMA BytesAre ==
  ASSUME NEW c
  PROVE  /\ raw = "title" /\ seen.titles = 1 => Bytes(c) \in Seq({"t", "lead", "cont"})
         /\ raw \notin Skipped /\ ~(raw = "title" /\ seen.titles = 1) => Bytes(c) \in Seq(Solid)
<1>1. "title" \notin Skipped
  BY DEF Skipped
<1>2. Bytes(c) = <<Ink>> \/ Bytes(c) = <<"lead", "cont", "cont">>
  BY DEF Bytes
<1>3. ASSUME NEW S, Ink \in S, "lead" \in S, "cont" \in S PROVE Bytes(c) \in Seq(S)
  <2>1. PICK i : i = Ink
    OBVIOUS
  <2>2. <<i>> \in Seq(S) /\ <<"lead", "cont", "cont">> \in Seq(S)
    BY <1>3, <2>1
  <2>3. Bytes(c) = <<i>> \/ Bytes(c) = <<"lead", "cont", "cont">>
    BY <1>2, <2>1
  <2> QED
    BY <2>2, <2>3
<1>4. ASSUME raw = "title", seen.titles = 1 PROVE Bytes(c) \in Seq({"t", "lead", "cont"})
  <2>1. Ink = "t"
    BY <1>1, <1>4 DEF Ink
  <2>2. Ink \in {"t", "lead", "cont"}
    BY <2>1
  <2> QED
    BY <1>3, <2>2
<1>5. ASSUME raw \notin Skipped, ~(raw = "title" /\ seen.titles = 1) PROVE Bytes(c) \in Seq(Solid)
  <2>1. Ink = "x"
    BY <1>5 DEF Ink
  <2>2. Ink \in Solid /\ "lead" \in Solid /\ "cont" \in Solid
    BY <2>1 DEF Solid
  <2> QED
    BY <1>3, <2>2
<1> QED
  BY <1>4, <1>5

LEMMA ByText ==
  ASSUME TextInv, NEW c \in Visible \cup Blank, Text(c)
  PROVE  TextInv'
<1>1. /\ queue = << >> /\ feed \in {"any", "raw"}
      /\ SkippedText(c) \/ TitleText(c) \/ BodyText(c)
      /\ seen' = [seen EXCEPT !.tokens = @ + 1]
      /\ UNCHANGED <<in_skip, in_pre, in_title, title_seen, feed, raw>>
      /\ UNCHANGED listVars /\ UNCHANGED links
  BY DEF Text, Read, linkVars
<1>2. seen' \in Seen /\ seen'.tags = seen.tags /\ seen'.titles = seen.titles
  BY <1>1 DEF TextInv, ReadInv, Seen
<1>3. ReadInv'
  BY <1>1, <1>2 DEF TextInv, ReadInv
<1>4. feed' # "done"
  BY <1>1
<1>5. /\ in_title => raw = "title" /\ seen.titles = 1
      /\ ~in_skip /\ ~in_title => raw \notin Skipped /\ ~(raw = "title" /\ seen.titles = 1)
  <2>1. raw \in RawText => raw # NoRaw
    BY NamesApart
  <2> QED
    BY <1>1, <2>1, NamesApart DEF TextInv, ReadInv
<1>6. CASE SkippedText(c)
  <2>1. UNCHANGED <<body, whole, title, whole_title, queue>>
    BY <1>6 DEF SkippedText, out
  <2> QED
    BY <1>1, <1>2, <1>3, <1>4, <2>1, Holds DEF BodyStep, TitleStep, QueueStep
<1>7. CASE TitleText(c)
  <2>1. /\ in_title /\ UNCHANGED <<body, whole>>
        /\ \/ /\ title' = [title EXCEPT !.pending_space = TRUE]
              /\ whole_title' = [whole_title EXCEPT !.pending_space = TRUE]
              /\ queue' = << >>
           \/ queue' = Bytes(c) /\ UNCHANGED <<title, whole_title>>
    BY <1>1, <1>7 DEF TitleText
  <2>2. BodyStep /\ TitleStep
    BY <2>1 DEF BodyStep, TitleStep
  <2>3. QueueStep
    BY <1>1, <1>4, <1>5, <2>1, BytesAre DEF QueueStep
  <2> QED
    BY <1>1, <1>2, <1>3, <1>4, <2>2, <2>3, Holds
<1>8. CASE BodyText(c)
  <2>1. /\ ~in_skip /\ ~in_title
        /\ \/ c \in Visible /\ queue' = Bytes(c) /\ UNCHANGED <<body, whole>>
           \/ c \notin Visible /\ in_pre /\ c # Nbsp /\ PreBlank(c)
           \/ /\ c \notin Visible /\ body' = BodySpace(body) /\ whole' = BodySpace(whole)
              /\ UNCHANGED queue
        /\ UNCHANGED <<title, whole_title>>
    BY <1>8, BodyTextIs
  <2>2. TitleStep
    BY <2>1 DEF TitleStep
  <2>3. CASE queue' = Bytes(c) /\ UNCHANGED <<body, whole>>
    <3>1. queue' \in Seq(Solid) /\ ~in_title'
      BY <1>1, <1>5, <2>1, <2>3, BytesAre
    <3>2. QueueStep /\ BodyStep
      BY <1>4, <2>3, <3>1 DEF QueueStep, BodyStep
    <3> QED
      BY <1>1, <1>2, <1>3, <1>4, <2>2, <3>2, Holds
  <2>4. CASE c \notin Visible /\ in_pre /\ c # Nbsp /\ PreBlank(c)
    <3>1. c \in Byte /\ c \notin {"s", "t"}
      BY <2>4, BlankBytes
    <3>2. seen.tags # {}
      BY <2>4 DEF TextInv, ReadInv
    <3>3. QueueStep /\ BodyStep
      BY <1>1, <2>4, <3>1, <3>2 DEF PreBlank, QueueStep, BodyStep
    <3> QED
      BY <1>1, <1>2, <1>3, <1>4, <2>2, <3>3, Holds
  <2>5. CASE body' = BodySpace(body) /\ whole' = BodySpace(whole) /\ UNCHANGED queue
    <3>1. QueueStep /\ BodyStep
      BY <1>1, <2>5 DEF QueueStep, BodyStep
    <3> QED
      BY <1>1, <1>2, <1>3, <1>4, <2>2, <3>1, Holds
  <2> QED
    BY <2>1, <2>3, <2>4, <2>5
<1> QED
  BY <1>1, <1>6, <1>7, <1>8

LEMMA ByStart ==
  ASSUME TextInv, NEW name \in Known, NEW self_closing \in BOOLEAN, NEW unclosed \in BOOLEAN, NEW href,
         Start(name, self_closing, href, unclosed)
  PROVE  TextInv'
<1>1. /\ queue = << >> /\ feed = "any" /\ UNCHANGED links
      /\ \/ ~self_closing /\ (StartSkip(name) \/ StartTitle(name))
         \/ StartAnchor(name, href)
         \/ StartBlock(name, self_closing)
         \/ StartOther(name, self_closing)
      /\ feed' \in {"any", "raw", "end"}
  BY DEF Start, Read
<1>2. ReadInv' /\ seen.tags \subseteq seen'.tags
  BY ReadByStart DEF TextInv
<1>3. feed' # "done"
  BY <1>1
<1>4. CASE StartSkip(name) \/ StartTitle(name) \/ StartAnchor(name, href) \/ StartOther(name, self_closing)
  <2>1. UNCHANGED <<body, whole, title, whole_title, queue>> /\ UNCHANGED listVars
    BY <1>4 DEF StartSkip, StartTitle, StartAnchor, StartOther, out
  <2> QED
    BY <1>1, <1>2, <1>3, <2>1, Holds DEF BodyStep, TitleStep, QueueStep
<1>5. CASE StartBlock(name, self_closing)
  <2>1. /\ name \in Block /\ UNCHANGED <<title, whole_title, in_title>>
        /\ body' = BodyFlushBlock(body) /\ whole' = BodyFlushBlock(whole)
        /\ StartPre(name) \/ StartList(name) \/ StartItem(name) \/ UNCHANGED <<queue, listVars>>
    BY <1>5 DEF StartBlock, Flushed
  <2>2. BodyStep /\ TitleStep
    BY <2>1 DEF BodyStep, TitleStep
  <2>3. CASE StartPre(name) \/ UNCHANGED <<queue, listVars>>
    <3>1. QueueStep /\ UNCHANGED listVars
      BY <1>1, <2>3 DEF StartPre, QueueStep, listVars
    <3> QED
      BY <1>1, <1>2, <1>3, <2>2, <3>1, Holds
  <2>4. CASE StartList(name)
    <3>1. QueueStep
      BY <1>1, <2>4 DEF StartList, QueueStep
    <3>2. ListInv'
      BY <2>4, ListByStart DEF TextInv
    <3> QED
      BY <1>1, <1>2, <1>3, <2>2, <3>1, <3>2, Holds
  <2>5. CASE StartItem(name)
    <3>1. ListInv' /\ ListInv
      BY <2>5, ListByItem DEF TextInv
    <3>2. list_depth \in Nat /\ (Numbered => list_stack[list_depth].counter + 1 \in Nat)
      BY <3>1, ListsTyped DEF Numbered, Item
    <3>3. queue' \in Seq(Loose)
      <4>1. queue' \in Seq(Bullet)
        BY <2>5, <3>2, ItemIs, ItemBytes
      <4> QED
        BY <4>1, BulletBytes
    <3>4. seen'.tags # {} /\ ~in_title'
      <4>1. name = "li"
        BY <2>5, ItemIs
      <4>2. ~in_title'
        BY <1>1, <2>1 DEF TextInv, ReadInv
      <4>3. seen'.tags = seen.tags \cup ({name} \cap {"pre", "li"})
        <5>1. seen \in Seen
          BY DEF TextInv, ReadInv
        <5>2. seen' = [seen EXCEPT !.tokens = @ + 1, !.tags = @ \cup ({name} \cap {"pre", "li"}),
                         !.titles = @ + (IF name = "title" /\ ~self_closing THEN 1 ELSE 0)]
          BY DEF Start
        <5> QED
          BY <5>1, <5>2 DEF Seen
      <4> QED
        BY <4>1, <4>2, <4>3
    <3>5. QueueStep
      BY <1>3, <3>3, <3>4 DEF QueueStep
    <3> QED
      BY <1>1, <1>2, <1>3, <2>2, <3>1, <3>5, Holds
  <2> QED
    BY <2>1, <2>3, <2>4, <2>5
<1> QED
  BY <1>1, <1>4, <1>5

\* A sequence is one of its own elements.
LEMMA OwnElements ==
  ASSUME NEW S, NEW s \in Seq(S)
  PROVE  s \in Seq({s[i] : i \in DOMAIN s})
<1>1. s \in [1..Len(s) -> S] /\ Len(s) \in Nat /\ DOMAIN s = 1..Len(s)
  OBVIOUS
<1> DEFINE T == {s[i] : i \in DOMAIN s}
<1>2. \A i \in 1..Len(s) : s[i] \in T
  BY <1>1
<1> HIDE DEF T
<1>3. s \in [1..Len(s) -> T]
  BY <1>1, <1>2
<1>4. s \in Seq(T)
  BY <1>1, <1>3
<1> QED
  BY <1>4 DEF T

LEMMA ByEnd ==
  ASSUME TextInv, NEW name \in Known, NEW unclosed \in BOOLEAN, End(name, unclosed)
  PROVE  TextInv'
<1>1. /\ queue = << >> /\ (feed = "any" \/ (feed = "raw" /\ name = raw))
      /\ EndSkip(name) \/ EndTitle(name) \/ EndAnchor(name) \/ EndBlock(name) \/ EndOther(name)
      /\ feed' \in {"any", "end"}
  BY EndIs DEF Read
<1>2. ReadInv' /\ seen.tags \subseteq seen'.tags
  BY ReadByEnd DEF TextInv
<1>3. feed' # "done"
  BY <1>1
<1>4. CASE EndSkip(name) \/ EndTitle(name) \/ EndOther(name)
  <2>1. UNCHANGED <<body, whole, title, whole_title, queue>> /\ UNCHANGED listVars /\ UNCHANGED links
    BY <1>4 DEF EndSkip, EndTitle, EndOther, out, linkVars
  <2> QED
    BY <1>1, <1>2, <1>3, <2>1, Holds DEF BodyStep, TitleStep, QueueStep
<1>5. CASE EndAnchor(name)
  <2>1. /\ name = "a" /\ UNCHANGED <<body, whole, title, whole_title, in_title>> /\ UNCHANGED listVars
        /\ \/ /\ \E r : links' = Append(links, r)
              /\ queue' = Mark(Len(links) + 1)
           \/ UNCHANGED <<links, queue>>
    BY <1>5 DEF EndAnchor, out, flags
  <2>2. BodyStep /\ TitleStep
    BY <2>1 DEF BodyStep, TitleStep
  <2>3. ~in_title'
    <3>1. raw \in RawText => name # raw
      BY <2>1, NamesApart
    <3> QED
      BY <1>1, <2>1, <3>1 DEF TextInv, ReadInv
  <2>4. links \in Seq({links[i] : i \in DOMAIN links}) /\ Len(links) \in Nat
    BY DEF TextInv, LinksTyped
  <2>5. CASE UNCHANGED <<links, queue>>
    <3>1. QueueStep
      BY <1>1, <2>5 DEF QueueStep
    <3> QED
      BY <1>2, <1>3, <2>1, <2>2, <2>5, <3>1, Holds
  <2>6. ASSUME NEW r, links' = Append(links, r), queue' = Mark(Len(links) + 1) PROVE TextInv'
    <3>1. QueueStep
      BY <1>3, <2>3, <2>4, <2>6, MarkIs DEF QueueStep
    <3>2. LinksTyped'
      <4>1. PICK T : T = {links[i] : i \in DOMAIN links} \cup {r}
        OBVIOUS
      <4>2. links \in Seq(T) /\ r \in T
        BY <2>4, <4>1
      <4>3. links' \in Seq(T)
        BY <2>6, <4>2
      <4>4. PICK s : s = links'
        OBVIOUS
      <4>5. s \in Seq({s[i] : i \in DOMAIN s})
        BY <4>3, <4>4, OwnElements
      <4> QED
        BY <4>4, <4>5 DEF LinksTyped
    <3> QED
      BY <1>2, <1>3, <2>1, <2>2, <3>1, <3>2, Holds
  <2> QED
    BY <2>1, <2>5, <2>6
<1>6. CASE EndBlock(name)
  <2>1. /\ UNCHANGED <<title, whole_title, queue>> /\ UNCHANGED links
        /\ body' = BodyFlushBlock(body) /\ whole' = BodyFlushBlock(whole)
    BY <1>6 DEF EndBlock, Flushed, linkVars
  <2>2. BodyStep /\ TitleStep /\ QueueStep
    BY <1>1, <2>1 DEF BodyStep, TitleStep, QueueStep
  <2>3. ListInv'
    BY <1>6, ListByEnd DEF TextInv
  <2> QED
    BY <1>2, <1>3, <2>1, <2>2, <2>3, Holds
<1> QED
  BY <1>1, <1>4, <1>5, <1>6

LEMMA ByComment ==
  ASSUME TextInv, UnclosedComment
  PROVE  TextInv'
<1>1. /\ queue = << >> /\ feed' = "end" /\ UNCHANGED raw
      /\ UNCHANGED <<body, whole, title, whole_title, queue, seen>>
      /\ UNCHANGED <<in_skip, in_pre, in_title, title_seen>>
      /\ UNCHANGED listVars /\ UNCHANGED links
  BY DEF UnclosedComment, Read, out, flags, linkVars
<1>2. ReadInv' /\ seen.tags \subseteq seen'.tags
  BY <1>1 DEF TextInv, ReadInv
<1>3. BodyStep /\ TitleStep /\ QueueStep /\ feed' # "done"
  BY <1>1 DEF BodyStep, TitleStep, QueueStep
<1> QED
  BY <1>1, <1>2, <1>3, Holds

LEMMA ByFinish ==
  ASSUME TextInv, Finish
  PROVE  TextInv'
<1>1. /\ queue = << >> /\ feed' = "done" /\ UNCHANGED raw /\ truncated' = Truncated
      /\ UNCHANGED <<body, whole, title, whole_title, queue, seen>>
      /\ UNCHANGED <<in_skip, in_pre, in_title, title_seen>>
      /\ UNCHANGED listVars /\ UNCHANGED links
      /\ \E more \in SUBSET {"OUTPUT_TRUNCATED", "TITLE_TRUNCATED"} : warnings' = warnings \cup more
  BY DEF Finish, out, flags, linkVars, Warned
<1>2. ReadInv' /\ seen.tags \subseteq seen'.tags
  BY <1>1 DEF TextInv, ReadInv
<1>3. BodyStep /\ TitleStep /\ QueueStep
  BY <1>1 DEF BodyStep, TitleStep, QueueStep
<1>4. DoneInv'
  <2>1. {"INPUT_TRUNCATED", "LINK_BUDGET"} \cap warnings' = {"INPUT_TRUNCATED", "LINK_BUDGET"} \cap warnings
    BY <1>1
  <2>2. Truncated' = Truncated
    BY <1>1, <2>1 DEF Truncated
  <2> QED
    BY <1>1, <2>2 DEF DoneInv
<1> QED
  BY <1>1, <1>2, <1>3, <1>4, Holds

LEMMA ByStutter ==
  ASSUME TextInv, UNCHANGED vars
  PROVE  TextInv'
BY DEF TextInv, vars, out, flags, listVars, linkVars, ReadInv, QueueInv, BodyInv, TitleInv, ListInv,
       ItemsAreNumbered, LinksTyped, DoneInv, Truncated

LEMMA AtFirst == Init => TextInv
<1> SUFFICES ASSUME Init PROVE TextInv
  OBVIOUS
<1>1. /\ body = EmptyLine /\ whole = [EmptyLine EXCEPT !.bounded = FALSE]
      /\ title = EmptyTitle /\ whole_title = EmptyTitle
      /\ queue = << >> /\ ~in_skip /\ ~in_pre /\ ~in_title /\ ~title_seen
      /\ in_skip \in BOOLEAN /\ in_pre \in BOOLEAN /\ in_title \in BOOLEAN /\ title_seen \in BOOLEAN
      /\ list_depth = 0 /\ list_stack = [k \in 1..ListMax |-> [ordered |-> FALSE, counter |-> 0]]
      /\ lists = << >> /\ links = << >> /\ feed = "any" /\ raw = NoRaw
      /\ seen \in {[of |-> d, tokens |-> 0, titles |-> 0, tags |-> {}] : d \in Documents}
  BY Zenon DEF Init, NoRaw
<1>2. ReadInv
  <2>1. seen \in Seen /\ seen.titles = 0 /\ seen.tags = {}
    BY <1>1 DEF Seen
  <2> QED
    BY <1>1, <2>1 DEF ReadInv
<1>3. QueueInv
  BY <1>1 DEF QueueInv
<1>4. BodyInv
  <2>1. /\ body \in Line /\ whole \in Line /\ body.bounded /\ ~whole.bounded
        /\ body.buf = << >> /\ whole.buf = << >> /\ ~body.cut /\ ~whole.cut
        /\ SameLine(body, whole) /\ ~body.line_has_content /\ ~whole.line_has_content
        /\ ~whole.pending_newline
    <3>1. << >> \in Seq(Byte)
      OBVIOUS
    <3>2. /\ body \in Line /\ body.bounded = TRUE /\ body.buf = << >> /\ body.cut = FALSE
          /\ body.line_has_content = FALSE /\ body.pending_space = FALSE
          /\ body.pending_newline = FALSE
      BY <1>1, <3>1 DEF EmptyLine, Line
    <3>3. whole = [body EXCEPT !.bounded = FALSE]
      BY <1>1
    <3>4. /\ whole \in Line /\ whole.bounded = FALSE /\ whole.buf = << >> /\ whole.cut = FALSE
          /\ whole.line_has_content = FALSE /\ whole.pending_space = FALSE
          /\ whole.pending_newline = FALSE
      BY <3>2, <3>3 DEF Line
    <3> QED
      BY <3>2, <3>4 DEF SameLine
  <2>2. Pair(body, whole)
    BY <2>1, TextConstants DEF Pair
  <2>3. Tracked(body) /\ Tracked(whole) /\ Plain(whole.buf)
    BY <2>1 DEF Tracked, Plain
  <2>4. Trimmed(whole)
    BY <2>1, CollapsedIs DEF Trimmed
  <2> QED
    BY <2>2, <2>3, <2>4 DEF BodyInv
<1>5. TitleInv
  <2>1. title \in TitleRec /\ whole_title = title /\ ~title.cut /\ title.text = << >>
    BY <1>1 DEF EmptyTitle, TitleRec
  <2> QED
    BY <2>1, TextConstants DEF TitleInv, TitlePair, Titled
<1>6. ListInv
  <2>1. list_stack \in [1..ListMax -> Item] /\ lists \in Seq(Item) /\ Len(lists) = 0
    BY <1>1 DEF Item
  <2> QED
    BY <1>1, <2>1, TextConstants DEF ListInv, ItemsAreNumbered, Least
<1>7. LinksTyped
  BY <1>1 DEF LinksTyped
<1>8. DoneInv
  BY <1>1 DEF DoneInv
<1> QED
  BY <1>2, <1>3, <1>4, <1>5, <1>6, <1>7, <1>8 DEF TextInv

LEMMA EveryStep == TextInv /\ [Next]_vars => TextInv'
<1> SUFFICES ASSUME TextInv, [Next]_vars PROVE TextInv'
  OBVIOUS
<1>1. seen \in Seen
  BY DEF TextInv, ReadInv
<1>2. CASE EmitByte
  BY <1>2, ByEmitByte
<1>3. ASSUME NEW c \in seen.of.characters, Text(c) PROVE TextInv'
  BY <1>1, <1>3, SeenTyped, ByText
<1>4. ASSUME NEW name \in seen.of.tags, NEW self_closing \in BOOLEAN, NEW unclosed \in BOOLEAN,
             NEW href, Start(name, self_closing, href, unclosed)
      PROVE  TextInv'
  BY <1>1, <1>4, SeenTyped, ByStart
<1>5. ASSUME NEW name \in seen.of.tags, NEW unclosed \in BOOLEAN, End(name, unclosed) PROVE TextInv'
  BY <1>1, <1>5, SeenTyped, ByEnd
<1>6. CASE UnclosedComment
  BY <1>6, ByComment
<1>7. CASE Finish
  BY <1>7, ByFinish
<1>8. CASE UNCHANGED vars
  BY <1>8, ByStutter
<1> QED
  BY <1>2, <1>3, <1>4, <1>5, <1>6, <1>7, <1>8 DEF Next, Token, Rendered

LEMMA TextInvariant == Spec => []TextInv
<1> QED
  BY AtFirst, EveryStep, PTL DEF Spec

LEMMA InvCuts == TextInv => CutsAreClean
<1> SUFFICES ASSUME TextInv PROVE CutsAreClean
  OBVIOUS
<1>1. Pair(body, whole) /\ TitlePair(title, whole_title)
  BY DEF TextInv, BodyInv, TitleInv
<1>2. /\ Len(body.buf) <= (IF Cap = 0 THEN 0 ELSE Cap - 1)
      /\ IsPrefix(body.buf, whole.buf)
      /\ ~body.cut => body = [whole EXCEPT !.bounded = TRUE]
  BY <1>1, PairSays
<1>3. /\ Len(title.text) <= TitleMax
      /\ IsPrefix(title.text, whole_title.text)
      /\ ~title.cut => title = whole_title
  <2>1. title.text \in Seq(Byte)
    BY <1>1 DEF TitlePair, TitleRec
  <2>2. IsPrefix(title.text, title.text)
    BY <2>1, PrefixIs
  <2> QED
    BY <1>1, <2>2 DEF TitlePair
<1>4. feed = "done" /\ ~truncated =>
        ~body.cut /\ ~title.cut /\ {"LINK_BUDGET", "INPUT_TRUNCATED"} \cap warnings = {}
  BY DEF TextInv, DoneInv, Truncated
<1> QED
  BY <1>2, <1>3, <1>4 DEF CutsAreClean

LEMMA InvPlain == TextInv => PlainTextCollapses
<1> SUFFICES ASSUME TextInv PROVE PlainTextCollapses
  OBVIOUS
<1>1. Tracked(body) /\ Tracked(whole) /\ (seen.tags = {} => Collapsed(whole.buf))
  BY DEF TextInv, BodyInv, Trimmed
<1>2. LineIsTracked
  BY <1>1 DEF LineIsTracked, Tracked
<1> QED
  BY <1>1, <1>2 DEF PlainTextCollapses

LEMMA InvRaw == TextInv => RawTextInPlace
<1> SUFFICES ASSUME TextInv PROVE RawTextInPlace
  OBVIOUS
<1>1. Plain(whole.buf) /\ Titled(whole_title.text)
  BY DEF TextInv, BodyInv, TitleInv
<1> QED
  BY <1>1, Zenon DEF RawTextInPlace, Plain, Titled, Space

\* However small the caller's buffer and whatever the document, the text is cut
\* off at its end and nowhere else, and a view that is not marked truncated has
\* all of the text, the whole title and every link (out_raw_byte, body_emit_char,
\* body_emit_pre_byte, title_emit_char and the end of capy_html_to_text).
THEOREM CutsSafe == Spec => []CutsAreClean
<1> QED
  BY TextInvariant, InvCuts, PTL

\* Blanks collapse to one and lines are trimmed in every document with no <pre>
\* and no list item, whatever its tags and in whatever order they come; the
\* flags of the line are right in every document (body_space, body_flush_block).
THEOREM PlainSafe == Spec => []PlainTextCollapses
<1> QED
  BY TextInvariant, InvPlain, PTL

\* The counters of the ordered lists are what the items read make them, for any
\* nesting, any end tags too many, and any two bounds on the depth
\* (list_push, list_pop, emit_list_marker).
THEOREM NumbersSafe == Spec => []ItemsAreNumbered
<1>1. TextInv => ItemsAreNumbered
  BY DEF TextInv, ListInv
<1> QED
  BY <1>1, TextInvariant, PTL

\* No byte of a script, of a style sheet or of the first title is in the text,
\* and the title has no other (in_skip, in_title and title_seen in handle_start,
\* handle_end and handle_text).
THEOREM RawSafe == Spec => []RawTextInPlace
<1> QED
  BY TextInvariant, InvRaw, PTL


(***************************************************************************)
(* Sequences of whole characters, and the labels read out of them.         *)
(***************************************************************************)
Chars(s) ==
  \A i \in 1..Len(s) :
    /\ s[i] = "lead" => i + 2 <= Len(s) /\ s[i + 1] = "cont" /\ s[i + 2] = "cont"
    /\ s[i] = "cont" => i > 1 /\ s[i - 1] \in {"lead", "cont"}

LEMMA SubIs ==
  ASSUME NEW S, NEW s \in Seq(S), NEW i \in Nat, NEW j \in 0..Len(s), i >= 1
  PROVE  LET t == SubSeq(s, i, j) IN
         /\ t \in Seq(S)
         /\ Len(t) = IF i <= j THEN (j - i) + 1 ELSE 0
         /\ \A k \in 1..Len(t) : t[k] = s[(i + k) - 1] /\ (i + k) - 1 \in i..j
OBVIOUS

LEMMA SubJoin ==
  ASSUME NEW s \in Seq(Byte), NEW e \in Seq(Byte), NEW i \in Nat, i >= 1, NEW j \in 0..Len(s)
  PROVE  SubSeq(s \o e, i, j) = SubSeq(s, i, j)
OBVIOUS

LEMMA SubAppends ==
  ASSUME NEW s \in Seq(Byte), NEW c \in Byte, NEW i \in 1..(Len(s) + 1)
  PROVE  SubSeq(Append(s, c), i, Len(s) + 1) = Append(SubSeq(s, i, Len(s)), c)
OBVIOUS

Printed(s) == {i \in 1..Len(s) : s[i] # Space}

LEMMA MaxOf ==
  ASSUME NEW T \in SUBSET Nat, NEW m \in T, \A i \in T : i <= m
  PROVE  Max(T) = m
<1> DEFINE top(x) == x \in T /\ \A y \in T : x >= y
<1>1. top(m)
  OBVIOUS
<1>2. \A x \in T : top(x) => x = m
  OBVIOUS
<1>3. PICK x : x = CHOOSE x0 \in T : \A y \in T : x0 >= y
  OBVIOUS
<1>4. x \in T /\ \A y \in T : x >= y
  BY <1>1, <1>3
<1> QED
  BY <1>2, <1>3, <1>4 DEF Max

LEMMA MinOf ==
  ASSUME NEW T \in SUBSET Nat, NEW m \in T, \A i \in T : m <= i
  PROVE  Min(T) = m
<1>2. \A x \in T : (\A y \in T : x <= y) => x = m
  OBVIOUS
<1>3. PICK x : x = CHOOSE x0 \in T : \A y \in T : x0 <= y
  OBVIOUS
<1>4. x \in T /\ \A y \in T : x <= y
  BY <1>3
<1> QED
  BY <1>2, <1>3, <1>4 DEF Min

\* A label is trimmed to the bytes from the first to the last that is no space.
LEMMA TrimIs ==
  ASSUME NEW s \in Seq(Byte)
  PROVE  \/ Printed(s) = {} /\ Trim(s) = << >>
         \/ \E a, b \in 1..Len(s) :
              /\ a <= b /\ s[a] # Space /\ s[b] # Space
              /\ \A i \in 1..Len(s) : i < a \/ i > b => s[i] = Space
              /\ Trim(s) = SubSeq(s, a, b)
<1>1. Trim(s) = IF Printed(s) = {} THEN << >> ELSE SubSeq(s, Min(Printed(s)), Max(Printed(s)))
  BY Zenon DEF Trim, Printed, Space
<1>2. CASE Printed(s) = {}
  BY <1>1, <1>2
<1>3. CASE Printed(s) # {}
  <2> DEFINE T == Printed(s)
  <2>1. T \in SUBSET Nat /\ (\A i \in T : i <= Len(s)) /\ Len(s) \in Nat
    BY DEF Printed
  <2>2. PICK a \in T : \A i \in T : a <= i
    <3> HIDE DEF T
    <3> QED
      BY <1>3, <2>1, Smallest DEF T
  <2>3. PICK b \in T : \A i \in T : i <= b
    <3> HIDE DEF T
    <3> QED
      BY <1>3, <2>1, Greatest DEF T
  <2>4. Min(T) = a /\ Max(T) = b
    <3> HIDE DEF T
    <3> QED
      BY <2>1, <2>2, <2>3, MinOf, MaxOf
  <2>5. a \in 1..Len(s) /\ b \in 1..Len(s) /\ a <= b /\ s[a] # Space /\ s[b] # Space
    BY <2>2, <2>3 DEF Printed
  <2>6. \A i \in 1..Len(s) : i < a \/ i > b => s[i] = Space
    BY <2>2, <2>3, <2>5 DEF Printed
  <2>7. Trim(s) = SubSeq(s, a, b)
    BY <1>1, <1>3, <2>4
  <2> QED
    BY <2>5, <2>6, <2>7
<1> QED
  BY <1>2, <1>3

LEMMA TrimBytes ==
  ASSUME NEW s \in Seq(Byte)
  PROVE  Trim(s) \in Seq(Byte)
<1>1. CASE Trim(s) = << >>
  BY <1>1
<1>2. ASSUME NEW a \in 1..Len(s), NEW b \in 1..Len(s), Trim(s) = SubSeq(s, a, b) PROVE Trim(s) \in Seq(Byte)
  <2>1. SubSeq(s, a, b) \in Seq(Byte)
    BY SubIs
  <2> QED
    BY <1>2, <2>1
<1> QED
  BY <1>1, <1>2, TrimIs

LEMMA TrimSpace ==
  ASSUME NEW s \in Seq(Byte), NEW t \in Seq(Byte), t = Append(s, Space)
  PROVE  Trim(t) = Trim(s)
<1>1. Len(t) = Len(s) + 1 /\ Len(s) \in Nat /\ t[Len(t)] = Space /\ \A i \in 1..Len(s) : t[i] = s[i]
  OBVIOUS
<1>2. Printed(t) = Printed(s)
  BY <1>1 DEF Printed
<1>3. CASE Printed(s) = {}
  BY <1>2, <1>3, Zenon DEF Trim, Printed, Space
<1>4. CASE Printed(s) # {}
  <2>1. PICK a, b \in 1..Len(t) : /\ a <= b /\ t[a] # Space /\ t[b] # Space
                                  /\ \A i \in 1..Len(t) : i < a \/ i > b => t[i] = Space
                                  /\ Trim(t) = SubSeq(t, a, b)
    BY <1>2, <1>4, TrimIs
  <2>2. PICK c, d \in 1..Len(s) : /\ c <= d /\ s[c] # Space /\ s[d] # Space
                                  /\ \A i \in 1..Len(s) : i < c \/ i > d => s[i] = Space
                                  /\ Trim(s) = SubSeq(s, c, d)
    BY <1>4, TrimIs
  <2>3. a \in 1..Len(s) /\ b \in 1..Len(s)
    <3>1. a # Len(t) /\ b # Len(t)
      BY <1>1, <2>1, Zenon
    <3>2. \A n \in Nat : \A i \in 1..(n + 1) : i # n + 1 => i \in 1..n
      OBVIOUS
    <3>3. Len(t) = Len(s) + 1 /\ Len(s) \in Nat
      BY <1>1
    <3> QED
      BY <3>1, <3>2, <3>3, Zenon
  <2>4. a = c /\ b = d
    BY <1>1, <2>1, <2>2, <2>3
  <2>5. SubSeq(t, a, b) = SubSeq(s, a, b)
    <3>1. t = s \o <<Space>> /\ <<Space>> \in Seq(Byte)
      BY DEF Byte, Gap
    <3> QED
      BY <2>3, <3>1, SubJoin
  <2> QED
    BY <2>1, <2>2, <2>4, <2>5
<1> QED
  BY <1>3, <1>4

LEMMA TrimChars ==
  ASSUME NEW s \in Seq(Byte), Chars(s)
  PROVE  Chars(Trim(s))
<1>0. Space # "cont" /\ Space # "lead"
  BY Zenon DEF Space
<1>1. CASE Trim(s) = << >>
  BY <1>1 DEF Chars
<1>2. ASSUME NEW a \in 1..Len(s), NEW b \in 1..Len(s), a <= b, s[a] # Space, s[b] # Space,
             \A i \in 1..Len(s) : i < a \/ i > b => s[i] = Space, Trim(s) = SubSeq(s, a, b)
      PROVE  Chars(Trim(s))
  <2>1. PICK t : t = Trim(s)
    OBVIOUS
  <2>2. /\ t \in Seq(Byte) /\ Len(t) = (b - a) + 1
        /\ \A k \in 1..Len(t) : t[k] = s[(a + k) - 1] /\ (a + k) - 1 \in a..b
    BY <1>2, <2>1, SubIs
  <2>3. ASSUME NEW i \in 1..Len(t), t[i] = "lead"
        PROVE  i + 2 <= Len(t) /\ t[i + 1] = "cont" /\ t[i + 2] = "cont"
    <3>1. PICK j \in 1..Len(s) : j = (a + i) - 1 /\ s[j] = "lead"
      BY <2>2, <2>3
    <3>2. j + 2 <= Len(s) /\ s[j + 1] = "cont" /\ s[j + 2] = "cont"
      BY <3>1 DEF Chars
    <3>3. j + 2 \in 1..Len(s)
      BY <3>1, <3>2
    <3>4. j + 2 <= b
      BY <1>0, <1>2, <3>1, <3>2, <3>3
    <3>5. i + 1 \in 1..Len(t) /\ i + 2 \in 1..Len(t)
      BY <2>2, <3>1, <3>4
    <3>6. (a + (i + 1)) - 1 = j + 1 /\ (a + (i + 2)) - 1 = j + 2
      BY <3>1
    <3> QED
      BY <2>2, <3>2, <3>5, <3>6
  <2>4. ASSUME NEW i \in 1..Len(t), t[i] = "cont"
        PROVE  i > 1 /\ t[i - 1] \in {"lead", "cont"}
    <3>1. PICK j \in 1..Len(s) : j = (a + i) - 1 /\ s[j] = "cont"
      BY <2>2, <2>4
    <3>2. j > 1 /\ s[j - 1] \in {"lead", "cont"}
      BY <3>1 DEF Chars
    <3>3. j - 1 \in 1..Len(s)
      BY <3>1, <3>2
    <3>4. j - 1 >= a
      BY <1>0, <1>2, <3>1, <3>2, <3>3
    <3>5. i - 1 \in 1..Len(t) /\ (a + (i - 1)) - 1 = j - 1
      BY <2>2, <3>1, <3>4
    <3> QED
      BY <2>2, <3>2, <3>5
  <2>5. Chars(t)
    BY <2>3, <2>4 DEF Chars
  <2> QED
    BY <2>1, <2>5
<1> QED
  BY <1>1, <1>2, TrimIs

\* A suffix that does not begin inside a character.
LEMMA SuffixChars ==
  ASSUME NEW s \in Seq(Byte), Chars(s), NEW a \in 0..Len(s), a < Len(s) => s[a + 1] # "cont"
  PROVE  SubSeq(s, a + 1, Len(s)) \in Seq(Byte) /\ Chars(SubSeq(s, a + 1, Len(s)))
<1>1. PICK t : t = SubSeq(s, a + 1, Len(s))
  OBVIOUS
<1>2. /\ t \in Seq(Byte) /\ Len(t) = Len(s) - a /\ Len(s) \in Nat
      /\ \A k \in 1..Len(t) : t[k] = s[a + k] /\ a + k \in 1..Len(s)
  <2>1. a + 1 \in Nat /\ a + 1 >= 1 /\ Len(s) \in 0..Len(s)
    OBVIOUS
  <2>2. /\ t \in Seq(Byte) /\ Len(t) = IF a + 1 <= Len(s) THEN (Len(s) - (a + 1)) + 1 ELSE 0
        /\ \A k \in 1..Len(t) : t[k] = s[((a + 1) + k) - 1] /\ ((a + 1) + k) - 1 \in (a + 1)..Len(s)
    BY <1>1, <2>1, SubIs
  <2>3. \A k \in Nat : ((a + 1) + k) - 1 = a + k
    OBVIOUS
  <2> QED
    BY <2>2, <2>3
<1>3. ASSUME NEW i \in 1..Len(t), t[i] = "lead"
      PROVE  i + 2 <= Len(t) /\ t[i + 1] = "cont" /\ t[i + 2] = "cont"
  <2>1. s[a + i] = "lead" /\ a + i \in 1..Len(s)
    BY <1>2, <1>3
  <2>2. (a + i) + 2 <= Len(s) /\ s[(a + i) + 1] = "cont" /\ s[(a + i) + 2] = "cont"
    BY <2>1 DEF Chars
  <2>3. /\ i + 1 \in 1..Len(t) /\ i + 2 \in 1..Len(t)
        /\ (a + i) + 1 = a + (i + 1) /\ (a + i) + 2 = a + (i + 2)
    BY <1>2, <2>2
  <2> QED
    BY <1>2, <2>2, <2>3
<1>4. ASSUME NEW i \in 1..Len(t), t[i] = "cont"
      PROVE  i > 1 /\ t[i - 1] \in {"lead", "cont"}
  <2>1. s[a + i] = "cont" /\ a + i \in 1..Len(s)
    BY <1>2, <1>4
  <2>2. s[(a + i) - 1] \in {"lead", "cont"}
    BY <2>1 DEF Chars
  <2>3. i # 1
    BY <1>2, <2>1
  <2>4. i - 1 \in 1..Len(t) /\ (a + i) - 1 = a + (i - 1)
    BY <2>3
  <2> QED
    BY <1>2, <2>2, <2>3, <2>4
<1> QED
  BY <1>1, <1>2, <1>3, <1>4 DEF Chars

\* A long label is cut behind a whole character.
LEMMA CutIs ==
  ASSUME NEW s \in Seq(Byte), Chars(s)
  PROVE  /\ CutLabel(s) \in Seq(Byte) /\ Chars(CutLabel(s))
         /\ CutLabel(s) = s \/ (Len(s) > LabelMax /\ IsPrefix(CutLabel(s), s))
<1>0. LabelMax \in Nat /\ Len(s) \in Nat
  BY TextConstants
<1>1. CASE Len(s) <= LabelMax
  BY <1>1 DEF CutLabel
<1>2. CASE Len(s) > LabelMax
  <2> DEFINE T == {0} \cup {n \in 1..LabelMax : s[n + 1] # "cont"}
  <2>1. T \in SUBSET Nat /\ T # {} /\ \A n \in T : n <= LabelMax
    BY <1>0
  <2>2. PICK m \in T : \A n \in T : n <= m
    <3> HIDE DEF T
    <3> QED
      BY <1>0, <2>1, Greatest
  <2>3. CutLabel(s) = SubSeq(s, 1, m)
    <3>1. Max(T) = m
      <4> HIDE DEF T
      <4> QED
        BY <2>1, <2>2, MaxOf
    <3>2. CutLabel(s) = SubSeq(s, 1, Max(T))
      <4>1. ~(Len(s) <= LabelMax)
        BY <1>0, <1>2
      <4> QED
        BY <4>1, Zenon DEF CutLabel
    <3> QED
      BY <3>1, <3>2
  <2>4. m \in 0..Len(s) /\ m < Len(s) /\ (m # 0 => s[m + 1] # "cont")
    BY <1>0, <1>2, <2>1, <2>2
  <2>5. PICK t : t = SubSeq(s, 1, m)
    OBVIOUS
  <2> HIDE DEF T
  <2>6. /\ t \in Seq(Byte) /\ Len(t) = m /\ \A k \in 1..Len(t) : t[k] = s[k] /\ k \in 1..Len(s)
    <3>1. /\ t \in Seq(Byte) /\ Len(t) = IF 1 <= m THEN (m - 1) + 1 ELSE 0
          /\ \A k \in 1..Len(t) : t[k] = s[(1 + k) - 1] /\ (1 + k) - 1 \in 1..m
      BY <2>4, <2>5, SubIs
    <3>2. \A k \in Nat : (1 + k) - 1 = k
      OBVIOUS
    <3> QED
      BY <2>4, <3>1, <3>2
  <2>7. ASSUME NEW i \in 1..Len(t), t[i] = "lead"
        PROVE  i + 2 <= Len(t) /\ t[i + 1] = "cont" /\ t[i + 2] = "cont"
    <3>1. i + 2 <= Len(s) /\ s[i + 1] = "cont" /\ s[i + 2] = "cont"
      BY <2>6, <2>7 DEF Chars
    <3>2. m # i /\ m # i + 1 /\ m # 0
      <4>1. m # 0
        BY <2>6
      <4>2. (i + 1) + 1 = i + 2
        OBVIOUS
      <4> QED
        BY <2>4, <3>1, <4>1, <4>2
    <3>3. i + 2 <= m
      BY <2>4, <2>6, <3>2
    <3>4. i + 1 \in 1..Len(t) /\ i + 2 \in 1..Len(t)
      BY <2>6, <3>3
    <3> QED
      BY <2>6, <3>1, <3>3, <3>4
  <2>8. ASSUME NEW i \in 1..Len(t), t[i] = "cont"
        PROVE  i > 1 /\ t[i - 1] \in {"lead", "cont"}
    <3>1. i > 1 /\ s[i - 1] \in {"lead", "cont"}
      BY <2>6, <2>8 DEF Chars
    <3>2. i - 1 \in 1..Len(t)
      BY <3>1
    <3> QED
      BY <2>6, <3>1, <3>2
  <2>9. IsPrefix(t, s)
    BY <2>4, <2>6, PrefixIs
  <2> QED
    BY <1>2, <2>3, <2>5, <2>6, <2>7, <2>8, <2>9 DEF Chars
<1> QED
  BY <1>0, <1>1, <1>2

(***************************************************************************)
(* Where the numbers of the links stand.                                   *)
(***************************************************************************)
\* The marker of link k begins at p.
MarkAt(s, p, k) ==
  LET d == Digits(k)
  IN /\ s[p] = "[" /\ (p + Len(d)) + 1 <= Len(s)
     /\ \A i \in 1..Len(d) : s[p + i] = d[i]
     /\ s[(p + Len(d)) + 1] = "]"

\* The label of l is what stands between its start and its marker at p.
LabelAt(s, l, p) ==
  /\ l.from \in Nat /\ l.from < p
  /\ Chars(l.text)
  /\ \E j \in IF p > l.from + 1 /\ s[p - 1] = "\n" THEN {p - 1, p - 2} ELSE {p - 1} :
       LET label == Trim(SubSeq(s, l.from + 1, j))
       IN l.text = label \/ (Len(label) > LabelMax /\ IsPrefix(l.text, label))

\* The brackets of s are the markers of ls, where f says.
Marked(s, ls, f) ==
  /\ f \in [1..Len(ls) -> 1..Len(s)]
  /\ \A j, k \in 1..Len(ls) : j < k => f[j] < f[k]
  /\ \A i \in 1..Len(s) : s[i] = "[" => \E k \in 1..Len(ls) : f[k] = i
  /\ \A k \in 1..Len(ls) : MarkAt(s, f[k], k) /\ LabelAt(s, ls[k], f[k])

Noted(s, ls) == Chars(s) /\ \E f : Marked(s, ls, f)

LEMMA JoinIs ==
  ASSUME NEW s \in Seq(Byte), NEW e \in Seq(Byte)
  PROVE  /\ s \o e \in Seq(Byte) /\ Len(s \o e) = Len(s) + Len(e)
         /\ Len(s) \in Nat /\ Len(e) \in Nat
         /\ \A i \in 1..Len(s) : (s \o e)[i] = s[i]
         /\ \A i \in 1..Len(e) : (s \o e)[Len(s) + i] = e[i]
         /\ \A i \in 1..(Len(s) + Len(e)) : i \in 1..Len(s) \/ \E j \in 1..Len(e) : i = Len(s) + j
<1>1. ASSUME NEW i \in 1..(Len(s) + Len(e)), i \notin 1..Len(s) PROVE \E j \in 1..Len(e) : i = Len(s) + j
  <2>1. i - Len(s) \in 1..Len(e) /\ i = Len(s) + (i - Len(s))
    BY <1>1
  <2> QED
    BY <2>1
<1> QED
  BY <1>1

LEMMA CharsJoin ==
  ASSUME NEW s \in Seq(Byte), NEW e \in Seq(Byte), Chars(s), Chars(e)
  PROVE  Chars(s \o e)
<1>1. PICK t : t = s \o e
  OBVIOUS
<1>2. /\ t \in Seq(Byte) /\ Len(t) = Len(s) + Len(e) /\ Len(s) \in Nat /\ Len(e) \in Nat
      /\ \A i \in 1..Len(s) : t[i] = s[i]
      /\ \A i \in 1..Len(e) : t[Len(s) + i] = e[i]
      /\ \A i \in 1..Len(t) : i \in 1..Len(s) \/ \E j \in 1..Len(e) : i = Len(s) + j
  BY <1>1, JoinIs
<1>3. ASSUME NEW i \in 1..Len(s)
      PROVE  /\ t[i] = "lead" => i + 2 <= Len(t) /\ t[i + 1] = "cont" /\ t[i + 2] = "cont"
             /\ t[i] = "cont" => i > 1 /\ t[i - 1] \in {"lead", "cont"}
  <2>1. t[i] = s[i]
    BY <1>2
  <2>2. CASE s[i] = "lead"
    <3>1. i + 2 <= Len(s) /\ s[i + 1] = "cont" /\ s[i + 2] = "cont"
      BY <2>2 DEF Chars
    <3>2. i + 1 \in 1..Len(s) /\ i + 2 \in 1..Len(s) /\ i + 2 <= Len(t)
      BY <1>2, <3>1
    <3> QED
      BY <1>2, <2>1, <2>2, <3>1, <3>2
  <2>3. CASE s[i] = "cont"
    <3>1. i > 1 /\ s[i - 1] \in {"lead", "cont"}
      BY <2>3 DEF Chars
    <3>2. i - 1 \in 1..Len(s)
      BY <1>2, <3>1
    <3> QED
      BY <1>2, <2>1, <2>3, <3>1, <3>2
  <2> QED
    BY <2>1, <2>2, <2>3
<1>4. ASSUME NEW j \in 1..Len(e), NEW i, i = Len(s) + j
      PROVE  /\ t[i] = "lead" => i + 2 <= Len(t) /\ t[i + 1] = "cont" /\ t[i + 2] = "cont"
             /\ t[i] = "cont" => i > 1 /\ t[i - 1] \in {"lead", "cont"}
  <2>1. t[i] = e[j]
    BY <1>2, <1>4
  <2>2. CASE e[j] = "lead"
    <3>1. j + 2 <= Len(e) /\ e[j + 1] = "cont" /\ e[j + 2] = "cont"
      BY <2>2 DEF Chars
    <3>2. /\ j + 1 \in 1..Len(e) /\ j + 2 \in 1..Len(e) /\ i + 2 <= Len(t)
          /\ i + 1 = Len(s) + (j + 1) /\ i + 2 = Len(s) + (j + 2)
      BY <1>2, <1>4, <3>1
    <3> QED
      BY <1>2, <2>1, <2>2, <3>1, <3>2
  <2>3. CASE e[j] = "cont"
    <3>1. j > 1 /\ e[j - 1] \in {"lead", "cont"}
      BY <2>3 DEF Chars
    <3>2. j - 1 \in 1..Len(e) /\ i - 1 = Len(s) + (j - 1) /\ i > 1
      BY <1>2, <1>4, <3>1
    <3> QED
      BY <1>2, <2>1, <2>3, <3>1, <3>2
  <2> QED
    BY <2>1, <2>2, <2>3
<1>5. Chars(t)
  BY <1>2, <1>3, <1>4 DEF Chars
<1> QED
  BY <1>1, <1>5

LEMMA LabelStays ==
  ASSUME NEW s \in Seq(Byte), NEW e \in Seq(Byte), NEW l, NEW p \in 1..(Len(s) + 1), LabelAt(s, l, p)
  PROVE  LabelAt(s \o e, l, p)
<1>1. PICK t : t = s \o e
  OBVIOUS
<1>2. Len(s) \in Nat /\ l.from \in Nat /\ l.from < p /\ l.from + 1 \in Nat /\ l.from + 1 >= 1
  BY DEF LabelAt
<1>3. p > l.from + 1 => t[p - 1] = s[p - 1]
  <2>1. p > l.from + 1 => p - 1 \in 1..Len(s)
    BY <1>2
  <2> QED
    BY <1>1, <2>1, JoinIs
<1>4. PICK j \in IF p > l.from + 1 /\ s[p - 1] = "\n" THEN {p - 1, p - 2} ELSE {p - 1} :
        LET label == Trim(SubSeq(s, l.from + 1, j))
        IN l.text = label \/ (Len(label) > LabelMax /\ IsPrefix(l.text, label))
  BY DEF LabelAt
<1>5. j \in 0..Len(s)
  BY <1>2, <1>4
<1>6. SubSeq(t, l.from + 1, j) = SubSeq(s, l.from + 1, j)
  BY <1>1, <1>2, <1>5, SubJoin
<1>7. j \in IF p > l.from + 1 /\ t[p - 1] = "\n" THEN {p - 1, p - 2} ELSE {p - 1}
  BY <1>3, <1>4
<1>8. LabelAt(t, l, p)
  BY <1>2, <1>4, <1>6, <1>7 DEF LabelAt
<1> QED
  BY <1>1, <1>8

LEMMA MarkStays ==
  ASSUME NEW s \in Seq(Byte), NEW e \in Seq(Byte), NEW k \in Nat, NEW p \in 1..Len(s), MarkAt(s, p, k)
  PROVE  MarkAt(s \o e, p, k)
<1>1. PICK t : t = s \o e
  OBVIOUS
<1>2. PICK d \in Seq(Digital) : d = Digits(k)
  BY DigitsTyped
<1>3. Len(t) = Len(s) + Len(e) /\ Len(s) \in Nat /\ Len(e) \in Nat /\ \A i \in 1..Len(s) : t[i] = s[i]
  BY <1>1, JoinIs
<1>4. /\ s[p] = "[" /\ (p + Len(d)) + 1 <= Len(s)
      /\ \A i \in 1..Len(d) : s[p + i] = d[i]
      /\ s[(p + Len(d)) + 1] = "]"
  BY <1>2 DEF MarkAt
<1>5. /\ Len(d) \in Nat /\ (p + Len(d)) + 1 \in 1..Len(s) /\ (p + Len(d)) + 1 <= Len(t)
      /\ \A i \in 1..Len(d) : p + i \in 1..Len(s)
  BY <1>3, <1>4
<1>6. /\ t[p] = "[" /\ t[(p + Len(d)) + 1] = "]"
      /\ \A i \in 1..Len(d) : t[p + i] = d[i]
  BY <1>3, <1>4, <1>5
<1> QED
  BY <1>1, <1>2, <1>5, <1>6 DEF MarkAt

\* What is written behind a text without a bracket leaves its marks.
LEMMA NotedGrows ==
  ASSUME NEW s \in Seq(Byte), NEW e \in Seq(Byte), NEW ls, Len(ls) \in Nat, Noted(s, ls), Chars(e),
         \A i \in 1..Len(e) : e[i] # "["
  PROVE  Noted(s \o e, ls)
<1>1. PICK f : Marked(s, ls, f)
  BY DEF Noted
<1>2. PICK t : t = s \o e
  OBVIOUS
<1>3. /\ t \in Seq(Byte) /\ Len(t) = Len(s) + Len(e) /\ Len(s) \in Nat /\ Len(e) \in Nat
      /\ \A i \in 1..Len(s) : t[i] = s[i]
      /\ \A i \in 1..Len(e) : t[Len(s) + i] = e[i]
      /\ \A i \in 1..Len(t) : i \in 1..Len(s) \/ \E j \in 1..Len(e) : i = Len(s) + j
  BY <1>2, JoinIs
<1>4. /\ f \in [1..Len(ls) -> 1..Len(s)]
      /\ \A j, k \in 1..Len(ls) : j < k => f[j] < f[k]
      /\ \A i \in 1..Len(s) : s[i] = "[" => \E k \in 1..Len(ls) : f[k] = i
      /\ \A k \in 1..Len(ls) : MarkAt(s, f[k], k) /\ LabelAt(s, ls[k], f[k])
  BY <1>1 DEF Marked
<1>5. f \in [1..Len(ls) -> 1..Len(t)]
  <2>1. 1..Len(s) \subseteq 1..Len(t)
    BY <1>3
  <2> QED
    BY <1>4, <2>1
<1>6. ASSUME NEW i \in 1..Len(t), t[i] = "[" PROVE \E k \in 1..Len(ls) : f[k] = i
  <2>1. i \in 1..Len(s)
    BY <1>3, <1>6
  <2> QED
    BY <1>3, <1>4, <1>6, <2>1
<1>7. ASSUME NEW k \in 1..Len(ls) PROVE MarkAt(t, f[k], k) /\ LabelAt(t, ls[k], f[k])
  <2>1. f[k] \in 1..Len(s) /\ MarkAt(s, f[k], k) /\ LabelAt(s, ls[k], f[k]) /\ f[k] \in 1..(Len(s) + 1)
    BY <1>3, <1>4
  <2>2. LabelAt(t, ls[k], f[k])
    BY <1>2, <2>1, LabelStays
  <2> QED
    BY <1>2, <2>1, <2>2, MarkStays
<1>8. Marked(t, ls, f)
  BY <1>4, <1>5, <1>6, <1>7 DEF Marked
<1>9. Chars(t)
  BY <1>2, CharsJoin DEF Noted
<1> QED
  BY <1>2, <1>8, <1>9 DEF Noted

\* The number of a new link is written at the end of a text.
LEMMA MarkAdds ==
  ASSUME NEW u \in Seq(Byte), NEW X, NEW ls \in Seq(X), NEW l \in X, Noted(u, ls),
         LabelAt(u, l, Len(u) + 1)
  PROVE  Noted(u \o Mark(Len(ls) + 1), Append(ls, l))
<1> DEFINE n == Len(ls) + 1
<1>1. PICK f : Marked(u, ls, f)
  BY DEF Noted
<1>2. PICK d \in Seq(Digital) : d = Digits(n)
  BY DigitsTyped
<1>3. PICK e : e = Mark(n)
  OBVIOUS
<1>4. /\ e \in Seq(Byte) /\ Len(e) = Len(d) + 2 /\ Len(d) \in Nat
      /\ e[1] = "[" /\ (\A i \in 1..Len(d) : e[i + 1] = d[i] /\ d[i] \in Digital) /\ e[Len(d) + 2] = "]"
  <2>1. e = (<<"[">> \o d) \o <<"]">>
    BY <1>2, <1>3 DEF Mark
  <2>2. Digital \subseteq Byte /\ "[" \in Byte /\ "]" \in Byte
    BY DEF Byte
  <2>3. d \in Seq(Byte)
    BY <2>2
  <2>4. Len(d) \in Nat
    OBVIOUS
  <2>5. \A i \in 1..Len(d) : d[i] \in Digital
    OBVIOUS
  <2>6. PICK c : c = <<"[">> \o d
    OBVIOUS
  <2>7. c \in Seq(Byte) /\ Len(c) = 1 + Len(d) /\ c[1] = "[" /\ \A i \in 1..Len(d) : c[i + 1] = d[i]
    BY <2>2, <2>3, <2>6
  <2>8. e \in Seq(Byte) /\ Len(e) = Len(c) + 1 /\ (\A i \in 1..Len(c) : e[i] = c[i]) /\ e[Len(c) + 1] = "]"
    <3>1. e = c \o <<"]">>
      BY <2>1, <2>6
    <3>2. <<"]">> \in Seq(Byte)
      BY <2>2
    <3> QED
      BY <2>7, <3>1, <3>2
  <2>9. 1 \in 1..Len(c) /\ (\A i \in 1..Len(d) : i + 1 \in 1..Len(c)) /\ Len(d) + 2 = Len(c) + 1
    BY <2>4, <2>7
  <2> QED
    BY <2>4, <2>5, <2>7, <2>8, <2>9
<1>5. \A c \in Digital : c # "[" /\ c # "]" /\ c # "lead" /\ c # "cont"
  BY DEF Digital
<1>6. ASSUME NEW i \in 1..Len(e)
      PROVE  e[i] \notin {"lead", "cont"} /\ (i # 1 => e[i] # "[")
  <2>1. i = 1 \/ i = Len(d) + 2 \/ \E j \in 1..Len(d) : i = j + 1
    <3>1. i # 1 /\ i # Len(d) + 2 => i - 1 \in 1..Len(d) /\ i = (i - 1) + 1
      BY <1>4
    <3> QED
      BY <3>1
  <2> QED
    BY <1>4, <1>5, <2>1
<1>7. PICK t : t = u \o e
  OBVIOUS
<1>8. /\ t \in Seq(Byte) /\ Len(t) = Len(u) + Len(e) /\ Len(u) \in Nat
      /\ \A i \in 1..Len(u) : t[i] = u[i]
      /\ \A i \in 1..Len(e) : t[Len(u) + i] = e[i]
      /\ \A i \in 1..Len(t) : i \in 1..Len(u) \/ \E j \in 1..Len(e) : i = Len(u) + j
  <2>1. e \in Seq(Byte)
    BY <1>4
  <2> QED
    BY <1>7, <2>1, JoinIs
<1>9. Chars(t)
  <2>1. Chars(e)
    BY <1>6 DEF Chars
  <2> QED
    BY <1>4, <1>7, <2>1, CharsJoin DEF Noted
<1>10. /\ f \in [1..Len(ls) -> 1..Len(u)]
       /\ \A j, k \in 1..Len(ls) : j < k => f[j] < f[k]
       /\ \A i \in 1..Len(u) : u[i] = "[" => \E k \in 1..Len(ls) : f[k] = i
       /\ \A k \in 1..Len(ls) : MarkAt(u, f[k], k) /\ LabelAt(u, ls[k], f[k])
  BY <1>1 DEF Marked
<1>11. PICK m : m = Append(ls, l)
  OBVIOUS
<1>12. Len(ls) \in Nat /\ Len(m) = n /\ m[n] = l /\ \A k \in 1..Len(ls) : m[k] = ls[k]
  BY <1>11
<1> DEFINE g == [k \in 1..n |-> IF k <= Len(ls) THEN f[k] ELSE Len(u) + 1]
<1>13. g[n] = Len(u) + 1 /\ \A k \in 1..Len(ls) : g[k] = f[k]
  BY <1>12
<1>14. \A k \in 1..n : k = n \/ k \in 1..Len(ls)
  BY <1>12
<1>15. g \in [1..n -> 1..Len(t)]
  <2>1. Len(u) + 1 \in 1..Len(t) /\ 1..Len(u) \subseteq 1..Len(t)
    BY <1>4, <1>8
  <2>2. \A k \in 1..n : g[k] \in 1..Len(t)
    <3> HIDE DEF g
    <3> QED
      BY <1>10, <1>13, <1>14, <2>1
  <2>3. g = [k \in 1..n |-> g[k]]
    OBVIOUS
  <2> HIDE DEF g
  <2> QED
    BY <2>2, <2>3
<1> HIDE DEF g
<1>16. ASSUME NEW j \in 1..n, NEW k \in 1..n, j < k PROVE g[j] < g[k]
  <2>1. j \in 1..Len(ls)
    BY <1>12, <1>16
  <2>2. CASE k = n
    <3>1. f[j] \in 1..Len(u)
      BY <1>10, <2>1
    <3> QED
      BY <1>8, <1>13, <2>1, <2>2, <3>1
  <2>3. CASE k \in 1..Len(ls)
    BY <1>10, <1>13, <1>16, <2>1, <2>3
  <2> QED
    BY <1>14, <2>2, <2>3
<1>17. ASSUME NEW i \in 1..Len(t), t[i] = "[" PROVE \E k \in 1..n : g[k] = i
  <2>1. CASE i \in 1..Len(u)
    <3>1. PICK k \in 1..Len(ls) : f[k] = i
      BY <1>8, <1>10, <1>17, <2>1
    <3>2. k \in 1..n
      BY <1>12
    <3> QED
      BY <1>13, <3>1, <3>2
  <2>2. ASSUME NEW j \in 1..Len(e), i = Len(u) + j PROVE \E k \in 1..n : g[k] = i
    <3>1. j = 1
      BY <1>6, <1>8, <1>17, <2>2
    <3>2. n \in 1..n
      BY <1>12
    <3> QED
      BY <1>13, <2>2, <3>1, <3>2
  <2>3. i \in 1..Len(u) \/ \E j \in 1..Len(e) : i = Len(u) + j
    BY <1>8
  <2> QED
    BY <2>1, <2>2, <2>3
<1>18. ASSUME NEW k \in 1..Len(ls) PROVE MarkAt(t, f[k], k) /\ LabelAt(t, ls[k], f[k])
  <2>0. 1..Len(u) \subseteq 1..(Len(u) + 1)
    BY <1>8
  <2>1. f[k] \in 1..Len(u) /\ MarkAt(u, f[k], k) /\ LabelAt(u, ls[k], f[k]) /\ f[k] \in 1..(Len(u) + 1)
    BY <1>10, <2>0
  <2>2. LabelAt(t, ls[k], f[k])
    BY <1>4, <1>7, <2>1, LabelStays
  <2> QED
    BY <1>4, <1>7, <2>1, <2>2, MarkStays
<1>19. MarkAt(t, Len(u) + 1, n) /\ LabelAt(t, l, Len(u) + 1)
  <2>1. Len(u) + 1 \in 1..(Len(u) + 1)
    BY <1>8
  <2>2. LabelAt(t, l, Len(u) + 1)
    BY <1>4, <1>7, <2>1, LabelStays
  <2>3. /\ t[Len(u) + 1] = "[" /\ ((Len(u) + 1) + Len(d)) + 1 <= Len(t)
        /\ \A i \in 1..Len(d) : t[(Len(u) + 1) + i] = d[i]
        /\ t[((Len(u) + 1) + Len(d)) + 1] = "]"
    <3>1. /\ 1 \in 1..Len(e) /\ Len(d) + 2 \in 1..Len(e) /\ \A i \in 1..Len(d) : i + 1 \in 1..Len(e)
          /\ ((Len(u) + 1) + Len(d)) + 1 = Len(u) + (Len(d) + 2)
          /\ \A i \in 1..Len(d) : (Len(u) + 1) + i = Len(u) + (i + 1)
      BY <1>4, <1>8
    <3> QED
      BY <1>4, <1>8, <3>1
  <2> QED
    BY <1>2, <2>2, <2>3 DEF MarkAt
<1>20. Marked(t, m, g)
  <2>1. \A k \in 1..n : MarkAt(t, g[k], k) /\ LabelAt(t, m[k], g[k])
    BY <1>12, <1>13, <1>14, <1>18, <1>19
  <2> QED
    BY <1>12, <1>15, <1>16, <1>17, <2>1 DEF Marked
<1> QED
  BY <1>3, <1>7, <1>9, <1>11, <1>20 DEF Noted

LEMMA LabelFrom ==
  ASSUME NEW s, NEW l, NEW p \in Nat, NEW j, NEW w,
         l.from \in Nat, l.from < p, Chars(l.text),
         j = p - 1 \/ (p > l.from + 1 /\ s[p - 1] = "\n" /\ j = p - 2),
         w = Trim(SubSeq(s, l.from + 1, j)),
         l.text = w \/ (Len(w) > LabelMax /\ IsPrefix(l.text, w))
  PROVE  LabelAt(s, l, p)
<1>1. j \in IF p > l.from + 1 /\ s[p - 1] = "\n" THEN {p - 1, p - 2} ELSE {p - 1}
  OBVIOUS
<1> QED
  BY <1>1, Zenon DEF LabelAt

\* The label of a new link is what stands behind its start, whatever is due
\* before its number.
LEMMA NewLabel ==
  ASSUME NEW s \in Seq(Byte), Chars(s), NEW u, u = s \/ u = Append(s, "\n") \/ u = Append(s, Space),
         NEW l, l.from \in 0..Len(s), l.from < Len(s) => s[l.from + 1] # "cont",
         l.text = CutLabel(Trim(SubSeq(s, l.from + 1, Len(s))))
  PROVE  LabelAt(u, l, Len(u) + 1)
<1>1. PICK v : v = SubSeq(s, l.from + 1, Len(s))
  OBVIOUS
<1>2. v \in Seq(Byte) /\ Chars(v) /\ Len(s) \in Nat
  BY <1>1, SuffixChars
<1>3. PICK w : w = Trim(v)
  OBVIOUS
<1>4. w \in Seq(Byte) /\ Chars(w)
  BY <1>2, <1>3, TrimBytes, TrimChars
<1>5. Chars(l.text) /\ (l.text = w \/ (Len(w) > LabelMax /\ IsPrefix(l.text, w)))
  BY <1>1, <1>3, <1>4, CutIs
<1>6. l.from + 1 \in Nat /\ l.from + 1 >= 1 /\ Len(s) \in 0..Len(s)
  BY <1>2
<1>7. CASE u = s
  <2>1. l.from < Len(u) + 1 /\ (Len(u) + 1) - 1 = Len(s)
    BY <1>2, <1>7
  <2> QED
    BY <1>1, <1>2, <1>3, <1>5, <1>7, <2>1, LabelFrom
<1>8. CASE u = Append(s, "\n")
  <2>1. /\ Len(u) = Len(s) + 1 /\ u[Len(s) + 1] = "\n"
    BY <1>8
  <2>2. SubSeq(u, l.from + 1, Len(s)) = v
    <3>1. u = s \o <<"\n">> /\ <<"\n">> \in Seq(Byte)
      BY <1>8 DEF Byte, Gap
    <3> QED
      BY <1>1, <1>6, <3>1, SubJoin
  <2>3. /\ l.from < Len(u) + 1 /\ Len(u) + 1 > l.from + 1
        /\ (Len(u) + 1) - 1 = Len(s) + 1 /\ (Len(u) + 1) - 2 = Len(s)
    BY <1>2, <2>1
  <2>4. Len(u) + 1 \in Nat /\ l.from \in Nat /\ u[(Len(u) + 1) - 1] = "\n"
    BY <1>2, <2>1
  <2>5. w = Trim(SubSeq(u, l.from + 1, Len(s)))
    BY <1>3, <2>2
  <2> QED
    BY <1>5, <2>3, <2>4, <2>5, LabelFrom
<1>9. CASE u = Append(s, Space)
  <2>0. Space \in Byte
    BY DEF Byte, Gap
  <2>1. Len(u) = Len(s) + 1 /\ u \in Seq(Byte)
    BY <1>9, <2>0
  <2>2. SubSeq(u, l.from + 1, Len(s) + 1) = Append(v, Space)
    <3>1. l.from + 1 \in 1..(Len(s) + 1)
      BY <1>2
    <3> QED
      BY <1>1, <1>9, <2>0, <3>1, SubAppends
  <2>3. Trim(SubSeq(u, l.from + 1, Len(s) + 1)) = w
    <3>1. PICK y : y = SubSeq(u, l.from + 1, Len(s) + 1)
      OBVIOUS
    <3>2. y \in Seq(Byte) /\ y = Append(v, Space)
      <4>1. y = Append(v, Space)
        BY <2>2, <3>1
      <4>2. \A x \in Seq(Byte) : Append(x, Space) \in Seq(Byte)
        BY <2>0
      <4> QED
        BY <1>2, <4>1, <4>2
    <3> QED
      BY <1>2, <1>3, <3>1, <3>2, TrimSpace
  <2>4. l.from < Len(u) + 1 /\ (Len(u) + 1) - 1 = Len(s) + 1
    BY <1>2, <2>1
  <2>5. Len(u) + 1 \in Nat /\ l.from \in Nat
    BY <1>2, <2>1
  <2> QED
    BY <1>5, <2>3, <2>4, <2>5, LabelFrom
<1> QED
  BY <1>7, <1>8, <1>9

(***************************************************************************)
(* What the marks of a text say of the numbers in it.                      *)
(***************************************************************************)
LEMMA Counted ==
  ASSUME NEW s \in Seq(Byte), NEW ls, Len(ls) \in Nat, NEW f, Marked(s, ls, f), NEW k \in 0..Len(ls),
         NEW T, T = {f[j] : j \in 1..k}
  PROVE  Cardinality(T) = k
<1>1. PICK g : g = [j \in 1..k |-> f[j]]
  OBVIOUS
<1>2. g \in [1..k -> T] /\ \A j \in 1..k : g[j] = f[j]
  BY <1>1
<1>3. ASSUME NEW i \in 1..k, NEW j \in 1..k, g[i] = g[j] PROVE i = j
  <2>0. 1..k \subseteq 1..Len(ls)
    OBVIOUS
  <2>1. i \in 1..Len(ls) /\ j \in 1..Len(ls) /\ f[i] = f[j]
    BY <1>2, <1>3, <2>0
  <2>2. f[i] \in Nat /\ f[j] \in Nat
    BY <2>1 DEF Marked
  <2>3. ~(i < j) /\ ~(j < i)
    BY <2>1, <2>2 DEF Marked
  <2> QED
    BY <2>3
<1>4. \A t \in T : \E j \in 1..k : g[j] = t
  BY <1>2
<1>5. g \in Bijection(1..k, T)
  BY <1>2, <1>3, <1>4 DEF Bijection, Injection, Surjection, IsInjective
<1> QED
  BY <1>5, FS_CountingElements DEF ExistsBijection

LEMMA MarkFound ==
  ASSUME NEW s \in Seq(Byte), NEW ls, Len(ls) \in Nat, NEW f, Marked(s, ls, f)
  PROVE  /\ Cardinality({i \in 1..Len(s) : s[i] = "["}) = Len(ls)
         /\ \A k \in 1..Len(ls) : MarkPos(s, k) = f[k]
<1>1. /\ f \in [1..Len(ls) -> 1..Len(s)]
      /\ \A j, k \in 1..Len(ls) : j < k => f[j] < f[k]
      /\ \A i \in 1..Len(s) : s[i] = "[" => \E k \in 1..Len(ls) : f[k] = i
      /\ \A k \in 1..Len(ls) : s[f[k]] = "["
      /\ Len(s) \in Nat
  BY DEF Marked, MarkAt
<1>2. ASSUME NEW k \in 1..Len(ls)
      PROVE  {j \in 1..f[k] : s[j] = "["} = {f[j] : j \in 1..k}
  <2>1. ASSUME NEW i \in 1..f[k], s[i] = "[" PROVE i \in {f[j] : j \in 1..k}
    <3>1. f[k] \in 1..Len(s) /\ i \in 1..Len(s)
      BY <1>1
    <3>2. PICK j \in 1..Len(ls) : f[j] = i
      BY <1>1, <2>1, <3>1
    <3>3. ~(k < j)
      BY <1>1, <3>1, <3>2
    <3>4. j \in 1..k
      BY <3>3
    <3> QED
      BY <3>2, <3>4
  <2>2. ASSUME NEW j \in 1..k PROVE f[j] \in 1..f[k] /\ s[f[j]] = "["
    <3>0. j \in 1..Len(ls)
      OBVIOUS
    <3>1. j \in 1..Len(ls) /\ f[j] \in 1..Len(s) /\ f[k] \in 1..Len(s)
      BY <1>1, <3>0
    <3>2. j = k \/ f[j] < f[k]
      BY <1>1, <3>1
    <3> QED
      BY <1>1, <3>1, <3>2
  <2> QED
    BY <2>1, <2>2
<1>3. ASSUME NEW k \in 1..Len(ls) PROVE Cardinality({j \in 1..f[k] : s[j] = "["}) = k
  <2>1. k \in 0..Len(ls)
    OBVIOUS
  <2> QED
    BY <1>2, <2>1, Counted
<1>4. {i \in 1..Len(s) : s[i] = "["} = {f[j] : j \in 1..Len(ls)}
  BY <1>1
<1>5. Cardinality({i \in 1..Len(s) : s[i] = "["}) = Len(ls)
  <2>1. Len(ls) \in 0..Len(ls)
    OBVIOUS
  <2> QED
    BY <1>4, <2>1, Counted
<1>6. ASSUME NEW k \in 1..Len(ls) PROVE MarkPos(s, k) = f[k]
  <2> DEFINE P(i) == s[i] = "[" /\ Cardinality({j \in 1..i : s[j] = "["}) = k
  <2>1. f[k] \in 1..Len(s) /\ P(f[k])
    BY <1>1, <1>3
  <2>2. ASSUME NEW i \in 1..Len(s), P(i) PROVE i = f[k]
    <3>1. PICK j \in 1..Len(ls) : f[j] = i
      BY <1>1, <2>2
    <3>2. Cardinality({m \in 1..i : s[m] = "["}) = j
      BY <1>3, <3>1
    <3> QED
      BY <2>2, <3>1, <3>2
  <2>3. MarkPos(s, k) = CHOOSE i \in 1..Len(s) : P(i)
    BY DEF MarkPos
  <2> HIDE DEF P
  <2>4. \E i \in 1..Len(s) : P(i)
    BY <2>1
  <2> QED
    BY <2>2, <2>3, <2>4
<1> QED
  BY <1>5, <1>6

\* The number read between the brackets.
LEMMA NumberRead ==
  ASSUME NEW s \in Seq(Byte), NEW k \in Nat, NEW p \in 1..Len(s), MarkAt(s, p, k)
  PROVE  LET end == CHOOSE j \in p..Len(s) : s[j] = "]" /\ "]" \notin {s[i] : i \in p..(j - 1)}
         IN SubSeq(s, p + 1, end - 1) = Digits(k)
<1>1. PICK d \in Seq(Digital) : d = Digits(k)
  BY DigitsTyped
<1>2. /\ s[p] = "[" /\ (p + Len(d)) + 1 <= Len(s)
      /\ \A i \in 1..Len(d) : s[p + i] = d[i]
      /\ s[(p + Len(d)) + 1] = "]"
  BY <1>1 DEF MarkAt
<1>3. Len(d) \in Nat /\ \A i \in 1..Len(d) : d[i] # "]"
  <2>1. "]" \notin Digital
    BY DEF Digital
  <2>2. Len(d) \in Nat /\ \A i \in 1..Len(d) : d[i] \in Digital
    OBVIOUS
  <2> QED
    BY <2>1, <2>2
<1> DEFINE last == (p + Len(d)) + 1
           P(j) == s[j] = "]" /\ "]" \notin {s[i] : i \in p..(j - 1)}
<1>4. last \in p..Len(s) /\ last - 1 = p + Len(d) /\ last \in 1..Len(s)
  BY <1>2, <1>3
<1>5. ASSUME NEW i \in p..(p + Len(d)) PROVE s[i] # "]"
  <2>1. CASE i = p
    BY <1>2, <2>1
  <2>2. CASE i # p
    <3>1. i - p \in 1..Len(d) /\ p + (i - p) = i
      BY <1>3, <2>2
    <3> QED
      BY <1>2, <1>3, <3>1
  <2> QED
    BY <2>1, <2>2
<1>6. P(last)
  BY <1>2, <1>4, <1>5
<1>7. ASSUME NEW j \in p..Len(s), P(j) PROVE j = last
  <2>1. ~(j < last)
    <3>1. j < last => j \in p..(p + Len(d))
      BY <1>3
    <3> QED
      BY <1>5, <1>7, <3>1
  <2>2. ~(last < j)
    <3>1. last < j => last \in p..(j - 1)
      BY <1>4
    <3> QED
      BY <1>2, <1>7, <3>1
  <2> QED
    BY <1>4, <2>1, <2>2
<1>8. PICK e : e = CHOOSE j \in p..Len(s) : P(j)
  OBVIOUS
<1>9. e = last
  <2> HIDE DEF P, last
  <2> QED
    BY <1>4, <1>6, <1>7, <1>8
<1>10. SubSeq(s, p + 1, last - 1) = d
  <2>1. PICK t : t = SubSeq(s, p + 1, p + Len(d))
    OBVIOUS
  <2>2. p + 1 \in Nat /\ p + 1 >= 1 /\ p + Len(d) \in 0..Len(s)
    BY <1>2, <1>3
  <2>3. /\ t \in Seq(Byte)
        /\ Len(t) = IF p + 1 <= p + Len(d) THEN ((p + Len(d)) - (p + 1)) + 1 ELSE 0
        /\ \A i \in 1..Len(t) : t[i] = s[((p + 1) + i) - 1]
    BY <2>1, <2>2, SubIs
  <2>4. Len(t) = Len(d)
    BY <1>3, <2>3
  <2>5. \A i \in 1..Len(d) : t[i] = d[i]
    <3>1. \A i \in 1..Len(d) : ((p + 1) + i) - 1 = p + i
      BY <1>3
    <3> QED
      BY <1>2, <2>3, <2>4, <3>1
  <2>6. t = d
    <3>1. t = [i \in 1..Len(t) |-> t[i]] /\ d = [i \in 1..Len(d) |-> d[i]]
      BY <2>3
    <3> QED
      BY <2>4, <2>5, <3>1
  <2> QED
    BY <1>4, <2>1, <2>6
<1> QED
  BY <1>1, <1>8, <1>9, <1>10

LEMMA NotedSays ==
  ASSUME body.buf \in Seq(Byte), Len(links) \in Nat, Noted(body.buf, links)
  PROVE  MarkersMatchLinks
<1> DEFINE s == body.buf
<1>1. s \in Seq(Byte) /\ Noted(s, links)
  OBVIOUS
<1>2. PICK f : Marked(s, links, f)
  BY <1>1 DEF Noted
<1>3. /\ f \in [1..Len(links) -> 1..Len(s)]
      /\ \A k \in 1..Len(links) : MarkAt(s, f[k], k) /\ LabelAt(s, links[k], f[k])
  BY <1>2 DEF Marked
<1>4. /\ Cardinality({i \in 1..Len(s) : s[i] = "["}) = Len(links)
      /\ \A k \in 1..Len(links) : MarkPos(s, k) = f[k]
  BY <1>2, MarkFound
<1>5. LabelsAreWhole
  <2>1. \A k \in 1..Len(links) : Chars(links[k].text)
    BY <1>3 DEF LabelAt
  <2> QED
    BY <2>1, Zenon DEF LabelsAreWhole, Chars
<1>6. ASSUME NEW k \in 1..Len(links)
      PROVE  LET at == MarkPos(s, k)
                 last == IF at > links[k].from + 1 /\ s[at - 1] = "\n" THEN {at - 1, at - 2}
                                                                   ELSE {at - 1}
                 label == {Trim(SubSeq(s, links[k].from + 1, j)) : j \in last}
                 text == links[k].text
                 end == CHOOSE j \in at..Len(s) : s[j] = "]" /\ "]" \notin {s[i] : i \in at..j - 1}
             IN /\ SubSeq(s, at + 1, end - 1) = Digits(k)
                /\ \/ text \in label
                   \/ \E l \in label : Len(l) > LabelMax /\ IsPrefix(text, l)
  <2>1. PICK p \in 1..Len(s) : p = f[k]
    BY <1>3
  <2>2. MarkAt(s, p, k) /\ LabelAt(s, links[k], p) /\ MarkPos(s, k) = p /\ k \in Nat
    BY <1>3, <1>4, <2>1
  <2>3. LET end == CHOOSE j \in p..Len(s) : s[j] = "]" /\ "]" \notin {s[i] : i \in p..(j - 1)}
        IN SubSeq(s, p + 1, end - 1) = Digits(k)
    BY <2>2, NumberRead
  <2>4. PICK last : last = IF p > links[k].from + 1 /\ s[p - 1] = "\n" THEN {p - 1, p - 2} ELSE {p - 1}
    OBVIOUS
  <2>5. PICK label : label = {Trim(SubSeq(s, links[k].from + 1, j)) : j \in last}
    OBVIOUS
  <2>6. links[k].text \in label \/ \E l \in label : Len(l) > LabelMax /\ IsPrefix(links[k].text, l)
    <3>1. PICK j \in last : LET w == Trim(SubSeq(s, links[k].from + 1, j))
                            IN links[k].text = w \/ (Len(w) > LabelMax /\ IsPrefix(links[k].text, w))
      BY <2>2, <2>4, Zenon DEF LabelAt
    <3>2. Trim(SubSeq(s, links[k].from + 1, j)) \in label
      BY <2>5
    <3> QED
      BY <3>1, <3>2, Zenon
  <2> QED
    BY <2>2, <2>3, <2>4, <2>5, <2>6, Zenon
<1> QED
  BY <1>1, <1>4, <1>5, <1>6, Zenon DEF MarkersMatchLinks

(***************************************************************************)
(* The invariant of the marks.  It speaks of the text as it will be once   *)
(* the queue is written, which writing a byte of it does not change.       *)
(***************************************************************************)
Coming == IF queue = << >> \/ in_title THEN body.buf ELSE Apart(body) \o queue

StartsAt(a, t) ==
  a # << >> => /\ a[1] \in 0..Len(t)
               /\ a[1] < Len(t) => t[a[1] + 1] # "cont"

Upright(t, ls, a) == Noted(t, ls) /\ StartsAt(a, t)

MarksInv == ~body.cut => Upright(Coming, links, anchor)

\* Whole characters with no bracket.
Unit(e) == e \in Seq(Byte) /\ Chars(e) /\ \A i \in 1..Len(e) : e[i] # "["

LEMMA UprightGrows ==
  ASSUME NEW t \in Seq(Byte), NEW e, Unit(e), NEW ls, Len(ls) \in Nat, NEW a, Upright(t, ls, a)
  PROVE  Upright(t \o e, ls, a)
<1>1. PICK u : u = t \o e
  OBVIOUS
<1>2. e \in Seq(Byte) /\ Chars(e)
  BY DEF Unit
<1>3. /\ u \in Seq(Byte) /\ Len(u) = Len(t) + Len(e) /\ Len(t) \in Nat /\ Len(e) \in Nat
      /\ \A i \in 1..Len(t) : u[i] = t[i]
      /\ \A i \in 1..Len(e) : u[Len(t) + i] = e[i]
  BY <1>1, <1>2, JoinIs
<1>4. Noted(u, ls)
  BY <1>1, NotedGrows DEF Unit, Upright
<1>5. ASSUME a # << >>
      PROVE  a[1] \in 0..Len(u) /\ (a[1] < Len(u) => u[a[1] + 1] # "cont")
  <2>1. PICK n \in 0..Len(t) : n = a[1] /\ (n < Len(t) => t[n + 1] # "cont")
    BY <1>5 DEF Upright, StartsAt
  <2>2. n \in 0..Len(u)
    BY <1>3
  <2>3. CASE n < Len(t)
    <3>1. n + 1 \in 1..Len(t)
      BY <1>3, <2>3
    <3> QED
      BY <1>3, <2>1, <2>2, <2>3, <3>1
  <2>4. CASE n = Len(t) /\ n < Len(u)
    <3>1. 1 \in 1..Len(e) /\ n + 1 = Len(t) + 1
      BY <1>3, <2>4
    <3>2. e[1] # "cont"
      <4>1. ~(1 > 1)
        OBVIOUS
      <4> QED
        BY <1>2, <3>1, <4>1 DEF Chars
    <3> QED
      BY <1>3, <2>1, <2>2, <3>1, <3>2
  <2>5. CASE ~(n < Len(u))
    BY <2>1, <2>2, <2>5
  <2> QED
    BY <1>3, <2>3, <2>4, <2>5
<1>6. StartsAt(a, u)
  BY <1>5 DEF StartsAt
<1> QED
  BY <1>1, <1>4, <1>6 DEF Upright

LEMMA ByteUnit ==
  ASSUME NEW c \in Byte, c \notin {"[", "lead", "cont"}
  PROVE  Unit(<<c>>)
<1>1. PICK e : e = <<c>>
  OBVIOUS
<1>2. e \in Seq(Byte) /\ Len(e) = 1 /\ \A i \in 1..Len(e) : e[i] = c
  BY <1>1
<1>3. Unit(e)
  BY <1>2 DEF Unit, Chars
<1> QED
  BY <1>1, <1>3

LEMMA GapUnits == "\n" \in Byte /\ Space \in Byte /\ Unit(<<"\n">>) /\ Unit(<<Space>>)
<1>1. "\n" \in Byte /\ Space \in Byte
  BY DEF Byte, Gap
<1>2. Space \notin {"[", "lead", "cont"}
  BY Zenon DEF Space
<1> QED
  BY <1>1, <1>2, ByteUnit

LEMMA ApartGrows ==
  ASSUME NEW e \in Line, NEW ls, Len(ls) \in Nat, NEW a, Upright(e.buf, ls, a)
  PROVE  /\ Apart(e) \in Seq(Byte) /\ Upright(Apart(e), ls, a)
         /\ Broken(e) \in Seq(Byte) /\ Upright(Broken(e), ls, a)
         /\ Apart(e) = e.buf \/ Apart(e) = Append(e.buf, "\n") \/ Apart(e) = Append(e.buf, Space)
<1>1. e.buf \in Seq(Byte)
  BY DEF Line
<1>2. \A c \in Byte : Append(e.buf, c) = e.buf \o <<c>> /\ Append(e.buf, c) \in Seq(Byte)
  BY <1>1
<1>3. ASSUME NEW c \in Byte, Unit(<<c>>) PROVE Upright(Append(e.buf, c), ls, a)
  BY <1>1, <1>2, <1>3, UprightGrows
<1>4. Upright(Append(e.buf, "\n"), ls, a) /\ Upright(Append(e.buf, Space), ls, a)
  BY <1>3, GapUnits
<1>5. Append(e.buf, "\n") \in Seq(Byte) /\ Append(e.buf, Space) \in Seq(Byte)
  BY <1>2, GapUnits
<1>6. Apart(e) = e.buf \/ Apart(e) = Append(e.buf, "\n") \/ Apart(e) = Append(e.buf, Space)
  BY Zenon DEF Apart
<1>7. Broken(e) = e.buf \/ Broken(e) = Append(e.buf, "\n")
  BY Zenon DEF Broken
<1> QED
  BY <1>1, <1>4, <1>5, <1>6, <1>7

\* What the text view knows of the state.
LEMMA TextKnows ==
  ASSUME TextInv
  PROVE  /\ body \in Line /\ body.buf \in Seq(Byte) /\ body.cut \in BOOLEAN
         /\ queue \in Seq(Byte)
         /\ links \in Seq({links[i] : i \in DOMAIN links}) /\ Len(links) \in Nat
<1>1. body \in Line /\ queue \in Seq(Byte)
  BY DEF TextInv, BodyInv, Pair, QueueInv
<1>2. links \in Seq({links[i] : i \in DOMAIN links})
  BY DEF TextInv, LinksTyped
<1>3. Len(links) \in Nat
  BY <1>2
<1> QED
  BY <1>1, <1>2, <1>3 DEF Line

LEMMA Quiet ==
  ASSUME TextInv, MarksInv, queue = << >>, queue' = << >>, body'.buf = body.buf, body'.cut = body.cut,
         UNCHANGED links, anchor' = anchor \/ anchor' = << >> \/ anchor' = <<Len(body.buf)>>
  PROVE  MarksInv'
<1>1. Coming = body.buf /\ Coming' = body.buf
  BY DEF Coming
<1>2. body.buf \in Seq(Byte) /\ Len(body.buf) \in Nat
  BY TextKnows
<1>3. SUFFICES ASSUME ~body.cut PROVE Upright(body.buf, links, anchor')
  BY <1>1 DEF MarksInv
<1>4. Upright(body.buf, links, anchor)
  BY <1>1, <1>3 DEF MarksInv
<1>5. CASE anchor' = <<Len(body.buf)>>
  <2>1. anchor'[1] = Len(body.buf)
    BY <1>5
  <2> QED
    BY <1>2, <1>4, <2>1 DEF Upright, StartsAt
<1>6. CASE anchor' = << >>
  BY <1>4, <1>6 DEF Upright, StartsAt
<1>7. CASE anchor' = anchor
  BY <1>4, <1>7
<1> QED
  BY <1>5, <1>6, <1>7

LEMMA Queued ==
  ASSUME TextInv, MarksInv, queue = << >>, ~in_title', body' \in Line, body'.buf = body.buf,
         body'.cut = body.cut, Unit(queue'), UNCHANGED <<links, anchor>>
  PROVE  MarksInv'
<1>1. Coming = body.buf /\ Coming' = IF queue' = << >> THEN body.buf ELSE Apart(body') \o queue'
  BY DEF Coming
<1>2. body.buf \in Seq(Byte) /\ Len(links) \in Nat
  BY TextKnows
<1>3. SUFFICES ASSUME ~body.cut PROVE Upright(Coming', links, anchor)
  BY DEF MarksInv
<1>4. Upright(body.buf, links, anchor)
  BY <1>1, <1>3 DEF MarksInv
<1>5. PICK e \in Line : e = body'
  OBVIOUS
<1>6. Apart(body') = Apart(e) /\ e.buf = body.buf
  BY <1>5
<1>7. Apart(e) \in Seq(Byte) /\ Upright(Apart(e), links, anchor)
  BY <1>2, <1>4, <1>6, ApartGrows
<1>8. PICK q : q = queue' /\ Unit(q)
  OBVIOUS
<1>9. Upright(Apart(e) \o q, links, anchor)
  BY <1>2, <1>7, <1>8, UprightGrows
<1> QED
  BY <1>1, <1>4, <1>6, <1>8, <1>9

\* A byte of the queue takes its place.
LEMMA QueueOut ==
  ASSUME NEW s \in Seq(Byte), NEW q \in Seq(Byte), q # << >>
  PROVE  /\ Head(q) \in Byte /\ Tail(q) \in Seq(Byte)
         /\ s \o q = Append(s, Head(q)) \o Tail(q)
         /\ Tail(q) = << >> => s \o q = Append(s, Head(q))
<1>1. Head(q) \in Byte /\ Tail(q) \in Seq(Byte)
  OBVIOUS
<1>2. s \o q = Append(s, Head(q)) \o Tail(q)
  BY SMTT(60)
<1>3. PICK u \in Seq(Byte) : u = Append(s, Head(q))
  <2>1. \A c \in Byte : Append(s, c) \in Seq(Byte)
    OBVIOUS
  <2> QED
    BY <1>1, <2>1, Zenon
<1>4. u \o << >> = u
  OBVIOUS
<1>5. Tail(q) = << >> => s \o q = Append(s, Head(q))
  <2>1. SUFFICES ASSUME Tail(q) = << >> PROVE s \o q = u
    BY <1>3, Zenon
  <2>2. s \o q = u \o Tail(q)
    BY <1>2, <1>3, Zenon
  <2> QED
    BY <1>4, <2>1, <2>2, Zenon
<1> QED
  BY <1>1, <1>2, <1>5

LEMMA MarksByEmit ==
  ASSUME TextInv, MarksInv, EmitByte
  PROVE  MarksInv'
<1>1. /\ queue # << >> /\ queue' = Tail(queue) /\ in_title' = in_title /\ UNCHANGED <<anchor, links>>
      /\ IF in_title THEN body' = body ELSE body' = BodyEmitChar(body, Head(queue))
  BY DEF EmitByte, flags, linkVars
<1>2. /\ body \in Line /\ body.buf \in Seq(Byte) /\ body.cut \in BOOLEAN /\ queue \in Seq(Byte)
      /\ Len(links) \in Nat
  BY TextKnows
<1>3. CASE in_title
  <2>1. body' = body /\ Coming' = Coming
    BY <1>1, <1>3 DEF Coming
  <2> QED
    BY <1>1, <2>1 DEF MarksInv
<1>4. CASE ~in_title
  <2>1. PICK c : c = Head(queue)
    OBVIOUS
  <2>2. PICK r : r = BodyEmitChar(body, c)
    OBVIOUS
  <2>3. c \in Byte /\ body' = r /\ Tail(queue) \in Seq(Byte)
    BY <1>1, <1>2, <1>4, <2>1, <2>2, QueueOut
  <2>4. SUFFICES ASSUME ~r.cut PROVE Upright(Coming', links, anchor)
    BY <1>1, <2>3 DEF MarksInv
  <2>5. /\ Written(r, body, Apart(body), c)
        /\ r.pending_newline = (body.pending_newline /\ Full(body))
        /\ r.pending_space = (Full(body) /\ (body.pending_newline \/ SpaceDue(body)) /\ body.pending_space)
    BY <1>2, <2>2, <2>3, EmitWrites
  <2>6. ~FullAt(body, Apart(body)) /\ ~body.cut /\ ~Full(body)
    <3>1. ~FullAt(body, Apart(body)) /\ ~body.cut
      BY <2>4, <2>5 DEF Written
    <3>2. \A x \in Byte : Append(body.buf, x) \in Seq(Byte) /\ Len(Append(body.buf, x)) = Len(body.buf) + 1
      BY <1>2
    <3>3. Len(Apart(body)) >= Len(body.buf) /\ Len(Apart(body)) \in Nat /\ Len(body.buf) \in Nat
      BY <1>2, <3>2, GapUnits DEF Apart
    <3> QED
      BY <3>1, <3>3, TextConstants DEF Full, FullAt
  <2>7. Upright(Coming, links, anchor)
    BY <2>6 DEF MarksInv
  <2>8. Coming = Apart(body) \o queue
    BY <1>1, <1>4 DEF Coming
  <2>9. Apart(body) \in Seq(Byte)
    BY <1>2, GapUnits DEF Apart
  <2>10. r.buf = Append(Apart(body), c) /\ Apart(r) = r.buf
    BY <2>5, <2>6 DEF Written, Apart, SpaceDue
  <2>11. Coming' = Coming
    <3>1. Coming' = IF Tail(queue) = << >> THEN r.buf ELSE Apart(r) \o Tail(queue)
      BY <1>1, <1>4, <2>3 DEF Coming
    <3>2. /\ Apart(body) \o queue = Append(Apart(body), c) \o Tail(queue)
          /\ Tail(queue) = << >> => Apart(body) \o queue = Append(Apart(body), c)
      BY <1>1, <1>2, <2>1, <2>9, QueueOut
    <3> QED
      BY <2>8, <2>10, <3>1, <3>2, Zenon
  <2> QED
    BY <2>7, <2>11
<1> QED
  BY <1>3, <1>4

LEMMA BytesUnit ==
  ASSUME NEW c
  PROVE  Unit(Bytes(c))
<1>1. CASE Bytes(c) = <<Ink>>
  <2>1. PICK i : i = Ink
    OBVIOUS
  <2>2. i \in {"s", "t", "x"}
    BY <2>1 DEF Ink
  <2>3. i \in Byte /\ i \notin {"[", "lead", "cont"}
    BY <2>2 DEF Byte, Inky
  <2> QED
    BY <1>1, <2>1, <2>3, ByteUnit
<1>2. CASE Bytes(c) = <<"lead", "cont", "cont">>
  <2>1. PICK e : e = <<"lead", "cont", "cont">>
    OBVIOUS
  <2>2. "lead" \in Byte /\ "cont" \in Byte
    BY DEF Byte, Inky
  <2>3. e \in Seq(Byte) /\ Len(e) = 3 /\ e[1] = "lead" /\ e[2] = "cont" /\ e[3] = "cont"
    BY <2>1, <2>2
  <2>4. \A i \in 1..Len(e) : i = 1 \/ i = 2 \/ i = 3
    BY <2>3
  <2>5. Chars(e)
    <3>1. 1 + 1 = 2 /\ 1 + 2 = 3 /\ 2 - 1 = 1 /\ 3 - 1 = 2 /\ 2 > 1 /\ 3 > 1
      OBVIOUS
    <3> QED
      BY <2>3, <2>4, <3>1 DEF Chars
  <2>6. \A i \in 1..Len(e) : e[i] # "["
    BY <2>3, <2>4
  <2>7. Unit(e)
    BY <2>3, <2>5, <2>6 DEF Unit
  <2> QED
    BY <1>2, <2>1, <2>7
<1> QED
  BY <1>1, <1>2 DEF Bytes

LEMMA MarksByText ==
  ASSUME TextInv, MarksInv, TextInv', NEW c \in Visible \cup Blank, Text(c)
  PROVE  MarksInv'
<1>1. /\ queue = << >> /\ in_title' = in_title /\ UNCHANGED <<anchor, links>>
      /\ SkippedText(c) \/ TitleText(c) \/ BodyText(c)
  BY DEF Text, Read, linkVars
<1>2. /\ body \in Line /\ body.buf \in Seq(Byte) /\ body.cut \in BOOLEAN /\ body' \in Line
      /\ Len(links) \in Nat
  <2>1. body' \in Line
    BY DEF TextInv, BodyInv, Pair
  <2> QED
    BY <2>1, TextKnows
<1>3. CASE SkippedText(c)
  BY <1>1, <1>3, Quiet DEF SkippedText, out
<1>4. CASE TitleText(c)
  <2>1. body' = body /\ in_title' /\ in_title
    BY <1>1, <1>4 DEF TitleText
  <2>2. Coming' = body.buf /\ Coming = body.buf
    BY <1>1, <2>1 DEF Coming
  <2> QED
    BY <1>1, <2>1, <2>2 DEF MarksInv
<1>5. CASE BodyText(c)
  <2>1. /\ ~in_skip /\ ~in_title
        /\ \/ c \in Visible /\ queue' = Bytes(c) /\ UNCHANGED <<body, whole>>
           \/ c \notin Visible /\ in_pre /\ c # Nbsp /\ PreBlank(c)
           \/ c \notin Visible /\ body' = BodySpace(body) /\ whole' = BodySpace(whole) /\ UNCHANGED queue
    BY <1>5, BodyTextIs
  <2>2. CASE queue' = Bytes(c) /\ body' = body
    <3>1. Unit(queue')
      BY <2>2, BytesUnit
    <3> QED
      BY <1>1, <1>2, <2>1, <2>2, <3>1, Queued
  <2>3. CASE body' = BodySpace(body) /\ UNCHANGED queue
    <3>1. PICK r : r = BodySpace(body)
      OBVIOUS
    <3>2. r.buf = body.buf /\ r.cut = body.cut
      BY <1>2, <3>1, SpaceIs
    <3> QED
      BY <1>1, <2>3, <3>1, <3>2, Quiet
  <2>4. CASE c \notin Visible /\ c # Nbsp /\ PreBlank(c)
    <3>1. /\ UNCHANGED queue
          /\ body' = body \/ (c # "\r" /\ body' = BodyEmitPreByte(body, c))
      BY <2>4 DEF PreBlank
    <3>2. c \in Byte
      BY <2>4, BlankBytes
    <3>3. CASE body' = body
      BY <1>1, <3>1, <3>3, Quiet
    <3>4. CASE body' = BodyEmitPreByte(body, c)
      <4>1. PICK r : r = BodyEmitPreByte(body, c)
        OBVIOUS
      <4>2. Written(r, body, Broken(body), c)
        BY <1>2, <3>2, <4>1, PreWrites
      <4>3. SUFFICES ASSUME ~r.cut PROVE Upright(r.buf, links, anchor)
        <5>1. Coming' = r.buf
          BY <1>1, <3>1, <3>4, <4>1 DEF Coming
        <5> QED
          BY <1>1, <3>4, <4>1, <5>1 DEF MarksInv
      <4>4. ~FullAt(body, Broken(body)) /\ ~body.cut
        BY <4>2, <4>3 DEF Written
      <4>5. Upright(body.buf, links, anchor)
        BY <1>1, <4>4 DEF MarksInv, Coming
      <4>6. Broken(body) \in Seq(Byte) /\ Upright(Broken(body), links, anchor)
        BY <1>2, <4>5, ApartGrows
      <4>7. ~Full(body)
        <5>1. \A x \in Byte : Len(Append(body.buf, x)) = Len(body.buf) + 1
          BY <1>2
        <5>2. Len(Broken(body)) >= Len(body.buf) /\ Len(Broken(body)) \in Nat /\ Len(body.buf) \in Nat
          BY <1>2, <5>1, GapUnits DEF Broken
        <5> QED
          BY <4>4, <5>2, TextConstants DEF Full, FullAt
      <4>8. r.buf = Append(Broken(body), c)
        BY <4>2, <4>4, <4>7 DEF Written
      <4>9. Append(Broken(body), c) = Broken(body) \o <<c>>
        BY <3>2, <4>6
      <4>10. Unit(<<c>>)
        <5>1. c \in {Space, "\n", "\t", "\r"}
          BY <2>4, Zenon DEF Blank, Nbsp, Space
        <5>2. Space \notin {"[", "lead", "cont"}
          BY Zenon DEF Space
        <5> QED
          BY <3>2, <5>1, <5>2, ByteUnit
      <4> QED
        BY <1>2, <4>6, <4>8, <4>9, <4>10, UprightGrows
    <3> QED
      BY <3>1, <3>3, <3>4
  <2> QED
    BY <2>1, <2>2, <2>3, <2>4
<1> QED
  BY <1>1, <1>3, <1>4, <1>5

LEMMA BulletUnit ==
  ASSUME NEW e \in Seq(Bullet)
  PROVE  Unit(e)
<1>1. Bullet \subseteq Byte
  BY BulletBytes, BodyBytes
<1>2. e \in Seq(Byte)
  BY <1>1
<1>3. \A i \in 1..Len(e) : e[i] \in Bullet
  OBVIOUS
<1>4. \A i \in 1..Len(e) : e[i] # "[" /\ e[i] # "lead" /\ e[i] # "cont"
  BY <1>3, BulletBytes
<1> QED
  BY <1>2, <1>4 DEF Unit, Chars

LEMMA MarksByStart ==
  ASSUME TextInv, MarksInv, TextInv', NEW name \in Known, NEW self_closing \in BOOLEAN,
         NEW unclosed \in BOOLEAN, NEW href, Start(name, self_closing, href, unclosed)
  PROVE  MarksInv'
<1>1. /\ queue = << >> /\ feed = "any" /\ UNCHANGED links
      /\ \/ ~self_closing /\ (StartSkip(name) \/ StartTitle(name))
         \/ StartAnchor(name, href)
         \/ StartBlock(name, self_closing)
         \/ StartOther(name, self_closing)
  BY DEF Start, Read
<1>2. body \in Line /\ body' \in Line
  BY DEF TextInv, BodyInv, Pair
<1>3. CASE StartSkip(name) \/ StartTitle(name) \/ StartAnchor(name, href) \/ StartOther(name, self_closing)
  <2>1. body' = body /\ queue' = << >> /\ (anchor' = anchor \/ anchor' = << >> \/ anchor' = <<Len(body.buf)>>)
    BY <1>1, <1>3 DEF StartSkip, StartTitle, StartAnchor, StartOther, out
  <2> QED
    BY <1>1, <2>1, Quiet
<1>4. CASE StartBlock(name, self_closing)
  <2>1. /\ in_title' = in_title /\ anchor' = anchor /\ body' = BodyFlushBlock(body)
        /\ StartPre(name) \/ StartList(name) \/ StartItem(name) \/ UNCHANGED queue
    BY <1>4 DEF StartBlock, Flushed
  <2>2. PICK r : r = BodyFlushBlock(body)
    OBVIOUS
  <2>3. body'.buf = body.buf /\ body'.cut = body.cut
    BY <1>2, <2>1, <2>2, FlushIs
  <2>4. CASE UNCHANGED queue
    BY <1>1, <2>1, <2>3, <2>4, Quiet
  <2>5. CASE StartItem(name)
    <3>1. ListInv /\ ~in_title'
      BY <1>1, <2>1 DEF TextInv, ReadInv
    <3>2. list_depth \in Nat /\ (Numbered => list_stack[list_depth].counter + 1 \in Nat)
      BY <3>1, ListsTyped DEF Numbered, Item
    <3>3. queue' \in Seq(Bullet)
      BY <2>5, <3>2, ItemIs, ItemBytes
    <3>4. Unit(queue')
      BY <3>3, BulletUnit
    <3> QED
      BY <1>1, <1>2, <2>1, <2>3, <3>1, <3>4, Queued
  <2>6. StartPre(name) \/ StartList(name) => UNCHANGED queue
    BY DEF StartPre, StartList
  <2> QED
    BY <2>1, <2>4, <2>5, <2>6
<1> QED
  BY <1>1, <1>3, <1>4

LEMMA MarksByAnchor ==
  ASSUME TextInv, MarksInv, queue = << >>, ~in_title', body' = body, anchor # << >>, anchor' = << >>,
         NEW l, l.from = anchor[1],
         l.text = CutLabel(Trim(SubSeq(body.buf, anchor[1] + 1, Len(body.buf)))),
         links' = Append(links, l), queue' = Mark(Len(links) + 1)
  PROVE  MarksInv'
<1>1. /\ body \in Line /\ body.buf \in Seq(Byte) /\ Len(links) \in Nat
      /\ links \in Seq({links[i] : i \in DOMAIN links})
  BY TextKnows
<1>2. SUFFICES ASSUME ~body.cut PROVE Upright(Coming', links', anchor')
  BY DEF MarksInv
<1>3. Upright(body.buf, links, anchor)
  BY <1>2 DEF MarksInv, Coming
<1>4. PICK s \in Seq(Byte) : s = body.buf
  BY <1>1
<1>5. Chars(s) /\ l.from \in 0..Len(s) /\ (l.from < Len(s) => s[l.from + 1] # "cont")
  BY <1>3, <1>4 DEF Upright, Noted, StartsAt
<1>6. PICK u : u = Apart(body)
  OBVIOUS
<1>7. u \in Seq(Byte) /\ Noted(u, links) /\ (u = s \/ u = Append(s, "\n") \/ u = Append(s, Space))
  BY <1>1, <1>3, <1>4, <1>6, ApartGrows DEF Upright
<1>8. LabelAt(u, l, Len(u) + 1)
  BY <1>4, <1>5, <1>7, NewLabel
<1>9. PICK X : X = {links[i] : i \in DOMAIN links} \cup {l}
  OBVIOUS
<1>10. links \in Seq(X) /\ l \in X
  BY <1>1, <1>9
<1>11. Noted(u \o Mark(Len(links) + 1), Append(links, l))
  BY <1>7, <1>8, <1>10, MarkAdds
<1>12. Coming' = u \o Mark(Len(links) + 1)
  <2>1. Mark(Len(links) + 1) # << >>
    <3>1. PICK d \in Seq(Digital) : d = Digits(Len(links) + 1)
      BY <1>1, DigitsTyped
    <3>2. Mark(Len(links) + 1) = <<"[">> \o d \o <<"]">>
      BY <3>1 DEF Mark
    <3> QED
      BY <3>2
  <2>2. Apart(body') = Apart(body)
    OBVIOUS
  <2> QED
    BY <1>6, <2>1, <2>2 DEF Coming
<1> QED
  BY <1>11, <1>12 DEF Upright, StartsAt

LEMMA MarksByEnd ==
  ASSUME TextInv, MarksInv, TextInv', NEW name \in Known, NEW unclosed \in BOOLEAN, End(name, unclosed)
  PROVE  MarksInv'
<1>1. /\ queue = << >> /\ (feed = "any" \/ (feed = "raw" /\ name = raw))
      /\ EndSkip(name) \/ EndTitle(name) \/ EndAnchor(name) \/ EndBlock(name) \/ EndOther(name)
  BY EndIs DEF Read
<1>2. body \in Line
  BY DEF TextInv, BodyInv, Pair
<1>3. CASE EndSkip(name) \/ EndTitle(name) \/ EndOther(name)
  <2>1. body' = body /\ queue' = << >> /\ UNCHANGED links /\ anchor' = anchor
    BY <1>1, <1>3 DEF EndSkip, EndTitle, EndOther, out, linkVars
  <2> QED
    BY <1>1, <2>1, Quiet
<1>4. CASE EndBlock(name)
  <2>1. body' = BodyFlushBlock(body) /\ queue' = << >> /\ UNCHANGED links /\ anchor' = anchor
    BY <1>1, <1>4 DEF EndBlock, Flushed, linkVars
  <2>2. PICK r : r = BodyFlushBlock(body)
    OBVIOUS
  <2>3. body'.buf = body.buf /\ body'.cut = body.cut
    BY <1>2, <2>1, <2>2, FlushIs
  <2> QED
    BY <1>1, <2>1, <2>3, Quiet
<1>5. CASE EndAnchor(name)
  <2>1. name = "a" /\ body' = body /\ in_title' = in_title /\ anchor' = << >>
    BY <1>5 DEF EndAnchor, out, flags
  <2>2. ~in_title'
    <3>1. raw \in RawText => name # raw
      BY <2>1, NamesApart
    <3> QED
      BY <1>1, <2>1, <3>1 DEF TextInv, ReadInv
  <2>3. CASE UNCHANGED <<links, queue>>
    BY <1>1, <2>1, <2>3, Quiet
  <2>4. CASE anchor # << >> /\ Len(links) < MaxLinks
    <3> DEFINE l == [from |-> anchor[1],
                     text |-> CutLabel(Trim(SubSeq(body.buf, anchor[1] + 1, Len(body.buf))))]
    <3>1. links' = Append(links, l) /\ queue' = Mark(Len(links) + 1)
      BY <1>5, <2>4 DEF EndAnchor
    <3>2. /\ l.from = anchor[1]
          /\ l.text = CutLabel(Trim(SubSeq(body.buf, anchor[1] + 1, Len(body.buf))))
      OBVIOUS
    <3> HIDE DEF l
    <3> QED
      BY <1>1, <2>1, <2>2, <2>4, <3>1, <3>2, MarksByAnchor
  <2> QED
    BY <1>5, <2>3, <2>4 DEF EndAnchor
<1> QED
  BY <1>1, <1>3, <1>4, <1>5

LEMMA MarksAtFirst == Init => MarksInv
<1> SUFFICES ASSUME Init PROVE MarksInv
  OBVIOUS
<1>1. body.buf = << >> /\ queue = << >> /\ anchor = << >> /\ links = << >>
  BY DEF Init, EmptyLine
<1>2. Coming = << >>
  BY <1>1 DEF Coming
<1>3. Noted(<< >>, << >>)
  <2>1. Len(<< >>) = 0 /\ 1..0 = {}
    OBVIOUS
  <2>2. Chars(<< >>)
    BY <2>1 DEF Chars
  <2>3. [k \in {} |-> 0] \in [{} -> {}]
    OBVIOUS
  <2>4. Marked(<< >>, << >>, [k \in {} |-> 0])
    BY <2>1, <2>3 DEF Marked
  <2> QED
    BY <2>2, <2>4 DEF Noted
<1> QED
  BY <1>1, <1>2, <1>3 DEF MarksInv, Upright, StartsAt

LEMMA EveryMark == TextInv /\ MarksInv /\ TextInv' /\ [Next]_vars => MarksInv'
<1> SUFFICES ASSUME TextInv, MarksInv, TextInv', [Next]_vars PROVE MarksInv'
  OBVIOUS
<1>1. seen \in Seen
  BY DEF TextInv, ReadInv
<1>2. CASE EmitByte
  BY <1>2, MarksByEmit
<1>3. ASSUME NEW c \in seen.of.characters, Text(c) PROVE MarksInv'
  BY <1>1, <1>3, SeenTyped, MarksByText
<1>4. ASSUME NEW name \in seen.of.tags, NEW self_closing \in BOOLEAN, NEW unclosed \in BOOLEAN,
             NEW href, Start(name, self_closing, href, unclosed)
      PROVE  MarksInv'
  BY <1>1, <1>4, SeenTyped, MarksByStart
<1>5. ASSUME NEW name \in seen.of.tags, NEW unclosed \in BOOLEAN, End(name, unclosed) PROVE MarksInv'
  BY <1>1, <1>5, SeenTyped, MarksByEnd
<1>6. CASE UnclosedComment \/ Finish \/ UNCHANGED vars
  <2>1. UNCHANGED <<body, queue, in_title, links, anchor>>
    BY <1>6 DEF UnclosedComment, Finish, vars, out, flags, linkVars
  <2> QED
    BY <2>1 DEF MarksInv, Coming
<1> QED
  BY <1>2, <1>3, <1>4, <1>5, <1>6 DEF Next, Token, Rendered

LEMMA InvMarks == TextInv /\ MarksInv => MarkersMatchLinks
<1> SUFFICES ASSUME TextInv, MarksInv PROVE MarkersMatchLinks
  OBVIOUS
<1>1. body.buf \in Seq(Byte) /\ Len(links) \in Nat
  BY TextKnows
<1>2. CASE queue = << >> /\ ~body.cut
  BY <1>1, <1>2, NotedSays DEF MarksInv, Coming, Upright
<1>3. CASE ~(queue = << >> /\ ~body.cut)
  BY <1>3, Zenon DEF MarkersMatchLinks
<1> QED
  BY <1>2, <1>3

\* The numbers in the text are those of the link table, each once and in its
\* order, and each behind the text that is its label, for every document and
\* every size of the table and of a label; and no label, cut or not, has a part
\* of a character (handle_anchor_end with its trimming and cutting, emit_marker).
THEOREM MarksSafe == Spec => []MarkersMatchLinks
<1>1. Spec => []MarksInv
  BY TextInvariant, MarksAtFirst, EveryMark, PTL DEF Spec
<1> QED
  BY <1>1, TextInvariant, InvMarks, PTL
=============================================================================
