------------------------------ MODULE Entities ------------------------------
(***************************************************************************)
(* Character references: capy_html_charref_at of text/html_entities.c, and *)
(* decode_href of text/text_emit.c, which makes of an href the reference   *)
(* it stands for.  Texts are sequences of the units of UrlCore.            *)
(***************************************************************************)
EXTENDS UrlCore

MaxCode == 1114111    \* 0x10FFFF
Invalid == 1114112    \* CAPY_CP_INVALID
MaxDecimals == 9
MaxHexDigits == 8

Surrogate == 55296..57343

HexValue == [d \in Digit \cup {"a", "A"} |-> IF d \in Digit THEN DigitValue[d] ELSE 10]
Alnum == Alpha \cup Digit

\* g_entities: a name of one letter stands for amp, or for nbsp.
EntityTable == [name \in {<<"a">>, <<"s">>} |-> IF name = <<"a">> THEN 38 ELSE 160]

\* The characters of ASCII among the units; "^" stands for the control bytes.
Ascii ==
  [c \in Alnum \cup Punctuation \cup {" "} |->
    CASE c \in Digit -> 48 + DigitValue[c]
      [] c = " " -> 32 [] c = "#" -> 35 [] c = "&" -> 38 [] c = "+" -> 43 [] c = "." -> 46
      [] c = "/" -> 47 [] c = ":" -> 58 [] c = ";" -> 59 [] c = "=" -> 61 [] c = "?" -> 63
      [] c = "@" -> 64 [] c = "A" -> 65 [] c = "S" -> 83 [] c = "[" -> 91 [] c = "]" -> 93
      [] c = "a" -> 97 [] c = "s" -> 115 [] c = "x" -> 120 [] c = "~" -> 126]
-----------------------------------------------------------------------------
\* The run of some units that begins at place p.
Run(w, p, units) == Until(SubSeq(w, p, Len(w)), Unit \ units)
Ended(w, p) == p <= Len(w) /\ w[p] = ";"

NoReference == [length |-> 0, code |-> 0]

\* The value of a run of digits; once it is over MaxCode it stays there, and it
\* is also over with more digits than `most`.
Number(ds, radix, most) ==
  LET more(v, d) == IF v <= MaxCode THEN v * radix + HexValue[d] ELSE v
      v == FoldLeft(more, 0, ds)
  IN IF v > MaxCode \/ Len(ds) > most THEN Invalid ELSE v

\* ent_win1252_remap: five values of the C1 block stay, the others become
\* characters of two bytes, as 402 is, or of three.
Remapped(v) ==
  CASE v \notin 128..159 \/ v \in {129, 141, 143, 144, 157} -> v
    [] v \in {131, 136, 138, 140, 142, 152, 154, 156, 158, 159} -> 402
    [] OTHER -> 8364

Coded(v) == IF v = 0 \/ v \in Surrogate THEN Invalid ELSE Remapped(v)

NumericReference(w, from, digits, radix, most) ==
  LET ds == Run(w, from, digits)
  IN IF ds = << >> \/ ~Ended(w, from + Len(ds)) THEN NoReference
     ELSE [length |-> from + Len(ds), code |-> Coded(Number(ds, radix, most))]

\* Names are of 31 bytes at most, and so are those of the table.
NamedReference(w) ==
  LET name == Run(w, 2, Alnum)
  IN IF name \in DOMAIN EntityTable /\ Ended(w, 2 + Len(name))
       THEN [length |-> 2 + Len(name), code |-> EntityTable[name]]
     ELSE NoReference

\* capy_html_charref_at, where a '&' stands: how many units it takes, none if
\* it begins no reference.
Reference(w) ==
  IF Len(w) < 3 THEN NoReference
  ELSE CASE Starts(w, <<"&", "#", "x">>) -> NumericReference(w, 4, DOMAIN HexValue, 16, MaxHexDigits)
         [] Starts(w, <<"&", "#">>) /\ ~Starts(w, <<"&", "#", "x">>) ->
              NumericReference(w, 3, Digit, 10, MaxDecimals)
         [] OTHER -> NamedReference(w)

Stands(c, code) == c \in DOMAIN Ascii /\ Ascii[c] = code

\* The unit that stands for a character of ASCII that is none itself: "^" for
\* another control byte, a '%' that begins no triplet, a letter, "+" for the
\* "-" of a scheme, and "~" for the rest, which the URL core copies as it is.
OtherAscii(code) ==
  CASE code < 32 \/ code = 127 -> "^"
    [] code = 37 -> BadTriplet
    [] code = 45 -> "+"
    [] code \in 65..90 -> "A"
    [] code \in 97..122 -> "x"
    [] OTHER -> "~"

\* capy_utf8_encode, of a code point that has one.
Utf8(code) ==
  IF code < 128
    THEN IF \E c \in Unit : Stands(c, code) THEN <<CHOOSE c \in Unit : Stands(c, code)>>
         ELSE <<OtherAscii(code)>>
  ELSE [i \in 1..(IF code < 2048 THEN 2 ELSE IF code < 65536 THEN 3 ELSE 4) |-> NonAscii]

\* Mutant of HrefText: the ';' of a reference stays in the text.
HrefTextButEnd(w) ==
  LET text[in \in Seq(Unit)] ==
        IF in = << >> THEN << >>
        ELSE IF in[1] = "&" /\ Reference(in).length > 0 /\ Reference(in).code # Invalid
          THEN Utf8(Reference(in).code) \o text[SubSeq(in, Reference(in).length, Len(in))]
        ELSE <<in[1]>> \o text[Tail(in)]
  IN text[w]

\* decode_href: an invalid reference stays as it is written.
HrefText(w) ==
  LET text[in \in Seq(Unit)] ==
        IF in = << >> THEN << >>
        ELSE IF in[1] = "&" /\ Reference(in).length > 0 /\ Reference(in).code # Invalid
          THEN Utf8(Reference(in).code) \o text[SubSeq(in, Reference(in).length + 1, Len(in))]
        ELSE <<in[1]>> \o text[Tail(in)]
  IN text[w]
-----------------------------------------------------------------------------
(***************************************************************************)
(* How a document may write a text.                                        *)
(***************************************************************************)
Ways == {"named", "decimal", "padded", "hex"}

Hex2(n) == LET d == [k \in 0..15 |-> IF k < 10 THEN Numeral(k) ELSE "a"] IN <<d[n \div 16], d[n % 16]>>

CharacterAs(c, way) ==
  CASE way = "named" /\ c = "&" -> <<"&", "a", ";">>
    [] way = "decimal" /\ c \in DOMAIN Ascii -> <<"&", "#">> \o Decimal(Ascii[c]) \o <<";">>
    [] way = "padded" /\ c \in DOMAIN Ascii -> <<"&", "#", "0", "0", "0">> \o Decimal(Ascii[c]) \o <<";">>
    [] way = "hex" /\ c \in DOMAIN Ascii /\ Ascii[c] % 16 <= 10 ->
         <<"&", "#", "x">> \o Hex2(Ascii[c]) \o <<";">>
    [] OTHER -> <<c>>

WrittenAs(w, way) == FlattenSeq([i \in DOMAIN w |-> CharacterAs(w[i], way)])
==============================================================================
