------------------------------ MODULE UrlCore ------------------------------
(***************************************************************************)
(* The URL core of url/: url_parse.c, url_normalize.c and origin.c, as     *)
(* operators.  A text is a sequence of units: a unit is a character, a     *)
(* percent triplet, a byte out of ASCII, or a '%' that begins no triplet.  *)
(* "s" stands for the letters of https, the scheme with a default port.    *)
(***************************************************************************)
EXTENDS Naturals, Sequences, SequencesExt

CONSTANTS
  MaxLen,      \* CAPY_URL_MAX_LEN (2048)
  SchemeMax,   \* CAPY_URL_SCHEME_MAX (32)
  HostMax,     \* CAPY_URL_HOST_MAX (256)
  PathMax,     \* CAPY_URL_PATH_MAX (2048)
  QueryMax,    \* CAPY_URL_QUERY_MAX (2048), and CAPY_URL_FRAGMENT_MAX
  MaxPort,     \* 65535
  HttpsPort    \* 443

ASSUME UrlConstants ==
  /\ {MaxLen, SchemeMax, HostMax, QueryMax} \subseteq Nat /\ PathMax \in Nat \ {0}
  /\ MaxPort \in Nat /\ HttpsPort \in 1..MaxPort

Alpha == {"a", "s", "x", "A", "S"}
Digit == {"0", "1", "2", "3", "4", "5", "6", "7", "8", "9"}
\* Triplets of an unreserved octet, and of one of either case of digits.
Triplet == {"%2E", "%41", "%7E", "%2f", "%2F", "%C3", "%26", "%3D", "%2B"}
\* A unit of two bytes: a '%' with a byte behind it that is no hex digit.
BadTriplet == "%g"
NonAscii == "e'"
Punctuation == {"/", ".", ":", "?", "#", "@", "[", "]", "~", "+", "&", "=", ";"}
Refused == {" ", "^"}
Unit == Alpha \cup Digit \cup Triplet \cup {BadTriplet, NonAscii} \cup Punctuation \cup Refused

Width(c) == IF c \in Triplet THEN 3 ELSE IF c = BadTriplet THEN 2 ELSE 1
Size(w) == FoldLeft(LAMBDA n, c : n + Width(c), 0, w)

\* The units of w before the first of stops, and those of w behind a prefix.
Until(w, stops) ==
  LET i == SelectInSeq(w, LAMBDA c : c \in stops)
  IN IF i = 0 THEN w ELSE SubSeq(w, 1, i - 1)
Behind(w, prefix) == SubSeq(w, Len(prefix) + 1, Len(w))
Starts(w, prefix) == IsPrefix(prefix, w)

\* The code of the first check that fails; an entry is a condition and its code.
FirstError(checks) ==
  LET i == SelectInSeq(checks, LAMBDA c : c[1])
  IN IF i = 0 THEN "OK" ELSE checks[i][2]

\* The first code that is not "OK".
FirstOf(codes) ==
  LET i == SelectInSeq(codes, LAMBDA c : c # "OK")
  IN IF i = 0 THEN "OK" ELSE codes[i]
-----------------------------------------------------------------------------
(***************************************************************************)
(* parse_raw: the components of a reference, or the first error in it.     *)
(***************************************************************************)
\* validate_input: what comes first, the length or a byte that is refused.
InputError(w) ==
  LET clean == Until(w, Refused)
  IN FirstError(<< <<Size(clean) >= MaxLen /\ (clean # w \/ Size(w) > MaxLen), "TOO_LONG">>,
                   <<clean # w /\ w[Len(clean) + 1] = " ", "SPACE">>,
                   <<clean # w, "CONTROL">>, <<w = << >>, "EMPTY">> >>)

SchemeChar == Alpha \cup Digit \cup {".", "+"}
SchemeWord(w) == Until(w, Unit \ SchemeChar)
HasScheme(w) ==
  w # << >> /\ w[1] \in Alpha /\ Starts(Behind(w, SchemeWord(w)), <<":">>)
Hier(w) == IF HasScheme(w) THEN Tail(Behind(w, SchemeWord(w))) ELSE w

HasAuthority(w) == Starts(Hier(w), <<"/", "/">>)
Authority(w) == Until(SubSeq(Hier(w), 3, Len(Hier(w))), {"/", "?", "#"})
IsLiteral(auth) == Starts(auth, <<"[">>)
Host(auth) ==
  IF IsLiteral(auth) /\ Contains(auth, "]") THEN Append(Until(auth, {"]"}), "]")
  ELSE Until(auth, {":"})
PortPart(auth) == Behind(auth, Host(auth))
PortDigits(auth) == SubSeq(PortPart(auth), 2, Len(PortPart(auth)))

DigitValue ==
  [d \in Digit |->
    CASE d = "0" -> 0 [] d = "1" -> 1 [] d = "2" -> 2 [] d = "3" -> 3 [] d = "4" -> 4
      [] d = "5" -> 5 [] d = "6" -> 6 [] d = "7" -> 7 [] d = "8" -> 8 [] d = "9" -> 9]
PortValue(ds) == FoldLeft(LAMBDA n, d : 10 * n + DigitValue[d], 0, ds)
IsPort(ds) == ToSet(ds) \subseteq Digit /\ PortValue(ds) <= MaxPort

AuthorityError(auth) ==
  FirstError(<< <<Contains(auth, "@"), "HOST">>,
                <<IsLiteral(auth) /\ ~Contains(auth, "]"), "HOST">>,
                <<PortPart(auth) # << >> /\ PortPart(auth)[1] # ":", "HOST">>,
                <<Host(auth) = << >>, "HOST">>,
                <<Size(Host(auth)) > HostMax, "OVERFLOW">>,
                <<~IsPort(PortDigits(auth)), "PORT">> >>)

AfterAuthority(w) ==
  IF HasAuthority(w) THEN Behind(Hier(w), <<"/", "/">> \o Authority(w)) ELSE Hier(w)
Path(w) == Until(AfterAuthority(w), {"?", "#"})
AfterPath(w) == Behind(AfterAuthority(w), Path(w))
HasQuery(w) == Starts(AfterPath(w), <<"?">>)
Query(w) == IF HasQuery(w) THEN Until(Tail(AfterPath(w)), {"#"}) ELSE << >>
HasFragment(w) == Contains(w, "#")
Fragment(w) == IF HasFragment(w) THEN SubSeq(w, SelectInSeq(w, LAMBDA c : c = "#") + 1, Len(w)) ELSE << >>

\* The components of a reference as they are written.
Split(w) ==
  [has_scheme |-> HasScheme(w), scheme |-> IF HasScheme(w) THEN SchemeWord(w) ELSE << >>,
   has_authority |-> HasAuthority(w),
   authority |-> IF HasAuthority(w) THEN Authority(w) ELSE << >>,
   path |-> Path(w),
   has_query |-> HasQuery(w), query |-> Query(w),
   has_fragment |-> HasFragment(w), fragment |-> Fragment(w)]

RawError(c) ==
  FirstOf(<<IF Size(c.scheme) > SchemeMax THEN "SCHEME" ELSE "OK",
            IF c.has_authority THEN AuthorityError(c.authority) ELSE "OK",
            IF Size(c.path) > PathMax THEN "OVERFLOW" ELSE "OK",
            IF Size(c.query) > QueryMax THEN "OVERFLOW" ELSE "OK",
            IF Size(c.fragment) > QueryMax THEN "OVERFLOW" ELSE "OK">>)
-----------------------------------------------------------------------------
(***************************************************************************)
(* normalize_raw                                                           *)
(***************************************************************************)
\* Mutant of Normal: a triplet is decoded whatever it stands for.
NormalOfAny(c) ==
  CASE c = "%2E" -> "."
    [] c = "%41" -> "A"
    [] c = "%7E" -> "~"
    [] c \in {"%2f", "%2F"} -> "/"
    [] c = NonAscii -> "%C3"
    [] OTHER -> c

\* capy_url_pct_normalize, of a unit
Normal(c) ==
  CASE c = "%2E" -> "."
    [] c = "%41" -> "A"
    [] c = "%7E" -> "~"
    [] c = "%2f" -> "%2F"
    [] c = NonAscii -> "%C3"
    [] OTHER -> c

NormalWarning(c) ==
  CASE c \in {"%2E", "%41", "%7E"} -> {"PERCENT_UNRESERVED_DECODED"}
    [] c = "%2f" -> {"PERCENT_CASE_NORMALIZED"}
    [] c = NonAscii -> {"NON_ASCII_PCT_ENCODED"}
    [] OTHER -> {}

Normalized(w) == [i \in DOMAIN w |-> Normal(w[i])]
NormalWarnings(w) == UNION {NormalWarning(w[i]) : i \in DOMAIN w}

\* Whatever comes first, a bad triplet or the end of the buffer.
NormalError(w, cap) ==
  LET good == Until(w, {BadTriplet})
  IN FirstError(<< <<Size(Normalized(good)) > cap, "OVERFLOW">>, <<good # w, "PERCENT">> >>)

\* capy_url_lower_inplace
Lower(w) == [i \in DOMAIN w |-> IF w[i] = "A" THEN "a" ELSE IF w[i] = "S" THEN "s" ELSE w[i]]

ComponentsError(c) ==
  FirstOf(<<NormalError(Host(c.authority), HostMax), NormalError(c.path, PathMax),
            NormalError(c.query, QueryMax), NormalError(c.fragment, QueryMax)>>)

RefError(w, c) == FirstOf(<<InputError(w), RawError(c), ComponentsError(c)>>)

\* The normalized components; no port is no digits.
Raw(c) ==
  LET digits == PortDigits(c.authority)
  IN [has_scheme |-> c.has_scheme, scheme |-> Lower(c.scheme),
      has_authority |-> c.has_authority, host |-> Lower(Normalized(Host(c.authority))),
      has_port |-> digits # << >>, port |-> PortValue(digits),
      path |-> Normalized(c.path),
      has_query |-> c.has_query, query |-> Normalized(c.query),
      has_fragment |-> c.has_fragment, fragment |-> Normalized(c.fragment)]

RawWarnings(c) == NormalWarnings(Host(c.authority) \o c.path \o c.query \o c.fragment)
-----------------------------------------------------------------------------
(***************************************************************************)
(* Resolution (RFC 3986, 5.2).                                             *)
(***************************************************************************)
UpTo(w, i) == SubSeq(w, 1, i)
LastSlash(w) == SelectLastInSeq(w, LAMBDA c : c = "/")

\* Mutant of Pop: the slash before the segment stays.
PopName(out) == UpTo(out, LastSlash(out))

\* The last segment of the output goes, with the slash before it.
Pop(out) == IF LastSlash(out) = 0 THEN << >> ELSE UpTo(out, LastSlash(out) - 1)

\* The first segment of a path, with the slash before it.
Segment(w) ==
  IF w[1] = "/" THEN <<"/">> \o Until(Tail(w), {"/"}) ELSE Until(w, {"/"})

\* One turn of the loop takes from the input and gives to the output; loop has
\* what the other turns make of both.
Turn(in, out, loop) ==
  CASE in = << >> -> out
    [] Starts(in, <<".", ".", "/">>) -> loop[<<SubSeq(in, 4, Len(in)), out>>]
    [] Starts(in, <<".", "/">>) -> loop[<<SubSeq(in, 3, Len(in)), out>>]
    [] Starts(in, <<"/", ".", "/">>) -> loop[<<SubSeq(in, 3, Len(in)), out>>]
    [] in = <<"/", ".">> -> Append(out, "/")
    [] Starts(in, <<"/", ".", ".", "/">>) -> loop[<<SubSeq(in, 4, Len(in)), Pop(out)>>]
    [] in = <<"/", ".", ".">> -> Append(Pop(out), "/")
    [] in \in {<<".">>, <<".", ".">>} -> out
    [] OTHER -> loop[<<Behind(in, Segment(in)), out \o Segment(in)>>]

\* capy_url_remove_dot_segments
RemoveDotSegments(path) ==
  LET loop[p \in Seq(Unit) \X Seq(Unit)] == Turn(p[1], p[2], loop)
  IN loop[<<path, << >>>>]

\* merge_path
Merged(base, path) ==
  IF base.has_authority /\ base.path = << >> THEN <<"/">> \o path
  ELSE UpTo(base.path, LastSlash(base.path)) \o path

\* transform_no_scheme: the path before its dot segments are removed, of a
\* reference that does not keep the one of its base.
JoinedPath(base, ref) ==
  IF ref.has_authority \/ Starts(ref.path, <<"/">>) THEN ref.path ELSE Merged(base, ref.path)

KeepsPath(ref) == ~ref.has_authority /\ ref.path = << >>

\* Mutant of Transformed: the port of the base is left behind.
TransformedPortless(base, ref) ==
  LET from == IF ref.has_authority THEN ref ELSE base
      asks == IF KeepsPath(ref) /\ ~ref.has_query THEN base ELSE ref
  IN [ref EXCEPT !.has_scheme = TRUE, !.scheme = base.scheme,
        !.has_authority = from.has_authority, !.host = from.host,
        !.path = IF KeepsPath(ref) THEN base.path ELSE RemoveDotSegments(JoinedPath(base, ref)),
        !.has_query = asks.has_query, !.query = asks.query]

Transformed(base, ref) ==
  LET from == IF ref.has_authority THEN ref ELSE base
      asks == IF KeepsPath(ref) /\ ~ref.has_query THEN base ELSE ref
  IN [ref EXCEPT !.has_scheme = TRUE, !.scheme = base.scheme,
        !.has_authority = from.has_authority, !.host = from.host,
        !.has_port = from.has_port, !.port = from.port,
        !.path = IF KeepsPath(ref) THEN base.path ELSE RemoveDotSegments(JoinedPath(base, ref)),
        !.has_query = asks.has_query, !.query = asks.query]

DefaultPort(scheme) == IF scheme = <<"s">> THEN HttpsPort ELSE 0

\* The target with its default port dropped, and the path an authority has.
Finished(t, warnings) ==
  LET default == t.has_port /\ DefaultPort(t.scheme) # 0 /\ t.port = DefaultPort(t.scheme)
  IN [status |-> "OK",
      url |-> [scheme |-> t.scheme, has_authority |-> t.has_authority, host |-> t.host,
               has_port |-> t.has_port /\ ~default,
               port |-> IF t.has_port THEN t.port ELSE DefaultPort(t.scheme),
               path |-> IF t.has_authority /\ t.path = << >> THEN <<"/">> ELSE t.path,
               has_query |-> t.has_query, query |-> t.query,
               has_fragment |-> t.has_fragment, fragment |-> t.fragment],
      warnings |-> warnings \cup (IF default THEN {"DEFAULT_PORT_DROPPED"} ELSE {})]

Failed(code) == [status |-> code]
NoBase == <<"no base">>

DotWarning(before, after) == IF before = after THEN {} ELSE {"DOT_SEGMENTS_RESOLVED"}

\* What a base is refused for.
BaseError(base, b) ==
  FirstOf(<<IF base = NoBase THEN "BASE" ELSE InputError(base), RawError(b),
            IF b.has_scheme THEN ComponentsError(b) ELSE "BASE">>)

\* Mutant of BaseRaw: the base keeps its dot segments.
BaseRawDotted(b) == Raw(b)

BaseRaw(b) == [Raw(b) EXCEPT !.path = RemoveDotSegments(@)]

Absolute(ref, warnings) ==
  LET path == RemoveDotSegments(ref.path)
  IN Finished([ref EXCEPT !.path = path], warnings \cup DotWarning(ref.path, path))

Relative(ref, base, warnings) ==
  LET path == JoinedPath(base, ref)
  IN IF KeepsPath(ref) THEN Finished(Transformed(base, ref), warnings)
     ELSE IF Size(path) > PathMax THEN Failed("OVERFLOW")
     ELSE Finished(Transformed(base, ref), warnings \cup DotWarning(path, RemoveDotSegments(path)))

ParseSplit(input, c, base, b) ==
  IF RefError(input, c) # "OK" THEN Failed(RefError(input, c))
  ELSE IF c.has_scheme THEN Absolute(Raw(c), RawWarnings(c))
  ELSE IF BaseError(base, b) # "OK" THEN Failed(BaseError(base, b))
  ELSE Relative(Raw(c), BaseRaw(b), RawWarnings(c))

\* capy_url_parse
Parse(input, base) == ParseSplit(input, Split(input), base, Split(base))
-----------------------------------------------------------------------------
Numeral(n) == CHOOSE d \in Digit : DigitValue[d] = n

\* url_append_u32
Decimal(n) ==
  LET digits[k \in Nat] ==
        IF k < 10 THEN <<Numeral(k)>> ELSE Append(digits[k \div 10], Numeral(k % 10))
  IN digits[n]

\* capy_url_serialize: the text, or Overflow if it is over cap.
Overflow == <<"overflow">>

Serialize(url, cap) ==
  LET authority == IF ~url.has_authority THEN << >>
                   ELSE <<"/", "/">> \o url.host \o
                        (IF url.has_port THEN <<":">> \o Decimal(url.port) ELSE << >>)
      query == IF url.has_query THEN <<"?">> \o url.query ELSE << >>
      fragment == IF url.has_fragment THEN <<"#">> \o url.fragment ELSE << >>
      text == url.scheme \o <<":">> \o authority \o url.path \o query \o fragment
  IN IF Size(text) > cap THEN Overflow ELSE text

\* capy_url_origin
Origin(url) == [scheme |-> url.scheme, host |-> url.host, port |-> url.port]

==============================================================================
