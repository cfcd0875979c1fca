------------------------------ MODULE Download ------------------------------
(***************************************************************************)
(* capy_download_prepare of download/download.c: whether a response may be *)
(* saved, and under which name.  A header is a sequence of bytes; a word   *)
(* of it, such as the name of a parameter, is one byte.                    *)
(***************************************************************************)
EXTENDS UrlCore, Integers, FiniteSetsExt

CONSTANTS
  CandidateMax, \* CD_BUF - 1 (511)
  NameMax       \* CAPY_DOWNLOAD_FILENAME_MAX (255)

ASSUME DownloadConstants == CandidateMax \in Nat /\ NameMax \in Nat \ {0}

NoHeader == <<"no header">>
Nul == "\\0"
Ows == {" ", "\t"}
Control == {"^", "\t"}
Separators == {"/", "\\"}
Hex == {"0", "1", "2", "F", "E"}
HeaderByte ==
  Hex \cup Ows \cup Control \cup Separators
    \cup {Nul, ".", "o", "a", "p", "%", "'", "\"", ";", "=", "filename", "filename*"}
Octet == [d \in Hex \X Hex |->
            CASE d = <<"2", "F">> -> "/" [] d = <<"2", "E">> -> "." [] d = <<"0", "0">> -> Nul
              [] d = <<"0", "1">> -> "^" [] OTHER -> "o"]

Cut(w, most) == IF Len(w) > most THEN SubSeq(w, 1, most) ELSE w
-----------------------------------------------------------------------------
(***************************************************************************)
(* cd_find_param: parameters are parted by the semicolons out of quotes.   *)
(***************************************************************************)
\* Whether each byte of a header is followed by plain or by quoted text.
Quoting(cd) ==
  LET after[i \in 0..Len(cd)] ==
        IF i = 0 THEN "plain"
        ELSE CASE after[i - 1] = "escaped" -> "quoted"
               [] after[i - 1] = "quoted" /\ cd[i] = "\\" -> "escaped"
               [] after[i - 1] # "escaped" /\ cd[i] = "\"" -> IF after[i - 1] = "plain" THEN "quoted" ELSE "plain"
               [] OTHER -> after[i - 1]
  IN after

Segments(cd) ==
  {1} \cup {i + 1 : i \in {k \in DOMAIN cd : cd[k] = ";" /\ Quoting(cd)[k - 1] = "plain"}}

\* What stands at a place, behind blanks.
From(cd, i) ==
  LET rest == SubSeq(cd, i, Len(cd))
      ink == SelectInSeq(rest, LAMBDA c : c \notin Ows)
  IN IF ink = 0 THEN << >> ELSE SubSeq(rest, ink, Len(rest))

Named(cd, name) == {i \in Segments(cd) : Starts(From(cd, i), <<name, "=">>)}

Value(cd, name) == LET at == From(cd, Min(Named(cd, name))) IN SubSeq(at, 3, Len(at))
-----------------------------------------------------------------------------
(***************************************************************************)
(* cd_extract_filename                                                     *)
(***************************************************************************)
IsTriplet(w) == Len(w) >= 3 /\ w[1] = "%" /\ w[2] \in Hex /\ w[3] \in Hex

Decoded(w) ==
  LET bytes[v \in Seq(HeaderByte)] ==
        IF v = << >> THEN << >>
        ELSE IF IsTriplet(v) THEN <<Octet[<<v[2], v[3]>>]>> \o bytes[SubSeq(v, 4, Len(v))]
        ELSE <<v[1]>> \o bytes[Tail(v)]
  IN bytes[w]

\* The value behind charset and language, if both quotes are there.
Extended(value) ==
  LET text == Until(value, {";"})
      quotes == {i \in DOMAIN text : text[i] = "'"}
  IN Decoded(IF Cardinality(quotes) < 2 THEN text
             ELSE SubSeq(text, Min(quotes \ {Min(quotes)}) + 1, Len(text)))

Plain(value) ==
  IF Starts(value, <<"\"">>) THEN Until(Tail(value), {"\""}) ELSE Until(value, Ows \cup {";"})

\* The file name of a header, << >> if it has none or an empty one.
ExtractFilename(cd) ==
  CASE cd = NoHeader -> << >>
    [] cd # NoHeader /\ Named(cd, "filename*") # {} ->
         Cut(Extended(Value(cd, "filename*")), CandidateMax)
    [] cd # NoHeader /\ Named(cd, "filename*") = {} /\ Named(cd, "filename") # {} ->
         Cut(Plain(Value(cd, "filename")), CandidateMax)
    [] OTHER -> << >>

\* A triplet of a URL's path is three bytes, of which the digits do not matter.
Spelled(w) ==
  FlattenSeq([i \in DOMAIN w |-> IF w[i] \in Triplet THEN <<"%", "digit", "digit">> ELSE <<w[i]>>])

UrlLastSegment(url) == Cut(Spelled(Behind(url.path, UpTo(url.path, LastSlash(url.path)))), CandidateMax)

BaseName(w) == LET last == SelectLastInSeq(w, LAMBDA c : c \in Separators) IN SubSeq(w, last + 1, Len(w))

Printed(w) == FlattenSeq([i \in DOMAIN w |-> IF w[i] \in Control THEN << >> ELSE <<w[i]>>])

\* Mutant of SanitizeFilename: the base name is taken of slashes alone.
SanitizeSlashes(w) ==
  LET text == Until(w, {Nul})
  IN Cut(Printed(Behind(text, UpTo(text, LastSlash(text)))), NameMax)

\* sanitize_filename; candidates are C strings.
SanitizeFilename(w) == Cut(Printed(BaseName(Until(w, {Nul}))), NameMax)

Usable(name) == name \notin {<< >>, <<".">>, <<".", ".">>}
-----------------------------------------------------------------------------
Rejected(code, url) == [verdict |-> code, url |-> url, filename |-> << >>]

Under(text, name) == [verdict |-> "ACCEPT", url |-> text, filename |-> name]

\* A response that may be saved, under the name its header gives or, where that
\* gives none, the one in its URL.
Accepted(url, text, given) ==
  LET name == SanitizeFilename(IF given # << >> THEN given ELSE UrlLastSegment(url))
  IN IF Usable(name) THEN Under(text, name)
     ELSE IF given # << >> THEN Rejected("REJECT_FILENAME", text)
     ELSE Under(text, <<"download">>)

\* No limit is 0, and a length not declared is negative.
TooLarge(length, max) == max > 0 /\ length >= 0 /\ length > max

\* capy_download_prepare
Judged(parsed, cd, length, max) ==
  LET text == Serialize(parsed.url, MaxLen)
  IN IF parsed.status # "OK" THEN Rejected("REJECT_URL", << >>)
     ELSE IF parsed.url.scheme # <<"s">> THEN Rejected("REJECT_SCHEME", << >>)
     ELSE IF text = Overflow THEN Rejected("REJECT_URL", << >>)
     ELSE IF TooLarge(length, max) THEN Rejected("REJECT_TOO_LARGE", text)
     ELSE Accepted(parsed.url, text, ExtractFilename(cd))

PrepareDownload(target, base, cd, length, max) == Judged(Parse(target, base), cd, length, max)

==============================================================================
