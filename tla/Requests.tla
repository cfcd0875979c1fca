------------------------------ MODULE Requests ------------------------------
(***************************************************************************)
(* What becomes of a reference in a page: the link table of the text view, *)
(* a form or a download resolves it against the page's URL, and the host   *)
(* prepares what comes out of that for the fetch (capy_host_prepare_url of *)
(* host/fetch.c), which parses it again.                                   *)
(***************************************************************************)
EXTENDS Download, Forms, Entities

CONSTANTS
  Links,      \* the links of the model: [href, base]
  Submits,    \* the forms: [method, action, base, fields]
  Responses   \* the downloads: [ref, base, header, length, max]

ASSUME RequestConstants ==
  /\ \A l \in Links : l.href \in Seq(Unit) /\ l.base \in Seq(Unit) \cup {NoBase}
  /\ \A f \in Submits :
       /\ f.method \in Method /\ f.action \in Seq(Unit) \cup {Null} /\ f.base \in Seq(Unit) \cup {NoBase}
       /\ f.fields \in Seq([name : Seq(FieldByte) \cup {Null}, value : Seq(FieldByte) \cup {Null}])
  /\ \A d \in Responses :
       /\ d.ref \in Seq(Unit) /\ d.base \in Seq(Unit) \cup {NoBase}
       /\ d.header \in Seq(HeaderByte) \cup {NoHeader}

VARIABLES
  call,       \* the call under way, a member of one of the sets above
  stage,      \* "asked", "answered", "prepared"
  ref,        \* the href of a link, decoded
  parsed,     \* what capy_url_parse says of a link
  form,       \* struct capy_form_request, with the status
  download,   \* struct capy_download
  target,     \* the text handed to the host, or << >>
  prepared    \* what the host makes of it: a URL, or a refusal

vars == <<call, stage, ref, parsed, form, download, target, prepared>>
-----------------------------------------------------------------------------
NotParsed == Failed("NULL")
NoForm == Refuse("GET", "NULL")
NoDownload == Rejected("REJECT_URL", << >>)

Init ==
  /\ \/ call \in {[kind |-> "link", of |-> l] : l \in Links}
     \/ call \in {[kind |-> "form", of |-> f] : f \in Submits}
     \/ call \in {[kind |-> "download", of |-> d] : d \in Responses}
  /\ stage = "asked"
  /\ ref = << >> /\ parsed = NotParsed /\ form = NoForm /\ download = NoDownload
  /\ target = << >> /\ prepared = NotParsed

Asked(kind) == stage = "asked" /\ call.kind = kind /\ stage' = "answered"

\* The text of a URL, << >> if it has none.
TextOf(result) ==
  IF result.status # "OK" \/ Serialize(result.url, MaxLen) = Overflow THEN << >>
  ELSE Serialize(result.url, MaxLen)

\* An href that does not fit once it is decoded has no URL.
ParseHref(w, base) == IF Size(w) > MaxLen THEN Failed("HREF") ELSE Parse(w, base)

\* handle_anchor_start of text_emit.c
ResolveLink ==
  /\ Asked("link")
  /\ ref' = HrefText(call.of.href)
  /\ parsed' = ParseHref(ref', call.of.base)
  /\ target' = TextOf(parsed')
  /\ UNCHANGED <<call, form, download, prepared>>

SubmitForm ==
  /\ Asked("form")
  /\ form' = Submit(call.of.method, call.of.action, call.of.base, call.of.fields)
  /\ target' = form'.url
  /\ UNCHANGED <<call, ref, parsed, download, prepared>>

Prepare ==
  /\ Asked("download")
  /\ download' = PrepareDownload(call.of.ref, call.of.base, call.of.header, call.of.length, call.of.max)
  /\ target' = download'.url
  /\ UNCHANGED <<call, ref, parsed, form, prepared>>

\* A text without "://" is taken for a host name.
NamesScheme(w) == \E i \in DOMAIN w : Starts(SubSeq(w, i, Len(w)), <<":", "/", "/">>)
WithHttps(w) == IF NamesScheme(w) THEN w ELSE <<"s", ":", "/", "/">> \o w

HttpsOnly(result) ==
  IF result.status # "OK" THEN Failed("ARGS")
  ELSE IF result.url.scheme # <<"s">> THEN Failed("SCHEME")
  ELSE IF Serialize(result.url, MaxLen) = Overflow THEN Failed("ARGS")
  ELSE result

\* capy_host_prepare_url
PrepareUrl(w) == HttpsOnly(Parse(WithHttps(w), NoBase))

HandToHost ==
  /\ stage = "answered" /\ target # << >>
  /\ stage' = "prepared"
  /\ prepared' = PrepareUrl(target)
  /\ UNCHANGED <<call, ref, parsed, form, download, target>>

Answered == (stage = "prepared" \/ (stage = "answered" /\ target = << >>)) /\ UNCHANGED vars

Next == ResolveLink \/ SubmitForm \/ Prepare \/ HandToHost \/ Answered

Spec == Init /\ [][Next]_vars
-----------------------------------------------------------------------------
(***************************************************************************)
(* Properties of the URL core.                                             *)
(***************************************************************************)
IsLink == call.kind = "link" /\ stage # "asked" /\ target # << >>

\* Whatever way a document writes the characters of a text in an href, by name
\* or by number, the text is what is read, once and no further; and what a
\* reader makes of an href is never longer than it.
HrefsAreReadOnce ==
  call.kind = "link" /\ stage # "asked" =>
    /\ \A way \in Ways : HrefText(WrittenAs(call.of.href, way)) = call.of.href
    /\ Size(ref) <= Size(call.of.href)

\* A URL that a text is parsed to.
Reads(result, url) == result.status = "OK" /\ result.url = url

\* "Normalization is idempotent: re-parsing a serialized URL reproduces it",
\* with nothing left to warn of.
NormalizationIsIdempotent ==
  IsLink => Parse(target, NoBase) = [status |-> "OK", url |-> parsed.url, warnings |-> {}]

\* A path as its list of segments, without the first slash.
SegmentsOf(path) ==
  LET of[p \in Seq(Unit)] ==
        IF p = << >> THEN << >>
        ELSE LET first == Until(Tail(p), {"/"}) IN <<first>> \o of[Behind(p, <<"/">> \o first)]
  IN of[path]

Dots == {<<".">>, <<".", ".">>}

\* "." stays, ".." goes up and never above the root.
Gone(out, s) ==
  CASE s = <<".">> -> out
    [] s = <<".", ".">> -> IF out = << >> THEN out ELSE Front(out)
    [] OTHER -> Append(out, s)

\* What the segments lead to; after a dot segment the path ends in a slash.
Walked(ss) ==
  LET walk[ts \in Seq(Seq(Unit))] == IF ts = << >> THEN << >> ELSE Gone(walk[Front(ts)], Last(ts))
  IN IF Last(ss) \in Dots THEN Append(walk[ss], << >>) ELSE walk[ss]

\* The path of a reference with an authority or a slash of its own, or one
\* put in place of the last segment of its base.
WantedPath(r, base) ==
  IF r.has_scheme \/ r.has_authority \/ Starts(r.path, <<"/">>) THEN SegmentsOf(r.path)
  ELSE Front(Walked(SegmentsOf(base.path))) \o SegmentsOf(<<"/">> \o r.path)

ResolvedPath(r, base) ==
  parsed.url.has_authority /\ r.path # << >> /\ (r.has_scheme \/ Starts(base.path, <<"/">>)) =>
    SegmentsOf(parsed.url.path) = Walked(WantedPath(r, base))

\* RFC 3986 5.2.4: dot segments are resolved as directories are, "'..' at root
\* is clamped, never escapes", for every absolute path.
PathIsResolved ==
  IsLink => ResolvedPath(Raw(Split(ref)), Raw(Split(call.of.base)))

StaysHome(home, again) ==
  home.url.has_authority => again.status = "OK" /\ Origin(again.url) = Origin(home.url)

\* A reference that names neither scheme nor authority stays with the origin
\* of its page, also once its text is read again.
ReferencesStayHome ==
  IsLink /\ ~HasScheme(ref) /\ ~HasAuthority(ref) =>
    StaysHome(Parse(call.of.base, NoBase), Parse(target, NoBase))

ResolvesTheSame(home) ==
  home.url.has_authority /\ TextOf(home) # << >> =>
    Reads(Parse(ref, TextOf(home)), parsed.url)

\* The shell keeps the normalized URL of a page: what is resolved against it
\* is what would be against the URL as it came.
BaseMayBeNormalized ==
  IsLink /\ ~HasScheme(ref) => ResolvesTheSame(Parse(call.of.base, NoBase))

\* "HTTPS-first: anything that is not https is refused at the adapter": what
\* the host prepares is the URL the link stands for.
LinkIsFetchedOrRefused ==
  IsLink /\ stage = "prepared" /\ prepared.status = "OK" =>
    parsed.url.scheme = <<"s">> /\ Origin(prepared.url) = Origin(parsed.url)

\* The same of the links that have an authority.
LinkWithAuthorityIsFetched ==
  IsLink /\ stage = "prepared" /\ parsed.url.has_authority =>
    IF parsed.url.scheme = <<"s">> THEN prepared.status = "OK" /\ prepared.url = parsed.url
    ELSE prepared.status = "SCHEME"
-----------------------------------------------------------------------------
(***************************************************************************)
(* Properties of forms and downloads.                                      *)
(***************************************************************************)
Decode(c) ==
  CASE c = "+" -> " "
    [] c = "%26" -> "&"
    [] c = "%3D" -> "="
    [] c = "%2B" -> "+"
    [] c = "%7E" -> "~"
    [] c = "%2F" -> "/"
    [] c = "%C3" -> NonAscii
    [] OTHER -> c
DecodeText(w) == [i \in DOMAIN w |-> Decode(w[i])]

\* The fields a server reads in an encoded text.
FieldsIn(text) ==
  LET parts == FoldLeft(LAMBDA ps, c : IF c = "&" THEN Append(ps, << >>)
                                       ELSE [ps EXCEPT ![Len(ps)] = Append(@, c)],
                        <<<< >>>>, text)
      field(p) == [name |-> DecodeText(Until(p, {"="})),
                   value |-> DecodeText(Tail(Behind(p, Until(p, {"="}))))]
  IN IF text = << >> THEN << >> ELSE [i \in DOMAIN parts |-> field(parts[i])]

\* The server gets the fields as they were entered, in the body or in the
\* query of the URL the host prepares, whatever is normalized on the way.
FieldsReachTheServer ==
  call.kind = "form" /\ stage = "prepared" /\ form.status = "OK" /\ prepared.status = "OK" =>
    FieldsIn(IF form.method = "GET" THEN prepared.url.query ELSE form.body) = call.of.fields

\* The name a response is saved under is one segment that stays in its
\* directory: no separator, no control byte, not empty, "." or "..", bounded.
NamesAreSafe ==
  call.kind = "download" /\ stage # "asked" /\ download.verdict = "ACCEPT" =>
    /\ Usable(download.filename) /\ Len(download.filename) <= NameMax
    /\ ToSet(download.filename) \cap (Separators \cup Control \cup {Nul}) = {}

==============================================================================
