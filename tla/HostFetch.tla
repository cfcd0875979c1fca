------------------------------ MODULE HostFetch ------------------------------
(***************************************************************************)
(* One call of capy_host_fetch_https (host/fetch.c) with the libcurl easy  *)
(* transfer it drives.  The code's own part is the entry, the two          *)
(* callbacks libcurl runs during curl_easy_perform, and what is done with  *)
(* the result; libcurl and the servers are the environment: they choose    *)
(* redirects, headers, chunk sizes, failures and the time they take.       *)
(***************************************************************************)
EXTENDS Naturals

CONSTANTS
  Url,          \* URL strings a caller or a Location header may hold
  Https,        \* those that begin with "https://"
  Overlong,     \* those longer than CAPY_HOST_URL_MAX
  ContentType,  \* Content-Type values
  Disposition,  \* Content-Disposition values
  None,         \* an empty payload field, or an absent header
  Status,       \* HTTP status codes servers send
  Cap,          \* payload capacity, in bytes
  MaxBody,      \* bound of the model: the longest body a server sends
  MaxRedirs     \* CURLOPT_MAXREDIRS (5 in the code)

ASSUME FetchConstants ==
  /\ Https \subseteq Url
  /\ Overlong \subseteq Url
  /\ None \notin Url
  /\ Status \subseteq Nat
  /\ Cap \in Nat \ {0}
  /\ MaxBody \in Nat
  /\ MaxRedirs \in Nat

VARIABLES
  pc,           \* entry, headers, body, collect, done
  url,          \* the URL asked for
  backend,      \* whether CAPY_HOST_HAVE_CURL was defined
  pay,          \* *out, the caller's struct capy_host_payload
  res,          \* what curl_easy_perform returned, None before
  rc,           \* the returned capy_host_status, None before
  net           \* the transfer as libcurl and the servers see it

vars == <<pc, url, backend, pay, res, rc, net>>

(***************************************************************************)
(* Helpers of the code.                                                    *)
(***************************************************************************)

\* Mutant of ResetMeta: the disposition of an earlier use is kept.
ResetMetaKeepsDisposition(p) ==
  [p EXCEPT !.truncated = FALSE, !.http_status = 0,
            !.effective_url = None, !.content_type = None]

ResetMeta(p) ==
  [p EXCEPT !.truncated = FALSE, !.http_status = 0, !.effective_url = None,
            !.content_type = None, !.content_disposition = None]

\* Mutant of Fits: one byte too many is accepted.
FitsOffByOne(p, n) == n <= Cap + 1 - p.len

Fits(p, n) == n <= Cap - p.len

\* A chunk is stored whole, or not at all and the payload is marked.
PayloadAppend(p, n) ==
  IF Fits(p, n) THEN [p EXCEPT !.len = @ + n]
                ELSE [p EXCEPT !.truncated = TRUE]

\* Mutant of Succeeded: 3xx is let through.
SucceededOrRedirect(code) == code >= 200 /\ code <= 300

Succeeded(code) == code >= 200 /\ code < 300

\* Mutant of FailureStatus: any aborted write counts as an overflow.
FailureStatusOfWrite(p, r) == IF r = "WRITE_ERROR" THEN "TOO_LARGE" ELSE "NETWORK"

\* The status of a transfer libcurl did not finish.
FailureStatus(p, r) ==
  IF p.truncated /\ r = "WRITE_ERROR" THEN "TOO_LARGE" ELSE "NETWORK"

\* Mutant of ResponseStatus: the effective URL is not judged.
ResponseStatusOfCode(p) == IF ~Succeeded(p.http_status) THEN "HTTP" ELSE "OK"

\* The status of a transfer libcurl finished, from the metadata collected.
ResponseStatus(p) ==
  IF ~Succeeded(p.http_status) THEN "HTTP"
  ELSE IF p.effective_url \notin Https THEN "SCHEME" ELSE "OK"

\* Every failing return after the transfer sets out->len to 0.
Emptied(p, status) == IF status = "OK" THEN p ELSE [p EXCEPT !.len = 0]
-----------------------------------------------------------------------------
(***************************************************************************)
(* The caller's payload is an uninitialised automatic variable (load_url   *)
(* sets buf, cap and len only), so its metadata starts with any value.  It  *)
(* always hands over a URL and a buffer of at least one byte (input_cap),   *)
(* so the check of the arguments (ERR_ARGS, fetch.c:190-192) never refuses. *)
(***************************************************************************)
Payload ==
  [len : 0..Cap, truncated : BOOLEAN, http_status : Status \cup {0},
   effective_url : Url \cup {None}, content_type : ContentType \cup {None},
   content_disposition : Disposition \cup {None}]

\* at: the URL whose response is being received; hops: redirects followed;
\* ct, cd: headers of that response; seen: every disposition received in this
\* call; total, sent: bytes of its body, and those libcurl has passed on.
Transfer ==
  [at : Url, hops : 0..MaxRedirs, ct : ContentType \cup {None},
   cd : Disposition \cup {None}, seen : SUBSET Disposition,
   status : Status \cup {0}, total : 0..MaxBody, sent : 0..MaxBody]

Init ==
  /\ pc = "entry"
  /\ url \in Url
  /\ backend \in {"curl", "none"}
  /\ pay \in {p \in Payload : p.len = 0}
  /\ res = None
  /\ rc = None
  /\ net = [at |-> url, hops |-> 0, ct |-> None, cd |-> None, seen |-> {},
            status |-> 0, total |-> 0, sent |-> 0]

Done(status) ==
  /\ rc' = status
  /\ pc' = "done"

(***************************************************************************)
(* Entry of the call.                                                      *)
(***************************************************************************)
\* The stub of a build without libcurl.
Disabled ==
  /\ pc = "entry"
  /\ backend = "none"
  /\ pay' = ResetMeta([pay EXCEPT !.len = 0])
  /\ Done("DISABLED")
  /\ UNCHANGED <<url, backend, res, net>>

RefuseScheme ==
  /\ pc = "entry"
  /\ backend = "curl"
  /\ url \notin Https
  /\ pay' = ResetMeta([pay EXCEPT !.len = 0])
  /\ Done("SCHEME")
  /\ UNCHANGED <<url, backend, res, net>>

\* curl_easy_init fails.
NoHandle ==
  /\ pc = "entry"
  /\ backend = "curl"
  /\ url \in Https
  /\ pay' = ResetMeta([pay EXCEPT !.len = 0])
  /\ Done("NETWORK")
  /\ UNCHANGED <<url, backend, res, net>>

\* The handle is configured and curl_easy_perform starts.
Perform ==
  /\ pc = "entry"
  /\ backend = "curl"
  /\ url \in Https
  /\ pay' = ResetMeta([pay EXCEPT !.len = 0])
  /\ pc' = "headers"
  /\ UNCHANGED <<url, backend, res, rc, net>>

(***************************************************************************)
(* During curl_easy_perform: the callbacks, driven by libcurl.             *)
(***************************************************************************)
\* capy_host_header_cb on a Content-Disposition line: whichever response of
\* the redirect chain it belongs to, its value is stored.  The trailer of a
\* chunked body comes by the same callback.
HeaderCb(d) ==
  /\ pc = "headers" \/ (pc = "body" /\ net.sent = net.total)
  /\ pay' = [pay EXCEPT !.content_disposition = d]
  /\ net' = [net EXCEPT !.cd = d, !.seen = @ \cup {d}]
  /\ UNCHANGED <<pc, url, backend, res, rc>>

\* CURLOPT_MAXREDIRS and CURLOPT_REDIR_PROTOCOLS.
MayFollow(location) == net.hops < MaxRedirs /\ location \in Https

\* A 3xx response with a Location: libcurl drops its body and requests the
\* new URL, or fails (too many redirects, a scheme it may not follow).
Redirect(code, location) ==
  /\ pc = "headers"
  /\ code >= 300 /\ code < 400
  /\ IF MayFollow(location)
       THEN /\ net' = [net EXCEPT !.at = location, !.hops = @ + 1, !.cd = None]
            /\ UNCHANGED <<pc, res>>
       ELSE /\ res' = "OTHER"
            /\ pc' = "collect"
            /\ UNCHANGED net
  /\ UNCHANGED <<url, backend, pay, rc>>

\* The header block of the response that is not redirected ends.
FinalHeaders(code, ct, total) ==
  /\ pc = "headers"
  /\ net' = [net EXCEPT !.status = code, !.ct = ct, !.total = total, !.sent = 0]
  /\ pc' = "body"
  /\ UNCHANGED <<url, backend, pay, res, rc>>

\* Mutant of WriteCb: an overflowing chunk is dropped and the transfer goes on.
WriteCbDiscards(n) ==
  /\ pc = "body"
  /\ n \in 1..(net.total - net.sent)
  /\ net' = [net EXCEPT !.sent = @ + n]
  /\ pay' = PayloadAppend(pay, n)
  /\ UNCHANGED <<pc, url, backend, res, rc>>

\* capy_host_write_cb on a chunk of n bytes; a short return aborts the
\* transfer with CURLE_WRITE_ERROR.
WriteCb(n) ==
  /\ pc = "body"
  /\ n \in 1..(net.total - net.sent)
  /\ net' = [net EXCEPT !.sent = @ + n]
  /\ pay' = PayloadAppend(pay, n)
  /\ IF Fits(pay, n)
       THEN UNCHANGED <<pc, res>>
       ELSE pc' = "collect" /\ res' = "WRITE_ERROR"
  /\ UNCHANGED <<url, backend, rc>>

BodyEnd ==
  /\ pc = "body"
  /\ net.sent = net.total
  /\ res' = "OK"
  /\ pc' = "collect"
  /\ UNCHANGED <<url, backend, pay, rc, net>>

\* The transfer fails: DNS, TLS, a broken connection, a decoding error, or
\* CURLOPT_TIMEOUT, which can strike at any moment.
Fail(code) ==
  /\ pc \in {"headers", "body"}
  /\ res' = code
  /\ pc' = "collect"
  /\ UNCHANGED <<url, backend, pay, rc, net>>

(***************************************************************************)
(* After curl_easy_perform.                                                *)
(***************************************************************************)
TransferFailed ==
  /\ pc = "collect"
  /\ res # "OK"
  /\ LET status == FailureStatus(pay, res)
     IN pay' = Emptied(pay, status) /\ Done(status)
  /\ UNCHANGED <<url, backend, res, net>>

\* The effective URL does not fit: the call ends before the rest is collected.
EffectiveTooLong ==
  /\ pc = "collect"
  /\ res = "OK"
  /\ net.at \in Overlong
  /\ pay' = Emptied([pay EXCEPT !.http_status = net.status], "TOO_LARGE")
  /\ Done("TOO_LARGE")
  /\ UNCHANGED <<url, backend, res, net>>

\* curl_easy_getinfo fills the metadata (each query may fail and leaves its
\* field empty), then the status and the effective URL are judged.
Classify(effective, ct) ==
  /\ pc = "collect"
  /\ res = "OK"
  /\ effective \in {net.at, None} \ Overlong
  /\ ct \in {net.ct, None}
  /\ LET info == [pay EXCEPT !.http_status = net.status,
                             !.effective_url = effective, !.content_type = ct]
         status == ResponseStatus(info)
     IN pay' = Emptied(info, status) /\ Done(status)
  /\ UNCHANGED <<url, backend, res, net>>
-----------------------------------------------------------------------------
Environment ==
  \/ \E d \in Disposition : HeaderCb(d)
  \/ \E code \in Status, location \in Url : Redirect(code, location)
  \/ \E code \in Status, ct \in ContentType \cup {None}, total \in 0..MaxBody :
       FinalHeaders(code, ct, total)
  \/ \E n \in 1..MaxBody : WriteCb(n)
  \/ BodyEnd

Timeout == \E code \in {"OTHER", "WRITE_ERROR"} : Fail(code)

Code ==
  \/ Disabled \/ RefuseScheme \/ NoHandle \/ Perform
  \/ TransferFailed \/ EffectiveTooLong
  \/ \E effective \in Url \cup {None}, ct \in ContentType \cup {None} :
       Classify(effective, ct)

\* A returned call stays returned.
Returned == pc = "done" /\ UNCHANGED vars

Next == Environment \/ Timeout \/ Code \/ Returned

\* The code runs to its next step by itself; CURLOPT_TIMEOUT bounds the whole
\* transfer however slow the servers are.  Servers owe nothing.
Spec == Init /\ [][Next]_vars /\ WF_vars(Code) /\ WF_vars(Timeout)
-----------------------------------------------------------------------------
(***************************************************************************)
(* Properties.                                                             *)
(***************************************************************************)
Statuses == {"OK", "SCHEME", "TOO_LARGE", "NETWORK", "HTTP", "DISABLED"}

\* The variables have their types.
TypeOK ==
  /\ pc \in {"entry", "headers", "body", "collect", "done"}
  /\ url \in Url
  /\ backend \in {"curl", "none"}
  /\ pay \in Payload
  /\ res \in {"OK", "WRITE_ERROR", "OTHER", None}
  /\ rc \in Statuses \cup {None}
  /\ net \in Transfer

\* While the transfer runs nothing has been dropped: the buffer holds exactly
\* what libcurl has delivered of this response (capy_host_write_cb).
NoGap == pc = "body" => ~pay.truncated /\ pay.len = net.sent

\* OK means the whole body of a 2xx response that came from the https URL
\* reported as effective: never a truncated or aborted one (capy_host.h, "On
\* success...", and the comment on capy_host_write_cb).
OkIsWholeResponse ==
  pc = "done" /\ rc = "OK" =>
    /\ ~pay.truncated
    /\ pay.len = net.total
    /\ net.status >= 200 /\ net.status < 300
    /\ pay.http_status = net.status
    /\ pay.effective_url = net.at
    /\ net.at \in Https

\* No failing return leaves bytes for the caller to render (every out->len = 0
\* of capy_host_fetch_https).
ErrorsCarryNoBytes == pc = "done" /\ rc # "OK" => pay.len = 0

\* TOO_LARGE is reported for an overflow of the buffer or of the URL field and
\* for nothing else: a transfer that broke for another reason is NETWORK.
TooLargeIsOverBudget ==
  pc = "done" =>
    /\ net.sent > Cap => rc = "TOO_LARGE"
    /\ rc = "TOO_LARGE" => net.sent > Cap \/ (res = "OK" /\ net.at \in Overlong)

\* However a redirect chain goes, a request only ever leaves for an https URL,
\* and the chain is bounded (CURLOPT_REDIR_PROTOCOLS, CURLOPT_MAXREDIRS).
RequestsStayHttps ==
  pc \in {"headers", "body"} => net.at \in Https /\ net.hops <= MaxRedirs

\* The metadata of the caller's uninitialised payload never outlives the call:
\* what it finds afterwards was received in this call (capy_host_reset_meta).
MetadataOfThisCall ==
  pc = "done" =>
    /\ pay.effective_url \in {None, net.at}
    /\ pay.content_type \in {None, net.ct}
    /\ pay.content_disposition \in net.seen \cup {None}
    /\ pay.http_status \in {0, net.status}

\* What the compatibility document says of a download, "A response whose
\* Content-Type is not text/*": its name comes from the Content-Disposition of
\* that response.  The header callback also keeps the one of a redirect.
DispositionIsOfFinalResponse ==
  pc = "done" /\ rc = "OK" => pay.content_disposition = net.cd

Contract == INSTANCE FetchContract WITH
  reply <- IF pc # "done" THEN None
           ELSE IF rc = "OK"
             THEN [rc |-> rc, len |-> pay.len, effective_url |-> pay.effective_url,
                   content_type |-> pay.content_type,
                   content_disposition |-> pay.content_disposition]
             ELSE [rc |-> rc, len |-> pay.len]

\* The call implements its contract, returning included: some reply the header
\* allows is given, once, in the end.
ImplementsContract == Contract!Spec
==============================================================================
