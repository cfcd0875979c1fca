---------------------------- MODULE FetchContract ----------------------------
(***************************************************************************)
(* What host/capy_host.h promises of capy_host_fetch_https, as one step:   *)
(* a call about `url` has no reply, and then it has one that the header    *)
(* comment allows.  HostFetch implements this; HostShell relies on it and  *)
(* on nothing else of the fetch.                                           *)
(***************************************************************************)
EXTENDS Naturals

CONSTANTS
  Https,        \* the URL strings that begin with "https://"
  Cap,          \* capacity of the caller's buffer, in bytes
  ContentType,  \* values of a Content-Type header
  Disposition,  \* values of a Content-Disposition header
  None          \* an empty field of the payload

VARIABLES
  url,          \* the URL the call is about
  reply         \* None while the call runs, then what the caller sees

vars == <<url, reply>>

\* "On success, out->effective_url is the final HTTPS URL after redirects",
\* and the caller's buffer holds 0..cap bytes of the response.
Success ==
  [rc : {"OK"}, len : 0..Cap, effective_url : Https,
   content_type : ContentType \cup {None},
   content_disposition : Disposition \cup {None}]

\* Every other status comes with an empty buffer.
Failure(statuses) == [rc : statuses, len : {0}]

\* A non-HTTPS URL is refused "before any I/O"; without a network backend
\* every call is DISABLED.
Allowed(u) ==
  IF u \in Https
    THEN Success \cup Failure({"TOO_LARGE", "NETWORK", "HTTP", "SCHEME", "DISABLED"})
    ELSE Failure({"SCHEME", "DISABLED"})

Init == reply = None

Return ==
  /\ reply = None
  /\ reply' \in Allowed(url)
  /\ UNCHANGED url

Spec == Init /\ [][Return]_vars /\ WF_vars(Return)
==============================================================================
