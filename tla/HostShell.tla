------------------------------ MODULE HostShell ------------------------------
(***************************************************************************)
(* The text browser of host/capybrowse.c: its global state (base, current  *)
(* page, document, back history) under load_url, navigate and the          *)
(* interactive loop, one step per call that can fail or change it.  The    *)
(* user chooses what to follow; the fetch answers as FetchContract allows, *)
(* so every page may move, fail, turn into a download or change its links  *)
(* from one visit to the next.                                             *)
(***************************************************************************)
EXTENDS Naturals, Sequences

CONSTANTS
  Page,         \* the normalized URLs of scheme https, which prepare_url yields
  Ref,          \* URL strings: typed, in links, or reported as effective
  Prepare,      \* prepare_url on each of them: a Page, "ARGS" or "SCHEME"
  Origin,       \* the origin (scheme, host, port) of each of Page and Https
  LinkSets,     \* the sets of links a document may have
  Https,        \* the URL strings that begin with "https://"
  Cap,          \* capacity of the input buffer
  ContentType,  \* values of a Content-Type header
  Textual,      \* those that begin with "text/"
  Disposition,  \* values of a Content-Disposition header
  None,         \* an empty string or an absent value
  Garbled,      \* what an overflowing capy_url_serialize leaves in g_base
  MaxHistory,   \* CAPY_HISTORY_MAX (64 in the code)
  MaxTrail      \* bound of the model: pages visited and not gone back from

\* A Page of an https URL with an authority begins with "https://"; one made of
\* a scheme without "//" does not, and the fetch refuses it.
ASSUME ShellConstants ==
  /\ Page \cup Https \subseteq Ref
  /\ Prepare \in [Ref -> Page \cup {"ARGS", "SCHEME"}]
  /\ \A p \in Page : Prepare[p] = p
  /\ \A r \in Https : Prepare[r] \in (Page \cap Https) \cup {"ARGS"}
  /\ {"ARGS", "SCHEME"} \cap Page = {}
  /\ LinkSets \subseteq SUBSET Ref
  /\ Textual \subseteq ContentType
  /\ None \notin Ref \cup ContentType \cup {"ARGS", "SCHEME"}
  /\ Garbled \notin Ref \cup {None}
  /\ Cap \in Nat \ {0}
  /\ MaxHistory \in Nat /\ MaxHistory >= 2
  /\ MaxTrail \in Nat

VARIABLES
  pc,           \* load, fetch, rebase, dispatch, loaded: inside navigate;
                \* prompt: interactive_loop reads a line; local: load_local;
                \* ok, failed: main has returned 0 or 1
  mode,         \* g_mode
  interactive,  \* the -i option
  base,         \* g_base
  current,      \* g_current, the page the next Referer names
  doc,          \* g_doc: the base its links were resolved on, and its links
  history,      \* g_history[0 .. g_history_len - 1]
  target,       \* the URL navigate was given
  caller,       \* who called navigate: main, a followed link, or 'b'
  pay,          \* the payload of load_url once fetched
  referer,      \* the Referer of the request in flight
  hop,          \* the URL that request is sent to, after the redirects so far
  rc,           \* what the running or last navigation returned
  \* Auxiliary variables: they record the past for the properties.
  dropped,      \* the entries a full history has shifted out
  served,       \* every final URL that answered a fetch
  left,         \* page, document and history when the user last chose
  clean         \* no download and no moved 'b' page has been navigated to

code == <<pc, mode, interactive, base, current, doc, history, target, caller,
          pay, referer, hop, rc>>
vars == <<code, dropped, served, left, clean>>

Fetched == INSTANCE FetchContract WITH url <- base, reply <- pay
-----------------------------------------------------------------------------
(***************************************************************************)
(* Helpers of the code.                                                    *)
(***************************************************************************)
\* Mutant of HistoryPush: a full history overwrites its newest entry.
HistoryPushOverTop(h, u) ==
  IF Len(h) = MaxHistory THEN Append(SubSeq(h, 1, MaxHistory - 1), u)
                         ELSE Append(h, u)

\* history_push: a full history forgets its oldest entry.
HistoryPush(h, u) ==
  IF Len(h) = MaxHistory THEN Append(Tail(h), u) ELSE Append(h, u)

\* ct_is_textual: an absent type counts as text.
IsTextual(ct) == ct = None \/ ct \in Textual

\* Mutant of RefererFor: the private mode is forgotten.
RefererInEveryMode(m, cur, dest) ==
  IF cur = None THEN None
  ELSE IF Origin[cur] = Origin[dest] THEN <<"page", cur>> ELSE <<"origin", Origin[cur]>>

\* capy_request_identity on normalized https URLs: the whole page URL within
\* its origin, the origin alone across origins, nothing in a private session.
RefererFor(m, cur, dest) ==
  IF m = "private" \/ cur = None THEN None
  ELSE IF Origin[cur] = Origin[dest] THEN <<"page", cur>> ELSE <<"origin", Origin[cur]>>

\* Mutant of FinalPage: the URL asked for stays the base after a redirect.
FinalPageAsAsked(p) == base

\* load_url's second prepare_url: the base follows the redirects.
FinalPage(p) == IF p.effective_url = None THEN base ELSE Prepare[p.effective_url]

\* A refused prepare_url leaves g_base as it was, except when the URL is
\* serialized in part before it overflows.
Unprepared(status) == IF status = "ARGS" THEN {base, Garbled} ELSE {base}
-----------------------------------------------------------------------------
Init ==
  /\ pc \in {"load", "local"}
  /\ mode \in {"normal", "private"}
  /\ interactive \in BOOLEAN
  /\ base = None
  /\ current = None
  /\ doc = [of |-> None, links |-> {}]
  /\ history = << >>
  /\ target \in Ref
  /\ caller = "main"
  /\ pay = None
  /\ referer = None
  /\ hop = None
  /\ rc = "OK"
  /\ dropped = << >>
  /\ served = {}
  /\ left = [current |-> None, doc |-> doc, history |-> << >>]
  /\ clean = TRUE

\* load_local: a file or stdin is read and rendered, and the program ends.
LoadLocal(status, links) ==
  /\ pc = "local"
  /\ rc' = status
  /\ IF status = "OK"
       THEN doc' = [of |-> None, links |-> links] /\ pc' = "ok"
       ELSE UNCHANGED doc /\ pc' = "failed"
  /\ UNCHANGED <<mode, interactive, base, current, history, target, caller,
                 pay, referer, hop, dropped, served, left, clean>>

(***************************************************************************)
(* load_url.                                                               *)
(***************************************************************************)
\* Mutant of PrepareTarget: the status of prepare_url is ignored.
PrepareTargetUnchecked ==
  /\ pc = "load"
  /\ base' = Prepare[target]
  /\ referer' = RefererFor(mode, current, Prepare[target])
  /\ hop' = Prepare[target]
  /\ pc' = "fetch"
  /\ UNCHANGED <<mode, interactive, current, doc, history, target, caller,
                 pay, rc, dropped, served, left, clean>>

PrepareTarget ==
  /\ pc = "load"
  /\ Prepare[target] \in Page
  /\ base' = Prepare[target]
  /\ referer' = RefererFor(mode, current, Prepare[target])
  /\ hop' = Prepare[target]
  /\ pc' = "fetch"
  /\ UNCHANGED <<mode, interactive, current, doc, history, target, caller,
                 pay, rc, dropped, served, left, clean>>

RefuseTarget ==
  /\ pc = "load"
  /\ Prepare[target] \notin Page
  /\ rc' = Prepare[target]
  /\ base' \in Unprepared(Prepare[target])
  /\ pc' = "loaded"
  /\ UNCHANGED <<mode, interactive, current, doc, history, target, caller,
                 pay, referer, hop, dropped, served, left, clean>>

\* libcurl follows a redirect: it sends the same request to the new URL, and
\* CURLOPT_REFERER goes along as it was set for the URL asked for.
FollowRedirect(location) ==
  /\ pc = "fetch"
  /\ hop \in Https
  /\ hop' = location
  /\ UNCHANGED <<pc, mode, interactive, base, current, doc, history, target,
                 caller, pay, referer, rc, dropped, served, left, clean>>

\* The fetch returns; the effective URL of a page is that of its last hop.
FetchPage(reply) ==
  /\ pc = "fetch"
  /\ reply.rc = "OK" => reply.effective_url = hop
  /\ rc' = reply.rc
  /\ IF reply.rc = "OK"
       THEN /\ pay' = [effective_url |-> reply.effective_url,
                       content_type |-> reply.content_type]
            /\ pc' = "rebase"
       ELSE UNCHANGED pay /\ pc' = "loaded"
  /\ referer' = None
  /\ hop' = None
  /\ UNCHANGED <<mode, interactive, base, current, doc, history, target,
                 caller, dropped, served, left, clean>>

\* The effective URL becomes the base.
Rebase ==
  /\ pc = "rebase"
  /\ FinalPage(pay) \in Page
  /\ base' = FinalPage(pay)
  /\ served' = served \cup {Prepare[pay.effective_url]}
  /\ pc' = "dispatch"
  /\ UNCHANGED <<mode, interactive, current, doc, history, target, caller,
                 pay, referer, hop, rc, dropped, left, clean>>

\* The effective URL cannot be normalized.
RebaseFails ==
  /\ pc = "rebase"
  /\ FinalPage(pay) \notin Page
  /\ rc' = FinalPage(pay)
  /\ base' \in Unprepared(FinalPage(pay))
  /\ pay' = None
  /\ pc' = "loaded"
  /\ UNCHANGED <<mode, interactive, current, doc, history, target, caller,
                 referer, hop, dropped, served, left, clean>>

\* Mutant of SaveDownload: the download becomes the current page.
SaveDownloadAsPage(status) ==
  /\ pc = "dispatch"
  /\ ~IsTextual(pay.content_type)
  /\ rc' = status
  /\ current' = base
  /\ clean' = (clean /\ status # "OK")
  /\ pay' = None
  /\ pc' = "loaded"
  /\ UNCHANGED <<mode, interactive, base, doc, history, target, caller,
                 referer, hop, dropped, served, left>>

\* save_download: a file is written, or its verdict, fopen or fwrite fails.
SaveDownload(status) ==
  /\ pc = "dispatch"
  /\ ~IsTextual(pay.content_type)
  /\ rc' = status
  /\ clean' = (clean /\ status # "OK")
  /\ pay' = None
  /\ pc' = "loaded"
  /\ UNCHANGED <<mode, interactive, base, current, doc, history, target,
                 caller, referer, hop, dropped, served, left>>

\* capy_html_to_text, render and the update of g_current.
Render(links) ==
  /\ pc = "dispatch"
  /\ IsTextual(pay.content_type)
  /\ doc' = [of |-> base, links |-> links]
  /\ current' = base
  /\ clean' = (clean /\ (caller = "back" => base = target))
  /\ rc' = "OK"
  /\ pay' = None
  /\ pc' = "loaded"
  /\ UNCHANGED <<mode, interactive, base, history, target, caller, referer, hop,
                 dropped, served, left>>

(***************************************************************************)
(* navigate and its callers.                                               *)
(***************************************************************************)
\* Mutant of AfterNavigate: main tries a failed first page again.
AfterNavigateRetried ==
  IF caller # "main" THEN "prompt"
  ELSE IF rc # "OK" THEN "load"
  ELSE IF interactive THEN "prompt" ELSE "ok"

\* Where control goes when navigate has returned.
AfterNavigate ==
  IF caller # "main" THEN "prompt"
  ELSE IF rc # "OK" THEN "failed"
  ELSE IF interactive THEN "prompt" ELSE "ok"

PushPage ==
  /\ pc = "loaded"
  /\ rc = "OK"
  /\ caller # "back"
  /\ history' = HistoryPush(history, base)
  /\ dropped' = IF Len(history) = MaxHistory THEN Append(dropped, Head(history))
                                             ELSE dropped
  /\ pc' = AfterNavigate
  /\ UNCHANGED <<mode, interactive, base, current, doc, target, caller, pay,
                 referer, hop, rc, served, left, clean>>

\* 'b' has succeeded: g_history_len-- drops the page that was left.
DropLeftPage ==
  /\ pc = "loaded"
  /\ rc = "OK"
  /\ caller = "back"
  /\ history' = SubSeq(history, 1, Len(history) - 1)
  /\ pc' = AfterNavigate
  /\ UNCHANGED <<mode, interactive, base, current, doc, target, caller, pay,
                 referer, hop, rc, dropped, served, left, clean>>

\* Mutant of NavigateFailed: 'b' has dropped its entry before it navigates.
NavigateFailedPopped ==
  /\ pc = "loaded"
  /\ rc # "OK"
  /\ pc' = AfterNavigate
  /\ history' = IF caller = "back" THEN SubSeq(history, 1, Len(history) - 1) ELSE history
  /\ UNCHANGED <<mode, interactive, base, current, doc, target, caller, pay,
                 referer, hop, rc, dropped, served, left, clean>>

\* "on failure, keep the current page"
NavigateFailed ==
  /\ pc = "loaded"
  /\ rc # "OK"
  /\ pc' = AfterNavigate
  /\ UNCHANGED <<mode, interactive, base, current, doc, history, target,
                 caller, pay, referer, hop, rc, dropped, served, left, clean>>

(***************************************************************************)
(* interactive_loop.  A refused line ("no page to go back to", "invalid    *)
(* selection") changes nothing and is no step.                             *)
(***************************************************************************)
Choose(ref, by) ==
  /\ pc = "prompt"
  /\ target' = ref
  /\ caller' = by
  /\ left' = [current |-> current, doc |-> doc, history |-> history]
  /\ pc' = "load"
  /\ UNCHANGED <<mode, interactive, base, current, doc, history, pay, referer, hop,
                 rc, dropped, served, clean>>

FollowLink(ref) ==
  /\ ref \in doc.links
  /\ Len(dropped) + Len(history) < MaxTrail
  /\ Choose(ref, "link")

\* Mutant of BackIndex: the top entry itself.
BackIndexTop(h) == Len(h)

BackIndex(h) == Len(h) - 1

GoBack ==
  /\ Len(history) >= 2
  /\ Choose(history[BackIndex(history)], "back")

Quit ==
  /\ pc = "prompt"
  /\ pc' = "ok"
  /\ UNCHANGED <<mode, interactive, base, current, doc, history, target,
                 caller, pay, referer, hop, rc, dropped, served, left, clean>>

Ended == pc \in {"ok", "failed"} /\ UNCHANGED vars
-----------------------------------------------------------------------------
Local ==
  \E status \in {"OK", "OPEN", "READ", "TOO_LARGE"}, links \in LinkSets :
    LoadLocal(status, links)

Load ==
  \/ PrepareTarget \/ RefuseTarget
  \/ \E reply \in Fetched!Allowed(base) : FetchPage(reply)
  \/ Rebase \/ RebaseFails
  \/ \E status \in {"OK", "OPEN", "READ"} : SaveDownload(status)
  \/ \E links \in LinkSets : Render(links)
  \/ PushPage \/ DropLeftPage \/ NavigateFailed

\* The servers, through libcurl.
Servers == \E location \in Https : FollowRedirect(location)

User == (\E ref \in Ref : FollowLink(ref)) \/ GoBack \/ Quit

Next == Local \/ Load \/ Servers \/ User \/ Ended

\* A load runs to its end by itself: its only wait is the fetch, and
\* FetchContract's call returns, however the servers redirect it (libcurl
\* gives up after CURLOPT_MAXREDIRS or CURLOPT_TIMEOUT).  The user owes nothing.
Spec == Init /\ [][Next]_vars /\ WF_vars(Load)
-----------------------------------------------------------------------------
(***************************************************************************)
(* Properties.                                                             *)
(***************************************************************************)
Failures == {"ARGS", "SCHEME", "OPEN", "READ", "TOO_LARGE", "NETWORK", "HTTP", "DISABLED"}

Referers == {None} \cup ({"page"} \X Page) \cup ({"origin"} \X {Origin[p] : p \in Page})

\* The variables have their types.
TypeOK ==
  /\ pc \in {"load", "fetch", "rebase", "dispatch", "loaded", "prompt",
             "local", "ok", "failed"}
  /\ mode \in {"normal", "private"}
  /\ interactive \in BOOLEAN
  /\ base \in Page \cup {None, Garbled}
  /\ current \in Page \cup {None}
  /\ doc \in [of : Page \cup {None}, links : SUBSET Ref]
  /\ history \in Seq(Page)
  /\ target \in Ref
  /\ caller \in {"main", "link", "back"}
  /\ pay \in {None} \cup [effective_url : Https, content_type : ContentType \cup {None}]
  /\ referer \in Referers
  /\ hop \in Page \cup Https \cup {None}
  /\ rc \in Failures \cup {"OK"}
  /\ dropped \in Seq(Page)
  /\ served \in SUBSET Page
  /\ left \in [current : Page \cup {None}, history : Seq(Page),
              doc : [of : Page \cup {None}, links : SUBSET Ref]]
  /\ clean \in BOOLEAN

\* Wherever the user stands, the links on offer were resolved on the page the
\* next Referer will name: no failed, moved or downloaded navigation in between
\* separates g_doc from g_current (load_url).
LinksBelongToCurrent == pc = "prompt" => doc.of = current

\* "on failure, keep the current page": a navigation that failed, whichever of
\* its steps it was, leaves page, links and history as the user left them.
FailureKeepsPage ==
  pc = "prompt" /\ rc # "OK" =>
    left = [current |-> current, doc |-> doc, history |-> history]

\* Every entry of the history, and the current page, is a final URL that did
\* answer a fetch: never the address before a redirect, never a base spoilt by
\* a failed navigation (history_push, and the update of g_current).
HistoryWasServed ==
  /\ \A i \in 1..Len(history) : history[i] \in served
  /\ current \in served \cup {None}

\* The history keeps its bound, and at the prompt it is never empty, so that
\* 'b' always leaves a page to stand on (history_push, interactive_loop).
HistoryBounded ==
  /\ Len(history) <= MaxHistory
  /\ pc = "prompt" => Len(history) >= 1

\* What the Referer policy of session.h allows a request to dest to say: the
\* page on the screen within its origin, the origin alone to any other, and in
\* a private session, or with no page on the screen, nothing.
Policy(dest) ==
  IF mode = "private" \/ doc.of = None THEN {None}
  ELSE {<<"origin", Origin[doc.of]>>} \cup
       IF Origin[doc.of] = Origin[dest] THEN {<<"page", doc.of>>} ELSE {}

\* The request was asked of the page's own origin and a redirect has led it to
\* another one.
RedirectedAway ==
  /\ mode = "normal" /\ doc.of # None
  /\ Origin[base] = Origin[doc.of]
  /\ Origin[hop] # Origin[doc.of]

\* The strict-origin Referer policy (session.h:53-55) on every hop of a request,
\* after any failed and downloaded navigations before it.  It holds of the URL
\* asked for and of every redirect, but for one case, and there it always
\* fails: after a redirect from the page's own origin to another, which gets
\* the whole URL of the page, because load_url computes the Referer once
\* (capybrowse.c:241) and libcurl resends it (fetch.c:228).
RefererPolicyUnlessRedirectedAway ==
  pc = "fetch" => (referer \in Policy(hop) <=> ~RedirectedAway)

\* "Back-navigation stack of visited (normalized) URLs; top = current page",
\* as far as it holds: until a download has been navigated to, or 'b' has led
\* to a page that meanwhile moved.
TopIsCurrentWhileClean ==
  pc = "prompt" /\ clean => history[Len(history)] = current

\* The same comment, without the condition.
TopIsCurrent == pc = "prompt" => history[Len(history)] = current

Stack == INSTANCE BackStack WITH trail <- dropped \o history

\* With what a full history has forgotten put back under it, the history is
\* the user's trail of pages: each navigation adds one page at the end or, by
\* 'b', takes the last one off, and nothing else ever moves.
ImplementsBackStack == Stack!Spec

\* A load never hangs: the program comes back to its prompt or ends.
LoadsReturn == pc = "load" ~> pc \in {"prompt", "ok", "failed"}
==============================================================================
