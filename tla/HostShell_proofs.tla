--------------------------- MODULE HostShell_proofs ---------------------------
(***************************************************************************)
(* The safety properties of HostShell, for every set of pages, every map   *)
(* of addresses to pages and every history size of at least two.           *)
(***************************************************************************)
EXTENDS HostShell, SequenceTheorems, TLAPS

USE ShellConstants

(***************************************************************************)
(* The helpers.                                                            *)
(***************************************************************************)
\* history_push keeps a sequence of pages within its bound, with the new page
\* on top.
LEMMA PushTyped ==
  ASSUME NEW h \in Seq(Page), NEW u \in Page, Len(h) <= MaxHistory
  PROVE  /\ HistoryPush(h, u) \in Seq(Page)
         /\ Len(HistoryPush(h, u)) \in 1..MaxHistory
         /\ HistoryPush(h, u)[Len(HistoryPush(h, u))] = u
         /\ \A i \in 1..Len(HistoryPush(h, u)) :
              HistoryPush(h, u)[i] = u \/ \E j \in 1..Len(h) : HistoryPush(h, u)[i] = h[j]
<1>1. CASE Len(h) = MaxHistory
  <2>1. h # << >> /\ Tail(h) \in Seq(Page) /\ Len(Tail(h)) = MaxHistory - 1
    BY <1>1
  <2>2. \A i \in 1..Len(Tail(h)) : Tail(h)[i] = h[i + 1]
    BY <2>1
  <2> QED
    BY <1>1, <2>1, <2>2 DEF HistoryPush
<1>2. CASE Len(h) # MaxHistory
  BY <1>2 DEF HistoryPush
<1> QED
  BY <1>1, <1>2

\* So a property of the entries that the new page has too is kept.
LEMMA PushKeeps ==
  ASSUME NEW h \in Seq(Page), NEW u \in Page, Len(h) <= MaxHistory,
         NEW S, u \in S, \A i \in 1..Len(h) : h[i] \in S
  PROVE  /\ HistoryPush(h, u)[Len(HistoryPush(h, u))] = u
         /\ \A i \in 1..Len(HistoryPush(h, u)) : HistoryPush(h, u)[i] \in S
<1>1. HistoryPush(h, u)[Len(HistoryPush(h, u))] = u
  BY PushTyped
<1>2. ASSUME NEW i \in 1..Len(HistoryPush(h, u))
      PROVE  HistoryPush(h, u)[i] \in S
  <2>1. HistoryPush(h, u)[i] = u \/ \E j \in 1..Len(h) : HistoryPush(h, u)[i] = h[j]
    BY PushTyped
  <2> QED
    BY <2>1
<1> QED
  BY <1>1, <1>2

\* g_history_len-- keeps the entries below the top.
LEMMA DropTyped ==
  ASSUME NEW h \in Seq(Page), Len(h) >= 2
  PROVE  /\ SubSeq(h, 1, Len(h) - 1) \in Seq(Page)
         /\ Len(SubSeq(h, 1, Len(h) - 1)) = Len(h) - 1
         /\ \A i \in 1..(Len(h) - 1) : SubSeq(h, 1, Len(h) - 1)[i] = h[i]
  OBVIOUS

\* capy_request_identity yields a Referer of the page, or none.
LEMMA RefererTyped ==
  ASSUME NEW m, NEW cur \in Page \cup {None}, NEW dest \in Page
  PROVE  RefererFor(m, cur, dest) \in Referers
  BY DEF RefererFor, Referers

\* What prepare_url can yield for a string.
LEMMA PrepareTyped ==
  ASSUME NEW r \in Ref
  PROVE  Prepare[r] \in Page \/ Prepare[r] \in {"ARGS", "SCHEME"}
  OBVIOUS

(***************************************************************************)
(* Type correctness.                                                       *)
(***************************************************************************)
\* A fetched payload is at hand from the fetch to the end of the load.
PayInv ==
  pc \in {"rebase", "dispatch"} =>
    pay \in [effective_url : Https, content_type : ContentType \cup {None}]

\* The base is a page while a request is under way and after a success.
BaseInv ==
  pc \in {"fetch", "rebase", "dispatch"} \/ (pc = "loaded" /\ rc = "OK") => base \in Page

\* The history suffices for what the caller of navigate will do with it.
CallerInv ==
  pc \in {"load", "fetch", "rebase", "dispatch", "loaded"} =>
    /\ caller = "main" => history = << >>
    /\ caller = "link" => Len(history) >= 1
    /\ caller = "back" => Len(history) >= 2 /\ target = history[Len(history) - 1]

TypeInv == TypeOK /\ PayInv /\ BaseInv /\ CallerInv /\ HistoryBounded

LEMMA TypeInvInitially == Init => TypeInv
<1> SUFFICES ASSUME Init PROVE TypeInv
  OBVIOUS
<1>1. << >> \in Seq(Page) /\ Len(<< >>) = 0
  OBVIOUS
<1>2. doc \in [of : Page \cup {None}, links : SUBSET Ref]
  BY DEF Init
<1>3. left \in [current : Page \cup {None}, history : Seq(Page),
               doc : [of : Page \cup {None}, links : SUBSET Ref]]
  BY <1>1, <1>2 DEF Init
<1> QED
  BY <1>1, <1>2, <1>3 DEF Init, TypeInv, TypeOK, PayInv, BaseInv, CallerInv,
                          HistoryBounded, Referers, Failures

LEMMA TypeInvPreserved == TypeInv /\ [Next]_vars => TypeInv'
<1> SUFFICES ASSUME TypeInv, [Next]_vars PROVE TypeInv'
  OBVIOUS
<1> USE DEF TypeInv, TypeOK, PayInv, BaseInv, CallerInv, HistoryBounded, Failures
<1>1. ASSUME NEW status \in {"OK", "OPEN", "READ", "TOO_LARGE"}, NEW links \in LinkSets,
             LoadLocal(status, links)
      PROVE  TypeInv'
  BY <1>1 DEF LoadLocal
<1>2. CASE PrepareTarget
  <2>1. referer' \in Referers
    BY <1>2, RefererTyped DEF PrepareTarget
  <2> QED
    BY <1>2, <2>1 DEF PrepareTarget
<1>3. CASE RefuseTarget
  BY <1>3, PrepareTyped DEF RefuseTarget, Unprepared
<1>4. ASSUME NEW reply \in Fetched!Allowed(base), FetchPage(reply) PROVE TypeInv'
  <2>1. referer' \in Referers
    BY <1>4 DEF FetchPage, Referers
  <2>2. CASE reply.rc = "OK"
    <3>1. reply.effective_url \in Https /\ reply.content_type \in ContentType \cup {None}
      BY <2>2 DEF Fetched!Allowed, Fetched!Success, Fetched!Failure
    <3>2. pay' \in [effective_url : Https, content_type : ContentType \cup {None}]
      BY <1>4, <2>2, <3>1 DEF FetchPage
    <3> QED
      BY <1>4, <2>1, <2>2, <3>2 DEF FetchPage
  <2>3. CASE reply.rc # "OK"
    <3>1. reply.rc \in Failures
      BY <2>3 DEF Fetched!Allowed, Fetched!Success, Fetched!Failure
    <3> QED
      BY <1>4, <2>1, <2>3, <3>1 DEF FetchPage
  <2> QED
    BY <2>2, <2>3
<1>5. CASE Rebase
  <2>1. pay.effective_url \in Https /\ FinalPage(pay) = Prepare[pay.effective_url]
    BY <1>5 DEF Rebase, FinalPage
  <2> QED
    BY <1>5, <2>1 DEF Rebase
<1>6. CASE RebaseFails
  <2>1. pay.effective_url \in Https /\ FinalPage(pay) = Prepare[pay.effective_url]
    BY <1>6 DEF RebaseFails, FinalPage
  <2>2. FinalPage(pay) \in {"ARGS", "SCHEME"}
    BY <1>6, <2>1, PrepareTyped DEF RebaseFails
  <2> QED
    BY <1>6, <2>2 DEF RebaseFails, Unprepared
<1>7. ASSUME NEW status \in {"OK", "OPEN", "READ"}, SaveDownload(status) PROVE TypeInv'
  BY <1>7 DEF SaveDownload
<1>8. ASSUME NEW links \in LinkSets, Render(links) PROVE TypeInv'
  BY <1>8 DEF Render
<1>9. CASE PushPage
  <2>1. /\ history' \in Seq(Page) /\ Len(history') \in 1..MaxHistory
    BY <1>9, PushTyped DEF PushPage
  <2>2. dropped' \in Seq(Page)
    BY <1>9 DEF PushPage
  <2> QED
    BY <1>9, <2>1, <2>2 DEF PushPage, AfterNavigate
<1>10. CASE DropLeftPage
  <2>1. Len(history) >= 2
    BY <1>10 DEF DropLeftPage
  <2>2. history' \in Seq(Page) /\ Len(history') = Len(history) - 1
    BY <1>10, <2>1, DropTyped DEF DropLeftPage
  <2> QED
    BY <1>10, <2>1, <2>2 DEF DropLeftPage, AfterNavigate
<1>11. CASE NavigateFailed
  BY <1>11 DEF NavigateFailed, AfterNavigate
<1>12. ASSUME NEW ref \in Ref, FollowLink(ref) PROVE TypeInv'
  BY <1>12 DEF FollowLink, Choose
<1>13. CASE GoBack
  <2>1. history[Len(history) - 1] \in Page
    BY <1>13 DEF GoBack
  <2> QED
    BY <1>13, <2>1 DEF GoBack, Choose, BackIndex
<1>14. CASE Quit
  BY <1>14 DEF Quit
<1>15. CASE UNCHANGED vars
  BY <1>15 DEF vars, code
<1>16. ASSUME NEW location \in Https, FollowRedirect(location) PROVE TypeInv'
  BY <1>16 DEF FollowRedirect
<1> QED
  BY <1>1, <1>2, <1>3, <1>4, <1>5, <1>6, <1>7, <1>8, <1>9, <1>10, <1>11, <1>12,
     <1>13, <1>14, <1>15, <1>16 DEF Next, Local, Load, Servers, User, Ended

\* Type correctness, and with it the bound of the history and that the prompt
\* never sees it empty.
THEOREM TypeCorrect == Spec => [](TypeOK /\ HistoryBounded)
<1>1. TypeInv => TypeOK /\ HistoryBounded
  BY DEF TypeInv
<1> QED
  BY <1>1, TypeInvInitially, TypeInvPreserved, PTL DEF Spec

(***************************************************************************)
(* The inductive invariant of a navigation.                                *)
(***************************************************************************)
\* The links on the screen are those of the current page, always.
PageInv == doc.of = current /\ (pc = "local" => current = None)

\* A base that will enter the history or become the current page was served.
ServedInv ==
  /\ HistoryWasServed
  /\ pc = "dispatch" \/ (pc = "loaded" /\ rc = "OK") => base \in served

\* Until a load succeeds, the page the user chose from is untouched.
Undecided == pc \in {"load", "fetch", "rebase", "dispatch"}
Refused == pc \in {"loaded", "prompt"} /\ rc # "OK"

KeptInv ==
  Undecided \/ Refused =>
    left = [current |-> current, doc |-> doc, history |-> history]

\* The Referer in flight is the one computed for the URL asked for, whichever
\* hop it is sent to.
RefererInv == pc = "fetch" => referer = RefererFor(mode, current, base)

\* While clean, the top of the history is the current page, before a load, and
\* after one that changes nothing; a load that succeeds is at what its caller
\* will make the top.
CleanInv ==
  clean =>
    /\ (Undecided \/ Refused \/ pc = "prompt") /\ history # << >> =>
          history[Len(history)] = current
    /\ pc = "loaded" /\ rc = "OK" =>
          current = base /\ (caller = "back" => base = history[Len(history) - 1])

ShellInv == PageInv /\ ServedInv /\ KeptInv /\ RefererInv /\ CleanInv

LEMMA ShellInvInitially == Init => ShellInv
<1> SUFFICES ASSUME Init PROVE ShellInv
  OBVIOUS
<1>1. Len(<< >>) = 0
  OBVIOUS
<1> QED
  BY <1>1 DEF Init, ShellInv, PageInv, ServedInv, HistoryWasServed, Undecided,
              Refused, KeptInv, RefererInv, CleanInv

LEMMA ShellInvPreserved == TypeInv /\ ShellInv /\ [Next]_vars => ShellInv'
<1> SUFFICES ASSUME TypeInv, ShellInv, [Next]_vars PROVE ShellInv'
  OBVIOUS
<1> USE DEF ShellInv, PageInv, ServedInv, HistoryWasServed, Undecided, Refused,
            KeptInv, RefererInv, CleanInv
<1>0. /\ history \in Seq(Page) /\ Len(history) \in Nat
      /\ doc \in [of : Page \cup {None}, links : SUBSET Ref]
  BY DEF TypeInv, TypeOK
<1>1. ASSUME NEW status \in {"OK", "OPEN", "READ", "TOO_LARGE"}, NEW links \in LinkSets,
             LoadLocal(status, links)
      PROVE  ShellInv'
  BY <1>1 DEF LoadLocal
<1>2. CASE PrepareTarget
  BY <1>2 DEF PrepareTarget
<1>3. CASE RefuseTarget
  BY <1>3 DEF RefuseTarget, TypeInv, TypeOK
<1>4. ASSUME NEW reply \in Fetched!Allowed(base), FetchPage(reply) PROVE ShellInv'
  BY <1>4 DEF FetchPage
<1>5. CASE Rebase
  <2>1. FinalPage(pay) = Prepare[pay.effective_url]
    BY <1>5 DEF Rebase, FinalPage, TypeInv, PayInv
  <2> QED
    BY <1>5, <2>1 DEF Rebase
<1>6. CASE RebaseFails
  <2>1. FinalPage(pay) # "OK"
    BY <1>6, PrepareTyped DEF RebaseFails, FinalPage, TypeInv, PayInv
  <2> QED
    BY <1>6, <2>1 DEF RebaseFails
<1>7. ASSUME NEW status \in {"OK", "OPEN", "READ"}, SaveDownload(status) PROVE ShellInv'
  BY <1>7 DEF SaveDownload
<1>8. ASSUME NEW links \in LinkSets, Render(links) PROVE ShellInv'
  BY <1>8 DEF Render, TypeInv, CallerInv
<1>9. CASE PushPage
  <2>1. /\ base \in Page /\ base \in served
        /\ history' = HistoryPush(history, base) /\ UNCHANGED <<served, current, doc, base, clean, rc>>
        /\ pc = "loaded" /\ rc = "OK" /\ pc' \in {"prompt", "ok", "failed"}
    BY <1>9 DEF PushPage, AfterNavigate, TypeInv, BaseInv
  <2>4. Len(history) <= MaxHistory
    BY DEF TypeInv, HistoryBounded
  <2>2. \A i \in 1..Len(history') : history'[i] \in served
    BY <2>1, <2>4, <1>0, PushKeeps
  <2>3. history'[Len(history')] = base
    BY <2>1, <2>4, <1>0, PushKeeps
  <2> QED
    BY <2>1, <2>2, <2>3
<1>10. CASE DropLeftPage
  <2>1. Len(history) >= 2
    BY <1>10 DEF DropLeftPage, TypeInv, CallerInv
  <2>2. /\ Len(history') = Len(history) - 1
        /\ \A i \in 1..(Len(history) - 1) : history'[i] = history[i]
    BY <1>10, <1>0, <2>1, DropTyped DEF DropLeftPage
  <2>3. history'[Len(history')] = history[Len(history) - 1]
    BY <2>1, <2>2, <1>0
  <2>4. /\ pc = "loaded" /\ rc = "OK" /\ caller = "back" /\ pc' \in {"prompt", "ok", "failed"}
        /\ UNCHANGED <<served, current, doc, base, clean, rc, caller>>
    BY <1>10 DEF DropLeftPage, AfterNavigate
  <2>5. \A i \in 1..Len(history') : history'[i] \in served
    BY <2>1, <2>2, <2>4, <1>0
  <2> QED
    BY <2>3, <2>4, <2>5
<1>11. CASE NavigateFailed
  BY <1>11 DEF NavigateFailed, AfterNavigate
<1>12. ASSUME NEW ref \in Ref, FollowLink(ref) PROVE ShellInv'
  BY <1>12 DEF FollowLink, Choose
<1>13. CASE GoBack
  BY <1>13 DEF GoBack, Choose
<1>14. CASE Quit
  BY <1>14 DEF Quit
<1>15. CASE UNCHANGED vars
  BY <1>15 DEF vars, code
<1>16. ASSUME NEW location \in Https, FollowRedirect(location) PROVE ShellInv'
  BY <1>16 DEF FollowRedirect
<1> QED
  BY <1>1, <1>2, <1>3, <1>4, <1>5, <1>6, <1>7, <1>8, <1>9, <1>10, <1>11, <1>12,
     <1>13, <1>14, <1>15, <1>16 DEF Next, Local, Load, Servers, User, Ended

LEMMA InvAlways == Spec => [](TypeInv /\ ShellInv)
BY TypeInvInitially, TypeInvPreserved, ShellInvInitially, ShellInvPreserved, PTL DEF Spec

\* The numbers the user types are those of the page on the screen: a load that
\* fails or becomes a download touches neither g_current nor the links.
THEOREM LinksSafe == Spec => []LinksBelongToCurrent
<1>1. ShellInv => LinksBelongToCurrent
  BY DEF ShellInv, PageInv, LinksBelongToCurrent
<1> QED
  BY <1>1, InvAlways, PTL

\* A failed navigation has left page, links and history as they were when the
\* user typed (load_url's early returns, navigate).
THEOREM FailureSafe == Spec => []FailureKeepsPage
<1>1. ShellInv => FailureKeepsPage
  BY DEF ShellInv, KeptInv, Refused, FailureKeepsPage
<1> QED
  BY <1>1, InvAlways, PTL

\* The history and the current page hold only final URLs that did answer.
THEOREM HistorySafe == Spec => []HistoryWasServed
<1>1. ShellInv => HistoryWasServed
  BY DEF ShellInv, ServedInv, HistoryWasServed
<1> QED
  BY <1>1, InvAlways, PTL

\* On every hop of a request, whatever the servers redirect it to, the Referer
\* keeps to the policy of session.h, except after a redirect from the page's
\* origin to another, where it never does (capy_request_identity with the
\* g_current of the moment, resent by libcurl).
THEOREM RefererSafe == Spec => []RefererPolicyUnlessRedirectedAway
<1>1. ASSUME TypeInv, ShellInv, pc = "fetch"
      PROVE  referer \in Policy(hop) <=> ~RedirectedAway
  <2>1. current = doc.of /\ doc.of \in Page \cup {None} /\ mode \in {"normal", "private"}
    BY <1>1 DEF ShellInv, PageInv, TypeInv, TypeOK
  <2>2. referer = RefererFor(mode, doc.of, base)
    BY <1>1, <2>1 DEF ShellInv, RefererInv
  <2>3. CASE mode = "private" \/ doc.of = None
    BY <2>1, <2>2, <2>3 DEF RefererFor, Policy, RedirectedAway
  <2>4. CASE mode = "normal" /\ doc.of # None /\ Origin[doc.of] = Origin[base]
    <3>1. referer = <<"page", doc.of>>
      BY <2>2, <2>4 DEF RefererFor
    <3>2. referer # <<"origin", Origin[doc.of]>>
      BY <3>1
    <3> QED
      BY <2>4, <3>1, <3>2 DEF Policy, RedirectedAway
  <2>5. CASE mode = "normal" /\ doc.of # None /\ Origin[doc.of] # Origin[base]
    BY <2>2, <2>5 DEF RefererFor, Policy, RedirectedAway
  <2> QED
    BY <2>1, <2>3, <2>4, <2>5
<1>2. TypeInv /\ ShellInv => RefererPolicyUnlessRedirectedAway
  BY <1>1 DEF RefererPolicyUnlessRedirectedAway
<1> QED
  BY <1>2, InvAlways, PTL

\* The top of the history is the current page while no download and no moved
\* page has come between.
THEOREM TopSafe == Spec => []TopIsCurrentWhileClean
<1>1. TypeInv /\ ShellInv => TopIsCurrentWhileClean
  BY DEF ShellInv, CleanInv, TopIsCurrentWhileClean, TypeInv, HistoryBounded, TypeOK
<1> QED
  BY <1>1, InvAlways, PTL

(***************************************************************************)
(* The history implements the user's trail.                                *)
(***************************************************************************)
\* Shifting the oldest entry out of a full history only moves the border
\* between what is forgotten and what is kept.
LEMMA ShiftTrail ==
  ASSUME NEW d \in Seq(Page), NEW h \in Seq(Page), NEW u \in Page, Len(h) >= 1
  PROVE  Append(d, Head(h)) \o Append(Tail(h), u) = Append(d \o h, u)
<1> DEFINE s == Append(d, Head(h)) \o Append(Tail(h), u)
           t == Append(d \o h, u)
<1>1. /\ Append(d, Head(h)) \in Seq(Page) /\ Append(Tail(h), u) \in Seq(Page)
      /\ Len(Append(d, Head(h))) = Len(d) + 1 /\ Len(Append(Tail(h), u)) = Len(h)
      /\ d \o h \in Seq(Page) /\ Len(d \o h) = Len(d) + Len(h)
  OBVIOUS
<1>2. s \in Seq(Page) /\ t \in Seq(Page) /\ Len(s) = Len(d) + Len(h) + 1 /\ Len(t) = Len(s)
  BY <1>1
<1>3. ASSUME NEW i \in 1..Len(s) PROVE s[i] = t[i]
  <2>1. CASE i <= Len(d)
    BY <2>1, <1>1, <1>2
  <2>2. CASE i = Len(d) + 1
    BY <2>2, <1>1, <1>2
  <2>3. CASE i > Len(d) + 1 /\ i <= Len(d) + Len(h)
    BY <2>3, <1>1, <1>2
  <2>4. CASE i = Len(d) + Len(h) + 1
    BY <2>4, <1>1, <1>2
  <2> QED
    BY <2>1, <2>2, <2>3, <2>4, <1>2
<1> QED
  BY <1>2, <1>3, SeqEqual

LEMMA ExtendTrail ==
  ASSUME NEW d \in Seq(Page), NEW h \in Seq(Page), NEW u \in Page
  PROVE  d \o Append(h, u) = Append(d \o h, u)
<1> DEFINE s == d \o Append(h, u)
           t == Append(d \o h, u)
<1>1. s \in Seq(Page) /\ t \in Seq(Page) /\ Len(s) = Len(d) + Len(h) + 1 /\ Len(t) = Len(s)
  OBVIOUS
<1>2. ASSUME NEW i \in 1..Len(s) PROVE s[i] = t[i]
  BY <1>1
<1> QED
  BY <1>1, <1>2, SeqEqual

LEMMA ShortenTrail ==
  ASSUME NEW d \in Seq(Page), NEW h \in Seq(Page), Len(h) >= 2
  PROVE  /\ Len(d \o h) >= 2
         /\ d \o SubSeq(h, 1, Len(h) - 1) = SubSeq(d \o h, 1, Len(d \o h) - 1)
<1> DEFINE s == d \o SubSeq(h, 1, Len(h) - 1)
           t == SubSeq(d \o h, 1, Len(d \o h) - 1)
<1>1. Len(d \o h) = Len(d) + Len(h) /\ d \o h \in Seq(Page)
  OBVIOUS
<1>2. s \in Seq(Page) /\ Len(s) = Len(d) + Len(h) - 1
  BY DropTyped
<1>3. t \in Seq(Page) /\ Len(t) = Len(d) + Len(h) - 1
  BY <1>1
<1>4. ASSUME NEW i \in 1..Len(s) PROVE s[i] = t[i]
  BY <1>1, <1>2, <1>3
<1> QED
  BY <1>1, <1>2, <1>3, <1>4, SeqEqual

\* Every step of the browser adds one page to the user's trail, takes the last
\* one off, or leaves the trail alone.
THEOREM RefinesBackStack == Spec => ImplementsBackStack
<1>1. Init => Stack!Init
  BY DEF Init, Stack!Init
<1>2. TypeInv /\ [Next]_vars => [Stack!Next]_(dropped \o history)
  <2> SUFFICES ASSUME TypeInv, [Next]_vars PROVE [Stack!Next]_(dropped \o history)
    OBVIOUS
  <2>0. history \in Seq(Page) /\ dropped \in Seq(Page) /\ Len(history) <= MaxHistory
    BY DEF TypeInv, TypeOK, HistoryBounded
  <2>1. CASE PushPage
    <3>1. base \in Page
      BY <2>1 DEF PushPage, TypeInv, BaseInv
    <3>2. CASE Len(history) = MaxHistory
      <4>1. history' = Append(Tail(history), base) /\ dropped' = Append(dropped, Head(history))
        BY <2>1, <3>2 DEF PushPage, HistoryPush
      <4>2. Len(history) >= 1
        BY <2>0, <3>2, ShellConstants
      <4>3. Append(dropped, Head(history)) \o Append(Tail(history), base)
              = Append(dropped \o history, base)
        BY <2>0, <3>1, <4>2, ShiftTrail
      <4>4. dropped' \o history' = Append(dropped \o history, base)
        BY <4>1, <4>3
      <4> QED
        BY <3>1, <4>4 DEF Stack!Next, Stack!Visit
    <3>3. CASE Len(history) # MaxHistory
      <4>1. history' = Append(history, base) /\ dropped' = dropped
        BY <2>1, <3>3 DEF PushPage, HistoryPush
      <4>2. dropped' \o history' = Append(dropped \o history, base)
        BY <2>0, <3>1, <4>1, ExtendTrail
      <4> QED
        BY <3>1, <4>2 DEF Stack!Next, Stack!Visit
    <3> QED
      BY <3>2, <3>3
  <2>2. CASE DropLeftPage
    <3>1. Len(history) >= 2
      BY <2>2 DEF DropLeftPage, TypeInv, CallerInv
    <3>2. history' = SubSeq(history, 1, Len(history) - 1) /\ dropped' = dropped
      BY <2>2 DEF DropLeftPage
    <3>3. /\ Len(dropped \o history) >= 2
          /\ dropped' \o history' =
               SubSeq(dropped \o history, 1, Len(dropped \o history) - 1)
      BY <2>0, <3>1, <3>2, ShortenTrail
    <3> QED
      BY <3>3 DEF Stack!Next, Stack!Back
  <2>3. CASE ~PushPage /\ ~DropLeftPage
    <3>1. UNCHANGED <<history, dropped>>
      BY <2>3 DEF Next, Local, Load, Servers, User, Ended, LoadLocal,
             PrepareTarget, RefuseTarget, FollowRedirect, FetchPage, Rebase, RebaseFails, SaveDownload, Render,
             NavigateFailed, FollowLink, GoBack, Choose, Quit, vars, code
    <3> QED
      BY <3>1
  <2> QED
    BY <2>1, <2>2, <2>3
<1> QED
  BY <1>1, <1>2, TypeInvInitially, TypeInvPreserved, PTL
  DEF Spec, ImplementsBackStack, Stack!Spec
==============================================================================
