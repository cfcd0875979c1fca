--------------------------- MODULE HostFetch_proofs ---------------------------
(***************************************************************************)
(* The safety properties of HostFetch, for every set of URLs, buffer size, *)
(* body length and redirect bound.                                         *)
(***************************************************************************)
EXTENDS HostFetch, TLAPS

USE FetchConstants

(***************************************************************************)
(* What the helpers do to a payload and to a transfer.                     *)
(***************************************************************************)
\* capy_host_reset_meta yields a payload, whatever the caller's held.
LEMMA ResetTyped ==
  ASSUME NEW p \in Payload
  PROVE  /\ ResetMeta([p EXCEPT !.len = 0]) \in Payload
         /\ ResetMeta([p EXCEPT !.len = 0]).len = 0
         /\ ~ResetMeta([p EXCEPT !.len = 0]).truncated
<1> DEFINE q == [p EXCEPT !.len = 0]
<1>1. q \in Payload /\ q.len = 0
  BY DEF Payload
<1>2. ASSUME NEW r \in Payload
      PROVE  ResetMeta(r) \in Payload /\ ResetMeta(r).len = r.len /\ ~ResetMeta(r).truncated
  BY DEF Payload, ResetMeta
<1> HIDE DEF q
<1>3. ResetMeta(q) \in Payload /\ ResetMeta(q).len = 0 /\ ~ResetMeta(q).truncated
  BY <1>1, <1>2
<1> QED
  BY <1>3 DEF q

\* capy_host_payload_append keeps the length within the capacity: it stores
\* the chunk whole, or marks the payload and leaves its bytes alone.
LEMMA AppendTyped ==
  ASSUME NEW p \in Payload, NEW n \in Nat
  PROVE  PayloadAppend(p, n) \in Payload
<1>1. p.len \in 0..Cap
  BY DEF Payload
<1>2. CASE Fits(p, n)
  <2>1. p.len + n \in 0..Cap
    BY <1>1, <1>2 DEF Fits
  <2> QED
    BY <2>1, <1>2 DEF Payload, PayloadAppend
<1>3. CASE ~Fits(p, n)
  BY <1>3 DEF Payload, PayloadAppend
<1> QED
  BY <1>2, <1>3

\* A failing return empties the buffer and changes nothing else.
LEMMA EmptiedTyped ==
  ASSUME NEW p \in Payload, NEW status
  PROVE  Emptied(p, status) \in Payload
  BY DEF Payload, Emptied

\* The metadata collected from libcurl has the types of the payload's fields.
LEMMA CollectedTyped ==
  ASSUME NEW p \in Payload, NEW code \in Status \cup {0},
         NEW effective \in Url \cup {None}, NEW ct \in ContentType \cup {None}
  PROVE  [p EXCEPT !.http_status = code, !.effective_url = effective,
                   !.content_type = ct] \in Payload
  BY DEF Payload

\* Following a redirect within CURLOPT_MAXREDIRS.
LEMMA HopTyped ==
  ASSUME NEW t \in Transfer, NEW location \in Url, t.hops < MaxRedirs
  PROVE  [t EXCEPT !.at = location, !.hops = @ + 1, !.cd = None] \in Transfer
<1>1. t.hops + 1 \in 0..MaxRedirs
  BY DEF Transfer
<1> QED
  BY <1>1 DEF Transfer

\* The response that is not redirected announces its body.
LEMMA FinalTyped ==
  ASSUME NEW t \in Transfer, NEW code \in Status,
         NEW ct \in ContentType \cup {None}, NEW total \in 0..MaxBody
  PROVE  [t EXCEPT !.status = code, !.ct = ct, !.total = total, !.sent = 0] \in Transfer
<1>1. 0 \in 0..MaxBody /\ code \in Status \cup {0}
  OBVIOUS
<1> QED
  BY <1>1 DEF Transfer

\* Delivering a chunk of what is left of the body.
LEMMA ChunkTyped ==
  ASSUME NEW t \in Transfer, NEW n \in 1..(t.total - t.sent)
  PROVE  /\ [t EXCEPT !.sent = @ + n] \in Transfer
         /\ t.sent + n <= t.total
<1>1. t.sent \in 0..MaxBody /\ t.total \in 0..MaxBody
  BY DEF Transfer
<1>2. t.sent + n \in 0..MaxBody /\ t.sent + n <= t.total
  BY <1>1
<1> QED
  BY <1>2 DEF Transfer

(***************************************************************************)
(* Type correctness.                                                       *)
(***************************************************************************)
\* The variables keep their types: in particular the buffer's length never
\* passes Cap, whatever chunks libcurl delivers (capy_host_payload_append).
THEOREM TypeCorrect == Spec => []TypeOK
<1>1. Init => TypeOK
  BY DEF Init, TypeOK, Payload, Transfer, Statuses
<1>2. TypeOK /\ [Next]_vars => TypeOK'
  <2> SUFFICES ASSUME TypeOK, [Next]_vars PROVE TypeOK'
    OBVIOUS
  <2> USE DEF TypeOK, Statuses
  <2>1. CASE Disabled
    BY <2>1, ResetTyped DEF Disabled, Done
  <2>2. CASE RefuseScheme
    BY <2>2, ResetTyped DEF RefuseScheme, Done
  <2>3. CASE NoHandle
    BY <2>3, ResetTyped DEF NoHandle, Done
  <2>4. CASE Perform
    BY <2>4, ResetTyped DEF Perform
  <2>5. ASSUME NEW d \in Disposition, HeaderCb(d) PROVE TypeOK'
    <3>1. pay' \in Payload
      BY <2>5 DEF HeaderCb, Payload
    <3>2. net' \in Transfer
      BY <2>5 DEF HeaderCb, Transfer
    <3> QED
      BY <2>5, <3>1, <3>2 DEF HeaderCb
  <2>6. ASSUME NEW code \in Status, NEW location \in Url, Redirect(code, location)
        PROVE  TypeOK'
    <3>1. net' \in Transfer
      BY <2>6, HopTyped DEF Redirect, MayFollow
    <3> QED
      BY <2>6, <3>1 DEF Redirect
  <2>7. ASSUME NEW code \in Status, NEW ct \in ContentType \cup {None},
               NEW total \in 0..MaxBody, FinalHeaders(code, ct, total)
        PROVE  TypeOK'
    <3>1. net' \in Transfer
      BY <2>7, FinalTyped DEF FinalHeaders
    <3> QED
      BY <2>7, <3>1 DEF FinalHeaders
  <2>8. ASSUME NEW n \in 1..MaxBody, WriteCb(n) PROVE TypeOK'
    <3>1. net' \in Transfer
      BY <2>8, ChunkTyped DEF WriteCb
    <3>2. pay' \in Payload
      BY <2>8, AppendTyped DEF WriteCb
    <3> QED
      BY <2>8, <3>1, <3>2 DEF WriteCb
  <2>9. CASE BodyEnd
    BY <2>9 DEF BodyEnd
  <2>10. ASSUME NEW code \in {"OTHER", "WRITE_ERROR"}, Fail(code) PROVE TypeOK'
    BY <2>10 DEF Fail
  <2>11. CASE TransferFailed
    BY <2>11, EmptiedTyped DEF TransferFailed, FailureStatus, Done
  <2>12. CASE EffectiveTooLong
    <3>1. [pay EXCEPT !.http_status = net.status] \in Payload
      BY DEF Payload, Transfer
    <3> QED
      BY <2>12, <3>1, EmptiedTyped DEF EffectiveTooLong, Done
  <2>13. ASSUME NEW effective \in Url \cup {None}, NEW ct \in ContentType \cup {None},
                Classify(effective, ct)
         PROVE  TypeOK'
    <3>1. net.status \in Status \cup {0}
      BY DEF Transfer
    <3>2. [pay EXCEPT !.http_status = net.status, !.effective_url = effective,
                      !.content_type = ct] \in Payload
      BY <3>1, CollectedTyped
    <3> QED
      BY <2>13, <3>2, EmptiedTyped DEF Classify, ResponseStatus, Done
  <2>14. CASE UNCHANGED vars
    BY <2>14 DEF vars
  <2> QED
    BY <2>1, <2>2, <2>3, <2>4, <2>5, <2>6, <2>7, <2>8, <2>9, <2>10, <2>11, <2>12,
       <2>13, <2>14 DEF Next, Environment, Timeout, Code, Returned
<1> QED
  BY <1>1, <1>2, PTL DEF Spec

(***************************************************************************)
(* The inductive invariant: what is known in each phase of the call.       *)
(***************************************************************************)
EntryInv ==
  pc = "entry" =>
    net.at = url /\ net.hops = 0 /\ net.seen = {} /\ net.sent = 0 /\ net.status = 0
    /\ net.ct = None

\* During the transfer only the disposition of the metadata is written.
FlightInv ==
  pc \in {"headers", "body", "collect"} =>
    /\ url \in Https /\ net.at \in Https /\ net.hops <= MaxRedirs
    /\ pay.http_status = 0 /\ pay.effective_url = None /\ pay.content_type = None
    /\ pay.content_disposition \in net.seen \cup {None}

\* The buffer is what was delivered until a chunk is refused, and a refusal is
\* what an overflow of the response means.
HeadersInv == pc = "headers" => pay.len = 0 /\ ~pay.truncated /\ net.sent = 0

CollectInv ==
  pc = "collect" =>
    /\ pay.truncated <=> net.sent > Cap
    /\ pay.truncated => res = "WRITE_ERROR"
    /\ res = "OK" => pay.len = net.total

Phases == EntryInv /\ FlightInv /\ HeadersInv /\ NoGap /\ CollectInv

Outcome ==
  OkIsWholeResponse /\ ErrorsCarryNoBytes /\ TooLargeIsOverBudget /\ MetadataOfThisCall

IInv == Phases /\ Outcome

\* The four returns that precede any request leave an empty, reset payload.
LEMMA EntryReturns ==
  ASSUME TypeOK, IInv, Disabled \/ RefuseScheme \/ NoHandle
  PROVE  IInv'
<1>1. pc' = "done" /\ rc' \in {"DISABLED", "SCHEME", "NETWORK"} /\ net' = net
  BY DEF Disabled, RefuseScheme, NoHandle, Done
<1>2. pay' = ResetMeta([pay EXCEPT !.len = 0])
  BY DEF Disabled, RefuseScheme, NoHandle
<1>3. pay'.len = 0 /\ pay'.effective_url = None /\ pay'.content_type = None
      /\ pay'.content_disposition = None /\ pay'.http_status = 0
  BY <1>2 DEF ResetMeta, TypeOK, Payload
<1>4. net.sent = 0
  BY DEF IInv, Phases, EntryInv, Disabled, RefuseScheme, NoHandle
<1> QED
  BY <1>1, <1>3, <1>4
  DEF IInv, Phases, EntryInv, FlightInv, HeadersInv, NoGap, CollectInv, Outcome,
      OkIsWholeResponse, ErrorsCarryNoBytes, TooLargeIsOverBudget, MetadataOfThisCall

LEMMA InvInductive == TypeOK /\ IInv /\ [Next]_vars => IInv'
<1> SUFFICES ASSUME TypeOK, IInv, [Next]_vars PROVE IInv'
  OBVIOUS
<1> USE DEF IInv, Phases, EntryInv, FlightInv, HeadersInv, NoGap, CollectInv, Outcome,
            OkIsWholeResponse, ErrorsCarryNoBytes, TooLargeIsOverBudget,
            MetadataOfThisCall
<1>0. pay \in Payload /\ net \in Transfer
  BY DEF TypeOK
<1>1. CASE Disabled \/ RefuseScheme \/ NoHandle
  BY <1>1, EntryReturns
<1>2. CASE Perform
  <2>1. pay' = ResetMeta([pay EXCEPT !.len = 0])
    BY <1>2 DEF Perform
  <2>2. /\ pay'.len = 0 /\ pay'.effective_url = None /\ pay'.content_type = None
        /\ pay'.content_disposition = None /\ pay'.http_status = 0 /\ ~pay'.truncated
    BY <2>1, <1>0 DEF ResetMeta, Payload
  <2> QED
    BY <1>2, <2>2 DEF Perform
<1>3. ASSUME NEW d \in Disposition, HeaderCb(d) PROVE IInv'
  BY <1>3, <1>0 DEF HeaderCb, Payload, Transfer
<1>4. ASSUME NEW c \in Status, NEW location \in Url, Redirect(c, location)
      PROVE  IInv'
  <2>0. pay' = pay /\ rc' = rc /\ url' = url /\ pc = "headers" /\ net.sent = 0 /\ ~pay.truncated
    BY <1>4 DEF Redirect
  <2>1. CASE MayFollow(location)
    <3>1. pc' = "headers"
          /\ net' = [net EXCEPT !.at = location, !.hops = @ + 1, !.cd = None]
      BY <1>4, <2>1 DEF Redirect
    <3>2. net'.at = location /\ net'.hops = net.hops + 1 /\ net'.seen = net.seen
          /\ net'.sent = net.sent
      BY <3>1, <1>0 DEF Transfer
    <3>3. net.hops + 1 <= MaxRedirs /\ location \in Https
      BY <2>1, <1>0 DEF MayFollow, Transfer
    <3> QED
      BY <2>0, <3>1, <3>2, <3>3
  <2>2. CASE ~MayFollow(location)
    <3>1. pc' = "collect" /\ res' = "OTHER" /\ net' = net
      BY <1>4, <2>2 DEF Redirect
    <3>2. ~(net.sent > Cap)
      BY <2>0
    <3> QED
      BY <2>0, <3>1, <3>2
  <2> QED
    BY <2>1, <2>2
<1>5. ASSUME NEW c \in Status, NEW ct \in ContentType \cup {None},
             NEW total \in 0..MaxBody, FinalHeaders(c, ct, total)
      PROVE  IInv'
  BY <1>5, <1>0 DEF FinalHeaders, Transfer
<1>6. ASSUME NEW n \in 1..MaxBody, WriteCb(n) PROVE IInv'
  <2>1. /\ net'.sent = net.sent + n /\ net'.seen = net.seen /\ net'.at = net.at
        /\ net'.hops = net.hops /\ url' = url
    BY <1>6, <1>0 DEF WriteCb, Transfer
  <2>2. pay.len \in Nat /\ net.sent \in Nat /\ pc = "body"
    BY <1>6, <1>0 DEF WriteCb, Payload, Transfer
  <2>3. CASE Fits(pay, n)
    <3>1. pay' = [pay EXCEPT !.len = @ + n] /\ pc' = "body"
      BY <1>6, <2>3, <2>2 DEF WriteCb, PayloadAppend
    <3>2. pay'.len = pay.len + n /\ pay'.truncated = pay.truncated
          /\ pay'.http_status = pay.http_status /\ pay'.effective_url = pay.effective_url
          /\ pay'.content_type = pay.content_type
          /\ pay'.content_disposition = pay.content_disposition
      BY <3>1, <1>0 DEF Payload
    <3> QED
      BY <2>1, <2>2, <3>1, <3>2
  <2>4. CASE ~Fits(pay, n)
    <3>1. pay' = [pay EXCEPT !.truncated = TRUE] /\ pc' = "collect" /\ res' = "WRITE_ERROR"
      BY <1>6, <2>4 DEF WriteCb, PayloadAppend
    <3>2. pay'.len = pay.len /\ pay'.truncated
          /\ pay'.http_status = pay.http_status /\ pay'.effective_url = pay.effective_url
          /\ pay'.content_type = pay.content_type
          /\ pay'.content_disposition = pay.content_disposition
      BY <3>1, <1>0 DEF Payload
    <3>3. net'.sent > Cap
      BY <2>1, <2>2, <2>4 DEF Fits
    <3> QED
      BY <2>1, <2>2, <3>1, <3>2, <3>3
  <2> QED
    BY <2>3, <2>4
<1>7. CASE BodyEnd
  <2>1. ~(net.sent > Cap)
    BY <1>7, <1>0 DEF BodyEnd, Payload
  <2> QED
    BY <1>7, <2>1 DEF BodyEnd
<1>8. ASSUME NEW c \in {"OTHER", "WRITE_ERROR"}, Fail(c) PROVE IInv'
  <2>1. ~(net.sent > Cap)
    BY <1>8, <1>0 DEF Fail, Payload
  <2> QED
    BY <1>8, <2>1 DEF Fail
<1>9. CASE TransferFailed
  <2>1. pay' = [pay EXCEPT !.len = 0] /\ pc' = "done" /\ net' = net
        /\ rc' = FailureStatus(pay, res)
    BY <1>9 DEF TransferFailed, Done, Emptied, FailureStatus
  <2>2. pay'.len = 0 /\ pay'.http_status = pay.http_status
        /\ pay'.effective_url = pay.effective_url /\ pay'.content_type = pay.content_type
        /\ pay'.content_disposition = pay.content_disposition
    BY <2>1, <1>0 DEF Payload
  <2> QED
    BY <1>9, <2>1, <2>2 DEF TransferFailed, FailureStatus
<1>10. CASE EffectiveTooLong
  <2>1. pay' = [pay EXCEPT !.http_status = net.status, !.len = 0] /\ pc' = "done"
        /\ net' = net /\ rc' = "TOO_LARGE" /\ res' = res
    BY <1>10 DEF EffectiveTooLong, Done, Emptied
  <2>2. pay'.len = 0 /\ pay'.http_status = net.status
        /\ pay'.effective_url = pay.effective_url /\ pay'.content_type = pay.content_type
        /\ pay'.content_disposition = pay.content_disposition
    BY <2>1, <1>0 DEF Payload
  <2> QED
    BY <1>10, <2>1, <2>2 DEF EffectiveTooLong
<1>11. ASSUME NEW effective \in Url \cup {None}, NEW ct \in ContentType \cup {None},
              Classify(effective, ct)
       PROVE  IInv'
  <2> DEFINE info == [pay EXCEPT !.http_status = net.status,
                                 !.effective_url = effective, !.content_type = ct]
             status == ResponseStatus(info)
  <2>1. pay' = Emptied(info, status) /\ rc' = status /\ pc' = "done" /\ net' = net
        /\ res = "OK" /\ res' = "OK" /\ effective \in {net.at, None} /\ ct \in {net.ct, None}
    BY <1>11 DEF Classify, Done
  <2>2. /\ info.http_status = net.status /\ info.effective_url = effective
        /\ info.content_type = ct /\ info.len = pay.len
        /\ info.truncated = pay.truncated
        /\ info.content_disposition = pay.content_disposition
    BY <1>0 DEF Payload
  <2>6. info \in Payload
    <3>1. net.status \in Status \cup {0}
      BY <1>0 DEF Transfer
    <3> QED
      BY <3>1, <1>0, CollectedTyped
  <2>3. ~pay.truncated /\ pay.len = net.total /\ ~(net.sent > Cap)
        /\ pay.content_disposition \in net.seen \cup {None} /\ net.at \in Https
    BY <1>11 DEF Classify
  <2> HIDE DEF info
  <2>4. CASE status = "OK"
    <3>1. effective \in Https /\ Succeeded(net.status)
      BY <2>2, <2>4 DEF ResponseStatus
    <3>2. effective = net.at
      BY <3>1, <2>1
    <3>3. pay' = info
      BY <2>1, <2>4 DEF Emptied
    <3> QED
      BY <2>1, <2>2, <2>3, <2>4, <3>1, <3>2, <3>3 DEF Succeeded
  <2>5. CASE status # "OK"
    <3>1. pay' = [info EXCEPT !.len = 0]
      BY <2>1, <2>5 DEF Emptied
    <3>2. pay'.len = 0 /\ pay'.effective_url = effective /\ pay'.content_type = ct
          /\ pay'.content_disposition = pay.content_disposition
          /\ pay'.http_status = net.status
      BY <3>1, <2>2, <2>6 DEF Payload
    <3>3. status \in {"HTTP", "SCHEME"}
      BY <2>5 DEF ResponseStatus
    <3> QED
      BY <2>1, <2>3, <2>5, <3>2, <3>3
  <2> QED
    BY <2>4, <2>5
<1>12. CASE UNCHANGED vars
  BY <1>12 DEF vars
<1> QED
  BY <1>1, <1>2, <1>3, <1>4, <1>5, <1>6, <1>7, <1>8, <1>9, <1>10, <1>11, <1>12
  DEF Next, Environment, Timeout, Code, Returned

LEMMA InvAlways == Spec => []IInv
<1>1. Init => IInv
  BY DEF Init, IInv, Phases, EntryInv, FlightInv, HeadersInv, NoGap, CollectInv,
         Outcome, OkIsWholeResponse, ErrorsCarryNoBytes, TooLargeIsOverBudget,
         MetadataOfThisCall
<1> QED
  BY <1>1, TypeCorrect, InvInductive, PTL DEF Spec

\* While the transfer runs the buffer holds all that libcurl has delivered of
\* this response: capy_host_write_cb keeps a chunk whole or ends the transfer.
THEOREM BytesSafe == Spec => []NoGap
<1>1. IInv => NoGap
  BY DEF IInv, Phases
<1> QED
  BY <1>1, InvAlways, PTL

\* No request of a chain is to anything but https, and no chain is longer than
\* it may be (CURLOPT_REDIR_PROTOCOLS, CURLOPT_MAXREDIRS, the check on entry).
THEOREM SchemeSafe == Spec => []RequestsStayHttps
<1>1. IInv => RequestsStayHttps
  BY DEF IInv, Phases, FlightInv, RequestsStayHttps
<1> QED
  BY <1>1, InvAlways, PTL

\* OK is the whole body of a 2xx answer to an https request, and every other
\* result comes without bytes.
THEOREM OkSafe == Spec => [](OkIsWholeResponse /\ ErrorsCarryNoBytes)
<1>1. IInv => OkIsWholeResponse /\ ErrorsCarryNoBytes
  BY DEF IInv, Outcome
<1> QED
  BY <1>1, InvAlways, PTL

\* TOO_LARGE is the verdict of a body, or an effective URL, over its room, and
\* of nothing else that makes libcurl fail.
THEOREM BudgetSafe == Spec => []TooLargeIsOverBudget
<1>1. IInv => TooLargeIsOverBudget
  BY DEF IInv, Outcome
<1> QED
  BY <1>1, InvAlways, PTL

\* The metadata a call returns was written by that call, whatever was in the
\* payload it was handed.
THEOREM MetadataSafe == Spec => []MetadataOfThisCall
<1>1. IInv => MetadataOfThisCall
  BY DEF IInv, Outcome
<1> QED
  BY <1>1, InvAlways, PTL

(***************************************************************************)
(* The call implements its contract.                                       *)
(***************************************************************************)
\* A call that returns does so with a status, in one of the ways of Code.
LEMMA ReturnStep ==
  ASSUME TypeOK, IInv, [Next]_vars, pc # "done", pc' = "done"
  PROVE  /\ url' = url
         /\ rc' \in Statuses
         /\ url \notin Https => rc' \in {"SCHEME", "DISABLED"}
<1>0. pc = "collect" => url \in Https
  BY DEF IInv, Phases, FlightInv
<1>1. CASE Disabled \/ RefuseScheme \/ NoHandle
  BY <1>1 DEF Disabled, RefuseScheme, NoHandle, Done, Statuses
<1>2. CASE TransferFailed
  BY <1>0, <1>2 DEF TransferFailed, FailureStatus, Done, Statuses
<1>3. CASE EffectiveTooLong
  BY <1>0, <1>3 DEF EffectiveTooLong, Done, Statuses
<1>4. ASSUME NEW effective \in Url \cup {None}, NEW ct \in ContentType \cup {None},
             Classify(effective, ct)
      PROVE  url \in Https /\ url' = url /\ rc' \in Statuses
  BY <1>0, <1>4 DEF Classify, ResponseStatus, Done, Statuses
<1>5. CASE Environment \/ Timeout \/ Perform \/ Returned \/ UNCHANGED vars
  BY <1>5 DEF Environment, Timeout, HeaderCb, Redirect, FinalHeaders, WriteCb,
              BodyEnd, Fail, Perform, Returned, vars
<1> QED
  BY <1>1, <1>2, <1>3, <1>4, <1>5 DEF Next, Code

\* Every behaviour of the call is one the contract of capy_host.h allows: no
\* reply, then one of the replies allowed for the URL, then no change.
THEOREM RefinesContract == Spec => Contract!Init /\ [][Contract!Return]_(Contract!vars)
<1>1. Init => Contract!Init
  BY DEF Init, Contract!Init
<1>2. TypeOK /\ TypeOK' /\ IInv /\ IInv' /\ [Next]_vars =>
        [Contract!Return]_(Contract!vars)
  <2> SUFFICES ASSUME TypeOK, TypeOK', IInv, IInv', [Next]_vars
               PROVE  [Contract!Return]_(Contract!vars)
    OBVIOUS
  <2>1. url' = url
    BY DEF Next, Environment, Timeout, Code, Disabled, RefuseScheme, NoHandle,
           Perform, HeaderCb, Redirect, FinalHeaders, WriteCb, BodyEnd, Fail,
           TransferFailed, EffectiveTooLong, Classify, Returned, vars
  <2>2. CASE pc = "done"
    <3>1. UNCHANGED vars
      BY <2>2 DEF Next, Environment, Timeout, Code, Disabled, RefuseScheme, NoHandle,
           Perform, HeaderCb, Redirect, FinalHeaders, WriteCb, BodyEnd, Fail,
           TransferFailed, EffectiveTooLong, Classify, Returned
    <3> QED
      BY <3>1 DEF vars, Contract!vars
  <2>3. CASE pc' # "done"
    <3>1. pc # "done"
      BY <2>3 DEF Next, Environment, Timeout, Code, Disabled, RefuseScheme, NoHandle,
           Perform, HeaderCb, Redirect, FinalHeaders, WriteCb, BodyEnd, Fail,
           TransferFailed, EffectiveTooLong, Classify, Returned, vars
    <3> QED
      BY <2>1, <2>3, <3>1 DEF Contract!vars
  <2>4. CASE pc # "done" /\ pc' = "done"
    <3>1. rc' \in Statuses /\ (url \notin Https => rc' \in {"SCHEME", "DISABLED"})
      BY <2>4, ReturnStep
    <3>2. pay' \in Payload
      BY DEF TypeOK
    <3>3. CASE rc' = "OK"
      <4>1. pay'.effective_url \in Https
        BY <2>4, <3>3 DEF IInv, Outcome, OkIsWholeResponse
      <4>2. pay'.len \in 0..Cap /\ pay'.content_type \in ContentType \cup {None}
            /\ pay'.content_disposition \in Disposition \cup {None}
        BY <3>2 DEF Payload
      <4>3. [rc |-> rc', len |-> pay'.len, effective_url |-> pay'.effective_url,
             content_type |-> pay'.content_type,
             content_disposition |-> pay'.content_disposition] \in Contract!Success
        BY <3>3, <4>1, <4>2 DEF Contract!Success
      <4>4. url \in Https
        BY <3>1, <3>3
      <4> QED
        BY <2>1, <2>4, <3>3, <4>3, <4>4 DEF Contract!Return, Contract!Allowed
    <3>4. CASE rc' # "OK"
      <4>1. pay'.len = 0
        BY <2>4, <3>4 DEF IInv, Outcome, ErrorsCarryNoBytes
      <4>2. rc' \in {"TOO_LARGE", "NETWORK", "HTTP", "SCHEME", "DISABLED"}
        BY <3>1, <3>4 DEF Statuses
      <4>3. [rc |-> rc', len |-> pay'.len] \in Contract!Allowed(url)
        BY <3>1, <4>1, <4>2 DEF Contract!Allowed, Contract!Failure
      <4> QED
        BY <2>1, <2>4, <3>4, <4>3 DEF Contract!Return
    <3> QED
      BY <3>3, <3>4
  <2> QED
    BY <2>2, <2>3, <2>4
<1> QED
  BY <1>1, <1>2, TypeCorrect, InvAlways, PTL DEF Spec
==============================================================================
