# CapyBrowser: TLA+ models, model checking and proofs

CapyBrowser is a static web browser core in C: a URL core, an HTML tokenizer
with two consumers (a text view and a DOM), a CSS subset, layout, a display
list, downloads, forms and session identity, all written against fixed arenas
with no allocation, and a small host (`host/`) that fetches over libcurl and
drives them from a terminal. This directory holds its formal models. Every
definition is translated from the source; `PROJECT.json` maps each one to the
lines it stands for. Paths below are relative to the repository.

1. [Inventory](#1-inventory)
2. [Modules and their correspondence to the code](#2-modules-and-their-correspondence-to-the-code)
3. [Runs and bounds](#3-runs-and-bounds)
4. [Fairness](#4-fairness)
5. [Theorems](#5-theorems)
6. [Where the code and its documents disagree](#6-where-the-code-and-its-documents-disagree)
7. [What is not modelled](#7-what-is-not-modelled)
8. [Plan](#8-plan)

## 1. Inventory

The program is single-threaded. What is concurrent in it is the network: during
`curl_easy_perform` libcurl calls back into `host/fetch.c` in an order the
servers and the clock decide. What is hard elsewhere is sequence (any order of
tags, any order of user commands over pages that change), budgets (every pool
is a fixed array with an overflow path of its own), partial failure (one
step of several fails with state already written) and texts that are parsed,
written and parsed again.

| component | state | operations | interacts with | correct when |
|---|---|---|---|---|
| host_fetch `host/fetch.c` | the caller's payload: buffer, length, truncated flag, HTTP status, effective URL, content type, disposition | `capy_host_fetch_https`, its write and header callbacks, `capy_host_prepare_url`, file and stdin readers | called by capybrowse; calls libcurl, which calls back | OK is the whole body of a 2xx https response, every failure is empty, metadata is of this call, and it returns |
| capybrowse `host/capybrowse.c` | `g_base`, `g_current`, `g_doc`, `g_history`, `g_mode` | `load_url`, `save_download`, `navigate`, the prompt's number, `b` and `q` | fetch, URL core, text view, session, download core | page, links, history and Referer are of one page however a load ends |
| session `src/session` | none (a pure function) | `capy_request_identity` | called by capybrowse before each fetch | the Referer of the request asked for never shows more than the origin across origins, nothing in a private session; redirects of that request are sent the same one |
| text view `src/text/text_emit.c` | output cursor, three line flags, title, list stack, open anchor, link table | one handler per token, `capy_html_to_text` | reads the tokenizer; resolves hrefs by the URL core | clean text, a clean cut at the buffer's end, links numbered as in the text |
| tokenizer `src/text/html_tokenizer.c` | cursor, raw text mode | next token | feeds text view and DOM | every byte belongs to one token; raw text ends only at its own end tag |
| entities `src/text/html_entities.c` | none | decode one reference | used by both consumers and for hrefs | what a document writes is what is read, once |
| DOM `src/html` | node, attribute and string pools, stack of open elements, warnings | one handler per token, `capy_html_parse` | read by cascade, layout, display list | one well-linked tree in document order; every loss is marked |
| css_parse `src/css/css_parse.c` | rule, declaration, string pools | `capy_css_parse` | read by the cascade | ranges are disjoint, errors skip one rule |
| cascade `src/css/cascade.c` | one computed style per node | `capy_css_cascade` | reads DOM and rules; read by layout | the winner is by specificity, then order; inherited where it should be |
| layout `src/layout` | box pool, recursion | `capy_layout` | reads DOM and styles; read by the display list | boxes are the rendered DOM, stacked tightly |
| display_list `src/displaylist` | node and string pools | `capy_display_list` | reads boxes, DOM and styles | the boxes' drawing in order; marked when cut |
| page `src/page` | the stages' arenas, `completed_stage`, the metadata | `capy_page_render` | calls the five stages in order | an unmarked page is whole |
| url `src/url` | none | parse, serialize, normalize, resolve, origin | used everywhere | resolution follows RFC 3986; a URL read again is itself |
| download `src/download` | a request record | derive a name, judge | called by capybrowse | the name is a plain file name |
| forms `src/forms` | a request under construction | encode a submission | none yet; its requests are the fetch's | the fields arrive whole, or it is refused |
| image_adapter `src/codec` | pixels handed over by a decoder | request, release | a host decoder | released once |
| host_adapter `src/adapter` | declarations | | | |
| codecs `src/codecs` | a superseded BMP snapshot | | | |
| release_gate `tools` | a version check of the repository | | | |

`PROJECT.json` lists the hazards at their lines and the properties that watch
each.

## 2. Modules and their correspondence to the code

```
FetchContract  <---- implemented by ---- HostFetch      (one call of the fetch)
     |  its replies are the fetch's answers in
     v
HostShell      ---- implements ---->  BackStack         (the text browser)

HtmlText                                                (the text view of a page)

HtmlSource  -- extends -->  HtmlDom  <-- extends --  StaticPage  -- INSTANCE -->  Layout
(tokenizer)                 (tree builder)           (page pipeline)         and  DisplayList

CssParse    <-- extends --  Style    -- INSTANCE -->  Cascade
(style sheet)               (hand-over)               (computed styles)

UrlCore <-- Entities, Download, Forms <-- Requests      (references, forms, downloads)
```

`MC*` modules give the constants small values; `*_proofs` modules hold the
theorems, and `Induction` what they share. `StaticPage_proofs` is about the tree builder, then
about `HtmlSource`, then about the page that is built on them, and `ReadBack_proofs` goes on from
`Requests_proofs`. In every module an operator whose comment begins "Mutant of" is a
plausible mistake in the operator it precedes. It is used by no specification: it
takes the operator's place to show that a property would notice.

### FetchContract and HostFetch: `host/fetch.c`, `host/capy_host.h`

`FetchContract` is the header's promise as one step: a call about a URL has no
reply, then one that the header comment allows. `HostFetch` is the call itself.

| state | in the code |
|---|---|
| `pay` | `*out`; at first any metadata, since `load_url` leaves it uninitialised |
| `pc` | entry, inside `curl_easy_perform` (`headers`, `body`), after it (`collect`), returned (`done`) |
| `res`, `rc` | the `CURLcode`, the `capy_host_status` |
| `net` | the transfer as libcurl sees it (external), with the true headers and lengths of the final response |

`Disabled`, `RefuseScheme`, `NoHandle`, `Perform` are the entry; `HeaderCb` and
`WriteCb` the callbacks; `TransferFailed`, `EffectiveTooLong`, `Classify` what is
done after the transfer. `Redirect`, `FinalHeaders`, `BodyEnd` and `Fail` are
libcurl and the servers, modelled from the options the code sets. A body is
counted, not spelled: `pay.len` and `net.sent` are byte counts.

Properties: `NoGap` (the buffer is exactly what was delivered),
`OkIsWholeResponse`, `TooLargeIsOverBudget` (the status is precise both ways),
`MetadataOfThisCall`, and `ImplementsContract`, which includes that a reply comes.

### HostShell and BackStack: `host/capybrowse.c`, `src/session/session.c`

One step per call of the browser's loop that can fail or change its state:
`PrepareTarget`/`RefuseTarget` (the first `prepare_url`), `FetchPage`,
`Rebase`/`RebaseFails` (the second one, on the effective URL), `SaveDownload`,
`Render`, then `PushPage`, `DropLeftPage` or `NavigateFailed` in `navigate` or
`interactive_loop`. The fetch answers with any reply `FetchContract` allows, so a
page may fail, move, become a download or change its links between two visits.
While a request is under way `hop` is the URL it is sent to. `FollowRedirect` lets
the servers send it on to any https URL, with the `referer` it was given at first:
`load_url` computes that once (`capybrowse.c:241`), and libcurl repeats
`CURLOPT_REFERER` on every hop (`fetch.c:228`). The page that answers is the one of
the last hop.
`Garbled` stands for what an overflowing `capy_url_serialize` leaves in
`g_base`. URLs are model values; `Prepare`, the normalisation, is a constant
function of which only what the shell relies on is assumed (`ShellConstants`).
`base` is `g_base`, `current` is `g_current`, `doc` is the base and the links of
`g_doc`, and `history` is `g_history[0 .. g_history_len-1]`.

`BackStack` is what a user expects of a back button: a trail of pages, to which
one is added or of which the last is taken. A full history forgets its oldest
entry, so the trail is `dropped \o history`, where the auxiliary `dropped` holds
what `history_push` has shifted out.

Properties: `LinksBelongToCurrent`, `FailureKeepsPage`, `HistoryWasServed`,
`RefererPolicyUnlessRedirectedAway` (the Referer policy on every hop, and the one case in
which it fails), `TopIsCurrentWhileClean`, `ImplementsBackStack` and `LoadsReturn`.

### HtmlDom and HtmlSource: `src/html`, `src/text/html_tokenizer.c`

`HtmlDom` is the tree builder, one step per token: `Text`, `Start`, `End`,
`UnclosedComment`, `Finish`. The pools are `nodes` with the links `parent`,
`firstChild`, `lastChild`, `nextSibling` (node 1 is the root, 0 no node; the code
counts from 0 and uses -1), `attr_count` and `string_len`. Names are values,
texts byte counts. The tokenizer appears as `feed`: after a raw text start tag
only that element's text and end tag can come, and after a tag or comment the
input's end has cut there is nothing. The auxiliary `offered` and `ideal` are the
same document under no budget: what its tokens called for and what would be open.

`HtmlSource` puts the tokenizer before it. A text is a sequence of units (letters,
a letter for each name that matters, the marks of tags, a quote, a blank); `pos`,
`raw_end` and `tok` are `tk->pos`, `tk->raw_end` and the token handed on.
`Tokenize` is one call of `capy_html_tokenizer_next`, `Build` the turn of
`capy_html_parse` that uses the token, `EndParse` the end of the loop. A document
may also have no text (`Free`): then tokens come as `feed` allows, in any order
and with any sizes, and the pools meet more of their limits than short texts reach.

Properties: `TreeLinked` (the four link fields are one tree, walked oldest
first), `DocumentOrder` (a subtree is a run of the pool whatever the end tags),
`WarningsTellLosses` (an unmarked document is the ideal one, every budget warning
was due, and raw text is in its own element), `OnlyGrowsAtTop` (what was closed
stays closed), and `TokensTellSource`: tokens come only as `feed` allows, so that
what `HtmlDom`, `HtmlText` and the theorems assume of the tokenizer is what it
does, and they part the text, each being what its type says.
`LeavesStayLeaves` and `OpenIsLastBranch` are proved only.

### StaticPage, Layout and DisplayList: `src/page`, `src/layout`, `src/displaylist`

`Layout` turns the recursion of `layout_children` into a stack of frames, one
per active call, and makes each turn of its loop a step: `Skip`, `NoBox`,
`PlaceText`, `PlaceBlock`, `Return`. The variable `lines` has how many lines a
text takes at the viewport's width; x and width are the same in every box and
are left out.

`DisplayList` takes one box a step, as `dl_emit_box` does, into two pools: `dl`
has the draw nodes, each with the ranges of its strings in the arena, and the
arena's fill. Texts take the colour of the nearest element that sets one; `looks`
says what the style sheet and the attributes make of the elements of a name, in
bytes. `drawn` has the bytes of each text once its blanks are collapsed.

`StaticPage` extends `HtmlDom` and runs the stages of `capy_page_render` after
it: any style sheet (`ParseCss`), any assignment of `display: none` to elements
(`Cascade`), layout and the display list in full, up to the metadata of the page.
The DOM that layout walks is whatever `HtmlDom` builds.

Properties: `BoxesFollowDom` (the box tree is the rendered part of the DOM, cut
only where it is marked), `FlowIsTight` (no gap and no overlap, also where boxes
were dropped), `ListIsDrawing` (the list is what the boxes call for up to the node
there was no room for; no two strings share a byte; none is short but at the
arena's end), `WholePageShown` (an unmarked page has every node its tokens called
for, a box for each rendered one and everything these draw) and `PageReturns`.

### HtmlText: `src/text/text_emit.c`

A step is a tag, a character of a text or one byte written. `body` is the
output buffer with its line state (`line_has_content`, `pending_space`,
`pending_newline`, `cut`); `queue` has the bytes of the character, list marker or
link number being written, and nothing else happens until they are out, as in
the code's loops. `OutRawByte`, `BodyEmitChar`, `BodyEmitPreByte`, `BodySpace`,
`BodyFlushBlock` and `TitleEmitChar` are the functions of those names.
Characters are kinds: a visible byte, a three-byte character, the four ASCII
blanks, `&nbsp;` and a reference to no character. An `href` resolves or not.
The auxiliary `whole` and `whole_title` are the same text in buffers without
end, `lists` the open lists without limit, and the bytes "s" and "t" mark text
that was read in a script or style, or in the first title.

Properties: `CutsAreClean` (what is in the buffer is the start of the whole text,
and all of it when the view is not marked), `PlainTextCollapses` (no blank at an
end of a line, none doubled, no empty line, and the line flags say what is in the
buffer), `MarkersMatchLinks` (numbers in the text are those of the table, each
behind its label, no label ends in half a character), `ItemsAreNumbered`,
`RawTextInPlace`.

### Style, CssParse and Cascade: `src/css`

`CssParse` reads one character a step. `mode` says in which of the nested loops
the scanner is: between rules, in an at-rule or its block (with `depth`), in a
prelude, before, in or behind a property's name, before or in its value, or
recovering (`bad`); `in_comment` is the loop inside `css_skip_ws`, which runs in
the modes `Skipping`. A comment mark is one character, and where the code does
not look for comments it is a byte like any other. `sheet` is `*out`: rules and
declarations with the strings themselves in place of ranges of the arena,
`string_len` for the arena's fill, and the warnings as a set. The rules of a
block are emitted after its declarations (`EndRule`). The auxiliary `whole` is
the sheet with pools without end, and `of` numbers the block a rule or
declaration comes from.

`Cascade` computes the style of one node a step, in document order, which is the
order of the calls of `cascade_node`. A value is the number of the declaration it
comes from; that a class attribute is a list of names parted by blanks is a set
of names. `Style` hands it the sheet a text was parsed to (`HandOver`); a
behaviour may also begin with a sheet longer than those the texts make.

Properties: `RulesOwnTheirDeclarations` (a rule's range is exactly the
declarations kept of its own block), `BudgetsCutTheEnd` (rules and declarations
kept are those of the text at that place; an unmarked sheet is all of it) and
`ComputedIsCascade`, which compares the loops over rules and declarations with
the definition: the winner by specificity, rule and place, or else, for an
inherited property, the nearest ancestor's.

### UrlCore, Entities, Download, Forms and Requests: `src/url`, `src/text/html_entities.c`, `src/download`, `src/forms`

The code here keeps no state: each call is a function of its arguments, and a
module is a set of operators. A text is a sequence of units: a character, a
percent triplet, a byte outside ASCII, or a `%` that begins no triplet. `Size` is its
length in bytes. The unit "s" stands for the letters of https, the one scheme
with a default port.

`UrlCore` has `capy_url_parse` with its helpers in their order (what is refused
first decides the status), normalisation (case, triplets, default port, dot
segments), resolution against a base, `capy_url_serialize` and
`capy_url_origin`. `Entities` has `capy_html_charref_at`, `capy_utf8_encode` and
`decode_href` (`HrefText`). `Download` has the verdicts of
`capy_download_prepare`, the parameters of a Content-Disposition between quotes and
escapes, the extended form, the name out of a URL, and the sanitiser. `Forms` has
`capy_form_submit`.

`Requests` puts them in the order in which a reference of a page goes through them:
`ResolveLink` (`handle_anchor_start`), `SubmitForm` or `Prepare` make a URL of
it, and `HandToHost` gives its text to `capy_host_prepare_url`, which parses it
again (`PrepareUrl`). What goes wrong there goes wrong between the two parses.

Properties: `PathIsResolved` (dot segments against the definition over
segments), `ReferencesStayHome` (a relative reference stays in its page's origin,
also when read again), `BaseMayBeNormalized` (the shell resolves against a
normalized base, with the same result), `LinkWithAuthorityIsFetched` (what the host
prepares of such a link is that link), `FieldsReachTheServer` (decoding the
query or body gives the fields back), `NamesAreSafe`, and `HrefsAreReadOnce`
(a text written by name, in decimal with or without leading zeros, or in hex, is
read back, once; decoding never lengthens an href).

## 3. Runs and bounds

| run | configuration | states | shows |
|---|---|---|---|
| fetch | 4 URLs (one http, one too long to report), 4 status codes, buffer of 2 bytes, bodies to 4, 1 redirect | 0.07 M | the fetch implements its contract |
| shell | 3 pages in 2 origins, 4 more URL strings, history of 2, trail of 3, any number of redirects | 0.6 M | the browser's state is of one page, and its history is the trail |
| dom | texts of up to 4 of 9 units, or 5 inside a tag, a raw text element or a comment; documents of 5 tokens over 4 names; 5 nodes, 1 attribute, 2 bytes, depth 3; names of 2, 2 recorded attributes, hrefs of 1 | 1.4 M | tokens tell the text; one well-linked tree, losses marked |
| page | a link, an image, a script; 5 nodes, 4 boxes, depths 3 and 3, 3 draw nodes, 5 bytes of strings, 4 tokens | 1.2 M | boxes are the rendered DOM, the list is their drawing; the call returns |
| text | two vocabularies: `a`, `p`, `pre`, `title`, a wide character, four blanks (6 tokens); lists, `title`, `script`, `b` and references (7 tokens); buffer of 9 bytes, 2 links, labels of 3, title of 2, list stack of 2 | 3.2 M | clean cuts, collapsed blanks, numbers in the text are those of the table and of the items |
| style | 11 characters, 9 in a text, at most one of them outside a plain sheet; 2 rules, 1 declaration, 3 bytes of arena; sheets of 2 rules with 2 declarations or 3 rules, some sharing theirs; 2 elements and a text | 0.8 M | what is kept is what the text says there; computed values are the winners' |
| requests | references of up to 3 of 7 units, paths of up to 5, authorities of up to 3 of 11, against up to 5 bases; character references of up to 4 units and at every numeric limit; forms of up to 2 fields; header values of up to 3 units | 0.04 M | URLs are resolved, stay home and are fetched as they are; fields arrive; names are safe |

Five more runs are expected to find a violation (section 6): `fetch_disposition`,
`shell_top`, `page_script`, `requests_idempotent` and `requests_scheme`.

Why the bounds are enough. Each pool is given a capacity that the longest inputs
overflow by more than one entry, and the shortest do not reach; that is all the
code asks of a capacity.

- *fetch*: two redirects exceed a limit of one; chunks of 1 to 4 bytes over a
  buffer of 2 give an exact fit, one byte over, an overflow in the first chunk
  and one in a later chunk.
- *shell*: a history of two is full after two pages and forgets one at the third,
  and `b` works at a length of two. `MaxTrail`, in the guard of `FollowLink`,
  bounds how far a user goes before going back; any number of `b` and links under
  it is included. Two origins suffice for a redirect that leaves the page's origin and one
  that comes back. Hops need no bound of their own: a hop is one of five URLs.
- *dom*, *page*: five tokens over four names and depth three reach every
  combination of a full pool, a closed ancestor and a void or raw element. Texts
  of five units inside a tag hold two attributes, one of them quoted or cut by the
  end; inside a raw text element they hold an end tag that is one, and each that nearly is.
  Where `MaxDepth` equals `MaxLayoutDepth`, as 128 equals 128 in the code,
  layout's limit meets the deepest DOM.
- *text*: lists meet blocks and links only in the line state, which both
  vocabularies exercise, so each is run on its own.
- *style*: nine characters hold a list of two selectors with a declaration, a
  second declaration, or a second block, and any one error or comment among
  them. With three rules each pair differs in specificity or ties, at either end
  of the order; a chain of three nodes tells inheriting from a parent from inheriting from
  further up.
- *requests*: five units of path hold `..` twice with a separator, above the root
  too. The capacities (`MaxLen` 20, host 4, path 6, query 5, port 40 with a
  default of 4, name 2, candidate 4, body 6) are kept by some of the inputs and
  exceeded by others.

What a run bounds, a guard or the set of initial states names: `MaxBody`, `MaxRedirs`,
`MaxTrail`, `MaxText`, `MaxTagAttrs`, `MaxTokens`, `MaxFree`, `Inputs`, `Documents`,
`MaxInput`, `MaxPrelude`, `MaxWord`, `MaxOdd`, `Links`, `Submits`, `Responses`.

`MCHtmlDom` uses the symmetry of two plain elements that no set of the model
tells apart; its properties have no temporal part but `OnlyGrowsAtTop`, which is
a step property.

## 4. Fairness

- `HostFetch`: weak fairness of the code's own steps, since a single thread runs
  on, and of `Timeout`, since `CURLOPT_TIMEOUT` (30 s) bounds the transfer from
  outside however slowly servers send. Servers owe nothing: no redirect, header,
  chunk or end of body is ever promised.
- `HostShell`: weak fairness of `Load`. Its only wait is the fetch, and that the
  fetch returns is `ImplementsContract`, since `CURLOPT_MAXREDIRS` and
  `CURLOPT_TIMEOUT` end every chain of redirects. `Servers`, the redirects, are outside
  `Load`: nothing promises one. The user owes nothing.
- `StaticPage`: weak fairness of `Render`, one call on one thread. That it ends is
  not assumed: `PageReturns` fails when the loop of layout does not advance.
- `HtmlDom`, `HtmlSource`, `HtmlText`, `Style`, `Requests`: no liveness, no fairness.

## 5. Theorems

All are for every value of the constants that satisfies the module's named
assumption (`FetchConstants`, `ShellConstants`, `DomConstants`, `SourceConstants`,
`PageConstants`, `TextConstants`, `CssConstants`, `CascadeConstants`,
`RequestConstants`, `DownloadConstants`). These say that capacities are
numbers and how the constants relate, as the code's own constants do:
`SourceConstants` that no letter is a mark of the syntax, that texts are sequences of
units and that what the tokenizer can store is a name;
`PageConstants` that an image is no anchor, since one name cannot be both;
`TextConstants` that the list stack is no longer than the nesting counted;
`CascadeConstants` that a document's parents come before their children and that
a sheet's ranges lie in its pool;
`RequestConstants` that hrefs, bases and headers are texts and fields are of bytes the
model encodes, `UrlConstants` that a path has room for its slash, and
`DownloadConstants` that there is room for one byte of a name.

**HostFetch_proofs.** `TypeCorrect`, `BytesSafe` (`NoGap`), `SchemeSafe` (nothing
but https is ever requested), `OkSafe`, `BudgetSafe` and `MetadataSafe`. The last
three speak of the end of the call and are not inductive: the invariant `IInv`
has `Phases`, what is known in each phase, above all that in `collect` either
nothing was dropped and the buffer is `net.sent` bytes, or something was,
`net.sent` is over the capacity and the result is a write error. `RefinesContract`
shows that every step is the contract's `Return` or a stutter.

**HostShell_proofs.** `TypeCorrect`, and one theorem for each of the run's
safety invariants: `LinksSafe`, `FailureSafe`, `HistorySafe`, `RefererSafe`, `TopSafe`,
for every set of pages and every history length. `TypeInv` adds to the types what
`pay`, `base` and `caller` can be in each phase (at `dispatch` the base is a page;
`b` is only under way with two entries). `ShellInv` is `PageInv`, `ServedInv`,
`KeptInv`, `RefererInv` and `CleanInv`, which say phase by phase which of page,
document and history are still as the user left them, and that the Referer in flight is
the one computed for the URL asked for, on whichever hop it is. `RefinesBackStack` proves
`Spec => ImplementsBackStack`: a failed or moved navigation leaves
`dropped \o history` alone, and a push appends to it even when it drops the oldest
entry.

**StaticPage_proofs, the tree and its tokens.** `TypeCorrect`, `TreeSafe` (`TreeLinked`, with
`LeavesStayLeaves`) and `OrderSafe` (`DocumentOrder`, with `OpenIsLastBranch`) from
`DomInv == TypeOK /\ TreeShape`. `DocumentOrder` is not inductive alone: a new
node becomes a child of the innermost open element, and its position at the end
of the pool is right only if nothing after that element lies outside it.
`Spine` says so of every open element, together with: open elements are ordered,
are no texts and no void elements, and sit at their depth. Each lemma takes one
step of the pool (`Grown`) or of the stack alone and one part of the
invariant. `LossesTold` (`WarningsTellLosses`) and `TreeGrowsAtTop`
(`OnlyGrowsAtTop`) add `LossInv`, which has what is known of raw text: only its own
text can come while it is open, which is what makes an unmarked document equal
to the ideal one.

These theorems are over `HtmlDom`'s own `Spec`, whose tokens are any that `feed`
allows. Their lemmas take one `AnyToken`, a token of any size, so they serve the
parse of a text as well.

The next part of the module does so. `TokensSafe` (`TokensTellSource`) is for texts of any length, and
over them are the theorems of the tree builder: `ParseSafe` (`TypeOK`, `TreeLinked`,
`DocumentOrder`), `ParseTells` (`WarningsTellLosses`), `ParseGrows`
(`OnlyGrowsAtTop`). `SourceInv` has `Between`, what builder and tokenizer know of each
other before a call (`raw_end` is the builder's `raw`; where the builder expects the end
of raw text, that end tag or the input's end stands at `pos`), and `Given`, that the token
under way is what its place in the text says and one `feed` allows. Every scan has its lemma
(`FindIs`, `PastIs`, `FirstIs`), and `AttributeIs` has that an attribute always gets further
on. The contents of a tag are recursive: `Read` looks only ahead, so a function that solves it exists
(`Readings`, by induction), and what is claimed of it holds from the end of the text
backwards. `ClosesName` joins two scans that the code writes apart: what ends raw text
is then read as the end tag of that very name. `BuildsTokens` is that every step is
an `AnyToken` of `HtmlDom` or a stutter.

**StaticPage_proofs, the page.** `BoxesSafe` (`BoxesFollowDom`) and `FlowSafe` (`FlowIsTight`), on
every DOM the tree builder makes, from its `DomInv`. Both properties are about
finished boxes; while the recursion runs a box is short of the children still to
come. `FlowInv` therefore ties each frame of the call stack to the box it fills:
`Calls` (the frames are a branch of the boxes, each at a child of its node),
`Order` (every box's node comes before each child still to be visited),
`Complete` (of what a frame has passed nothing that renders is without a box
unless that is marked) and `Tight` (the cursor of the innermost frame is where the
boxes placed in it end).

`ListSafe` (`ListIsDrawing`) and `PageShown` (`WholePageShown`) build on them. `Drawing` relates the two pools to the calls made so far: the
nodes are a first part of them, their strings lie end to end, and whichever pool
was full marks the list. The calls of all boxes are a fold, which `Iterates`
gives as a sequence of steps (`Joined`), so that one box adds its own calls at the
end. `ShownInv` joins this to `LossInv` and `PageInv`: the losses of three stages
meet in `page_truncated`.

**HtmlText_proofs.** `CutsSafe` (`CutsAreClean`), `PlainSafe` (`PlainTextCollapses`),
`NumbersSafe` (`ItemsAreNumbered`), `RawSafe` (`RawTextInPlace`) and `MarksSafe`
(`MarkersMatchLinks`). The step that
matters is one byte, and the hard case is the byte for which there is
no room. `Pair` relates buffer and line state to the same text without end: until
the cut they are equal; from then on the buffer is a first part of the other,
is full, and stays as it is whatever the flags make of it. `Tracked` has what the line
flags say of the last bytes, and `Trimmed` that the text has been collapsed so far.
`ReadInv` and `QueueInv` say whose bytes are under way, which is what keeps the
bytes of a script or title out of the text. `MarksInv` is about links. A marker is
queued with its number when the anchor ends, and its bytes are written one by one, so the
invariant speaks of the text as it will be once the queue is written, which
writing a byte does not change. In that text every character is whole and there is an increasing
function from the links of the table to the places of their markers that meets every
bracket; a link's label is what stands between its start and its marker, trimmed and
cut to the label's size. The start of an open anchor is not inside a character, so neither cut
of a label leaves part of one. That the brackets are as many as the links then follows
from that function.

**Style_proofs.** `RulesOwn` (`RulesOwnTheirDeclarations`), `BudgetsCut`
(`BudgetsCutTheEnd`) and `StylesCascade` (`ComputedIsCascade`). `ParserInv` has two
states of the sheet. Inside a block (`Open`) its declarations are exactly those
behind `decl_start`, and no rule is of it yet; the rules emitted at its end
get that range, and outside (`Shut`) every rule owns its own. `Related` ties the
sheet to the one without end, pool by pool, the arena's last string included; the
types of `name` and `word` in each mode give that no mark of the syntax is in
them. `CascadeInv` carries `SheetInv` and `DocumentInv` over the hand-over. In the
cascade itself the code's two loops are recursive functions; that they hold the strongest
candidate so far (`Strongest`, `Upto`) is an induction over rules and declarations.

**Requests_proofs.** `RequestSafe` (`RequestInv`: an answer is a function of its call, and
stays), `NamesSafe` (`NamesAreSafe`), `PathsResolved` (`PathIsResolved`), `LinksFetched`
(`LinkWithAuthorityIsFetched`), `HomeKept` (`ReferencesStayHome`) and `BaseNormalized`
(`BaseMayBeNormalized`), for hrefs, bases and headers of any length. For a name it takes what each scan of the header leaves
and that the sanitiser removes every unsafe byte of whatever it is given: `SanitizedSafe`
needs nothing of the header, and the default name is safe by itself. For a path the code's
loop works on text and the property on segments. `Resolved` joins them: for a path that
begins with a slash, `RemoveDotSegments` has the segments `Walked` of its own.
`LeadOn` is the invariant of the loop (what is still to be read, walked on from the segments
written so far, leads to the same place), `RootedTurn` takes one turn and
`PopSegments` the search backwards for a slash, by which the code goes up. `ParsedSegments`
carries it to the URL that `Parse` returns: with a host the path, its own or merged with
the base's, begins with a slash (`MergedIs`), so that the loop is never given another.

The last three are about the second parse. A URL with an authority that `Parse`
returns is `Sound`: each
component is a text of units its place allows, is normalized, and fits its size
(`ParseSound`). `Serialize` joins such components, and `SplitAgain` takes the text apart
at the same places, since no component holds a unit that ends it. What normalizing, lower
case and the removal of dot segments leave, they leave as it is when they come again
(`NormalizedKept`, `SmallKept`, `RemoveDotSegments` of a path without dot segments), and a
port is read from its digits as the number they were written from (`DecimalIs`). So
`ParseAgain` has that a URL with an authority is read as itself; the authority is needed,
as `requests_idempotent` shows. `LinkParsed` adds that the host finds its `://`.
`HomeKept` and `BaseNormalized` use the same lemma for the base: resolving keeps the base's
authority, and `TwinsMeet` compares, component by component, a reference resolved
against a base as it came and as it was normalized.

**ReadBack_proofs.** `FieldsReach` (`FieldsReachTheServer`) and `HrefsRead`
(`HrefsAreReadOnce`), for fields and hrefs of any length.
For `FieldsReach` a form's text is split at its `&` (a fold), each
part at its first `=`, and each unit decoded: `Encode` makes none of the two, so the parts
are the fields'. In a GET the text goes through the host as the query of the target.
`TextCarries` has that it stands in the target's text behind the first `?`, and
`CarriedIs` that such a text is read with that query, with or without an authority.
Normalizing rewrites triplets of unreserved characters (`%7E` to `~`); a field is read
the same from the text as sent and as normalized (`Sent`).

`HrefsRead` is about the reader of references. What stands between the prefix and the
semicolon is the run of digits the reader takes, whatever comes behind (`SpeltIs`); it is
read as the number it was written from, in decimal with zeros before it or
without (`DecimalRead`) and in hex (`HexRead`). So each way of writing a character is read
as that character and no further (`StandsFor`, `CharacterRead`), and the
induction over the text is `WrittenRead`. That an href does not grow is `HrefSize`: what a
reference stands for has no more bytes than the reference (`ReferenceTakes`).

**Induction** has that induction once, over sets of numbers in the place of
predicates: the library's rules take an operator as a parameter, which the backends cannot
instantiate, but a set is a value. `Iterates` gives for any sequence of steps the
sequence of their results, and `Recursion` that a function exists which is defined by its
values on smaller arguments: both are what a recursive definition needs to be
reasoned about.

Model-checked only is liveness (`LoadsReturn`, `PageReturns`, and the return that
`ImplementsContract` includes): the prover has no rule for fairness or ENABLED.

## 6. Where the code and its documents disagree

Each of these is a run that finds the behaviour.

- `fetch_disposition`: the header callback keeps the Content-Disposition of a
  redirect and nothing clears it, so it names the file of the response that
  follows; the compatibility document speaks of the downloaded response's.
- `shell_top`: a download is pushed on the history and does not become the current
  page, against the comment "top = current page". `b` then loads the page that
  is shown.
- `page_script`: a script at the depth limit is added to the tree and not opened.
  Its text becomes a child of the element around it and is laid out, which both
  documents exclude. `WarningsTellLosses` states what does hold: without that
  loss, raw text is in its own element.
- `requests_idempotent`: `/.//` against `a:a/a` has no authority and a path that begins with
  two slashes once its dot segments are gone; its text reads as a URL with an empty
  authority. "Normalization is idempotent" (`compatibility.md:87`).
- `requests_scheme`: `capy_host_prepare_url` takes every text without `://` for a host
  name, so a link to `tel:911` is requested as `https://tel:911`, against "anything that is
  not https is refused at the adapter" (`fetch.c:119`).
  `LinkWithAuthorityIsFetched` states what does hold.

The `shell` run states one more, with its exact condition, as a property that holds:

- *Referer on redirects*: "same-origin -> the full current URL minus fragment;
  cross-origin -> the current origin only" (`session.h:53`, and "strict-origin-when-cross-origin",
  `compatibility.md:596`) describes the request asked for. When that request is for
  the page's own origin and a redirect leads it to another, the other origin gets the
  whole URL of the page, because the Referer is computed before the fetch and libcurl
  resends it. `RefererPolicyUnlessRedirectedAway` says that this happens on each such hop
  and that the policy holds on all others; `RefererSafe` proves it for any number of
  redirects. The hop is reached in the run: a link from `p` to `q`, redirected to `far`.

Others met on the way and stated here only:

- *text view*: a tab in a `<pre>` reaches the text ("tabs and other controls are
  normalized away", `html_text.h`), and a blank after `<li>` follows the blank of the
  item's marker ("whitespace runs collapse to a single space", `compatibility.md`);
  `PlainTextCollapses` excludes `<pre>` and `<li>` for that reason. An `<a>` that opens a
  block gets a label that begins with a line break (`text_emit.c:373`), since the
  start of the label is taken before the break is written.
- *tokenizer*: a declaration `<!...` or a raw text element that the input's end cuts
  is not flagged. Attributes over 32 and hrefs over 2048 bytes are dropped
  without a warning.
- *references*: a numeric reference of more than 9 decimal or 8 hex digits, leading
  zeros included, counts as out of range (`html_entities.c:200`), so it becomes
  U+FFFD in a text and stays undecoded in an href, though its value is in range
  (`compatibility.md:171`). C1 control characters are removed where a reference makes
  them, and pass as raw bytes.
- *layout*: a childless element at depth 128 marks the layout truncated
  (`layout.c:159`), although it lost nothing and is not nested deeper than `layout.h`
  allows.
- *style sheets*: "Block comments and whitespace are skipped"
  (`compatibility.md:311`), yet a comment inside a selector list makes its selector
  unsupported, one that touches a property's name is part of the name, and one inside
  a value stays there. The block of an at-rule runs to the end of input without
  `UNCLOSED_BLOCK` (`css_parse.h`). A name that the arena cuts short is
  kept as a selector of the shorter name; the sheet is marked truncated
  (`BudgetsCutTheEnd` allows for it).
- *downloads*: a refusal for the size or the name leaves the URL filled in, where
  `download.h:33` says a rejected request is empty (`download.c:224`). An empty `filename=""` falls back to
  the name in the URL. A `%00` in the extended form ends the name.

## 7. What is not modelled

- The image adapter (`src/codec`): two calls without state around a decoder of the
  host's. Nothing in the repository but its tests calls them, so the order of
  requests and releases, all there would be to check, is not in this code.
- `src/adapter` has declarations only; `src/codecs` is superseded; the release
  gate is a check of the repository's version strings.
- Option parsing, usage text, pagination, terminal output and the file system.
  The error returns of a stage of the page need a NULL argument, which
  `capy_page_render` has refused before it calls the stage.
- The check of its arguments in `capy_host_fetch_https` (`fetch.c:190`): its one caller
  passes a URL and a buffer of at least one byte (`input_cap`, `Cap \in Nat \ {0}`).
- Content: names and texts are abstracted to what the properties tell apart. The
  table of entities is two names; what the others stand for is data. The
  numeric capacities (1024 nodes, 64 links, ...) are constants of the modules; the
  runs give small ones and the theorems hold for all.

## 8. Plan

Done, in this order: FetchContract and HostFetch, BackStack and HostShell, their
proofs; HtmlDom and its proofs; Layout and StaticPage; HtmlText; CssParse and Cascade,
joined by Style; DisplayList, which completes StaticPage; HtmlSource; the losses of
the tree builder; UrlCore, Download, Forms and Entities, joined by Requests; then the
proofs about layout, display list, text view, style sheets and cascade, those about
the tokenizer, which carry the tree builder's over to every text; and last those
about requests, with which every invariant of a passing run is a theorem.

Next: the computed styles of `Style` in `StaticPage`, in the place of any choice of
`display: none`, and the verdict of `Download` in `SaveDownload` of `HostShell`.
