------------------------------- MODULE HtmlDom -------------------------------
(***************************************************************************)
(* The tree builder of html/html_parse.c over the arenas of html/dom.c:    *)
(* one step per token.  The tokenizer is its environment: it delivers any  *)
(* token its state allows, and after the start tag of a raw text element   *)
(* nothing but that element's text and end tag.                            *)
(***************************************************************************)
EXTENDS Naturals, Sequences

CONSTANTS
  Name,         \* tag names, as the tokenizer stores them (32 bytes at most)
  Void,         \* is_void_element: br, img, ...
  RawText,      \* script, style, title, textarea
  Verbatim,     \* script and style: their text is not entity-decoded
  Script,       \* the name "script"
  None,         \* the name of the root and of text nodes
  MaxNodes,     \* CAPY_DOM_MAX_NODES (1024)
  MaxAttrs,     \* CAPY_DOM_MAX_ATTRS (1024)
  Arena,        \* CAPY_DOM_STRING_ARENA (65536)
  MaxDepth,     \* CAPY_DOM_MAX_DEPTH (128)
  MaxText,      \* bound of the model: bytes of a text or of an attribute
  MaxTagAttrs,  \* bound of the model: attributes of a tag (32 in the code)
  MaxTokens     \* bound of the model: tokens of a document

ASSUME DomConstants ==
  /\ Void \subseteq Name /\ RawText \subseteq Name
  /\ Verbatim \subseteq RawText /\ Script \in Verbatim
  /\ Void \cap RawText = {}
  /\ None \notin Name
  /\ MaxNodes \in Nat \ {0}
  /\ MaxAttrs \in Nat
  /\ Arena \in Nat
  /\ MaxDepth \in Nat \ {0}
  /\ MaxText \in Nat /\ MaxTagAttrs \in Nat /\ MaxTokens \in Nat

VARIABLES
  nodes,        \* the node pool; node 1 is the root, 0 stands for no node
  parent, firstChild, lastChild, nextSibling,  \* its tree links
  stack,        \* the open elements, from the root down
  attr_count,   \* attributes in use
  string_len,   \* bytes of the string arena in use
  truncated,    \* doc->truncated
  warnings,     \* the codes of doc->warnings
  feed,         \* what the tokenizer may deliver next: any token, the text of
                \* `raw` ("raw"), its end tag ("close"), nothing ("end"); or
                \* the parse is over ("done")
  raw,          \* the raw text element whose text the tokenizer is in
  \* Auxiliary variables: the same document under no budget.
  offered,      \* tokens read; nodes, attributes and bytes they called for
  ideal         \* names of the open elements

tree == <<nodes, parent, firstChild, lastChild, nextSibling>>
vars == <<tree, stack, attr_count, string_len, truncated, warnings, feed, raw,
          offered, ideal>>

Budgets == {"INPUT_TRUNCATED", "NODE_BUDGET", "ATTR_BUDGET", "STRING_BUDGET", "DEPTH_LIMIT"}
-----------------------------------------------------------------------------
(***************************************************************************)
(* The arenas.                                                             *)
(***************************************************************************)
Least(m, n) == IF m <= n THEN m ELSE n

\* Mutant of Interned: the arena's end is not checked.
InternedAll(n) == n

\* capy_dom_intern stores what fits of n bytes.
Interned(n) == Least(n, Arena - string_len)

StringWarning(n) == IF Interned(n) < n THEN {"STRING_BUDGET"} ELSE {}

\* Mutant of PoolFull: the last entry is never used.
PoolFullEarly == Len(nodes) + 1 >= MaxNodes

PoolFull == Len(nodes) = MaxNodes

NodeWarning == IF PoolFull THEN {"NODE_BUDGET"} ELSE {}

\* build_attrs records what fits of n attributes.
Recorded(n) == Least(n, MaxAttrs - attr_count)

AttrWarning(n) == IF Recorded(n) < n THEN {"ATTR_BUDGET"} ELSE {}

\* Mutant of Warn: the depth limit is not counted as a truncation.
WarnNotDepth(codes) ==
  /\ warnings' = warnings \cup codes
  /\ truncated' = (truncated \/ codes \cap (Budgets \ {"DEPTH_LIMIT"}) # {})

\* capy_dom_warn, and doc->truncated, which goes with every budget warning.
Warn(codes) ==
  /\ warnings' = warnings \cup codes
  /\ truncated' = (truncated \/ codes \cap Budgets # {})

Top == stack[Len(stack)]

\* Mutant of AddNode: the element around the innermost one gets the node.
AddNodeOneUp(node) ==
  LET p == stack[IF Len(stack) = 1 THEN 1 ELSE Len(stack) - 1]
      new == Len(nodes) + 1
  IN /\ nodes' = Append(nodes, node)
     /\ parent' = Append(parent, p)
     /\ firstChild' = Append([firstChild EXCEPT ![p] = IF @ = 0 THEN new ELSE @], 0)
     /\ lastChild' = Append([lastChild EXCEPT ![p] = new], 0)
     /\ nextSibling' = Append(IF firstChild[p] = 0 THEN nextSibling
                              ELSE [nextSibling EXCEPT ![lastChild[p]] = new], 0)

\* Mutant of AddNode: the second child is linked as if it were the first.
AddNodeRelinked(node) ==
  LET p == Top
      new == Len(nodes) + 1
  IN /\ nodes' = Append(nodes, node)
     /\ parent' = Append(parent, p)
     /\ firstChild' = Append([firstChild EXCEPT ![p] = new], 0)
     /\ lastChild' = Append([lastChild EXCEPT ![p] = new], 0)
     /\ nextSibling' = Append(IF firstChild[p] = 0 THEN nextSibling
                              ELSE [nextSibling EXCEPT ![lastChild[p]] = new], 0)

\* capy_dom_new_node and capy_dom_append_child: a new last child of the
\* innermost open element.
AddNode(node) ==
  LET p == Top
      new == Len(nodes) + 1
  IN /\ nodes' = Append(nodes, node)
     /\ parent' = Append(parent, p)
     /\ firstChild' = Append([firstChild EXCEPT ![p] = IF @ = 0 THEN new ELSE @], 0)
     /\ lastChild' = Append([lastChild EXCEPT ![p] = new], 0)
     /\ nextSibling' = Append(IF firstChild[p] = 0 THEN nextSibling
                              ELSE [nextSibling EXCEPT ![lastChild[p]] = new], 0)
-----------------------------------------------------------------------------
Root == [type |-> "DOCUMENT", name |-> None, attr_start |-> 0, attr_count |-> 0,
         text_len |-> 0, decoded |-> FALSE, level |-> 0, of |-> None]

\* level (nesting below the root) and of (the raw text element a text was
\* read in) are auxiliary.
Element(name, attrs) ==
  [Root EXCEPT !.type = "ELEMENT", !.name = name, !.attr_start = attr_count,
               !.attr_count = attrs, !.level = Len(stack)]

TextNode(len, decoded) ==
  [Root EXCEPT !.type = "TEXT", !.text_len = len, !.decoded = decoded,
               !.level = Len(stack), !.of = raw]

\* An input over the budget is cut before the first token.
Init ==
  /\ nodes = <<Root>>
  /\ parent = <<0>> /\ firstChild = <<0>> /\ lastChild = <<0>> /\ nextSibling = <<0>>
  /\ stack = <<1>>
  /\ attr_count = 0
  /\ string_len = 0
  /\ truncated \in BOOLEAN
  /\ warnings = IF truncated THEN {"INPUT_TRUNCATED"} ELSE {}
  /\ feed = "any"
  /\ raw = None
  /\ offered = [tokens |-> 0, nodes |-> 0, attrs |-> 0, bytes |-> 0]
  /\ ideal = << >>

Offer(n, a, b) ==
  /\ offered.tokens < MaxTokens
  /\ offered' = [tokens |-> offered.tokens + 1, nodes |-> offered.nodes + n,
                 attrs |-> offered.attrs + a, bytes |-> offered.bytes + b]

\* "script/style content is not entity-decoded"
Decoded(p) == nodes[p].name \notin Verbatim

(***************************************************************************)
(* CAPY_HTML_TOKEN_TEXT, of n bytes once decoded.                          *)
(***************************************************************************)
Text(n) ==
  /\ feed \in {"any", "raw"}
  /\ Offer(IF n > 0 THEN 1 ELSE 0, 0, n)
  /\ string_len' = string_len + Interned(n)
  /\ IF Interned(n) > 0
       THEN /\ Warn(StringWarning(n) \cup NodeWarning)
            /\ IF PoolFull THEN UNCHANGED tree
               ELSE AddNode(TextNode(Interned(n), Decoded(Top)))
       ELSE Warn(StringWarning(n)) /\ UNCHANGED tree
  /\ feed' = IF feed = "raw" THEN "close" ELSE "any"
  /\ UNCHANGED <<stack, attr_count, raw, ideal>>

(***************************************************************************)
(* CAPY_HTML_TOKEN_START, with n attributes of w bytes each.               *)
(***************************************************************************)
Opens(name, self_closing) == ~self_closing /\ name \notin Void

ScriptWarning(name) == IF name = Script THEN {"SCRIPT_BLOCKED"} ELSE {}

UnclosedWarning(unclosed) == IF unclosed THEN {"UNCLOSED_TAG"} ELSE {}

DepthWarning(name, self_closing) ==
  IF Opens(name, self_closing) /\ Len(stack) = MaxDepth THEN {"DEPTH_LIMIT"} ELSE {}

Start(name, self_closing, n, w, unclosed) ==
  /\ feed = "any"
  /\ ~(self_closing /\ unclosed)
  /\ Offer(1, n, n * w)
  /\ IF PoolFull
       THEN /\ Warn(NodeWarning \cup ScriptWarning(name) \cup UnclosedWarning(unclosed))
            /\ UNCHANGED <<tree, stack, attr_count, string_len>>
       ELSE LET bytes == Recorded(n) * w
            IN /\ AddNode(Element(name, Recorded(n)))
               /\ attr_count' = attr_count + Recorded(n)
               /\ string_len' = string_len + Interned(bytes)
               /\ stack' = IF Opens(name, self_closing) /\ Len(stack) < MaxDepth
                             THEN Append(stack, Len(nodes) + 1) ELSE stack
               /\ Warn(ScriptWarning(name) \cup AttrWarning(n) \cup StringWarning(bytes)
                         \cup DepthWarning(name, self_closing) \cup UnclosedWarning(unclosed))
  /\ IF unclosed THEN feed' = "end" /\ UNCHANGED raw
     ELSE IF name \in RawText /\ ~self_closing THEN feed' = "raw" /\ raw' = name
     ELSE UNCHANGED <<feed, raw>>
  /\ ideal' = IF Opens(name, self_closing) THEN Append(ideal, name) ELSE ideal

(***************************************************************************)
(* CAPY_HTML_TOKEN_END: the nearest open element of that name is closed,   *)
(* and everything open inside it.                                          *)
(***************************************************************************)
Matches(name) == {k \in 2..Len(stack) : nodes[stack[k]].name = name}

\* Mutant of Closed: what is open inside the element stays open.
ClosedAlone(k) == SubSeq(stack, 1, k - 1) \o SubSeq(stack, k + 1, Len(stack))

Closed(k) == SubSeq(stack, 1, k - 1)

End(name, unclosed) ==
  /\ feed = "any" \/ (feed \in {"raw", "close"} /\ name = raw)
  /\ Offer(0, 0, 0)
  /\ IF Matches(name) # {}
       THEN /\ \E k \in Matches(name) :
                 (\A j \in Matches(name) : j <= k) /\ stack' = Closed(k)
            /\ Warn(UnclosedWarning(unclosed))
       ELSE /\ UNCHANGED stack
            /\ Warn({"STRAY_END_TAG"} \cup UnclosedWarning(unclosed))
  /\ feed' = IF unclosed THEN "end" ELSE "any"
  /\ raw' = None
  /\ LET open == {k \in 1..Len(ideal) : ideal[k] = name}
     IN IF open = {} THEN UNCHANGED ideal
        ELSE \E k \in open : (\A j \in open : j <= k) /\ ideal' = SubSeq(ideal, 1, k - 1)
  /\ UNCHANGED <<tree, attr_count, string_len>>

\* CAPY_HTML_TOKEN_COMMENT that runs to the end of the input; any other
\* comment or declaration changes nothing and is no step.
UnclosedComment ==
  /\ feed = "any"
  /\ Offer(0, 0, 0)
  /\ Warn({"UNCLOSED_COMMENT"})
  /\ feed' = "end"
  /\ UNCHANGED <<tree, stack, attr_count, string_len, raw, ideal>>

\* The input may end at any token.
Finish ==
  /\ feed # "done"
  /\ feed' = "done"
  /\ UNCHANGED <<tree, stack, attr_count, string_len, truncated, warnings, raw,
                 offered, ideal>>

Token ==
  \/ \E n \in 0..MaxText : Text(n)
  \/ \E name \in Name, self_closing, unclosed \in BOOLEAN,
        n \in 0..MaxTagAttrs, w \in 1..MaxText :
       Start(name, self_closing, n, w, unclosed)
  \/ \E name \in Name \cup {None}, unclosed \in BOOLEAN : End(name, unclosed)
  \/ UnclosedComment
  \/ Finish

Parsed == feed = "done" /\ UNCHANGED vars

Next == Token \/ Parsed

Spec == Init /\ [][Next]_vars
-----------------------------------------------------------------------------
(***************************************************************************)
(* Properties.                                                             *)
(***************************************************************************)
Id == 1..Len(nodes)

Node ==
  [type : {"DOCUMENT", "ELEMENT", "TEXT"}, name : Name \cup {None},
   attr_start : 0..MaxAttrs, attr_count : 0..MaxAttrs, text_len : 0..Arena,
   decoded : BOOLEAN, level : 0..MaxDepth, of : RawText \cup {None}]

\* The variables have their types, and every pool keeps its capacity.
TypeOK ==
  /\ nodes \in Seq(Node) /\ Len(nodes) \in 1..MaxNodes
  /\ parent \in Seq(Nat) /\ Len(parent) = Len(nodes)
  /\ firstChild \in Seq(Nat) /\ Len(firstChild) = Len(nodes)
  /\ lastChild \in Seq(Nat) /\ Len(lastChild) = Len(nodes)
  /\ nextSibling \in Seq(Nat) /\ Len(nextSibling) = Len(nodes)
  /\ stack \in Seq(Id) /\ Len(stack) \in 1..MaxDepth
  /\ attr_count \in 0..MaxAttrs
  /\ string_len \in 0..Arena
  /\ truncated \in BOOLEAN
  /\ warnings \subseteq Budgets \cup {"SCRIPT_BLOCKED", "STRAY_END_TAG",
                                      "UNCLOSED_TAG", "UNCLOSED_COMMENT"}
  /\ feed \in {"any", "raw", "close", "end", "done"}
  /\ raw \in RawText \cup {None}
  /\ offered \in [tokens : 0..MaxTokens, nodes : Nat, attrs : Nat, bytes : Nat]
  /\ ideal \in Seq(Name)

Children(p) == {c \in Id : parent[c] = p}

\* The links of capy_dom_append_child are a tree: following firstChild and
\* then nextSibling from a node visits exactly the nodes whose parent it is,
\* once each, oldest first, and a parent is always older than its children.
TreeLinked ==
  \A p \in Id :
    /\ IF p = 1 THEN parent[p] = 0 ELSE parent[p] \in 1..(p - 1)
    /\ IF Children(p) = {} THEN firstChild[p] = 0 /\ lastChild[p] = 0
       ELSE /\ firstChild[p] \in Children(p) /\ lastChild[p] \in Children(p)
            /\ \A c \in Children(p) : firstChild[p] <= c /\ c <= lastChild[p]
    /\ IF p = 1 \/ lastChild[parent[p]] = p THEN nextSibling[p] = 0
       ELSE /\ nextSibling[p] \in Children(parent[p])
            /\ nextSibling[p] > p
            /\ \A c \in Children(parent[p]) : c <= p \/ nextSibling[p] <= c

\* "void elements ... never get children", and texts have none either.
LeavesStayLeaves ==
  \A p \in Id : nodes[p].type = "TEXT" \/ nodes[p].name \in Void => firstChild[p] = 0

\* The pool is in document order: between a node and its parent there are only
\* descendants of that parent, so an element's subtree is a run of the pool
\* however end tags are missing, misplaced or stray.
DocumentOrder == \A n \in Id : \A m \in (parent[n] + 1)..n : parent[m] >= parent[n]

\* The open elements are the last branch of the tree: each is the last child
\* of the one before it.
OpenIsLastBranch ==
  /\ stack[1] = 1
  /\ \A i \in 2..Len(stack) :
       parent[stack[i]] = stack[i - 1] /\ lastChild[stack[i - 1]] = stack[i]

\* "overflow sets doc->truncated": a document that is not marked truncated has
\* every node, attribute and byte its tokens called for, and is open at the
\* very elements it would be open at if there were no limits.
NothingLostSilently ==
  ~truncated =>
    /\ Len(nodes) = 1 + offered.nodes
    /\ attr_count = offered.attrs
    /\ string_len = offered.bytes
    /\ [i \in 1..(Len(stack) - 1) |-> nodes[stack[i + 1]].name] = ideal

\* Every budget warning is deserved: that pool is full, or the tree as deep as
\* it may be.
WarningsDeserved ==
  /\ "NODE_BUDGET" \in warnings => Len(nodes) = MaxNodes
  /\ "ATTR_BUDGET" \in warnings => attr_count = MaxAttrs
  /\ "STRING_BUDGET" \in warnings => string_len = Arena
  /\ "DEPTH_LIMIT" \in warnings => \E n \in Id : nodes[n].level = MaxDepth

\* "<script>/<style> text, kept raw", and in its own element: while the depth
\* limit has not been met, the tokenizer's raw text ends up where it belongs.
RawTextAtHome ==
  "DEPTH_LIMIT" \notin warnings =>
    \A n \in Id : nodes[n].type = "TEXT" /\ nodes[n].of # None =>
      /\ nodes[parent[n]].name = nodes[n].of
      /\ nodes[n].decoded = (nodes[n].of \notin Verbatim)

\* What the truncated flag and the warnings tell of a document is all that
\* was lost, and nothing that was not.
WarningsTellLosses == NothingLostSilently /\ WarningsDeserved /\ RawTextAtHome

\* What is in the tree stays as it is, an element that was closed is never
\* open again, and only the innermost open element gets a child.
GrowsAtTop ==
  /\ SubSeq(nodes', 1, Len(nodes)) = nodes
  /\ SubSeq(parent', 1, Len(nodes)) = parent
  /\ \A i \in 1..Len(stack') :
       stack'[i] = Len(nodes') \/ (i <= Len(stack) /\ stack'[i] = stack[i])
  /\ \A p \in Id : lastChild'[p] # lastChild[p] => p = Top

\* Every step of the tree builder grows the tree at its top, or leaves it alone.
OnlyGrowsAtTop == [][GrowsAtTop]_vars
==============================================================================
