---------------------------- MODULE DisplayList ----------------------------
(***************************************************************************)
(* displaylist/display_list.c over a finished box tree.  A step is one     *)
(* call of dl_emit_box; the walk follows the order of the box pool, which  *)
(* is that of the document (BoxesFollowDom).  Strings are their lengths.   *)
(***************************************************************************)
EXTENDS Naturals, Sequences, FiniteSetsExt

CONSTANTS
  Img, Anchor,    \* the names "img" and "a"
  MaxDlNodes,     \* CAPY_DL_MAX_NODES (4096)
  DlArena         \* CAPY_DL_STRING_ARENA (65536)

VARIABLES
  nodes, parent, boxes,  \* the document and its boxes, which the walk reads
  looks,  \* per name: bytes of its background, of the colour it sets, of an
          \* alt, and of the URL its src or href resolves to; 0 is none
  dl,     \* *out
  drawn   \* auxiliary: the bytes of the text of each box visited

Undrawn ==
  dl = [nodes |-> << >>, string_len |-> 0, truncated |-> FALSE, warnings |-> {}]
    /\ drawn = << >>
-----------------------------------------------------------------------------
Smaller(m, n) == IF m <= n THEN m ELSE n

DlWarn(d, code) == [d EXCEPT !.warnings = @ \cup {code}, !.truncated = TRUE]

\* Mutant of Stored: the range says what was asked for.
StoredAsAsked(d, n) == <<d.string_len, n>>

\* dl_intern_raw and dl_intern_text: the range that n bytes get, and the list
\* with them in its arena.
Stored(d, n) == <<d.string_len, Smaller(n, DlArena - d.string_len)>>

Put(d, n) ==
  LET t == [d EXCEPT !.string_len = @ + Smaller(n, DlArena - @)]
  IN IF n > DlArena - d.string_len THEN DlWarn(t, "STRING_BUDGET") ELSE t

NoBytes == <<0, 0>>
Node(kind, b) ==
  [kind |-> kind, box |-> b, text |-> NoBytes, color |-> NoBytes, url |-> NoBytes, label |-> NoBytes]

DlFull(d) == Len(d.nodes) >= MaxDlNodes

\* dl_new_node
NewNode(d, node) ==
  IF DlFull(d) THEN DlWarn(d, "NODE_BUDGET") ELSE [d EXCEPT !.nodes = Append(@, node)]

\* The bytes are interned first, also for a node there is no room for.
Text(d, b, n, color) ==
  LET t == Put(d, n)
      node == [Node("TEXT", b) EXCEPT !.text = Stored(d, n),
                                      !.color = IF color = 0 THEN NoBytes ELSE Stored(t, color)]
  IN IF DlFull(t) THEN NewNode(t, node) ELSE NewNode(Put(t, color), node)

Rect(d, b, look) ==
  IF look.background = 0 THEN d
  ELSE NewNode(Put(d, look.background), [Node("RECT", b) EXCEPT !.color = Stored(d, look.background)])

\* An image has its node before its bytes.
Image(d, b, look) ==
  LET t == Put(d, look.label)
      node == [Node("IMAGE", b) EXCEPT !.label = IF look.label = 0 THEN NoBytes ELSE Stored(d, look.label),
                                       !.url = IF look.url = 0 THEN NoBytes ELSE Stored(t, look.url)]
  IN IF DlFull(d) THEN NewNode(d, node) ELSE NewNode(Put(t, look.url), node)

Link(d, b, look) ==
  IF look.url = 0 THEN d
  ELSE NewNode(Put(d, look.url), [Node("LINK", b) EXCEPT !.url = Stored(d, look.url)])

\* dl_emit_element
Element(d, b, name) ==
  LET t == Rect(d, b, looks[name])
  IN IF name = Img THEN Image(t, b, looks[name])
     ELSE IF name = Anchor THEN Link(t, b, looks[name]) ELSE t

Of(b) == boxes[b].dom_node

\* The colour of a text is the one of the nearest element that sets one.
Color(n) ==
  LET color[m \in 1..n] ==
        IF nodes[m].type = "DOCUMENT" THEN 0
        ELSE IF nodes[m].type = "ELEMENT" /\ looks[nodes[m].name].color # 0 THEN looks[nodes[m].name].color
        ELSE color[parent[m]]
  IN color[n]

\* dl_emit_box; a text keeps one byte at least when its blanks collapse.
EmitBox ==
  LET b == Len(drawn) + 1
      node == nodes[Of(b)]
  IN /\ b <= Len(boxes)
     /\ \/ /\ node.type = "TEXT"
           /\ \E n \in 1..node.text_len :
                dl' = Text(dl, b, n, Color(Of(b))) /\ drawn' = Append(drawn, n)
        \/ /\ node.type = "ELEMENT"
           /\ dl' = Element(dl, b, node.name) /\ drawn' = Append(drawn, 0)
        \/ node.type = "DOCUMENT" /\ drawn' = Append(drawn, 0) /\ UNCHANGED dl

Emitted == boxes # << >> /\ Len(drawn) = Len(boxes)
-----------------------------------------------------------------------------
(***************************************************************************)
(* Properties.                                                             *)
(***************************************************************************)
\* What a box calls for: kinds, with the bytes of text, colour, URL and label.
Call(kind, b, t, c, u, l) == [kind |-> kind, box |-> b, bytes |-> <<t, c, u, l>>]

Calls(b) ==
  LET name == nodes[Of(b)].name
      look == looks[name]
  IN CASE nodes[Of(b)].type = "DOCUMENT" -> << >>
       [] nodes[Of(b)].type = "TEXT" -> <<Call("TEXT", b, drawn[b], Color(Of(b)), 0, 0)>>
       [] OTHER ->
            (IF look.background # 0 THEN <<Call("RECT", b, 0, look.background, 0, 0)>> ELSE << >>)
              \o (IF name = Img THEN <<Call("IMAGE", b, 0, 0, look.url, look.label)>> ELSE << >>)
              \o (IF name = Anchor /\ look.url # 0 THEN <<Call("LINK", b, 0, 0, look.url, 0)>> ELSE << >>)

AllCalls ==
  LET calls[b \in 0..Len(drawn)] == IF b = 0 THEN << >> ELSE calls[b - 1] \o Calls(b)
  IN calls[Len(drawn)]

Strings(node) == <<node.text, node.color, node.url, node.label>>

\* "A flat, ordered ... list of draw nodes. ... Budget exhaustion sets
\* out->truncated": the list is what the boxes call for, up to the node the
\* pool had no room for; every string is a range of the arena of its own, whole
\* unless the arena ends in it; and a list that is not marked is all of it.
ListIsDrawing ==
  /\ Len(dl.nodes) <= Len(AllCalls)
  /\ dl.string_len <= DlArena
  /\ \A i \in DOMAIN dl.nodes :
       /\ dl.nodes[i].kind = AllCalls[i].kind /\ dl.nodes[i].box = AllCalls[i].box
       /\ \A k \in 1..4 :
            LET s == Strings(dl.nodes[i])[k]
                asked == AllCalls[i].bytes[k]
            IN /\ s[1] + s[2] <= dl.string_len
               /\ s[2] = asked \/ (s[2] < asked /\ s[1] + s[2] = DlArena /\ dl.truncated)
               /\ \A j \in 1..i : \A m \in 1..4 :
                    LET r == Strings(dl.nodes[j])[m]
                    IN <<j, m>> # <<i, k>> /\ r[2] > 0 /\ s[2] > 0 => r[1] + r[2] <= s[1] \/ s[1] + s[2] <= r[1]
  /\ ~dl.truncated => Len(dl.nodes) = Len(AllCalls)

==============================================================================
