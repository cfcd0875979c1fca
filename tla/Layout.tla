------------------------------- MODULE Layout -------------------------------
(***************************************************************************)
(* The vertical block flow of layout/layout.c over a finished DOM.  The    *)
(* recursion of layout_children is a stack of frames, one per active call, *)
(* and a step is one turn of its loop.                                     *)
(***************************************************************************)
EXTENDS Naturals, Sequences, FiniteSetsExt

CONSTANTS
  Hidden,         \* layout_is_non_rendered_element: head, script, style, ...
  MaxBoxes,       \* CAPY_LAYOUT_MAX_BOXES (2048)
  MaxLayoutDepth  \* CAPY_LAYOUT_MAX_DEPTH (128)

VARIABLES
  nodes, parent, firstChild, nextSibling,  \* the DOM, which layout only reads
  none,              \* the elements the cascade gives display: none
  lines,             \* the lines each text takes at the viewport's width
  boxes,             \* the box pool; box 1 is the viewport
  frames,            \* the active calls of layout_children, outermost first
  content_height,
  layout_truncated, layout_warnings

\* The state of the caller's arena before capy_layout is called.
Blank ==
  /\ boxes = << >> /\ frames = << >>
  /\ content_height = 0
  /\ layout_truncated = FALSE /\ layout_warnings = {}

Box(kind, node, in, y, height) ==
  [kind |-> kind, dom_node |-> node, parent |-> in, y |-> y, height |-> height]

\* Mutant of Frame: the calls below are given the box of their caller.
FrameInCaller(node, box, y) ==
  [dom |-> node, box |-> IF frames = << >> THEN box ELSE frames[Len(frames)].box,
   child |-> firstChild[node], top |-> y, cursor |-> y]

\* A call of layout_children on a node laid out in a box.
Frame(node, box, y) ==
  [dom |-> node, box |-> box, child |-> firstChild[node], top |-> y, cursor |-> y]

Begin ==
  /\ boxes = << >>
  /\ boxes' = <<Box("BLOCK", 1, 0, 0, 0)>>
  /\ frames' = <<Frame(1, 1, 0)>>
  /\ UNCHANGED <<content_height, layout_truncated, layout_warnings>>
-----------------------------------------------------------------------------
Call == frames[Len(frames)]

Running == frames # << >> /\ Call.child # 0

\* A child that gets a box if there is one left.
Renders(n) ==
  \/ nodes[n].type = "ELEMENT" /\ nodes[n].name \notin Hidden /\ n \notin none
  \/ nodes[n].type = "TEXT" /\ lines[n] > 0

\* Mutant of Advanced: the next child is laid out over this one.
AdvancedInPlace(calls, h) ==
  [calls EXCEPT ![Len(calls)].child = nextSibling[@]]

\* Mutant of Advanced: a child of no height is tried again.
AdvancedByHeight(calls, h) ==
  [calls EXCEPT ![Len(calls)].child = IF h = 0 THEN @ ELSE nextSibling[@],
                ![Len(calls)].cursor = @ + h]

\* The loop moves on to the next sibling, h lines further down.
Advanced(calls, h) ==
  [calls EXCEPT ![Len(calls)].child = nextSibling[@], ![Len(calls)].cursor = @ + h]

\* Mutant of LayoutWarn: the warning is recorded and the tree not marked.
LayoutWarnOnly(code) ==
  layout_warnings' = layout_warnings \cup {code} /\ UNCHANGED layout_truncated

LayoutWarn(code) ==
  layout_warnings' = layout_warnings \cup {code} /\ layout_truncated' = TRUE

Skip ==
  /\ Running /\ ~Renders(Call.child)
  /\ frames' = Advanced(frames, 0)
  /\ UNCHANGED <<boxes, content_height, layout_truncated, layout_warnings>>

BoxesFull == Len(boxes) >= MaxBoxes

\* layout_new_box fails: the child is dropped, with all below it.
NoBox ==
  /\ Running /\ Renders(Call.child) /\ BoxesFull
  /\ LayoutWarn("BOX_BUDGET")
  /\ frames' = Advanced(frames, 0)
  /\ UNCHANGED <<boxes, content_height>>

Place(kind, height) ==
  /\ Running /\ Renders(Call.child) /\ ~BoxesFull
  /\ boxes' = Append(boxes, Box(kind, Call.child, Call.box, Call.cursor, height))
  /\ UNCHANGED content_height

PlaceText ==
  /\ Running /\ nodes[Call.child].type = "TEXT"
  /\ Place("TEXT", lines[Call.child])
  /\ frames' = Advanced(frames, lines[Call.child])
  /\ UNCHANGED <<layout_truncated, layout_warnings>>

\* The call below layout_children runs, or returns 0 at once at the limit.
PlaceBlock ==
  /\ Running /\ nodes[Call.child].type = "ELEMENT"
  /\ Place("BLOCK", 0)
  /\ IF Len(frames) < MaxLayoutDepth
       THEN /\ frames' = Append(frames, Frame(Call.child, Len(boxes) + 1, Call.cursor))
            /\ UNCHANGED <<layout_truncated, layout_warnings>>
       ELSE LayoutWarn("DEPTH_LIMIT") /\ frames' = Advanced(frames, 0)

\* What the caller does with the height it gets: nothing is left of the
\* outermost call.
Caller(calls, h) == IF calls = << >> THEN << >> ELSE Advanced(calls, h)

Return ==
  /\ frames # << >> /\ Call.child = 0
  /\ LET h == Call.cursor - Call.top
     IN /\ boxes' = [boxes EXCEPT ![Call.box].height = h]
        /\ frames' = Caller(SubSeq(frames, 1, Len(frames) - 1), h)
        /\ content_height' = IF Len(frames) = 1 THEN h ELSE content_height
  /\ UNCHANGED <<layout_truncated, layout_warnings>>

Step == Skip \/ NoBox \/ PlaceText \/ PlaceBlock \/ Return

LaidOut == boxes # << >> /\ frames = << >>
-----------------------------------------------------------------------------
(***************************************************************************)
(* Properties.                                                             *)
(***************************************************************************)
BoxId == 1..Len(boxes)

ChildBoxes(i) == {j \in BoxId \ {1} : boxes[j].parent = i}

Active(i) == \E k \in 1..Len(frames) : frames[k].box = i

\* Where the boxes js of box i end.
EndOf(i, js) == IF js = {} THEN boxes[i].y ELSE boxes[Max(js)].y + boxes[Max(js)].height

\* "stacks its children": boxes of one parent follow each other without gap
\* or overlap, each starts at its parent's top, and a finished block is as
\* high as what is in it, also where boxes were dropped.
FlowIsTight ==
  \A i \in BoxId :
    /\ \A j \in ChildBoxes(i) : boxes[j].y = EndOf(i, {k \in ChildBoxes(i) : k < j})
    /\ boxes[i].kind = "BLOCK" /\ ~Active(i) =>
         boxes[i].y + boxes[i].height = EndOf(i, ChildBoxes(i))

\* The nodes that are to be rendered, by the styles alone: those on a path of
\* nodes that are, from the root.
Rendered ==
  UNION {S \in SUBSET (1..Len(nodes)) : \A n \in S : n = 1 \/ (Renders(n) /\ parent[n] \in S)}

\* The box tree is the DOM tree without what is not rendered: boxes are in
\* document order, each node has one at most, and a box lies in the box of its
\* node's parent.  "Over-budget sets out->truncated": a layout that is not
\* marked has a box for every node that is to be rendered, and for no other in
\* any case.
BoxesFollowDom ==
  LET boxed == {boxes[i].dom_node : i \in BoxId}
  IN /\ \A i, j \in BoxId : i < j => boxes[i].dom_node < boxes[j].dom_node
     /\ \A i \in BoxId \ {1} :
          /\ boxes[i].parent \in 1..(i - 1)
          /\ boxes[boxes[i].parent].dom_node = parent[boxes[i].dom_node]
     /\ boxes # << >> => boxed \subseteq Rendered
     /\ LaidOut /\ ~layout_truncated => boxed = Rendered

==============================================================================
