----------------------------- MODULE StaticPage -----------------------------
(***************************************************************************)
(* capy_page_render: the HTML parse, the style sheet, the cascade, layout  *)
(* and the display list of one page, in the arenas of one struct           *)
(* capy_page.  The HTML, layout and display list stages are the modules    *)
(* HtmlDom, Layout and DisplayList; of the style sheet and the cascade     *)
(* (module Style) it keeps what they hand on.                              *)
(***************************************************************************)
EXTENDS HtmlDom

CONSTANTS
  Hidden, MaxBoxes, MaxLayoutDepth,  \* of Layout
  Img, Anchor, MaxDlNodes, DlArena,  \* of DisplayList
  Looks                              \* what style sheets make of the elements

ASSUME PageConstants ==
  /\ MaxBoxes \in Nat \ {0} /\ MaxLayoutDepth \in Nat \ {0}
  /\ Img # Anchor /\ MaxDlNodes \in Nat /\ DlArena \in Nat
  /\ Looks \subseteq [Name -> [background : Nat, color : Nat, label : Nat, url : Nat]]

VARIABLES
  none, lines,                                    \* the styles layout reads
  boxes, frames, content_height, layout_truncated, layout_warnings,
  looks, dl, drawn,                               \* the display list
  completed_stage,
  css_truncated,
  page_truncated, script_present                  \* the page's metadata

Flow == INSTANCE Layout
List == INSTANCE DisplayList

flow == <<boxes, frames, content_height, layout_truncated, layout_warnings>>
list == <<looks, dl, drawn>>
pageVars == <<vars, none, lines, flow, list, completed_stage, css_truncated,
              page_truncated, script_present>>
metadata == <<page_truncated, script_present>>

PageInit ==
  /\ Init
  /\ none = {} /\ lines = << >>
  /\ Flow!Blank
  /\ looks = << >> /\ List!Undrawn
  /\ completed_stage = "NONE"
  /\ css_truncated = FALSE
  /\ page_truncated = FALSE /\ script_present = FALSE

ParseHtml ==
  /\ completed_stage = "NONE" /\ Token
  /\ completed_stage' = IF feed' = "done" THEN "HTML" ELSE "NONE"
  /\ UNCHANGED <<none, lines, flow, list, css_truncated, metadata>>

\* Any style sheet; one over a budget of its own is marked.
ParseCss ==
  /\ completed_stage = "HTML"
  /\ completed_stage' = "CSS"
  /\ css_truncated' \in BOOLEAN
  /\ UNCHANGED <<vars, none, lines, flow, list, metadata>>

\* The style sheet may give any elements display: none, and none to text; what
\* else it says of elements of one name is the same.
Cascade ==
  /\ completed_stage = "CSS"
  /\ completed_stage' = "CASCADE"
  /\ none' \in SUBSET {n \in Id : nodes[n].type = "ELEMENT"}
  /\ looks' \in Looks
  /\ UNCHANGED <<vars, lines, flow, dl, drawn, css_truncated, metadata>>

\* layout_text_lines: none for a blank text, at most one for every other byte,
\* since words are parted by a space.
MostLines(n) == (nodes[n].text_len + 1) \div 2

BeginLayout ==
  /\ completed_stage = "CASCADE" /\ boxes = << >>
  /\ lines' \in {f \in [Id -> 0..MostLines(CHOOSE n \in Id : \A m \in Id : nodes[m].text_len <= nodes[n].text_len)] :
                   \A n \in Id : f[n] <= MostLines(n)}
  /\ Flow!Begin
  /\ UNCHANGED <<vars, none, list, completed_stage, css_truncated, metadata>>

LayOut ==
  /\ completed_stage = "CASCADE" /\ Flow!Step
  /\ completed_stage' = IF frames' = << >> THEN "LAYOUT" ELSE "CASCADE"
  /\ UNCHANGED <<vars, none, lines, list, css_truncated, metadata>>

Draw ==
  /\ completed_stage = "LAYOUT" /\ List!EmitBox
  /\ UNCHANGED <<vars, none, lines, flow, looks, completed_stage, css_truncated, metadata>>

\* Mutant of AnyTruncated: the layout stage is forgotten.
AnyTruncatedButLayout == truncated \/ css_truncated \/ dl.truncated

\* page_refresh_metadata
AnyTruncated == truncated \/ css_truncated \/ layout_truncated \/ dl.truncated

RefreshMetadata ==
  /\ completed_stage = "LAYOUT" /\ List!Emitted
  /\ completed_stage' = "DISPLAY_LIST"
  /\ page_truncated' = AnyTruncated
  /\ script_present' = ("SCRIPT_BLOCKED" \in warnings)
  /\ UNCHANGED <<vars, none, lines, flow, list, css_truncated>>

Returned == completed_stage = "DISPLAY_LIST" /\ UNCHANGED pageVars

Render == ParseHtml \/ ParseCss \/ Cascade \/ BeginLayout \/ LayOut \/ Draw \/ RefreshMetadata

PageNext == Render \/ Returned

\* The pipeline is one call on one thread: it runs on until it returns.
PageSpec == PageInit /\ [][PageNext]_pageVars /\ WF_pageVars(Render)
-----------------------------------------------------------------------------
(***************************************************************************)
(* Properties.                                                             *)
(***************************************************************************)
\* Of Layout and DisplayList.
BoxesFollowDom == Flow!BoxesFollowDom
FlowIsTight == Flow!FlowIsTight
ListIsDrawing == List!ListIsDrawing

\* truncated is "1 iff any owned stage exhausted a declared budget": the box
\* tree of a page that is not marked shows the whole document, every node its
\* tokens called for among them, and the display list draws all of it.
WholePageShown ==
  completed_stage = "DISPLAY_LIST" /\ ~page_truncated =>
    /\ Len(nodes) = 1 + offered.nodes
    /\ {boxes[i].dom_node : i \in 1..Len(boxes)} = Flow!Rendered
    /\ Len(dl.nodes) = Len(List!AllCalls)

\* Every call returns: layout ends, whatever the tree it walks.
PageReturns == <>(completed_stage = "DISPLAY_LIST")

\* "metadata/inert/rawtext elements never create boxes": nor does their text.
HiddenTextHasNoBox ==
  \A i \in 1..Len(boxes) : nodes[boxes[i].dom_node].of \notin Hidden

==============================================================================
