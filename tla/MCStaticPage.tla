---------------------------- MODULE MCStaticPage ----------------------------
(* A link, an image and a script, with pools that some of the documents    *)
(* fill.                                                                   *)
EXTENDS StaticPage, TLC

CONSTANTS a, img, script

MCName == {a, img, script}

Look(background, color, label, url) ==
  [background |-> background, color |-> color, label |-> label, url |-> url]

MCLooks ==
  {(a :> Look(0, 1, 0, 2)) @@ (img :> Look(1, 0, 1, 1)) @@ (script :> Look(0, 0, 0, 0))}
==============================================================================
