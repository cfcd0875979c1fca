------------------------------ MODULE BackStack ------------------------------
(***************************************************************************)
(* Back navigation as the user understands it: an unbounded trail of the   *)
(* pages visited.  Visiting adds a page at its end, going back takes the   *)
(* last page off and leaves the rest as it was.                            *)
(***************************************************************************)
EXTENDS Naturals, Sequences

CONSTANT Page

VARIABLE trail

Init == trail = << >>

Visit(p) == trail' = Append(trail, p)

Back ==
  /\ Len(trail) >= 2
  /\ trail' = SubSeq(trail, 1, Len(trail) - 1)

Next == (\E p \in Page : Visit(p)) \/ Back

Spec == Init /\ [][Next]_trail
==============================================================================
