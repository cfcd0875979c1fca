------------------------------ MODULE MCHtmlDom ------------------------------
(* Without a text: two plain elements, one void, one with raw text, and     *)
(* pools of a few entries, so that every pool and the depth fill up within  *)
(* five tokens.  Texts: of any units, inside a tag, inside a raw text       *)
(* element, inside a comment.                                               *)
EXTENDS HtmlSource, SequencesExt

CONSTANTS div, para, br, script, a, href

MCLetter == {a, script, href}
MCUnit == MCLetter \cup {"<", "/", ">", "!", "-", "'", "=", " "}
MCFreeNames == {<<div>>, <<para>>, <<br>>, <<script>>}
MCName == MCFreeNames \cup {n \in SeqOf(MCLetter \cup {"-"}, 2) : n # << >> /\ n[1] \in MCLetter}
MCVoid == {<<br>>}
MCRawText == {<<script>>}
MCScript == <<script>>
MCHref == <<href>>
MCNone == << >>

Opened(prefix, units, n) == {prefix \o w : w \in SeqOf(units, n)}

MCInputs ==
  SeqOf({"<", "/", ">", "!", "-", " ", "'", a, script}, 4)
    \cup Opened(<<"<", a>>, {" ", "=", "'", "/", ">", a, href}, 5)
    \cup Opened(<<"<", script, ">">>, {"<", "/", ">", a, script}, 5)
    \cup Opened(<<"<", "!", "-", "-">>, {"-", ">", a}, 5)

\* Nothing tells the two plain elements apart.
Plain == Permutations({div, para})
==============================================================================
