----------------------------- MODULE MCHtmlText -----------------------------
(* Two kinds of document: blocks, preformatted text, links and titles;     *)
(* lists, scripts and titles.                                              *)
EXTENDS HtmlText

MCDocuments ==
  {[tags |-> {"a", "p", "pre", "title"}, characters |-> {"x", "wide", " ", "\t", "\n", "\r"},
    most |-> 6],
   [tags |-> {"ul", "ol", "li", "title", "script", "b"}, characters |-> {"x", "&nbsp;", "&#0;"},
    most |-> 7]}
==============================================================================
