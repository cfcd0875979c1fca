----------------------------- MODULE MCHostShell -----------------------------
(* Two pages of one origin and one of another; an address that normalizes  *)
(* to a page, one libcurl may report but prepare_url refuses, a plain http *)
(* address, and one of scheme https without "//".                          *)
EXTENDS HostShell

CONSTANTS p, q, far, raw, odd, plain, flat, near_origin, far_origin, no_origin

MCPage == {p, q, far, flat}
MCHttps == {p, q, far, raw, odd}
MCRef == MCPage \cup MCHttps \cup {plain}
MCPrepare == [r \in MCRef |-> CASE r = raw -> q [] r = odd -> "ARGS"
                               [] r = plain -> "SCHEME" [] OTHER -> r]
MCOrigin == [x \in MCPage \cup MCHttps |->
               CASE x = far -> far_origin [] x = flat -> no_origin [] OTHER -> near_origin]
MCLinkSets == {{}, {p, odd, flat}, {far, plain}, {q, raw}}
==============================================================================
