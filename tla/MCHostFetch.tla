----------------------------- MODULE MCHostFetch -----------------------------
(* A small web for one fetch: two https URLs, one https URL too long to    *)
(* report, one plain http URL; bodies up to one byte over the buffer.      *)
EXTENDS HostFetch

CONSTANTS a, b, long, plain

MCUrl == {a, b, long, plain}
MCHttps == {a, b, long}
MCOverlong == {long}
MCStatus == {200, 299, 300, 404}
==============================================================================
