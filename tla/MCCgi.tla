-------------------------------- MODULE MCCgi --------------------------------
(* CGI requests on two workers. *)
EXTENDS Cgi

CONSTANTS w1, w2, r1, r2

MCWorkers == {w1, w2}
MCRequests == {r1, r2}
MCPosts == {r2}
MCNoPosts == {}
MCShortOutput == {1}
MCLongOutput == {2}
MCMortal == {Server}
=============================================================================
