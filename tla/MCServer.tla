------------------------------- MODULE MCServer -------------------------------
(* The server on two workers and up to three clients. *)
EXTENDS Server, TLC

CONSTANTS w1, w2, c1, c2, c3

MCWorkers == {w1, w2}
MCClients == {c1, c2, c3}
MCTwoClients == {c1, c2}
MCRude == {c1}
MCNoRude == {}
MCRequests == {"file", "cgi", "none"}
MCAnswered == {"file", "cgi"}
MCFiles == {"file"}

Symmetry == Permutations(MCWorkers) \cup Permutations(MCClients \ MCRude)
=============================================================================
