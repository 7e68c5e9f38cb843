----------------------------- MODULE MCThreadPool -----------------------------
(* The thread pool on two or three workers and two or three heap cells. *)
EXTENDS ThreadPool, TLC

CONSTANTS w1, w2, w3, a1, a2, a3, x1, x2

MCWorkers == {w1, w2, w3}
MCAddr == {a1, a2, a3}
MCArgs == {x1, x2}

(* Smaller sets for the runs that use no symmetry. *)
MCWorkersTwo == {w1, w2}
MCAddrTwo == {a1, a2}
MCArgOne == {x1}

(* Workers, cells and arguments are interchangeable. *)
Symmetry == Permutations(MCWorkers) \cup Permutations(MCAddr) \cup Permutations(MCArgs)
=============================================================================
