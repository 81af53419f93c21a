-------------------------- MODULE MCResponseCache --------------------------
(* Values for the constants of ResponseCache: two requests in one API      *)
(* process.                                                                *)
EXTENDS ResponseCache, TLC

CONSTANTS r1, r2, p1

ProcOfTwo == (r1 :> p1) @@ (r2 :> p1)

Symmetric == Permutations({r1, r2}) \cup Permutations(Writers)
=============================================================================
