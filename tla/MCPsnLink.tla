----------------------------- MODULE MCPsnLink -----------------------------
(* Instances of PsnLink: u2 is signed in twice.                            *)
EXTENDS PsnLink, TLC

CONSTANTS u1, u2, s1, s2

Owners == [s \in Sessions |-> IF s = s1 THEN u1 ELSE u2]

(* Codes, profiles and requests are interchangeable. *)
Symmetry == Permutations(Codes) \cup Permutations(Profiles) \cup Permutations(Requests)
=============================================================================
