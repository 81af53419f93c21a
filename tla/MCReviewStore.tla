--------------------------- MODULE MCReviewStore ---------------------------
(* Symmetry for the safety runs of ReviewStore. *)
EXTENDS ReviewStore, TLC

Symmetric == Permutations(Slots) \cup Permutations(Users)
=============================================================================
