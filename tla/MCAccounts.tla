----------------------------- MODULE MCAccounts -----------------------------
(* Symmetry for the safety runs of Accounts.                               *)
EXTENDS Accounts, TLC

Symmetric == Permutations(UserIds) \cup Permutations(Subjects)
             \cup Permutations(Sessions) \cup Permutations(Requests)
             \cup Permutations(Logins) \cup Permutations(SteamIds)
=============================================================================
