---------------------------- MODULE MCSteamSync ----------------------------
(* Instances of SteamSync in which everyone owns every game.               *)
EXTENDS SteamSync

CONSTANTS u1, u2, a1, a2

Everything == [u \in Users |-> Apps]
=============================================================================
