---------------------------- MODULE MCPsnClient ----------------------------
(* Instances of PsnClient: c1 is of a web request, which cannot wait long, *)
(* c2 of the worker, which can.                                            *)
EXTENDS PsnClient

CONSTANTS c1, c2

Patience == [c \in Calls |-> IF c = c1 THEN 1 ELSE None]
=============================================================================
