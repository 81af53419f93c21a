------------------------------ MODULE MCWorker ------------------------------
(* The instance of Worker: two titles t1 and t2 that Sony lists apart or   *)
(* under concept c1, or hides, their trophy list l1, a list l2 of no title *)
(* Sony names, and the Steam copy a1, the same game on IGDB.               *)
EXTENDS Worker

CONSTANTS u1, t1, t2, c1, l1, l2, a1, i1

ApartOrTogether == {[t \in Titles |-> None], [t \in Titles |-> c1]}
Sorted == [some \in SUBSET Titles \ {{}} |-> IF t1 \in some THEN t1 ELSE t2]
SameList == [t \in Titles |-> {l1}]
OneIgdb == [s \in Apps \cup Concepts |-> i1]

JobIds == {PsnJob(u) : u \in Users} \cup {IgdbJob}
AllOrNone == [u \in Users |-> {{}, Titles}]
OneOrOther == [u \in Users |-> {{l1}, {l2}}]
=============================================================================
