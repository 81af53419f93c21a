------------------------- MODULE ReviewStoreProofs -------------------------
(***************************************************************************)
(* Theorems of ReviewStore, for every set of request threads and users, on *)
(* both databases.                                                         *)
(***************************************************************************)
EXTENDS ReviewStore, TLAPS

-----------------------------------------------------------------------------
(* Types of the pieces *)

LEMMA PcNames ==
    /\ Ended \cap Busy = {}
    /\ Creating \cap Holding = {}
    /\ "conflict" \notin Holding /\ "refresh" \notin Holding /\ "reload" \notin Holding
    /\ "refused" \in Ended /\ "ok" \in Ended /\ "error" \in Ended
    /\ Creating \subseteq Busy /\ Holding \subseteq Busy
    /\ {"conflict", "refresh", "reload"} \subseteq Busy
  BY DEF Ended, Busy, Creating, Holding

LEMMA NoRequestTypes ==
    /\ NoRequest \in Request
    /\ NoRequest.me = Nobody
    /\ Nobody \notin Users
  BY ReviewAssumption DEF NoRequest, Request, Chosen, NoSnapshot, NoCounts

(* A served slot whose step ends in an answer. *)
LEMMA AnswerTypes ==
    ASSUME TypeOK, ServedUsers, NEW s \in Slots, NEW o \in Ended, Answer(s, o)
    PROVE  /\ pc' \in [Slots -> Ended \cup Busy]
           /\ req' \in [Slots -> Request]
           /\ ServedUsers'
           /\ \A t \in Slots : pc'[t] \in Holding =>
                  t # s /\ pc[t] = pc'[t] /\ req'[t] = req[t]
<1>1. pc' \in [Slots -> Ended \cup Busy] /\ req' \in [Slots -> Request]
  BY NoRequestTypes DEF TypeOK, Answer, Goto
<1>2. pc'[s] = o /\ req'[s] = NoRequest /\ \A t \in Slots \ {s} :
          pc'[t] = pc[t] /\ req'[t] = req[t]
  BY DEF TypeOK, Answer, Goto
<1>3. o \notin Busy /\ NoRequest.me \notin Users
  BY PcNames, NoRequestTypes
<1>4. ServedUsers'
  BY <1>2, <1>3 DEF ServedUsers
<1>5. QED
  BY <1>1, <1>2, <1>3, <1>4, PcNames

(* The verified fields of a new review are well typed. *)
LEMMA VerifiedTypes ==
    ASSUME TypeOK, NEW s \in Slots
    PROVE  VerifiedFrom(s) \in Verified
<1>1. req[s].chosen \in Chosen
  BY DEF TypeOK, Request
<1>2. req[s].chosen.number \in Nat /\ req[s].chosen.source \in Sources \cup {"none"}
  BY <1>1 DEF Chosen, NoSnapshot
<1>3. QED
  BY <1>2 DEF VerifiedFrom, Verified

-----------------------------------------------------------------------------
(* Preservation of the invariant, by what a step does to the tables *)

(* A step that writes no table, and lets no request select a row. *)
LEMMA ReadingKeepsInv ==
    ASSUME ReviewInv, TypeOK', ServedUsers',
           UNCHANGED <<reviews, comments, gone>>,
           nextId' \in {nextId, nextId + 1}, nextComment' = nextComment,
           \A t \in Slots : pc'[t] \in Holding =>
               pc[t] = pc'[t] /\ req'[t].me = req[t].me /\ req'[t].target = req[t].target
    PROVE  ReviewInv'
<1>1. nextId \in Nat /\ nextId' \in Nat /\ nextId <= nextId'
  BY DEF ReviewInv, TypeOK
<1>2. IdsAreIssued'
  <2>1. \A r \in reviews : r.id \in Nat /\ r.id < nextId
    BY DEF ReviewInv, TypeOK, IdsAreIssued, Review
  <2>2. \A i \in gone : i \in Nat /\ i < nextId
    BY DEF ReviewInv, TypeOK, IdsAreIssued
  <2>3. \A t \in Slots : req[t].target \in Nat
    BY DEF ReviewInv, TypeOK, Request
  <2>4. \A t \in Slots : pc'[t] \in Holding => req'[t].target < nextId'
    BY <1>1, <2>3 DEF ReviewInv, IdsAreIssued
  <2>5. \A c \in comments' : c.id < nextComment'
    BY DEF ReviewInv, IdsAreIssued
  <2>6. QED
    BY <1>1, <2>1, <2>2, <2>4, <2>5 DEF IdsAreIssued
<1>3. SelectionsAreOwn'
  <2>1. \A t \in Slots : pc'[t] \in {"update", "delete"} => pc'[t] \in Holding
    BY DEF Holding
  <2>2. QED
    BY <2>1 DEF ReviewInv, SelectionsAreOwn, Mine
<1>4. OneReviewPerUser' /\ NoOrphanComments' /\ DeletedLinksStayDead'
  BY DEF ReviewInv, OneReviewPerUser, NoOrphanComments, DeletedLinksStayDead, Exists
<1>5. LockedRowsStay' /\ OneLockHolder'
  BY DEF ReviewInv, LockedRowsStay, OneLockHolder, Exists
<1>6. QED
  BY <1>2, <1>3, <1>4, <1>5 DEF ReviewInv

(* A step that only answers. *)
LEMMA AnsweringKeepsInv ==
    ASSUME ReviewInv, NEW s \in Slots, NEW o \in Ended, Answer(s, o),
           UNCHANGED <<tables, snapshots, gone>>
    PROVE  ReviewInv'
<1>1. TypeOK /\ ServedUsers
  BY DEF ReviewInv
<1>2. TypeOK' /\ ServedUsers'
  BY <1>1, AnswerTypes DEF TypeOK, tables
<1>3. \A t \in Slots : pc'[t] \in Holding => pc[t] = pc'[t] /\ req'[t] = req[t]
  BY <1>1, AnswerTypes
<1>4. QED
  BY <1>2, <1>3, ReadingKeepsInv DEF tables

(* A request that found an unlocked row goes on to write it. *)
LEMMA SelectingKeepsInv ==
    ASSUME ReviewInv, NEW s \in Slots, NEW u \in Users, NEW i \in Nat,
           NEW next \in Holding, pc[s] \in Ended, ~ Locked(i),
           Exists(i), next # "comment" => Mine(u, i),
           Proceed(s, u, i, next), UNCHANGED <<tables, snapshots, gone>>
    PROVE  ReviewInv'
<1> DEFINE frame == [NoRequest EXCEPT !.me = u, !.target = i]
<1>1. frame \in Request /\ frame.me = u /\ frame.target = i
  BY NoRequestTypes DEF NoRequest, Request
<1>2. pc'[s] = next /\ req'[s] = frame
      /\ \A t \in Slots \ {s} : pc'[t] = pc[t] /\ req'[t] = req[t]
  BY DEF Proceed, Goto, ReviewInv, TypeOK
<1>3. TypeOK'
  BY <1>1, PcNames DEF Proceed, Goto, ReviewInv, TypeOK, tables
<1>4. ServedUsers'
  BY <1>1, <1>2, PcNames DEF ServedUsers, ReviewInv
<1>5. IdsAreIssued'
  <2>1. i < nextId
    BY DEF Exists, ReviewInv, IdsAreIssued
  <2>2. QED
    BY <1>1, <1>2, <2>1 DEF ReviewInv, IdsAreIssued, tables
<1>6. SelectionsAreOwn'
  <2>1. \A t \in Slots \ {s} : pc'[t] \in {"update", "delete"} =>
            Mine(req[t].me, req[t].target)' \/ req'[t].target \in gone'
    BY <1>2 DEF ReviewInv, SelectionsAreOwn, Mine, tables
  <2>2. pc'[s] \in {"update", "delete"} => Mine(req[s].me, req[s].target)'
    <3>1. pc'[s] \in {"update", "delete"} => Mine(u, i)
      BY <1>2
    <3>2. QED
      BY <3>1, <1>1, <1>2 DEF Mine, tables
  <2>3. QED
    BY <2>1, <2>2 DEF SelectionsAreOwn
<1>7. OneReviewPerUser' /\ NoOrphanComments' /\ DeletedLinksStayDead'
  BY DEF ReviewInv, OneReviewPerUser, NoOrphanComments, DeletedLinksStayDead, Exists, tables
<1>8. LockedRowsStay'
  BY <1>1, <1>2 DEF ReviewInv, LockedRowsStay, Exists, tables
<1>9. OneLockHolder'
  <2>1. RowLocks => \A t \in Slots : pc[t] \in Holding => req[t].target # i
    BY DEF Locked
  <2>2. RowLocks => \A t \in Slots \ {s} :
            pc'[t] \in Holding => req'[t].target # req'[s].target
    BY <1>1, <1>2, <2>1
  <2>3. RowLocks => \A t, v \in Slots \ {s} :
            pc'[t] \in Holding /\ pc'[v] \in Holding /\ req'[t].target = req'[v].target => t = v
    BY <1>2 DEF ReviewInv, OneLockHolder
  <2>4. QED
    BY <2>2, <2>3 DEF OneLockHolder
<1>10. QED
  BY <1>3, <1>4, <1>5, <1>6, <1>7, <1>8, <1>9 DEF ReviewInv

-----------------------------------------------------------------------------
(* Preservation of the invariant, by operation *)

LEMMA CreateCheckKeepsInv ==
    ASSUME ReviewInv, NEW s \in Slots, NEW u \in Users, CreateCheck(s, u)
    PROVE  ReviewInv'
<1>1. CASE Reviewed(u)
  BY <1>1, AnsweringKeepsInv, PcNames DEF CreateCheck
<1>2. CASE ~ Reviewed(u)
  <2> DEFINE counts == [source \in Sources |-> Len(snapshots[u][source])]
             frame == [NoRequest EXCEPT !.me = u, !.asOf = counts]
  <2>1. counts \in [Sources -> Nat]
    BY DEF ReviewInv, TypeOK
  <2>2. frame \in Request /\ frame.me = u
    BY <2>1, NoRequestTypes DEF NoRequest, Request
  <2>3. /\ pc' = [pc EXCEPT ![s] = "steam"]
        /\ req' = [req EXCEPT ![s] = frame]
    BY <1>2 DEF CreateCheck, Goto
  <2>4. pc'[s] = "steam" /\ req'[s] = frame
        /\ \A t \in Slots \ {s} : pc'[t] = pc[t] /\ req'[t] = req[t]
    BY <2>3 DEF ReviewInv, TypeOK
  <2>5. "steam" \in Creating
    BY DEF Creating
  <2> HIDE DEF frame
  <2>6. TypeOK'
    BY <2>2, <2>3, <2>5, PcNames DEF ReviewInv, TypeOK, CreateCheck, tables
  <2>7. ServedUsers'
    BY <2>2, <2>4, <2>5, PcNames DEF ServedUsers, ReviewInv
  <2>8. \A t \in Slots : pc'[t] \in Holding => pc[t] = pc'[t] /\ req'[t] = req[t]
    BY <2>4, <2>5, PcNames
  <2>9. QED
    BY <2>6, <2>7, <2>8, ReadingKeepsInv DEF CreateCheck, tables
<1>3. QED
  BY <1>1, <1>2

LEMMA ReadSourceKeepsInv ==
    ASSUME ReviewInv, NEW s \in Slots, NEW source \in Creating \cap Sources,
           NEW next \in Creating, ReadSource(s, source, next)
    PROVE  ReviewInv'
<1> DEFINE n == Len(snapshots[req[s].me][source])
           frame == [req[s] EXCEPT !.chosen = [source |-> source, number |-> n]]
<1>1. pc[s] \in Busy /\ pc[s] = source /\ "insert" \in Creating
  BY PcNames DEF ReadSource, Creating
<1>2. req[s] \in Request /\ req[s].me \in Users
  BY <1>1 DEF ReviewInv, TypeOK, ServedUsers
<1>3. n \in Nat
  BY <1>2 DEF ReviewInv, TypeOK
<1>4. frame \in Request /\ frame.me = req[s].me /\ frame.target = req[s].target
  BY <1>2, <1>3 DEF Request, Chosen
<1>5. \E where \in Creating : pc' = [pc EXCEPT ![s] = where]
  BY <1>1 DEF ReadSource, Goto
<1>6. \/ req' = req
      \/ req' = [req EXCEPT ![s] = frame]
  BY DEF ReadSource
<1>7. pc'[s] \in Creating /\ \A t \in Slots \ {s} : pc'[t] = pc[t] /\ req'[t] = req[t]
  BY <1>5, <1>6 DEF ReviewInv, TypeOK
<1>8. req'[s] \in Request /\ req'[s].me = req[s].me
  BY <1>2, <1>4, <1>6 DEF ReviewInv, TypeOK
<1> HIDE DEF frame, n
<1>9. TypeOK'
  BY <1>4, <1>5, <1>6, PcNames DEF ReviewInv, TypeOK, ReadSource, tables
<1>10. ServedUsers'
  BY <1>1, <1>2, <1>7, <1>8, PcNames DEF ServedUsers, ReviewInv
<1>11. \A t \in Slots : pc'[t] \in Holding => pc[t] = pc'[t] /\ req'[t] = req[t]
  BY <1>7, PcNames
<1>12. QED
  BY <1>9, <1>10, <1>11, ReadingKeepsInv DEF ReadSource, tables

(* What the step of a served slot that keeps the slot busy preserves. *)
LEMMA MovingTypes ==
    ASSUME ReviewInv, NEW s \in Slots, pc[s] \in Busy,
           NEW where \in Busy \ Holding, Goto(s, where), NEW i \in Nat,
           req' \in {req, [req EXCEPT ![s].target = i]}
    PROVE  /\ pc' \in [Slots -> Ended \cup Busy]
           /\ req' \in [Slots -> Request]
           /\ ServedUsers'
           /\ \A t \in Slots : pc'[t] \in Holding =>
                  t # s /\ pc[t] = pc'[t] /\ req'[t] = req[t]
<1>1. req[s] \in Request /\ req[s].me \in Users
  BY DEF ReviewInv, TypeOK, ServedUsers
<1> DEFINE frame == [req[s] EXCEPT !.target = i]
<1>2. frame \in Request /\ frame.me = req[s].me
  BY <1>1 DEF Request
<1>3. req' = req \/ req' = [req EXCEPT ![s] = frame]
  OBVIOUS
<1> HIDE DEF frame
<1>4. pc'[s] = where /\ \A t \in Slots \ {s} : pc'[t] = pc[t] /\ req'[t] = req[t]
  BY <1>3 DEF ReviewInv, TypeOK, Goto
<1>5. req'[s].me = req[s].me
  BY <1>2, <1>3 DEF ReviewInv, TypeOK
<1>6. pc' \in [Slots -> Ended \cup Busy]
  BY DEF ReviewInv, TypeOK, Goto
<1>7. req' \in [Slots -> Request]
  BY <1>2, <1>3 DEF ReviewInv, TypeOK
<1>8. ServedUsers'
  BY <1>1, <1>4, <1>5 DEF ServedUsers, ReviewInv
<1>9. QED
  BY <1>4, <1>6, <1>7, <1>8

LEMMA CreateInsertKeepsInv ==
    ASSUME ReviewInv, NEW s \in Slots, CreateInsert(s)
    PROVE  ReviewInv'
<1>1. pc[s] = "insert" /\ pc[s] \in Busy
  BY PcNames DEF CreateInsert, Creating
<1>2. nextId \in Nat /\ nextId + 1 \in Nat
  BY DEF ReviewInv, TypeOK
<1>3. {"conflict", "refresh"} \subseteq Busy \ Holding
  BY PcNames
<1>4. CASE Reviewed(req[s].me)
  <2>1. Goto(s, "conflict") /\ UNCHANGED <<reviews, comments, snapshots, nextComment, req, gone>>
        /\ nextId' \in {nextId, nextId + 1}
    BY <1>4 DEF CreateInsert, Conflict
  <2>2. /\ pc' \in [Slots -> Ended \cup Busy]
        /\ req' \in [Slots -> Request]
        /\ ServedUsers'
        /\ \A t \in Slots : pc'[t] \in Holding => pc[t] = pc'[t] /\ req'[t] = req[t]
    BY <1>1, <1>2, <1>3, <2>1, MovingTypes
  <2>3. TypeOK'
    BY <1>2, <2>1, <2>2 DEF ReviewInv, TypeOK
  <2>4. QED
    BY <2>1, <2>2, <2>3, ReadingKeepsInv
<1>5. CASE ~ Reviewed(req[s].me)
  <2> DEFINE row == [id |-> nextId, user |-> req[s].me, body |-> "posted",
                     verified |-> VerifiedFrom(s), asOf |-> req[s].asOf]
  <2>1. /\ reviews' = reviews \cup {row}
        /\ req' = [req EXCEPT ![s].target = nextId]
        /\ Goto(s, "refresh")
        /\ nextId' = nextId + 1
        /\ UNCHANGED <<comments, nextComment, snapshots, gone>>
    BY <1>5 DEF CreateInsert, Insert
  <2>2. /\ pc' \in [Slots -> Ended \cup Busy]
        /\ req' \in [Slots -> Request]
        /\ ServedUsers'
        /\ \A t \in Slots : pc'[t] \in Holding => pc[t] = pc'[t] /\ req'[t] = req[t]
    BY <1>1, <1>2, <1>3, <2>1, MovingTypes
  <2>3. req[s] \in Request /\ req[s].me \in Users /\ VerifiedFrom(s) \in Verified
    BY <1>1, VerifiedTypes DEF ReviewInv, TypeOK, ServedUsers
  <2>4. row \in Review /\ row.id = nextId /\ row.user = req[s].me
    BY <1>2, <2>3 DEF Review, Request
  <2>5. \A r \in reviews : r.id \in Nat /\ r.id < nextId /\ r.user # req[s].me
    BY <1>5 DEF ReviewInv, TypeOK, IdsAreIssued, Review, Reviewed
  <2>6. \A i \in gone : i \in Nat /\ i < nextId
    BY DEF ReviewInv, TypeOK, IdsAreIssued
  <2> HIDE DEF row
  <2>7. TypeOK'
    BY <1>2, <2>1, <2>2, <2>4 DEF ReviewInv, TypeOK
  <2>8. IdsAreIssued'
    <3>1. \A r \in reviews' : r.id < nextId'
      BY <1>2, <2>1, <2>4, <2>5
    <3>2. \A t \in Slots : pc'[t] \in Holding => req'[t].target < nextId'
      <4>1. \A t \in Slots : req[t].target \in Nat
        BY DEF ReviewInv, TypeOK, Request
      <4>2. QED
        BY <1>2, <2>1, <2>2, <4>1 DEF ReviewInv, IdsAreIssued
    <3>3. QED
      BY <1>2, <2>1, <2>6, <3>1, <3>2 DEF ReviewInv, IdsAreIssued
  <2>9. SelectionsAreOwn'
    <3>1. ASSUME NEW t \in Slots, pc'[t] \in {"update", "delete"}
          PROVE  Mine(req[t].me, req[t].target)' \/ req'[t].target \in gone'
      <4>1. pc[t] = pc'[t] /\ req'[t] = req[t]
        BY <2>2, <3>1 DEF Holding
      <4>2. Mine(req[t].me, req[t].target) \/ req[t].target \in gone
        BY <3>1, <4>1 DEF ReviewInv, SelectionsAreOwn
      <4>3. reviews \subseteq reviews' /\ gone' = gone
        BY <2>1
      <4>4. QED
        BY <4>1, <4>2, <4>3 DEF Mine
    <3>2. QED
      BY <3>1 DEF SelectionsAreOwn
  <2>10. OneReviewPerUser'
    BY <1>2, <2>1, <2>4, <2>5 DEF ReviewInv, OneReviewPerUser
  <2>12. NoOrphanComments'
    BY <2>1 DEF ReviewInv, NoOrphanComments, Exists
  <2>13. DeletedLinksStayDead'
    BY <1>2, <2>1, <2>4, <2>6 DEF ReviewInv, DeletedLinksStayDead, Exists
  <2>14. LockedRowsStay'
    BY <2>1, <2>2 DEF ReviewInv, LockedRowsStay, Exists
  <2>15. OneLockHolder'
    BY <2>2 DEF ReviewInv, OneLockHolder
  <2>16. QED
    BY <2>2, <2>7, <2>8, <2>9, <2>10, <2>12, <2>13, <2>14, <2>15 DEF ReviewInv
<1>6. QED
  BY <1>4, <1>5

(* An edit keeps every row with its id and its author. *)
LEMMA EditUpdateRows ==
    ASSUME ReviewInv, NEW s \in Slots, EditUpdate(s)
    PROVE  /\ reviews' \subseteq Review
           /\ \A q \in reviews' : \E r \in reviews :
                 /\ q.id = r.id /\ q.user = r.user
                 /\ q.verified = r.verified /\ q.asOf = r.asOf
                 /\ q = IF r.id = req[s].target THEN [r EXCEPT !.body = "edited"] ELSE r
           /\ \A r \in reviews : \E q \in reviews' : q.id = r.id /\ q.user = r.user
<1> DEFINE Edited(r) == IF r.id = req[s].target THEN [r EXCEPT !.body = "edited"] ELSE r
<1>1. reviews' = {Edited(r) : r \in reviews} /\ reviews \subseteq Review
  BY DEF EditUpdate, ReviewInv, TypeOK
<1>2. \A r \in Review : /\ Edited(r) \in Review
                        /\ Edited(r).id = r.id /\ Edited(r).user = r.user
                        /\ Edited(r).verified = r.verified /\ Edited(r).asOf = r.asOf
  BY DEF Review
<1>3. \A q \in reviews' : \E r \in reviews : q = Edited(r)
  BY <1>1
<1>4. \A r \in reviews : Edited(r) \in reviews'
  BY <1>1
<1>5. reviews' \subseteq Review
  BY <1>1, <1>2, <1>3
<1>6. \A q \in reviews' : \E r \in reviews :
          /\ q.id = r.id /\ q.user = r.user
          /\ q.verified = r.verified /\ q.asOf = r.asOf /\ q = Edited(r)
  BY <1>1, <1>2, <1>3
<1>7. \A r \in reviews : \E q \in reviews' : q.id = r.id /\ q.user = r.user
  <2>1. TAKE r \in reviews
  <2>2. r \in Review
    BY <1>1
  <2>3. Edited(r) \in reviews' /\ Edited(r).id = r.id /\ Edited(r).user = r.user
    BY <2>2, <1>2, <1>4
  <2> HIDE DEF Edited
  <2>4. QED
    BY <2>3
<1>8. QED
  BY <1>5, <1>6, <1>7

LEMMA EditUpdateKeepsInv ==
    ASSUME ReviewInv, NEW s \in Slots, EditUpdate(s)
    PROVE  ReviewInv'
<1>1. pc[s] = "update" /\ pc[s] \in Busy /\ UNCHANGED <<comments, nextId, nextComment, snapshots, gone>>
  BY PcNames DEF EditUpdate, Holding
<1>2. /\ pc' \in [Slots -> Ended \cup Busy]
      /\ req' \in [Slots -> Request]
      /\ ServedUsers'
      /\ \A t \in Slots : pc'[t] \in Holding => t # s /\ pc[t] = pc'[t] /\ req'[t] = req[t]
  <2>1. CASE Exists(req[s].target)
    BY <1>1, <2>1, MovingTypes, PcNames DEF EditUpdate
  <2>2. CASE ~ Exists(req[s].target)
    BY <2>2, AnswerTypes, PcNames DEF EditUpdate, ReviewInv
  <2>3. QED
    BY <2>1, <2>2
<1>5. TypeOK'
  BY <1>1, <1>2, EditUpdateRows DEF ReviewInv, TypeOK
<1>6. IdsAreIssued'
  BY <1>1, <1>2, EditUpdateRows DEF ReviewInv, IdsAreIssued
<1>7. SelectionsAreOwn'
  <2>1. \A t \in Slots : pc'[t] \in {"update", "delete"} => pc'[t] \in Holding
    BY DEF Holding
  <2>2. ASSUME NEW t \in Slots, pc'[t] \in {"update", "delete"}
        PROVE  Mine(req[t].me, req[t].target)' \/ req'[t].target \in gone'
    <3>1. Mine(req[t].me, req[t].target) \/ req[t].target \in gone
      BY <1>2, <2>1, <2>2 DEF ReviewInv, SelectionsAreOwn
    <3>2. req'[t] = req[t]
      BY <1>2, <2>1, <2>2
    <3>3. Mine(req[t].me, req[t].target) => Mine(req[t].me, req[t].target)'
      BY <3>2, EditUpdateRows DEF Mine
    <3>4. QED
      BY <1>1, <3>1, <3>2, <3>3
  <2>3. QED
    BY <2>2 DEF SelectionsAreOwn
<1>8. OneReviewPerUser'
  <2>1. ASSUME NEW p \in reviews', NEW q \in reviews', p.user = q.user \/ p.id = q.id
        PROVE  p = q
    <3>1. PICK r \in reviews : r.id = p.id /\ r.user = p.user
               /\ p = IF r.id = req[s].target THEN [r EXCEPT !.body = "edited"] ELSE r
      BY EditUpdateRows
    <3>2. PICK t \in reviews : t.id = q.id /\ t.user = q.user
               /\ q = IF t.id = req[s].target THEN [t EXCEPT !.body = "edited"] ELSE t
      BY EditUpdateRows
    <3>3. r = t
      BY <2>1, <3>1, <3>2 DEF ReviewInv, OneReviewPerUser
    <3>4. QED
      BY <3>1, <3>2, <3>3
  <2>2. QED
    BY <2>1 DEF OneReviewPerUser
<1>9. NoOrphanComments' /\ DeletedLinksStayDead'
  BY <1>1, EditUpdateRows DEF ReviewInv, NoOrphanComments, DeletedLinksStayDead, Exists
<1>10. LockedRowsStay'
  <2>1. ASSUME NEW t \in Slots, RowLocks, pc'[t] \in Holding
        PROVE  Exists(req[t].target)'
    <3>1. Exists(req[t].target) /\ req'[t] = req[t]
      BY <1>2, <2>1 DEF ReviewInv, LockedRowsStay
    <3>2. QED
      BY <3>1, EditUpdateRows DEF Exists
  <2>2. QED
    BY <2>1 DEF LockedRowsStay
<1>11. OneLockHolder'
  BY <1>2 DEF ReviewInv, OneLockHolder
<1>12. QED
  BY <1>2, <1>5, <1>6, <1>7, <1>8, <1>9, <1>10, <1>11 DEF ReviewInv

LEMMA DeleteRowsKeepsInv ==
    ASSUME ReviewInv, NEW s \in Slots, DeleteRows(s)
    PROVE  ReviewInv'
<1> DEFINE i == req[s].target
           Doomed(r) == r.id = i /\ r.user = req[s].me
<1>1. /\ pc[s] = "delete" /\ pc[s] \in Holding /\ Answer(s, "ok")
      /\ comments' = {c \in comments : c.review # i}
      /\ reviews' = {r \in reviews : ~ Doomed(r)}
      /\ gone' = gone \cup {i}
      /\ UNCHANGED <<nextId, nextComment, snapshots>>
  BY DEF DeleteRows, Holding
<1>2. /\ pc' \in [Slots -> Ended \cup Busy]
      /\ req' \in [Slots -> Request]
      /\ ServedUsers'
      /\ \A t \in Slots : pc'[t] \in Holding => t # s /\ pc[t] = pc'[t] /\ req'[t] = req[t]
  BY <1>1, AnswerTypes, PcNames DEF ReviewInv
<1>3. i \in Nat /\ i < nextId
  BY <1>1 DEF ReviewInv, TypeOK, Request, IdsAreIssued
<1>4. \A r \in reviews : r.id = i => Doomed(r) \/ i \in gone
  <2>1. Mine(req[s].me, i) \/ i \in gone
    BY <1>1 DEF ReviewInv, SelectionsAreOwn
  <2>2. QED
    BY <2>1 DEF Mine, ReviewInv, OneReviewPerUser
<1>5. \A r \in reviews' : r.id # i
  BY <1>1, <1>4 DEF ReviewInv, DeletedLinksStayDead, Exists
<1>6. \A r \in reviews : r.id # i => r \in reviews'
  BY <1>1
<1> HIDE DEF i, Doomed
<1>7. reviews' \subseteq reviews
  BY <1>1
<1>8. comments' \subseteq comments /\ \A c \in comments' : c.review # i
  BY <1>1
<1>9. TypeOK'
  BY <1>1, <1>2, <1>3, <1>7, <1>8 DEF ReviewInv, TypeOK
<1>10. IdsAreIssued'
  BY <1>1, <1>2, <1>3, <1>7, <1>8 DEF ReviewInv, IdsAreIssued
<1>11. SelectionsAreOwn'
  <2>1. ASSUME NEW t \in Slots, pc'[t] \in {"update", "delete"}
        PROVE  Mine(req[t].me, req[t].target)' \/ req'[t].target \in gone'
    <3>1. pc[t] = pc'[t] /\ req'[t] = req[t]
      BY <1>2, <2>1 DEF Holding
    <3>2. Mine(req[t].me, req[t].target) \/ req[t].target \in gone
      BY <2>1, <3>1 DEF ReviewInv, SelectionsAreOwn
    <3>3. CASE req[t].target = i
      BY <1>1, <3>1, <3>3
    <3>4. CASE req[t].target # i
      BY <1>1, <1>6, <3>1, <3>2, <3>4 DEF Mine
    <3>5. QED
      BY <3>3, <3>4
  <2>2. QED
    BY <2>1 DEF SelectionsAreOwn
<1>12. OneReviewPerUser'
  BY <1>7 DEF ReviewInv, OneReviewPerUser
<1>13. NoOrphanComments'
  BY <1>6, <1>8 DEF ReviewInv, NoOrphanComments, Exists
<1>14. DeletedLinksStayDead'
  BY <1>1, <1>5, <1>7 DEF ReviewInv, DeletedLinksStayDead, Exists
<1>15. OneLockHolder'
  BY <1>2 DEF ReviewInv, OneLockHolder
<1>16. LockedRowsStay'
  <2>1. ASSUME NEW t \in Slots, RowLocks, pc'[t] \in Holding
        PROVE  Exists(req[t].target)'
    <3>1. t # s /\ pc[t] \in Holding /\ req'[t] = req[t]
      BY <1>2, <2>1
    <3>2. req[t].target # i
      BY <1>1, <2>1, <3>1 DEF ReviewInv, OneLockHolder, i
    <3>3. Exists(req[t].target)
      BY <2>1, <3>1 DEF ReviewInv, LockedRowsStay
    <3>4. QED
      BY <1>6, <3>1, <3>2, <3>3 DEF Exists
  <2>2. QED
    BY <2>1 DEF LockedRowsStay
<1>17. QED
  BY <1>2, <1>9, <1>10, <1>11, <1>12, <1>13, <1>14, <1>15, <1>16 DEF ReviewInv

LEMMA CommentInsertKeepsInv ==
    ASSUME ReviewInv, NEW s \in Slots, CommentInsert(s)
    PROVE  ReviewInv'
<1>1. pc[s] = "comment" /\ pc[s] \in Busy
  BY PcNames DEF CommentInsert, Holding
<1>2. CASE ~ Exists(req[s].target)
  <2>1. Answer(s, "refused") /\ UNCHANGED <<tables, snapshots, gone>>
    BY <1>2 DEF CommentInsert, tables
  <2>2. QED
    BY <2>1, AnsweringKeepsInv, PcNames
<1>3. CASE Exists(req[s].target)
  <2>1. /\ comments' = comments \cup {NewComment(s)}
        /\ nextComment' = nextComment + 1
        /\ Goto(s, "reload") /\ req' = req
        /\ UNCHANGED <<reviews, nextId, snapshots, gone>>
    BY <1>3 DEF CommentInsert
  <2>2. /\ pc' \in [Slots -> Ended \cup Busy]
        /\ req' \in [Slots -> Request]
        /\ ServedUsers'
        /\ \A t \in Slots : pc'[t] \in Holding => pc[t] = pc'[t] /\ req'[t] = req[t]
    BY <1>1, <2>1, MovingTypes, PcNames
  <2>3. nextComment \in Nat /\ req[s] \in Request /\ req[s].me \in Users
    BY <1>1 DEF ReviewInv, TypeOK, ServedUsers
  <2>4. /\ NewComment(s) \in Comment
        /\ NewComment(s).id = nextComment
        /\ NewComment(s).review = req[s].target
    BY <2>3 DEF NewComment, Comment, Request
  <2>5. \A c \in comments : c.id \in Nat /\ c.id < nextComment
    BY DEF ReviewInv, TypeOK, IdsAreIssued, Comment
  <2>6. TypeOK'
    BY <2>1, <2>2, <2>3, <2>4 DEF ReviewInv, TypeOK
  <2>7. IdsAreIssued'
    <3>1. \A c \in comments' : c.id < nextComment'
      BY <2>1, <2>3, <2>4, <2>5
    <3>2. QED
      BY <2>1, <2>2, <3>1 DEF ReviewInv, IdsAreIssued
  <2>8. SelectionsAreOwn'
    BY <2>1, <2>2 DEF ReviewInv, SelectionsAreOwn, Mine, Holding
  <2>9. OneReviewPerUser' /\ DeletedLinksStayDead'
    BY <2>1 DEF ReviewInv, OneReviewPerUser, DeletedLinksStayDead, Exists
  <2>10. NoOrphanComments'
    BY <1>3, <2>1, <2>4 DEF ReviewInv, NoOrphanComments, Exists
  <2>11. LockedRowsStay' /\ OneLockHolder'
    BY <2>1, <2>2 DEF ReviewInv, LockedRowsStay, OneLockHolder, Exists
  <2>12. QED
    BY <2>2, <2>6, <2>7, <2>8, <2>9, <2>10, <2>11 DEF ReviewInv
<1>4. QED
  BY <1>2, <1>3

LEMMA AppendSnapshotKeepsInv ==
    ASSUME ReviewInv, NEW u \in Users, NEW source \in Sources, NEW held \in Contents,
           AppendSnapshot(u, source, held)
    PROVE  ReviewInv'
<1>1. UNCHANGED <<reviews, comments, nextId, nextComment, pc, req, gone>>
  BY DEF AppendSnapshot, tables
<1>2. snapshots' \in [Users -> [Sources -> Seq(Contents)]]
  BY DEF AppendSnapshot, ReviewInv, TypeOK
<1>3. TypeOK' /\ ServedUsers'
  BY <1>1, <1>2 DEF ReviewInv, TypeOK, ServedUsers
<1>4. nextId \in Nat
  BY DEF ReviewInv, TypeOK
<1>5. QED
  BY <1>1, <1>3, <1>4, ReadingKeepsInv

-----------------------------------------------------------------------------
(* The invariant *)

LEMMA InitEstablishesInv == Init => ReviewInv
<1> SUFFICES ASSUME Init PROVE ReviewInv
  OBVIOUS
<1>1. TypeOK
  BY NoRequestTypes, PcNames, ReviewAssumption DEF Init, TypeOK, Ended
<1>2. \A s \in Slots : pc[s] \notin Busy /\ pc[s] \notin Holding /\ req[s].me \notin Users
  BY NoRequestTypes DEF Init, Busy, Creating, Holding
<1>3. ServedUsers
  BY <1>2 DEF ServedUsers
<1>4. SelectionsAreOwn /\ LockedRowsStay /\ OneLockHolder
  BY <1>2 DEF SelectionsAreOwn, LockedRowsStay, OneLockHolder, Holding
<1>5. IdsAreIssued /\ OneReviewPerUser /\ NoOrphanComments /\ DeletedLinksStayDead
  BY <1>2 DEF Init, IdsAreIssued, OneReviewPerUser, NoOrphanComments, DeletedLinksStayDead
<1>6. QED
  BY <1>1, <1>3, <1>4, <1>5 DEF ReviewInv

LEMMA NextKeepsInv == ReviewInv /\ [Next]_vars => ReviewInv'
<1> SUFFICES ASSUME ReviewInv, [Next]_vars PROVE ReviewInv'
  OBVIOUS
<1>1. ASSUME NEW s \in Slots, NEW u \in Users, CreateCheck(s, u) PROVE ReviewInv'
  BY <1>1, CreateCheckKeepsInv
<1>2. ASSUME NEW s \in Slots, NEW u \in Users, NEW i \in 1 .. MaxReviews,
             NEW next \in {"update", "delete"}, SelectOwn(s, u, i, next)
      PROVE  ReviewInv'
  <2>1. i \in Nat /\ next \in Holding
    BY ReviewAssumption DEF Holding
  <2>2. CASE Mine(u, i)
    <3>1. Exists(i)
      BY <2>2 DEF Mine, Exists
    <3>2. QED
      BY <1>2, <2>1, <2>2, <3>1, SelectingKeepsInv DEF SelectOwn
  <2>3. CASE ~ Mine(u, i)
    BY <1>2, <2>3, AnsweringKeepsInv, PcNames DEF SelectOwn
  <2>4. QED
    BY <2>2, <2>3
<1>3. ASSUME NEW s \in Slots, NEW u \in Users, NEW i \in 1 .. MaxReviews, CommentCheck(s, u, i)
      PROVE  ReviewInv'
  <2>1. i \in Nat /\ "comment" \in Holding
    BY ReviewAssumption DEF Holding
  <2>2. CASE Exists(i)
    BY <1>3, <2>1, <2>2, SelectingKeepsInv DEF CommentCheck
  <2>3. CASE ~ Exists(i)
    BY <1>3, <2>3, AnsweringKeepsInv, PcNames DEF CommentCheck
  <2>4. QED
    BY <2>2, <2>3
<1>4. ASSUME NEW s \in Slots, ReadSteam(s) \/ ReadPsn(s) PROVE ReviewInv'
  <2>1. {"steam", "psn"} \subseteq Creating \cap Sources /\ {"psn", "insert"} \subseteq Creating
    BY DEF Creating, Sources
  <2>2. QED
    BY <1>4, <2>1, ReadSourceKeepsInv DEF ReadSteam, ReadPsn
<1>5. ASSUME NEW s \in Slots, CreateInsert(s) PROVE ReviewInv'
  BY <1>5, CreateInsertKeepsInv
<1>6. ASSUME NEW s \in Slots, CreateConflict(s) \/ Refresh(s) \/ CommentReload(s)
      PROVE  ReviewInv'
  <2>1. \E o \in Ended : Answer(s, o)
    BY <1>6, PcNames DEF CreateConflict, Refresh, CommentReload
  <2>2. UNCHANGED <<tables, snapshots, gone>>
    BY <1>6 DEF CreateConflict, Refresh, CommentReload
  <2>3. QED
    BY <2>1, <2>2, AnsweringKeepsInv
<1>7. ASSUME NEW s \in Slots, EditUpdate(s) PROVE ReviewInv'
  BY <1>7, EditUpdateKeepsInv
<1>8. ASSUME NEW s \in Slots, DeleteRows(s) PROVE ReviewInv'
  BY <1>8, DeleteRowsKeepsInv
<1>9. ASSUME NEW s \in Slots, CommentInsert(s) PROVE ReviewInv'
  BY <1>9, CommentInsertKeepsInv
<1>10. ASSUME NEW u \in Users, NEW source \in Sources, NEW held \in Contents,
              AppendSnapshot(u, source, held)
       PROVE  ReviewInv'
  BY <1>10, AppendSnapshotKeepsInv
<1>11. CASE UNCHANGED vars
  <2>1. TypeOK' /\ ServedUsers'
    BY <1>11 DEF vars, ReviewInv, TypeOK, ServedUsers
  <2>2. nextId \in Nat
    BY DEF ReviewInv, TypeOK
  <2>3. QED
    BY <1>11, <2>1, <2>2, ReadingKeepsInv DEF vars
<1>12. QED
  BY <1>1, <1>2, <1>3, <1>4, <1>5, <1>6, <1>7, <1>8, <1>9, <1>10, <1>11
     DEF Next, Step, EditSelect, DeleteSelect

(* However the statements of the requests interleave, on SQLite and on     *)
(* Postgres, the tables of reviews.py stay well formed: types, ids, one    *)
(* review per user, no orphan comment, dead links, locked rows.            *)
THEOREM ReviewInvariant == Spec => []ReviewInv
<1>1. Init => ReviewInv
  BY InitEstablishesInv
<1>2. ReviewInv /\ [Next]_vars => ReviewInv'
  BY NextKeepsInv
<1>3. QED
  BY <1>1, <1>2, PTL DEF Spec

(* The check-then-insert of create_review never leaves two reviews of one  *)
(* user, nor two reviews under one id.                                     *)
THEOREM UsersReviewOnce == Spec => []OneReviewPerUser
<1>1. ReviewInv => OneReviewPerUser
  BY DEF ReviewInv
<1>2. QED
  BY <1>1, ReviewInvariant, PTL

(* The conditional insert of create_comment never leaves a comment whose   *)
(* review was deleted, with or without row locks.                          *)
THEOREM CommentsHaveReviews == Spec => []NoOrphanComments
<1>1. ReviewInv => NoOrphanComments
  BY DEF ReviewInv
<1>2. QED
  BY <1>1, ReviewInvariant, PTL

(* A deleted discussion link never resolves to a newer review.             *)
THEOREM DeletedLinksNeverResolve == Spec => []DeletedLinksStayDead
<1>1. ReviewInv => DeletedLinksStayDead
  BY DEF ReviewInv
<1>2. QED
  BY <1>1, ReviewInvariant, PTL

(* On Postgres the row an edit, a delete or a comment selected FOR UPDATE  *)
(* is still there when it writes.                                          *)
THEOREM LocksHoldRows == Spec => []LockedRowsStay
<1>1. ReviewInv => LockedRowsStay
  BY DEF ReviewInv
<1>2. QED
  BY <1>1, ReviewInvariant, PTL

(* No request changes the author or the verified numbers of a posted       *)
(* review: edits keep them, and no id is given to a second review.         *)
THEOREM PostedFactsStay == Spec => PostedFactsAreFrozen
<1> DEFINE Frozen == \A r \in reviews, q \in reviews' : q.id = r.id =>
               q.user = r.user /\ q.verified = r.verified /\ q.asOf = r.asOf
<1>1. ASSUME ReviewInv, [Next]_vars PROVE Frozen
  <2>1. ASSUME NEW s \in Slots, EditUpdate(s) PROVE Frozen
    BY <1>1, <2>1, EditUpdateRows DEF ReviewInv, OneReviewPerUser
  <2>2. ASSUME NEW s \in Slots, CreateInsert(s) PROVE Frozen
    <3>1. \A q \in reviews' : q \in reviews \/ q.id = nextId
      BY <2>2 DEF CreateInsert, Conflict, Insert
    <3>2. \A r \in reviews : r.id \in Nat /\ r.id < nextId
      BY <1>1 DEF ReviewInv, TypeOK, IdsAreIssued, Review
    <3>3. nextId \in Nat
      BY <1>1 DEF ReviewInv, TypeOK
    <3>4. QED
      BY <1>1, <3>1, <3>2, <3>3 DEF ReviewInv, OneReviewPerUser
  <2>3. ASSUME reviews' \subseteq reviews PROVE Frozen
    BY <1>1, <2>3 DEF ReviewInv, OneReviewPerUser
  <2>4. \/ \E s \in Slots : EditUpdate(s) \/ CreateInsert(s)
        \/ reviews' \subseteq reviews
    BY <1>1 DEF Next, Step, vars, tables, CreateCheck, EditSelect, DeleteSelect, SelectOwn,
                CommentCheck, ReadSteam, ReadPsn, ReadSource, CreateConflict, Refresh,
                DeleteRows, CommentInsert, CommentReload, AppendSnapshot
  <2>5. QED
    BY <2>1, <2>2, <2>3, <2>4
<1>2. ReviewInv /\ [Next]_vars => [Frozen]_vars
  BY <1>1
<1>3. QED
  BY <1>2, ReviewInvariant, PTL DEF Spec, PostedFactsAreFrozen

-----------------------------------------------------------------------------
(* Verification *)

(* Snapshots are only ever appended: what a request counted or read of     *)
(* them before is still so.                                                *)
Kept == \A u \in Users, x \in Sources :
    /\ snapshots[u][x] \in Seq(Contents) /\ snapshots'[u][x] \in Seq(Contents)
    /\ Len(snapshots[u][x]) <= Len(snapshots'[u][x])
    /\ \A k \in DOMAIN snapshots[u][x] :
          k \in DOMAIN snapshots'[u][x] /\ snapshots'[u][x][k] = snapshots[u][x][k]

LEMMA UnchangedKeeps ==
    ASSUME TypeOK, snapshots' = snapshots
    PROVE  Kept
  BY DEF Kept, TypeOK

LEMMA AppendKeeps ==
    ASSUME TypeOK, NEW u \in Users, NEW source \in Sources, NEW held \in Contents,
           AppendSnapshot(u, source, held)
    PROVE  Kept
<1> DEFINE old == snapshots[u][source]
<1>1. /\ snapshots' = [snapshots EXCEPT ![u][source] = Append(old, held)]
      /\ old \in Seq(Contents)
  BY DEF AppendSnapshot, TypeOK
<1>2. /\ Append(old, held) \in Seq(Contents)
      /\ Len(old) <= Len(Append(old, held))
      /\ \A k \in DOMAIN old : k \in DOMAIN Append(old, held) /\ Append(old, held)[k] = old[k]
  BY <1>1
<1>3. snapshots'[u][source] = Append(old, held)
  BY <1>1 DEF TypeOK
<1>4. \A v \in Users, x \in Sources : <<v, x>> # <<u, source>> =>
          snapshots'[v][x] = snapshots[v][x] /\ snapshots[v][x] \in Seq(Contents)
  BY <1>1 DEF TypeOK
<1>5. ASSUME NEW v \in Users, NEW x \in Sources
      PROVE  /\ snapshots[v][x] \in Seq(Contents) /\ snapshots'[v][x] \in Seq(Contents)
             /\ Len(snapshots[v][x]) <= Len(snapshots'[v][x])
             /\ \A k \in DOMAIN snapshots[v][x] :
                   k \in DOMAIN snapshots'[v][x] /\ snapshots'[v][x][k] = snapshots[v][x][k]
  <2>1. CASE v = u /\ x = source
    BY <1>1, <1>2, <1>3, <2>1
  <2>2. CASE <<v, x>> # <<u, source>>
    BY <1>4, <2>2
  <2>3. QED
    BY <2>1, <2>2
<1>6. QED
  BY <1>5 DEF Kept

LEMMA AppendReportsMinutes ==
    ASSUME TypeOK, SteamReportsMinutes, NEW u \in Users, NEW source \in Sources,
           NEW held \in Contents, AppendSnapshot(u, source, held)
    PROVE  SteamReportsMinutes'
<1> DEFINE old == snapshots[u][source]
<1>1. /\ snapshots' = [snapshots EXCEPT ![u][source] = Append(old, held)]
      /\ held \in MayHold(source) /\ old \in Seq(Contents)
  BY DEF AppendSnapshot, TypeOK
<1>2. ASSUME NEW v \in Users, NEW k \in DOMAIN snapshots'[v]["steam"]
      PROVE  snapshots'[v]["steam"][k] \in MayHold("steam")
  <2>1. CASE v = u /\ source = "steam"
    <3>1. snapshots'[v]["steam"] = Append(old, held)
      BY <1>1, <2>1 DEF TypeOK
    <3>2. k \in 1 .. Len(old) + 1
      BY <1>1, <1>2, <3>1
    <3>3. CASE k = Len(old) + 1
      BY <1>1, <2>1, <3>1, <3>3
    <3>4. CASE k \in DOMAIN old
      <4>1. Append(old, held)[k] = old[k]
        BY <1>1, <3>4
      <4>2. QED
        BY <2>1, <3>1, <3>4, <4>1 DEF SteamReportsMinutes
    <3>5. QED
      BY <1>1, <3>2, <3>3, <3>4
  <2>2. CASE v # u \/ source # "steam"
    <3>1. snapshots'[v]["steam"] = snapshots[v]["steam"]
      BY <1>1, <2>2 DEF TypeOK, Sources
    <3>2. QED
      BY <1>2, <3>1 DEF SteamReportsMinutes
  <2>3. QED
    BY <2>1, <2>2
<1>3. QED
  BY <1>2 DEF SteamReportsMinutes

(* Rows that keep their author and their verified fields stay well         *)
(* verified.                                                               *)
LEMMA KeptRowsStayVerified ==
    ASSUME TypeOK, Kept, NEW r \in Review, NEW q, FreshlyVerified(r),
           q.user = r.user, q.verified = r.verified, q.asOf = r.asOf
    PROVE  FreshlyVerified(q)'
<1> DEFINE v == r.verified
           number == IF v.minutes # 0 THEN v.minutes ELSE v.pct
<1>1. CASE v.source = "none"
  BY <1>1 DEF FreshlyVerified
<1>2. CASE v.source # "none"
  <2>1. r.user \in Users /\ v.source \in Sources
    BY <1>2 DEF Review, Verified
  <2>2. number \in DOMAIN snapshots[r.user][v.source]
    BY <1>2 DEF FreshlyVerified
  <2>3. /\ number \in DOMAIN snapshots'[r.user][v.source]
        /\ snapshots'[r.user][v.source][number] = snapshots[r.user][v.source][number]
    BY <2>1, <2>2 DEF Kept
  <2>4. QED
    BY <1>2, <2>3 DEF FreshlyVerified
<1>3. QED
  BY <1>1, <1>2

(* A create whose locals a step leaves alone still verifies in order.      *)
LEMMA KeptCreatesStayInOrder ==
    ASSUME ReviewInv, Kept, NEW s \in Slots, pc[s] \in Creating, VerifiesInOrder(s),
           pc'[s] = pc[s], req'[s] = req[s]
    PROVE  VerifiesInOrder(s)'
<1> DEFINE q == req[s]
<1>1. q \in Request /\ q.me \in Users
  BY PcNames DEF ReviewInv, TypeOK, ServedUsers
<1>2. \A x \in Sources : q.asOf[x] \in Nat /\ q.asOf[x] <= Len(snapshots[q.me][x])
          /\ Len(snapshots[q.me][x]) \in Nat /\ Len(snapshots'[q.me][x]) \in Nat
          /\ Len(snapshots[q.me][x]) <= Len(snapshots'[q.me][x])
  BY <1>1 DEF VerifiesInOrder, Kept, Request
<1>3. \A x \in Sources : q.asOf[x] <= Len(snapshots'[q.me][x])
  BY <1>2
<1>4. q.chosen.source \in Sources \cup {"none"}
  BY <1>1 DEF Request, Chosen, NoSnapshot
<1>5. pc[s] = "insert" /\ q.chosen.source # "none" =>
          q.chosen.number \in 1 .. Len(snapshots'[q.me][q.chosen.source])
  <2> SUFFICES ASSUME pc[s] = "insert", q.chosen.source # "none"
               PROVE  q.chosen.number \in 1 .. Len(snapshots'[q.me][q.chosen.source])
    OBVIOUS
  <2>1. q.chosen.number \in 1 .. Len(snapshots[q.me][q.chosen.source])
    BY DEF VerifiesInOrder
  <2> HIDE DEF q
  <2>2. QED
    BY <1>2, <1>4, <2>1
<1>6. QED
  BY <1>3, <1>5 DEF VerifiesInOrder

(* A new row is verified by what the request chose. *)
LEMMA NewRowIsVerified ==
    ASSUME ReviewInv, VerificationInv, NEW s \in Slots, pc[s] = "insert",
           NEW r \in Review, r.user = req[s].me, r.verified = VerifiedFrom(s),
           r.asOf = req[s].asOf
    PROVE  FreshlyVerified(r)
<1> DEFINE n == req[s].chosen.number
           source == req[s].chosen.source
           held == snapshots[req[s].me][source][n]
<1>1. pc[s] \in Creating /\ pc[s] \in Busy
  BY PcNames DEF Creating
<1>2. VerifiesInOrder(s)
  BY <1>1 DEF VerificationInv, VerifyingInOrder
<1>3. req[s] \in Request /\ req[s].me \in Users
  BY <1>1 DEF ReviewInv, TypeOK, ServedUsers
<1>4. source \in Sources \cup {"none"} /\ n \in Nat
  BY <1>3 DEF Request, Chosen, NoSnapshot
<1>5. CASE source = "none"
  BY <1>2, <1>5 DEF VerifiesInOrder, VerifiedFrom, FreshlyVerified
<1>6. CASE source # "none"
  <2>1. /\ source \in Sources
        /\ n \in 1 .. Len(snapshots[req[s].me][source])
        /\ n >= req[s].asOf[source]
        /\ source = "psn" => req[s].asOf["steam"] = 0
    BY <1>2, <1>4, <1>6 DEF VerifiesInOrder
  <2>2. snapshots[req[s].me][source] \in Seq(Contents)
    BY <1>3, <2>1 DEF ReviewInv, TypeOK
  <2>3. n \in DOMAIN snapshots[req[s].me][source] /\ n # 0 /\ held \in Contents
    BY <1>4, <2>1, <2>2
  <2>4. source = "steam" => held # "neither"
    BY <1>3, <2>3 DEF VerificationInv, SteamReportsMinutes, MayHold
  <2>5. CASE held = "neither"
    <3>1. source = "psn"
      BY <2>1, <2>4, <2>5 DEF Sources
    <3>2. r.verified = [source |-> "none", minutes |-> 0, pct |-> 0]
      BY <2>3, <2>5 DEF VerifiedFrom
    <3>3. QED
      BY <2>1, <3>1, <3>2 DEF FreshlyVerified
  <2>6. CASE held # "neither"
    <3>1. /\ r.verified.source = source
          /\ r.verified.minutes = (IF held \in {"both", "minutes"} THEN n ELSE 0)
          /\ r.verified.pct = (IF held \in {"both", "counts"} THEN n ELSE 0)
      BY <2>3, <2>6 DEF VerifiedFrom
    <3>2. n = IF r.verified.minutes # 0 THEN r.verified.minutes ELSE r.verified.pct
      BY <2>3, <2>6, <3>1 DEF Contents
    <3>3. QED
      BY <1>6, <2>1, <2>3, <3>1, <3>2 DEF FreshlyVerified
  <2>7. QED
    BY <2>5, <2>6
<1>7. QED
  BY <1>5, <1>6

(* A step that adds no review and leaves the creates it does not answer    *)
(* alone.                                                                  *)
LEMMA QuietStepsKeepVerification ==
    ASSUME ReviewInv, VerificationInv, Kept, SteamReportsMinutes',
           \A q \in reviews' : \E r \in reviews :
               q.user = r.user /\ q.verified = r.verified /\ q.asOf = r.asOf,
           \A t \in Slots : pc'[t] \in Creating =>
               VerifiesInOrder(t)' \/ (pc'[t] = pc[t] /\ req'[t] = req[t])
    PROVE  VerificationInv'
<1>1. VerifyingInOrder'
  <2>1. ASSUME NEW t \in Slots, pc'[t] \in Creating PROVE VerifiesInOrder(t)'
    <3>1. CASE pc'[t] = pc[t] /\ req'[t] = req[t]
      <4>1. VerifiesInOrder(t)
        BY <2>1, <3>1 DEF VerificationInv, VerifyingInOrder
      <4>2. QED
        BY <2>1, <3>1, <4>1, KeptCreatesStayInOrder
    <3>2. QED
      BY <2>1, <3>1
  <2>2. QED
    BY <2>1 DEF VerifyingInOrder
<1>2. VerifiedByOneFreshSnapshot'
  <2>1. ASSUME NEW q \in reviews' PROVE FreshlyVerified(q)'
    <3>1. PICK r \in reviews : q.user = r.user /\ q.verified = r.verified /\ q.asOf = r.asOf
      BY <2>1
    <3>2. FreshlyVerified(r) /\ r \in Review /\ TypeOK
      BY DEF VerificationInv, VerifiedByOneFreshSnapshot, ReviewInv, TypeOK
    <3>3. QED
      BY <3>1, <3>2, KeptRowsStayVerified
  <2>2. QED
    BY <2>1 DEF VerifiedByOneFreshSnapshot
<1>3. QED
  BY <1>1, <1>2 DEF VerificationInv

LEMMA CreateCheckKeepsVerification ==
    ASSUME ReviewInv, VerificationInv, NEW s \in Slots, NEW u \in Users, CreateCheck(s, u)
    PROVE  VerificationInv'
<1> DEFINE counts == [source \in Sources |-> Len(snapshots[u][source])]
           frame == [NoRequest EXCEPT !.me = u, !.asOf = counts]
<1>1. UNCHANGED <<reviews, snapshots>> /\ Kept /\ SteamReportsMinutes'
  BY UnchangedKeeps DEF CreateCheck, tables, ReviewInv, VerificationInv, SteamReportsMinutes
<1>2. \A t \in Slots \ {s} : pc'[t] = pc[t] /\ req'[t] = req[t]
  BY DEF CreateCheck, Answer, Goto, ReviewInv, TypeOK
<1>3. pc'[s] \in Creating => VerifiesInOrder(s)'
  <2>1. CASE Reviewed(u)
    <3>1. pc'[s] = "refused"
      BY <2>1 DEF CreateCheck, Answer, Goto, ReviewInv, TypeOK
    <3>2. QED
      BY <3>1 DEF Creating
  <2>2. CASE ~ Reviewed(u)
    <3>1. pc'[s] = "steam" /\ req'[s] = frame
      BY <2>2 DEF CreateCheck, Goto, ReviewInv, TypeOK
    <3>2. frame.me = u /\ frame.asOf = counts /\ frame.chosen = NoSnapshot
      BY DEF NoRequest
    <3>3. \A x \in Sources : counts[x] = Len(snapshots'[u][x]) /\ counts[x] \in Nat
      BY <1>1 DEF ReviewInv, TypeOK
    <3> HIDE DEF frame, counts
    <3>4. QED
      BY <3>1, <3>2, <3>3 DEF VerifiesInOrder
  <2>3. QED
    BY <2>1, <2>2
<1>4. QED
  BY <1>1, <1>2, <1>3, QuietStepsKeepVerification

LEMMA ReadSourceKeepsVerification ==
    ASSUME ReviewInv, VerificationInv, NEW s \in Slots,
           NEW source \in Sources, NEW next \in {"psn", "insert"},
           next = (IF source = "steam" THEN "psn" ELSE "insert"),
           ReadSource(s, source, next)
    PROVE  VerificationInv'
<1> DEFINE n == Len(snapshots[req[s].me][source])
           chosen == [source |-> source, number |-> n]
           frame == [req[s] EXCEPT !.chosen = chosen]
<1>1. UNCHANGED <<reviews, snapshots>> /\ Kept /\ SteamReportsMinutes'
  BY UnchangedKeeps DEF ReadSource, tables, ReviewInv, VerificationInv, SteamReportsMinutes
<1>2. \A t \in Slots \ {s} : pc'[t] = pc[t] /\ req'[t] = req[t]
  BY DEF ReadSource, Goto, ReviewInv, TypeOK
<1>3. pc[s] = source /\ pc[s] \in Creating /\ pc[s] \in Busy /\ source \in {"steam", "psn"}
  BY PcNames DEF ReadSource, Creating, Sources
<1>4. VerifiesInOrder(s) /\ req[s] \in Request /\ req[s].me \in Users
  BY <1>3 DEF VerificationInv, VerifyingInOrder, ReviewInv, TypeOK, ServedUsers
<1>5. /\ \A x \in Sources : req[s].asOf[x] \in Nat
                            /\ req[s].asOf[x] <= Len(snapshots[req[s].me][x])
      /\ req[s].chosen = NoSnapshot
      /\ source = "psn" => req[s].asOf["steam"] = 0
      /\ n \in Nat
  BY <1>3, <1>4 DEF VerifiesInOrder, Request, ReviewInv, TypeOK
<1>6. CASE n > 0
  <2>1. pc'[s] = "insert" /\ req'[s] = frame
    BY <1>6 DEF ReadSource, Goto, ReviewInv, TypeOK
  <2>2. frame.me = req[s].me /\ frame.asOf = req[s].asOf /\ frame.chosen = chosen
    BY <1>4 DEF Request
  <2>3. chosen.source = source /\ chosen.number = n /\ source # "none"
    BY <1>3
  <2>4. \A x \in Sources : req[s].asOf[x] <= Len(snapshots'[req[s].me][x])
    BY <1>1, <1>5
  <2>5. n \in 1 .. Len(snapshots'[req[s].me][source]) /\ n >= req[s].asOf[source]
    BY <1>1, <1>5, <1>6
  <2> HIDE DEF frame, chosen, n
  <2>6. VerifiesInOrder(s)'
    BY <1>5, <2>1, <2>2, <2>3, <2>4, <2>5 DEF VerifiesInOrder
  <2>7. QED
    BY <1>1, <1>2, <2>6, QuietStepsKeepVerification
<1>7. CASE ~ (n > 0)
  <2>1. pc'[s] = next /\ req'[s] = req[s]
    BY <1>7 DEF ReadSource, Goto, ReviewInv, TypeOK
  <2>2. n = 0
    BY <1>5, <1>7
  <2>3. source = "steam" => req[s].asOf["steam"] = 0
    BY <1>5, <2>2
  <2>4. req[s].asOf["steam"] = 0
    BY <1>3, <1>5, <2>3
  <2>5. \A x \in Sources : req[s].asOf[x] <= Len(snapshots'[req[s].me][x])
    BY <1>1, <1>5
  <2> HIDE DEF n
  <2>6. VerifiesInOrder(s)'
    BY <1>5, <2>1, <2>4, <2>5 DEF VerifiesInOrder, NoSnapshot
  <2>7. QED
    BY <1>1, <1>2, <2>6, QuietStepsKeepVerification
<1>8. QED
  BY <1>6, <1>7

LEMMA CreateInsertKeepsVerification ==
    ASSUME ReviewInv, VerificationInv, NEW s \in Slots, CreateInsert(s)
    PROVE  VerificationInv'
<1>1. pc[s] = "insert" /\ snapshots' = snapshots /\ Kept /\ SteamReportsMinutes'
  BY UnchangedKeeps DEF CreateInsert, ReviewInv, VerificationInv, SteamReportsMinutes
<1>2. \A t \in Slots : pc'[t] \in Creating => pc'[t] = pc[t] /\ req'[t] = req[t]
  BY DEF CreateInsert, Conflict, Insert, Goto, Creating, ReviewInv, TypeOK
<1>3. CASE Reviewed(req[s].me)
  <2>1. reviews' = reviews
    BY <1>3 DEF CreateInsert, Conflict
  <2>2. QED
    BY <1>1, <1>2, <2>1, QuietStepsKeepVerification
<1>4. CASE ~ Reviewed(req[s].me)
  <2> DEFINE row == [id |-> nextId, user |-> req[s].me, body |-> "posted",
                     verified |-> VerifiedFrom(s), asOf |-> req[s].asOf]
  <2>1. reviews' = reviews \cup {row}
    BY <1>4 DEF CreateInsert, Insert
  <2>2. TypeOK /\ req[s] \in Request /\ req[s].me \in Users /\ nextId \in Nat
    BY <1>1, PcNames DEF ReviewInv, TypeOK, ServedUsers, Creating
  <2>3. row \in Review
    BY <2>2, VerifiedTypes DEF Review, Request
  <2>4. FreshlyVerified(row)
    <3>1. row.user = req[s].me /\ row.verified = VerifiedFrom(s) /\ row.asOf = req[s].asOf
      OBVIOUS
    <3> HIDE DEF row
    <3>2. QED
      BY <1>1, <2>3, <3>1, NewRowIsVerified
  <2> HIDE DEF row
  <2>5. \A q \in reviews' : FreshlyVerified(q) /\ q \in Review
    BY <2>1, <2>3, <2>4 DEF VerificationInv, VerifiedByOneFreshSnapshot, ReviewInv, TypeOK
  <2>6. VerifiedByOneFreshSnapshot'
    <3>1. ASSUME NEW q \in reviews' PROVE FreshlyVerified(q)'
      BY <1>1, <2>2, <2>5, KeptRowsStayVerified
    <3>2. QED
      BY <3>1 DEF VerifiedByOneFreshSnapshot
  <2>7. VerifyingInOrder'
    <3>1. ASSUME NEW t \in Slots, pc'[t] \in Creating PROVE VerifiesInOrder(t)'
      <4>1. pc'[t] = pc[t] /\ req'[t] = req[t]
        BY <1>2, <3>1
      <4>2. VerifiesInOrder(t)
        BY <3>1, <4>1 DEF VerificationInv, VerifyingInOrder
      <4>3. QED
        BY <1>1, <3>1, <4>1, <4>2, KeptCreatesStayInOrder
    <3>2. QED
      BY <3>1 DEF VerifyingInOrder
  <2>8. QED
    BY <1>1, <2>6, <2>7 DEF VerificationInv
<1>5. QED
  BY <1>3, <1>4

LEMMA NextKeepsVerification ==
    ASSUME ReviewInv, VerificationInv, [Next]_vars
    PROVE  VerificationInv'
<1>1. ASSUME NEW s \in Slots, NEW u \in Users, CreateCheck(s, u) PROVE VerificationInv'
  BY <1>1, CreateCheckKeepsVerification
<1>2. ASSUME NEW s \in Slots, ReadSteam(s) \/ ReadPsn(s) PROVE VerificationInv'
  BY <1>2, ReadSourceKeepsVerification DEF ReadSteam, ReadPsn, Sources
<1>3. ASSUME NEW s \in Slots, CreateInsert(s) PROVE VerificationInv'
  BY <1>3, CreateInsertKeepsVerification
<1>4. ASSUME NEW s \in Slots, EditUpdate(s) PROVE VerificationInv'
  <2>1. Kept /\ SteamReportsMinutes'
    BY <1>4, UnchangedKeeps DEF EditUpdate, ReviewInv, VerificationInv, SteamReportsMinutes
  <2>2. \A t \in Slots : pc'[t] \in Creating => pc'[t] = pc[t] /\ req'[t] = req[t]
    BY <1>4 DEF EditUpdate, Answer, Goto, Creating, ReviewInv, TypeOK
  <2>3. \A q \in reviews' : \E r \in reviews :
            q.user = r.user /\ q.verified = r.verified /\ q.asOf = r.asOf
    BY <1>4, EditUpdateRows
  <2>4. QED
    BY <2>1, <2>2, <2>3, QuietStepsKeepVerification
<1>5. ASSUME NEW u \in Users, NEW source \in Sources, NEW held \in Contents,
             AppendSnapshot(u, source, held)
      PROVE  VerificationInv'
  <2>1. Kept /\ SteamReportsMinutes'
    BY <1>5, AppendKeeps, AppendReportsMinutes DEF ReviewInv, VerificationInv
  <2>2. UNCHANGED <<reviews, pc, req>>
    BY <1>5 DEF AppendSnapshot, tables
  <2>3. QED
    BY <2>1, <2>2, QuietStepsKeepVerification
<1>6. ASSUME reviews' \subseteq reviews, snapshots' = snapshots,
             \A t \in Slots : pc'[t] \in Creating => pc'[t] = pc[t] /\ req'[t] = req[t]
      PROVE  VerificationInv'
  <2>1. Kept /\ SteamReportsMinutes'
    BY <1>6, UnchangedKeeps DEF ReviewInv, VerificationInv, SteamReportsMinutes
  <2>2. QED
    BY <1>6, <2>1, QuietStepsKeepVerification
<1>7. ASSUME NEW s \in Slots, NEW u \in Users, NEW i \in 1 .. MaxReviews,
             EditSelect(s, u, i) \/ DeleteSelect(s, u, i) \/ CommentCheck(s, u, i)
      PROVE  VerificationInv'
  BY <1>6, <1>7 DEF EditSelect, DeleteSelect, SelectOwn, CommentCheck, Proceed, Answer, Goto,
     Creating, ReviewInv, TypeOK, tables
<1>8. ASSUME NEW s \in Slots, CreateConflict(s) \/ Refresh(s) \/ CommentReload(s) \/ DeleteRows(s)
      PROVE  VerificationInv'
  BY <1>6, <1>8 DEF CreateConflict, Refresh, CommentReload, DeleteRows, Answer, Goto,
     Creating, ReviewInv, TypeOK, tables
<1>9. ASSUME NEW s \in Slots, CommentInsert(s) PROVE VerificationInv'
  BY <1>6, <1>9 DEF CommentInsert, Answer, Goto, Creating, ReviewInv, TypeOK
<1>10. CASE UNCHANGED vars
  BY <1>6, <1>10 DEF vars
<1>11. QED
  BY <1>1, <1>2, <1>3, <1>4, <1>5, <1>7, <1>8, <1>9, <1>10 DEF Next, Step

(* A posted review is verified by one snapshot of one source, never a      *)
(* blend, never one older than what there was when the request came in,    *)
(* and by PlayStation only when Steam had nothing.                         *)
THEOREM ReviewsAreVerifiedFresh == Spec => []VerifiedByOneFreshSnapshot
<1>1. Init => VerificationInv
  <2> SUFFICES ASSUME Init PROVE VerificationInv
    OBVIOUS
  <2>1. SteamReportsMinutes
    <3>1. \A u \in Users : snapshots[u]["steam"] = <<>>
      BY DEF Init, Sources
    <3>2. QED
      BY <3>1 DEF SteamReportsMinutes
  <2>2. VerifyingInOrder /\ VerifiedByOneFreshSnapshot
    BY DEF Init, VerifyingInOrder, VerifiedByOneFreshSnapshot, Creating
  <2>3. QED
    BY <2>1, <2>2 DEF VerificationInv
<1>2. ReviewInv /\ VerificationInv /\ [Next]_vars => VerificationInv'
  BY NextKeepsVerification
<1>3. VerificationInv => VerifiedByOneFreshSnapshot
  BY DEF VerificationInv
<1>4. QED
  BY <1>1, <1>2, <1>3, ReviewInvariant, PTL DEF Spec

=============================================================================
