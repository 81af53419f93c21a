---------------------------- MODULE ReviewStore ----------------------------
(***************************************************************************)
(* Reviews and comments of one game (app/routers/reviews.py) and the       *)
(* append-only play snapshots a review is verified against.  Requests run  *)
(* on worker threads; every statement they send is an action, so requests  *)
(* interleave between a check and the write that relies on it.  A write    *)
(* and its commit are one action: until the commit nobody sees the write,  *)
(* and nobody else can write the same rows (SQLite has one writer, and     *)
(* Postgres holds the row or the unique key).                              *)
(*                                                                         *)
(* RowLocks tells the two databases apart: SELECT ... FOR UPDATE locks the *)
(* review on Postgres and is a no-op on SQLite.                            *)
(***************************************************************************)
EXTENDS Naturals, Sequences, FiniteSets

CONSTANTS Slots,        \* worker threads of the API, one request each
          Users,
          Nobody,       \* the user of a slot that serves no request
          RowLocks,     \* TRUE on Postgres, FALSE on SQLite
          MaxReviews,   \* bound on the review ids handed out
          MaxComments,  \* bound on the comments posted
          MaxSnapshots  \* bound on the snapshots of one user and source

ASSUME ReviewAssumption ==
    /\ Nobody \notin Users
    /\ RowLocks \in BOOLEAN
    /\ MaxReviews \in Nat
    /\ MaxComments \in Nat
    /\ MaxSnapshots \in Nat

VARIABLES
    reviews,      \* committed review rows
    comments,     \* committed comment rows
    nextId,       \* the review id sequence (AUTOINCREMENT: never goes back)
    nextComment,  \* the comment id sequence
    snapshots,    \* snapshots[u][source]: what each snapshot holds, in order
    pc,           \* pc[s]: where the request of slot s is
    req,          \* req[s]: the locals of that request, see Request
    gone          \* history: the ids of the reviews deleted so far

tables == <<reviews, comments, nextId, nextComment>>
vars == <<reviews, comments, nextId, nextComment, snapshots, pc, req, gone>>

(* What a snapshot holds: Steam always reports minutes; PlayStation may    *)
(* hide them, and either may come without achievement or trophy counts.    *)
Sources == {"steam", "psn"}
Contents == {"both", "minutes", "counts", "neither"}
MayHold(source) == IF source = "steam" THEN {"both", "minutes"} ELSE Contents

NoSnapshot == [source |-> "none", number |-> 0]
Chosen == {NoSnapshot} \cup [source : Sources, number : Nat]

(* The verified fields of a review, each one the number of the snapshot it *)
(* was copied from (0 is NULL), and verified_source.                       *)
Verified == [source : Sources \cup {"none"}, minutes : Nat, pct : Nat]
Review == [id : Nat, user : Users, body : {"posted", "edited"},
           verified : Verified, asOf : [Sources -> Nat]]
Comment == [id : Nat, review : Nat, user : Users]

(* The locals of a request: its signed-in user, the review id it is about, *)
(* the verification snapshot it read, and (history) how many snapshots     *)
(* there were of each source when it checked.  An answer drops them.       *)
Request == [me : Users \cup {Nobody}, target : Nat, chosen : Chosen,
            asOf : [Sources -> Nat]]
NoCounts == [source \in Sources |-> 0]
NoRequest == [me |-> Nobody, target |-> 0, chosen |-> NoSnapshot, asOf |-> NoCounts]

Ended == {"idle", "ok", "refused", "error"}
Creating == {"steam", "psn", "insert"}
Holding == {"update", "delete", "comment"}
Busy == Creating \cup Holding \cup {"conflict", "refresh", "reload"}

TypeOK ==
    /\ reviews \subseteq Review
    /\ comments \subseteq Comment
    /\ nextId \in Nat
    /\ nextComment \in Nat
    /\ snapshots \in [Users -> [Sources -> Seq(Contents)]]
    /\ pc \in [Slots -> Ended \cup Busy]
    /\ req \in [Slots -> Request]
    /\ gone \subseteq Nat

Init ==
    /\ reviews = {}
    /\ comments = {}
    /\ nextId = 1
    /\ nextComment = 1
    /\ snapshots = [u \in Users |-> [source \in Sources |-> <<>>]]
    /\ pc = [s \in Slots |-> "idle"]
    /\ req = [s \in Slots |-> NoRequest]
    /\ gone = {}

Exists(i) == \E r \in reviews : r.id = i
Reviewed(u) == \E r \in reviews : r.user = u

(* Another request holds review i FOR UPDATE: SELECT ... FOR UPDATE waits. *)
Locked(i) == RowLocks /\ \E s \in Slots : pc[s] \in Holding /\ req[s].target = i

Goto(s, where) == pc' = [pc EXCEPT ![s] = where]

Answer(s, outcome) ==
    /\ Goto(s, outcome)
    /\ req' = [req EXCEPT ![s] = NoRequest]

-----------------------------------------------------------------------------
(* POST /games/{id}/reviews *)

(* The bounds leave an id for every create that has been let through. *)
RoomToCreate ==
    nextId + Cardinality({s \in Slots : pc[s] \in Creating}) <= MaxReviews

CreateCheck(s, u) ==
    /\ pc[s] \in Ended
    /\ RoomToCreate
    /\ IF Reviewed(u)
       THEN Answer(s, "refused")
       ELSE /\ Goto(s, "steam")
            /\ req' = [req EXCEPT ![s] = [NoRequest EXCEPT !.me = u,
                   !.asOf = [source \in Sources |-> Len(snapshots[u][source])]]]
    /\ UNCHANGED <<tables, snapshots, gone>>

(* One query for each source, Steam first; the newest snapshot of the      *)
(* first source that has any.                                              *)
ReadSource(s, source, next) ==
    LET n == Len(snapshots[req[s].me][source]) IN
    /\ pc[s] = source
    /\ IF n > 0
       THEN /\ req' = [req EXCEPT ![s].chosen = [source |-> source, number |-> n]]
            /\ Goto(s, "insert")
       ELSE /\ req' = req
            /\ Goto(s, next)
    /\ UNCHANGED <<tables, snapshots, gone>>

(* Bug: the oldest snapshot of the source (ascending order). *)
ReadSteamOldest(s) ==
    /\ pc[s] = "steam"
    /\ IF snapshots[req[s].me]["steam"] # <<>>
       THEN /\ req' = [req EXCEPT ![s].chosen = [source |-> "steam", number |-> 1]]
            /\ Goto(s, "insert")
       ELSE /\ req' = req
            /\ Goto(s, "psn")
    /\ UNCHANGED <<tables, snapshots, gone>>

ReadSteam(s) == ReadSource(s, "steam", "psn")
ReadPsn(s) == ReadSource(s, "psn", "insert")

(* The verified fields copied from the chosen snapshot; the source only if *)
(* the snapshot held something.                                            *)
VerifiedFrom(s) ==
    LET n == req[s].chosen.number
        source == req[s].chosen.source
        held == IF n = 0 THEN "neither" ELSE snapshots[req[s].me][source][n]
    IN [source |-> IF held = "neither" THEN "none" ELSE source,
        minutes |-> IF held \in {"both", "minutes"} THEN n ELSE 0,
        pct |-> IF held \in {"both", "counts"} THEN n ELSE 0]

(* INSERT and commit; the unique key (user, game) decides between two      *)
(* requests that both passed the check.  A failed insert still uses up a   *)
(* Postgres sequence value, but not an AUTOINCREMENT one.                  *)
Insert(s, id) ==
    /\ reviews' = reviews \cup
          {[id |-> id, user |-> req[s].me, body |-> "posted",
            verified |-> VerifiedFrom(s), asOf |-> req[s].asOf]}
    /\ req' = [req EXCEPT ![s].target = id]
    /\ Goto(s, "refresh")
    /\ nextId' = id + 1

Conflict(s) ==
    /\ Goto(s, "conflict")
    /\ nextId' = IF RowLocks THEN nextId + 1 ELSE nextId
    /\ UNCHANGED <<reviews, req>>

(* Bug: no unique key behind the check. *)
CreateInsertUnchecked(s) ==
    /\ pc[s] = "insert"
    /\ Insert(s, nextId)
    /\ UNCHANGED <<comments, nextComment, snapshots, gone>>

(* Bug: the primary key without AUTOINCREMENT, one more than the largest.  *)
CreateInsertReusing(s) ==
    /\ pc[s] = "insert"
    /\ IF Reviewed(req[s].me)
       THEN Conflict(s)
       ELSE \E i \in 1 .. nextId :
                /\ ~ Exists(i)
                /\ i = 1 \/ Exists(i - 1)
                /\ \A r \in reviews : r.id < i
                /\ Insert(s, i)
    /\ UNCHANGED <<comments, nextComment, snapshots, gone>>

CreateInsert(s) ==
    /\ pc[s] = "insert"
    /\ IF Reviewed(req[s].me) THEN Conflict(s) ELSE Insert(s, nextId)
    /\ UNCHANGED <<comments, nextComment, snapshots, gone>>

(* After IntegrityError: 409 if the review is there, else re-raise. *)
CreateConflict(s) ==
    /\ pc[s] = "conflict"
    /\ Answer(s, IF Reviewed(req[s].me) THEN "refused" ELSE "error")
    /\ UNCHANGED <<tables, snapshots, gone>>

(* db.refresh after the commit: fails if the row has gone meanwhile. *)
Refresh(s) ==
    /\ pc[s] = "refresh"
    /\ Answer(s, IF Exists(req[s].target) THEN "ok" ELSE "error")
    /\ UNCHANGED <<tables, snapshots, gone>>

-----------------------------------------------------------------------------
(* PATCH and DELETE /reviews/{id} *)

Mine(u, i) == \E r \in reviews : r.id = i /\ r.user = u

(* What a request of u about review i that found the row goes on with. *)
Proceed(s, u, i, next) ==
    /\ Goto(s, next)
    /\ req' = [req EXCEPT ![s] = [NoRequest EXCEPT !.me = u, !.target = i]]

(* Bug: a plain SELECT, which waits for nobody. *)
SelectOwnUnlocked(s, u, i, next) ==
    /\ pc[s] \in Ended
    /\ IF Mine(u, i) THEN Proceed(s, u, i, next) ELSE Answer(s, "refused")
    /\ UNCHANGED <<tables, snapshots, gone>>

(* SELECT ... FOR UPDATE by id and owner, then next; 404 if there is none. *)
SelectOwn(s, u, i, next) ==
    /\ pc[s] \in Ended
    /\ ~ Locked(i)
    /\ IF Mine(u, i) THEN Proceed(s, u, i, next) ELSE Answer(s, "refused")
    /\ UNCHANGED <<tables, snapshots, gone>>

EditSelect(s, u, i) == SelectOwn(s, u, i, "update")
DeleteSelect(s, u, i) == SelectOwn(s, u, i, "delete")

(* Bug: the edit verifies the review again, by the newest Steam snapshot. *)
EditUpdateVerifies(s) ==
    /\ pc[s] = "update"
    /\ reviews' = {IF r.id = req[s].target
                   THEN [r EXCEPT !.body = "edited",
                         !.verified.minutes = Len(snapshots[r.user]["steam"])]
                   ELSE r : r \in reviews}
    /\ IF Exists(req[s].target)
       THEN Goto(s, "refresh") /\ req' = req
       ELSE Answer(s, "error")
    /\ UNCHANGED <<comments, nextId, nextComment, snapshots, gone>>

(* UPDATE of rating and body by primary key, and commit.  No row matches   *)
(* when a delete won on SQLite: the ORM raises and the answer is a 500.    *)
EditUpdate(s) ==
    /\ pc[s] = "update"
    /\ reviews' = {IF r.id = req[s].target THEN [r EXCEPT !.body = "edited"] ELSE r : r \in reviews}
    /\ IF Exists(req[s].target)
       THEN Goto(s, "refresh") /\ req' = req
       ELSE Answer(s, "error")
    /\ UNCHANGED <<comments, nextId, nextComment, snapshots, gone>>

(* Delete the comments, then the review, in one transaction. *)
DeleteRows(s) ==
    /\ pc[s] = "delete"
    /\ comments' = {c \in comments : c.review # req[s].target}
    /\ reviews' = {r \in reviews : ~ (r.id = req[s].target /\ r.user = req[s].me)}
    /\ gone' = gone \cup {req[s].target}
    /\ Answer(s, "ok")
    /\ UNCHANGED <<nextId, nextComment, snapshots>>

-----------------------------------------------------------------------------
(* POST /reviews/{id}/comments *)

RoomToComment ==
    nextComment + Cardinality({s \in Slots : pc[s] = "comment"}) <= MaxComments

CommentCheck(s, u, i) ==
    /\ pc[s] \in Ended
    /\ ~ Locked(i)
    /\ RoomToComment
    /\ IF Exists(i) THEN Proceed(s, u, i, "comment") ELSE Answer(s, "refused")
    /\ UNCHANGED <<tables, snapshots, gone>>

(* The row the INSERT adds for request s. *)
NewComment(s) == [id |-> nextComment, review |-> req[s].target, user |-> req[s].me]

(* Bug: INSERT ... VALUES, which relies on the check. *)
CommentInsertBlind(s) ==
    /\ pc[s] = "comment"
    /\ comments' = comments \cup {NewComment(s)}
    /\ nextComment' = nextComment + 1
    /\ Goto(s, "reload")
    /\ UNCHANGED <<reviews, nextId, snapshots, req, gone>>

(* INSERT ... SELECT from reviews WHERE id = ..., and commit: no row, no   *)
(* comment, and a 404.                                                     *)
CommentInsert(s) ==
    /\ pc[s] = "comment"
    /\ IF Exists(req[s].target)
       THEN /\ comments' = comments \cup {NewComment(s)}
            /\ nextComment' = nextComment + 1
            /\ Goto(s, "reload")
            /\ req' = req
       ELSE /\ Answer(s, "refused")
            /\ UNCHANGED <<comments, nextComment>>
    /\ UNCHANGED <<reviews, nextId, snapshots, gone>>

(* db.get of the new comment: None, which the response model rejects, if   *)
(* the discussion was deleted meanwhile.                                   *)
CommentReload(s) ==
    /\ pc[s] = "reload"
    /\ Answer(s, IF Exists(req[s].target) THEN "ok" ELSE "error")
    /\ UNCHANGED <<tables, snapshots, gone>>

-----------------------------------------------------------------------------
(* A sync commits another snapshot of the game for u: always a new row. *)
AppendSnapshot(u, source, held) ==
    /\ Len(snapshots[u][source]) < MaxSnapshots
    /\ held \in MayHold(source)
    /\ snapshots' = [snapshots EXCEPT ![u][source] = Append(@, held)]
    /\ UNCHANGED <<tables, pc, req, gone>>

Step(s) ==
    \/ ReadSteam(s) \/ ReadPsn(s) \/ CreateInsert(s) \/ CreateConflict(s)
    \/ Refresh(s) \/ EditUpdate(s) \/ DeleteRows(s)
    \/ CommentInsert(s) \/ CommentReload(s)

Next ==
    \/ \E s \in Slots, u \in Users :
          \/ CreateCheck(s, u)
          \/ \E i \in 1 .. MaxReviews :
                EditSelect(s, u, i) \/ DeleteSelect(s, u, i) \/ CommentCheck(s, u, i)
    \/ \E s \in Slots : Step(s)
    \/ \E u \in Users, source \in Sources, held \in Contents :
          AppendSnapshot(u, source, held)

Spec == Init /\ [][Next]_vars

-----------------------------------------------------------------------------
(* Properties *)

(* However creates interleave with each other and with deletes, a user     *)
(* has at most one review of the game, and an id names one review.         *)
OneReviewPerUser ==
    \A q, r \in reviews : q.user = r.user \/ q.id = r.id => q = r

(* A comment never outlives its review, also on SQLite, where FOR UPDATE   *)
(* is a no-op and the delete may commit between check and insert.          *)
NoOrphanComments == \A c \in comments : Exists(c.review)

(* "Deleted discussion links must never resolve to a newly created         *)
(* review": an id that was deleted never names a review again.             *)
DeletedLinksStayDead == \A i \in gone : ~ Exists(i)

(* The verified fields all come from one snapshot of verified_source, are  *)
(* what that snapshot held, and that snapshot is at least as new as the    *)
(* newest one there was when the request checked; Steam, if it had any     *)
(* snapshot by then, is never passed over for PlayStation.                 *)
FreshlyVerified(r) ==
    LET v == r.verified
        number == IF v.minutes # 0 THEN v.minutes ELSE v.pct
        history == snapshots[r.user][v.source]
    IN  IF v.source = "none"
        THEN v.minutes = 0 /\ v.pct = 0 /\ r.asOf["steam"] = 0
        ELSE /\ number \in DOMAIN history
             /\ v.minutes = (IF history[number] \in {"both", "minutes"} THEN number ELSE 0)
             /\ v.pct = (IF history[number] \in {"both", "counts"} THEN number ELSE 0)
             /\ number >= r.asOf[v.source]
             /\ v.source = "psn" => r.asOf["steam"] = 0

VerifiedByOneFreshSnapshot == \A r \in reviews : FreshlyVerified(r)

(* "An edit cannot refresh or forge the original verified snapshot": no    *)
(* step changes who wrote a review or what it was verified by.             *)
PostedFactsAreFrozen ==
    [][\A r \in reviews, q \in reviews' : q.id = r.id =>
          q.user = r.user /\ q.verified = r.verified /\ q.asOf = r.asOf]_vars

(* On Postgres a row that was selected FOR UPDATE is still there when the  *)
(* request writes it.                                                      *)
LockedRowsStay ==
    RowLocks => \A s \in Slots : pc[s] \in Holding => Exists(req[s].target)

(* Ids come from the sequence, comments included, and a request about a    *)
(* row knows an id that was handed out.                                    *)
IdsAreIssued ==
    /\ \A r \in reviews : r.id < nextId
    /\ \A i \in gone : i < nextId
    /\ \A c \in comments : c.id < nextComment
    /\ \A s \in Slots : pc[s] \in Holding => req[s].target < nextId

(* What an edit or a delete selected is the requester's own review, or has *)
(* been deleted since.                                                     *)
SelectionsAreOwn ==
    \A s \in Slots : pc[s] \in {"update", "delete"} =>
        Mine(req[s].me, req[s].target) \/ req[s].target \in gone

(* A request being served has a user, an ended one has none. *)
ServedUsers == \A s \in Slots : pc[s] \in Busy <=> req[s].me \in Users

(* Two requests never hold the same row on Postgres. *)
OneLockHolder ==
    RowLocks => \A s, t \in Slots :
        pc[s] \in Holding /\ pc[t] \in Holding /\ req[s].target = req[t].target => s = t

(* The inductive invariant. *)
ReviewInv ==
    /\ TypeOK
    /\ OneLockHolder
    /\ ServedUsers
    /\ IdsAreIssued
    /\ SelectionsAreOwn
    /\ OneReviewPerUser
    /\ NoOrphanComments
    /\ DeletedLinksStayDead
    /\ LockedRowsStay

(* What a create knows of the snapshots while it verifies: it has passed   *)
(* over Steam only if Steam had nothing, and what it chose is there and is *)
(* no older than what there was when it checked.                           *)
VerifiesInOrder(s) ==
    LET q == req[s]
        n == q.chosen.number
        source == q.chosen.source
    IN  /\ \A x \in Sources : q.asOf[x] <= Len(snapshots[q.me][x])
        /\ pc[s] \in {"steam", "psn"} => q.chosen = NoSnapshot
        /\ pc[s] = "psn" => q.asOf["steam"] = 0
        /\ pc[s] = "insert" /\ source = "none" => n = 0 /\ q.asOf["steam"] = 0
        /\ pc[s] = "insert" /\ source # "none" =>
               /\ n \in 1 .. Len(snapshots[q.me][source])
               /\ n >= q.asOf[source]
               /\ source = "psn" => q.asOf["steam"] = 0

VerifyingInOrder == \A s \in Slots : pc[s] \in Creating => VerifiesInOrder(s)

SteamReportsMinutes ==
    \A u \in Users : \A k \in DOMAIN snapshots[u]["steam"] :
        snapshots[u]["steam"][k] \in MayHold("steam")

(* The inductive invariant behind VerifiedByOneFreshSnapshot. *)
VerificationInv ==
    /\ VerifyingInOrder
    /\ SteamReportsMinutes
    /\ VerifiedByOneFreshSnapshot

=============================================================================
