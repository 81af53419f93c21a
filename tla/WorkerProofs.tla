---------------------------- MODULE WorkerProofs ----------------------------
(***************************************************************************)
(* The catalog under the worker's jobs, for every number of players, games *)
(* and ids and every order of imports, Steam syncs and refreshes.          *)
(***************************************************************************)
EXTENDS Worker, PsnImportProofs

AllIds == StoreIds \cup Igdb

(* What is counted for game g is listed under ids g owns. *)
Owned(owner, row, g) == /\ \A listing \in row.titles : owner[listing[2]] = g
                        /\ \A l \in row.lists : owner[l] = g

TablesOK(tables) ==
    /\ tables \in [games : Nat, owner : [AllIds -> Nat],
                   latest : [Users -> [Games -> Row \cup {None}]],
                   proposed : SUBSET (Nat \X Igdb), fresh : SUBSET Nat]
    /\ Claims(AllIds, tables.owner)

(* What the running job sees beyond what is committed. *)
Extends(base, tables) ==
    /\ tables.latest = base.latest
    /\ tables.proposed = base.proposed
    /\ Keeps(base.owner, tables.owner)

(* The snapshots to save are of what their games own in the end, and there *)
(* are none but while an import saves.                                     *)
RunOK(job, tables) ==
    job # None =>
        /\ job = [job |-> job.job, at |-> job.at, rows |-> job.rows]
        /\ RowsOwned(job.rows, tables.owner)
        /\ job.at # "save" => DOMAIN job.rows = {}

Counted(tables) ==
    \A u \in Users : \A g \in Games :
        tables.latest[u][g] # None => Owned(tables.owner, tables.latest[u][g], g)

MatchesKept(matches, tables) ==
    /\ matches \subseteq (Nat \ {0}) \X Igdb
    /\ \A m \in matches : tables.owner[m[2]] = m[1] \/ m \in tables.proposed

WorkerInv ==
    /\ TablesOK(db)
    /\ TablesOK(session)
    /\ Extends(db, session)
    /\ RunOK(run, session)
    /\ Counted(db)
    /\ MatchesKept(matched, db)

(* What every step does: it preserves the invariant and moves no id. *)
Fine == WorkerInv' /\ Keeps(db.owner, db'.owner)

-----------------------------------------------------------------------------
(* Tables *)

LEMMA ExtendsItself ==
    ASSUME NEW tables
    PROVE  Extends(tables, tables)
  BY DEF Extends, Keeps

(* Ids of games do not lose what was counted when other ids are claimed. *)
LEMMA CountedStays ==
    ASSUME NEW before, NEW after, TablesOK(before), TablesOK(after), Counted(before),
           after.latest = before.latest, Keeps(before.owner, after.owner)
    PROVE  Counted(after)
<1> SUFFICES ASSUME NEW u \in Users, NEW g \in Games, after.latest[u][g] # None
             PROVE  Owned(after.owner, after.latest[u][g], g)
  BY DEF Counted
<1> DEFINE row == before.latest[u][g]
<1>1. row \in Row /\ Owned(before.owner, row, g) /\ after.latest[u][g] = row
  BY DEF Counted, TablesOK
<1>2. g # 0
  BY WorkerAssumption DEF Games
<1>3. /\ \A listing \in row.titles : listing[2] \in AllIds
      /\ row.lists \subseteq AllIds
  BY <1>1 DEF Row, AllIds, StoreIds, PsnIds
<1>4. before.owner \in [AllIds -> Nat]
  BY DEF TablesOK
<1> HIDE DEF row
<1>5. QED
  BY <1>1, <1>2, <1>3, <1>4 DEF Owned, Keeps

LEMMA MatchesStay ==
    ASSUME NEW before, NEW after, TablesOK(before), NEW matches, MatchesKept(matches, before),
           before.proposed \subseteq after.proposed, Keeps(before.owner, after.owner)
    PROVE  MatchesKept(matches, after)
<1>1. before.owner \in [AllIds -> Nat]
  BY DEF TablesOK
<1>2. \A m \in matches : m[2] \in AllIds /\ m[1] # 0
  BY DEF MatchesKept, AllIds
<1>3. QED
  BY <1>1, <1>2 DEF MatchesKept, Keeps

(* A step that commits tables, and has no snapshots left to save. *)
LEMMA CommitIsFine ==
    ASSUME WorkerInv, NEW tables, TablesOK(tables), Counted(tables), MatchesKept(matched', tables),
           Keeps(db.owner, tables.owner), Commit(tables), RunOK(run', tables)
    PROVE  Fine
<1>1. db' = tables /\ session' = tables
  BY DEF Commit
<1>2. Extends(tables, tables)
  BY ExtendsItself
<1>3. TablesOK(db') /\ TablesOK(session') /\ Extends(db', session')
  BY <1>1, <1>2
<1>4. RunOK(run', session') /\ Counted(db') /\ MatchesKept(matched', db')
  BY <1>1
<1>5. Keeps(db.owner, db'.owner)
  BY <1>1
<1>6. QED
  BY <1>3, <1>4, <1>5 DEF Fine, WorkerInv

(* A step that commits nothing. *)
LEMMA NoCommitIsFine ==
    ASSUME WorkerInv, db' = db, matched' = matched,
           TablesOK(session'), Extends(db, session'), RunOK(run', session')
    PROVE  Fine
  BY DEF Fine, WorkerInv, Keeps
-----------------------------------------------------------------------------
(* The actions *)

(* Rolling back forgets what was not committed. *)
LEMMA StopsIsFine ==
    ASSUME WorkerInv, Stops
    PROVE  Fine
<1>1. db' = db /\ matched' = matched /\ session' = db /\ run' = None
  BY DEF Stops
<1>2. Extends(db, db)
  BY ExtendsItself
<1>3. TablesOK(session') /\ Extends(db, session')
  BY <1>1, <1>2 DEF WorkerInv
<1>4. RunOK(run', session')
  BY <1>1 DEF RunOK
<1>5. QED
  BY <1>1, <1>3, <1>4, NoCommitIsFine

(* New Steam games take Steam ids and leave everything else alone.         *)
LEMMA SyncSteamIsFine ==
    ASSUME WorkerInv, NEW apps \in SUBSET Apps, SyncSteam(apps)
    PROVE  Fine
<1> DEFINE new == {a \in apps : db.owner[a] = 0}
           number == Numbering(new, db.games)
           after == [db EXCEPT !.games = @ + Cardinality(new), !.owner = Attach(@, number)]
<1>1. TablesOK(db) /\ db.games \in Nat /\ db.owner \in [AllIds -> Nat] /\ Claims(AllIds, db.owner)
  BY DEF WorkerInv, TablesOK
<1>2. /\ Commit(after)
      /\ run' = [job |-> SteamJob, at |-> "queue", rows |-> <<>>]
      /\ matched' = matched
  BY DEF SyncSteam
<1>3. IsFiniteSet(new) /\ new \in SUBSET Apps
  BY WorkerAssumption, FS_Subset
<1>4. Cardinality(new) \in Nat /\ number \in [new -> db.games + 1 .. db.games + Cardinality(new)]
  BY <1>1, <1>3, NumberingTypes
<1>5. number \in [new -> Nat]
  BY <1>1, <1>4
<1>6. new \in SUBSET AllIds
  BY <1>3 DEF AllIds, StoreIds
<1> HIDE DEF new, number
<1>7. /\ Attach(db.owner, number) \in [AllIds -> Nat]
      /\ Keeps(db.owner, Attach(db.owner, number))
      /\ \A id \in AllIds : Attach(db.owner, number)[id] =
            IF id \in new /\ db.owner[id] = 0 THEN number[id] ELSE db.owner[id]
  BY <1>1, <1>5, <1>6, AttachKeeps
<1>9. Claims(AllIds, Attach(db.owner, number))
  BY <1>1, <1>7 DEF Claims
<1>10. /\ after.owner = Attach(db.owner, number)
       /\ after.latest = db.latest
       /\ after.proposed = db.proposed
  BY <1>1 DEF TablesOK
<1>11. TablesOK(after)
  <2> DEFINE attached == Attach(db.owner, number)
  <2>1. attached \in [AllIds -> Nat] /\ db.games + Cardinality(new) \in Nat
    BY <1>1, <1>4, <1>7
  <2>2. Claims(AllIds, attached) /\ after.owner = attached
    BY <1>9, <1>10
  <2> HIDE DEF attached
  <2>3. after = [db EXCEPT !.games = db.games + Cardinality(new), !.owner = attached]
    BY DEF attached
  <2>4. QED
    BY <1>1, <2>1, <2>2, <2>3 DEF TablesOK
<1> HIDE DEF after
<1>12. Counted(after) /\ MatchesKept(matched', after)
  BY <1>1, <1>2, <1>7, <1>10, <1>11, CountedStays, MatchesStay DEF WorkerInv
<1>13. RunOK(run', after)
  BY <1>2 DEF RunOK, RowsOwned
<1>14. QED
  BY <1>2, <1>7, <1>10, <1>11, <1>12, <1>13, CommitIsFine

(* An import that is not committed yet extends what is.                    *)
LEMMA ImportIsFine ==
    ASSUME WorkerInv, NEW u \in Users, NEW under \in Groupings, NEW played \in Plays[u],
           NEW lists \in Earns[u], ImportPsn(u, under, played, lists)
    PROVE  Fine
<1> DEFINE first == AfterPlayed(db.games, db.owner, under, played)
           asked == Asked(first, lists)
<1>0. PICK named \in Answers(asked) :
        LET import == Import(db.games, db.owner, under, played, lists, named)
        IN  /\ session' = [session EXCEPT !.games = import.games, !.owner = import.owner]
            /\ run' = [run EXCEPT !.at = "save", !.rows = import.rows]
  BY DEF ImportPsn
<1> DEFINE import == Import(db.games, db.owner, under, played, lists, named)
<1>1. /\ TablesOK(db) /\ TablesOK(session)
      /\ db.games \in Nat /\ Claims(AllIds, db.owner)
      /\ Extends(db, session) /\ RunOK(run, session)
  BY DEF WorkerInv, TablesOK
<1>2. /\ run # None
      /\ session' = [session EXCEPT !.games = import.games, !.owner = import.owner]
      /\ run' = [run EXCEPT !.at = "save", !.rows = import.rows]
      /\ db' = db /\ matched' = matched
  BY <1>0 DEF ImportPsn, At
<1>3. played \in SUBSET Titles /\ lists \in SUBSET Lists
  BY WorkerAssumption
<1>4. asked \in SUBSET Titles
  <2>1. DOMAIN first.of = played
    BY DEF AfterPlayed
  <2>2. QED
    BY <1>3, <2>1 DEF Asked
<1> HIDE DEF first, asked
<1>5. import = Import(db.games, db.owner, under, played, lists, named)
  OBVIOUS
<1> HIDE DEF import
<1>6. /\ import.games \in Nat
      /\ Claims(AllIds, import.owner)
      /\ Keeps(db.owner, import.owner)
      /\ RowsOwned(import.rows, import.owner)
  BY <1>0, <1>1, <1>3, <1>4, <1>5, ImportKeepsClaims
<1>7. /\ session'.games = import.games /\ session'.owner = import.owner
      /\ session'.latest = session.latest /\ session'.proposed = session.proposed
      /\ TablesOK(session')
  BY <1>1, <1>2, <1>6 DEF TablesOK, Claims
<1>8. Extends(db, session')
  BY <1>1, <1>6, <1>7 DEF Extends
<1>9. run' = [job |-> run.job, at |-> "save", rows |-> import.rows]
  BY <1>1, <1>2 DEF RunOK
<1>10. RunOK(run', session')
  BY <1>6, <1>7, <1>9 DEF RunOK
<1>11. QED
  BY <1>2, <1>7, <1>8, <1>10, NoCommitIsFine

(* A batch of snapshots is counted where the import found it, and the new  *)
(* games are committed with it.                                            *)
LEMMA SaveIsFine ==
    ASSUME WorkerInv, NEW u \in Users, run # None, NEW batch \in SUBSET DOMAIN run.rows,
           SavePsn(u, batch)
    PROVE  Fine
<1> DEFINE rows == run.rows
           left == DOMAIN rows \ batch
           mine == [g \in Games |-> IF g \in batch THEN rows[g] ELSE session.latest[u][g]]
           after == [session EXCEPT !.latest[u] = mine]
<1>1. /\ TablesOK(db) /\ TablesOK(session) /\ Extends(db, session) /\ RunOK(run, session)
      /\ Counted(db) /\ MatchesKept(matched, db)
  BY DEF WorkerInv
<1>2. session \in [games : Nat, owner : [AllIds -> Nat],
                   latest : [Users -> [Games -> Row \cup {None}]],
                   proposed : SUBSET (Nat \X Igdb), fresh : SUBSET Nat]
  BY <1>1 DEF TablesOK
<1>3. /\ Commit(after)
      /\ matched' = matched
      /\ run' = [run EXCEPT !.rows = [g \in left |-> rows[g]],
                            !.at = IF left = {} THEN "queue" ELSE "save"]
  BY DEF SavePsn
<1>4. \A g \in DOMAIN rows : rows[g] \in Row /\ Owned(session.owner, rows[g], g)
  BY <1>1 DEF RunOK, RowsOwned, Row, Owned
<1>5. mine \in [Games -> Row \cup {None}]
  BY <1>2, <1>4
<1>6. /\ after.owner = session.owner /\ after.proposed = session.proposed
      /\ after.latest = [session.latest EXCEPT ![u] = mine]
      /\ TablesOK(after)
  BY <1>1, <1>2, <1>5 DEF TablesOK
<1>7. Counted(session)
  BY <1>1, CountedStays DEF Extends
<1>8. Counted(after)
  <2> SUFFICES ASSUME NEW v \in Users, NEW g \in Games, after.latest[v][g] # None
               PROVE  Owned(after.owner, after.latest[v][g], g)
    BY DEF Counted
  <2>1. CASE v = u /\ g \in batch
    <3>1. after.latest[v][g] = rows[g]
      BY <1>2, <1>6, <2>1
    <3>2. QED
      BY <1>4, <1>6, <2>1, <3>1
  <2>2. CASE ~(v = u /\ g \in batch)
    <3>1. after.latest[v][g] = session.latest[v][g]
      BY <1>2, <1>6, <2>2
    <3>2. QED
      BY <1>6, <1>7, <3>1 DEF Counted
  <2>3. QED
    BY <2>1, <2>2
<1>9. run' = [job |-> run.job, at |-> IF left = {} THEN "queue" ELSE "save",
              rows |-> [g \in left |-> rows[g]]]
  BY <1>1, <1>3 DEF RunOK
<1>10. RunOK(run', after)
  BY <1>4, <1>6, <1>9 DEF RunOK, RowsOwned, Row, Owned
<1> HIDE DEF rows, left, mine, after
<1>11. MatchesKept(matched', after) /\ Keeps(db.owner, after.owner)
  <2>1. Keeps(db.owner, after.owner) /\ db.proposed \subseteq after.proposed
    BY <1>1, <1>6 DEF Extends
  <2>2. QED
    BY <1>1, <1>3, <2>1, MatchesStay
<1>12. QED
  BY <1>3, <1>6, <1>8, <1>10, <1>11, CommitIsFine
(* A mapping gives IGDB ids that have no game, and keeps every match.      *)
LEMMA MapStoreIsFine ==
    ASSUME WorkerInv, NEW store, store # "save", NEW next, NEW found \in SUBSET Matches(store),
           MapStore(store, next, found)
    PROVE  Fine
<1> DEFINE gets == {m \in found : /\ db.owner[m[2]] = 0
                                  /\ \A other \in found : other[2] = m[2] => m[1] <= other[1]}
           owner == [id \in DOMAIN db.owner |->
                        IF \E m \in gets : m[2] = id
                        THEN (CHOOSE m \in gets : m[2] = id)[1] ELSE db.owner[id]]
           after == [db EXCEPT !.owner = owner, !.proposed = Propose(found \ gets)]
<1>1. /\ TablesOK(db) /\ RunOK(run, session) /\ Counted(db) /\ MatchesKept(matched, db)
      /\ db.owner \in [AllIds -> Nat] /\ Claims(AllIds, db.owner)
      /\ db.proposed \subseteq Nat \X Igdb
  BY DEF WorkerInv, TablesOK
<1>2. /\ run # None /\ run.at # "save"
      /\ Commit(after)
      /\ matched' = matched \cup found
      /\ run' = [run EXCEPT !.at = next]
  BY DEF MapStore, At, Goes
<1>3. found \subseteq (Nat \ {0}) \X Igdb
  <2> SUFFICES ASSUME NEW m \in found PROVE m \in (Nat \ {0}) \X Igdb
    OBVIOUS
  <2>1. PICK id \in Unmapped(store) : m = <<db.owner[id], IgdbOf[id]>> /\ IgdbOf[id] # None
    BY DEF Matches
  <2>2. id \in Apps \cup Concepts /\ db.owner[id] # 0
    BY <2>1 DEF Unmapped, IdsOf
  <2>3. IgdbOf[id] \in Igdb
    BY <2>1, <2>2, WorkerAssumption
  <2>4. db.owner[id] \in Nat
    BY <1>1, <2>2 DEF AllIds, StoreIds, PsnIds
  <2>5. QED
    BY <2>1, <2>2, <2>3, <2>4
<1>4. \A m \in gets : m \in found /\ m[1] \in Nat \ {0} /\ m[2] \in Igdb /\ db.owner[m[2]] = 0
  BY <1>3
<1>5. \A m \in gets : \A k \in gets : m[2] = k[2] => m[1] = k[1]
  <2> SUFFICES ASSUME NEW m \in gets, NEW k \in gets, m[2] = k[2] PROVE m[1] = k[1]
    OBVIOUS
  <2>1. m[1] <= k[1] /\ k[1] <= m[1]
    OBVIOUS
  <2>2. QED
    BY <1>4, <2>1
<1>6. owner = [id \in AllIds |-> IF \E m \in gets : m[2] = id
                                 THEN (CHOOSE m \in gets : m[2] = id)[1] ELSE db.owner[id]]
  BY <1>1
<1>7. Propose(found \ gets) = db.proposed \cup (found \ gets)
  BY DEF Propose
<1> HIDE DEF gets
<1>8. \A m \in gets : owner[m[2]] = m[1]
  <2> TAKE m \in gets
  <2>1. m[2] \in AllIds
    BY <1>4 DEF AllIds
  <2>2. owner[m[2]] = (CHOOSE k \in gets : k[2] = m[2])[1]
    BY <1>6, <2>1
  <2>3. QED
    BY <1>5, <2>2
<1>9. \A id \in AllIds : (\A m \in gets : m[2] # id) => owner[id] = db.owner[id]
  BY <1>6
<1>10. owner \in [AllIds -> Nat]
  <2> SUFFICES ASSUME NEW id \in AllIds PROVE owner[id] \in Nat
    BY <1>6
  <2>1. CASE \E m \in gets : m[2] = id
    BY <1>4, <1>8, <2>1
  <2>2. CASE ~\E m \in gets : m[2] = id
    BY <1>1, <1>9, <2>2
  <2>3. QED
    BY <2>1, <2>2
<1> HIDE DEF owner
<1>11. Keeps(db.owner, owner)
  BY <1>1, <1>4, <1>9 DEF Keeps
<1>12. Claims(AllIds, owner)
  BY <1>1, <1>10 DEF Claims
<1>13. /\ after.owner = owner /\ after.latest = db.latest
       /\ after.proposed = db.proposed \cup (found \ gets)
       /\ TablesOK(after)
  <2>1. after = [db EXCEPT !.owner = owner, !.proposed = db.proposed \cup (found \ gets)]
    BY <1>7
  <2>2. db.proposed \cup (found \ gets) \in SUBSET (Nat \X Igdb)
    BY <1>1, <1>3
  <2>3. QED
    BY <1>1, <1>10, <1>12, <2>1, <2>2 DEF TablesOK
<1> HIDE DEF after
<1>14. Counted(after)
  BY <1>1, <1>11, <1>13, CountedStays
<1>15. MatchesKept(matched', after)
  <2>1. MatchesKept(matched, after)
    <3>1. db.proposed \subseteq after.proposed /\ Keeps(db.owner, after.owner)
      BY <1>11, <1>13
    <3>2. QED
      BY <1>1, <3>1, MatchesStay
  <2>2. \A m \in found : after.owner[m[2]] = m[1] \/ m \in after.proposed
    BY <1>8, <1>13
  <2>3. QED
    BY <1>2, <1>3, <2>1, <2>2 DEF MatchesKept
<1>16. RunOK(run', after)
  <2>1. run' = [job |-> run.job, at |-> next, rows |-> run.rows]
    BY <1>1, <1>2 DEF RunOK
  <2>2. DOMAIN run.rows = {}
    BY <1>1, <1>2 DEF RunOK
  <2>3. QED
    BY <2>1, <2>2 DEF RunOK, RowsOwned
<1>17. QED
  BY <1>2, <1>11, <1>13, <1>14, <1>15, <1>16, CommitIsFine
LEMMA RefreshIsFine ==
    ASSUME WorkerInv, NEW answered \in SUBSET Igdb, RefreshMetadata(answered)
    PROVE  Fine
<1> DEFINE more == UNION {Stale(i) : i \in answered}
           after == [db EXCEPT !.fresh = @ \cup more]
<1>1. TablesOK(db) /\ Counted(db) /\ MatchesKept(matched, db)
  BY DEF WorkerInv
<1>2. Commit(after) /\ run' = None /\ matched' = matched
  BY DEF RefreshMetadata
<1>3. more \subseteq Nat
  <2>1. 1 .. db.games \subseteq Nat
    BY <1>1 DEF TablesOK
  <2>2. \A i \in answered : Stale(i) \subseteq 1 .. db.games
    BY DEF Stale
  <2>3. QED
    BY <2>1, <2>2
<1> HIDE DEF more
<1>4. /\ TablesOK(after)
      /\ after.owner = db.owner /\ after.latest = db.latest /\ after.proposed = db.proposed
  BY <1>1, <1>3 DEF TablesOK
<1> HIDE DEF after
<1>5. Keeps(db.owner, after.owner)
  BY <1>4 DEF Keeps
<1>6. Counted(after) /\ MatchesKept(matched', after)
  BY <1>1, <1>2, <1>4, <1>5, CountedStays, MatchesStay
<1>7. RunOK(run', after)
  BY <1>2 DEF RunOK
<1>8. QED
  BY <1>2, <1>4, <1>5, <1>6, <1>7, CommitIsFine

(* What only moves the queue or the running job on. *)
LEMMA QueueingIsFine ==
    ASSUME WorkerInv, UNCHANGED <<db, session, matched>>,
           \/ run' = run
           \/ run' = None
           \/ run'.rows = <<>> /\ run' = [job |-> run'.job, at |-> run'.at, rows |-> run'.rows]
    PROVE  Fine
<1>1. TablesOK(session') /\ Extends(db, session') /\ RunOK(run, session')
  BY DEF WorkerInv
<1>2. RunOK(run', session')
  BY <1>1 DEF RunOK, RowsOwned
<1>3. QED
  BY <1>1, <1>2, NoCommitIsFine

LEMMA StepIsFine ==
    ASSUME WorkerInv, [Next]_vars
    PROVE  Fine
<1>1. CASE UNCHANGED vars
  BY <1>1, QueueingIsFine DEF vars
<1>2. ASSUME NEW job \in Jobs, RequestSync(job) \/ Start(job) \/ Abandon(job) \/ Forget(job)
      PROVE  Fine
  <2>1. UNCHANGED <<db, session, matched>>
    BY <1>2 DEF RequestSync, Start, Abandon, Forget
  <2>2. CASE RequestSync(job) \/ Abandon(job) \/ Forget(job)
    BY <2>1, <2>2, QueueingIsFine DEF RequestSync, Abandon, Forget
  <2>3. CASE Start(job)
    BY <2>1, <2>3, QueueingIsFine DEF Start
  <2>4. QED
    BY <1>2, <2>2, <2>3
<1>3. ASSUME NEW apps \in SUBSET Apps, SyncSteam(apps)
      PROVE  Fine
  BY <1>3, SyncSteamIsFine
<1>4. CASE PsnFails \/ IgdbFails \/ SteamFails \/ Defer \/ Die
  BY <1>4, StopsIsFine DEF PsnFails, IgdbFails, SteamFails, Fails, Defer, Die
<1>5. ASSUME NEW u \in Users, Importing(u)
      PROVE  Fine
  <2>1. PICK under \in Groupings, played \in Plays[u], lists \in Earns[u] :
            ImportPsn(u, under, played, lists) \/ BreakKey(u, under, played, lists)
    BY <1>5 DEF Importing
  <2>2. CASE ImportPsn(u, under, played, lists)
    BY <2>2, ImportIsFine
  <2>3. CASE BreakKey(u, under, played, lists)
    BY <2>3, QueueingIsFine DEF BreakKey
  <2>4. QED
    BY <2>1, <2>2, <2>3
<1>6. ASSUME NEW u \in Users, At(PsnJob(u), "save"),
             NEW batch \in SUBSET DOMAIN run.rows, SavePsn(u, batch)
      PROVE  Fine
  BY <1>6, SaveIsFine DEF At
<1>7. ASSUME NEW heard \in BOOLEAN, QueueRefresh(heard)
      PROVE  Fine
  BY <1>7, QueueingIsFine DEF QueueRefresh
<1>8. CASE Mapping
  BY <1>8, MapStoreIsFine DEF Mapping
<1>9. ASSUME NEW answered \in SUBSET Igdb, RefreshMetadata(answered)
      PROVE  Fine
  BY <1>9, RefreshIsFine
<1>10. QED
  BY <1>1, <1>2, <1>3, <1>4, <1>5, <1>6, <1>7, <1>8, <1>9 DEF Next, Work

-----------------------------------------------------------------------------
(* Theorems *)

LEMMA WorkerInvHolds == Spec => []WorkerInv
<1>1. Init => WorkerInv
  <2> SUFFICES ASSUME Init PROVE WorkerInv
    OBVIOUS
  <2>1. /\ db = [games |-> 0, owner |-> [id \in AllIds |-> 0],
                 latest |-> [u \in Users |-> [g \in Games |-> None]],
                 proposed |-> {}, fresh |-> {}]
        /\ session = db /\ run = None /\ matched = {}
    BY DEF Init, AllIds
  <2>2. Claims(AllIds, db.owner)
    BY <2>1 DEF Claims, AllIds, StoreIds
  <2>3. TablesOK(db)
    BY <2>1, <2>2 DEF TablesOK
  <2>4. Counted(db)
    BY <2>1 DEF Counted
  <2>5. Extends(db, session)
    BY <2>1, ExtendsItself
  <2>6. RunOK(run, session) /\ MatchesKept(matched, db)
    BY <2>1 DEF RunOK, MatchesKept
  <2>7. QED
    BY <2>1, <2>3, <2>4, <2>5, <2>6 DEF WorkerInv
<1>2. WorkerInv /\ [Next]_vars => WorkerInv'
  BY StepIsFine DEF Fine
<1>3. QED
  BY <1>1, <1>2, PTL DEF Spec

(* A store id or an IGDB id never moves to another game. *)
THEOREM ClaimsAreKept == Spec => FirstClaimKeeps
<1>1. WorkerInv /\ [Next]_vars =>
        [\A id \in StoreIds \cup Igdb : db.owner[id] # 0 => db'.owner[id] = db.owner[id]]_vars
  <2> SUFFICES ASSUME WorkerInv, [Next]_vars, NEW id \in StoreIds \cup Igdb, db.owner[id] # 0
               PROVE  db'.owner[id] = db.owner[id]
    OBVIOUS
  <2>1. Keeps(db.owner, db'.owner)
    BY StepIsFine DEF Fine
  <2>2. DOMAIN db.owner = StoreIds \cup Igdb
    BY DEF WorkerInv, TablesOK, AllIds
  <2>3. QED
    BY <2>1, <2>2 DEF Keeps
<1>2. QED
  BY <1>1, WorkerInvHolds, PTL DEF Spec, FirstClaimKeeps

(* No trophy list, and no title listed as before, is ever counted twice in *)
(* a library.                                                              *)
THEOREM NothingCountsTwice == Spec => []LatestCountsOnce
<1>1. WorkerInv => LatestCountsOnce
  <2> SUFFICES ASSUME WorkerInv, NEW u \in Users, NEW g \in Library(u), NEW h \in Library(u), g # h
               PROVE  /\ db.latest[u][g].titles \cap db.latest[u][h].titles = {}
                      /\ db.latest[u][g].lists \cap db.latest[u][h].lists = {}
    BY DEF LatestCountsOnce
  <2>1. /\ Owned(db.owner, db.latest[u][g], g)
        /\ Owned(db.owner, db.latest[u][h], h)
    BY DEF WorkerInv, Counted, Library
  <2>2. QED
    BY <2>1 DEF Owned
<1>2. QED
  BY <1>1, WorkerInvHolds, PTL

(* No match of IGDB is lost, whatever is mapped, claimed or rolled back. *)
THEOREM MatchesAreKept == Spec => []IgdbMatchesAreKept
<1>1. WorkerInv => IgdbMatchesAreKept
  BY DEF WorkerInv, MatchesKept, IgdbMatchesAreKept
<1>2. QED
  BY <1>1, WorkerInvHolds, PTL
=============================================================================
