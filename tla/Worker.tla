------------------------------- MODULE Worker -------------------------------
(***************************************************************************)
(* The worker's jobs over the game catalog: PlayStation imports            *)
(* (app/worker.py, sync_psn_library), Steam syncs, of which SteamSync      *)
(* models the inside and only the new games matter here, and the IGDB      *)
(* refresh (app/igdb_catalog.py) every sync queues.  The IGDB refresh maps *)
(* the games of one store after the other, by exact store id, and then     *)
(* refreshes the metadata of what is mapped.                               *)
(***************************************************************************)
EXTENDS PsnImport, JobQueue

CONSTANTS Users,        \* the players with a PlayStation link
          Plays,        \* Plays[u]: what titles Sony may show of the account
          Earns,        \* Earns[u]: what trophy lists it may show
          Apps,         \* Steam apps
          Igdb,         \* IGDB games
          IgdbOf,       \* IgdbOf[id]: the IGDB game of an app or concept, or None
          CommitEvery,  \* COMMIT_EVERY
          MaxGames      \* bound on the games

PsnJob(u) == <<"sync-psn-user", u>>
SteamJob == <<"sync-json-user">>  \* of one player or another: not in Jobs
IgdbJob == <<"igdb-refresh">>

ASSUME WorkerAssumption ==
    /\ Plays \in [Users -> SUBSET SUBSET Titles]
    /\ Earns \in [Users -> SUBSET SUBSET Lists]
    /\ IgdbOf \in [Apps \cup Concepts -> Igdb \cup {None}]
    /\ CommitEvery \in Nat \ {0}
    /\ MaxGames \in Nat
    /\ None \notin Igdb
    /\ Jobs = {PsnJob(u) : u \in Users} \cup {IgdbJob}
    /\ IsFiniteSet(Apps)
    /\ Apps \cap PsnIds = {} /\ Igdb \cap (PsnIds \cup Apps) = {}

VARIABLES
    db,       \* what is committed, see Tables
    session,  \* db as the running job sees it
    run,      \* the locals of the running job, or None
    matched   \* history: the matches IGDB gave in a mapping that was committed

vars == <<queue, db, session, run, matched>>

StoreIds == PsnIds \cup Apps
Games == 1 .. MaxGames
Row == [titles : SUBSET (Titles \X (Titles \cup Concepts)), lists : SUBSET Lists]

(* games: how many rows there are; owner: the game of every store id and   *)
(* of every IGDB id; latest: the newest PlayStation snapshot of each user  *)
(* and game; proposed: the merge proposals; fresh: the games with metadata *)
(* of IGDB.                                                                *)
Tables == [games : 0 .. MaxGames, owner : [StoreIds \cup Igdb -> 0 .. MaxGames],
           latest : [Users -> [Games -> Row \cup {None}]],
           proposed : SUBSET (Games \X Igdb), fresh : SUBSET Games]

(* rows: the snapshots a PlayStation import has yet to save. *)
IsRun(r) ==
    /\ DOMAIN r = {"job", "at", "rows"}
    /\ r.job \in Jobs \cup {SteamJob}
    /\ r.at \in {"fetch", "save", "queue", "steam", "psn", "metadata"}
    /\ DOMAIN r.rows \subseteq Games
    /\ \A g \in DOMAIN r.rows : r.rows[g] \in Row

TypeOK ==
    /\ QueueOK
    /\ db \in Tables
    /\ session \in Tables
    /\ run # None => IsRun(run)
    /\ matched \subseteq Games \X Igdb

Init ==
    /\ QueueInit
    /\ db = [games |-> 0, owner |-> [id \in StoreIds \cup Igdb |-> 0],
             latest |-> [u \in Users |-> [g \in Games |-> None]],
             proposed |-> {}, fresh |-> {}]
    /\ session = db
    /\ run = None
    /\ matched = {}

At(job, step) == run # None /\ run.job = job /\ run.at = step
Goes(step) == run' = [run EXCEPT !.at = step]
Commit(tables) == db' = tables /\ session' = tables

-----------------------------------------------------------------------------
(* The queue *)

(* POST /me/psn/sync and a new link: enqueue_sync. *)
RequestSync(job) ==
    /\ job # IgdbJob
    /\ ~IdTaken(job)
    /\ Enqueue(job)
    /\ UNCHANGED <<db, session, run, matched>>

Start(job) ==
    /\ run = None
    /\ Take(job)
    /\ run' = [job |-> job, at |-> IF job = IgdbJob THEN "steam" ELSE "fetch", rows |-> <<>>]
    /\ UNCHANGED <<db, session, matched>>

Abandon(job) ==
    /\ run = None
    /\ TooManyTries(job)
    /\ UNCHANGED <<db, session, run, matched>>

Forget(job) ==
    /\ ResultLapses(job)
    /\ UNCHANGED <<db, session, run, matched>>

(* A run ends early, and what it has not committed is rolled back. *)
Stops ==
    /\ session' = db
    /\ run' = None
    /\ UNCHANGED <<db, matched>>

Leaves(state) ==
    IF run.job = SteamJob THEN UNCHANGED queue
    ELSE IF state = "kept" THEN Done(run.job) ELSE Again(run.job)

(* A job raises, or returns an error. *)
Fails(job) == run # None /\ run.job = job /\ Leaves("kept") /\ Stops

(* The NPSSO is rejected, the account is gone or Sony does not answer. *)
PsnFails == \E u \in Users : Fails(PsnJob(u))

(* A query of the refresh gets no usable answer: the Twitch credentials    *)
(* are rejected, IGDB stays busy after all retries, or is broken.          *)
IgdbFails == Fails(IgdbJob)

(* A Steam sync fails after its last commit. *)
SteamFails == Fails(SteamJob)

(* Sony is busy: the job comes back later. *)
Defer == run # None /\ run.at = "fetch" /\ run.job # SteamJob /\ Leaves("queued") /\ Stops

(* The worker is killed or restarted; arq starts the job once more. *)
Die == run # None /\ Leaves("queued") /\ Stops

-----------------------------------------------------------------------------
(* Syncs *)

(* Among many players there is always one whose Steam sync is next.  What  *)
(* counts here are the games it has committed in the end; when it commits  *)
(* none, nothing happens.                                                  *)
SyncSteam(apps) ==
    /\ run = None
    /\ LET new == {a \in apps : db.owner[a] = 0}
       IN  /\ db.games + Cardinality(new) <= MaxGames
           /\ Commit([db EXCEPT !.games = @ + Cardinality(new),
                                !.owner = Attach(@, Numbering(new, db.games))])
    /\ run' = [job |-> SteamJob, at |-> "queue", rows |-> <<>>]
    /\ UNCHANGED <<queue, matched>>

(* Sony lists what the player lets it show, which may be less than there   *)
(* is, and groups it as it likes: both may change from one run to the      *)
(* next.  A hidden list is read as empty, and a lookup that finds the      *)
(* trophies hidden finds nothing.                                          *)
ImportPsn(u, under, played, lists) ==
    /\ At(PsnJob(u), "fetch")
    /\ LET after == AfterPlayed(db.games, db.owner, under, played)
       IN  \E named \in Answers(Asked(after, lists)) :
              LET import == Import(db.games, db.owner, under, played, lists, named)
              IN  /\ ~Collides(after.owner, named, lists)
                  /\ import.games <= MaxGames
                  /\ session' = [session EXCEPT !.games = import.games, !.owner = import.owner]
                  /\ run' = [run EXCEPT !.at = "save", !.rows = import.rows]
    /\ UNCHANGED <<queue, db, matched>>

(* The lookup names a list that is not among the account's own and has a   *)
(* game: the unique key fails the import.                                  *)
BreakKey(u, under, played, lists) ==
    /\ At(PsnJob(u), "fetch")
    /\ LET after == AfterPlayed(db.games, db.owner, under, played)
       IN  \E named \in Answers(Asked(after, lists)) : Collides(after.owner, named, lists)
    /\ Done(run.job)
    /\ run' = None
    /\ UNCHANGED <<db, session, matched>>

(* One batch of snapshots; the first one also saves the new games.  After  *)
(* the last one only last_synced_at, the status and the caches follow,     *)
(* which are not part of this.                                             *)
SavePsn(u, batch) ==
    LET left == DOMAIN run.rows \ batch
    IN  /\ Cardinality(batch) <= CommitEvery
        /\ Cardinality(batch) = CommitEvery \/ left = {}
        /\ Commit([session EXCEPT !.latest[u] =
                      [g \in Games |-> IF g \in batch THEN run.rows[g] ELSE @[g]]])
        /\ run' = [run EXCEPT !.rows = [g \in left |-> run.rows[g]],
                              !.at = IF left = {} THEN "queue" ELSE "save"]
        /\ UNCHANGED <<queue, matched>>

(* _latest_snapshots: the games of a player's library, of which the newest *)
(* PlayStation snapshot is shown.                                          *)
Library(u) == {g \in Games : db.latest[u][g] # None}

(* queue_refresh, and the sync is over.  Nothing is queued while the id is *)
(* taken, or when Redis does not hear: the error is ignored.               *)
QueueRefresh(heard) ==
    /\ run # None
    /\ run.at = "queue"
    /\ LET after == [j \in Jobs |-> IF j = run.job THEN [is |-> "kept", tries |-> 0]
                                    ELSE queue[j]]
       IN  queue' = IF IdTaken(IgdbJob) \/ ~heard THEN after
                    ELSE [after EXCEPT ![IgdbJob] = [is |-> "queued", tries |-> 0]]
    /\ run' = None
    /\ UNCHANGED <<db, session, matched>>

-----------------------------------------------------------------------------
(* The IGDB refresh *)

Mapped(g) == \E i \in Igdb : db.owner[i] = g

(* Bug: Steam ids are looked up for either store. *)
IdsOfSteam(store) == Apps

IdsOf(store) == IF store = "steam" THEN Apps ELSE Concepts

Unmapped(store) == {s \in IdsOf(store) : db.owner[s] # 0 /\ ~Mapped(db.owner[s])}

(* external_games: what IGDB knows of them, by exact store id. *)
Matches(store) ==
    {<<db.owner[id], IgdbOf[id]>> : id \in {s \in Unmapped(store) : IgdbOf[s] # None}}

(* Bug: a game whose match is taken is left alone. *)
ProposeNothing(taken) == db.proposed

(* The owner of the site decides what becomes of it. *)
Propose(taken) == db.proposed \cup taken

(* map_store_games: the oldest game gets the IGDB id, unless it has an     *)
(* owner; the others are proposed.                                         *)
MapStore(store, next, found) ==
    LET gets == {m \in found : /\ db.owner[m[2]] = 0
                               /\ \A other \in found : other[2] = m[2] => m[1] <= other[1]}
    IN  /\ At(IgdbJob, store)
        /\ found \subseteq Matches(store)
        /\ Commit([db EXCEPT
              !.owner = [id \in DOMAIN @ |->
                            IF \E m \in gets : m[2] = id
                            THEN (CHOOSE m \in gets : m[2] = id)[1] ELSE @[id]],
              !.proposed = Propose(found \ gets)])
        /\ matched' = matched \cup found
        /\ Goes(next)
        /\ UNCHANGED queue

(* The games of IGDB game i without its metadata: the one mapped to it and *)
(* those that wait as proposals.                                           *)
Stale(i) == {g \in 1 .. db.games \ db.fresh : db.owner[i] = g \/ <<g, i>> \in db.proposed}

(* refresh_metadata, of what IGDB has an answer for. *)
RefreshMetadata(answered) ==
    /\ At(IgdbJob, "metadata")
    /\ Commit([db EXCEPT !.fresh = @ \cup UNION {Stale(i) : i \in answered}])
    /\ Done(IgdbJob)
    /\ run' = None
    /\ UNCHANGED matched

-----------------------------------------------------------------------------

Importing(u) ==
    \E under \in Groupings, played \in Plays[u], lists \in Earns[u] :
        ImportPsn(u, under, played, lists) \/ BreakKey(u, under, played, lists)

Mapping ==
    \/ \E found \in SUBSET Matches("steam") : MapStore("steam", "psn", found)
    \/ \E found \in SUBSET Matches("psn") : MapStore("psn", "metadata", found)

Work ==
    \/ \E u \in Users : \/ Importing(u)
                         \/ /\ At(PsnJob(u), "save")
                            /\ \E batch \in SUBSET DOMAIN run.rows : SavePsn(u, batch)
    \/ \E heard \in BOOLEAN : QueueRefresh(heard)
    \/ Mapping
    \/ \E answered \in SUBSET Igdb : RefreshMetadata(answered)

Next ==
    \/ \E job \in Jobs : RequestSync(job) \/ Start(job) \/ Abandon(job) \/ Forget(job)
    \/ \E apps \in SUBSET Apps : SyncSteam(apps)
    \/ PsnFails \/ IgdbFails \/ SteamFails \/ Defer \/ Die
    \/ Work

Spec == Init /\ [][Next]_vars

(* No run goes on for ever: job_timeout ends it.  The worker takes queued  *)
(* jobs in turn, kept results lapse, the players sync again and again,     *)
(* IGDB answers what it is asked, and though runs may fail or die, and     *)
(* refreshes be lost, without end, some get through every step.            *)
Fairness ==
    /\ WF_vars(PsnFails \/ IgdbFails \/ SteamFails)
    /\ SF_vars(Start(IgdbJob) \/ Abandon(IgdbJob) \/ Forget(IgdbJob))
    /\ SF_vars(SyncSteam({})) /\ SF_vars(QueueRefresh(TRUE))
    /\ SF_vars(MapStore("steam", "psn", Matches("steam")))
    /\ SF_vars(MapStore("psn", "metadata", Matches("psn")))
    /\ SF_vars(RefreshMetadata(Igdb))

FairSpec == Spec /\ Fairness

-----------------------------------------------------------------------------
(* Properties *)

(* A store id or an IGDB id that has a game keeps it: no import, lookup or *)
(* mapping, in whatever order players sync and hide their lists, moves it. *)
FirstClaimKeeps ==
    [][\A id \in StoreIds \cup Igdb : db.owner[id] # 0 => db'.owner[id] = db.owner[id]]_vars

(* However often a player syncs, and whatever was visible each time, each  *)
(* of his trophy lists, and each title for as long as Sony lists it under  *)
(* the same concept, or under none, counts in one entry of his library     *)
(* only: hiding a list and showing it again never shows trophies or        *)
(* minutes twice.                                                          *)
LatestCountsOnce ==
    \A u \in Users : \A g, h \in Library(u) :
        g # h => /\ db.latest[u][g].titles \cap db.latest[u][h].titles = {}
                 /\ db.latest[u][g].lists \cap db.latest[u][h].lists = {}

(* Every match IGDB gave is kept: the game has the IGDB id, or the pair    *)
(* waits for the owner's decision.  Nothing is merged and nothing lost.    *)
IgdbMatchesAreKept ==
    \A m \in matched : db.owner[m[2]] = m[1] \/ m \in db.proposed

(* A game with a match on IGDB has its metadata in the end, though a       *)
(* refresh is refused while the result of the last one is kept: a later    *)
(* sync queues one.                                                        *)
NewGamesGetMetadata ==
    \A s \in DOMAIN IgdbOf :
        db.owner[s] # 0 /\ IgdbOf[s] # None ~> db.owner[s] \in db.fresh
=============================================================================
