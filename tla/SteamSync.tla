----------------------------- MODULE SteamSync -----------------------------
(***************************************************************************)
(* The Steam library sync of the worker (app/worker.py, sync_steam_library *)
(* and _sync_owned_games).  One job at a time (max_jobs = 1) reads a       *)
(* player's library, plans which calls it needs, saves what it needs no    *)
(* call for, and then writes each answer as it comes in, in batches of     *)
(* CommitEvery writes.  A run may die at any step: what was not committed  *)
(* is rolled back and the next run starts over.                            *)
(*                                                                         *)
(* The world outside moves meanwhile: players play.  Achievements unlock   *)
(* while playing, so the true progress in a game with achievements is a    *)
(* function of its minutes, and here it is the number of minutes itself.   *)
(* Between two runs the IGDB refresh fills genres that are empty.          *)
(***************************************************************************)
EXTENDS Naturals, FiniteSets, Sequences

CONSTANTS Users,
          Apps,
          Library,         \* Library[u]: the apps Steam lists for u
          Achieving,       \* the apps with an achievement schema
          Tagged,          \* the apps with genre tags in the store
          CommitEvery,     \* COMMIT_EVERY
          MaxFailedCalls,  \* MAX_FAILED_CALLS
          MaxMinutes,      \* bound on the minutes of a game
          MaxDeaths,       \* bound on the runs that die
          NoData,          \* the counts of a row whose call had no data
          None             \* no row, no run; the counts of a row without an answer

ASSUME SyncAssumption ==
    /\ Library \in [Users -> SUBSET Apps]
    /\ Achieving \subseteq Apps
    /\ Tagged \subseteq Apps
    /\ CommitEvery \in Nat \ {0}
    /\ MaxFailedCalls \in Nat
    /\ MaxMinutes \in Nat
    /\ MaxDeaths \in Nat
    /\ None \notin Nat
    /\ NoData \notin Nat
    /\ NoData # None

VARIABLES
    minutes,  \* minutes[u][a]: what Steam knows
    db,       \* what is committed, see Tables
    session,  \* db as the running job sees it: committed and pending writes
    job,      \* the locals of the running job, or None
    stamped,  \* the users whose last_synced_at is set
    untold,   \* who has not been told of committed rows, see Listeners
    untagged, \* history: the apps the store has answered about without tags
    deaths    \* how many runs died

vars == <<minutes, db, session, job, stamped, untold, untagged, deaths>>

(* A snapshot's counts.  NoData and None are both NULL in the table: the    *)
(* one says that Steam answered without counts, the other that it did not   *)
(* answer, or was not asked.  No step of the sync tells them apart.         *)
Snapshot == [minutes : 0 .. MaxMinutes, counts : (0 .. MaxMinutes) \cup {None, NoData}]

(* Game.genres: NULL, "", the store's tags or the genres of IGDB.          *)
Genres == {"unasked", "none", "store", "igdb"}

(* The rows a sync reads and writes: the game rows, their genres, and the  *)
(* newest Steam snapshot of each user and game.                            *)
Tables == [games : SUBSET Apps, genres : [Apps -> Genres],
           latest : [Users -> [Apps -> Snapshot \cup {None}]]]

(* The two cache scopes and the IGDB refresh hear of new rows, in this     *)
(* order.                                                                  *)
Listeners == {"catalog", "reviews", "igdb"}

(* A call is for the achievements or the genres of an app.  Its answer is  *)
(* data (for achievements, a count), "nothing" (an answer without data),   *)
(* or "failed" (SteamUnavailable: every retry is spent).                   *)
Calls == {"achievements", "genres"} \X Apps
Answers == [is : {"data", "nothing", "failed"}, count : 0 .. MaxMinutes]

Phases == {"list", "save", "fetch", "stamp"} \cup Listeners

Job == [user : Users, at : Phases,
        owned : [Apps -> 0 .. MaxMinutes],             \* playtime_forever
        previous : [Apps -> Snapshot \cup {None}],     \* _previous_snapshots
        ready : SUBSET Apps,                           \* rows that need no call
        waiting : SUBSET Calls,                        \* calls not answered yet
        finished : Seq(Calls \X Answers),              \* answers not read yet
        failed : 0 .. MaxFailedCalls, pending : 0 .. CommitEvery - 1]

(* None is no row and no run. *)
ASSUME NoneAssumption == None \notin Snapshot \cup Job

TypeOK ==
    /\ minutes \in [Users -> [Apps -> 0 .. MaxMinutes]]
    /\ db \in Tables
    /\ session \in Tables
    /\ job \in Job \cup {None}
    /\ stamped \subseteq Users
    /\ untold \subseteq Listeners
    /\ untagged \subseteq Apps
    /\ deaths \in 0 .. MaxDeaths

Init ==
    /\ minutes = [u \in Users |-> [a \in Apps |-> 0]]
    /\ db = [games |-> {}, genres |-> [a \in Apps |-> "unasked"],
             latest |-> [u \in Users |-> [a \in Apps |-> None]]]
    /\ session = db
    /\ job = None
    /\ stamped = {}
    /\ untold = {}
    /\ untagged = {}
    /\ deaths = 0

Running == job # None
At(phase) == Running /\ job.at = phase
Owned == Library[job.user]

-----------------------------------------------------------------------------
(* The player and Steam *)

(* A player plays a game of the library. *)
Play(u, a) ==
    /\ a \in Library[u]
    /\ minutes[u][a] < MaxMinutes
    /\ minutes' = [minutes EXCEPT ![u][a] = @ + 1]
    /\ UNCHANGED <<db, session, job, stamped, untold, untagged, deaths>>

(* What a call that gets through can find.  Any of them may be answered    *)
(* without data: a status that is neither 200 nor retried (a profile made  *)
(* private), success:false or an empty list.                               *)
NothingThere == [is |-> "nothing", count |-> 0]
Found(call) ==
    LET has == IF call[1] = "genres" THEN Tagged ELSE Achieving
        progress == IF call[1] = "genres" THEN 0 ELSE minutes[job.user][call[2]]
    IN  IF call[2] \in has
        THEN {NothingThere, [is |-> "data", count |-> progress]} ELSE {NothingThere}

(* A call of the running job is answered: by Steam, or by SteamUnavailable *)
(* when every retry is spent.  Answers come in any order and wait until    *)
(* as_completed hands them over.                                           *)
Answered(call, answer) ==
    /\ At("fetch")
    /\ call \in job.waiting
    /\ job' = [job EXCEPT !.waiting = @ \ {call}, !.finished = Append(@, <<call, answer>>)]
    /\ untagged' = IF call[1] = "genres" /\ answer = NothingThere
                   THEN untagged \cup {call[2]} ELSE untagged
    /\ UNCHANGED <<minutes, db, session, stamped, untold, deaths>>

Succeed(call) == At("fetch") /\ \E answer \in Found(call) : Answered(call, answer)
Fail(call) == Answered(call, [is |-> "failed", count |-> 0])

-----------------------------------------------------------------------------
(* The IGDB refresh *)

Empty(a) == db.genres[a] \in {"unasked", "none"}

(* apply_metadata: a refresh, a job of the same worker and so never beside *)
(* a sync, writes IGDB's genres of some games whose genres are empty.      *)
FillGenres(apps) ==
    /\ ~ Running
    /\ apps # {} /\ apps \subseteq {a \in db.games : Empty(a)}
    /\ db' = [db EXCEPT !.genres = [a \in Apps |-> IF a \in apps THEN "igdb" ELSE @[a]]]
    /\ session' = db'
    /\ UNCHANGED <<minutes, job, stamped, untold, untagged, deaths>>

-----------------------------------------------------------------------------
(* Writing *)

(* db.commit(): what is pending is in, and nobody has been told yet. *)
Commit(tables) ==
    /\ db' = tables
    /\ untold' = IF tables = db THEN untold ELSE Listeners

(* Bug: one write too many in a batch. *)
WroteLate(tables, next) ==
    /\ session' = tables
    /\ IF job.pending + 1 > CommitEvery
       THEN Commit(tables) /\ job' = [next EXCEPT !.pending = 0]
       ELSE /\ job' = [next EXCEPT !.pending = @ + 1]
            /\ UNCHANGED <<db, untold>>

(* wrote(): one more write is pending; the batch is committed when full.   *)
Wrote(tables, next) ==
    /\ session' = tables
    /\ IF job.pending + 1 >= CommitEvery
       THEN Commit(tables) /\ job' = [next EXCEPT !.pending = 0]
       ELSE /\ job' = [next EXCEPT !.pending = @ + 1]
            /\ UNCHANGED <<db, untold>>

(* save(): another snapshot row of the user for app a. *)
Save(a, counts, next) ==
    Wrote([session EXCEPT !.latest[job.user][a] =
              [minutes |-> job.owned[a], counts |-> counts]], next)

-----------------------------------------------------------------------------
(* A run *)

(* The worker takes the user's job from the queue. *)
Start(u) ==
    /\ ~ Running
    /\ job' = [user |-> u, at |-> "list", owned |-> [a \in Apps |-> 0],
               previous |-> [a \in Apps |-> None], ready |-> {}, waiting |-> {},
               finished |-> <<>>, failed |-> 0, pending |-> 0]
    /\ session' = db
    /\ UNCHANGED <<minutes, db, stamped, untold, untagged, deaths>>

(* Bug: any game with a snapshot is taken for unchanged. *)
NeedsNoCallOnce(a) ==
    minutes[job.user][a] = 0 \/ session.latest[job.user][a] # None

(* Unplayed, or not played since the previous snapshot: no call needed.    *)
NeedsNoCall(a) ==
    LET played == minutes[job.user][a]
        last == session.latest[job.user][a]
    IN  played = 0 \/ (last # None /\ last.minutes = played)

(* Bug: "" counts as never asked. *)
UnaskedOrNone(a) == session.genres[a] \in {"unasked", "none"}

(* game.genres is None *)
Unasked(a) == session.genres[a] = "unasked"

(* get_owned_games answers: new game rows are flushed, and the work is     *)
(* planned.  Genres are asked for every game they were never asked for.    *)
List ==
    /\ At("list")
    /\ session' = [session EXCEPT !.games = @ \cup Owned]
    /\ LET ready == {a \in Owned : NeedsNoCall(a)}
           ask == {a \in Owned : Unasked(a)}
       IN  job' = [job EXCEPT !.at = "save",
                     !.owned = [a \in Apps |-> IF a \in Owned THEN minutes[job.user][a] ELSE 0],
                     !.previous = session.latest[job.user],
                     !.ready = ready,
                     !.waiting = ({"achievements"} \X (Owned \ ready)) \cup ({"genres"} \X ask)]
    /\ UNCHANGED <<minutes, db, stamped, untold, untagged, deaths>>

(* The run ends without a result and its session is closed: pending writes *)
(* are rolled back.                                                        *)
Abort == job' = None /\ session' = db'

(* get_owned_games fails. *)
ListFails ==
    /\ At("list")
    /\ UNCHANGED <<minutes, db, stamped, untold, untagged, deaths>>
    /\ Abort

(* A row of ready is saved: an unplayed game without counts, an unchanged  *)
(* one with the counts it had.                                             *)
SaveReady(a) ==
    /\ At("save")
    /\ a \in job.ready
    /\ Save(a, IF job.owned[a] = 0 THEN None ELSE job.previous[a].counts,
            [job EXCEPT !.ready = @ \ {a}])
    /\ UNCHANGED <<minutes, stamped, untagged, deaths>>

(* All of ready is saved: the calls are started. *)
StartCalls ==
    /\ At("save")
    /\ job.ready = {}
    /\ job' = [job EXCEPT !.at = "fetch"]
    /\ UNCHANGED <<minutes, db, session, stamped, untold, untagged, deaths>>

(* The next answer, and the job once it is taken. *)
Kind == Head(job.finished)[1][1]
App == Head(job.finished)[1][2]
Answer == Head(job.finished)[2]
Taken == [job EXCEPT !.finished = Tail(@)]
Reading == At("fetch") /\ job.finished # <<>>

(* Bug: a failed lookup is stored like an empty one. *)
ReadGenresFailed ==
    /\ Reading
    /\ Kind = "genres"
    /\ Wrote([session EXCEPT !.genres[App] = IF Answer.is = "data" THEN "store" ELSE "none"],
             Taken)
    /\ UNCHANGED <<minutes, stamped, untagged, deaths>>

(* Genres were looked up; "" is asked and none. *)
ReadGenres ==
    /\ Reading
    /\ Kind = "genres"
    /\ Answer.is # "failed"
    /\ Wrote([session EXCEPT !.genres[App] = IF Answer.is = "nothing" THEN "none" ELSE "store"],
             Taken)
    /\ UNCHANGED <<minutes, stamped, untagged, deaths>>

ReadAchievements ==
    /\ Reading
    /\ Kind = "achievements"
    /\ Answer.is # "failed"
    /\ Save(App, IF Answer.is = "data" THEN Answer.count ELSE NoData, Taken)
    /\ UNCHANGED <<minutes, stamped, untagged, deaths>>

ReadsFailure == Reading /\ Answer.is = "failed"
Counted == [Taken EXCEPT !.failed = @ + 1]

(* Bug: a failed call saves the new minutes without counts. *)
ReadFailureBlank ==
    /\ ReadsFailure
    /\ job.failed + 1 <= MaxFailedCalls
    /\ IF Kind = "achievements"
       THEN Save(App, None, Counted)
       ELSE job' = Counted /\ UNCHANGED <<db, session, untold>>
    /\ UNCHANGED <<minutes, stamped, untagged, deaths>>

(* Bug: a failed call saves nothing. *)
ReadFailureSilent ==
    /\ ReadsFailure
    /\ job.failed + 1 <= MaxFailedCalls
    /\ job' = Counted
    /\ UNCHANGED <<minutes, db, session, stamped, untold, untagged, deaths>>

(* A failed call is not written, so that the next sync makes it again;     *)
(* except for a game without a snapshot, saved without counts.             *)
ReadFailure ==
    /\ ReadsFailure
    /\ job.failed + 1 <= MaxFailedCalls
    /\ IF Kind = "achievements" /\ job.previous[App] = None
       THEN Save(App, None, Counted)
       ELSE job' = Counted /\ UNCHANGED <<db, session, untold>>
    /\ UNCHANGED <<minutes, stamped, untagged, deaths>>

(* Bug: the run gives up without a commit. *)
GiveUpEmpty ==
    /\ ReadsFailure
    /\ job.failed + 1 > MaxFailedCalls
    /\ UNCHANGED <<minutes, db, stamped, untold, untagged, deaths>>
    /\ Abort

(* Too many failed calls: commit, cancel the other calls and give up. *)
GiveUp ==
    /\ ReadsFailure
    /\ job.failed + 1 > MaxFailedCalls
    /\ Commit(session)
    /\ Abort
    /\ UNCHANGED <<minutes, stamped, untagged, deaths>>

(* Every call has been answered and read: the last batch is committed. *)
FinishCalls ==
    /\ At("fetch")
    /\ job.waiting = {}
    /\ job.finished = <<>>
    /\ Commit(session)
    /\ job' = [job EXCEPT !.at = "stamp", !.pending = 0]
    /\ UNCHANGED <<minutes, session, stamped, untagged, deaths>>

(* last_synced_at is set and committed. *)
Stamp ==
    /\ At("stamp")
    /\ stamped' = stamped \cup {job.user}
    /\ job' = [job EXCEPT !.at = "catalog"]
    /\ UNCHANGED <<minutes, db, session, untold, untagged, deaths>>

(* invalidate(CATALOG), invalidate(REVIEWS), queue_refresh, in this order. *)
(* Each may come to nothing, and the run goes on: an error of Redis is     *)
(* ignored, and a refresh is refused while the result of the last is kept. *)
Tell(listener, next) ==
    /\ At(listener)
    /\ untold' \in {untold, untold \ {listener}}
    /\ job' = next
    /\ UNCHANGED <<minutes, db, session, stamped, untagged, deaths>>

(* Bug: the reviews that show the games are not retired. *)
TellCatalogOnly == Tell("catalog", [job EXCEPT !.at = "igdb"])

TellCaches ==
    \/ Tell("catalog", [job EXCEPT !.at = "reviews"])
    \/ Tell("reviews", [job EXCEPT !.at = "igdb"])

TellIgdb == Tell("igdb", None)

(* The worker is killed, the job times out, or a call raises anything but  *)
(* SteamUnavailable.                                                       *)
Die ==
    /\ Running
    /\ deaths < MaxDeaths
    /\ deaths' = deaths + 1
    /\ UNCHANGED <<minutes, db, stamped, untold, untagged>>
    /\ Abort

(* What the run does once the calls it waits for are answered. *)
Work ==
    \/ \E a \in Apps : SaveReady(a)
    \/ StartCalls
    \/ ReadGenres
    \/ ReadAchievements
    \/ ReadFailure
    \/ GiveUp
    \/ FinishCalls
    \/ Stamp
    \/ TellCaches
    \/ TellIgdb

Next ==
    \/ \E u \in Users, a \in Apps : Play(u, a)
    \/ \E u \in Users : Start(u)
    \/ List
    \/ ListFails
    \/ \E call \in Calls : Succeed(call) \/ Fail(call)
    \/ \E apps \in SUBSET Apps : FillGenres(apps)
    \/ Work
    \/ Die

Spec == Init /\ [][Next]_vars

(* The run has had, read or not, more failed answers than it can take. *)
Doomed ==
    job.failed + Cardinality({i \in DOMAIN job.finished : job.finished[i][2].is = "failed"})
        > MaxFailedCalls

(* A library is listed, a call is answered in time, a listener hears.      *)
ListFor(u) == Running /\ job.user = u /\ List
SucceedInTime == \E call \in Calls : Succeed(call) /\ ~ Doomed
Reach == \E listener \in untold : At(listener) /\ Work /\ listener \notin untold'

(* The worker runs; everyone keeps asking for a sync, and the worker gets  *)
(* to each of them and sometimes to a library it can list; when run after  *)
(* run waits for calls some are answered before the run has failed too     *)
(* often; and when run after run announces some announcement gets through. *)
FairSpec ==
    /\ Spec
    /\ WF_vars(Work)
    /\ \A u \in Users : SF_vars(Start(u)) /\ SF_vars(ListFor(u))
    /\ SF_vars(SucceedInTime)
    /\ SF_vars(Reach)

-----------------------------------------------------------------------------
(* Properties *)

Known(counts) == counts \notin {None, NoData}

(* "Unchanged minutes therefore mean unchanged counts": counts are never   *)
(* older than the minutes saved beside them, whatever is reused, answered  *)
(* late or played meanwhile, and no row is ahead of Steam.                 *)
CountsKeepUp ==
    \A u \in Users, a \in Apps :
        LET last == db.latest[u][a] IN
        last # None =>
            /\ last.minutes <= minutes[u][a]
            /\ Known(last.counts) => last.counts >= last.minutes /\ last.counts <= minutes[u][a]

(* "Asked, nothing there" is stored only of a game the store has answered  *)
(* about without tags: a lookup that was throttled or failed, in whatever  *)
(* run, never settles a game's genres.                                     *)
OnlyEmptyAnswersSettle ==
    \A a \in Apps : db.genres[a] = "none" => a \in untagged

(* "A crash loses at most this many games' work": what is pending besides  *)
(* the new game rows is always less than one batch.                        *)
Unsaved ==
    Cardinality({a \in Apps : session.genres[a] # db.genres[a]})
    + Cardinality({p \in Users \X Apps : session.latest[p[1]][p[2]] # db.latest[p[1]][p[2]]})

OneBatchAtRisk == Running => Unsaved <= job.pending /\ job.pending < CommitEvery

(* A snapshot is of a game row, and a sync that completed has shown every  *)
(* game of the library, the ones whose calls failed included.              *)
SyncedLibrariesAreWhole ==
    /\ \A u \in Users, a \in Apps : db.latest[u][a] # None => a \in db.games
    /\ \A u \in stamped : \A a \in Library[u] : db.latest[u][a] # None

(* A failed call never takes away what an answered one has told: a row     *)
(* with an answer is followed by rows with an answer, minutes and known    *)
(* counts do not go back, and known counts make way for none only when     *)
(* Steam answered without data after the game had been played on.          *)
KnowledgeGrows ==
    [][\A u \in Users, a \in Apps :
          LET old == db.latest[u][a]
              new == db.latest'[u][a]
          IN  old # None =>
                 /\ new # None
                 /\ new.minutes >= old.minutes
                 /\ old.counts # None => new.counts # None
                 /\ Known(old.counts) =>
                        \/ Known(new.counts) /\ new.counts >= old.counts
                        \/ new.counts = NoData /\ new.minutes > old.minutes]_vars

(* A game whose genres are settled is never asked about again, by any      *)
(* user's sync; the store's tags stay, and of what was settled as empty    *)
(* only IGDB knows more.                                                   *)
GenresAreAskedOnce ==
    [][\A a \in Apps :
          /\ db.genres[a] # "unasked" =>
                 \/ db.genres'[a] = db.genres[a]
                 \/ db.genres[a] = "none" /\ db.genres'[a] = "igdb"
          /\ job # None /\ job' # None /\ <<"genres", a>> \in job'.waiting \ job.waiting =>
                 db.genres[a] = "unasked"]_vars

(* However many runs give up, as long as no call fails for ever and only   *)
(* so many die, every library catches up with Steam: committed batches     *)
(* add up.                                                                 *)
CaughtUp ==
    \A u \in Users : \A a \in Library[u] :
        /\ db.latest[u][a] # None
        /\ db.latest[u][a].minutes = minutes[u][a]
        /\ db.genres[a] # "unasked"

SyncsCatchUp == <>[]CaughtUp

(* A run that gives up raises past the announcements of what it has        *)
(* committed, and an announcement may be lost: each cache and the IGDB     *)
(* refresh hear of the rows from a later run.                              *)
CommitsAreAnnounced == \A l \in Listeners : l \in untold ~> l \notin untold

(* What the code says and does not do *)

(* "Persisting it for a transient failure would make the game look         *)
(* permanently empty": a played game that has achievements and whose       *)
(* counts are missing, Steam having answered nothing about them, is asked  *)
(* about again when it is next listed.                                     *)
MissingCountsAreAskedAgain ==
    [][(At("list") /\ job' # None) =>
          \A a \in Owned \cap Achieving :
              minutes[job.user][a] > 0
              /\ db.latest[job.user][a] # None
              /\ db.latest[job.user][a].counts = None
              => <<"achievements", a>> \in job'.waiting]_vars

=============================================================================
