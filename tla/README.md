# PlayGraph: a TLA+ verification project

PlayGraph is a FastAPI application in front of SQLite or Postgres and Redis,
with an arq worker that pulls play histories from Steam and PlayStation and a
plain JavaScript front end. The modules here model the parts of it whose
correctness depends on interleavings, failures and order; TLC checks them on
small instances and TLAPS proves the central properties for every instance.
File names below are relative to the repository (`app/...`).

## Inventory

Processes: one API process (an asyncio loop that runs `async` routes and a
thread pool that runs the others), one worker process running one job at a
time, the browser. Shared state: the SQL database, Redis (sessions, rate
limits, cached responses, the job queue), and in each process its own memory.

| Component | State | Operations | Talks to | What is hard |
|---|---|---|---|---|
| Response cache, `cache.py` | Redis generation counters and entries; `_inflight` futures | `cached`, `invalidate` | every public GET, every write | fills racing writes, cancellation, Redis outages |
| Reviews and comments, `routers/reviews.py` | `reviews`, `comments` | create, edit, delete, comment, list | cache, snapshots | check-then-write races, FOR UPDATE being a no-op on SQLite |
| Steam sync, `worker.py` | games, genres, snapshots, a SQL session | `sync_steam_library` | Steam, cache, IGDB job | batches, failed calls, give-up, death of the worker, play going on meanwhile |
| Steam client, `services/steam.py` | next slot of each limiter | `_get`, `wait`, `defer` | Steam | shared back-off |
| Job queue, `library.py`, `queue_codec.py`, arq | job ids, results, running job | enqueue, status, run | routes, worker | fixed ids that stay taken while a result is kept |
| PlayStation sync, `worker.py` | external ids, snapshots | `sync_psn_library` | PSN client | several ids of one game, hidden play time |
| PlayStation client, `services/psn.py` | tokens, request slots in Redis or memory | `access_token`, `_acquire`, `_get_json`, paging | Sony | token refresh under concurrency, budget, 429 |
| PlayStation linking, `routers/psn.py`, `psn_status.py` | challenge, auth block | start, check, cancel | PSN client, accounts | a challenge used once, a block that must stop every caller |
| Accounts, `routers/auth.py`, `accounts.py`, `clerk_auth.py`, `deps.py` | linked accounts, identities, session versions, one-time Redis keys | Steam connect, Clerk link, exchange, logout | Steam, Clerk | second tabs, replays, revocation |
| Rate limits and tokens, `security.py` | sliding windows in Redis | `rate_limit`, `issue_session` | all routes | window boundaries |
| IGDB, `igdb_catalog.py`, `services/igdb.py` | mappings, candidates, metadata, Twitch token | `refresh_igdb_catalog` | IGDB | one-to-one ownership of ids, partial batches |
| News, `routers/news.py`, `services/*news.py` | last good answer in Redis | `gaming_news` | Steam news | stale-while-error |
| Feed, `routers/feed.py` | none | anchored pages | cache | pages while reviews arrive |
| Library views, `library.py`, `catalog.py` | none | queries | snapshots | newest snapshot per source |
| Web client, `static/*.js` | session generation, page state | `api`, polling, loads | all routes | answers of an old session arriving late |
| Copy, migrations, middleware, config | none that outlives a run | | | sequential |

What makes each correct:

- *Cache*: a request is answered with a state no older than the last write
  acknowledged before it began; nothing stale stays current; of the
  computations of one entry in a process at most one has a caller left; every
  request ends.
- *Reviews*: one review per user and game; no comment without a review; a dead
  link stays dead; a review is verified by one snapshot and stays as verified.
- *Steam sync*: counts never older than the minutes beside them; a failed call
  never wipes knowledge; a death costs at most a batch; progress adds up; what
  the store or IGDB said of genres stays.
- *Queue*: one job per fixed id; what a sync found is covered by a refresh in
  the end, though an id stays taken while a result is kept and a call to Redis
  may be lost.
- *PlayStation*: a store id never moves to another game and nothing that is
  listed alike counts twice; tokens are renewed only when needed, the request
  budget holds and every call ends; a link needs a code its session asked for
  and its profile showed.
- *IGDB*: an IGDB id belongs to one game, and no match is lost.
- *Accounts*: a store account belongs to one user and never moves; a one-time
  key is used once; a revoked session ends.

## Modules

| Module | Models | Kind |
|---|---|---|
| `FreshReads` | the promise of the cache | abstract specification |
| `ResponseCache` | `app/cache.py` with its callers | detailed, implements `FreshReads` |
| `ReviewStore` | `app/routers/reviews.py`, tables of `app/models.py` | detailed |
| `SteamSync` | `sync_steam_library`, `_sync_owned_games` of `app/worker.py` | detailed |
| `Accounts` | `app/routers/auth.py`, `accounts.py`, `app/deps.py`, `app/clerk_auth.py`, `app/accounts.py`, the sessions of `app/security.py` | detailed |
| `RequestBudget` | the promise of a paced client | abstract specification |
| `PsnClient` | the client of `app/services/psn.py`, the flag of `app/psn_status.py` | detailed, implements `RequestBudget` |
| `PsnLink` | `app/routers/psn.py` | detailed |
| `JobQueue` | arq, as `app/worker.py` sets it up | a part of `Worker` |
| `PsnImport` | `_PsnIds`, `_sync_psn_titles` of `app/worker.py` | operators, a part of `Worker` |
| `Worker` | `sync_psn_library` of `app/worker.py`, `app/igdb_catalog.py`, the queueing in `app/routers/` | composition of the jobs |
| `ResponseCacheProofs`, `ReviewStoreProofs`, `SteamSyncProofs`, `AccountsProofs`, `PsnClientProofs`, `PsnLinkProofs`, `PsnImportProofs`, `WorkerProofs` | | theorems, one module per detailed one |
| `MCResponseCache`, `MCReviewStore`, `MCSteamSync`, `MCAccounts`, `MCPsnClient`, `MCPsnLink`, `MCWorker` | | instances for TLC |

Operators whose comment begins with "Bug:" are the code as a plausible mistake
would have it. They are not part of any specification; put in the place of the
operator that follows them, they must break a property, which shows that the
property depends on the code.

### ResponseCache

A request of slot `r` follows `cached()` from one await to the next: `Start`,
`GetGen` (the generation key), `Hit` or `Miss` (the entry key), then `Join` (a
pending future) or `Lead` (put one in `_inflight`), `ReadDb` (the query sees
the database as of now), `Settle` or `SettleError` (the future wakes the
waiters and leaves the dictionary), `Store`. `StoreDown`, `StoreFails` and
`ComputeUncached` are the Redis errors, `CancelLeader` and `CancelOther` the
clients that go away, `Expire` the TTL. A writer commits (`Commit`) and then
bumps the generation (`Bump`), or the bump is lost (`LoseBump`). A database
state is the number of commits so far, a response the state it was computed
from. `inflight[p][g]` is `_inflight` of process p, restricted to the one entry
under study. `acked`, `floor` and `base` are history: what a request must see,
and what the database was when a generation became current.

A client that goes away while its query runs leaves the query behind: the
thread pool cannot stop it (`gone`, `QueryEnds`), only drop one that still
waits for a thread (`Abandoned`). A waiter takes over at once and its query runs
beside the old one, as in the first test of `tests/test_cache.py:131-148`. "One
computation in flight per cache entry in this process" (`cache.py:38`) is
therefore true of computations somebody waits for; that is what
`OneComputationPerEntry` says: all but at most one have lost their caller, and
no request computes beside another that could be answered by it. The slot of a
request with an orphaned query takes no new request until the query ends.

A waiter that is cancelled in the same moment as its leader swallows its own
cancellation in the code (`cache.py:74-77`); the model then gives it no step.

`ImplementsFreshReads` maps a request's position to idle, pending, done or failed;
an orphaned query is idle, for nobody is owed its answer.

### ReviewStore

A request of slot `s` sends one statement per action. A write and its commit
are one action, because no other request can see or write the rows between
them. `RowLocks` is the database: with it FOR UPDATE keeps a row to the request
that selected it (`Locked`), without it (SQLite) a delete may win between the
select and the write. Review ids come from `nextId`, which never goes back
(AUTOINCREMENT, or a Postgres sequence, which a failed insert still advances).
Verified fields are the *number* of the snapshot they were copied from, so that
a blend of two snapshots is visible. A snapshot holds minutes and counts, one
of them, or neither; Steam's always hold minutes. A request that ends drops its
locals.

### SteamSync

One job runs at a time (`max_jobs = 1`). `Start`, `List` (game rows flushed,
work planned), `SaveReady` for each row that needs no call, `StartCalls`, then
answers come in (`Succeed`, `Fail`) in any order and are read in the order they
came (`ReadGenres`, `ReadAchievements`, `ReadFailure`, `GiveUp`), `FinishCalls`,
`Stamp`, and the announcements in their order. `db` is what is committed,
`session` what the job sees; `Commit` copies one to the other, `Abort` drops
the rest. `Die` is a killed worker, a job timeout, or an unexpected exception.
`untold` is who has not heard of rows committed since; an announcement may come
to nothing (`Tell`): `invalidate` ignores errors of Redis (`cache.py:108`), and
`queue_refresh` is refused or ignores them (`igdb_catalog.py:171-174`).

A call that gets through finds data or nothing (`Found`): `services/steam.py`
returns None for a status that is neither 200 nor retried, for `success:false`
and for an empty list, whatever the game has. So a game with tags may be settled
as having none, and a newest snapshot may lose counts an earlier one had, when
the profile was made private and the game played on. `KnowledgeGrows` says that
only such an answer does this, never a failed call. `NoData` and `None` are the
same NULL in the table, told apart for the sake of the properties only.

Genres have a second writer: `FillGenres` is `apply_metadata`, which fills what
is NULL or "" with the genres of IGDB, in a job of the same worker and so
between two syncs. `untagged` is history.

A call is answered once here; its up to four attempts and their back-off are
inside `Fail`. Achievements unlock while playing, so a game's true counts are a
function of its minutes; the model uses the minutes themselves.

### Accounts

The variables are the tables (`users`, `identity`, `steam`), one function per
family of Redis keys (`sessions`, `provider`, `intent`, `logins`,
`remembered`), what browsers hold (`tokens`), and the account provider
(`clerk`). `req[r]` is a request: where it is, the route it serves, and its
locals.

| Actions | Code |
|---|---|
| `Arrive`, `CheckIdentity`, `ReadProvider`, `Recall`, `AskProvider`, `Remember` | `get_current_user` and `confirm_active`, in front of every signed-in route |
| `Read` | any signed-in route that leaves accounts alone |
| `DeleteSession`, `DeleteProvider`, `ForgetActive`, `Revoke` | sign-out |
| `KeepProvider`, `Publish`, `DropSession`, `DropProvider`, `HandOver` | issuing a session and ending the one it replaces |
| `BeginLogin`, `SteamBack`, `Consume`, `SteamSays`, `FindOwner`, `JoinBySteam`, `RefuseConverted` | sign-in through Steam |
| `CheckUnconnected`, `BeginConnect`, `ConnectBack`, `CheckConnect`, `AttachSteam` | connecting Steam to an account of the provider |
| `CheckLink`, `StartLink`, `CancelLink`, `CompleteLink`, `VerifyLink`, `Recheck`, `ClaimIntent`, `Convert` | converting a Steam account |
| `Exchange`, `CheckOld`, `Lookup`, `JoinBySubject` | sign-in through the provider |
| `Lapse`, `Age`, `LapseIntent`, `LapseLogin`, `LapseActive` | the lifetimes of keys and tokens |
| `Abandon` | a Redis error, an outage or timeout of the provider, a restart, between any two steps |

Which route a request is for matters to `get_current_user` only for sign-out,
so the model chooses among the others when the request is served (`Serving`).
Every await, and every query or commit another API process may come between, is
a step. A request that is refused before it changed anything leaves no trace.
The nonce set of the Steam callback refuses nothing that `Consume` has not
refused before it, because an assertion answers one login; it is left out.
Session ids are used again once no key, token or request names them.

### PsnClient and RequestBudget

One process: what `TokenState` holds (`access`, `refresh`, `starts`,
`blocked`), the token lock and the pace lock, the flag in Redis that stops
PlayStation, and the calls. A token is live or dead at Sony; the process knows
only whether its time is up, in which case it counts as absent.

| Actions | Code |
|---|---|
| `Begin`, `Report`, `FlagLapses` | `auth_blocked` in front of every caller, `block_auth` after a `PSNAuthError` |
| `UseToken`, `RenewToken` | `access_token` under the token lock |
| `Refuse`, `Sleep`, `Start` | `_acquire` under the pace lock: fail fast, sleep and look again, start |
| `Throttle` | a 429: `_send` |
| `Fail`, `Disappoint`, `Answer`, `Unauthorized` | the answers `_get_json` and `_error_for` tell apart |
| `GiveCode`, `GiveTokens`, `SignInRefused`, `RejectSignIn`, `SignInOutage` | the steps of `_authorize`, `_exchange` and `_refresh` |
| `Cancel` | a job timeout, a shutdown, at any await |
| `Tick`, `AccessLapses`, `RefreshLapses`, `TokenDies`, `AccessDies`, `RefreshDies`, `NpssoDies` | time, and what Sony revokes |

`ImplementsBudget` maps the start times, oldest first, to the ages of the
newest starts; `Aged` is the queue of `_slot_wait` a moment later, with the
starts that leave the window popped from its front (`Popped`). What the reads
above `_get_json` return is an input of `PsnLink` and `PsnImport`.

### PsnLink

A request has read its session (`CheckLink`, `StartLink`), and every Redis
command, every wait for Sony and every commit after that is a step, so that
other requests of the same and of other sessions come between. `Revoke` ends a
session, `CodeExpires` a code, `WriteAboutMe` is the player at Sony. `Consume`
is the GETDEL: it removes what waits under the session's key *now*. `proved`
and `dropped` are history. A request the flag turns away ends like one Sony
does not answer (`GiveUp`).

### JobQueue, PsnImport and Worker

`JobQueue` is arq with `max_jobs = 1`: an id is taken while its job waits, runs
or has a kept result; a job that raises Retry or dies under the worker is
queued again, and one that was started `MaxTries` times is given up
(`Abandon`).

`PsnImport` computes what an import does. `AfterPlayed` groups the titles Sony
lists by concept and gives every group a game; `Asked`, `Answers` and
`AfterLookup` are the lookup of trophy lists by title; `AfterLists` makes games
of what is left. `owner` is the table of store ids.

The concept of a title is read from every listing anew (`under`, one of
`Groupings`), and a title may stand under none; within one answer it stands
under one concept at most. Titles once listed apart may have games of their own
when they are first listed under one concept. `GameOf` is then the game of the
concept, or of the first title that has one, and `Attach` leaves every id where
it is. The minutes of both titles go to that one game, while the other game
keeps its older snapshot, which counts one of them too. No document promises
otherwise: time is said to add up "under one concept" (`worker.py:352-354`,
`tests/test_psn_sync.py:149`), and a claimed id to stay (`models.py:177`). A row
therefore names each title together with what it was listed under (`Key`), and
`LatestCountsOnce` is about titles listed alike, and about trophy lists always.

`Worker` runs the jobs over the tables: `ImportPsn` and `SavePsn` (batches),
`BreakKey` (the unique key fails the import), `SyncSteam` (its inside is
`SteamSync`; only its new games matter here), `MapStore` for one store after
the other, `RefreshMetadata`, and `QueueRefresh` at the end of every sync.
`Fails`, `Defer` and `Die` end a run between any two commits and roll back what
is not committed. What Sony shows is chosen anew in each run, since players
hide and show play time and trophies, and so is the grouping. `QueueRefresh` may
be lost like any announcement. `matched` is history.

## Runs

| Run | Question | Bounds and why they are enough |
|---|---|---|
| `cache` | can an answer or a current entry be older than an announced write, a request compute beside another that waits, a request go unanswered, a stale entry stay | 2 requests of one process, one writer, 2 writes, fairness: a leader and a waiter (or two leaders, or an orphaned query and the one that took over) around two invalidations, with every failure. More processes and overlapping writers are covered by the theorems |
| `review_races` | do reviews and comments survive every interleaving on SQLite | 2 requests, 2 users, 3 review ids, 2 comments: post, delete and post again beside an edit, a delete or a comment |
| `review_verified` | what a review is verified by while both stores sync, and whether locked rows stay, on Postgres | 1 user, 2 requests, 2 snapshots per source, every content: one request waits for the row another holds |
| `sync` | what is saved stays consistent and grows, genres of a shared game settle once | 2 players who own the same game, which has achievements and tags, batches of 2, give-up after the second failure, 2 minutes, 2 deaths: a row is saved, saved again after more play, and lost once more, with every answer |
| `sync_live` | is a stamped library whole, is less than a batch at risk, do runs that keep giving up still get there, and is all of it announced | 1 player, 2 games of which one has achievements, batches of 2, give-up after the second failure: the calls of a run are more than a batch. Deaths are in `sync`; a run that gives up leaves as much undone |
| `sync_empty` | (violated) are missing counts asked for again | no deaths needed |
| `accounts` | can two requests give one account two owners, a session outlive its record, a connection land elsewhere, a login be used twice | 2 users, 1 Steam account, 1 person at the provider, 2 sessions, 1 login, 2 requests: both ways to sign in, a conversion, a connection and a sign-out at once. Two users suffice for two owners, two requests for every pair of routes |
| `accounts_signout` | (violated) is there no grace after a sign-out | 1 user with 2 sessions on one provider session, one of which signs out while the other is checked |
| `psn_client` | is the budget kept, are renewals needed, does every call end | 2 calls (one in a hurry), 2 starts in 3 units of time, pauses of 1 and 2: one call sleeps with a lock while the other waits, and one renews while the other is refused |
| `psn_block` | (violated) does only a rejected NPSSO stop PlayStation | one call suffices |
| `psn_link` | does only a shown code link, and no dropped one | 2 users, 3 sessions, 2 profiles, 2 codes, 2 requests: a code replaced or cancelled under a check, and two users after one profile |
| `worker` | do ids stay, does anything count twice, is a match lost, does every game get its metadata | 1 player, 2 titles listed apart or under one concept, one trophy list of both and one of neither, 1 Steam app of the same IGDB game, 3 games, enough for both titles and the app, or the titles and a list, to have games of their own: the ids turn up in every order. More players and ids are covered by the theorems |

`Routes` names the routes that are called in a run, `Visits` bounds the sessions
people open at the provider, `Codes`, `Requests`, `MaxMinutes`, `MaxDeaths`,
`MaxGames` and the sizes of the sets are bounds too. `MaxTries` is 1 in
`worker` (arq's default is 5): one death, then abandoned. Symmetry is used in
safety runs only. Deadlock is checked except in `accounts_signout` (once the
bounded provider sessions are over, nobody can sign in there again) and
`psn_link` (every session may be revoked).

### The disagreements

- `sync_empty`: `SteamUnavailable` exists so that a failure is not stored as
  "no data". A game without a snapshot is stored without counts when its call
  fails (`worker.py:290`), and the next sync takes its unchanged minutes as a
  reason to reuse them (`worker.py:195`): nobody asks again until it is played.
- `psn_block`: a `PSNAuthError` is to mean that "the server NPSSO is missing,
  wrong or expired" (`services/psn.py:19`). Any answer of the token endpoint but
  200 and 429 raises it (line 417), so an outage at Sony stops PlayStation for
  a day.
- `accounts_signout`: "a PlayGraph sign-out takes effect at once"
  (`clerk_auth.py:8`; "No grace window", `tests/test_accounts.py:193`). A request
  that has asked the provider already (`clerk_auth.py:155`) writes the remembered
  liveness back after the sign-out forgot it (`routers/auth.py:273-275`), and a
  request on another session of the same provider session that arrives after
  the finished sign-out is served. The memory lapses after 30 s.

Seen while modelling, without a run of their own:

- A Steam run that gives up commits rows and raises past "Retire both caches
  once the rows are in" (`worker.py:163`, 283). `CommitsAreAnnounced` shows that
  a later run makes up for it.
- "A failed genre lookup stays None and is retried next sync" (`worker.py:285`):
  once the IGDB refresh has filled the game's NULL genres (`igdb_catalog.py:99`),
  no sync asks the store about it again (`worker.py:209`).
- None is to mean that a game has no achievement schema
  (`services/steam.py:140`): any other answer without data gives None too, and a
  row with None follows the known counts of a game played on (`worker.py:297`).
- Minutes count twice when titles were first listed without a concept and are
  later listed under one (`GameOf`, above).
- An INCR that fails is swallowed (`cache.py:108`), and the entries from before
  the write stay current until they expire (`StalenessIsBounded`).
- `queue_refresh` is refused while the *result* of the last refresh is kept,
  where only "a refresh already queued covers the new games too"
  (`igdb_catalog.py:168`). The games wait for the refresh of a later sync.
- A refresh that fails after its first commit leaves the catalog cache alone
  (`igdb_catalog.py:156`).
- The trophy lookup can name a list that is not on the account and has a game:
  the unique key fails the import, every time (`BreakKey`).
- A list that shifts between two pages shows a title twice, and its minutes are
  added up (`worker.py:371`).
- A token is checked before the wait for a slot and may run out in it; a 401
  for an old token throws away the new one of another call (the model has
  both: calls retry once and end). `max_wait` does not count the wait for the
  pace lock.
- A check whose code was replaced removes the newer code as well (`Consume`).

## Fairness

- `ResponseCache`: the event loop runs every ready coroutine and the thread pool
  every query, orphaned ones included, so each step of a request is weakly
  fair. Cancellation, Redis errors and failing queries are not: nothing makes
  them happen. Expiry is weakly fair, because entries carry a TTL.
  `EveryRequestEnds` assumes that cancellations stop, since a client that leaves
  for ever takes its answer with it.
- `SteamSync`: the worker's own steps are weakly fair. That each user keeps
  asking, that arq gets to each of them, and that some of their libraries can be
  listed is strong fairness of `Start` and `ListFor`, user by user. Steam is
  assumed not to fail for ever: when run after run waits for calls, some are
  answered, with data or without, in a run that has not failed too often already
  (`SucceedInTime`). Any run may give up. When run after run announces to a cache
  or to the refresh that has not heard, some announcement gets through
  (`Reach`); each single one may be lost. `FillGenres` need not happen.
- `PsnClient`: time passes (`Tick`), and each call's own steps are strongly
  fair: asyncio's locks serve their waiters in order, so a call that finds a
  lock free again and again gets it, and a request is answered or times out.
  Cancellation, 429s and revocations need not happen, and may for ever.
- `Worker`: no run goes on for ever, because `job_timeout` ends it
  (`worker.py:584`): that is weak fairness of a run's failure, and no step of a
  run that succeeds is assumed to be taken each time it can be. The worker gets
  to every queued job in turn, kept results lapse, players keep syncing, and
  though runs may fail or die and refreshes be lost without end, some get
  through each step. `NewGamesGetMetadata` needs the last of these: a refresh
  that fails every time maps nothing.

## Proofs

`ResponseCacheProofs`, from `CacheAssumption`: `CacheInv` is inductive. The
freshness of answers alone is not: it needs that a request's generation was
current when it asked (`ReaderFloor`), that a generation's entries contain what
was committed when it became current (`GenerationFloor`), and that `_inflight`
points exactly at the computing requests (`InflightExact`), so that a waiter
waits under its own generation. From it follow `ReadsAreFresh`,
`CurrentEntryIsFresh`, `OneComputationPerEntry` (a computation that is not in
`_inflight` is orphaned) and, step by step, the refinement of `FreshReads`.

`ReviewStoreProofs`, from `ReviewAssumption`: `ReviewInv` is inductive for both
values of `RowLocks`. Dead links need that ids are below the sequence
(`IdsAreIssued`) and that a delete removes the row it selected or one already
gone (`SelectionsAreOwn`); locked rows need that two requests never hold one
row (`OneLockHolder`). `VerificationInv` strengthens
`VerifiedByOneFreshSnapshot` with what a create knows between its statements.
`PostedFactsAreFrozen` is an action property of the same invariant.

`PsnLinkProofs`, from `LinkAssumption`: `LinkInv` is inductive. That every link
was proved is not, alone: a check is on its way for many steps, with a code it
read long ago. The invariant says what the code in its hands still means: it
was issued to the request's session and account, it was shown before the
request reached its session check, and once the GETDEL has given it out it was
not dropped and waits nowhere, so that it never will be (`Spent`).
`LinkedByProof` and `DroppedCodesNeverLink` follow.

`PsnImportProofs`, from `ImportAssumption`: `ImportKeepsClaims` is about the
computation of one import, for every set of titles, concepts and lists, whatever
Sony shows of them and however it groups them this time. It assumes of the
table only that it maps ids to numbers. `Attach` moves no id; the game of a group
owns the group's key afterwards, since the concept's game is asked first and a
concept without one is given to the game found. So a row counts a title for the
game that owns what the title was listed under, though the title's own id may
belong to another.

`WorkerProofs`, from `WorkerAssumption` and the above: `WorkerInv` is
inductive. It adds to the properties that what a running job sees extends what
is committed, and that every snapshot, saved or still to save, counts what is
listed under ids its game owns (`RunOK`, `Counted`); the Steam and IGDB ids are
disjoint from PlayStation's. As ids never move, two games never count the same
listing. `FirstClaimKeeps`, `LatestCountsOnce` and `IgdbMatchesAreKept` hold for
every number of players, ids and games.

`SteamSyncProofs`, from `SyncAssumption` and `NoneAssumption`: `SyncInv` is
inductive. That counts keep up with minutes is not, alone, since what a run
saves was listed, reused or asked long before. The invariant says what the plan
of a run still means (`PlanOK`): the rows without a call are as they were
listed, each call is open once, a count that waits to be read was
true at some moment since the list (`Truthful`), and every game of the
library has a row, a call or a place among the ready. What is committed and
what the job sees are each consistent (`TablesOK`), and the second only adds to
the first (`Grown`), so that a commit at any point keeps both. `AtRisk` counts
what a death loses by `pending`, one per write, with the finiteness that the
counting needs; the number of games and players is not bounded. `CountsKeepUp`,
`OnlyEmptyAnswersSettle`, `SyncedLibrariesAreWhole` and `OneBatchAtRisk`
follow, and from the same proof of each step the action properties
`KnowledgeGrows` and `GenresAreAskedOnce`. Nothing is assumed of an answer but
that a count in it is the true one; any call may be answered without data, and
the genres may be filled between two runs (`GenresGrow`).

`AccountsProofs`, from `AccountsAssumption`: `AccountsInv` is inductive. The
properties speak of tables and sessions, but every write of them is the last
step of a request that checked its conditions several awaits ago. The invariant
therefore has, for each request, what its locals hold at its place (`Shape`)
and which of the things it read it may still count on (`Relies`): rows and
identities never change once there, a session it presented is at most dropped,
the session it is issuing is its own (`FreshApart`), and the login it consumed
stays consumed. The proof of a step has two halves: the request that moves, and
that the step is `Steady` for every other request; one lemma shows that a
request keeps what it relies on through any steady step. All invariants of the
`accounts` run follow, and `LinksAreForever`, for every number of users,
sessions and requests.

`PsnClientProofs`, from `ClientAssumption`: `ClientInv` is inductive. It has
the starts of a window no more than `Budget` and any two of them `Gap` apart
(`Spaced`), renewals made under the token lock for tokens that are gone
(`RenewalsAreNeeded`), and the locks held by exactly those who use them
(`LocksHeld`). `PacingKeepsTheBudget` is the refinement of `RequestBudget`,
step by step: `Start` is a start the budget allows because the oldest start
that still counts has been popped, `Throttle` is a pause, `Tick` is a tick, and
every other step stutters. `Spaced` and `LocksHeld` are stated by theorems
only: the first is what the refinement needs to keep the gap, the second the
safety part of `EveryCallEnds`.

The assumptions on constants say what the code does: limits are numbers of the
right sign, functions between the sets have these domains, and `None`, the
model's word for Python's `None`, is none of the values it is told apart from.

Every invariant and action property of a passing run is stated by a theorem, and
so are both refinements (`ImplementsFreshReads`, `ImplementsBudget`).
Only model-checked are the liveness properties, since fairness and ENABLED are
outside the prover: `EveryRequestEnds`, `StalenessIsBounded`, `SyncsCatchUp`,
`CommitsAreAnnounced`, `EveryCallEnds` and `NewGamesGetMetadata`. They hold for
the instances in the table above. The three properties that the code violates
are shown by their counterexamples.

## Not modelled

Rendering, validation, headers, logging, configuration, the demo, load tests,
migrations and the one-shot copy to Postgres: sequential or stateless. News, the
feed, the web client, the rate limits' sliding window and the pacing of the
Steam and IGDB clients are planned below. Library views are modelled as far as
`_latest_snapshots` decides what counts. The numbers in a PlayStation snapshot
are abstracted to the titles and lists they count. A player's Steam library is
the same in every listing (`Library`): games bought between two syncs, and a
listing that is empty because the profile is private, are left out. Paging is
below the grain of `PsnImport`. Redis that restarts from an older dump can make
a retired generation current again; SQLite's busy timeout against slow HTTP is a
matter of time: both are named as hazards without a property.

## Plan

Most important first; each module is written without RECURSIVE so that it can
be proved about. Where a new component needs runs, smaller questions about one
instance are merged into one run.

1. Done: `ResponseCache`, `ReviewStore`, `SteamSync`, `Accounts`, `PsnClient`,
   `PsnLink` and `Worker`, each with its proofs.
2. `SlidingWindow`: the rate limit script against its reference definition.
   `SteamPacing`, to share `RequestBudget` with `PsnClient`.
3. `ClientSession`: the generation guard of `app.js`. `FeedPaging`. `News`.
4. `LiveCatalog`: sync, reviews and cache composed.
