--------------------------- MODULE ResponseCache ---------------------------
(***************************************************************************)
(* The shared cache of public GET responses (app/cache.py): one scope of   *)
(* it, one entry (one value of parts) in that scope, the API processes     *)
(* that read through it and the writers that retire it.                    *)
(*                                                                         *)
(* A response is abstracted to the state of the database it was computed   *)
(* from, and a state of the database to the number of commits so far.      *)
(* Entries of one scope with different parts share the generation counter  *)
(* and nothing else, so one entry stands for each of them.  Every await    *)
(* of the coroutine is a boundary between two actions.                     *)
(***************************************************************************)
EXTENDS Naturals

CONSTANTS Readers,    \* request slots; a slot serves one GET after another
          Procs,      \* API processes: each has its own _inflight table
          ProcOf,     \* ProcOf[r]: the process that runs slot r
          Writers,    \* write routes and worker jobs that invalidate the scope
          MaxWrites,  \* bound on the number of commits
          MaxGen,     \* bound on the generation counter
          None        \* no entry, no future, no value

ASSUME CacheAssumption ==
    /\ ProcOf \in [Readers -> Procs]
    /\ MaxWrites \in Nat
    /\ MaxGen \in Nat
    /\ None \notin Nat
    /\ None \notin Readers

VARIABLES
    db,         \* the number of commits made in the scope (the database)
    gen,        \* Redis: the scope's generation counter
    entries,    \* Redis: entries[g], the response stored under generation g
    inflight,   \* inflight[p][g]: the reader computing the entry in process p
    pc,         \* pc[r]: where the request of slot r is in cached()
    genOf,      \* genOf[r]: the generation in r's key
    val,        \* val[r]: the response r computed or was given
    waitsOn,    \* waitsOn[r]: the reader whose future r awaits
    wpc,        \* wpc[w]: idle, or bump between a commit and its invalidate
    wver,       \* wver[w]: the newest commit of w
    acked,      \* history: the newest commit covered by a finished invalidate
    floor,      \* history: acked when r's request started
    base        \* history: base[g], the commits made when g became current

redis == <<gen, entries>>
writer == <<wpc, wver>>
history == <<acked, base>>
vars == <<db, gen, entries, inflight, pc, genOf, val, waitsOn, wpc, wver,
          acked, floor, base>>

Gens == 0 .. MaxGen
Versions == 0 .. MaxWrites

(* The caller has left cached(), and nothing of it runs on. *)
Ended == {"idle", "done", "failed"}
(* The reader owns a pending future in _inflight. *)
Leading == {"compute", "computed", "raised"}
Busy == {"gen", "entry", "loop", "wait", "store", "bypass"} \cup Leading
(* The caller is gone, its query still runs on a thread of the pool. *)
Orphaned == {"gone"}

TypeOK ==
    /\ db \in Versions
    /\ gen \in Gens
    /\ entries \in [Gens -> Versions \cup {None}]
    /\ inflight \in [Procs -> [Gens -> Readers \cup {None}]]
    /\ pc \in [Readers -> Ended \cup Busy \cup Orphaned]
    /\ genOf \in [Readers -> Gens]
    /\ val \in [Readers -> Versions]
    /\ waitsOn \in [Readers -> Readers \cup {None}]
    /\ wpc \in [Writers -> {"idle", "bump"}]
    /\ wver \in [Writers -> Versions]
    /\ acked \in Versions
    /\ floor \in [Readers -> Versions]
    /\ base \in [Gens -> Versions]

Init ==
    /\ db = 0
    /\ gen = 0
    /\ entries = [g \in Gens |-> None]
    /\ inflight = [p \in Procs |-> [g \in Gens |-> None]]
    /\ pc = [r \in Readers |-> "idle"]
    /\ genOf = [r \in Readers |-> 0]
    /\ val = [r \in Readers |-> 0]
    /\ waitsOn = [r \in Readers |-> None]
    /\ wpc = [w \in Writers |-> "idle"]
    /\ wver = [w \in Writers |-> 0]
    /\ acked = 0
    /\ floor = [r \in Readers |-> 0]
    /\ base = [g \in Gens |-> 0]

-----------------------------------------------------------------------------
(* Readers *)

(* A GET arrives. *)
Start(r) ==
    /\ pc[r] \in Ended
    /\ pc' = [pc EXCEPT ![r] = "gen"]
    /\ floor' = [floor EXCEPT ![r] = acked]
    /\ val' = [val EXCEPT ![r] = 0]
    /\ genOf' = [genOf EXCEPT ![r] = 0]
    /\ UNCHANGED <<db, redis, inflight, waitsOn, writer, history>>

(* The GET of the generation counter; a missing counter reads as 0. *)
GetGen(r) ==
    /\ pc[r] = "gen"
    /\ pc' = [pc EXCEPT ![r] = "entry"]
    /\ genOf' = [genOf EXCEPT ![r] = gen]
    /\ UNCHANGED <<db, redis, inflight, val, waitsOn, writer, history, floor>>

(* There is no store, or Redis fails on either GET: entry is None. *)
StoreDown(r) ==
    /\ pc[r] \in {"gen", "entry"}
    /\ pc' = [pc EXCEPT ![r] = "bypass"]
    /\ UNCHANGED <<db, redis, inflight, genOf, val, waitsOn, writer, history, floor>>

(* Without the cache the response is computed and nothing is shared. *)
ComputeUncached(r) ==
    /\ pc[r] = "bypass"
    /\ \E outcome \in {"done", "failed"} : pc' = [pc EXCEPT ![r] = outcome]
    /\ val' = [val EXCEPT ![r] = db]
    /\ UNCHANGED <<db, redis, inflight, genOf, waitsOn, writer, history, floor>>

Hit(r) ==
    /\ pc[r] = "entry"
    /\ entries[genOf[r]] # None
    /\ val' = [val EXCEPT ![r] = entries[genOf[r]]]
    /\ pc' = [pc EXCEPT ![r] = "done"]
    /\ UNCHANGED <<db, redis, inflight, genOf, waitsOn, writer, history, floor>>

Miss(r) ==
    /\ pc[r] = "entry"
    /\ entries[genOf[r]] = None
    /\ pc' = [pc EXCEPT ![r] = "loop"]
    /\ UNCHANGED <<db, redis, inflight, genOf, val, waitsOn, writer, history, floor>>

(* The loop on _inflight finds a pending future: await it, shielded. *)
Join(r) ==
    /\ pc[r] = "loop"
    /\ inflight[ProcOf[r]][genOf[r]] # None
    /\ waitsOn' = [waitsOn EXCEPT ![r] = inflight[ProcOf[r]][genOf[r]]]
    /\ pc' = [pc EXCEPT ![r] = "wait"]
    /\ UNCHANGED <<db, redis, inflight, genOf, val, writer, history, floor>>

(* Bug: every miss computes, whoever is computing already. *)
LeadAlways(r) ==
    /\ pc[r] = "loop"
    /\ inflight' = [inflight EXCEPT ![ProcOf[r]][genOf[r]] = r]
    /\ waitsOn' = [waitsOn EXCEPT ![r] = None]
    /\ pc' = [pc EXCEPT ![r] = "compute"]
    /\ UNCHANGED <<db, redis, genOf, val, writer, history, floor>>

(* It finds none: register a future and hand compute to the thread pool.  *)
Lead(r) ==
    /\ pc[r] = "loop"
    /\ inflight[ProcOf[r]][genOf[r]] = None
    /\ inflight' = [inflight EXCEPT ![ProcOf[r]][genOf[r]] = r]
    /\ waitsOn' = [waitsOn EXCEPT ![r] = None]
    /\ pc' = [pc EXCEPT ![r] = "compute"]
    /\ UNCHANGED <<db, redis, genOf, val, writer, history, floor>>

(* compute reads the database on a worker thread; it may raise (a 404).   *)
ReadDb(r) ==
    /\ pc[r] = "compute"
    /\ val' = [val EXCEPT ![r] = db]
    /\ \E outcome \in {"computed", "raised"} : pc' = [pc EXCEPT ![r] = outcome]
    /\ UNCHANGED <<db, redis, inflight, genOf, waitsOn, writer, history, floor>>

Waiters(r) == {w \in Readers : pc[w] = "wait" /\ waitsOn[w] = r}

(* r's future is resolved: the waiters go to outcome with r's value, r to  *)
(* next, and the entry leaves _inflight if it is still r's.                *)
Resolve(r, outcome, next) ==
    /\ pc' = [w \in Readers |-> IF w = r THEN next
                                ELSE IF w \in Waiters(r) THEN outcome ELSE pc[w]]
    /\ val' = [w \in Readers |-> IF w \in Waiters(r) THEN val[r] ELSE val[w]]
    /\ waitsOn' = [w \in Readers |-> IF w \in Waiters(r) THEN None ELSE waitsOn[w]]
    /\ inflight' = IF inflight[ProcOf[r]][genOf[r]] = r
                   THEN [inflight EXCEPT ![ProcOf[r]][genOf[r]] = None]
                   ELSE inflight

(* The coroutine resumes with the computed value: set_result, then store. *)
Settle(r) ==
    /\ pc[r] = "computed"
    /\ Resolve(r, "done", "store")
    /\ UNCHANGED <<db, redis, genOf, writer, history, floor>>

(* compute raised: waiters share the failure and nothing is stored. *)
SettleError(r) ==
    /\ pc[r] = "raised"
    /\ Resolve(r, "failed", "failed")
    /\ UNCHANGED <<db, redis, genOf, writer, history, floor>>

(* Bug: the generation is read again at the time of the SET. *)
StoreUnderCurrent(r) ==
    /\ pc[r] = "store"
    /\ entries' = [entries EXCEPT ![gen] = val[r]]
    /\ pc' = [pc EXCEPT ![r] = "done"]
    /\ UNCHANGED <<db, gen, inflight, genOf, val, waitsOn, writer, history, floor>>

(* SET with the entry's TTL. *)
Store(r) ==
    /\ pc[r] = "store"
    /\ entries' = [entries EXCEPT ![genOf[r]] = val[r]]
    /\ pc' = [pc EXCEPT ![r] = "done"]
    /\ UNCHANGED <<db, gen, inflight, genOf, val, waitsOn, writer, history, floor>>

(* SET fails: the caller is answered all the same. *)
StoreFails(r) ==
    /\ pc[r] = "store"
    /\ pc' = [pc EXCEPT ![r] = "done"]
    /\ UNCHANGED <<db, redis, inflight, genOf, val, waitsOn, writer, history, floor>>

(* Bug: no finally, the entry stays in _inflight. *)
CancelLeaderLeaks(r) ==
    /\ pc[r] \in Leading
    /\ pc' = [w \in Readers |-> IF w = r THEN "idle"
                                ELSE IF w \in Waiters(r) THEN "loop" ELSE pc[w]]
    /\ val' = [val EXCEPT ![r] = 0]
    /\ UNCHANGED <<db, redis, inflight, genOf, waitsOn, writer, history, floor>>

(* Bug: the future is dropped but never cancelled. *)
CancelLeaderSilently(r) ==
    /\ pc[r] \in Leading
    /\ pc' = [pc EXCEPT ![r] = "idle"]
    /\ val' = [val EXCEPT ![r] = 0]
    /\ inflight' = [inflight EXCEPT ![ProcOf[r]][genOf[r]] = None]
    /\ UNCHANGED <<db, redis, genOf, waitsOn, writer, history, floor>>

(* Where a cancellation leaves the slot: the thread pool does not stop a   *)
(* query that has begun, it only drops one that still waits for a thread.  *)
Abandoned(r) == IF pc[r] \in {"compute", "bypass"} THEN {"gone", "idle"} ELSE {"idle"}

(* The computing caller goes away: its future is cancelled and the waiters *)
(* go back to the loop to take over, whether its query still runs or not.  *)
CancelLeader(r) ==
    /\ pc[r] \in Leading
    /\ \E end \in Abandoned(r) :
          pc' = [w \in Readers |-> IF w = r THEN end
                                   ELSE IF w \in Waiters(r) THEN "loop" ELSE pc[w]]
    /\ val' = [val EXCEPT ![r] = 0]
    /\ inflight' = IF inflight[ProcOf[r]][genOf[r]] = r
                   THEN [inflight EXCEPT ![ProcOf[r]][genOf[r]] = None]
                   ELSE inflight
    /\ UNCHANGED <<db, redis, genOf, waitsOn, writer, history, floor>>

(* Any other caller goes away.  One that is about to take over from a      *)
(* cancelled leader (waitsOn still set at the loop) cannot tell its own    *)
(* cancellation from the leader's and carries on: no step for it here.     *)
CancelOther(r) ==
    /\ \/ pc[r] \in {"gen", "entry", "wait", "store", "bypass"}
       \/ pc[r] = "loop" /\ waitsOn[r] = None
    /\ \E end \in Abandoned(r) : pc' = [pc EXCEPT ![r] = end]
    /\ val' = [val EXCEPT ![r] = 0]
    /\ waitsOn' = [waitsOn EXCEPT ![r] = None]
    /\ \/ UNCHANGED entries
       \/ pc[r] = "store" /\ entries' = [entries EXCEPT ![genOf[r]] = val[r]]
    /\ UNCHANGED <<db, gen, inflight, genOf, writer, history, floor>>

Cancel(r) == CancelLeader(r) \/ CancelOther(r)

(* A query nobody waits for any more ends: its result is thrown away. *)
QueryEnds(r) ==
    /\ pc[r] = "gone"
    /\ pc' = [pc EXCEPT ![r] = "idle"]
    /\ UNCHANGED <<db, redis, inflight, genOf, val, waitsOn, writer, history, floor>>

(* Bug: SET without ex, the entry never goes away. *)
ExpireNever(g) == FALSE /\ entries[g] # None /\ UNCHANGED vars

(* Redis drops an entry at the end of its TTL. *)
Expire(g) ==
    /\ entries[g] # None
    /\ entries' = [entries EXCEPT ![g] = None]
    /\ UNCHANGED <<db, gen, inflight, pc, genOf, val, waitsOn, writer, history, floor>>

-----------------------------------------------------------------------------
(* Writers *)

(* A transaction commits.  A route commits once before it invalidates; a   *)
(* library sync or a metadata refresh commits batch after batch.           *)
Commit(w) ==
    /\ db < MaxWrites
    /\ db' = db + 1
    /\ wver' = [wver EXCEPT ![w] = db + 1]
    /\ wpc' = [wpc EXCEPT ![w] = "bump"]
    /\ UNCHANGED <<redis, inflight, pc, genOf, val, waitsOn, history, floor>>

(* Bug: the counter of another scope is bumped. *)
BumpOtherScope(w) ==
    /\ wpc[w] = "bump"
    /\ acked' = IF wver[w] > acked THEN wver[w] ELSE acked
    /\ wpc' = [wpc EXCEPT ![w] = "idle"]
    /\ UNCHANGED <<db, redis, base, inflight, pc, genOf, val, waitsOn, wver, floor>>

(* invalidate: INCR of the generation, after the commit. *)
Bump(w) ==
    /\ wpc[w] = "bump"
    /\ gen < MaxGen
    /\ gen' = gen + 1
    /\ base' = [base EXCEPT ![gen + 1] = db]
    /\ acked' = IF wver[w] > acked THEN wver[w] ELSE acked
    /\ wpc' = [wpc EXCEPT ![w] = "idle"]
    /\ UNCHANGED <<db, entries, inflight, pc, genOf, val, waitsOn, wver, floor>>

(* The counter is not bumped: no store, a Redis error (ignored), or the    *)
(* process or the job dies between the commit and the call.                *)
LoseBump(w) ==
    /\ wpc[w] = "bump"
    /\ wpc' = [wpc EXCEPT ![w] = "idle"]
    /\ UNCHANGED <<db, redis, inflight, pc, genOf, val, waitsOn, wver, history, floor>>

-----------------------------------------------------------------------------
(* One step of the coroutine of r that is not a cancellation. *)
Step(r) ==
    \/ GetGen(r) \/ StoreDown(r) \/ ComputeUncached(r)
    \/ Hit(r) \/ Miss(r) \/ Join(r) \/ Lead(r)
    \/ ReadDb(r) \/ Settle(r) \/ SettleError(r)
    \/ Store(r) \/ StoreFails(r) \/ QueryEnds(r)

Next ==
    \/ \E r \in Readers : Start(r) \/ Step(r) \/ Cancel(r)
    \/ \E w \in Writers : Commit(w) \/ Bump(w) \/ LoseBump(w)
    \/ \E g \in Gens : Expire(g)

Spec == Init /\ [][Next]_vars

(* The event loop, the thread pool and Redis keep running, every query     *)
(* ends, orphaned ones included, and every entry is stored with a TTL.     *)
(* Nothing makes a client send or cancel a request.                        *)
Fairness ==
    /\ \A r \in Readers : WF_vars(Step(r))
    /\ \A g \in Gens : WF_vars(Expire(g))

FairSpec == Spec /\ Fairness

-----------------------------------------------------------------------------
(* Properties *)

(* A request that starts after a write has been acknowledged (its bump     *)
(* done) is never answered, from Redis, from a computation it joined or    *)
(* took over, or with a shared error, on a state older than that write.    *)
ReadsAreFresh ==
    \A r \in Readers : pc[r] \in {"done", "failed"} => val[r] >= floor[r]

(* "A reader that computed from pre-write data can only ever store it      *)
(* under the retired generation": whatever is, or is about to be, stored   *)
(* under the current generation saw every acknowledged write.              *)
CurrentEntryIsFresh ==
    /\ entries[gen] # None => entries[gen] >= acked
    /\ \A r \in Readers :
          pc[r] \in {"computed", "store"} /\ genOf[r] = gen => val[r] >= acked

(* Every waiter awaits a computation whose caller is still there, in its   *)
(* own process and under its own generation; and when several queries for  *)
(* one entry run in a process, all but at most one have lost their caller: *)
(* no request computes beside another that waits for the same answer.      *)
OneComputationPerEntry ==
    /\ \A r \in Readers : pc[r] = "wait" =>
          LET l == waitsOn[r] IN
          l \in Readers /\ pc[l] \in Leading
                        /\ ProcOf[l] = ProcOf[r] /\ genOf[l] = genOf[r]
    /\ \A r, s \in Readers :
          /\ r # s /\ ProcOf[r] = ProcOf[s] /\ genOf[r] = genOf[s]
          /\ pc[r] \in Leading \cup Orphaned /\ pc[s] \in Leading \cup Orphaned
          => pc[r] \in Orphaned \/ pc[s] \in Orphaned

(* The inductive invariant behind the freshness of the answers.            *)

(* A generation is born with a commit count, and that count bounds what    *)
(* has been acknowledged from above and what is stored from below.         *)
GenerationFloor ==
    /\ acked <= base[gen]
    /\ \A g \in Gens : base[g] <= db
    /\ \A w \in Writers : wver[w] <= db
    /\ \A g \in Gens : entries[g] # None =>
          g <= gen /\ base[g] <= entries[g] /\ entries[g] <= db

(* A request works under a generation at least as new as its floor, and    *)
(* what it computed is at least as new as that generation.                 *)
ReaderFloor ==
    \A r \in Readers :
        /\ floor[r] <= acked
        /\ val[r] <= db
        /\ pc[r] \in Busy \ {"gen", "bypass"} =>
              genOf[r] <= gen /\ floor[r] <= base[genOf[r]]
        /\ pc[r] \in {"computed", "raised", "store"} => base[genOf[r]] <= val[r]

(* _inflight holds exactly the computations that are running, and a waiter *)
(* awaits the one registered for its own entry.                            *)
InflightExact ==
    /\ \A p \in Procs, g \in Gens : inflight[p][g] # None =>
          LET l == inflight[p][g] IN
          pc[l] \in Leading /\ ProcOf[l] = p /\ genOf[l] = g
    /\ \A r \in Readers : pc[r] \in Leading =>
          inflight[ProcOf[r]][genOf[r]] = r
    /\ \A r \in Readers : pc[r] = "wait" =>
          waitsOn[r] \in Readers /\ inflight[ProcOf[r]][genOf[r]] = waitsOn[r]

CacheInv ==
    /\ TypeOK
    /\ GenerationFloor
    /\ ReaderFloor
    /\ InflightExact
    /\ ReadsAreFresh

(* The promise of FreshReads, with the coroutine's position abstracted to  *)
(* the request's phase.                                                    *)
phaseOf == [r \in Readers |-> IF pc[r] \in Busy THEN "pending"
                             ELSE IF pc[r] \in Orphaned THEN "idle" ELSE pc[r]]
answerOf == [r \in Readers |-> IF pc[r] \in {"done", "failed"} THEN val[r] ELSE 0]
Fresh == INSTANCE FreshReads WITH phase <- phaseOf, answer <- answerOf
ImplementsFreshReads == Fresh!FreshSpec

(* Once callers stop going away, every request ends: no waiter is left     *)
(* behind by a leader that was cancelled, failed or lost Redis.            *)
EveryRequestEnds ==
    <>[][\A r \in Readers : ~ Cancel(r)]_vars
        => \A r \in Readers : pc[r] \in Busy \cup Orphaned ~> pc[r] \in Ended

(* "TTLs bound staleness if Redis is down": even when bumps are lost, the  *)
(* current entry eventually agrees with the database for good, once the    *)
(* writes stop (MaxWrites bounds them).                                    *)
StalenessIsBounded == <>[](entries[gen] = None \/ entries[gen] = db)

=============================================================================
