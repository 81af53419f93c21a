-------------------------- MODULE SteamSyncProofs --------------------------
(***************************************************************************)
(* The Steam sync, for every number of players and games, every batch size *)
(* and any number of failed calls and dead runs.                           *)
(*                                                                         *)
(* What is stored is right because of what the running job has planned: a  *)
(* row it has not saved yet is still the one it listed, every answer that  *)
(* waits was true when it was given, and what a row knew then is no more   *)
(* than what it is about to be told.                                       *)
(***************************************************************************)
EXTENDS SteamSync, FiniteSetTheorems, SequenceTheorems, TLAPS

(* A row of app a, when a has been played that much: no row is ahead of    *)
(* Steam, only apps with achievements have counts, and of an app without   *)
(* minutes nothing was asked.                                              *)
TrueRow(row, a, played) ==
    row # None =>
        /\ row.minutes <= played
        /\ Known(row.counts) => /\ row.counts >= row.minutes /\ row.counts <= played
                                /\ a \in Achieving
        /\ row.counts # None => row.minutes # 0

TablesOK(tables, played) ==
    /\ tables \in Tables
    /\ \A u \in Users, a \in Apps :
           /\ TrueRow(tables.latest[u][a], a, played[u][a])
           /\ tables.latest[u][a] # None => a \in tables.games

(* new follows old: the counts of a game that was not played on are kept,  *)
(* and what was counted is no more than what has been played since.        *)
RowGrows(old, new) ==
    old # None =>
        /\ new # None
        /\ new.minutes >= old.minutes
        /\ new.minutes = old.minutes => new.counts = old.counts
        /\ old.counts # None => new.counts # None
        /\ new.minutes > old.minutes /\ Known(old.counts) => old.counts <= new.minutes

(* Settled genres stay, but that IGDB fills what was settled as empty. *)
GenresGrow(old, new) ==
    \A a \in Apps :
        old.genres[a] # "unasked" =>
            \/ new.genres[a] = old.genres[a]
            \/ old.genres[a] = "none" /\ new.genres[a] = "igdb"

Grown(old, new) ==
    /\ old.games \subseteq new.games
    /\ GenresGrow(old, new)
    /\ \A u \in Users, a \in Apps : RowGrows(old.latest[u][a], new.latest[u][a])

(* The calls whose answers have not been read. *)
Open(j) == j.waiting \cup {j.finished[i][1] : i \in DOMAIN j.finished}

(* An answer to a call for app a, which had owned minutes when it was      *)
(* listed and has been played that much now.                               *)
Truthful(call, answer, owned, played) ==
    call[1] = "achievements" /\ answer.is = "data" =>
        call[2] \in Achieving /\ owned <= answer.count /\ answer.count <= played

(* Every call is answered once. *)
EachOnce(j) ==
    /\ \A i \in DOMAIN j.finished : j.finished[i][1] \notin j.waiting
    /\ \A i, k \in DOMAIN j.finished : j.finished[i][1] = j.finished[k][1] => i = k

(* The plan of a run, and how far it has got. *)
PlanOK(j, tables, played) ==
    /\ Library[j.user] \subseteq tables.games
    /\ j.ready \subseteq Library[j.user]
    /\ \A a \in Library[j.user] :
           /\ j.owned[a] <= played[j.user][a]
           /\ TrueRow(j.previous[a], a, j.owned[a])
           /\ \/ a \in j.ready
              \/ <<"achievements", a>> \in Open(j)
              \/ tables.latest[j.user][a] # None
    /\ \A a \in j.ready :
           /\ tables.latest[j.user][a] = j.previous[a]
           /\ j.owned[a] = 0 \/ (j.previous[a] # None /\ j.previous[a].minutes = j.owned[a])
    /\ \A a \in Apps : <<"achievements", a>> \in Open(j) =>
           /\ a \in Library[j.user] \ j.ready
           /\ j.owned[a] # 0
           /\ tables.latest[j.user][a] = j.previous[a]
           /\ j.previous[a] # None => j.previous[a].minutes # j.owned[a]
    /\ \A a \in Apps : <<"genres", a>> \in Open(j) => tables.genres[a] = "unasked"
    /\ EachOnce(j)
    /\ \A i \in DOMAIN j.finished :
           LET call == j.finished[i][1]
           IN  Truthful(call, j.finished[i][2], j.owned[call[2]], played[j.user][call[2]])

JobOK(j, tables, played) ==
    /\ j \in Job
    /\ j.at \in {"save", "fetch"} => PlanOK(j, tables, played)
    /\ j.at \in {"list", "save"} => j.finished = <<>>
    /\ j.at = "fetch" => j.ready = {}
    /\ j.at = "stamp" => \A a \in Library[j.user] : tables.latest[j.user][a] # None

(* What old and new tables differ in. *)
GenresChanged(old, new) == {a \in Apps : new.genres[a] # old.genres[a]}
RowsChanged(old, new) ==
    {p \in Users \X Apps : new.latest[p[1]][p[2]] # old.latest[p[1]][p[2]]}
AtRisk(old, new, pending) ==
    /\ IsFiniteSet(GenresChanged(old, new))
    /\ IsFiniteSet(RowsChanged(old, new))
    /\ Cardinality(GenresChanged(old, new)) + Cardinality(RowsChanged(old, new)) <= pending

(* Only while it saves and fetches does a run have anything to commit. *)
Clean(j) == j # None => j.at \notin {"save", "fetch"}

SyncInv ==
    /\ TypeOK
    /\ TablesOK(db, minutes)
    /\ TablesOK(session, minutes)
    /\ Grown(db, session)
    /\ Clean(job) => session = db
    /\ job # None => JobOK(job, session, minutes) /\ AtRisk(db, session, job.pending)
    /\ \A u \in stamped : \A a \in Library[u] : db.latest[u][a] # None

(* The body of GenresAreAskedOnce. *)
AsksOnce ==
    \A a \in Apps :
        /\ db.genres[a] # "unasked" =>
               \/ db.genres'[a] = db.genres[a]
               \/ db.genres[a] = "none" /\ db.genres'[a] = "igdb"
        /\ job # None /\ job' # None /\ <<"genres", a>> \in job'.waiting \ job.waiting =>
               db.genres[a] = "unasked"

(* The body of KnowledgeGrows. *)
RowsKept ==
    \A u \in Users, a \in Apps :
        LET old == db.latest[u][a]
            new == db.latest'[u][a]
        IN  old # None =>
               /\ new # None
               /\ new.minutes >= old.minutes
               /\ old.counts # None => new.counts # None
               /\ Known(old.counts) =>
                      \/ Known(new.counts) /\ new.counts >= old.counts
                      \/ new.counts = NoData /\ new.minutes > old.minutes

(* What every step does: it preserves the invariant, and what is committed *)
(* only grows.                                                             *)
Fine == SyncInv' /\ Grown(db, db') /\ AsksOnce

-----------------------------------------------------------------------------
(* Tables *)

LEMMA TypeOfTables ==
    ASSUME NEW tables \in Tables
    PROVE  /\ tables.games \in SUBSET Apps
           /\ tables.genres \in [Apps -> Genres]
           /\ tables.latest \in [Users -> [Apps -> Snapshot \cup {None}]]
           /\ \A u \in Users, a \in Apps : tables.latest[u][a] \in Snapshot \cup {None}
  BY DEF Tables

LEMMA TypeOfRow ==
    ASSUME NEW row \in Snapshot
    PROVE  /\ row # None /\ row.minutes \in Nat
           /\ row.counts \in Nat \cup {None, NoData}
           /\ Known(row.counts) <=> row.counts \in Nat
  BY SyncAssumption, NoneAssumption DEF Snapshot, Known

LEMMA RowGrowsItself ==
    ASSUME NEW row \in Snapshot \cup {None}
    PROVE  RowGrows(row, row)
  BY TypeOfRow DEF RowGrows

(* A row that follows one that follows another follows that one. *)
LEMMA RowGrowsOn ==
    ASSUME NEW x \in Snapshot \cup {None}, NEW y \in Snapshot \cup {None},
           NEW z \in Snapshot \cup {None}, RowGrows(x, y), RowGrows(y, z)
    PROVE  RowGrows(x, z)
<1> SUFFICES ASSUME x # None
             PROVE  /\ z # None
                    /\ z.minutes >= x.minutes
                    /\ z.minutes = x.minutes => z.counts = x.counts
                    /\ x.counts # None => z.counts # None
                    /\ z.minutes > x.minutes /\ Known(x.counts) => x.counts <= z.minutes
  BY DEF RowGrows
<1>1. /\ y # None /\ y.minutes >= x.minutes
      /\ y.minutes = x.minutes => y.counts = x.counts
      /\ x.counts # None => y.counts # None
      /\ y.minutes > x.minutes /\ Known(x.counts) => x.counts <= y.minutes
  BY DEF RowGrows
<1>2. /\ z # None /\ z.minutes >= y.minutes
      /\ z.minutes = y.minutes => z.counts = y.counts
      /\ y.counts # None => z.counts # None
      /\ z.minutes > y.minutes /\ Known(y.counts) => y.counts <= z.minutes
  BY <1>1 DEF RowGrows
<1>3. /\ x.minutes \in Nat /\ y.minutes \in Nat /\ z.minutes \in Nat
      /\ Known(x.counts) => x.counts \in Nat
  BY <1>1, <1>2, TypeOfRow
<1>4. CASE y.minutes = x.minutes
  BY <1>1, <1>2, <1>3, <1>4
<1>5. CASE y.minutes > x.minutes
  BY <1>1, <1>2, <1>3, <1>5
<1>6. QED
  BY <1>1, <1>3, <1>4, <1>5

LEMMA GrownItself ==
    ASSUME NEW tables \in Tables
    PROVE  Grown(tables, tables)
  BY TypeOfTables, RowGrowsItself DEF Grown, GenresGrow

LEMMA GrownOn ==
    ASSUME NEW x \in Tables, NEW y \in Tables, NEW z \in Tables, Grown(x, y), Grown(y, z)
    PROVE  Grown(x, z)
<1>1. ASSUME NEW u \in Users, NEW a \in Apps
      PROVE  RowGrows(x.latest[u][a], z.latest[u][a])
  <2>1. /\ x.latest[u][a] \in Snapshot \cup {None}
        /\ y.latest[u][a] \in Snapshot \cup {None}
        /\ z.latest[u][a] \in Snapshot \cup {None}
    BY TypeOfTables
  <2>2. RowGrows(x.latest[u][a], y.latest[u][a]) /\ RowGrows(y.latest[u][a], z.latest[u][a])
    BY DEF Grown
  <2>3. QED
    BY <2>1, <2>2, RowGrowsOn
<1>2. GenresGrow(x, z)
  BY DEF Grown, GenresGrow
<1>3. QED
  BY <1>1, <1>2 DEF Grown

(* A known count follows an older one because it is no older than its own  *)
(* minutes, which are no less than what was counted before.                *)
LEMMA GrownKeepsRows ==
    ASSUME TablesOK(db, minutes), TablesOK(db, minutes)', Grown(db, db')
    PROVE  RowsKept
<1> SUFFICES ASSUME NEW u \in Users, NEW a \in Apps, NEW old, NEW new,
                    old = db.latest[u][a], new = db.latest'[u][a], old # None
             PROVE  /\ new # None
                    /\ new.minutes >= old.minutes
                    /\ old.counts # None => new.counts # None
                    /\ Known(old.counts) =>
                           \/ Known(new.counts) /\ new.counts >= old.counts
                           \/ new.counts = NoData /\ new.minutes > old.minutes
  BY DEF RowsKept
<1>1. old \in Snapshot /\ new \in Snapshot \cup {None}
  BY TypeOfTables DEF TablesOK
<1>2. /\ new # None /\ new.minutes >= old.minutes
      /\ new.minutes = old.minutes => new.counts = old.counts
      /\ old.counts # None => new.counts # None
      /\ new.minutes > old.minutes /\ Known(old.counts) => old.counts <= new.minutes
  BY DEF Grown, RowGrows
<1>3. Known(new.counts) => new.counts >= new.minutes
  BY <1>2 DEF TablesOK, TrueRow
<1>4. /\ old.minutes \in Nat /\ new.minutes \in Nat
      /\ Known(old.counts) => old.counts \in Nat
      /\ Known(new.counts) => new.counts \in Nat
  BY <1>1, <1>2, TypeOfRow
<1>5. ASSUME Known(old.counts)
      PROVE  \/ Known(new.counts) /\ new.counts >= old.counts
             \/ new.counts = NoData /\ new.minutes > old.minutes
  <2>1. old.counts # None
    BY <1>5 DEF Known
  <2>2. CASE new.minutes = old.minutes
    BY <1>2, <1>4, <1>5, <2>2
  <2>3. CASE new.minutes > old.minutes /\ Known(new.counts)
    BY <1>2, <1>3, <1>4, <1>5, <2>3
  <2>4. CASE new.minutes > old.minutes /\ ~ Known(new.counts)
    BY <1>2, <2>1, <2>4 DEF Known
  <2>5. QED
    BY <1>2, <1>4, <2>2, <2>3, <2>4
<1>6. QED
  BY <1>2, <1>5

(* Rows stay true while players play on. *)
LEMMA TrueRowLater ==
    ASSUME NEW row \in Snapshot \cup {None}, NEW a, NEW m \in Nat, NEW n \in Nat, m <= n,
           TrueRow(row, a, m)
    PROVE  TrueRow(row, a, n)
<1>1. row # None => row.minutes \in Nat /\ (Known(row.counts) => row.counts \in Nat)
  BY TypeOfRow
<1>2. QED
  BY <1>1 DEF TrueRow

Minutes == [Users -> [Apps -> 0 .. MaxMinutes]]
Played(before, after) == \A u \in Users, a \in Apps : before[u][a] <= after[u][a]

LEMMA TablesLater ==
    ASSUME NEW tables, NEW before \in Minutes, NEW after \in Minutes, Played(before, after),
           TablesOK(tables, before)
    PROVE  TablesOK(tables, after)
<1>1. tables \in Tables
  BY DEF TablesOK
<1>2. \A u \in Users, a \in Apps : before[u][a] \in Nat /\ after[u][a] \in Nat
  BY SyncAssumption DEF Minutes
<1>3. \A u \in Users, a \in Apps : TrueRow(tables.latest[u][a], a, after[u][a])
  BY <1>1, <1>2, TypeOfTables, TrueRowLater DEF TablesOK, Played
<1>4. QED
  BY <1>3 DEF TablesOK

LEMMA TypeOfJob ==
    ASSUME NEW j \in Job
    PROVE  /\ j.user \in Users /\ Library[j.user] \subseteq Apps
           /\ j.owned \in [Apps -> 0 .. MaxMinutes]
           /\ \A a \in Apps : j.owned[a] \in Nat
           /\ \A a \in Apps : j.previous[a] \in Snapshot \cup {None}
           /\ j.ready \subseteq Apps
           /\ j.waiting \subseteq Calls
           /\ j.finished \in Seq(Calls \X Answers)
           /\ j.failed \in Nat /\ j.pending \in Nat /\ j.pending < CommitEvery
<1>1. /\ j.user \in Users
      /\ j.owned \in [Apps -> 0 .. MaxMinutes]
      /\ j.previous \in [Apps -> Snapshot \cup {None}]
      /\ j.ready \subseteq Apps
      /\ j.waiting \subseteq Calls
      /\ j.finished \in Seq(Calls \X Answers)
      /\ j.failed \in 0 .. MaxFailedCalls
      /\ j.pending \in 0 .. CommitEvery - 1
  BY DEF Job
<1>2. Library[j.user] \subseteq Apps
  BY <1>1, SyncAssumption
<1>3. \A a \in Apps : j.owned[a] \in Nat /\ j.previous[a] \in Snapshot \cup {None}
  BY <1>1, SyncAssumption
<1>4. j.failed \in Nat /\ j.pending \in Nat /\ j.pending < CommitEvery
  BY <1>1, SyncAssumption
<1>5. QED
  BY <1>1, <1>2, <1>3, <1>4

LEMMA TypeOfAnswers ==
    ASSUME NEW j \in Job, NEW i \in DOMAIN j.finished
    PROVE  /\ j.finished[i] \in Calls \X Answers
           /\ j.finished[i][1] \in Calls
           /\ j.finished[i][1][2] \in Apps
           /\ j.finished[i][2] \in Answers
           /\ j.finished[i][2].count \in 0 .. MaxMinutes
           /\ j.finished[i][2].count \in Nat
<1>1. j.finished \in Seq(Calls \X Answers)
  BY TypeOfJob
<1>2. j.finished[i] \in Calls \X Answers
  BY <1>1, ElementOfSeq
<1>3. QED
  BY <1>2, SyncAssumption DEF Calls, Answers

LEMMA PlanLater ==
    ASSUME NEW j \in Job, NEW tables, NEW before \in Minutes, NEW after \in Minutes,
           Played(before, after), PlanOK(j, tables, before)
    PROVE  PlanOK(j, tables, after)
<1>1. \A u \in Users, a \in Apps : before[u][a] \in Nat /\ after[u][a] \in Nat /\ before[u][a] <= after[u][a]
  BY SyncAssumption DEF Minutes, Played
<1>2. j.user \in Users /\ Library[j.user] \subseteq Apps /\ \A a \in Apps : j.owned[a] \in Nat
  BY TypeOfJob
<1>3. \A a \in Library[j.user] : j.owned[a] <= after[j.user][a]
  <2>1. \A a \in Library[j.user] : j.owned[a] <= before[j.user][a]
    BY DEF PlanOK
  <2>2. QED
    BY <1>1, <1>2, <2>1
<1>4. ASSUME NEW i \in DOMAIN j.finished
      PROVE  LET call == j.finished[i][1]
             IN  Truthful(call, j.finished[i][2], j.owned[call[2]], after[j.user][call[2]])
  <2> DEFINE call == j.finished[i][1]
             answer == j.finished[i][2]
  <2>1. call[2] \in Apps /\ answer.count \in Nat
    BY TypeOfAnswers
  <2>2. Truthful(call, answer, j.owned[call[2]], before[j.user][call[2]])
    BY DEF PlanOK
  <2>3. before[j.user][call[2]] \in Nat /\ after[j.user][call[2]] \in Nat
        /\ before[j.user][call[2]] <= after[j.user][call[2]]
    BY <1>1, <1>2, <2>1
  <2> HIDE DEF call, answer
  <2>4. Truthful(call, answer, j.owned[call[2]], after[j.user][call[2]])
    BY <2>1, <2>2, <2>3 DEF Truthful
  <2>5. QED
    BY <2>4 DEF call, answer
<1>5. QED
  BY <1>3, <1>4 DEF PlanOK

LEMMA JobLater ==
    ASSUME NEW j, NEW tables, NEW before \in Minutes, NEW after \in Minutes,
           Played(before, after), JobOK(j, tables, before)
    PROVE  JobOK(j, tables, after)
  BY PlanLater DEF JobOK

-----------------------------------------------------------------------------
(* Steps that write nothing *)

LEMMA InvOf ==
    ASSUME SyncInv
    PROVE  /\ TypeOK /\ minutes \in Minutes /\ db \in Tables /\ session \in Tables
           /\ job # None => job \in Job /\ JobOK(job, session, minutes)
  BY DEF SyncInv, TypeOK, Minutes

LEMMA TypesLater ==
    ASSUME TypeOK, minutes' \in Minutes, db' \in Tables, session' \in Tables,
           job' \in Job \cup {None}, stamped' \subseteq Users, untold' \subseteq Listeners,
           untagged' \subseteq Apps, deaths' \in 0 .. MaxDeaths
    PROVE  TypeOK'
  BY DEF TypeOK, Minutes

(* Nothing is committed. *)
LEMMA NoCommitIsFine ==
    ASSUME SyncInv, db' = db, minutes' \in Minutes, Played(minutes, minutes'),
           TablesOK(session', minutes'), Grown(db, session'),
           job' \in Job \cup {None},
           stamped' \subseteq Users, \A u \in stamped' : \A a \in Library[u] : db.latest[u][a] # None,
           untold' \subseteq Listeners, untagged' \subseteq Apps, deaths' \in 0 .. MaxDeaths,
           Clean(job') => session' = db,
           job' # None => JobOK(job', session', minutes') /\ AtRisk(db, session', job'.pending),
           AsksOnce
    PROVE  Fine
<1>1. TypeOK /\ db \in Tables /\ minutes \in Minutes /\ TablesOK(db, minutes)
  BY InvOf DEF SyncInv
<1>2. session' \in Tables
  BY DEF TablesOK
<1>3. TypeOK'
  BY <1>1, <1>2, TypesLater
<1>4. TablesOK(db', minutes')
  BY <1>1, TablesLater
<1>5. Grown(db, db')
  BY <1>1, GrownItself
<1>6. SyncInv'
  BY <1>3, <1>4 DEF SyncInv
<1>7. QED
  BY <1>5, <1>6 DEF Fine

(* Nothing pending is nothing at risk. *)
LEMMA NothingAtRisk ==
    ASSUME NEW tables, NEW pending \in Nat
    PROVE  AtRisk(tables, tables, pending)
<1>1. GenresChanged(tables, tables) = {} /\ RowsChanged(tables, tables) = {}
  BY DEF GenresChanged, RowsChanged
<1>2. QED
  BY <1>1, FS_EmptySet DEF AtRisk

LEMMA NothingAsked ==
    ASSUME db' = db, job' = None \/ job = None \/ job'.waiting \subseteq job.waiting
    PROVE  AsksOnce
  BY DEF AsksOnce

LEMMA PlayIsFine ==
    ASSUME SyncInv, NEW u \in Users, NEW a \in Apps, Play(u, a)
    PROVE  Fine
<1>1. /\ TypeOK /\ minutes \in Minutes /\ db' = db /\ session' = session /\ job' = job
      /\ stamped' = stamped /\ untold' = untold /\ untagged' = untagged /\ deaths' = deaths
      /\ minutes' = [minutes EXCEPT ![u][a] = @ + 1] /\ minutes[u][a] < MaxMinutes
  BY InvOf DEF Play
<1>2. minutes[u][a] \in 0 .. MaxMinutes /\ MaxMinutes \in Nat
  BY <1>1, SyncAssumption DEF Minutes
<1>3. minutes[u][a] + 1 \in 0 .. MaxMinutes
  BY <1>1, <1>2
<1>4. minutes' \in Minutes
  BY <1>1, <1>3 DEF Minutes
<1>5. Played(minutes, minutes')
  <2> SUFFICES ASSUME NEW v \in Users, NEW b \in Apps
               PROVE  minutes[v][b] <= minutes'[v][b]
    BY DEF Played
  <2>1. minutes[v][b] \in Nat
    BY <1>1, SyncAssumption DEF Minutes
  <2>2. CASE v = u /\ b = a
    BY <1>1, <1>2, <2>2 DEF Minutes
  <2>3. CASE v # u \/ b # a
    BY <1>1, <2>1, <2>3 DEF Minutes
  <2>4. QED
    BY <2>2, <2>3
<1>6. TablesOK(session', minutes')
  BY <1>1, <1>4, <1>5, TablesLater DEF SyncInv
<1>7. job' # None => JobOK(job', session', minutes') /\ AtRisk(db, session', job'.pending)
  BY <1>1, <1>4, <1>5, JobLater DEF SyncInv
<1>8. AsksOnce
  BY <1>1, NothingAsked
<1>9. QED
  BY <1>1, <1>4, <1>5, <1>6, <1>7, <1>8, NoCommitIsFine DEF SyncInv, TypeOK

LEMMA NoTimePasses ==
    ASSUME SyncInv, minutes' = minutes
    PROVE  minutes' \in Minutes /\ Played(minutes, minutes')
  BY InvOf, SyncAssumption DEF Minutes, Played

LEMMA StartIsFine ==
    ASSUME SyncInv, NEW u \in Users, Start(u)
    PROVE  Fine
<1> DEFINE j == [user |-> u, at |-> "list", owned |-> [a \in Apps |-> 0],
                 previous |-> [a \in Apps |-> None], ready |-> {}, waiting |-> {},
                 finished |-> <<>>, failed |-> 0, pending |-> 0]
<1>1. /\ TypeOK /\ db' = db /\ minutes' = minutes /\ session' = db /\ job = None /\ job' = j
      /\ stamped' = stamped /\ untold' = untold /\ untagged' = untagged /\ deaths' = deaths
  BY InvOf DEF Start, Running
<1>2. <<>> \in Seq(Calls \X Answers)
  BY EmptySeq
<1>3. j \in Job
  BY <1>2, SyncAssumption DEF Job, Phases
<1>4. j.at = "list" /\ j.pending = 0 /\ j.finished = <<>>
  OBVIOUS
<1> HIDE DEF j
<1>5. JobOK(j, session', minutes')
  BY <1>3, <1>4 DEF JobOK
<1>6. AtRisk(db, session', j.pending)
  BY <1>1, <1>4, NothingAtRisk
<1>7. Grown(db, session') /\ TablesOK(session', minutes')
  BY <1>1, InvOf, GrownItself DEF SyncInv
<1>8. AsksOnce
  BY <1>1, NothingAsked
<1>9. QED
  BY <1>1, <1>3, <1>5, <1>6, <1>7, <1>8, NoTimePasses, NoCommitIsFine DEF SyncInv, TypeOK

(* A run that ends without a commit. *)
LEMMA AbortIsFine ==
    ASSUME SyncInv, Abort, UNCHANGED <<minutes, db, stamped, untold, untagged>>, deaths' \in 0 .. MaxDeaths
    PROVE  Fine
<1>1. TypeOK /\ db' = db /\ minutes' = minutes /\ session' = db /\ job' = None
  BY InvOf DEF Abort
<1>2. Grown(db, session') /\ TablesOK(session', minutes')
  BY <1>1, InvOf, GrownItself DEF SyncInv
<1>3. AsksOnce
  BY <1>1, NothingAsked
<1>4. QED
  BY <1>1, <1>2, <1>3, NoTimePasses, NoCommitIsFine DEF SyncInv, TypeOK

LEMMA ListFailsIsFine ==
    ASSUME SyncInv, ListFails
    PROVE  Fine
  BY AbortIsFine, InvOf DEF ListFails, TypeOK

LEMMA DieIsFine ==
    ASSUME SyncInv, Die
    PROVE  Fine
<1>1. deaths' \in 0 .. MaxDeaths
  BY InvOf, SyncAssumption DEF Die, TypeOK
<1>2. QED
  BY <1>1, AbortIsFine DEF Die

(* A run that goes on, with the tables it has. *)
LEMMA GoesOnIsFine ==
    ASSUME SyncInv, UNCHANGED <<minutes, db, session>>, job # None, job' \in Job,
           JobOK(job', session, minutes), job'.pending = job.pending,
           job'.waiting \subseteq job.waiting, Clean(job') => session = db,
           stamped' \subseteq Users, \A u \in stamped' : \A a \in Library[u] : db.latest[u][a] # None,
           untold' \subseteq Listeners, untagged' \subseteq Apps, deaths' = deaths
    PROVE  Fine
<1>1. TypeOK /\ TablesOK(session, minutes) /\ Grown(db, session) /\ AtRisk(db, session, job.pending)
  BY DEF SyncInv
<1>2. AsksOnce
  BY NothingAsked
<1>3. QED
  BY <1>1, <1>2, NoTimePasses, NoCommitIsFine DEF TypeOK

LEMMA StartCallsIsFine ==
    ASSUME SyncInv, StartCalls
    PROVE  Fine
<1> DEFINE j == [job EXCEPT !.at = "fetch"]
<1>1. /\ TypeOK /\ UNCHANGED <<minutes, db, session>> /\ job # None /\ job \in Job
      /\ JobOK(job, session, minutes) /\ job.at = "save" /\ job.ready = {} /\ job' = j
      /\ stamped' = stamped /\ untold' = untold /\ untagged' = untagged /\ deaths' = deaths
  BY InvOf DEF StartCalls, At, Running
<1>2. j \in Job
  BY <1>1 DEF Job, Phases
<1>3. /\ j.at = "fetch" /\ j.user = job.user /\ j.owned = job.owned /\ j.previous = job.previous
      /\ j.ready = job.ready /\ j.waiting = job.waiting /\ j.finished = job.finished
      /\ j.pending = job.pending
  BY <1>1 DEF Job
<1> HIDE DEF j
<1>4. PlanOK(job, session, minutes)
  BY <1>1 DEF JobOK
<1>5. PlanOK(j, session, minutes)
  <2>1. Open(j) = Open(job)
    BY <1>3 DEF Open
  <2>2. EachOnce(job) => EachOnce(j)
    BY <1>3 DEF EachOnce
  <2>3. QED
    BY <1>3, <1>4, <2>1, <2>2 DEF PlanOK
<1>6. JobOK(j, session, minutes)
  BY <1>1, <1>2, <1>3, <1>5 DEF JobOK
<1>7. ~Clean(j)
  BY <1>2, <1>3, NoneAssumption DEF Clean
<1>8. QED
  BY <1>1, <1>2, <1>3, <1>6, <1>7, GoesOnIsFine DEF SyncInv, TypeOK

AnsweredJob(j, call, answer) ==
    [j EXCEPT !.waiting = @ \ {call}, !.finished = Append(@, <<call, answer>>)]

(* An answered call waits to be read. *)
LEMMA AnsweredPlan ==
    ASSUME NEW j \in Job, NEW tables, NEW played, PlanOK(j, tables, played),
           NEW call \in j.waiting, NEW answer \in Answers,
           Truthful(call, answer, j.owned[call[2]], played[j.user][call[2]]),
           NEW k, k = AnsweredJob(j, call, answer)
    PROVE  /\ k \in Job /\ PlanOK(k, tables, played)
           /\ k.at = j.at /\ k.ready = j.ready /\ k.pending = j.pending
           /\ k.waiting \subseteq j.waiting
<1>1. /\ j.finished \in Seq(Calls \X Answers) /\ call \in Calls /\ <<call, answer>> \in Calls \X Answers
      /\ j.waiting \subseteq Calls
  BY TypeOfJob
<1>2. PICK n \in Nat : n = Len(j.finished)
  BY <1>1, LenProperties
<1>3. PICK s : s = Append(j.finished, <<call, answer>>)
  OBVIOUS
<1>4. /\ s \in Seq(Calls \X Answers) /\ Len(s) = n + 1
      /\ \A i \in 1 .. n : s[i] = j.finished[i]
      /\ s[n + 1] = <<call, answer>>
  BY <1>1, <1>2, <1>3, AppendProperties
<1>5. DOMAIN j.finished = 1 .. n /\ DOMAIN s = 1 .. n + 1
  BY <1>1, <1>2, <1>4, LenProperties
<1>6. k = [j EXCEPT !.waiting = @ \ {call}, !.finished = s]
  BY <1>3 DEF AnsweredJob
<1>7. k \in Job
  BY <1>1, <1>4, <1>6 DEF Job
<1>8. /\ k.at = j.at /\ k.user = j.user /\ k.owned = j.owned /\ k.previous = j.previous
      /\ k.ready = j.ready /\ k.pending = j.pending
      /\ k.waiting = j.waiting \ {call} /\ k.finished = s
  BY <1>6 DEF Job
<1>9. Open(k) = Open(j)
  <2>1. ASSUME NEW x \in Open(k) PROVE x \in Open(j)
    <3>1. CASE x \in k.waiting
      BY <3>1, <1>8 DEF Open
    <3>2. CASE x \in {s[i][1] : i \in DOMAIN s}
      <4>1. PICK i \in 1 .. n + 1 : x = s[i][1]
        BY <3>2, <1>5
      <4>2. CASE i = n + 1
        <5>1. x = call
          BY <4>1, <4>2, <1>4
        <5>2. QED
          BY <5>1 DEF Open
      <4>3. CASE i \in 1 .. n
        <5>1. x = j.finished[i][1] /\ i \in DOMAIN j.finished
          BY <4>1, <4>3, <1>4, <1>5
        <5>2. QED
          BY <5>1 DEF Open
      <4>4. QED
        BY <4>1, <4>2, <4>3
    <3>3. QED
      BY <3>1, <3>2, <2>1, <1>8 DEF Open
  <2>2. ASSUME NEW x \in Open(j) PROVE x \in Open(k)
    <3>1. CASE x \in j.waiting \ {call}
      BY <3>1, <1>8 DEF Open
    <3>2. CASE x = call
      <4>1. n + 1 \in DOMAIN s /\ s[n + 1][1] = call
        BY <1>4, <1>5
      <4>2. QED
        BY <3>2, <4>1, <1>8 DEF Open
    <3>3. CASE x \in {j.finished[i][1] : i \in DOMAIN j.finished}
      <4>1. PICK i \in 1 .. n : x = j.finished[i][1]
        BY <3>3, <1>5
      <4>2. i \in DOMAIN s /\ s[i][1] = x
        BY <4>1, <1>4, <1>5
      <4>3. QED
        BY <4>2, <1>8 DEF Open
    <3>4. QED
      BY <2>2, <3>1, <3>2, <3>3 DEF Open
  <2>3. QED
    BY <2>1, <2>2
<1>10. EachOnce(j) /\ \A i \in 1 .. n : j.finished[i][1] # call
  BY <1>5 DEF PlanOK, EachOnce
<1>11. EachOnce(k)
  <2>1. \A i \in 1 .. n + 1 : s[i][1] \notin k.waiting
    <3> SUFFICES ASSUME NEW i \in 1 .. n + 1
                 PROVE  s[i][1] \notin k.waiting
      OBVIOUS
    <3>1. CASE i = n + 1
      BY <3>1, <1>4, <1>8
    <3>2. CASE i \in 1 .. n
      BY <3>2, <1>4, <1>5, <1>8, <1>10 DEF EachOnce
    <3>3. QED
      BY <3>1, <3>2
  <2>2. \A i, m \in 1 .. n + 1 : s[i][1] = s[m][1] => i = m
    <3> SUFFICES ASSUME NEW i \in 1 .. n + 1, NEW m \in 1 .. n + 1, s[i][1] = s[m][1]
                 PROVE  i = m
      OBVIOUS
    <3>1. \A h \in 1 .. n : s[h][1] = j.finished[h][1] /\ s[h][1] # call
      BY <1>4, <1>10
    <3>2. s[n + 1][1] = call
      BY <1>4
    <3>3. CASE i \in 1 .. n /\ m \in 1 .. n
      BY <3>1, <3>3, <1>5, <1>10 DEF EachOnce
    <3>4. CASE i = n + 1 \/ m = n + 1
      BY <3>1, <3>2, <3>4
    <3>5. QED
      BY <3>3, <3>4
  <2>3. QED
    BY <2>1, <2>2, <1>5, <1>8 DEF EachOnce
<1>12. ASSUME NEW i \in DOMAIN s
       PROVE  Truthful(s[i][1], s[i][2], j.owned[s[i][1][2]], played[j.user][s[i][1][2]])
  <2>1. CASE i = n + 1
    BY <2>1, <1>4
  <2>2. CASE i \in 1 .. n
    <3>1. Truthful(j.finished[i][1], j.finished[i][2], j.owned[j.finished[i][1][2]],
                   played[j.user][j.finished[i][1][2]])
      BY <2>2, <1>5 DEF PlanOK
    <3>2. QED
      BY <2>2, <3>1, <1>4
  <2>3. QED
    BY <2>1, <2>2, <1>5
<1>13. PlanOK(k, tables, played)
  BY <1>8, <1>9, <1>11, <1>12 DEF PlanOK
<1>14. QED
  BY <1>7, <1>8, <1>13

LEMMA AnsweredIsFine ==
    ASSUME SyncInv, NEW call \in Calls, NEW answer \in Answers, Answered(call, answer),
           Truthful(call, answer, job.owned[call[2]], minutes[job.user][call[2]])
    PROVE  Fine
<1>1. /\ TypeOK /\ UNCHANGED <<minutes, db, session>> /\ job # None /\ job \in Job
      /\ JobOK(job, session, minutes) /\ job.at = "fetch" /\ call \in job.waiting
      /\ stamped' = stamped /\ untold' = untold /\ deaths' = deaths
      /\ job' = [job EXCEPT !.waiting = @ \ {call}, !.finished = Append(@, <<call, answer>>)]
  BY InvOf DEF Answered, At, Running
<1>2. PlanOK(job, session, minutes)
  BY <1>1 DEF JobOK
<1>3. PICK k : k = AnsweredJob(job, call, answer)
  OBVIOUS
<1>4. /\ k \in Job /\ PlanOK(k, session, minutes)
      /\ k.at = job.at /\ k.ready = job.ready /\ k.pending = job.pending
      /\ k.waiting \subseteq job.waiting
  BY <1>1, <1>2, <1>3, AnsweredPlan
<1>5. job' = k
  BY <1>1, <1>3 DEF AnsweredJob
<1>6. JobOK(k, session, minutes)
  BY <1>1, <1>4 DEF JobOK
<1>7. ~Clean(k)
  BY <1>1, <1>4, NoneAssumption DEF Clean
<1>8. untagged' \subseteq Apps
  BY <1>1 DEF Answered, Calls, TypeOK
<1>9. QED
  BY <1>1, <1>4, <1>5, <1>6, <1>7, <1>8, GoesOnIsFine DEF SyncInv, TypeOK

LEMMA SucceedIsFine ==
    ASSUME SyncInv, NEW call \in Calls, Succeed(call)
    PROVE  Fine
<1>1. PICK answer \in Found(call) : Answered(call, answer)
  BY DEF Succeed
<1>2. /\ minutes \in Minutes /\ job \in Job /\ JobOK(job, session, minutes) /\ job.at = "fetch"
      /\ call \in job.waiting
  BY <1>1, InvOf DEF Answered, At, Running
<1>3. job.user \in Users /\ call[2] \in Apps
  BY <1>2, TypeOfJob DEF Calls
<1>4. minutes[job.user][call[2]] \in 0 .. MaxMinutes /\ minutes[job.user][call[2]] \in Nat
  BY <1>2, <1>3, SyncAssumption DEF Minutes
<1>5. answer \in Answers
  BY <1>4, SyncAssumption DEF Found, NothingThere, Answers
<1>6. Truthful(call, answer, job.owned[call[2]], minutes[job.user][call[2]])
  <2> SUFFICES ASSUME call[1] = "achievements", answer.is = "data"
               PROVE  /\ call[2] \in Achieving /\ job.owned[call[2]] <= answer.count
                      /\ answer.count <= minutes[job.user][call[2]]
    BY DEF Truthful
  <2>1. call[2] \in Achieving /\ answer.count = minutes[job.user][call[2]]
    BY DEF Found, NothingThere
  <2>2. call = <<"achievements", call[2]>> /\ call \in Open(job)
    BY <1>2 DEF Calls, Open
  <2>3. job.owned[call[2]] <= minutes[job.user][call[2]]
    <3>1. call[2] \in Library[job.user]
      BY <1>2, <1>3, <2>2 DEF JobOK, PlanOK
    <3>2. QED
      BY <1>2, <3>1 DEF JobOK, PlanOK
  <2>4. QED
    BY <1>4, <2>1, <2>3
<1>7. QED
  BY <1>1, <1>5, <1>6, AnsweredIsFine

LEMMA FailIsFine ==
    ASSUME SyncInv, NEW call \in Calls, Fail(call)
    PROVE  Fine
<1>1. [is |-> "failed", count |-> 0] \in Answers
  BY SyncAssumption DEF Answers
<1>2. Truthful(call, [is |-> "failed", count |-> 0], job.owned[call[2]], minutes[job.user][call[2]])
  BY DEF Truthful
<1>3. QED
  BY <1>1, <1>2, AnsweredIsFine DEF Fail
-----------------------------------------------------------------------------
(* Steps that write *)

SavedTables(tables, u, a, row) == [tables EXCEPT !.latest[u][a] = row]

(* A snapshot is added, and nothing else changes. *)
LEMMA SavedRow ==
    ASSUME NEW tables \in Tables, NEW u \in Users, NEW a \in Apps, NEW row \in Snapshot,
           NEW new, new = SavedTables(tables, u, a, row)
    PROVE  /\ new \in Tables /\ new.games = tables.games /\ new.genres = tables.genres
           /\ new.latest[u][a] = row
           /\ \A v \in Users, b \in Apps :
                  v # u \/ b # a => new.latest[v][b] = tables.latest[v][b]
<1>1. tables.latest \in [Users -> [Apps -> Snapshot \cup {None}]]
  BY TypeOfTables
<1>2. PICK latest : latest = [tables.latest EXCEPT ![u][a] = row]
  OBVIOUS
<1>3. latest \in [Users -> [Apps -> Snapshot \cup {None}]]
  BY <1>1, <1>2
<1>4. new = [tables EXCEPT !.latest = latest]
  BY <1>2 DEF SavedTables
<1>5. new \in Tables /\ new.games = tables.games /\ new.genres = tables.genres /\ new.latest = latest
  BY <1>3, <1>4 DEF Tables
<1>6. latest[u][a] = row
  BY <1>1, <1>2
<1>7. ASSUME NEW v \in Users, NEW b \in Apps, v # u \/ b # a
      PROVE  latest[v][b] = tables.latest[v][b]
  BY <1>1, <1>2, <1>7
<1>8. QED
  BY <1>5, <1>6, <1>7

LEMMA SavedIsTrue ==
    ASSUME NEW tables, NEW played, TablesOK(tables, played),
           NEW u \in Users, NEW a \in Apps, NEW row \in Snapshot,
           TrueRow(row, a, played[u][a]), a \in tables.games, RowGrows(tables.latest[u][a], row),
           NEW new, new = SavedTables(tables, u, a, row)
    PROVE  TablesOK(new, played) /\ Grown(tables, new)
<1>1. tables \in Tables
  BY DEF TablesOK
<1>2. /\ new \in Tables /\ new.games = tables.games /\ new.genres = tables.genres
      /\ new.latest[u][a] = row
      /\ \A v \in Users, b \in Apps :
             v # u \/ b # a => new.latest[v][b] = tables.latest[v][b]
  BY <1>1, SavedRow
<1>3. ASSUME NEW v \in Users, NEW b \in Apps
      PROVE  /\ TrueRow(new.latest[v][b], b, played[v][b])
             /\ new.latest[v][b] # None => b \in new.games
             /\ RowGrows(tables.latest[v][b], new.latest[v][b])
  <2>1. CASE v = u /\ b = a
    BY <2>1, <1>2
  <2>2. CASE v # u \/ b # a
    BY <2>2, <1>1, <1>2, TypeOfTables, RowGrowsItself DEF TablesOK
  <2>3. QED
    BY <2>1, <2>2
<1>4. QED
  BY <1>2, <1>3 DEF TablesOK, Grown, GenresGrow

(* One write more is one cell more. *)
LEMMA SavedAtRisk ==
    ASSUME NEW old, NEW tables \in Tables, NEW pending \in Nat, AtRisk(old, tables, pending),
           NEW u \in Users, NEW a \in Apps, NEW row \in Snapshot,
           NEW new, new = SavedTables(tables, u, a, row)
    PROVE  AtRisk(old, new, pending + 1)
<1> DEFINE R == RowsChanged(old, tables)
           S == RowsChanged(old, new)
           G == GenresChanged(old, tables)
           T == R \cup {<<u, a>>}
<1>1. /\ new.genres = tables.genres
      /\ \A v \in Users, b \in Apps :
             v # u \/ b # a => new.latest[v][b] = tables.latest[v][b]
  BY SavedRow
<1>2. GenresChanged(old, new) = G
  BY <1>1 DEF GenresChanged
<1>3. S \subseteq T
  <2> SUFFICES ASSUME NEW p \in S, p # <<u, a>>
               PROVE  p \in R
    OBVIOUS
  <2>1. p \in Users \X Apps /\ new.latest[p[1]][p[2]] # old.latest[p[1]][p[2]]
    BY DEF RowsChanged
  <2>2. p[1] \in Users /\ p[2] \in Apps /\ p = <<p[1], p[2]>>
    BY <2>1
  <2>3. new.latest[p[1]][p[2]] = tables.latest[p[1]][p[2]]
    BY <1>1, <2>2
  <2>4. QED
    BY <2>1, <2>3 DEF RowsChanged
<1>4. IsFiniteSet(R) /\ IsFiniteSet(G) /\ Cardinality(G) + Cardinality(R) <= pending
  BY DEF AtRisk
<1> HIDE DEF R, S, G
<1>5. /\ IsFiniteSet(T)
      /\ Cardinality(T) = Cardinality(R) \/ Cardinality(T) = Cardinality(R) + 1
  BY <1>4, FS_AddElement
<1>6. IsFiniteSet(S) /\ Cardinality(S) <= Cardinality(T)
  BY <1>3, <1>5, FS_Subset
<1>7. Cardinality(R) \in Nat /\ Cardinality(S) \in Nat /\ Cardinality(T) \in Nat /\ Cardinality(G) \in Nat
  BY <1>4, <1>5, <1>6, FS_CardinalityType
<1>8. Cardinality(G) + Cardinality(S) <= pending + 1
  BY <1>4, <1>5, <1>6, <1>7
<1>9. QED
  BY <1>2, <1>4, <1>6, <1>8 DEF AtRisk, S, G

TaggedTables(tables, a, genres) == [tables EXCEPT !.genres[a] = genres]

(* Genres are settled, and nothing else changes. *)
LEMMA TaggedRow ==
    ASSUME NEW tables \in Tables, NEW a \in Apps, NEW genres \in Genres,
           NEW new, new = TaggedTables(tables, a, genres)
    PROVE  /\ new \in Tables /\ new.games = tables.games /\ new.latest = tables.latest
           /\ new.genres[a] = genres
           /\ \A b \in Apps : b # a => new.genres[b] = tables.genres[b]
<1>1. tables.genres \in [Apps -> Genres]
  BY TypeOfTables
<1>2. PICK settled : settled = [tables.genres EXCEPT ![a] = genres]
  OBVIOUS
<1>3. settled \in [Apps -> Genres]
  BY <1>1, <1>2
<1>4. new = [tables EXCEPT !.genres = settled]
  BY <1>2 DEF TaggedTables
<1>5. new \in Tables /\ new.games = tables.games /\ new.latest = tables.latest /\ new.genres = settled
  BY <1>3, <1>4 DEF Tables
<1>6. settled[a] = genres /\ \A b \in Apps : b # a => settled[b] = tables.genres[b]
  BY <1>1, <1>2
<1>7. QED
  BY <1>5, <1>6

LEMMA TaggedIsTrue ==
    ASSUME NEW tables, NEW played, TablesOK(tables, played),
           NEW a \in Apps, NEW genres \in Genres, tables.genres[a] = "unasked",
           NEW new, new = TaggedTables(tables, a, genres)
    PROVE  TablesOK(new, played) /\ Grown(tables, new)
<1>1. tables \in Tables
  BY DEF TablesOK
<1>2. /\ new \in Tables /\ new.games = tables.games /\ new.latest = tables.latest
      /\ new.genres[a] = genres
      /\ \A b \in Apps : b # a => new.genres[b] = tables.genres[b]
  BY <1>1, TaggedRow
<1>3. GenresGrow(tables, new)
  BY <1>2 DEF GenresGrow
<1>4. \A v \in Users, b \in Apps : RowGrows(tables.latest[v][b], new.latest[v][b])
  BY <1>1, <1>2, TypeOfTables, RowGrowsItself
<1>5. QED
  BY <1>2, <1>3, <1>4 DEF TablesOK, Grown

LEMMA TaggedAtRisk ==
    ASSUME NEW old, NEW tables \in Tables, NEW pending \in Nat, AtRisk(old, tables, pending),
           NEW a \in Apps, NEW genres \in Genres,
           NEW new, new = TaggedTables(tables, a, genres)
    PROVE  AtRisk(old, new, pending + 1)
<1> DEFINE R == RowsChanged(old, tables)
           S == GenresChanged(old, new)
           G == GenresChanged(old, tables)
           T == G \cup {a}
<1>1. new.latest = tables.latest /\ \A b \in Apps : b # a => new.genres[b] = tables.genres[b]
  BY TaggedRow
<1>2. RowsChanged(old, new) = R
  BY <1>1 DEF RowsChanged
<1>3. S \subseteq T
  BY <1>1 DEF GenresChanged
<1>4. IsFiniteSet(R) /\ IsFiniteSet(G) /\ Cardinality(G) + Cardinality(R) <= pending
  BY DEF AtRisk
<1> HIDE DEF R, S, G
<1>5. /\ IsFiniteSet(T)
      /\ Cardinality(T) = Cardinality(G) \/ Cardinality(T) = Cardinality(G) + 1
  BY <1>4, FS_AddElement
<1>6. IsFiniteSet(S) /\ Cardinality(S) <= Cardinality(T)
  BY <1>3, <1>5, FS_Subset
<1>7. Cardinality(R) \in Nat /\ Cardinality(S) \in Nat /\ Cardinality(T) \in Nat /\ Cardinality(G) \in Nat
  BY <1>4, <1>5, <1>6, FS_CardinalityType
<1>8. Cardinality(S) + Cardinality(R) <= pending + 1
  BY <1>4, <1>5, <1>6, <1>7
<1>9. QED
  BY <1>2, <1>4, <1>6, <1>8 DEF AtRisk, S, R
(* Everything a run knows of its plan but what is still to be done. *)
SamePlan(j, k) == k.user = j.user /\ k.owned = j.owned /\ k.previous = j.previous

(* The answers that wait are true. *)
AnswersTrue(j, played) ==
    \A i \in DOMAIN j.finished :
        LET call == j.finished[i][1]
        IN  Truthful(call, j.finished[i][2], j.owned[call[2]], played[j.user][call[2]])

(* The row of app a is saved, because it was ready or its call was read,   *)
(* and is to be saved no more.                                             *)
LEMMA SavedPlan ==
    ASSUME NEW j \in Job, NEW k, NEW tables \in Tables, NEW played,
           PlanOK(j, tables, played), SamePlan(j, k), EachOnce(k), AnswersTrue(k, played),
           NEW a \in Library[j.user], NEW row \in Snapshot,
           a \notin k.ready, <<"achievements", a>> \notin Open(k),
           k.ready \subseteq j.ready, j.ready \subseteq k.ready \cup {a},
           Open(k) \subseteq Open(j), Open(j) \subseteq Open(k) \cup {<<"achievements", a>>},
           NEW new, new = SavedTables(tables, j.user, a, row)
    PROVE  PlanOK(k, new, played)
<1>1. j.user \in Users /\ Library[j.user] \subseteq Apps
  BY TypeOfJob
<1>2. /\ new.games = tables.games /\ new.genres = tables.genres
      /\ new.latest[j.user][a] = row /\ row # None
      /\ \A b \in Apps : b # a => new.latest[j.user][b] = tables.latest[j.user][b]
  BY <1>1, SavedRow, TypeOfRow
<1>3. /\ Library[k.user] \subseteq new.games
      /\ k.ready \subseteq Library[k.user]
  BY <1>2 DEF PlanOK, SamePlan
<1>4. ASSUME NEW b \in Library[k.user]
      PROVE  /\ k.owned[b] <= played[k.user][b]
             /\ TrueRow(k.previous[b], b, k.owned[b])
             /\ \/ b \in k.ready
                \/ <<"achievements", b>> \in Open(k)
                \/ new.latest[k.user][b] # None
  <2>1. b \in Library[j.user] /\ b \in Apps
    BY <1>1 DEF SamePlan
  <2>2. /\ k.owned[b] <= played[k.user][b]
        /\ TrueRow(k.previous[b], b, k.owned[b])
    BY <2>1 DEF PlanOK, SamePlan
  <2>3. CASE b = a
    BY <2>2, <2>3, <1>2 DEF SamePlan
  <2>4. CASE b # a
    <3>1. \/ b \in j.ready
          \/ <<"achievements", b>> \in Open(j)
          \/ tables.latest[j.user][b] # None
      BY <2>1 DEF PlanOK
    <3>2. <<"achievements", b>> # <<"achievements", a>>
      BY <2>4
    <3>3. QED
      BY <2>1, <2>2, <2>4, <3>1, <3>2, <1>2 DEF SamePlan
  <2>5. QED
    BY <2>3, <2>4
<1>5. ASSUME NEW b \in k.ready
      PROVE  /\ new.latest[k.user][b] = k.previous[b]
             /\ k.owned[b] = 0 \/ (k.previous[b] # None /\ k.previous[b].minutes = k.owned[b])
  <2>1. b \in j.ready /\ b # a /\ b \in Apps
    BY <1>1 DEF PlanOK
  <2>2. QED
    BY <2>1, <1>2 DEF PlanOK, SamePlan
<1>6. ASSUME NEW b \in Apps, <<"achievements", b>> \in Open(k)
      PROVE  /\ b \in Library[k.user] \ k.ready
             /\ k.owned[b] # 0
             /\ new.latest[k.user][b] = k.previous[b]
             /\ k.previous[b] # None => k.previous[b].minutes # k.owned[b]
  <2>1. <<"achievements", b>> \in Open(j) /\ b # a
    BY <1>6
  <2>2. QED
    BY <2>1, <1>2 DEF PlanOK, SamePlan
<1>7. \A b \in Apps : <<"genres", b>> \in Open(k) => new.genres[b] = "unasked"
  BY <1>2 DEF PlanOK
<1>8. QED
  BY <1>3, <1>4, <1>5, <1>6, <1>7 DEF PlanOK, AnswersTrue

(* The genres of app a are settled, and its call is read. *)
LEMMA TaggedPlan ==
    ASSUME NEW j \in Job, NEW k, NEW tables \in Tables, NEW played,
           PlanOK(j, tables, played), SamePlan(j, k), EachOnce(k), AnswersTrue(k, played),
           NEW a \in Apps, NEW genres \in Genres, <<"genres", a>> \notin Open(k),
           k.ready = j.ready,
           Open(k) \subseteq Open(j), Open(j) \subseteq Open(k) \cup {<<"genres", a>>},
           NEW new, new = TaggedTables(tables, a, genres)
    PROVE  PlanOK(k, new, played)
<1>1. j.user \in Users /\ Library[j.user] \subseteq Apps
  BY TypeOfJob
<1>2. /\ new.games = tables.games /\ new.latest = tables.latest
      /\ \A b \in Apps : b # a => new.genres[b] = tables.genres[b]
  BY TaggedRow
<1>3. \A b \in Apps : <<"achievements", b>> \in Open(k) <=> <<"achievements", b>> \in Open(j)
  BY SMT
<1>4. \A b \in Apps : <<"genres", b>> \in Open(k) => new.genres[b] = "unasked"
  <2> SUFFICES ASSUME NEW b \in Apps, <<"genres", b>> \in Open(k)
               PROVE  new.genres[b] = "unasked"
    OBVIOUS
  <2>1. b # a /\ <<"genres", b>> \in Open(j)
    OBVIOUS
  <2>2. QED
    BY <2>1, <1>2 DEF PlanOK
<1>5. QED
  BY <1>1, <1>2, <1>3, <1>4 DEF PlanOK, SamePlan, AnswersTrue

(* A call is read and settled nothing. *)
LEMMA DroppedPlan ==
    ASSUME NEW j \in Job, NEW k, NEW tables \in Tables, NEW played,
           PlanOK(j, tables, played), SamePlan(j, k), EachOnce(k), AnswersTrue(k, played),
           NEW call, call[1] = "achievements" => tables.latest[j.user][call[2]] # None,
           k.ready = j.ready,
           Open(k) \subseteq Open(j), Open(j) \subseteq Open(k) \cup {call}
    PROVE  PlanOK(k, tables, played)
<1>1. j.user \in Users /\ Library[j.user] \subseteq Apps
  BY TypeOfJob
<1>2. ASSUME NEW b \in Library[k.user]
      PROVE  \/ b \in k.ready
             \/ <<"achievements", b>> \in Open(k)
             \/ tables.latest[k.user][b] # None
  <2>1. \/ b \in j.ready
        \/ <<"achievements", b>> \in Open(j)
        \/ tables.latest[j.user][b] # None
    BY DEF PlanOK, SamePlan
  <2>2. CASE <<"achievements", b>> = call
    BY <2>2 DEF SamePlan
  <2>3. CASE <<"achievements", b>> # call
    BY <2>1, <2>3 DEF SamePlan
  <2>4. QED
    BY <2>2, <2>3
<1>3. QED
  BY <1>1, <1>2 DEF PlanOK, SamePlan, AnswersTrue
(* The next answer is taken. *)
LEMMA TakenPlan ==
    ASSUME NEW j \in Job, NEW tables, NEW played, PlanOK(j, tables, played), j.finished # <<>>,
           NEW k, SamePlan(j, k), k.waiting = j.waiting, k.finished = Tail(j.finished),
           NEW h, h = Head(j.finished)
    PROVE  /\ h \in Calls \X Answers
           /\ h[1] \in Open(j) /\ h[1] \notin Open(k)
           /\ Open(k) \subseteq Open(j) /\ Open(j) \subseteq Open(k) \cup {h[1]}
           /\ EachOnce(k) /\ AnswersTrue(k, played)
           /\ Truthful(h[1], h[2], j.owned[h[1][2]], played[j.user][h[1][2]])
           /\ k.finished \in Seq(Calls \X Answers)
<1>1. j.finished \in Seq(Calls \X Answers)
  BY TypeOfJob
<1>2. PICK n \in Nat : n = Len(j.finished)
  BY <1>1, LenProperties
<1>3. /\ h \in Calls \X Answers /\ h = j.finished[1]
      /\ k.finished \in Seq(Calls \X Answers) /\ Len(k.finished) = n - 1 /\ n # 0
      /\ \A i \in 1 .. n - 1 : k.finished[i] = j.finished[i + 1]
  BY <1>1, <1>2, HeadTailProperties, EmptySeq
<1>4. DOMAIN j.finished = 1 .. n /\ DOMAIN k.finished = 1 .. n - 1 /\ 1 \in 1 .. n
  BY <1>1, <1>2, <1>3, LenProperties
<1>5. EachOnce(j)
  BY DEF PlanOK
<1>6. h[1] \in Open(j)
  BY <1>3, <1>4 DEF Open
<1>7. \A i \in 1 .. n - 1 : i + 1 \in 1 .. n /\ i + 1 # 1
  BY <1>2
<1>8. ASSUME NEW x \in Open(k) PROVE x \in Open(j) /\ x # h[1]
  <2>1. CASE x \in k.waiting
    BY <2>1, <1>3, <1>4, <1>5 DEF Open, EachOnce
  <2>2. CASE x \notin k.waiting
    <3>1. PICK i \in 1 .. n - 1 : x = k.finished[i][1]
      BY <2>2, <1>4 DEF Open
    <3>2. x = j.finished[i + 1][1] /\ i + 1 \in 1 .. n /\ i + 1 # 1
      BY <3>1, <1>3, <1>7
    <3>3. QED
      BY <3>2, <1>3, <1>4, <1>5 DEF Open, EachOnce
  <2>3. QED
    BY <2>1, <2>2
<1>9. ASSUME NEW x \in Open(j), x # h[1] PROVE x \in Open(k)
  <2>1. CASE x \in j.waiting
    BY <2>1 DEF Open
  <2>2. CASE x \notin j.waiting
    <3>1. PICK i \in 1 .. n : x = j.finished[i][1]
      BY <2>2, <1>4 DEF Open
    <3>2. i # 1
      BY <3>1, <1>9, <1>3
    <3>3. PICK m \in 1 .. n - 1 : i = m + 1
      <4>1. i - 1 \in 1 .. n - 1 /\ i = (i - 1) + 1
        BY <3>1, <3>2, <1>2
      <4>2. QED
        BY <4>1
    <3>4. m \in DOMAIN k.finished /\ k.finished[m][1] = x
      BY <3>1, <3>3, <1>3, <1>4
    <3>5. QED
      BY <3>4 DEF Open
  <2>3. QED
    BY <2>1, <2>2
<1>10. EachOnce(k)
  <2>1. \A i \in 1 .. n - 1 : k.finished[i][1] \notin k.waiting
    BY <1>3, <1>4, <1>5, <1>7 DEF EachOnce
  <2>2. \A i, m \in 1 .. n - 1 : k.finished[i][1] = k.finished[m][1] => i = m
    <3> SUFFICES ASSUME NEW i \in 1 .. n - 1, NEW m \in 1 .. n - 1,
                        k.finished[i][1] = k.finished[m][1]
                 PROVE  i = m
      OBVIOUS
    <3>1. j.finished[i + 1][1] = j.finished[m + 1][1] /\ i + 1 \in 1 .. n /\ m + 1 \in 1 .. n
      BY <1>3, <1>7
    <3>2. i + 1 = m + 1
      BY <3>1, <1>4, <1>5 DEF EachOnce
    <3>3. QED
      BY <3>2
  <2>3. QED
    BY <2>1, <2>2, <1>4 DEF EachOnce
<1>11. ASSUME NEW i \in 1 .. n
       PROVE  Truthful(j.finished[i][1], j.finished[i][2], j.owned[j.finished[i][1][2]],
                       played[j.user][j.finished[i][1][2]])
  BY <1>4 DEF PlanOK
<1>12. AnswersTrue(k, played)
  <2> SUFFICES ASSUME NEW i \in 1 .. n - 1
               PROVE  Truthful(k.finished[i][1], k.finished[i][2], j.owned[k.finished[i][1][2]],
                               played[j.user][k.finished[i][1][2]])
    BY <1>4 DEF AnswersTrue, SamePlan
  <2>1. k.finished[i] = j.finished[i + 1] /\ i + 1 \in 1 .. n
    BY <1>3, <1>7
  <2>2. QED
    BY <2>1, <1>11
<1>13. Truthful(h[1], h[2], j.owned[h[1][2]], played[j.user][h[1][2]])
  BY <1>3, <1>4, <1>11
<1>14. QED
  BY <1>3, <1>6, <1>8, <1>9, <1>10, <1>12, <1>13

-----------------------------------------------------------------------------
(* Commits *)

(* What is committed is announced, and nothing is pending any more. *)
LEMMA CommitIsFine ==
    ASSUME SyncInv, NEW tables, Commit(tables), session' = tables,
           TablesOK(tables, minutes), Grown(session, tables),
           UNCHANGED <<minutes, stamped, untagged, deaths>>, job # None,
           \/ job' = None
           \/ job' \in Job /\ JobOK(job', tables, minutes) /\ job'.waiting \subseteq job.waiting
    PROVE  Fine
<1>1. /\ TypeOK /\ minutes' = minutes /\ stamped' = stamped /\ deaths' = deaths
      /\ db' = tables /\ untold' \in {untold, Listeners}
      /\ db \in Tables /\ session \in Tables /\ Grown(db, session)
  BY InvOf DEF Commit, SyncInv
<1>2. tables \in Tables
  BY DEF TablesOK
<1>3. Grown(db, tables) /\ Grown(tables, tables)
  BY <1>1, <1>2, GrownOn, GrownItself
<1>4. TypeOK'
  BY <1>1, <1>2, TypesLater, NoTimePasses DEF TypeOK
<1>5. job' # None => job' \in Job /\ JobOK(job', tables, minutes) /\ job'.waiting \subseteq job.waiting
  OBVIOUS
<1>6. job' # None => AtRisk(tables, tables, job'.pending)
  BY <1>5, TypeOfJob, NothingAtRisk
<1>7. \A u \in stamped : \A a \in Library[u] : tables.latest[u][a] # None
  <2> SUFFICES ASSUME NEW u \in stamped, NEW a \in Library[u]
               PROVE  tables.latest[u][a] # None
    OBVIOUS
  <2>1. u \in Users /\ a \in Apps /\ db.latest[u][a] # None
    BY <1>1, SyncAssumption DEF SyncInv, TypeOK
  <2>2. QED
    BY <2>1, <1>3 DEF Grown, RowGrows
<1>8. SyncInv'
  BY <1>1, <1>3, <1>4, <1>5, <1>6, <1>7 DEF SyncInv
<1>9. AsksOnce
  BY <1>1, <1>3, <1>5 DEF AsksOnce, Grown, GenresGrow
<1>10. QED
  BY <1>1, <1>3, <1>8, <1>9 DEF Fine

(* What is pending does not matter to a plan. *)
LEMMA JobPending ==
    ASSUME NEW j \in Job, NEW k, NEW pending \in 0 .. CommitEvery - 1,
           k = [j EXCEPT !.pending = pending], NEW tables, NEW played, JobOK(j, tables, played)
    PROVE  /\ k \in Job /\ JobOK(k, tables, played) /\ k.pending = pending
           /\ k.waiting = j.waiting /\ k.at = j.at
<1>1. /\ k \in Job /\ k.pending = pending
      /\ k.at = j.at /\ k.user = j.user /\ k.owned = j.owned /\ k.previous = j.previous
      /\ k.ready = j.ready /\ k.waiting = j.waiting /\ k.finished = j.finished
  BY DEF Job
<1>2. Open(k) = Open(j)
  BY <1>1 DEF Open
<1>3. EachOnce(j) => EachOnce(k)
  BY <1>1 DEF EachOnce
<1>4. PlanOK(j, tables, played) => PlanOK(k, tables, played)
  BY <1>1, <1>2, <1>3 DEF PlanOK
<1>5. QED
  BY <1>1, <1>4 DEF JobOK

(* One more write, and the batch is committed when it is full. *)
LEMMA WroteIsFine ==
    ASSUME SyncInv, job # None, NEW tables, NEW next \in Job, Wrote(tables, next),
           UNCHANGED <<minutes, stamped, untagged, deaths>>,
           next.pending = job.pending, next.waiting \subseteq job.waiting,
           next.at \in {"save", "fetch"}, JobOK(next, tables, minutes),
           TablesOK(tables, minutes), Grown(session, tables),
           AtRisk(db, tables, job.pending + 1)
    PROVE  Fine
<1>1. /\ TypeOK /\ session' = tables /\ job \in Job /\ db \in Tables /\ session \in Tables
      /\ Grown(db, session)
  BY InvOf DEF Wrote, SyncInv
<1>2. job.pending \in Nat /\ job.pending < CommitEvery /\ CommitEvery \in Nat
  BY <1>1, TypeOfJob, SyncAssumption
<1>3. CASE job.pending + 1 >= CommitEvery
  <2>1. Commit(tables) /\ job' = [next EXCEPT !.pending = 0] /\ 0 \in 0 .. CommitEvery - 1
    BY <1>2, <1>3, SyncAssumption DEF Wrote
  <2>2. PICK k : k = [next EXCEPT !.pending = 0]
    OBVIOUS
  <2>3. k \in Job /\ JobOK(k, tables, minutes) /\ k.waiting = next.waiting
    BY <2>1, <2>2, JobPending
  <2>4. QED
    BY <1>1, <2>1, <2>2, <2>3, CommitIsFine
<1>4. CASE ~(job.pending + 1 >= CommitEvery)
  <2>1. /\ job' = [next EXCEPT !.pending = @ + 1] /\ db' = db /\ untold' = untold
        /\ job.pending + 1 \in 0 .. CommitEvery - 1
        /\ minutes' = minutes /\ stamped' = stamped /\ deaths' = deaths
    BY <1>2, <1>4 DEF Wrote
  <2>2. PICK k : k = [next EXCEPT !.pending = job.pending + 1]
    OBVIOUS
  <2>3. /\ k \in Job /\ JobOK(k, tables, minutes) /\ k.pending = job.pending + 1
        /\ k.waiting = next.waiting /\ k.at = next.at
    BY <2>1, <2>2, JobPending
  <2>4. job' = k
    BY <2>1, <2>2
  <2>5. ~Clean(k)
    BY <2>3, NoneAssumption DEF Clean
  <2>6. Grown(db, tables)
    BY <1>1, GrownOn DEF TablesOK
  <2>7. AsksOnce
    BY <2>1, <2>3, <2>4, NothingAsked
  <2>8. QED
    BY <1>1, <2>1, <2>3, <2>4, <2>5, <2>6, <2>7, NoTimePasses, NoCommitIsFine DEF SyncInv, TypeOK
<1>5. QED
  BY <1>3, <1>4
-----------------------------------------------------------------------------
(* The steps of a run *)

(* A row that says no less than the one it follows. *)
LEMMA NewRow ==
    ASSUME NEW a, NEW owned \in 0 .. MaxMinutes, NEW played \in 0 .. MaxMinutes, owned <= played,
           NEW old \in Snapshot \cup {None}, TrueRow(old, a, owned),
           NEW counts \in (0 .. MaxMinutes) \cup {None, NoData},
           Known(counts) => counts >= owned /\ counts <= played /\ a \in Achieving,
           counts # None => owned # 0,
           old # None /\ old.minutes = owned => counts = old.counts,
           old # None /\ old.counts # None => counts # None,
           NEW row, row = [minutes |-> owned, counts |-> counts]
    PROVE  row \in Snapshot /\ TrueRow(row, a, played) /\ RowGrows(old, row)
<1>1. row \in Snapshot /\ row.minutes = owned /\ row.counts = counts
  BY DEF Snapshot
<1>2. owned \in Nat /\ played \in Nat /\ row # None
  BY <1>1, TypeOfRow, SyncAssumption
<1>3. TrueRow(row, a, played)
  BY <1>1, <1>2 DEF TrueRow
<1>4. old # None => old.minutes \in Nat /\ (Known(old.counts) => old.counts \in Nat)
  BY TypeOfRow
<1>5. RowGrows(old, row)
  BY <1>1, <1>2, <1>4 DEF RowGrows, TrueRow
<1>6. QED
  BY <1>1, <1>3, <1>5

(* What a run knows of a row it has not saved yet. *)
LEMMA UnsavedRow ==
    ASSUME SyncInv, job # None, job.at \in {"save", "fetch"}, NEW a \in Apps,
           a \in job.ready \/ <<"achievements", a>> \in Open(job)
    PROVE  /\ a \in Library[job.user] /\ a \in session.games
           /\ job.user \in Users
           /\ job.owned[a] \in 0 .. MaxMinutes
           /\ minutes[job.user][a] \in 0 .. MaxMinutes
           /\ job.owned[a] <= minutes[job.user][a]
           /\ job.previous[a] \in Snapshot \cup {None}
           /\ TrueRow(job.previous[a], a, job.owned[a])
           /\ session.latest[job.user][a] = job.previous[a]
<1>1. job \in Job /\ PlanOK(job, session, minutes) /\ minutes \in Minutes
  BY InvOf DEF JobOK
<1>2. job.user \in Users /\ job.owned \in [Apps -> 0 .. MaxMinutes] /\ job.previous[a] \in Snapshot \cup {None}
  BY <1>1, TypeOfJob
<1>3. a \in Library[job.user]
  BY <1>1 DEF PlanOK
<1>4. QED
  BY <1>1, <1>2, <1>3 DEF PlanOK, Minutes

LEMMA SaveIsFine ==
    ASSUME SyncInv, job # None, job.at \in {"save", "fetch"}, NEW a \in Apps,
           a \in job.ready \/ <<"achievements", a>> \in Open(job),
           NEW counts \in (0 .. MaxMinutes) \cup {None, NoData},
           Known(counts) => /\ counts >= job.owned[a] /\ counts <= minutes[job.user][a]
                            /\ a \in Achieving,
           counts # None => job.owned[a] # 0,
           job.previous[a] # None /\ job.previous[a].minutes = job.owned[a] =>
               counts = job.previous[a].counts,
           job.previous[a] # None /\ job.previous[a].counts # None => counts # None,
           NEW next \in Job, Save(a, counts, next), UNCHANGED <<minutes, stamped, untagged, deaths>>,
           SamePlan(job, next), next.at = job.at, next.pending = job.pending,
           next.waiting \subseteq job.waiting,
           next.at = "save" => next.finished = <<>>, next.at = "fetch" => next.ready = {},
           EachOnce(next), AnswersTrue(next, minutes),
           a \notin next.ready, <<"achievements", a>> \notin Open(next),
           next.ready \subseteq job.ready, job.ready \subseteq next.ready \cup {a},
           Open(next) \subseteq Open(job),
           Open(job) \subseteq Open(next) \cup {<<"achievements", a>>}
    PROVE  Fine
<1>1. /\ job \in Job /\ PlanOK(job, session, minutes) /\ minutes \in Minutes /\ session \in Tables
      /\ TablesOK(session, minutes) /\ AtRisk(db, session, job.pending)
  BY InvOf DEF JobOK, SyncInv
<1>2. PICK row : row = [minutes |-> job.owned[a], counts |-> counts]
  OBVIOUS
<1>3. PICK tables : tables = SavedTables(session, job.user, a, row)
  OBVIOUS
<1>4. Wrote(tables, next)
  BY <1>2, <1>3 DEF Save, SavedTables
<1>5. /\ a \in Library[job.user] /\ a \in session.games /\ job.user \in Users
      /\ job.owned[a] \in 0 .. MaxMinutes /\ minutes[job.user][a] \in 0 .. MaxMinutes
      /\ job.owned[a] <= minutes[job.user][a]
      /\ job.previous[a] \in Snapshot \cup {None}
      /\ TrueRow(job.previous[a], a, job.owned[a])
      /\ session.latest[job.user][a] = job.previous[a]
  BY UnsavedRow
<1>6. row \in Snapshot /\ TrueRow(row, a, minutes[job.user][a]) /\ RowGrows(job.previous[a], row)
  <2>1. PICK owned \in 0 .. MaxMinutes, played \in 0 .. MaxMinutes, old \in Snapshot \cup {None} :
            owned = job.owned[a] /\ played = minutes[job.user][a] /\ old = job.previous[a]
    BY <1>5
  <2>2. row \in Snapshot /\ TrueRow(row, a, played) /\ RowGrows(old, row)
    BY <1>2, <1>5, <2>1, NewRow
  <2>3. QED
    BY <2>1, <2>2
<1>7. TablesOK(tables, minutes) /\ Grown(session, tables)
  BY <1>1, <1>3, <1>5, <1>6, SavedIsTrue
<1>8. AtRisk(db, tables, job.pending + 1)
  BY <1>1, <1>3, <1>5, <1>6, SavedAtRisk, TypeOfJob
<1>9. PlanOK(next, tables, minutes)
  BY <1>1, <1>3, <1>5, <1>6, SavedPlan
<1>10. JobOK(next, tables, minutes)
  BY <1>9 DEF JobOK
<1>11. QED
  BY <1>4, <1>7, <1>8, <1>10, WroteIsFine

LEMMA SaveReadyIsFine ==
    ASSUME SyncInv, NEW a \in Apps, SaveReady(a)
    PROVE  Fine
<1>1. /\ job # None /\ job \in Job /\ job.at = "save" /\ a \in job.ready /\ job.finished = <<>>
      /\ PlanOK(job, session, minutes) /\ UNCHANGED <<minutes, stamped, untagged, deaths>>
  BY InvOf DEF SaveReady, At, Running, JobOK
<1>2. PICK counts : counts = IF job.owned[a] = 0 THEN None ELSE job.previous[a].counts
  OBVIOUS
<1>3. PICK next : next = [job EXCEPT !.ready = @ \ {a}]
  OBVIOUS
<1>4. Save(a, counts, next)
  BY <1>2, <1>3 DEF SaveReady
<1>5. /\ next \in Job /\ SamePlan(job, next) /\ next.at = job.at /\ next.pending = job.pending
      /\ next.waiting = job.waiting /\ next.finished = job.finished /\ next.ready = job.ready \ {a}
  BY <1>1, <1>3 DEF Job, SamePlan
<1>6. /\ job.owned[a] \in 0 .. MaxMinutes /\ minutes[job.user][a] \in 0 .. MaxMinutes
      /\ job.owned[a] <= minutes[job.user][a]
      /\ job.previous[a] \in Snapshot \cup {None}
      /\ TrueRow(job.previous[a], a, job.owned[a])
  BY <1>1, UnsavedRow
<1>7. job.owned[a] = 0 \/ (job.previous[a] # None /\ job.previous[a].minutes = job.owned[a])
  BY <1>1 DEF PlanOK
<1>8. job.previous[a] # None =>
          /\ job.previous[a].minutes \in Nat
          /\ job.previous[a].counts \in (0 .. MaxMinutes) \cup {None, NoData}
          /\ Known(job.previous[a].counts) => job.previous[a].counts \in Nat
  BY <1>6, TypeOfRow DEF Snapshot
<1>9. /\ counts \in (0 .. MaxMinutes) \cup {None, NoData}
      /\ Known(counts) => /\ counts >= job.owned[a] /\ counts <= minutes[job.user][a]
                          /\ a \in Achieving
      /\ counts # None => job.owned[a] # 0
      /\ job.previous[a] # None /\ job.previous[a].minutes = job.owned[a] =>
             counts = job.previous[a].counts
      /\ job.previous[a] # None /\ job.previous[a].counts # None => counts # None
  <2>1. job.owned[a] \in Nat /\ minutes[job.user][a] \in Nat
    BY <1>6, SyncAssumption
  <2>2. CASE job.owned[a] = 0
    BY <2>1, <2>2, <1>2, <1>6, <1>8 DEF TrueRow, Known
  <2>3. CASE job.owned[a] # 0
    BY <2>1, <2>3, <1>2, <1>6, <1>7, <1>8 DEF TrueRow
  <2>4. QED
    BY <2>2, <2>3
<1>10. Open(next) = Open(job)
  BY <1>5 DEF Open
<1>11. EachOnce(next)
  BY <1>1, <1>5 DEF PlanOK, EachOnce
<1>12. AnswersTrue(next, minutes)
  BY <1>1, <1>5 DEF PlanOK, AnswersTrue, SamePlan
<1>13. <<"achievements", a>> \notin Open(next)
  BY <1>1, <1>10 DEF PlanOK
<1>14. QED
  BY <1>1, <1>4, <1>5, <1>9, <1>10, <1>11, <1>12, <1>13, SaveIsFine

(* The next answer, and what is left once it is taken. *)
LEMMA NextAnswer ==
    ASSUME SyncInv, Reading, NEW failed \in {job.failed, job.failed + 1}, failed <= MaxFailedCalls,
           NEW k, k = [Taken EXCEPT !.failed = failed]
    PROVE  /\ job # None /\ job \in Job /\ job.at = "fetch" /\ job.ready = {}
           /\ PlanOK(job, session, minutes)
           /\ App \in Apps /\ Kind \in {"achievements", "genres"}
           /\ Answer \in Answers /\ Head(job.finished)[1] = <<Kind, App>>
           /\ <<Kind, App>> \in Open(job) /\ <<Kind, App>> \notin Open(k)
           /\ Open(k) \subseteq Open(job) /\ Open(job) \subseteq Open(k) \cup {<<Kind, App>>}
           /\ EachOnce(k) /\ AnswersTrue(k, minutes)
           /\ Truthful(<<Kind, App>>, Answer, job.owned[App], minutes[job.user][App])
           /\ k \in Job /\ SamePlan(job, k) /\ k.at = job.at /\ k.pending = job.pending
           /\ k.waiting = job.waiting /\ k.ready = {}
<1>1. /\ job # None /\ job \in Job /\ job.at = "fetch" /\ job.ready = {} /\ job.finished # <<>>
      /\ PlanOK(job, session, minutes)
  BY InvOf DEF Reading, At, Running, JobOK
<1>2. PICK h : h = Head(job.finished)
  OBVIOUS
<1>3. PICK rest : rest = Tail(job.finished)
  OBVIOUS
<1>4. k = [job EXCEPT !.finished = rest, !.failed = failed]
  BY <1>3 DEF Taken
<1>5. /\ SamePlan(job, k) /\ k.waiting = job.waiting /\ k.finished = rest
      /\ k.at = job.at /\ k.pending = job.pending /\ k.ready = {}
  BY <1>1, <1>4 DEF Job, SamePlan
<1>6. /\ h \in Calls \X Answers
      /\ h[1] \in Open(job) /\ h[1] \notin Open(k)
      /\ Open(k) \subseteq Open(job) /\ Open(job) \subseteq Open(k) \cup {h[1]}
      /\ EachOnce(k) /\ AnswersTrue(k, minutes)
      /\ Truthful(h[1], h[2], job.owned[h[1][2]], minutes[job.user][h[1][2]])
      /\ k.finished \in Seq(Calls \X Answers)
  BY <1>1, <1>2, <1>3, <1>5, TakenPlan
<1>7. failed \in 0 .. MaxFailedCalls
  BY <1>1, TypeOfJob, SyncAssumption
<1>8. k \in Job
  BY <1>1, <1>4, <1>5, <1>6, <1>7 DEF Job
<1>9. /\ h[1] \in Calls /\ h[2] \in Answers /\ h[1] = <<h[1][1], h[1][2]>>
      /\ h[1][1] \in {"achievements", "genres"} /\ h[1][2] \in Apps
  BY <1>6 DEF Calls
<1>10. Kind = h[1][1] /\ App = h[1][2] /\ Answer = h[2] /\ h[1] = <<Kind, App>>
  BY <1>2, <1>9 DEF Kind, App, Answer
<1> HIDE DEF Kind, App, Answer
<1>11. QED
  BY <1>1, <1>2, <1>5, <1>6, <1>8, <1>9, <1>10
LEMMA ReadGenresIsFine ==
    ASSUME SyncInv, ReadGenres
    PROVE  Fine
<1>1. /\ Reading /\ Kind = "genres" /\ Answer.is # "failed" /\ UNCHANGED <<minutes, stamped, untagged, deaths>>
      /\ TypeOK /\ session \in Tables /\ TablesOK(session, minutes)
  BY InvOf DEF ReadGenres, SyncInv
<1>2. PICK genres : genres = IF Answer.is = "nothing" THEN "none" ELSE "store"
  OBVIOUS
<1>3. PICK tables : tables = TaggedTables(session, App, genres)
  OBVIOUS
<1>4. PICK next : next = Taken
  OBVIOUS
<1>5. Wrote(tables, next)
  BY <1>2, <1>3, <1>4 DEF ReadGenres, TaggedTables
<1>6. job \in Job /\ job.failed \in Nat /\ job.failed <= MaxFailedCalls
  <2>1. job # None
    BY <1>1 DEF Reading, At, Running
  <2>2. job \in Job
    BY <2>1, InvOf
  <2>3. job.failed \in 0 .. MaxFailedCalls
    BY <2>2 DEF Job
  <2>4. QED
    BY <2>2, <2>3, SyncAssumption
<1>7. next = [Taken EXCEPT !.failed = job.failed]
  BY <1>4, <1>6 DEF Taken, Job
<1>8. /\ job # None /\ job \in Job /\ job.at = "fetch" /\ job.ready = {}
      /\ PlanOK(job, session, minutes)
      /\ App \in Apps /\ Answer \in Answers
      /\ <<"genres", App>> \in Open(job) /\ <<"genres", App>> \notin Open(next)
      /\ Open(next) \subseteq Open(job) /\ Open(job) \subseteq Open(next) \cup {<<"genres", App>>}
      /\ EachOnce(next) /\ AnswersTrue(next, minutes)
      /\ Truthful(<<"genres", App>>, Answer, job.owned[App], minutes[job.user][App])
      /\ next \in Job /\ SamePlan(job, next) /\ next.at = job.at /\ next.pending = job.pending
      /\ next.waiting = job.waiting /\ next.ready = {}
  BY <1>1, <1>6, <1>7, NextAnswer
<1>9. PICK a \in Apps : a = App
  BY <1>8
<1>11. genres \in Genres
  BY <1>2 DEF Genres
<1>12. session.genres[a] = "unasked"
  BY <1>8, <1>9 DEF PlanOK
<1>13. TablesOK(tables, minutes) /\ Grown(session, tables)
  BY <1>1, <1>3, <1>9, <1>11, <1>12, TaggedIsTrue
<1>14. AtRisk(db, tables, job.pending + 1)
  BY <1>1, <1>3, <1>8, <1>9, <1>11, TaggedAtRisk, TypeOfJob DEF SyncInv
<1>15. PlanOK(next, tables, minutes)
  BY <1>1, <1>3, <1>8, <1>9, <1>11, TaggedPlan
<1>16. JobOK(next, tables, minutes)
  BY <1>8, <1>15 DEF JobOK
<1>17. QED
  BY <1>1, <1>5, <1>8, <1>13, <1>14, <1>16, WroteIsFine

LEMMA ReadAchievementsIsFine ==
    ASSUME SyncInv, ReadAchievements
    PROVE  Fine
<1>1. /\ Reading /\ Kind = "achievements" /\ Answer.is # "failed"
      /\ UNCHANGED <<minutes, stamped, untagged, deaths>>
  BY DEF ReadAchievements
<1>2. PICK counts : counts = IF Answer.is = "data" THEN Answer.count ELSE NoData
  OBVIOUS
<1>3. PICK next : next = Taken
  OBVIOUS
<1>4. Save(App, counts, next)
  BY <1>2, <1>3 DEF ReadAchievements
<1>5. job \in Job /\ job.failed \in Nat /\ job.failed <= MaxFailedCalls
  <2>1. job # None
    BY <1>1 DEF Reading, At, Running
  <2>2. job \in Job
    BY <2>1, InvOf
  <2>3. job.failed \in 0 .. MaxFailedCalls
    BY <2>2 DEF Job
  <2>4. QED
    BY <2>2, <2>3, SyncAssumption
<1>6. next = [Taken EXCEPT !.failed = job.failed]
  BY <1>3, <1>5 DEF Taken, Job
<1>7. /\ job # None /\ job \in Job /\ job.at = "fetch" /\ job.ready = {}
      /\ PlanOK(job, session, minutes)
      /\ App \in Apps /\ Answer \in Answers
      /\ <<"achievements", App>> \in Open(job) /\ <<"achievements", App>> \notin Open(next)
      /\ Open(next) \subseteq Open(job)
      /\ Open(job) \subseteq Open(next) \cup {<<"achievements", App>>}
      /\ EachOnce(next) /\ AnswersTrue(next, minutes)
      /\ Truthful(<<"achievements", App>>, Answer, job.owned[App], minutes[job.user][App])
      /\ next \in Job /\ SamePlan(job, next) /\ next.at = job.at /\ next.pending = job.pending
      /\ next.waiting = job.waiting /\ next.ready = {}
  BY <1>1, <1>5, <1>6, NextAnswer
<1>8. PICK a \in Apps : a = App
  BY <1>7
<1>9. Answer.is \in {"data", "nothing"} /\ Answer.count \in 0 .. MaxMinutes
  BY <1>1, <1>7 DEF Answers
<1>10. job.owned[a] # 0 /\ (job.previous[a] # None => job.previous[a].minutes # job.owned[a])
  BY <1>7, <1>8 DEF PlanOK
<1>11. Answer.is = "data" =>
           /\ a \in Achieving /\ job.owned[a] <= Answer.count
           /\ Answer.count <= minutes[job.user][a]
  BY <1>1, <1>7, <1>8 DEF Truthful
<1>12. TrueRow(job.previous[a], a, job.owned[a]) /\ job.owned[a] \in 0 .. MaxMinutes
  BY <1>7, <1>8, UnsavedRow
<1>13. /\ counts \in (0 .. MaxMinutes) \cup {None, NoData}
       /\ Known(counts) => /\ counts >= job.owned[a] /\ counts <= minutes[job.user][a]
                           /\ a \in Achieving
       /\ counts # None => job.owned[a] # 0
       /\ job.previous[a] # None /\ job.previous[a].minutes = job.owned[a] =>
              counts = job.previous[a].counts
       /\ job.previous[a] # None /\ job.previous[a].counts # None => counts # None
  <2>1. Answer.count # None /\ NoData # None /\ ~ Known(NoData)
    BY <1>9, SyncAssumption DEF Known
  <2>2. job.owned[a] \in Nat /\ Answer.count \in Nat
    BY <1>9, <1>12, SyncAssumption
  <2>3. QED
    BY <2>1, <2>2, <1>2, <1>9, <1>10, <1>11, <1>12
<1>14. QED
  BY <1>1, <1>4, <1>7, <1>8, <1>13, SaveIsFine

LEMMA ReadFailureIsFine ==
    ASSUME SyncInv, ReadFailure
    PROVE  Fine
<1>1. /\ Reading /\ job.failed + 1 <= MaxFailedCalls /\ UNCHANGED <<minutes, stamped, untagged, deaths>>
      /\ TypeOK /\ session \in Tables
  BY InvOf DEF ReadFailure, ReadsFailure
<1>2. PICK next : next = Counted
  OBVIOUS
<1>3. job \in Job
  BY <1>1, InvOf DEF Reading, At, Running
<1>4. next = [Taken EXCEPT !.failed = job.failed + 1]
  BY <1>2, <1>3 DEF Counted, Taken, Job
<1>5. /\ job # None /\ job.at = "fetch" /\ job.ready = {}
      /\ PlanOK(job, session, minutes)
      /\ App \in Apps /\ Kind \in {"achievements", "genres"}
      /\ <<Kind, App>> \in Open(job) /\ <<Kind, App>> \notin Open(next)
      /\ Open(next) \subseteq Open(job) /\ Open(job) \subseteq Open(next) \cup {<<Kind, App>>}
      /\ EachOnce(next) /\ AnswersTrue(next, minutes)
      /\ next \in Job /\ SamePlan(job, next) /\ next.at = job.at /\ next.pending = job.pending
      /\ next.waiting = job.waiting /\ next.ready = {}
  BY <1>1, <1>4, NextAnswer
<1>6. PICK a \in Apps : a = App
  BY <1>5
<1>7. CASE Kind = "achievements" /\ job.previous[App] = None
  <2>1. Save(App, None, next) /\ ~ Known(None)
    BY <1>2, <1>7 DEF ReadFailure, Known
  <2>2. QED
    BY <2>1, <1>1, <1>3, <1>5, <1>6, <1>7, SaveIsFine
<1>8. CASE ~(Kind = "achievements" /\ job.previous[App] = None)
  <2>1. job' = next /\ UNCHANGED <<db, session, untold>>
    BY <1>2, <1>8 DEF ReadFailure
  <2>2. PICK call : call = <<Kind, App>>
    OBVIOUS
  <2>3. call[1] = "achievements" => session.latest[job.user][call[2]] # None
    <3>1. ASSUME Kind = "achievements" PROVE session.latest[job.user][a] # None
      BY <3>1, <1>5, <1>6, <1>8, UnsavedRow
    <3>2. QED
      BY <3>1, <2>2, <1>6
  <2>4. PlanOK(next, session, minutes)
    BY <1>1, <1>3, <1>5, <2>2, <2>3, DroppedPlan
  <2>5. JobOK(next, session, minutes)
    BY <1>5, <2>4 DEF JobOK
  <2>6. ~Clean(next)
    BY <1>5, NoneAssumption DEF Clean
  <2>7. QED
    BY <2>1, <2>5, <2>6, <1>1, <1>5, GoesOnIsFine DEF SyncInv, TypeOK
<1>9. QED
  BY <1>7, <1>8

LEMMA GiveUpIsFine ==
    ASSUME SyncInv, GiveUp
    PROVE  Fine
<1>1. /\ Commit(session) /\ job' = None /\ session' = session /\ job # None
      /\ UNCHANGED <<minutes, stamped, untagged, deaths>>
      /\ session \in Tables /\ TablesOK(session, minutes)
  BY InvOf DEF GiveUp, Abort, Commit, ReadsFailure, Reading, At, Running, SyncInv
<1>2. Grown(session, session)
  BY <1>1, GrownItself
<1>3. QED
  BY <1>1, <1>2, CommitIsFine

LEMMA FinishCallsIsFine ==
    ASSUME SyncInv, FinishCalls
    PROVE  Fine
<1>1. /\ Commit(session) /\ session' = session /\ job # None /\ job \in Job /\ job.at = "fetch"
      /\ UNCHANGED <<minutes, stamped, untagged, deaths>>
      /\ session \in Tables /\ TablesOK(session, minutes) /\ JobOK(job, session, minutes)
      /\ job.waiting = {} /\ job.finished = <<>>
      /\ job' = [job EXCEPT !.at = "stamp", !.pending = 0]
  BY InvOf DEF FinishCalls, At, Running, SyncInv
<1>2. PICK k : k = [job EXCEPT !.at = "stamp", !.pending = 0]
  OBVIOUS
<1>3. k \in Job /\ k.at = "stamp" /\ k.user = job.user /\ k.waiting = job.waiting
  <2>1. 0 \in 0 .. CommitEvery - 1
    BY SyncAssumption
  <2>2. QED
    BY <1>1, <1>2, <2>1 DEF Job, Phases
<1>4. PlanOK(job, session, minutes) /\ job.ready = {}
  BY <1>1 DEF JobOK
<1>5. Open(job) = {}
  <2>1. DOMAIN job.finished = {}
    BY <1>1
  <2>2. QED
    BY <2>1, <1>1 DEF Open
<1>6. \A a \in Library[job.user] : session.latest[job.user][a] # None
  BY <1>4, <1>5 DEF PlanOK
<1>7. JobOK(k, session, minutes)
  BY <1>3, <1>6 DEF JobOK
<1>8. Grown(session, session)
  BY <1>1, GrownItself
<1>9. QED
  BY <1>1, <1>2, <1>3, <1>7, <1>8, CommitIsFine

(* A run that has nothing left to fetch moves on. *)
LEMMA TailIsFine ==
    ASSUME SyncInv, job # None, Clean(job), NEW phase \in Phases \ {"list", "save", "fetch", "stamp"},
           job' = [job EXCEPT !.at = phase], UNCHANGED <<minutes, db, session>>,
           stamped' \subseteq Users, \A u \in stamped' : \A a \in Library[u] : db.latest[u][a] # None,
           untold' \subseteq Listeners, untagged' \subseteq Apps, deaths' = deaths
    PROVE  Fine
<1>1. job \in Job /\ session = db
  BY InvOf DEF SyncInv
<1>2. PICK k : k = [job EXCEPT !.at = phase]
  OBVIOUS
<1>3. k \in Job /\ k.at = phase /\ k.waiting = job.waiting /\ k.pending = job.pending
  BY <1>1, <1>2 DEF Job
<1>4. JobOK(k, session, minutes)
  BY <1>3 DEF JobOK
<1>5. QED
  BY <1>1, <1>2, <1>3, <1>4, GoesOnIsFine

LEMMA StampIsFine ==
    ASSUME SyncInv, Stamp
    PROVE  Fine
<1>1. /\ job # None /\ job \in Job /\ job.at = "stamp" /\ JobOK(job, session, minutes) /\ TypeOK
      /\ UNCHANGED <<minutes, db, session, untold, untagged, deaths>> /\ stamped' = stamped \cup {job.user}
      /\ job' = [job EXCEPT !.at = "catalog"]
  BY InvOf DEF Stamp, At, Running
<1>2. Clean(job) /\ session = db
  BY <1>1 DEF Clean, SyncInv
<1>3. stamped' \subseteq Users
  BY <1>1, TypeOfJob DEF TypeOK
<1>4. \A u \in stamped' : \A a \in Library[u] : db.latest[u][a] # None
  BY <1>1, <1>2 DEF JobOK, SyncInv
<1>5. "catalog" \in Phases \ {"list", "save", "fetch", "stamp"}
  BY DEF Phases, Listeners
<1>6. QED
  BY <1>1, <1>2, <1>3, <1>4, <1>5, TailIsFine DEF TypeOK

LEMMA TellCachesIsFine ==
    ASSUME SyncInv, TellCaches
    PROVE  Fine
<1>1. PICK listener \in {"catalog", "reviews"}, phase \in {"reviews", "igdb"} :
          Tell(listener, [job EXCEPT !.at = phase])
  BY DEF TellCaches
<1>2. /\ job # None /\ job.at = listener /\ TypeOK
      /\ UNCHANGED <<minutes, db, session, stamped, untagged, deaths>> /\ untold' \subseteq untold
      /\ job' = [job EXCEPT !.at = phase]
  BY <1>1, InvOf DEF Tell, At, Running
<1>3. Clean(job)
  BY <1>2 DEF Clean
<1>4. phase \in Phases \ {"list", "save", "fetch", "stamp"}
  BY DEF Phases, Listeners
<1>5. QED
  BY <1>2, <1>3, <1>4, TailIsFine DEF SyncInv, TypeOK

LEMMA TellIgdbIsFine ==
    ASSUME SyncInv, TellIgdb
    PROVE  Fine
<1>1. /\ job # None /\ job.at = "igdb" /\ TypeOK /\ TablesOK(session, minutes) /\ Grown(db, session)
      /\ UNCHANGED <<minutes, db, session, stamped, untagged, deaths>> /\ untold' \subseteq untold
      /\ job' = None
  BY InvOf DEF TellIgdb, Tell, At, Running, SyncInv
<1>2. session = db
  BY <1>1 DEF Clean, SyncInv
<1>3. AsksOnce
  BY <1>1, NothingAsked
<1>4. QED
  BY <1>1, <1>2, <1>3, NoTimePasses, NoCommitIsFine DEF SyncInv, TypeOK
(* The library is listed and the work is planned. *)
LEMMA ListIsFine ==
    ASSUME SyncInv, List
    PROVE  Fine
<1>1. /\ job # None /\ job \in Job /\ job.at = "list" /\ JobOK(job, session, minutes)
      /\ TypeOK /\ minutes \in Minutes /\ session \in Tables /\ session = db
      /\ TablesOK(session, minutes)
      /\ UNCHANGED <<minutes, db, stamped, untold, untagged, deaths>>
  BY InvOf DEF List, At, Running, Clean, SyncInv
<1>2. /\ job.user \in Users /\ Owned \subseteq Apps /\ Owned = Library[job.user]
      /\ job.finished = <<>>
  BY <1>1, TypeOfJob DEF Owned, JobOK
<1>3. PICK ready : ready = {a \in Owned : NeedsNoCall(a)}
  OBVIOUS
<1>4. PICK ask : ask = {a \in Owned : Unasked(a)}
  OBVIOUS
<1>5. PICK waiting : waiting = ({"achievements"} \X (Owned \ ready)) \cup ({"genres"} \X ask)
  OBVIOUS
<1>6. PICK owned : owned = [a \in Apps |-> IF a \in Owned THEN minutes[job.user][a] ELSE 0]
  OBVIOUS
<1>7. PICK previous : previous = session.latest[job.user]
  OBVIOUS
<1>8. PICK k : k = [job EXCEPT !.at = "save", !.owned = owned, !.previous = previous,
                              !.ready = ready, !.waiting = waiting]
  OBVIOUS
<1>9. PICK tables : tables = [session EXCEPT !.games = @ \cup Owned]
  OBVIOUS
<1>10. job' = k /\ session' = tables
  BY <1>3, <1>4, <1>5, <1>6, <1>7, <1>8, <1>9 DEF List
<1>11. \A a \in Apps : minutes[job.user][a] \in 0 .. MaxMinutes /\ minutes[job.user][a] \in Nat
  BY <1>1, <1>2, SyncAssumption DEF Minutes
<1>12. /\ owned \in [Apps -> 0 .. MaxMinutes]
       /\ \A a \in Owned : owned[a] = minutes[job.user][a]
  BY <1>2, <1>6, <1>11, SyncAssumption
<1>13. previous \in [Apps -> Snapshot \cup {None}]
  BY <1>1, <1>2, <1>7, TypeOfTables
<1>14. ready \subseteq Owned /\ ask \subseteq Owned /\ waiting \subseteq Calls
  BY <1>2, <1>3, <1>4, <1>5 DEF Calls
<1>15. k \in Job
  <2>1. "save" \in Phases /\ ready \in SUBSET Apps /\ waiting \in SUBSET Calls
    BY <1>2, <1>14 DEF Phases
  <2>2. QED
    BY <1>1, <1>8, <1>12, <1>13, <2>1 DEF Job
<1>16. /\ k.at = "save" /\ k.user = job.user /\ k.owned = owned /\ k.previous = previous
       /\ k.ready = ready /\ k.waiting = waiting /\ k.finished = <<>> /\ k.pending = job.pending
  BY <1>1, <1>2, <1>8 DEF Job
<1>17. /\ tables \in Tables /\ tables.games = session.games \cup Owned
       /\ tables.genres = session.genres /\ tables.latest = session.latest
  BY <1>1, <1>2, <1>9 DEF Tables
<1>18. Open(k) = waiting
  <2>1. DOMAIN k.finished = {}
    BY <1>16
  <2>2. QED
    BY <2>1, <1>16 DEF Open
<1>19. /\ \A a \in Apps : <<"achievements", a>> \in waiting <=> a \in Owned \ ready
       /\ \A a \in Apps : <<"genres", a>> \in waiting => a \in ask
  BY <1>5
<1>20. ASSUME NEW a \in Owned
       PROVE  /\ owned[a] <= minutes[job.user][a]
              /\ TrueRow(previous[a], a, owned[a])
              /\ a \in ready => owned[a] = 0 \/ (previous[a] # None /\ previous[a].minutes = owned[a])
              /\ a \notin ready => owned[a] # 0
              /\ a \notin ready /\ previous[a] # None => previous[a].minutes # owned[a]
  <2>1. a \in Apps /\ owned[a] = minutes[job.user][a] /\ previous[a] = session.latest[job.user][a]
    BY <1>2, <1>7, <1>12
  <2>2. TrueRow(session.latest[job.user][a], a, minutes[job.user][a])
    BY <1>1, <1>2, <2>1 DEF TablesOK
  <2>3. owned[a] <= minutes[job.user][a]
    BY <2>1, <1>11
  <2>4. a \in ready <=> NeedsNoCall(a)
    BY <1>3
  <2>5. QED
    BY <2>1, <2>2, <2>3, <2>4 DEF NeedsNoCall
<1>21. PlanOK(k, tables, minutes)
  <2>1. \A a \in Apps : <<"genres", a>> \in waiting => tables.genres[a] = "unasked"
    BY <1>4, <1>17, <1>19 DEF Unasked
  <2>2. EachOnce(k) /\ DOMAIN k.finished = {}
    BY <1>16 DEF EachOnce
  <2>3. \A a \in Apps : tables.latest[job.user][a] = previous[a]
    BY <1>7, <1>17
  <2>4. Library[k.user] = Owned /\ Owned \subseteq tables.games
    BY <1>2, <1>16, <1>17
  <2>5. ASSUME NEW a \in Owned
        PROVE  a \in ready \/ <<"achievements", a>> \in waiting
    BY <1>2, <1>19
  <2>6. ASSUME NEW a \in Apps, <<"achievements", a>> \in waiting
        PROVE  /\ a \in Owned \ ready /\ owned[a] # 0
               /\ previous[a] # None => previous[a].minutes # owned[a]
    <3>1. a \in Owned \ ready
      BY <2>6, <1>19
    <3>2. QED
      BY <3>1, <1>20
  <2>7. /\ k.ready \subseteq Library[k.user]
        /\ \A a \in Library[k.user] :
               /\ k.owned[a] <= minutes[k.user][a]
               /\ TrueRow(k.previous[a], a, k.owned[a])
               /\ \/ a \in k.ready
                  \/ <<"achievements", a>> \in Open(k)
                  \/ tables.latest[k.user][a] # None
    BY <1>14, <1>16, <1>18, <1>20, <2>4, <2>5
  <2>8. \A a \in k.ready :
            /\ tables.latest[k.user][a] = k.previous[a]
            /\ k.owned[a] = 0 \/ (k.previous[a] # None /\ k.previous[a].minutes = k.owned[a])
    BY <1>2, <1>14, <1>16, <1>20, <2>3
  <2>9. \A a \in Apps : <<"achievements", a>> \in Open(k) =>
            /\ a \in Library[k.user] \ k.ready
            /\ k.owned[a] # 0
            /\ tables.latest[k.user][a] = k.previous[a]
            /\ k.previous[a] # None => k.previous[a].minutes # k.owned[a]
    BY <1>16, <1>18, <2>3, <2>4, <2>6
  <2>10. QED
    BY <1>18, <2>1, <2>2, <2>4, <2>7, <2>8, <2>9 DEF PlanOK
<1>22. JobOK(k, tables, minutes)
  BY <1>15, <1>16, <1>21 DEF JobOK
<1>23. TablesOK(tables, minutes)
  BY <1>1, <1>17 DEF TablesOK
<1>24. Grown(db, tables)
  BY <1>1, <1>17, GrownItself DEF Grown, GenresGrow
<1>25. AtRisk(db, tables, job.pending)
  <2>1. GenresChanged(db, tables) = {} /\ RowsChanged(db, tables) = {}
    BY <1>1, <1>17 DEF GenresChanged, RowsChanged
  <2>2. job.pending \in Nat
    BY <1>1, TypeOfJob
  <2>3. QED
    BY <2>1, <2>2, FS_EmptySet DEF AtRisk
<1>26. AsksOnce
  BY <1>1, <1>4, <1>10, <1>16, <1>19 DEF AsksOnce, Unasked
<1>27. ~Clean(k)
  BY <1>15, <1>16, NoneAssumption DEF Clean
<1>28. QED
  BY <1>1, <1>10, <1>15, <1>16, <1>22, <1>23, <1>24, <1>25, <1>26, <1>27, NoTimePasses, NoCommitIsFine
     DEF SyncInv, TypeOK

-----------------------------------------------------------------------------
(* The invariant *)

LEMMA InitIsFine ==
    ASSUME Init
    PROVE  SyncInv
<1>1. /\ minutes = [u \in Users |-> [a \in Apps |-> 0]] /\ session = db /\ job = None
      /\ stamped = {} /\ untold = {} /\ untagged = {} /\ deaths = 0
      /\ db = [games |-> {}, genres |-> [a \in Apps |-> "unasked"],
               latest |-> [u \in Users |-> [a \in Apps |-> None]]]
  BY DEF Init
<1>2. db \in Tables
  BY <1>1 DEF Tables, Genres
<1>3. TypeOK
  BY <1>1, <1>2, SyncAssumption DEF TypeOK
<1>4. TablesOK(db, minutes)
  BY <1>1, <1>2 DEF TablesOK, TrueRow
<1>5. Grown(db, db)
  BY <1>2, GrownItself
<1>6. QED
  BY <1>1, <1>3, <1>4, <1>5 DEF SyncInv

(* IGDB fills empty genres between two runs. *)
LEMMA FillGenresIsFine ==
    ASSUME SyncInv, NEW apps \in SUBSET Apps, FillGenres(apps)
    PROVE  Fine
<1>1. /\ TypeOK /\ db \in Tables /\ job = None /\ TablesOK(db, minutes)
      /\ UNCHANGED <<minutes, job, stamped, untold, untagged, deaths>>
      /\ \A a \in apps : db.genres[a] \in {"unasked", "none"}
      /\ session' = db'
  BY InvOf DEF FillGenres, Running, Empty, SyncInv
<1>2. PICK genres : genres = [a \in Apps |-> IF a \in apps THEN "igdb" ELSE db.genres[a]]
  OBVIOUS
<1>3. db' = [db EXCEPT !.genres = genres]
  BY <1>2 DEF FillGenres
<1>4. genres \in [Apps -> Genres]
  BY <1>1, <1>2, TypeOfTables DEF Genres
<1>5. /\ db' \in Tables /\ db'.games = db.games /\ db'.latest = db.latest
      /\ db'.genres = genres
  BY <1>1, <1>3, <1>4 DEF Tables
<1>6. TablesOK(db', minutes)
  BY <1>1, <1>5 DEF TablesOK
<1>7. GenresGrow(db, db')
  BY <1>1, <1>2, <1>5 DEF GenresGrow
<1>8. Grown(db, db') /\ Grown(db', db')
  BY <1>1, <1>5, <1>7, TypeOfTables, RowGrowsItself, GrownItself DEF Grown
<1>9. TypeOK'
  BY <1>1, <1>5, TypesLater, NoTimePasses DEF TypeOK
<1>10. SyncInv'
  BY <1>1, <1>5, <1>6, <1>8, <1>9 DEF SyncInv
<1>11. AsksOnce
  BY <1>1, <1>7 DEF AsksOnce, GenresGrow
<1>12. QED
  BY <1>8, <1>10, <1>11 DEF Fine

LEMMA NextIsFine ==
    ASSUME SyncInv, Next
    PROVE  Fine
<1>1. CASE \E u \in Users, a \in Apps : Play(u, a)
  BY <1>1, PlayIsFine
<1>2. CASE \E u \in Users : Start(u)
  BY <1>2, StartIsFine
<1>3. CASE List
  BY <1>3, ListIsFine
<1>4. CASE ListFails
  BY <1>4, ListFailsIsFine
<1>5. CASE \E call \in Calls : Succeed(call) \/ Fail(call)
  BY <1>5, SucceedIsFine, FailIsFine
<1>6. CASE Work
  <2>1. CASE \E a \in Apps : SaveReady(a)
    BY <2>1, SaveReadyIsFine
  <2>2. QED
    BY <1>6, <2>1, StartCallsIsFine, ReadGenresIsFine, ReadAchievementsIsFine, ReadFailureIsFine,
       GiveUpIsFine, FinishCallsIsFine, StampIsFine, TellCachesIsFine, TellIgdbIsFine DEF Work
<1>7. CASE Die
  BY <1>7, DieIsFine
<1>8. CASE \E apps \in SUBSET Apps : FillGenres(apps)
  BY <1>8, FillGenresIsFine
<1>9. QED
  BY <1>1, <1>2, <1>3, <1>4, <1>5, <1>6, <1>7, <1>8 DEF Next

LEMMA StillIsFine ==
    ASSUME SyncInv, UNCHANGED vars
    PROVE  Fine
<1>1. /\ minutes' = minutes /\ db' = db /\ session' = session /\ job' = job
      /\ stamped' = stamped /\ untold' = untold /\ untagged' = untagged /\ deaths' = deaths
      /\ TypeOK
  BY InvOf DEF vars
<1>2. AsksOnce
  BY <1>1, NothingAsked
<1>3. QED
  BY <1>1, <1>2, NoTimePasses, NoCommitIsFine DEF SyncInv, TypeOK

(* The plan of the run and what it has answered so far agree with the      *)
(* tables it writes, in every reachable state (app/worker.py,              *)
(* _sync_owned_games).                                                     *)
THEOREM SyncInvariant == Spec => []SyncInv
<1>1. SyncInv /\ [Next]_vars => SyncInv'
  BY NextIsFine, StillIsFine DEF Fine
<1>2. QED
  BY InitIsFine, <1>1, PTL DEF Spec

(* Every variable has its type: in particular a run never has a full batch *)
(* pending nor more failed calls than it may take.                         *)
THEOREM TypeCorrect == Spec => []TypeOK
<1>1. SyncInv => TypeOK
  BY DEF SyncInv
<1>2. QED
  BY <1>1, SyncInvariant, PTL

(* A stored count is never older than the minutes saved beside it: what    *)
(* _previous_snapshots reuses, what answers late and what is played        *)
(* meanwhile included.                                                     *)
THEOREM CountsAreCurrent == Spec => []CountsKeepUp
<1>1. SyncInv => CountsKeepUp
  BY DEF SyncInv, TablesOK, TrueRow, CountsKeepUp
<1>2. QED
  BY <1>1, SyncInvariant, PTL

(* A snapshot is of a game row, and a stamped library shows every game.    *)
THEOREM StampedIsWhole == Spec => []SyncedLibrariesAreWhole
<1>1. SyncInv => SyncedLibrariesAreWhole
  BY DEF SyncInv, TablesOK, SyncedLibrariesAreWhole
<1>2. QED
  BY <1>1, SyncInvariant, PTL

(* What a killed run loses, besides new game rows, is less than a batch of *)
(* COMMIT_EVERY writes.                                                    *)
THEOREM LessThanABatch == Spec => []OneBatchAtRisk
<1>1. SyncInv => OneBatchAtRisk
  <2> SUFFICES ASSUME SyncInv, Running
               PROVE  Unsaved <= job.pending /\ job.pending < CommitEvery
    BY DEF OneBatchAtRisk
  <2>1. job \in Job /\ AtRisk(db, session, job.pending)
    BY InvOf DEF SyncInv, Running
  <2>2. job.pending < CommitEvery
    BY <2>1, TypeOfJob
  <2>3. Unsaved = Cardinality(GenresChanged(db, session)) + Cardinality(RowsChanged(db, session))
    BY DEF Unsaved, GenresChanged, RowsChanged
  <2>4. QED
    BY <2>1, <2>2, <2>3 DEF AtRisk
<1>2. QED
  BY <1>1, SyncInvariant, PTL

(* No failed call loses what an earlier one told of a game: counts go up,  *)
(* and only an answer without data, about a game played on, takes their    *)
(* place (app/worker.py, _previous_snapshots and _sync_owned_games).       *)
THEOREM NothingIsForgotten == Spec => KnowledgeGrows
<1>1. SyncInv /\ [Next]_vars => RowsKept
  BY NextIsFine, StillIsFine, GrownKeepsRows DEF Fine, SyncInv
<1>2. QED
  BY <1>1, SyncInvariant, PTL DEF KnowledgeGrows, RowsKept, Spec

(* No sync asks for genres that are settled, and they stay, but that the   *)
(* IGDB refresh, which writes the same column, fills those settled as      *)
(* empty (app/igdb_catalog.py, apply_metadata).                            *)
THEOREM NeverAskedTwice == Spec => GenresAreAskedOnce
<1>1. SyncInv /\ [Next]_vars => AsksOnce
  BY NextIsFine, StillIsFine DEF Fine
<1>2. QED
  BY <1>1, SyncInvariant, PTL DEF GenresAreAskedOnce, AsksOnce, Spec
-----------------------------------------------------------------------------
(* What was settled as empty *)

Settled(tables, apps) == \A a \in Apps : tables.genres[a] = "none" => a \in apps

(* The answers without tags are about apps. *)
NoTags(answers, apps) ==
    \A i \in DOMAIN answers :
        answers[i][1][1] = "genres" /\ answers[i][2].is = "nothing" => answers[i][1][2] \in apps

(* What is settled as empty, and what waits to be, the store has answered  *)
(* about without tags.                                                     *)
SettleInv ==
    /\ Settled(db, untagged)
    /\ Settled(session, untagged)
    /\ job # None => NoTags(job.finished, untagged)

(* A step after which no more answers wait and no more is settled. *)
LEMMA KeepsSettled ==
    ASSUME SettleInv, untagged' = untagged, Settled(session', untagged),
           db' \in {db, session, session'},
           job' = None \/ NoTags(job'.finished, untagged)
    PROVE  SettleInv'
  BY DEF SettleInv, Settled, NoTags

LEMMA AnsweredSettles ==
    ASSUME SyncInv, SettleInv, NEW call \in Calls, NEW answer, Answered(call, answer),
           answer.is = "nothing" => answer = NothingThere
    PROVE  SettleInv'
<1>1. /\ job # None /\ job \in Job /\ UNCHANGED <<db, session>>
      /\ job' = [job EXCEPT !.waiting = @ \ {call}, !.finished = Append(@, <<call, answer>>)]
      /\ untagged \subseteq untagged'
      /\ call[1] = "genres" /\ answer.is = "nothing" => call[2] \in untagged'
  BY InvOf DEF Answered, At, Running
<1>2. PICK s : s = Append(job.finished, <<call, answer>>)
  OBVIOUS
<1>3. job'.finished = s
  BY <1>1, <1>2 DEF Job
<1>4. PICK n \in Nat : n = Len(job.finished) /\ DOMAIN job.finished = 1 .. n
  BY <1>1, TypeOfJob, LenProperties
<1>5. /\ DOMAIN s = 1 .. n + 1 /\ s[n + 1] = <<call, answer>>
      /\ \A i \in 1 .. n : s[i] = job.finished[i]
  BY <1>1, <1>2, <1>4, TypeOfJob
<1>6. NoTags(s, untagged')
  <2> SUFFICES ASSUME NEW i \in 1 .. n + 1, s[i][1][1] = "genres", s[i][2].is = "nothing"
               PROVE  s[i][1][2] \in untagged'
    BY <1>5 DEF NoTags
  <2>1. CASE i = n + 1
    BY <2>1, <1>1, <1>5
  <2>2. CASE i \in 1 .. n
    BY <2>2, <1>1, <1>4, <1>5 DEF SettleInv, NoTags
  <2>3. QED
    BY <2>1, <2>2
<1>7. QED
  BY <1>1, <1>3, <1>6 DEF SettleInv, Settled

(* A step that leaves the answers and the genres of the run alone. *)
LEMMA OtherSettles ==
    ASSUME SettleInv, untagged' = untagged, db' \in {db, session},
           session' \in {db, session} \/ session'.genres = session.genres,
           \/ job' = None
           \/ job'.finished = <<>>
           \/ job # None /\ job'.finished = job.finished
    PROVE  SettleInv'
<1>1. Settled(session', untagged)
  BY DEF SettleInv, Settled
<1>2. job' = None \/ NoTags(job'.finished, untagged)
  <2>1. CASE job'.finished = <<>>
    <3>1. DOMAIN job'.finished = {}
      BY <2>1
    <3>2. QED
      BY <3>1 DEF NoTags
  <2>2. QED
    BY <2>1 DEF SettleInv
<1>3. QED
  BY <1>1, <1>2, KeepsSettled

(* One more write. *)
LEMMA WroteSettles ==
    ASSUME SettleInv, job \in Job, NEW tables, Settled(tables, untagged),
           NEW ready, NEW finished, NEW failed, NoTags(finished, untagged),
           NEW next, next = [job EXCEPT !.ready = ready, !.finished = finished, !.failed = failed],
           Wrote(tables, next), untagged' = untagged
    PROVE  SettleInv'
<1>1. session' = tables /\ db' \in {db, tables}
  BY DEF Wrote, Commit
<1>2. job'.finished = finished
  <2>1. \A pending : [next EXCEPT !.pending = pending].finished = finished
    BY DEF Job
  <2>2. QED
    BY <2>1 DEF Wrote
<1>3. QED
  BY <1>1, <1>2, KeepsSettled

LEMMA SaveSettles ==
    ASSUME SyncInv, SettleInv, job \in Job, NEW a, NEW counts,
           NEW ready, NEW finished, NEW failed, NoTags(finished, untagged),
           NEW next, next = [job EXCEPT !.ready = ready, !.finished = finished, !.failed = failed],
           Save(a, counts, next), untagged' = untagged
    PROVE  SettleInv'
<1>1. PICK tables : tables = [session EXCEPT !.latest[job.user][a] =
                                 [minutes |-> job.owned[a], counts |-> counts]]
  OBVIOUS
<1>2. tables.genres = session.genres
  BY <1>1, InvOf DEF Tables
<1>3. Settled(tables, untagged)
  BY <1>2 DEF SettleInv, Settled
<1>4. Wrote(tables, next)
  BY <1>1 DEF Save
<1>5. QED
  BY <1>3, <1>4, WroteSettles

(* What waits behind the next answer. *)
LEMMA TailSettles ==
    ASSUME SyncInv, SettleInv, Reading
    PROVE  /\ job \in Job /\ NoTags(Tail(job.finished), untagged)
           /\ Kind = "genres" /\ Answer.is = "nothing" => App \in untagged
<1>1. job \in Job /\ job.finished # <<>> /\ NoTags(job.finished, untagged)
  BY InvOf DEF Reading, At, Running, SettleInv
<1>2. PICK s \in Seq(Calls \X Answers) : s = job.finished
  BY <1>1, TypeOfJob
<1>3. PICK n \in Nat : n = Len(s) /\ DOMAIN s = 1 .. n /\ n # 0
  BY <1>1, <1>2, LenProperties, EmptySeq
<1>4. Head(s) = s[1] /\ DOMAIN Tail(s) = 1 .. n - 1 /\ \A i \in 1 .. n - 1 : Tail(s)[i] = s[i + 1]
  BY <1>1, <1>2, <1>3, HeadTailProperties, LenProperties
<1>5. 1 \in 1 .. n /\ \A i \in 1 .. n - 1 : i + 1 \in 1 .. n
  BY <1>3
<1>6. NoTags(Tail(s), untagged)
  BY <1>1, <1>2, <1>3, <1>4, <1>5 DEF NoTags
<1>7. Kind = "genres" /\ Answer.is = "nothing" => App \in untagged
  BY <1>1, <1>2, <1>3, <1>4, <1>5 DEF NoTags, Kind, Answer, App
<1>8. QED
  BY <1>1, <1>2, <1>6, <1>7

LEMMA ReadGenresSettles ==
    ASSUME SyncInv, SettleInv, ReadGenres
    PROVE  SettleInv'
<1>1. /\ Reading /\ Kind = "genres" /\ untagged' = untagged
      /\ job \in Job /\ NoTags(Tail(job.finished), untagged)
      /\ Answer.is = "nothing" => App \in untagged
  BY TailSettles DEF ReadGenres
<1>2. PICK genres : genres = IF Answer.is = "nothing" THEN "none" ELSE "store"
  OBVIOUS
<1>3. PICK app : app = App
  OBVIOUS
<1>4. PICK settled : settled = [session.genres EXCEPT ![app] = genres]
  OBVIOUS
<1>5. PICK tables : tables = [session EXCEPT !.genres = settled]
  OBVIOUS
<1>6. tables.genres = settled /\ session.genres \in [Apps -> Genres]
  BY <1>5, InvOf DEF Tables
<1>7. genres = "none" => app \in untagged
  BY <1>1, <1>2, <1>3
<1>8. Settled(tables, untagged)
  BY <1>4, <1>6, <1>7 DEF Settled, SettleInv
<1>9. PICK next : next = Taken
  OBVIOUS
<1>10. Wrote(tables, next)
  BY <1>2, <1>3, <1>4, <1>5, <1>9 DEF ReadGenres
<1>11. PICK finished : finished = Tail(job.finished)
  OBVIOUS
<1>12. next = [job EXCEPT !.ready = job.ready, !.finished = finished, !.failed = job.failed]
  BY <1>1, <1>9, <1>11 DEF Taken, Job
<1>13. QED
  BY <1>1, <1>8, <1>10, <1>11, <1>12, WroteSettles

LEMMA ReadAchievementsSettles ==
    ASSUME SyncInv, SettleInv, ReadAchievements
    PROVE  SettleInv'
<1>1. /\ Reading /\ untagged' = untagged /\ job \in Job /\ NoTags(Tail(job.finished), untagged)
  BY TailSettles DEF ReadAchievements
<1>2. PICK next : next = Taken
  OBVIOUS
<1>3. PICK finished : finished = Tail(job.finished)
  OBVIOUS
<1>4. next = [job EXCEPT !.ready = job.ready, !.finished = finished, !.failed = job.failed]
  BY <1>1, <1>2, <1>3 DEF Taken, Job
<1>5. PICK counts, app : Save(app, counts, next)
  BY <1>2 DEF ReadAchievements
<1>6. QED
  BY <1>1, <1>3, <1>4, <1>5, SaveSettles

LEMMA ReadFailureSettles ==
    ASSUME SyncInv, SettleInv, ReadFailure
    PROVE  SettleInv'
<1>1. /\ Reading /\ untagged' = untagged /\ job \in Job /\ NoTags(Tail(job.finished), untagged)
  BY TailSettles DEF ReadFailure, ReadsFailure
<1>2. PICK next : next = Counted
  OBVIOUS
<1>3. PICK finished : finished = Tail(job.finished)
  OBVIOUS
<1>4. PICK failed : failed = job.failed + 1
  OBVIOUS
<1>5. next = [job EXCEPT !.ready = job.ready, !.finished = finished, !.failed = failed]
  BY <1>1, <1>2, <1>3, <1>4 DEF Counted, Taken, Job
<1>6. CASE Kind = "achievements" /\ job.previous[App] = None
  <2>1. PICK app : Save(app, None, next)
    BY <1>2, <1>6 DEF ReadFailure
  <2>2. QED
    BY <1>1, <1>3, <1>5, <2>1, SaveSettles
<1>7. CASE ~(Kind = "achievements" /\ job.previous[App] = None)
  <2>1. job' = next /\ UNCHANGED <<db, session>>
    BY <1>2, <1>7 DEF ReadFailure
  <2>2. next.finished = finished
    BY <1>1, <1>5 DEF Job
  <2>3. QED
    BY <1>1, <1>3, <2>1, <2>2, KeepsSettled DEF SettleInv
<1>8. QED
  BY <1>6, <1>7

LEMMA SaveReadySettles ==
    ASSUME SyncInv, SettleInv, NEW a \in Apps, SaveReady(a)
    PROVE  SettleInv'
<1>1. job \in Job /\ NoTags(job.finished, untagged) /\ untagged' = untagged
  BY InvOf DEF SaveReady, At, Running, SettleInv
<1>2. PICK ready : ready = job.ready \ {a}
  OBVIOUS
<1>3. PICK next : next = [job EXCEPT !.ready = ready]
  OBVIOUS
<1>4. next = [job EXCEPT !.ready = ready, !.finished = job.finished, !.failed = job.failed]
  BY <1>1, <1>3 DEF Job
<1>5. PICK counts : Save(a, counts, next)
  BY <1>2, <1>3 DEF SaveReady
<1>6. QED
  BY <1>1, <1>4, <1>5, SaveSettles

LEMMA FillGenresSettles ==
    ASSUME SyncInv, SettleInv, NEW apps \in SUBSET Apps, FillGenres(apps)
    PROVE  SettleInv'
<1>1. /\ db \in Tables /\ job' = None /\ untagged' = untagged /\ session' = db'
  BY InvOf DEF FillGenres, Running
<1>2. PICK genres : genres = [a \in Apps |-> IF a \in apps THEN "igdb" ELSE db.genres[a]]
  OBVIOUS
<1>3. db' = [db EXCEPT !.genres = genres]
  BY <1>2 DEF FillGenres
<1>4. db'.genres = genres
  BY <1>1, <1>3 DEF Tables
<1>5. Settled(db', untagged)
  BY <1>2, <1>4 DEF Settled, SettleInv
<1>6. QED
  BY <1>1, <1>5, KeepsSettled

LEMMA NextSettles ==
    ASSUME SyncInv, SettleInv, [Next]_vars
    PROVE  SettleInv'
<1>1. /\ db \in Tables /\ session \in Tables
      /\ job # None => job \in Job
  BY InvOf
<1>2. CASE \E u \in Users, a \in Apps : Play(u, a)
  BY <1>2, OtherSettles DEF Play
<1>3. CASE \E u \in Users : Start(u)
  BY <1>3, OtherSettles DEF Start
<1>4. CASE List
  <2>1. /\ job # None /\ job \in Job /\ db' = db /\ untagged' = untagged
    BY <1>1, <1>4 DEF List, At, Running
  <2>2. session'.genres = session.genres
    BY <1>1, <1>4 DEF List, Tables
  <2>3. job'.finished = job.finished
    BY <1>4, <2>1 DEF List, Job
  <2>4. QED
    BY <2>1, <2>2, <2>3, OtherSettles
<1>5. CASE ListFails \/ Die \/ GiveUp
  BY <1>5, OtherSettles DEF ListFails, Die, GiveUp, Abort, Commit
<1>6. CASE \E call \in Calls : Succeed(call) \/ Fail(call)
  <2>1. PICK call \in Calls : Succeed(call) \/ Fail(call)
    BY <1>6
  <2>2. PICK answer : Answered(call, answer) /\ (answer.is = "nothing" => answer = NothingThere)
    BY <2>1 DEF Succeed, Fail, Found, NothingThere
  <2>3. QED
    BY <2>2, AnsweredSettles
<1>7. CASE \E apps \in SUBSET Apps : FillGenres(apps)
  BY <1>7, FillGenresSettles
<1>8. CASE \E a \in Apps : SaveReady(a)
  BY <1>8, SaveReadySettles
<1>9. CASE ReadGenres \/ ReadAchievements \/ ReadFailure
  BY <1>9, ReadGenresSettles, ReadAchievementsSettles, ReadFailureSettles
<1>10. CASE StartCalls \/ FinishCalls \/ Stamp \/ TellCaches \/ TellIgdb
  <2>1. /\ job # None /\ job \in Job /\ untagged' = untagged /\ db' \in {db, session}
        /\ session' = session
    BY <1>1, <1>10
    DEF StartCalls, FinishCalls, Stamp, TellCaches, TellIgdb, Tell, Commit, At, Running
  <2>2. job' = None \/ job'.finished = job.finished
    BY <1>10, <2>1 DEF StartCalls, FinishCalls, Stamp, TellCaches, TellIgdb, Tell, Job
  <2>3. QED
    BY <2>1, <2>2, OtherSettles
<1>11. CASE UNCHANGED vars
  BY <1>11 DEF vars, SettleInv, Settled, NoTags
<1>12. QED
  BY <1>2, <1>3, <1>4, <1>5, <1>6, <1>7, <1>8, <1>9, <1>10, <1>11 DEF Next, Work

(* Only an answer of the store settles a game's genres with "": a lookup   *)
(* that failed or was throttled never does, in no run and after any death  *)
(* (app/worker.py, _sync_owned_games).                                     *)
THEOREM SettledIsEmpty == Spec => []OnlyEmptyAnswersSettle
<1>1. Init => SettleInv
  BY DEF Init, SettleInv, Settled
<1>2. SyncInv /\ SettleInv /\ [Next]_vars => SettleInv'
  BY NextSettles
<1>3. SettleInv => OnlyEmptyAnswersSettle
  BY DEF SettleInv, Settled, OnlyEmptyAnswersSettle
<1>4. QED
  BY <1>1, <1>2, <1>3, SyncInvariant, PTL DEF Spec
============================================================================
