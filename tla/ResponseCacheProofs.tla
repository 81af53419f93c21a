------------------------ MODULE ResponseCacheProofs ------------------------
(***************************************************************************)
(* Theorems of ResponseCache, for every set of readers, processes and      *)
(* writers and every bound: the inductive invariant CacheInv, the          *)
(* freshness of every answer, at most one computation per entry, and the   *)
(* refinement of FreshReads.                                               *)
(***************************************************************************)
EXTENDS ResponseCache, TLAPS

-----------------------------------------------------------------------------
(* What the invariant says of one reader *)

(* The types of what one request holds. *)
LEMMA ReaderTypes ==
    ASSUME CacheInv, NEW r \in Readers
    PROVE  /\ ProcOf[r] \in Procs /\ genOf[r] \in Gens
           /\ floor[r] \in Nat /\ val[r] \in Nat /\ base[genOf[r]] \in Nat
<1>1. ProcOf[r] \in Procs /\ Versions \subseteq Nat
  BY CacheAssumption DEF Versions
<1>2. genOf[r] \in Gens /\ floor[r] \in Versions /\ val[r] \in Versions
  BY DEF CacheInv, TypeOK
<1>3. base[genOf[r]] \in Versions
  BY <1>2 DEF CacheInv, TypeOK
<1>4. QED
  BY <1>1, <1>2, <1>3

(* A computed response is fresh enough for the reader that computed it.    *)
LEMMA ComputedIsFresh ==
    ASSUME CacheInv, NEW r \in Readers, pc[r] \in {"computed", "raised", "store"}
    PROVE  val[r] >= floor[r]
<1>1. floor[r] <= base[genOf[r]] /\ base[genOf[r]] <= val[r]
  BY DEF CacheInv, ReaderFloor, Busy, Leading
<1>2. QED
  BY <1>1, ReaderTypes

(* It is fresh enough for everyone who waits for it, because they wait     *)
(* under the same generation.                                              *)
LEMMA WaitersAreFresh ==
    ASSUME CacheInv, NEW r \in Readers, pc[r] \in {"computed", "raised"},
           NEW w \in Waiters(r)
    PROVE  val[r] >= floor[w]
<1>1. w \in Readers /\ pc[w] = "wait" /\ waitsOn[w] = r
  BY DEF Waiters
<1>2. inflight[ProcOf[w]][genOf[w]] = r
  BY <1>1 DEF CacheInv, InflightExact
<1>3. genOf[r] = genOf[w]
  BY <1>1, <1>2, ReaderTypes, CacheAssumption DEF CacheInv, InflightExact
<1>4. floor[w] <= base[genOf[r]] /\ base[genOf[r]] <= val[r]
  BY <1>1, <1>3 DEF CacheInv, ReaderFloor, Busy
<1>5. QED
  BY <1>1, <1>4, ReaderTypes

(* A stored entry is fresh enough for whoever reads it under its           *)
(* generation.                                                             *)
LEMMA HitIsFresh ==
    ASSUME CacheInv, NEW r \in Readers, pc[r] = "entry", entries[genOf[r]] # None
    PROVE  entries[genOf[r]] \in Nat /\ entries[genOf[r]] >= floor[r]
           /\ entries[genOf[r]] <= db
<1>1. entries[genOf[r]] \in Nat
  BY ReaderTypes, CacheAssumption DEF CacheInv, TypeOK, Versions
<1>2. /\ floor[r] <= base[genOf[r]]
      /\ base[genOf[r]] <= entries[genOf[r]]
      /\ entries[genOf[r]] <= db
  BY ReaderTypes DEF CacheInv, ReaderFloor, GenerationFloor, Busy
<1>3. QED
  BY <1>1, <1>2, ReaderTypes

-----------------------------------------------------------------------------
(* The invariant is inductive: one lemma for each of its parts *)

(* Types. *)
LEMMA TypeStep == CacheInv /\ [Next]_vars => TypeOK'
<1> SUFFICES ASSUME CacheInv, [Next]_vars PROVE TypeOK'
  OBVIOUS
<1> USE CacheAssumption DEF CacheInv, redis, writer, history, Gens, Versions
<1>1. ASSUME NEW r \in Readers, Start(r) PROVE TypeOK'
  BY <1>1 DEF Start, TypeOK, Ended, Busy, Leading, Orphaned
<1>2. ASSUME NEW r \in Readers, GetGen(r) PROVE TypeOK'
  BY <1>2 DEF GetGen, TypeOK, Ended, Busy, Leading, Orphaned
<1>3. ASSUME NEW r \in Readers, StoreDown(r) PROVE TypeOK'
  BY <1>3 DEF StoreDown, TypeOK, Ended, Busy, Leading, Orphaned
<1>4. ASSUME NEW r \in Readers, ComputeUncached(r) PROVE TypeOK'
  BY <1>4 DEF ComputeUncached, TypeOK, Ended, Busy, Leading, Orphaned
<1>5. ASSUME NEW r \in Readers, Hit(r) PROVE TypeOK'
  BY <1>5 DEF Hit, TypeOK, Ended, Busy, Leading, Orphaned
<1>6. ASSUME NEW r \in Readers, Miss(r) PROVE TypeOK'
  BY <1>6 DEF Miss, TypeOK, Ended, Busy, Leading, Orphaned
<1>7. ASSUME NEW r \in Readers, Join(r) PROVE TypeOK'
  BY <1>7 DEF Join, TypeOK, Ended, Busy, Leading, Orphaned
<1>8. ASSUME NEW r \in Readers, Lead(r) PROVE TypeOK'
  BY <1>8 DEF Lead, TypeOK, Ended, Busy, Leading, Orphaned
<1>9. ASSUME NEW r \in Readers, ReadDb(r) PROVE TypeOK'
  BY <1>9 DEF ReadDb, TypeOK, Ended, Busy, Leading, Orphaned
<1>10. ASSUME NEW r \in Readers, Settle(r) PROVE TypeOK'
  <2>1. Waiters(r) \subseteq Readers
    BY DEF Waiters
  <2>2. /\ pc' \in [Readers -> Ended \cup Busy \cup Orphaned]
        /\ val' \in [Readers -> Versions]
    BY <1>10, <2>1 DEF Settle, Resolve, TypeOK, Ended, Busy, Orphaned
  <2>3. waitsOn' \in [Readers -> Readers \cup {None}]
    BY <1>10, <2>1 DEF Settle, Resolve, TypeOK
  <2>4. inflight' \in [Procs -> [Gens -> Readers \cup {None}]]
    BY <1>10, CacheAssumption DEF Settle, Resolve, TypeOK
  <2>5. QED
    BY <1>10, <2>2, <2>3, <2>4 DEF Settle, TypeOK
<1>11. ASSUME NEW r \in Readers, SettleError(r) PROVE TypeOK'
  <2>1. Waiters(r) \subseteq Readers
    BY DEF Waiters
  <2>2. /\ pc' \in [Readers -> Ended \cup Busy \cup Orphaned]
        /\ val' \in [Readers -> Versions]
    BY <1>11, <2>1 DEF SettleError, Resolve, TypeOK, Ended, Busy, Orphaned
  <2>3. waitsOn' \in [Readers -> Readers \cup {None}]
    BY <1>11, <2>1 DEF SettleError, Resolve, TypeOK
  <2>4. inflight' \in [Procs -> [Gens -> Readers \cup {None}]]
    BY <1>11, CacheAssumption DEF SettleError, Resolve, TypeOK
  <2>5. QED
    BY <1>11, <2>2, <2>3, <2>4 DEF SettleError, TypeOK
<1>12. ASSUME NEW r \in Readers, Store(r) PROVE TypeOK'
  BY <1>12 DEF Store, TypeOK, Ended, Busy, Leading, Orphaned
<1>13. ASSUME NEW r \in Readers, StoreFails(r) PROVE TypeOK'
  BY <1>13 DEF StoreFails, TypeOK, Ended, Busy, Leading, Orphaned
<1>14. ASSUME NEW r \in Readers, CancelLeader(r) PROVE TypeOK'
  BY <1>14 DEF CancelLeader, Abandoned, Waiters, TypeOK, Ended, Busy, Leading, Orphaned
<1>15. ASSUME NEW r \in Readers, CancelOther(r) PROVE TypeOK'
  <2>1. entries' \in [Gens -> Versions \cup {None}]
    BY <1>15 DEF CancelOther, TypeOK
  <2>2. QED
    BY <1>15, <2>1 DEF CancelOther, Abandoned, TypeOK, Ended, Busy, Orphaned
<1>16. ASSUME NEW w \in Writers, Commit(w) PROVE TypeOK'
  BY <1>16 DEF Commit, TypeOK
<1>17. ASSUME NEW w \in Writers, Bump(w) PROVE TypeOK'
  BY <1>17 DEF Bump, TypeOK
<1>18. ASSUME NEW w \in Writers, LoseBump(w) PROVE TypeOK'
  BY <1>18 DEF LoseBump, TypeOK
<1>19. ASSUME NEW g \in Gens, Expire(g) PROVE TypeOK'
  BY <1>19 DEF Expire, TypeOK
<1>20. CASE UNCHANGED vars
  BY <1>20 DEF vars, TypeOK
<1>21. ASSUME NEW r \in Readers, QueryEnds(r) PROVE TypeOK'
  BY <1>21 DEF QueryEnds, TypeOK, Ended, Busy, Leading, Orphaned
<1>22. QED
  BY <1>1, <1>2, <1>3, <1>4, <1>5, <1>6, <1>7, <1>8, <1>9, <1>10, <1>11,
     <1>12, <1>13, <1>14, <1>15, <1>16, <1>17, <1>18, <1>19, <1>20, <1>21
     DEF Next, Step, Cancel

(* Generations.  Only Store writes an entry, and only Bump makes a          *)
(* generation: one that nothing is stored under yet.                       *)
LEMMA GenerationFloorStep == CacheInv /\ [Next]_vars => GenerationFloor'
<1> SUFFICES ASSUME CacheInv, [Next]_vars PROVE GenerationFloor'
  OBVIOUS
<1> USE CacheAssumption DEF redis, writer, history
<1>0. /\ TypeOK /\ GenerationFloor /\ ReaderFloor
      /\ db \in Nat /\ gen \in Nat /\ acked \in Nat
  BY DEF CacheInv, TypeOK, Versions, Gens
<1>1. ASSUME NEW r \in Readers, Start(r) PROVE GenerationFloor'
  BY <1>1, <1>0 DEF Start, GenerationFloor
<1>2. ASSUME NEW r \in Readers, GetGen(r) PROVE GenerationFloor'
  BY <1>2, <1>0 DEF GetGen, GenerationFloor
<1>3. ASSUME NEW r \in Readers, StoreDown(r) PROVE GenerationFloor'
  BY <1>3, <1>0 DEF StoreDown, GenerationFloor
<1>4. ASSUME NEW r \in Readers, ComputeUncached(r) PROVE GenerationFloor'
  BY <1>4, <1>0 DEF ComputeUncached, GenerationFloor
<1>5. ASSUME NEW r \in Readers, Hit(r) PROVE GenerationFloor'
  BY <1>5, <1>0 DEF Hit, GenerationFloor
<1>6. ASSUME NEW r \in Readers, Miss(r) PROVE GenerationFloor'
  BY <1>6, <1>0 DEF Miss, GenerationFloor
<1>7. ASSUME NEW r \in Readers, Join(r) PROVE GenerationFloor'
  BY <1>7, <1>0 DEF Join, GenerationFloor
<1>8. ASSUME NEW r \in Readers, Lead(r) PROVE GenerationFloor'
  BY <1>8, <1>0 DEF Lead, GenerationFloor
<1>9. ASSUME NEW r \in Readers, ReadDb(r) PROVE GenerationFloor'
  BY <1>9, <1>0 DEF ReadDb, GenerationFloor
<1>10. ASSUME NEW r \in Readers, Settle(r) PROVE GenerationFloor'
  BY <1>10, <1>0 DEF Settle, GenerationFloor
<1>11. ASSUME NEW r \in Readers, SettleError(r) PROVE GenerationFloor'
  BY <1>11, <1>0 DEF SettleError, GenerationFloor
<1>12. ASSUME NEW r \in Readers, Store(r) PROVE GenerationFloor'
  BY <1>12, <1>0, ReaderTypes DEF Store, GenerationFloor, ReaderFloor, TypeOK, Busy
<1>13. ASSUME NEW r \in Readers, StoreFails(r) PROVE GenerationFloor'
  BY <1>13, <1>0 DEF StoreFails, GenerationFloor
<1>14. ASSUME NEW r \in Readers, CancelLeader(r) PROVE GenerationFloor'
  BY <1>14, <1>0 DEF CancelLeader, GenerationFloor
<1>15. ASSUME NEW r \in Readers, CancelOther(r) PROVE GenerationFloor'
  BY <1>15, <1>0, ReaderTypes DEF CancelOther, GenerationFloor, ReaderFloor, TypeOK, Busy
<1>16. ASSUME NEW w \in Writers, Commit(w) PROVE GenerationFloor'
  BY <1>16, <1>0 DEF Commit, GenerationFloor, TypeOK, Gens, Versions
<1>17. ASSUME NEW w \in Writers, Bump(w) PROVE GenerationFloor'
  BY <1>17, <1>0 DEF Bump, GenerationFloor, TypeOK, Gens, Versions
<1>18. ASSUME NEW w \in Writers, LoseBump(w) PROVE GenerationFloor'
  BY <1>18, <1>0 DEF LoseBump, GenerationFloor, TypeOK, Gens, Versions
<1>19. ASSUME NEW g \in Gens, Expire(g) PROVE GenerationFloor'
  BY <1>19, <1>0 DEF Expire, GenerationFloor, TypeOK, Gens, Versions
<1>20. CASE UNCHANGED vars
  BY <1>20, <1>0 DEF vars, GenerationFloor
<1>21. ASSUME NEW r \in Readers, QueryEnds(r) PROVE GenerationFloor'
  BY <1>21, <1>0 DEF QueryEnds, GenerationFloor
<1>22. QED
  BY <1>1, <1>2, <1>3, <1>4, <1>5, <1>6, <1>7, <1>8, <1>9, <1>10, <1>11,
     <1>12, <1>13, <1>14, <1>15, <1>16, <1>17, <1>18, <1>19, <1>20, <1>21
     DEF Next, Step, Cancel

(* Readers.  A request's floor is fixed when it starts, its generation is  *)
(* read after that, and compute runs after the generation was read.        *)
LEMMA ReaderFloorStep == CacheInv /\ [Next]_vars => ReaderFloor'
<1> SUFFICES ASSUME CacheInv, [Next]_vars PROVE ReaderFloor'
  OBVIOUS
<1> USE CacheAssumption DEF redis, writer, history
<1>0. /\ CacheInv /\ TypeOK /\ GenerationFloor /\ ReaderFloor
      /\ db \in Nat /\ gen \in Gens /\ acked \in Nat /\ Gens \subseteq Nat
  BY DEF CacheInv, TypeOK, Versions, Gens
<1>1. ASSUME NEW r \in Readers, Start(r) PROVE ReaderFloor'
  BY <1>1, <1>0 DEF Start, ReaderFloor, TypeOK, Busy, Leading
<1>2. ASSUME NEW r \in Readers, GetGen(r) PROVE ReaderFloor'
  <2>1. floor[r] <= acked /\ acked <= base[gen] /\ base[gen] \in Nat
    BY <1>0 DEF ReaderFloor, GenerationFloor, TypeOK, Versions
  <2>2. floor[r] <= base[gen]
    BY <1>0, <2>1, ReaderTypes
  <2>3. QED
    BY <1>2, <1>0, <2>2 DEF GetGen, ReaderFloor, TypeOK, Busy, Leading
<1>3. ASSUME NEW r \in Readers, StoreDown(r) PROVE ReaderFloor'
  BY <1>3, <1>0 DEF StoreDown, ReaderFloor, TypeOK, Busy, Leading
<1>4. ASSUME NEW r \in Readers, ComputeUncached(r) PROVE ReaderFloor'
  BY <1>4, <1>0 DEF ComputeUncached, ReaderFloor, TypeOK, Busy, Leading
<1>5. ASSUME NEW r \in Readers, Hit(r) PROVE ReaderFloor'
  BY <1>5, <1>0, HitIsFresh DEF Hit, ReaderFloor, TypeOK, Busy, Leading
<1>6. ASSUME NEW r \in Readers, Miss(r) PROVE ReaderFloor'
  BY <1>6, <1>0 DEF Miss, ReaderFloor, TypeOK, Busy, Leading
<1>7. ASSUME NEW r \in Readers, Join(r) PROVE ReaderFloor'
  BY <1>7, <1>0 DEF Join, ReaderFloor, TypeOK, Busy, Leading
<1>8. ASSUME NEW r \in Readers, Lead(r) PROVE ReaderFloor'
  BY <1>8, <1>0 DEF Lead, ReaderFloor, TypeOK, Busy, Leading
<1>9. ASSUME NEW r \in Readers, ReadDb(r) PROVE ReaderFloor'
  <2>1. base[genOf[r]] <= db
    BY <1>0, ReaderTypes DEF GenerationFloor
  <2>2. pc[r] = "compute" /\ pc[r] \in Busy \ {"gen", "bypass"}
    BY <1>9 DEF ReadDb, Busy, Leading
  <2>3. QED
    BY <1>9, <1>0, <2>1, <2>2 DEF ReadDb, ReaderFloor, TypeOK
<1>10. ASSUME NEW r \in Readers, Settle(r) PROVE ReaderFloor'
  <2>1. Waiters(r) \subseteq Readers /\ (\A w \in Waiters(r) : pc[w] = "wait")
    BY DEF Waiters
  <2>2. QED
    BY <1>10, <1>0, <2>1 DEF Settle, Resolve, ReaderFloor, TypeOK, Busy, Leading
<1>11. ASSUME NEW r \in Readers, SettleError(r) PROVE ReaderFloor'
  <2>1. Waiters(r) \subseteq Readers /\ (\A w \in Waiters(r) : pc[w] = "wait")
    BY DEF Waiters
  <2>2. QED
    BY <1>11, <1>0, <2>1 DEF SettleError, Resolve, ReaderFloor, TypeOK, Busy, Leading
<1>12. ASSUME NEW r \in Readers, Store(r) PROVE ReaderFloor'
  BY <1>12, <1>0 DEF Store, ReaderFloor, TypeOK, Busy, Leading
<1>13. ASSUME NEW r \in Readers, StoreFails(r) PROVE ReaderFloor'
  BY <1>13, <1>0 DEF StoreFails, ReaderFloor, TypeOK, Busy, Leading
<1>14. ASSUME NEW r \in Readers, CancelLeader(r) PROVE ReaderFloor'
  <2>1. Waiters(r) \subseteq Readers /\ (\A w \in Waiters(r) : pc[w] = "wait")
    BY DEF Waiters
  <2>2. QED
    BY <1>14, <1>0, <2>1 DEF CancelLeader, Abandoned, ReaderFloor, TypeOK, Busy, Leading
<1>15. ASSUME NEW r \in Readers, CancelOther(r) PROVE ReaderFloor'
  BY <1>15, <1>0 DEF CancelOther, Abandoned, ReaderFloor, TypeOK, Busy, Leading
<1>16. ASSUME NEW w \in Writers, Commit(w) PROVE ReaderFloor'
  BY <1>16, <1>0, ReaderTypes DEF Commit, ReaderFloor
<1>17. ASSUME NEW w \in Writers, Bump(w) PROVE ReaderFloor'
  <2>1. \A r \in Readers : genOf[r] <= gen => base'[genOf[r]] = base[genOf[r]]
    BY <1>17, <1>0, ReaderTypes DEF Bump, TypeOK
  <2>2. gen' >= gen /\ acked' >= acked /\ acked' \in Nat
    BY <1>17, <1>0 DEF Bump, TypeOK, Versions
  <2>3. gen' = gen + 1 /\ UNCHANGED <<db, pc, genOf, val, floor>>
    BY <1>17 DEF Bump
  <2>4. ASSUME NEW s \in Readers
        PROVE  /\ floor[s] <= acked'
               /\ pc[s] \in Busy \ {"gen", "bypass"} =>
                     genOf[s] <= gen' /\ floor[s] <= base'[genOf[s]]
               /\ pc[s] \in {"computed", "raised", "store"} => base'[genOf[s]] <= val[s]
    <3>1. /\ genOf[s] \in Nat /\ genOf[s] \in Gens /\ floor[s] \in Nat
          /\ floor[s] <= acked
      BY <1>0, ReaderTypes DEF ReaderFloor
    <3>2. floor[s] <= acked'
      BY <1>0, <2>2, <3>1
    <3>3. ASSUME pc[s] \in Busy \ {"gen", "bypass"}
          PROVE  genOf[s] <= gen' /\ floor[s] <= base'[genOf[s]]
      <4>1. genOf[s] <= gen /\ floor[s] <= base[genOf[s]]
        BY <1>0, <3>3 DEF ReaderFloor
      <4>2. QED
        BY <1>0, <2>1, <2>3, <3>1, <4>1
    <3>4. ASSUME pc[s] \in {"computed", "raised", "store"}
          PROVE  base'[genOf[s]] <= val[s]
      <4>1. genOf[s] <= gen /\ base[genOf[s]] <= val[s]
        BY <1>0, <3>4 DEF ReaderFloor, Busy, Leading
      <4>2. QED
        BY <2>1, <4>1
    <3>5. QED
      BY <3>2, <3>3, <3>4
  <2>5. QED
    BY <1>0, <2>3, <2>4 DEF ReaderFloor
<1>18. ASSUME NEW w \in Writers, LoseBump(w) PROVE ReaderFloor'
  BY <1>18, <1>0, ReaderTypes DEF LoseBump, ReaderFloor
<1>19. ASSUME NEW g \in Gens, Expire(g) PROVE ReaderFloor'
  BY <1>19, <1>0, ReaderTypes DEF Expire, ReaderFloor
<1>20. CASE UNCHANGED vars
  BY <1>20, <1>0, ReaderTypes DEF vars, ReaderFloor
<1>21. ASSUME NEW r \in Readers, QueryEnds(r) PROVE ReaderFloor'
  BY <1>21, <1>0 DEF QueryEnds, ReaderFloor, TypeOK, Busy, Leading
<1>22. QED
  BY <1>1, <1>2, <1>3, <1>4, <1>5, <1>6, <1>7, <1>8, <1>9, <1>10, <1>11,
     <1>12, <1>13, <1>14, <1>15, <1>16, <1>17, <1>18, <1>19, <1>20, <1>21
     DEF Next, Step, Cancel

(* A step of r that neither begins nor ends a computation or a wait leaves *)
(* the table exact.                                                        *)
LEMMA ReaderKeepsInflight ==
    ASSUME CacheInv, NEW r \in Readers, UNCHANGED inflight,
           pc'[r] \in Leading <=> pc[r] \in Leading, pc'[r] # "wait",
           pc[r] \in Leading => genOf'[r] = genOf[r],
           \A s \in Readers \ {r} : /\ pc'[s] = pc[s]
                                    /\ genOf'[s] = genOf[s]
                                    /\ waitsOn'[s] = waitsOn[s]
    PROVE  InflightExact'
<1>1. ASSUME NEW p \in Procs, NEW g \in Gens, inflight[p][g] # None
      PROVE  LET l == inflight[p][g] IN
             pc'[l] \in Leading /\ ProcOf[l] = p /\ genOf'[l] = g
  <2>1. inflight[p][g] \in Readers
    BY <1>1 DEF CacheInv, TypeOK
  <2>2. QED
    BY <1>1, <2>1 DEF CacheInv, InflightExact
<1>2. ASSUME NEW s \in Readers, pc'[s] \in Leading
      PROVE  inflight[ProcOf[s]][genOf'[s]] = s
  BY <1>2 DEF CacheInv, InflightExact
<1>3. ASSUME NEW s \in Readers, pc'[s] = "wait"
      PROVE  waitsOn'[s] \in Readers /\ inflight[ProcOf[s]][genOf'[s]] = waitsOn'[s]
  BY <1>3 DEF CacheInv, InflightExact
<1>4. QED
  BY <1>1, <1>2, <1>3 DEF InflightExact

(* A leader that leaves, however it ends, takes its future with it. *)
LEMMA ReleaseKeepsInflight ==
    ASSUME NEW r \in Readers, NEW next, NEW outcome,
           next \notin Leading \cup {"wait"}, outcome \notin Leading \cup {"wait"},
           CacheInv, pc[r] \in Leading, genOf' = genOf,
           inflight' = IF inflight[ProcOf[r]][genOf[r]] = r
                       THEN [inflight EXCEPT ![ProcOf[r]][genOf[r]] = None]
                       ELSE inflight,
           pc' = [w \in Readers |-> IF w = r THEN next
                                    ELSE IF w \in Waiters(r) THEN outcome ELSE pc[w]],
           \A w \in Readers \ Waiters(r) : waitsOn'[w] = waitsOn[w]
    PROVE  InflightExact'
<1> DEFINE Cell(s) == inflight[ProcOf[s]][genOf[s]]
           CellNext(s) == inflight'[ProcOf[s]][genOf[s]]
<1>1. /\ Cell(r) = r
      /\ inflight' = [inflight EXCEPT ![ProcOf[r]][genOf[r]] = None]
  BY DEF CacheInv, InflightExact
<1>2. /\ inflight \in [Procs -> [Gens -> Readers \cup {None}]]
      /\ \A s \in Readers : ProcOf[s] \in Procs /\ genOf[s] \in Gens
      /\ None \notin Readers
  BY CacheAssumption, ReaderTypes DEF CacheInv, TypeOK
<1>3. \A s \in Readers : Cell(s) # r => CellNext(s) = Cell(s)
  BY <1>1, <1>2
<1>4. ASSUME NEW p \in Procs, NEW g \in Gens, inflight'[p][g] # None
      PROVE  LET l == inflight'[p][g] IN
             pc'[l] \in Leading /\ ProcOf[l] = p /\ genOf'[l] = g
  <2> DEFINE l == inflight[p][g]
  <2>1. inflight'[p][g] = l /\ l \in Readers
    BY <1>1, <1>2, <1>4
  <2>2. pc[l] \in Leading /\ ProcOf[l] = p /\ genOf[l] = g
    BY <1>4, <2>1 DEF CacheInv, InflightExact
  <2>3. l # r
    BY <1>1, <1>2, <1>4, <2>2
  <2>4. l \notin Waiters(r)
    BY <2>2 DEF Waiters, Leading
  <2>5. QED
    BY <2>1, <2>2, <2>3, <2>4
<1>5. ASSUME NEW s \in Readers, pc'[s] \in Leading
      PROVE  CellNext(s) = s
  <2>1. s # r /\ pc[s] \in Leading
    BY <1>5
  <2>2. Cell(s) = s
    BY <2>1 DEF CacheInv, InflightExact
  <2>3. QED
    BY <1>3, <2>1, <2>2
<1>6. ASSUME NEW s \in Readers, pc'[s] = "wait"
      PROVE  waitsOn'[s] \in Readers /\ CellNext(s) = waitsOn'[s]
  <2>1. s # r /\ s \notin Waiters(r) /\ pc[s] = "wait"
    BY <1>6
  <2>2. waitsOn'[s] = waitsOn[s] /\ waitsOn[s] # r
    BY <2>1 DEF Waiters
  <2>3. waitsOn[s] \in Readers /\ Cell(s) = waitsOn[s]
    BY <2>1 DEF CacheInv, InflightExact
  <2>4. QED
    BY <1>3, <2>2, <2>3
<1>7. QED
  BY <1>4, <1>5, <1>6 DEF InflightExact

(* Coalescing. *)
LEMMA InflightStep == CacheInv /\ [Next]_vars => InflightExact'
<1> SUFFICES ASSUME CacheInv, [Next]_vars PROVE InflightExact'
  OBVIOUS
<1> USE DEF redis, writer, history
<1>0. TypeOK /\ InflightExact
  BY DEF CacheInv
<1>1. ASSUME NEW r \in Readers, Start(r) PROVE InflightExact'
  BY <1>1, <1>0, ReaderKeepsInflight DEF Start, TypeOK, Ended, Leading
<1>2. ASSUME NEW r \in Readers, GetGen(r) PROVE InflightExact'
  BY <1>2, <1>0, ReaderKeepsInflight DEF GetGen, TypeOK, Leading
<1>3. ASSUME NEW r \in Readers, StoreDown(r) PROVE InflightExact'
  BY <1>3, <1>0, ReaderKeepsInflight DEF StoreDown, TypeOK, Leading
<1>4. ASSUME NEW r \in Readers, ComputeUncached(r) PROVE InflightExact'
  BY <1>4, <1>0, ReaderKeepsInflight DEF ComputeUncached, TypeOK, Leading
<1>5. ASSUME NEW r \in Readers, Hit(r) PROVE InflightExact'
  BY <1>5, <1>0, ReaderKeepsInflight DEF Hit, TypeOK, Leading
<1>6. ASSUME NEW r \in Readers, Miss(r) PROVE InflightExact'
  BY <1>6, <1>0, ReaderKeepsInflight DEF Miss, TypeOK, Leading
<1>7. ASSUME NEW r \in Readers, Join(r) PROVE InflightExact'
  <2>1. inflight[ProcOf[r]][genOf[r]] \in Readers
    BY <1>7, <1>0, ReaderTypes DEF Join, TypeOK
  <2>2. QED
    BY <1>7, <1>0, <2>1 DEF Join, InflightExact, TypeOK, Leading
<1>8. ASSUME NEW r \in Readers, Lead(r) PROVE InflightExact'
  <2>1. /\ pc[r] = "loop" /\ inflight[ProcOf[r]][genOf[r]] = None
        /\ pc' = [pc EXCEPT ![r] = "compute"] /\ genOf' = genOf
        /\ waitsOn' = [waitsOn EXCEPT ![r] = None]
        /\ inflight' = [inflight EXCEPT ![ProcOf[r]][genOf[r]] = r]
    BY <1>8 DEF Lead
  <2>2. \A p \in Procs, g \in Gens :
           inflight'[p][g] = IF p = ProcOf[r] /\ g = genOf[r] THEN r ELSE inflight[p][g]
    BY <1>0, <2>1 DEF TypeOK
  <2>3. ASSUME NEW p \in Procs, NEW g \in Gens, inflight'[p][g] # None
        PROVE  LET l == inflight'[p][g] IN
               pc'[l] \in Leading /\ ProcOf[l] = p /\ genOf'[l] = g
    BY <1>0, <2>1, <2>2, <2>3 DEF InflightExact, TypeOK, Leading
  <2>4. ASSUME NEW s \in Readers, pc'[s] \in Leading
        PROVE  inflight'[ProcOf[s]][genOf'[s]] = s
    BY <1>0, <2>1, <2>2, <2>4, ReaderTypes, CacheAssumption DEF InflightExact, TypeOK, Leading
  <2>5. ASSUME NEW s \in Readers, pc'[s] = "wait"
        PROVE  waitsOn'[s] \in Readers /\ inflight'[ProcOf[s]][genOf'[s]] = waitsOn'[s]
    BY <1>0, <2>1, <2>2, <2>5, ReaderTypes, CacheAssumption DEF InflightExact, TypeOK
  <2>6. QED
    BY <2>3, <2>4, <2>5 DEF InflightExact
<1>9. ASSUME NEW r \in Readers, ReadDb(r) PROVE InflightExact'
  BY <1>9, <1>0, ReaderKeepsInflight DEF ReadDb, TypeOK, Leading
<1>10. ASSUME NEW r \in Readers, Settle(r) PROVE InflightExact'
  BY <1>10, ReleaseKeepsInflight DEF Settle, Resolve, Leading
<1>11. ASSUME NEW r \in Readers, SettleError(r) PROVE InflightExact'
  BY <1>11, ReleaseKeepsInflight DEF SettleError, Resolve, Leading
<1>12. ASSUME NEW r \in Readers, Store(r) PROVE InflightExact'
  BY <1>12, <1>0, ReaderKeepsInflight DEF Store, TypeOK, Leading
<1>13. ASSUME NEW r \in Readers, StoreFails(r) PROVE InflightExact'
  BY <1>13, <1>0, ReaderKeepsInflight DEF StoreFails, TypeOK, Leading
<1>14. ASSUME NEW r \in Readers, CancelLeader(r) PROVE InflightExact'
  <2>1. PICK end \in {"gone", "idle"} :
            pc' = [w \in Readers |-> IF w = r THEN end
                                    ELSE IF w \in Waiters(r) THEN "loop" ELSE pc[w]]
    BY <1>14 DEF CancelLeader, Abandoned
  <2>2. end \notin Leading \cup {"wait"} /\ "loop" \notin Leading \cup {"wait"}
    BY DEF Leading
  <2>3. /\ pc[r] \in Leading /\ genOf' = genOf /\ waitsOn' = waitsOn
        /\ inflight' = IF inflight[ProcOf[r]][genOf[r]] = r
                       THEN [inflight EXCEPT ![ProcOf[r]][genOf[r]] = None]
                       ELSE inflight
    BY <1>14 DEF CancelLeader
  <2>4. QED
    BY <2>1, <2>2, <2>3, ReleaseKeepsInflight
<1>15. ASSUME NEW r \in Readers, CancelOther(r) PROVE InflightExact'
  BY <1>15, <1>0, ReaderKeepsInflight DEF CancelOther, Abandoned, TypeOK, Leading
<1>16. ASSUME NEW w \in Writers, Commit(w) PROVE InflightExact'
  BY <1>16, <1>0 DEF Commit, InflightExact
<1>17. ASSUME NEW w \in Writers, Bump(w) PROVE InflightExact'
  BY <1>17, <1>0 DEF Bump, InflightExact
<1>18. ASSUME NEW w \in Writers, LoseBump(w) PROVE InflightExact'
  BY <1>18, <1>0 DEF LoseBump, InflightExact
<1>19. ASSUME NEW g \in Gens, Expire(g) PROVE InflightExact'
  BY <1>19, <1>0 DEF Expire, InflightExact
<1>20. CASE UNCHANGED vars
  BY <1>20, <1>0 DEF vars, InflightExact
<1>21. ASSUME NEW r \in Readers, QueryEnds(r) PROVE InflightExact'
  BY <1>21, <1>0, ReaderKeepsInflight DEF QueryEnds, TypeOK, Leading
<1>22. QED
  BY <1>1, <1>2, <1>3, <1>4, <1>5, <1>6, <1>7, <1>8, <1>9, <1>10, <1>11,
     <1>12, <1>13, <1>14, <1>15, <1>16, <1>17, <1>18, <1>19, <1>20, <1>21
     DEF Next, Step, Cancel

(* Freshness of the answers. *)
LEMMA FreshStep == CacheInv /\ [Next]_vars => ReadsAreFresh'
<1> SUFFICES ASSUME CacheInv, [Next]_vars PROVE ReadsAreFresh'
  OBVIOUS
<1> USE DEF redis, writer, history
<1>0. TypeOK /\ ReadsAreFresh
  BY DEF CacheInv
<1>1. ASSUME NEW r \in Readers, Start(r) PROVE ReadsAreFresh'
  BY <1>1, <1>0 DEF Start, ReadsAreFresh, TypeOK, Leading
<1>2. ASSUME NEW r \in Readers, GetGen(r) PROVE ReadsAreFresh'
  BY <1>2, <1>0 DEF GetGen, ReadsAreFresh, TypeOK, Leading
<1>3. ASSUME NEW r \in Readers, StoreDown(r) PROVE ReadsAreFresh'
  BY <1>3, <1>0 DEF StoreDown, ReadsAreFresh, TypeOK, Leading
<1>4. ASSUME NEW r \in Readers, ComputeUncached(r) PROVE ReadsAreFresh'
  <2>1. db \in Nat /\ floor[r] <= acked /\ acked <= base[gen] /\ base[gen] <= db
        /\ acked \in Nat /\ base[gen] \in Nat
    BY CacheAssumption DEF CacheInv, TypeOK, ReaderFloor, GenerationFloor, Versions
  <2>2. db >= floor[r]
    BY <2>1, ReaderTypes
  <2>3. QED
    BY <1>4, <1>0, <2>2 DEF ComputeUncached, ReadsAreFresh, TypeOK
<1>5. ASSUME NEW r \in Readers, Hit(r) PROVE ReadsAreFresh'
  BY <1>5, <1>0, HitIsFresh DEF Hit, ReadsAreFresh, TypeOK
<1>6. ASSUME NEW r \in Readers, Miss(r) PROVE ReadsAreFresh'
  BY <1>6, <1>0 DEF Miss, ReadsAreFresh, TypeOK, Leading
<1>7. ASSUME NEW r \in Readers, Join(r) PROVE ReadsAreFresh'
  BY <1>7, <1>0 DEF Join, ReadsAreFresh, TypeOK, Leading
<1>8. ASSUME NEW r \in Readers, Lead(r) PROVE ReadsAreFresh'
  BY <1>8, <1>0 DEF Lead, ReadsAreFresh, TypeOK, Leading
<1>9. ASSUME NEW r \in Readers, ReadDb(r) PROVE ReadsAreFresh'
  BY <1>9, <1>0 DEF ReadDb, ReadsAreFresh, TypeOK, Leading
<1>10. ASSUME NEW r \in Readers, Settle(r) PROVE ReadsAreFresh'
  <2>1. \A w \in Waiters(r) : val[r] >= floor[w]
    BY <1>10, WaitersAreFresh DEF Settle
  <2>2. QED
    BY <1>10, <1>0, <2>1 DEF Settle, Resolve, ReadsAreFresh
<1>11. ASSUME NEW r \in Readers, SettleError(r) PROVE ReadsAreFresh'
  <2>1. \A w \in Waiters(r) : val[r] >= floor[w]
    BY <1>11, WaitersAreFresh DEF SettleError
  <2>2. val[r] >= floor[r] /\ r \notin Waiters(r)
    BY <1>11, ComputedIsFresh DEF SettleError, Waiters
  <2>3. QED
    BY <1>11, <1>0, <2>1, <2>2 DEF SettleError, Resolve, ReadsAreFresh
<1>12. ASSUME NEW r \in Readers, Store(r) PROVE ReadsAreFresh'
  <2>1. val[r] >= floor[r]
    BY <1>12, ComputedIsFresh DEF Store
  <2>2. QED
    BY <1>12, <1>0, <2>1 DEF Store, ReadsAreFresh, TypeOK
<1>13. ASSUME NEW r \in Readers, StoreFails(r) PROVE ReadsAreFresh'
  <2>1. val[r] >= floor[r]
    BY <1>13, ComputedIsFresh DEF StoreFails
  <2>2. QED
    BY <1>13, <1>0, <2>1 DEF StoreFails, ReadsAreFresh, TypeOK
<1>14. ASSUME NEW r \in Readers, CancelLeader(r) PROVE ReadsAreFresh'
  BY <1>14, <1>0 DEF CancelLeader, Abandoned, ReadsAreFresh, TypeOK
<1>15. ASSUME NEW r \in Readers, CancelOther(r) PROVE ReadsAreFresh'
  BY <1>15, <1>0 DEF CancelOther, Abandoned, ReadsAreFresh, TypeOK, Leading
<1>16. ASSUME NEW w \in Writers, Commit(w) PROVE ReadsAreFresh'
  BY <1>16, <1>0 DEF Commit, ReadsAreFresh
<1>17. ASSUME NEW w \in Writers, Bump(w) PROVE ReadsAreFresh'
  BY <1>17, <1>0 DEF Bump, ReadsAreFresh
<1>18. ASSUME NEW w \in Writers, LoseBump(w) PROVE ReadsAreFresh'
  BY <1>18, <1>0 DEF LoseBump, ReadsAreFresh
<1>19. ASSUME NEW g \in Gens, Expire(g) PROVE ReadsAreFresh'
  BY <1>19, <1>0 DEF Expire, ReadsAreFresh
<1>20. CASE UNCHANGED vars
  BY <1>20, <1>0 DEF vars, ReadsAreFresh
<1>21. ASSUME NEW r \in Readers, QueryEnds(r) PROVE ReadsAreFresh'
  BY <1>21, <1>0 DEF QueryEnds, ReadsAreFresh, TypeOK, Leading
<1>22. QED
  BY <1>1, <1>2, <1>3, <1>4, <1>5, <1>6, <1>7, <1>8, <1>9, <1>10, <1>11,
     <1>12, <1>13, <1>14, <1>15, <1>16, <1>17, <1>18, <1>19, <1>20, <1>21
     DEF Next, Step, Cancel

-----------------------------------------------------------------------------
(* The theorems *)

(* CacheInv holds initially and is preserved by every step. *)
THEOREM CacheInvariant == Spec => []CacheInv
<1>1. Init => CacheInv
  <2> SUFFICES ASSUME Init PROVE CacheInv
    OBVIOUS
  <2>1. TypeOK
    BY CacheAssumption DEF Init, TypeOK, Gens, Versions, Ended
  <2>2. GenerationFloor
    BY CacheAssumption DEF Init, GenerationFloor, Gens
  <2>3. ReaderFloor
    <3>1. \A r \in Readers : pc[r] = "idle" /\ floor[r] = 0 /\ val[r] = 0
      BY DEF Init
    <3>2. acked = 0 /\ db = 0
      BY DEF Init
    <3>3. ASSUME NEW r \in Readers
          PROVE  /\ floor[r] <= acked /\ val[r] <= db
                 /\ pc[r] \notin Busy
                 /\ pc[r] \notin {"computed", "raised", "store"}
      BY <3>1, <3>2 DEF Busy, Leading
    <3>4. QED
      BY <3>3 DEF ReaderFloor
  <2>4. InflightExact
    BY DEF Init, InflightExact, Leading
  <2>5. ReadsAreFresh
    BY DEF Init, ReadsAreFresh
  <2>6. QED
    BY <2>1, <2>2, <2>3, <2>4, <2>5 DEF CacheInv
<1>2. CacheInv /\ [Next]_vars => CacheInv'
  BY TypeStep, GenerationFloorStep, ReaderFloorStep, InflightStep, FreshStep
     DEF CacheInv
<1>3. QED
  BY <1>1, <1>2, PTL DEF Spec

(* No request is ever answered on a state older than the newest write that *)
(* had been acknowledged when it started (app/cache.py 51-118).            *)
THEOREM AnswersAreFresh == Spec => []ReadsAreFresh
<1>1. CacheInv => ReadsAreFresh
  BY DEF CacheInv
<1>2. QED
  BY CacheInvariant, <1>1, PTL

(* What is stored, or about to be, under the current generation saw every  *)
(* acknowledged write (app/cache.py 8-12).                                 *)
THEOREM NoStaleEntryIsCurrent == Spec => []CurrentEntryIsFresh
<1>1. CacheInv => CurrentEntryIsFresh
  <2> SUFFICES ASSUME CacheInv PROVE CurrentEntryIsFresh
    OBVIOUS
  <2>1. /\ gen \in Gens /\ acked \in Nat /\ base[gen] \in Nat
        /\ acked <= base[gen]
    BY CacheAssumption DEF CacheInv, TypeOK, GenerationFloor, Versions
  <2>2. ASSUME entries[gen] # None PROVE entries[gen] >= acked
    <3>1. entries[gen] \in Nat /\ base[gen] <= entries[gen]
      BY <2>1, <2>2, CacheAssumption DEF CacheInv, TypeOK, GenerationFloor, Versions
    <3>2. QED
      BY <2>1, <3>1
  <2>3. ASSUME NEW r \in Readers, pc[r] \in {"computed", "store"}, genOf[r] = gen
        PROVE  val[r] >= acked
    <3>1. base[gen] <= val[r]
      BY <2>3 DEF CacheInv, ReaderFloor
    <3>2. QED
      BY <2>1, <3>1, ReaderTypes
  <2>4. QED
    BY <2>2, <2>3 DEF CurrentEntryIsFresh
<1>2. QED
  BY CacheInvariant, <1>1, PTL

(* No request computes an entry beside another that still waits for it:    *)
(* every waiter awaits a computation whose caller is there, and of the     *)
(* queries that run for one entry in a process all but at most one have    *)
(* lost their caller (app/cache.py 71-94).                                 *)
THEOREM ComputationsAreCoalesced == Spec => []OneComputationPerEntry
<1>1. CacheInv => OneComputationPerEntry
  <2> SUFFICES ASSUME CacheInv PROVE OneComputationPerEntry
    OBVIOUS
  <2>1. ASSUME NEW r \in Readers, pc[r] = "wait"
        PROVE  LET l == waitsOn[r] IN
               l \in Readers /\ pc[l] \in Leading
                             /\ ProcOf[l] = ProcOf[r] /\ genOf[l] = genOf[r]
    <3>1. waitsOn[r] \in Readers /\ inflight[ProcOf[r]][genOf[r]] = waitsOn[r]
      BY <2>1 DEF CacheInv, InflightExact
    <3>2. QED
      BY <3>1, ReaderTypes, CacheAssumption DEF CacheInv, InflightExact
  <2>2. ASSUME NEW r \in Readers, NEW s \in Readers, r # s,
               pc[r] \in Leading \cup Orphaned, pc[s] \in Leading \cup Orphaned,
               ProcOf[r] = ProcOf[s], genOf[r] = genOf[s]
        PROVE  pc[r] \in Orphaned \/ pc[s] \in Orphaned
    <3>1. ASSUME pc[r] \in Leading, pc[s] \in Leading PROVE FALSE
      BY <2>2, <3>1 DEF CacheInv, InflightExact
    <3>2. QED
      BY <2>2, <3>1
  <2>3. QED
    BY <2>1, <2>2 DEF OneComputationPerEntry
<1>2. QED
  BY CacheInvariant, <1>1, PTL

-----------------------------------------------------------------------------
(* ResponseCache implements FreshReads *)

(* A step that keeps r running and touches no other request is invisible. *)
LEMMA RunningIsInvisible ==
    ASSUME NEW r \in Readers, pc[r] \in Busy, pc'[r] \in Busy,
           \A s \in Readers \ {r} : pc'[s] = pc[s] /\ val'[s] = val[s]
    PROVE  phaseOf' = phaseOf /\ answerOf' = answerOf
<1>1. \A s \in {"done", "failed"} : s \notin Busy \cup Orphaned
  BY DEF Busy, Leading, Orphaned
<1>2. QED
  BY <1>1 DEF phaseOf, answerOf

(* Requests S end with outcome on state v, all others keep their position. *)
LEMMA EndingIsAnswer ==
    ASSUME CacheInv, NEW S \in SUBSET Readers, NEW v \in Nat, NEW outcome \in {"done", "failed"},
           v <= db, \A s \in S : pc[s] \in Busy /\ floor[s] <= v,
           \A s \in S : pc'[s] = outcome /\ val'[s] = v,
           \A s \in Readers \ S : /\ pc'[s] = pc[s] \/ (pc[s] \in Busy /\ pc'[s] \in Busy)
                                  /\ val'[s] = val[s],
           UNCHANGED <<db, acked, floor>>
    PROVE  Fresh!FreshNext
<1>1. \A s \in {"done", "failed"} : s \notin Busy \cup Orphaned
  BY DEF Busy, Leading, Orphaned
<1>2. \A s \in S : phaseOf[s] = "pending" /\ floor[s] <= v
  BY DEF phaseOf
<1>3. phaseOf' = [r \in Readers |-> IF r \in S THEN outcome ELSE phaseOf[r]]
  BY <1>1 DEF phaseOf
<1>4. answerOf' = [r \in Readers |-> IF r \in S THEN v ELSE answerOf[r]]
  BY <1>1 DEF answerOf
<1>5. v \in 0 .. MaxWrites
  BY CacheAssumption DEF CacheInv, TypeOK, Versions
<1>6. Fresh!Answer(S, v, outcome)
  BY <1>2, <1>3, <1>4 DEF Fresh!Answer
<1>7. QED
  BY <1>5, <1>6 DEF Fresh!FreshNext

(* A running request goes away, no other ends. *)
LEMMA LeavingIsAbandon ==
    ASSUME NEW r \in Readers, pc[r] \in Busy, pc'[r] \in {"gone", "idle"},
           \A s \in Readers \ {r} : /\ pc'[s] = pc[s] \/ (pc[s] \in Busy /\ pc'[s] \in Busy)
                                    /\ val'[s] = val[s],
           UNCHANGED <<db, acked, floor>>
    PROVE  Fresh!FreshNext
<1>1. \A s \in {"gone", "idle", "done", "failed"} : s \notin Busy
  BY DEF Busy, Leading
<1>2. phaseOf[r] = "pending" /\ phaseOf' = [phaseOf EXCEPT ![r] = "idle"]
  BY <1>1 DEF phaseOf, Orphaned
<1>3. answerOf' = [answerOf EXCEPT ![r] = 0]
  BY <1>1 DEF answerOf
<1>4. QED
  BY <1>2, <1>3 DEF Fresh!Abandon, Fresh!FreshNext

(* Every step of the cache is a step of the promise, or invisible to it. *)
LEMMA RefinementStep ==
    CacheInv /\ [Next]_vars => [Fresh!FreshNext]_(Fresh!fvars)
<1> SUFFICES ASSUME CacheInv, [Next]_vars
             PROVE  Fresh!FreshNext \/ UNCHANGED <<db, acked, phaseOf, floor, answerOf>>
  BY DEF Fresh!fvars
<1> USE DEF redis, writer, history
<1>0. TypeOK /\ db \in Nat /\ acked \in Nat
  BY CacheAssumption DEF CacheInv, TypeOK, Versions
<1> DEFINE Goal == Fresh!FreshNext \/ UNCHANGED <<db, acked, phaseOf, floor, answerOf>>
<1> HIDE DEF Goal
<1>1. ASSUME NEW r \in Readers, Start(r) PROVE Goal
  <2>1. /\ pc' = [pc EXCEPT ![r] = "gen"] /\ floor' = [floor EXCEPT ![r] = acked]
        /\ val' = [val EXCEPT ![r] = 0] /\ UNCHANGED <<db, acked>> /\ pc[r] \in Ended
    BY <1>1 DEF Start
  <2>2. /\ phaseOf[r] \in Ended /\ phaseOf' = [phaseOf EXCEPT ![r] = "pending"]
        /\ answerOf' = [answerOf EXCEPT ![r] = 0]
    BY <1>0, <2>1 DEF TypeOK, phaseOf, answerOf, Ended, Busy, Leading, Orphaned
  <2>3. Fresh!Ask(r)
    BY <2>1, <2>2 DEF Fresh!Ask, Fresh!Ended, Ended
  <2>4. QED
    BY <2>3 DEF Fresh!FreshNext, Goal
<1>2. ASSUME NEW r \in Readers,
             GetGen(r) \/ StoreDown(r) \/ Miss(r) \/ Join(r) \/ Lead(r) \/ ReadDb(r)
      PROVE  Goal
  <2>1. /\ pc[r] \in Busy /\ pc'[r] \in Busy /\ UNCHANGED <<db, acked, floor>>
        /\ \A s \in Readers \ {r} : pc'[s] = pc[s] /\ val'[s] = val[s]
    BY <1>0, <1>2 DEF GetGen, StoreDown, Miss, Join, Lead, ReadDb, TypeOK, Busy, Leading
  <2>2. QED
    BY <2>1, RunningIsInvisible DEF Goal
<1>3. ASSUME NEW r \in Readers, ComputeUncached(r) PROVE Goal
  <2>1. PICK outcome \in {"done", "failed"} : pc' = [pc EXCEPT ![r] = outcome]
    BY <1>3 DEF ComputeUncached
  <2>2. floor[r] <= db
    <3>1. floor[r] <= acked /\ acked <= base[gen] /\ base[gen] <= db /\ base[gen] \in Nat
      BY CacheAssumption DEF CacheInv, TypeOK, ReaderFloor, GenerationFloor, Versions
    <3>2. QED
      BY <1>0, <3>1, ReaderTypes
  <2>3. /\ pc[r] \in Busy /\ pc'[r] = outcome /\ val'[r] = db /\ UNCHANGED <<db, acked, floor>>
        /\ \A s \in Readers \ {r} : pc'[s] = pc[s] /\ val'[s] = val[s]
    BY <1>0, <1>3, <2>1 DEF ComputeUncached, TypeOK, Busy
  <2>4. \A s \in {r} : pc[s] \in Busy /\ floor[s] <= db /\ pc'[s] = outcome /\ val'[s] = db
    BY <2>2, <2>3
  <2>5. {r} \in SUBSET Readers /\ db <= db
    BY <1>0
  <2>6. Fresh!FreshNext
    BY <1>0, <2>3, <2>4, <2>5, EndingIsAnswer
  <2>7. QED
    BY <2>6 DEF Goal
<1>4. ASSUME NEW r \in Readers, Hit(r) PROVE Goal
  <2> DEFINE v == entries[genOf[r]]
  <2>1. v \in Nat /\ v <= db /\ floor[r] <= v
    BY <1>4, HitIsFresh, ReaderTypes DEF Hit
  <2>2. /\ pc[r] \in Busy /\ pc'[r] = "done" /\ val'[r] = v /\ UNCHANGED <<db, acked, floor>>
        /\ \A s \in Readers \ {r} : pc'[s] = pc[s] /\ val'[s] = val[s]
    BY <1>0, <1>4 DEF Hit, TypeOK, Busy
  <2>3. /\ {r} \in SUBSET Readers
        /\ \A s \in {r} : pc[s] \in Busy /\ floor[s] <= v /\ pc'[s] = "done" /\ val'[s] = v
    BY <2>1, <2>2
  <2> HIDE DEF v
  <2>4. Fresh!FreshNext
    BY <2>1, <2>2, <2>3, EndingIsAnswer
  <2>5. QED
    BY <2>4 DEF Goal
<1>5. ASSUME NEW r \in Readers, Settle(r) PROVE Goal
  <2>1. /\ pc[r] = "computed" /\ UNCHANGED <<db, acked, floor>>
        /\ pc' = [w \in Readers |-> IF w = r THEN "store"
                                    ELSE IF w \in Waiters(r) THEN "done" ELSE pc[w]]
        /\ val' = [w \in Readers |-> IF w \in Waiters(r) THEN val[r] ELSE val[w]]
    BY <1>5 DEF Settle, Resolve
  <2>2. /\ Waiters(r) \in SUBSET Readers /\ r \notin Waiters(r)
        /\ \A w \in Waiters(r) : pc[w] \in Busy
    BY <2>1 DEF Waiters, Busy
  <2>3. \A w \in Waiters(r) : floor[w] <= val[r]
    BY <2>1, <2>2, WaitersAreFresh, ReaderTypes
  <2>4. val[r] \in Nat /\ val[r] <= db
    BY ReaderTypes DEF CacheInv, ReaderFloor
  <2>5. \A s \in Readers \ Waiters(r) :
            (pc'[s] = pc[s] \/ (pc[s] \in Busy /\ pc'[s] \in Busy)) /\ val'[s] = val[s]
    BY <2>1 DEF Busy, Leading
  <2>6. \A w \in Waiters(r) : pc'[w] = "done" /\ val'[w] = val[r]
    BY <2>1, <2>2
  <2>7. Fresh!FreshNext
    BY <2>1, <2>2, <2>3, <2>4, <2>5, <2>6, EndingIsAnswer
  <2>8. QED
    BY <2>7 DEF Goal
<1>6. ASSUME NEW r \in Readers, SettleError(r) PROVE Goal
  <2> DEFINE S == Waiters(r) \cup {r}
  <2>1. /\ pc[r] = "raised" /\ UNCHANGED <<db, acked, floor>>
        /\ pc' = [w \in Readers |-> IF w = r THEN "failed"
                                    ELSE IF w \in Waiters(r) THEN "failed" ELSE pc[w]]
        /\ val' = [w \in Readers |-> IF w \in Waiters(r) THEN val[r] ELSE val[w]]
    BY <1>6 DEF SettleError, Resolve
  <2>2. S \in SUBSET Readers /\ \A w \in S : pc[w] \in Busy
    BY <2>1 DEF Waiters, Busy, Leading
  <2>3. \A w \in S : floor[w] <= val[r]
    BY <2>1, <2>2, WaitersAreFresh, ComputedIsFresh, ReaderTypes
  <2>4. val[r] \in Nat /\ val[r] <= db
    BY ReaderTypes DEF CacheInv, ReaderFloor
  <2>5. \A s \in Readers \ S : pc'[s] = pc[s] /\ val'[s] = val[s]
    BY <2>1
  <2>6. \A w \in S : pc'[w] = "failed" /\ val'[w] = val[r]
    BY <2>1, <2>2
  <2> HIDE DEF S
  <2>7. Fresh!FreshNext
    BY <2>1, <2>2, <2>3, <2>4, <2>5, <2>6, EndingIsAnswer
  <2>8. QED
    BY <2>7 DEF Goal
<1>7. ASSUME NEW r \in Readers, Store(r) \/ StoreFails(r) PROVE Goal
  <2>1. /\ pc[r] = "store" /\ pc'[r] = "done" /\ UNCHANGED <<db, acked, floor, val>>
        /\ \A s \in Readers \ {r} : pc'[s] = pc[s]
    BY <1>0, <1>7 DEF Store, StoreFails, TypeOK
  <2>2. pc[r] \in Busy /\ val[r] \in Nat /\ val[r] <= db /\ floor[r] <= val[r]
    BY <2>1, ComputedIsFresh, ReaderTypes DEF CacheInv, ReaderFloor, Busy
  <2>3. Fresh!FreshNext
    BY <2>1, <2>2, EndingIsAnswer, {r} \in SUBSET Readers
  <2>4. QED
    BY <2>3 DEF Goal
<1>8. ASSUME NEW r \in Readers, Cancel(r) PROVE Goal
  <2>1. /\ pc[r] \in Busy /\ pc'[r] \in {"gone", "idle"} /\ UNCHANGED <<db, acked, floor>>
        /\ val' = [val EXCEPT ![r] = 0]
    BY <1>0, <1>8 DEF Cancel, CancelLeader, CancelOther, Abandoned, TypeOK, Busy
  <2>2. \A s \in Readers \ {r} : pc'[s] = pc[s] \/ (pc[s] \in Busy /\ pc'[s] \in Busy)
    BY <1>0, <1>8 DEF Cancel, CancelLeader, CancelOther, Abandoned, Waiters, TypeOK, Busy
  <2>3. \A s \in Readers \ {r} : val'[s] = val[s]
    BY <1>0, <2>1 DEF TypeOK
  <2>4. Fresh!FreshNext
    BY <2>1, <2>2, <2>3, LeavingIsAbandon
  <2>5. QED
    BY <2>4 DEF Goal
<1>9. ASSUME NEW w \in Writers, Commit(w) PROVE Goal
  <2>1. Fresh!Write
    BY <1>9 DEF Commit, Fresh!Write, phaseOf, answerOf
  <2>2. QED
    BY <2>1 DEF Fresh!FreshNext, Goal
<1>10. ASSUME NEW w \in Writers, Bump(w) PROVE Goal
  <2>1. wver[w] \in Nat /\ wver[w] <= db /\ acked <= db
    <3>1. /\ wver[w] \in Nat /\ wver[w] <= db
          /\ acked <= base[gen] /\ base[gen] <= db /\ base[gen] \in Nat
      BY CacheAssumption DEF CacheInv, TypeOK, GenerationFloor, Versions
    <3>2. QED
      BY <1>0, <3>1
  <2>2. acked' \in acked .. db
    BY <1>0, <1>10, <2>1 DEF Bump
  <2>3. Fresh!Acknowledge
    BY <1>10, <2>2 DEF Bump, Fresh!Acknowledge, phaseOf, answerOf
  <2>4. QED
    BY <2>3 DEF Fresh!FreshNext, Goal
<1>11. ASSUME NEW w \in Writers, LoseBump(w) PROVE Goal
  BY <1>11 DEF LoseBump, phaseOf, answerOf, Goal
<1>12. ASSUME NEW g \in Gens, Expire(g) PROVE Goal
  BY <1>12 DEF Expire, phaseOf, answerOf, Goal
<1>13. ASSUME NEW r \in Readers, QueryEnds(r) PROVE Goal
  <2>1. /\ pc[r] = "gone" /\ pc' = [pc EXCEPT ![r] = "idle"]
        /\ UNCHANGED <<db, acked, floor, val>>
    BY <1>13 DEF QueryEnds
  <2>2. phaseOf' = phaseOf /\ answerOf' = answerOf
    BY <1>0, <2>1 DEF TypeOK, phaseOf, answerOf, Busy, Leading, Orphaned
  <2>3. QED
    BY <2>1, <2>2 DEF Goal
<1>14. CASE UNCHANGED vars
  BY <1>14 DEF vars, phaseOf, answerOf, Goal
<1>15. Goal
  <2>1. ASSUME NEW r \in Readers, Start(r) \/ Step(r) \/ Cancel(r) PROVE Goal
    BY <2>1, <1>1, <1>2, <1>3, <1>4, <1>5, <1>6, <1>7, <1>8, <1>13 DEF Step
  <2>2. ASSUME NEW w \in Writers, Commit(w) \/ Bump(w) \/ LoseBump(w) PROVE Goal
    BY <2>2, <1>9, <1>10, <1>11
  <2>3. CASE Next
    BY <2>3, <2>1, <2>2, <1>12 DEF Next
  <2>4. QED
    BY <2>3, <1>14 DEF Goal
<1>16. QED
  BY <1>15 DEF Goal

(* The cache keeps the promise of FreshReads. *)
THEOREM CacheKeepsThePromise == Spec => ImplementsFreshReads
<1>1. Init => Fresh!FreshInit
  BY DEF Init, Fresh!FreshInit, phaseOf, answerOf, Busy, Leading, Orphaned
<1>2. CacheInv /\ [Next]_vars => [Fresh!FreshNext]_(Fresh!fvars)
  BY RefinementStep
<1>3. QED
  BY <1>1, <1>2, CacheInvariant, PTL DEF Spec, ImplementsFreshReads, Fresh!FreshSpec

=============================================================================
