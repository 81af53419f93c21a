-------------------------- MODULE PsnImportProofs --------------------------
(***************************************************************************)
(* What an import does to the store ids, for every set of titles, concepts *)
(* and trophy lists, whatever Sony shows of them and however it groups     *)
(* them this time.                                                         *)
(***************************************************************************)
EXTENDS PsnImport, FiniteSetTheorems, FunctionTheorems, TLAPS

(* No id that has a game moves to another. *)
Keeps(before, after) == \A id \in DOMAIN before : before[id] # 0 => after[id] = before[id]

(* Game numbers for the store ids, and for others that ids may hold.       *)
Claims(ids, owner) == PsnIds \subseteq ids /\ owner \in [ids -> Nat]

(* What an import saves for a game it counts under ids the game owns.      *)
RowsOwned(rows, owner) ==
    \A g \in DOMAIN rows :
        /\ rows[g] \in [titles : SUBSET (Titles \X (Titles \cup Concepts)), lists : SUBSET Lists]
        /\ \A listing \in rows[g].titles : owner[listing[2]] = g
        /\ \A l \in rows[g].lists : owner[l] = g

-----------------------------------------------------------------------------
(* The pieces *)

(* There are numbers for new games, and they are not 0. *)
LEMMA NumberingTypes ==
    ASSUME NEW new, IsFiniteSet(new), NEW games \in Nat
    PROVE  /\ Cardinality(new) \in Nat
           /\ Numbering(new, games) \in [new -> games + 1 .. games + Cardinality(new)]
<1> DEFINE n == Cardinality(new)
           Good(number) == \A g, h \in new : g # h => number[g] # number[h]
<1>1. n \in Nat /\ ExistsBijection(1 .. n, new)
  BY FS_CardinalityType
<1>2. PICK b : b \in Bijection(new, 1 .. n)
  BY <1>1, Fun_ExistsBijSymmetric DEF ExistsBijection
<1>3. b \in [new -> 1 .. n] /\ \A g, h \in new : b[g] = b[h] => g = h
  BY <1>2 DEF Bijection, Injection, IsInjective
<1> DEFINE number == [g \in new |-> games + b[g]]
<1>4. number \in [new -> games + 1 .. games + n]
  BY <1>1, <1>3
<1>5. Good(number)
  BY <1>1, <1>3
<1>6. \E f \in [new -> games + 1 .. games + n] : Good(f)
  BY <1>4, <1>5
<1> HIDE DEF Good
<1>7. (CHOOSE f \in [new -> games + 1 .. games + n] : Good(f)) \in [new -> games + 1 .. games + n]
  BY <1>6
<1>8. QED
  BY <1>1, <1>7 DEF Numbering, Good

LEMMA AttachKeeps ==
    ASSUME NEW ids, NEW owner \in [ids -> Nat], NEW claimed \in SUBSET ids,
           NEW game \in [claimed -> Nat]
    PROVE  /\ Attach(owner, game) \in [ids -> Nat]
           /\ Keeps(owner, Attach(owner, game))
           /\ \A id \in ids : Attach(owner, game)[id] =
                 IF id \in claimed /\ owner[id] = 0 THEN game[id] ELSE owner[id]
  BY DEF Attach, Keeps

LEMMA KeyTypes ==
    ASSUME NEW under \in Groupings, NEW t \in Titles
    PROVE  /\ under[t] \in Concepts \cup {None}
           /\ Key(under, t) \in Titles \cup Concepts
           /\ Key(under, t) \in Titles => Key(under, t) = t /\ under[t] = None
           /\ under[t] = None => Key(under, t) = t
  BY ImportAssumption DEF Key

(* An id that is in a group counts under what the group is of, so that the *)
(* groups of one answer are disjoint.                                      *)
LEMMA GroupsAreDisjoint ==
    ASSUME NEW under \in Groupings, NEW t \in Titles, NEW s \in Titles,
           NEW id, id \in Group(under, t), id \in Group(under, s)
    PROVE  Group(under, t) = Group(under, s)
<1>1. \A r \in Titles : id \in Group(under, r) =>
        Key(under, r) = IF id \in Titles THEN Key(under, id) ELSE id
  <2> SUFFICES ASSUME NEW r \in Titles, id \in Group(under, r)
               PROVE  Key(under, r) = IF id \in Titles THEN Key(under, id) ELSE id
    OBVIOUS
  <2>1. CASE id = Key(under, r)
    BY <2>1, KeyTypes
  <2>2. CASE id \in Titles /\ Key(under, id) = Key(under, r)
    BY <2>2
  <2>3. QED
    BY <2>1, <2>2 DEF Group
<1>2. Key(under, t) = Key(under, s)
  BY <1>1
<1>3. QED
  BY <1>2 DEF Group

LEMMA GroupIds ==
    ASSUME NEW under \in Groupings, NEW t \in Titles
    PROVE  /\ t \in Group(under, t)
           /\ Key(under, t) \in Group(under, t)
           /\ Group(under, t) \subseteq Titles \cup Concepts
           /\ Group(under, t) \cap Concepts \subseteq {Key(under, t)}
           /\ under[t] = None => Group(under, t) = {t}
<1>1. under[t] = None => Group(under, t) = {t}
  <2> SUFFICES ASSUME under[t] = None, NEW other \in Titles, Key(under, other) = Key(under, t)
               PROVE  other = t
    BY KeyTypes DEF Group
  <2>1. Key(under, other) = t /\ t \in Titles
    BY KeyTypes
  <2>2. QED
    BY <2>1, KeyTypes
<1>2. QED
  BY <1>1, KeyTypes, ImportAssumption DEF Group

(* The game of a group of which something is known: the one its concept or *)
(* its single title has, if that has one.                                  *)
LEMMA GameOfKnown ==
    ASSUME NEW ids, NEW owner, Claims(ids, owner), NEW under \in Groupings,
           NEW t \in Titles, Known(owner, Group(under, t)) # {}
    PROVE  LET key == Key(under, t)
               game == GameOf(owner, Group(under, t))
           IN  game \in Nat \ {0} /\ (owner[key] # 0 => game = owner[key])
<1> DEFINE group == Group(under, t)
           key == Key(under, t)
           known == Known(owner, group \cap Concepts)
           have == {s \in group \cap Titles : owner[s] # 0}
           first == First[have]
<1>1. PsnIds \subseteq ids /\ owner \in [ids -> Nat]
  BY DEF Claims
<1>2. \A id \in Titles \cup Concepts : owner[id] \in Nat
  BY <1>1 DEF PsnIds
<1>3. GameOf(owner, group) = IF known # {} THEN CHOOSE game \in known : TRUE ELSE owner[first]
  BY DEF GameOf
<1>4. key \in Titles \cup Concepts /\ key \in group /\ group \cap Concepts \subseteq {key}
  BY KeyTypes, GroupIds
<1>5. CASE known # {}
  <2>1. known = {owner[key]} /\ owner[key] # 0
    BY <1>4, <1>5 DEF Known
  <2>2. GameOf(owner, group) = owner[key]
    BY <1>3, <2>1
  <2>3. QED
    BY <1>2, <1>4, <2>1, <2>2
<1>6. CASE known = {}
  <2>1. have # {}
    <3>1. PICK id \in group : owner[id] # 0
      BY DEF Known
    <3>2. id \notin Concepts
      BY <1>6, <3>1 DEF Known
    <3>3. id \in group \cap Titles
      BY <3>2, GroupIds
    <3>4. QED
      BY <3>1, <3>3
  <2>2. first \in have
    BY <2>1, ImportAssumption
  <2>3. GameOf(owner, group) = owner[first]
    BY <1>3, <1>6
  <2>4. owner[key] # 0 => first = key
    <3> SUFFICES ASSUME owner[key] # 0 PROVE first = key
      OBVIOUS
    <3>1. key \notin Concepts
      BY <1>4, <1>6 DEF Known
    <3>2. group = {key}
      BY <1>4, <3>1, KeyTypes, GroupIds
    <3>3. QED
      BY <2>2, <3>2
  <2>5. QED
    BY <1>2, <2>2, <2>3, <2>4
<1>7. QED
  BY <1>5, <1>6

(* Every played title gets a game, and what it is listed under leads there *)
(* afterwards: if it had a game before, that one.                          *)
LEMMA PlayedTitlesGetTheirGame ==
    ASSUME NEW ids, NEW owner, Claims(ids, owner), NEW under \in Groupings,
           NEW games \in Nat, NEW played \in SUBSET Titles,
           NEW after, after = AfterPlayed(games, owner, under, played)
    PROVE  /\ after.games \in Nat
           /\ Claims(ids, after.owner)
           /\ Keeps(owner, after.owner)
           /\ after.of \in [played -> Nat \ {0}]
           /\ \A t \in played : after.owner[Key(under, t)] = after.of[t]
<1>0. PsnIds \subseteq ids /\ owner \in [ids -> Nat]
  BY DEF Claims
<1> USE <1>0
<1> DEFINE group(t) == Group(under, t)
           groups == {group(t) : t \in played}
           new == {g \in groups : Known(owner, g) = {}}
           number == Numbering(new, games)
           gameOf == [g \in groups |-> IF g \in new THEN number[g] ELSE GameOf(owner, g)]
           claimed == UNION groups
           game == [id \in claimed |-> gameOf[CHOOSE g \in groups : id \in g]]
<1>1. IsFiniteSet(new)
  <2>1. IsFiniteSet(played)
    BY ImportAssumption, FS_Subset
  <2> DEFINE of == [t \in played |-> group(t)]
  <2>2. of \in Surjection(played, groups)
    BY DEF Surjection
  <2>3. IsFiniteSet(groups)
    BY <2>1, <2>2, FS_Surjection
  <2>4. QED
    BY <2>3, FS_Subset
<1>2. Cardinality(new) \in Nat /\ number \in [new -> games + 1 .. games + Cardinality(new)]
  BY <1>1, NumberingTypes
<1>3. \A t \in played :
         /\ gameOf[group(t)] \in Nat \ {0}
         /\ owner[Key(under, t)] # 0 => gameOf[group(t)] = owner[Key(under, t)]
  <2> SUFFICES ASSUME NEW t \in played
               PROVE  /\ gameOf[group(t)] \in Nat \ {0}
                      /\ owner[Key(under, t)] # 0 => gameOf[group(t)] = owner[Key(under, t)]
    OBVIOUS
  <2>1. group(t) \in groups
    OBVIOUS
  <2>2. CASE group(t) \in new
    <3>1. gameOf[group(t)] = number[group(t)]
      BY <2>1, <2>2
    <3>2. number[group(t)] \in games + 1 .. games + Cardinality(new)
      BY <1>2, <2>2
    <3>3. owner[Key(under, t)] = 0
      BY <2>2, GroupIds DEF Known
    <3>4. QED
      BY <1>2, <3>1, <3>2, <3>3
  <2>3. CASE group(t) \notin new
    <3>1. Known(owner, group(t)) # {}
      BY <2>1, <2>3
    <3>2. gameOf[group(t)] = GameOf(owner, group(t))
      BY <2>1, <2>3
    <3>3. QED
      BY <3>1, <3>2, GameOfKnown
  <2>4. QED
    BY <2>2, <2>3
<1>4. \A t \in played : \A id \in group(t) : id \in claimed /\ game[id] = gameOf[group(t)]
  <2> SUFFICES ASSUME NEW t \in played, NEW id \in group(t)
               PROVE  id \in claimed /\ game[id] = gameOf[group(t)]
    OBVIOUS
  <2>1. group(t) \in groups /\ id \in claimed
    OBVIOUS
  <2>2. \A g \in groups : id \in g => g = group(t)
    BY GroupsAreDisjoint
  <2>3. (CHOOSE g \in groups : id \in g) = group(t)
    BY <2>1, <2>2
  <2>4. QED
    BY <2>1, <2>3
<1>5. claimed \in SUBSET ids
  BY GroupIds DEF PsnIds
<1>6. game \in [claimed -> Nat]
  <2> SUFFICES ASSUME NEW id \in claimed PROVE game[id] \in Nat
    OBVIOUS
  <2>1. PICK t \in played : id \in group(t)
    OBVIOUS
  <2>2. game[id] = gameOf[group(t)]
    BY <1>4, <2>1
  <2>3. QED
    BY <1>3, <2>2
<1>7. after = [games |-> games + Cardinality(new), owner |-> Attach(owner, game),
               of |-> [t \in played |-> gameOf[group(t)]]]
  BY DEF AfterPlayed
<1>8. \A t \in played : Key(under, t) \in group(t)
  BY GroupIds
<1> HIDE DEF group, groups, new, number, gameOf, claimed, game
<1>9. /\ after.owner \in [ids -> Nat]
      /\ Keeps(owner, after.owner)
      /\ \A id \in ids : after.owner[id] =
            IF id \in claimed /\ owner[id] = 0 THEN game[id] ELSE owner[id]
  <2>1. after.owner = Attach(owner, game)
    BY <1>7
  <2>2. /\ Attach(owner, game) \in [ids -> Nat]
        /\ Keeps(owner, Attach(owner, game))
        /\ \A id \in ids : Attach(owner, game)[id] =
              IF id \in claimed /\ owner[id] = 0 THEN game[id] ELSE owner[id]
    BY <1>5, <1>6, AttachKeeps
  <2>3. QED
    BY <2>1, <2>2
<1>10. \A t \in played : after.owner[Key(under, t)] = after.of[t]
  <2> SUFFICES ASSUME NEW t \in played
               PROVE  after.owner[Key(under, t)] = after.of[t]
    OBVIOUS
  <2>1. after.of[t] = gameOf[group(t)]
    BY <1>7
  <2>2. Key(under, t) \in claimed /\ game[Key(under, t)] = gameOf[group(t)]
    BY <1>4, <1>8
  <2>3. Key(under, t) \in ids
    BY <1>5, <2>2
  <2>4. QED
    BY <1>3, <1>9, <2>1, <2>2, <2>3
<1>11. after.games \in Nat
  BY <1>2, <1>7
<1>12. after.of \in [played -> Nat \ {0}]
  BY <1>3, <1>7
<1>13. QED
  BY <1>9, <1>10, <1>11, <1>12 DEF Claims

(* The lookup moves no id: it claims lists that have no game. *)
LEMMA LookupClaimsLists ==
    ASSUME NEW ids, NEW owner, Claims(ids, owner),
           NEW asked \in SUBSET Titles, NEW named \in Answers(asked),
           NEW after, after = AfterLookup(owner, named)
    PROVE  Claims(ids, after) /\ Keeps(owner, after)
<1>1. PsnIds \subseteq ids /\ owner \in [ids -> Nat]
  BY DEF Claims
<1>2. PICK some \in SUBSET Lists : named \in [some -> asked]
  BY DEF Answers
<1> DEFINE game == [l \in some |-> owner[named[l]]]
<1>3. some \in SUBSET ids /\ game \in [some -> Nat]
  BY <1>1, <1>2 DEF PsnIds
<1>4. after = Attach(owner, game)
  BY <1>2 DEF AfterLookup
<1> HIDE DEF game
<1>5. QED
  BY <1>1, <1>3, <1>4, AttachKeeps DEF Claims

(* Every trophy list has a game afterwards, its own if it had none. *)
LEMMA ListsGetAGame ==
    ASSUME NEW ids, NEW owner, Claims(ids, owner),
           NEW games \in Nat, NEW lists \in SUBSET Lists,
           NEW after, after = AfterLists(games, owner, lists)
    PROVE  /\ after.games \in Nat
           /\ Claims(ids, after.owner)
           /\ Keeps(owner, after.owner)
           /\ \A l \in lists : after.owner[l] = after.of[l]
<1>0. PsnIds \subseteq ids /\ owner \in [ids -> Nat]
  BY DEF Claims
<1> USE <1>0
<1> DEFINE new == {l \in lists : owner[l] = 0}
           number == Numbering(new, games)
<1>1. IsFiniteSet(new)
  BY ImportAssumption, FS_Subset
<1>2. Cardinality(new) \in Nat /\ number \in [new -> games + 1 .. games + Cardinality(new)]
  BY <1>1, NumberingTypes
<1>3. number \in [new -> Nat]
  BY <1>2
<1>4. new \in SUBSET ids
  BY DEF PsnIds
<1>5. after = [games |-> games + Cardinality(new), owner |-> Attach(owner, number),
               of |-> [l \in lists |-> IF l \in new THEN number[l] ELSE owner[l]]]
  BY DEF AfterLists, ClaimList
<1>6. \A l \in lists : l \in ids /\ (l \in new <=> owner[l] = 0)
  BY DEF PsnIds
<1> HIDE DEF new, number
<1>7. /\ Attach(owner, number) \in [ids -> Nat]
      /\ Keeps(owner, Attach(owner, number))
      /\ \A id \in ids : Attach(owner, number)[id] =
            IF id \in new /\ owner[id] = 0 THEN number[id] ELSE owner[id]
  BY <1>3, <1>4, AttachKeeps
<1>8. \A l \in lists : after.owner[l] = after.of[l]
  BY <1>5, <1>6, <1>7
<1>9. after.games \in Nat /\ after.owner = Attach(owner, number)
  BY <1>2, <1>5
<1>10. QED
  BY <1>7, <1>8, <1>9 DEF Claims

-----------------------------------------------------------------------------
(* The import *)

(* However Sony groups the titles this time, an import moves no store id,  *)
(* counts every title for the game that owns what it is listed under, and  *)
(* every trophy list for the game that owns the list.                      *)
THEOREM ImportKeepsClaims ==
    ASSUME NEW ids, NEW owner, Claims(ids, owner), NEW under \in Groupings,
           NEW games \in Nat, NEW played \in SUBSET Titles, NEW lists \in SUBSET Lists,
           NEW asked \in SUBSET Titles, NEW named \in Answers(asked),
           NEW import, import = Import(games, owner, under, played, lists, named)
    PROVE  /\ import.games \in Nat
           /\ Claims(ids, import.owner)
           /\ Keeps(owner, import.owner)
           /\ RowsOwned(import.rows, import.owner)
<1> DEFINE first == AfterPlayed(games, owner, under, played)
           second == AfterLookup(first.owner, named)
           last == AfterLists(first.games, second, lists)
           found == {first.of[t] : t \in played} \cup {last.of[l] : l \in lists}
           counted(g) == {<<t, Key(under, t)>> : t \in {s \in played : first.of[s] = g}}
           rows == [g \in found |-> [titles |-> counted(g), lists |-> {l \in lists : last.of[l] = g}]]
<1>1. import = [games |-> last.games, owner |-> last.owner, rows |-> rows]
  BY DEF Import
<1>2. /\ first = AfterPlayed(games, owner, under, played)
      /\ second = AfterLookup(first.owner, named)
      /\ last = AfterLists(first.games, second, lists)
  OBVIOUS
<1>3. /\ DOMAIN rows = found
      /\ \A g \in found : rows[g] = [titles |-> counted(g), lists |-> {l \in lists : last.of[l] = g}]
  OBVIOUS
<1>4. \A g : counted(g) \in SUBSET (Titles \X (Titles \cup Concepts))
  BY KeyTypes
<1>5. \A g : \A listing \in counted(g) :
        \E t \in played : listing[2] = Key(under, t) /\ first.of[t] = g
  OBVIOUS
<1> HIDE DEF first, second, last, rows, found, counted
<1>6. /\ first.games \in Nat
      /\ Claims(ids, first.owner)
      /\ Keeps(owner, first.owner)
      /\ first.of \in [played -> Nat \ {0}]
      /\ \A t \in played : first.owner[Key(under, t)] = first.of[t]
  BY <1>2, PlayedTitlesGetTheirGame
<1>7. Claims(ids, second) /\ Keeps(first.owner, second)
  BY <1>2, <1>6, LookupClaimsLists
<1>8. /\ last.games \in Nat
      /\ Claims(ids, last.owner)
      /\ Keeps(second, last.owner)
      /\ \A l \in lists : last.owner[l] = last.of[l]
  BY <1>2, <1>6, <1>7, ListsGetAGame
<1>9. Keeps(owner, last.owner)
  BY <1>6, <1>7, <1>8 DEF Keeps, Claims
<1>10. \A t \in played : last.owner[Key(under, t)] = first.of[t]
  <2> TAKE t \in played
  <2> DEFINE key == Key(under, t)
  <2>1. key \in ids
    BY <1>6, KeyTypes DEF PsnIds, Claims
  <2>2. first.owner[key] = first.of[t] /\ first.of[t] # 0
    BY <1>6
  <2> HIDE DEF key
  <2>3. second[key] = first.owner[key]
    BY <1>6, <1>7, <2>1, <2>2 DEF Keeps, Claims
  <2>4. last.owner[key] = second[key]
    BY <1>7, <1>8, <2>1, <2>2, <2>3 DEF Keeps, Claims
  <2>5. QED
    BY <2>2, <2>3, <2>4 DEF key
<1>11. RowsOwned(rows, last.owner)
  <2> SUFFICES ASSUME NEW g \in found
               PROVE  /\ rows[g] \in [titles : SUBSET (Titles \X (Titles \cup Concepts)),
                                      lists : SUBSET Lists]
                      /\ \A listing \in rows[g].titles : last.owner[listing[2]] = g
                      /\ \A l \in rows[g].lists : last.owner[l] = g
    BY <1>3 DEF RowsOwned
  <2>1. rows[g].titles = counted(g) /\ rows[g].lists = {l \in lists : last.of[l] = g}
    BY <1>3
  <2>2. rows[g] \in [titles : SUBSET (Titles \X (Titles \cup Concepts)), lists : SUBSET Lists]
    BY <1>3, <1>4
  <2>3. \A listing \in counted(g) : last.owner[listing[2]] = g
    BY <1>5, <1>10
  <2>4. \A l \in rows[g].lists : last.owner[l] = g
    BY <1>8, <2>1
  <2>5. QED
    BY <2>1, <2>2, <2>3, <2>4
<1>12. QED
  BY <1>1, <1>8, <1>9, <1>11
=============================================================================
