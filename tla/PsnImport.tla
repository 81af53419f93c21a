----------------------------- MODULE PsnImport -----------------------------
(***************************************************************************)
(* How one PlayStation import finds the games of an account                *)
(* (app/worker.py, _PsnIds and _sync_psn_titles).  Store ids tie what Sony *)
(* lists to games: a concept id, the title ids Sony groups under it, and   *)
(* the trophy lists of a title.  A game is created for what no known id    *)
(* leads to; nothing is ever matched by name.                              *)
(*                                                                         *)
(* owner maps every store id to its game, or to 0; games are numbered in   *)
(* the order they are created.                                             *)
(***************************************************************************)
EXTENDS Naturals, FiniteSets

CONSTANTS Titles,     \* PS4 and PS5 title ids
          Concepts,
          Lists,      \* trophy lists
          Groupings,  \* what concepts an answer may list the titles under, or None
          First,      \* First[some]: the first of some title ids, as they sort
          ListsOf,    \* ListsOf[t]: the trophy lists of t
          None

(* Sony groups the titles anew in every answer; within one answer a title  *)
(* stands under one concept, or under none.                                *)
ASSUME ImportAssumption ==
    /\ Groupings \subseteq [Titles -> Concepts \cup {None}]
    /\ First \in [SUBSET Titles \ {{}} -> Titles]
    /\ \A some \in SUBSET Titles \ {{}} : First[some] \in some
    /\ ListsOf \in [Titles -> SUBSET Lists]
    /\ None \notin Concepts
    /\ IsFiniteSet(Titles) /\ IsFiniteSet(Lists)
    /\ Titles \cap Concepts = {} /\ Titles \cap Lists = {} /\ Concepts \cap Lists = {}

PsnIds == Titles \cup Concepts \cup Lists

(* What title t counts under: its concept, or else t itself. *)
Key(under, t) == IF under[t] = None THEN t ELSE under[t]

(* One entry per concept: all that _group_played ties to the title. *)
Group(under, t) == {Key(under, t)} \cup {other \in Titles : Key(under, other) = Key(under, t)}

(* The games some of the ids lead to. *)
Known(owner, ids) == {owner[id] : id \in ids} \ {0}

(* Bug: the last game to claim a store id gets it. *)
AttachLast(owner, game) ==
    [id \in DOMAIN owner |-> IF id \in DOMAIN game THEN game[id] ELSE owner[id]]

(* The first game to claim a store id keeps it. *)
Attach(owner, game) ==
    [id \in DOMAIN owner |->
        IF id \in DOMAIN game /\ owner[id] = 0 THEN game[id] ELSE owner[id]]

(* New games for the groups in new, numbered after the games there are.    *)
Numbering(new, games) ==
    CHOOSE number \in [new -> games + 1 .. games + Cardinality(new)] :
        \A g, h \in new : g # h => number[g] # number[h]

(* The game of a group: its concept's, else that of its first title that   *)
(* has one.  Titles once listed apart may have had games of their own, and *)
(* keep them.                                                              *)
GameOf(owner, group) ==
    LET known == Known(owner, group \cap Concepts)
        have == {t \in group \cap Titles : owner[t] # 0}
    IN  IF known # {} THEN CHOOSE game \in known : TRUE ELSE owner[First[have]]

(* Every played title gets the game of its group, and the game the ids of  *)
(* the group.                                                              *)
AfterPlayed(games, owner, under, played) ==
    LET groups == {Group(under, t) : t \in played}
        new == {g \in groups : Known(owner, g) = {}}
        number == Numbering(new, games)
        gameOf == [g \in groups |-> IF g \in new THEN number[g] ELSE GameOf(owner, g)]
    IN  [games |-> games + Cardinality(new),
         owner |-> Attach(owner, [id \in UNION groups |->
                                     gameOf[CHOOSE g \in groups : id \in g]]),
         of |-> [t \in played |-> gameOf[Group(under, t)]]]

(* The titles whose trophy lists Sony is asked for: while some list of the *)
(* account has no game, those of games that have no list of the account.   *)
Asked(after, lists) ==
    IF \A l \in lists : after.owner[l] # 0 THEN {}
    ELSE {t \in DOMAIN after.of : after.of[t] \notin Known(after.owner, lists)}

(* The lookup's answers: the lists it names, each with the title it names  *)
(* it for first.                                                           *)
Answers(asked) ==
    {named \in UNION {[some -> asked] : some \in SUBSET Lists} :
        \A l \in DOMAIN named : l \in ListsOf[named[l]]}

(* Only the lists of the account were loaded: attaching another one that   *)
(* has a game already breaks the unique key, and with it the import.       *)
Collides(owner, named, lists) == \E l \in DOMAIN named \ lists : owner[l] # 0

AfterLookup(owner, named) == Attach(owner, [l \in DOMAIN named |-> owner[named[l]]])

(* Bug: a game made for a trophy list does not get the list's id. *)
ClaimNothing(owner, game) == owner

(* The game made for a trophy list claims it. *)
ClaimList(owner, game) == Attach(owner, game)

(* A list that still has no game gets one of its own. *)
AfterLists(games, owner, lists) ==
    LET new == {l \in lists : owner[l] = 0}
        number == Numbering(new, games)
    IN  [games |-> games + Cardinality(new),
         owner |-> ClaimList(owner, number),
         of |-> [l \in lists |-> IF l \in new THEN number[l] ELSE owner[l]]]

(* The import of what Sony lists: the games and store ids after it, and    *)
(* for every game what its snapshot counts, titles (each with what it was  *)
(* listed under) for the minutes and lists for the trophies.               *)
Import(games, owner, under, played, lists, named) ==
    LET first == AfterPlayed(games, owner, under, played)
        last == AfterLists(first.games, AfterLookup(first.owner, named), lists)
        found == {first.of[t] : t \in played} \cup {last.of[l] : l \in lists}
    IN  [games |-> last.games,
         owner |-> last.owner,
         rows |-> [g \in found |->
                      [titles |-> {<<t, Key(under, t)>> : t \in {s \in played : first.of[s] = g}},
                       lists |-> {l \in lists : last.of[l] = g}]]]
=============================================================================
