-------------------------- MODULE PsnClientProofs --------------------------
(***************************************************************************)
(* The PlayStation client, for every number of calls, every budget and     *)
(* every window: who renews the tokens, and what the pacing promises Sony. *)
(*                                                                         *)
(* Renewals are exclusive because a call keeps the token lock from the     *)
(* first request of a renewal to the last; the pacing keeps its promise    *)
(* because whoever starts a request has just looked at a queue of starts   *)
(* that is ordered by age and holds all of them that are in the window.    *)
(***************************************************************************)
EXTENDS PsnClient, FiniteSetTheorems, SequenceTheorems, TLAPS

(* The oldest start comes first, and two starts are Gap apart. *)
Spaced == \A i, k \in DOMAIN starts : i < k => starts[i] >= starts[k] + Gap

(* Who renews holds the token lock, and needs to. *)
Renews(d, lock, a, r) ==
    call[d].at \in Waiting /\ call[d].ask \in SignIns =>
        /\ lock = d /\ a = None
        /\ call[d].ask # "refresh" => r = None

(* Who holds the token lock is renewing, and who sleeps, and only who      *)
(* sleeps, holds the pace lock: no outcome leaves a lock behind.           *)
Renewing(q) == q.at \in Waiting /\ q.ask \in SignIns
Holds(d, lock, pace) ==
    /\ lock = d => Renewing(call[d])
    /\ pace = d <=> call[d].at = "sleep"
LocksHeld == \A d \in Calls : Holds(d, tokenLock, paceLock)

ClientInv ==
    /\ TypeOK
    /\ Spaced
    /\ RenewalsAreNeeded
    /\ LocksHeld

(* What every step does: it preserves the invariant and keeps the promise. *)
Fine == ClientInv' /\ (Promise!Next \/ UNCHANGED Promise!vars)

-----------------------------------------------------------------------------
(* Tokens *)

LEMMA TypeOfCall ==
    ASSUME TypeOK, NEW c \in Calls
    PROVE  /\ call[c] \in Call
           /\ call[c].at \in Waiting \cup {"idle"}
           /\ call[c].ask \in SignIns \cup {"get"}
           /\ call[c].token \in Tokens \cup {None}
           /\ call[c].wake \in Nat
           /\ call[c].renewed \in BOOLEAN /\ call[c].retried \in BOOLEAN
  BY DEF TypeOK, Call, SignIns

LEMMA FreshCall ==
    ASSUME NEW at \in Waiting \cup {"idle"}, NEW q, q = [Fresh EXCEPT !.at = at]
    PROVE  q \in Call /\ q.at = at /\ q.ask = "get"
  BY DEF Fresh, Call

LEMMA InvOf ==
    ASSUME ClientInv
    PROVE  /\ TypeOK
           /\ \A d \in Calls : Renews(d, tokenLock, access, refresh)
           /\ \A d \in Calls : Holds(d, tokenLock, paceLock)
  BY DEF ClientInv, RenewalsAreNeeded, Renews, SignIns, LocksHeld

LEMMA TypesLater ==
    ASSUME TypeOK, npsso' \in Tokens, access' \in Tokens \cup {None},
           refresh' \in Tokens \cup {None},
           tokenLock' \in Calls \cup {None}, paceLock' \in Calls \cup {None},
           starts' \in Seq(0 .. Window - 1), Len(starts') <= Budget, blocked' \in Nat,
           flag' \in BOOLEAN, call' \in [Calls -> Call]
    PROVE  TypeOK'
  BY DEF TypeOK

(* A step of c, by what it leaves of the tokens and the locks. *)
LEMMA CallStep ==
    ASSUME ClientInv, NEW c \in Calls, NEW new \in Call, call' = [call EXCEPT ![c] = new],
           npsso' \in Tokens, access' \in Tokens \cup {None}, refresh' \in Tokens \cup {None},
           tokenLock' \in Calls \cup {None}, paceLock' \in Calls \cup {None},
           starts' \in Seq(0 .. Window - 1), Len(starts') <= Budget, Spaced', blocked' \in Nat,
           flag' \in BOOLEAN,
           \A d \in Calls \ {c} : Renews(d, tokenLock', access', refresh')
                                /\ Holds(d, tokenLock', paceLock'),
           new.at \in Waiting /\ new.ask \in SignIns =>
               /\ tokenLock' = c /\ access' = None
               /\ new.ask # "refresh" => refresh' = None,
           tokenLock' = c => Renewing(new), paceLock' = c <=> new.at = "sleep"
    PROVE  ClientInv'
<1>1. TypeOK /\ call \in [Calls -> Call]
  BY InvOf DEF TypeOK
<1>2. call' \in [Calls -> Call]
  BY <1>1
<1>3. TypeOK'
  BY <1>1, <1>2, TypesLater
<1>4. ASSUME NEW d \in Calls
      PROVE  call'[d].at \in Waiting =>
                 /\ call'[d].ask \in SignIns => tokenLock' = d /\ access' = None
                 /\ call'[d].ask \in {"authorize", "exchange"} => refresh' = None
  <2>1. CASE d = c
    <3>1. call'[d] = new
      BY <1>1, <2>1
    <3>2. QED
      BY <2>1, <3>1 DEF SignIns
  <2>2. CASE d # c
    <3>1. call'[d] = call[d]
      BY <1>1, <2>2
    <3>2. QED
      BY <2>2, <3>1 DEF Renews, SignIns
  <2>3. QED
    BY <2>1, <2>2
<1>5. RenewalsAreNeeded'
  BY <1>4 DEF RenewalsAreNeeded
<1>6. ASSUME NEW d \in Calls
      PROVE  /\ tokenLock' = d => Renewing(call'[d])
             /\ paceLock' = d <=> call'[d].at = "sleep"
  <2>1. CASE d = c
    <3>1. call'[d] = new
      BY <1>1, <2>1
    <3>2. QED
      BY <2>1, <3>1
  <2>2. CASE d # c
    <3>1. call'[d] = call[d]
      BY <1>1, <2>2
    <3>2. QED
      BY <2>2, <3>1 DEF Holds
  <2>3. QED
    BY <2>1, <2>2
<1>7. LocksHeld'
  BY <1>6 DEF LocksHeld, Holds
<1>8. QED
  BY <1>3, <1>5, <1>7 DEF ClientInv

(* What another call renews stays its business: tokens may go, and c may   *)
(* leave the lock.                                                         *)
LEMMA OthersRenew ==
    ASSUME ClientInv, NEW c \in Calls, NEW lock \in {tokenLock, Released(tokenLock, c)},
           NEW a \in {access, None}, NEW r \in {refresh, None},
           NEW pace, \A d \in Calls \ {c} : pace = d <=> paceLock = d
    PROVE  /\ \A d \in Calls \ {c} : Renews(d, lock, a, r) /\ Holds(d, lock, pace)
           /\ lock \in Calls \cup {None} /\ a \in Tokens \cup {None} /\ r \in Tokens \cup {None}
<1>1. TypeOK /\ \A d \in Calls : Renews(d, tokenLock, access, refresh)
  BY InvOf
<1>2. ASSUME NEW d \in Calls \ {c}
      PROVE  Renews(d, lock, a, r) /\ Holds(d, lock, pace)
  <2>1. lock = d <=> tokenLock = d
    BY ClientAssumption DEF Released
  <2>2. QED
    BY <1>1, <2>1, InvOf DEF Renews, Holds
<1>3. QED
  BY <1>1, <1>2 DEF TypeOK, Released

(* Nobody else renews while c could. *)
LEMMA NobodyElseRenews ==
    ASSUME ClientInv, NEW c \in Calls, tokenLock \in {None, c}, NEW lock \in {None, c},
           NEW a, NEW r
    PROVE  \A d \in Calls \ {c} : Renews(d, lock, a, r) /\ Holds(d, lock, paceLock)
<1>1. /\ \A d \in Calls : Renews(d, tokenLock, access, refresh)
      /\ \A d \in Calls : Holds(d, tokenLock, paceLock)
  BY InvOf
<1>2. None \notin Calls
  BY ClientAssumption
<1>3. ASSUME NEW d \in Calls \ {c}
      PROVE  Renews(d, lock, a, r) /\ Holds(d, lock, paceLock)
  <2>1. d # tokenLock /\ d # lock
    BY <1>2
  <2>2. ~Renewing(call[d])
    BY <1>1, <2>1 DEF Renews, Renewing
  <2>3. Holds(d, lock, paceLock)
    BY <1>1, <2>1 DEF Holds
  <2>4. Renews(d, lock, a, r)
    BY <1>1, <2>1, <2>2 DEF Renews, Renewing
  <2>5. QED
    BY <2>3, <2>4
<1>4. QED
  BY <1>3

(* A lock that is left is no longer held, and nobody else's. *)
LEMMA Releases ==
    ASSUME NEW c \in Calls, NEW lock \in Calls \cup {None}
    PROVE  /\ Released(lock, c) # c /\ Released(lock, c) \in Calls \cup {None}
           /\ \A d \in Calls \ {c} : Released(lock, c) = d <=> lock = d
  BY ClientAssumption DEF Released

(* Who is awake holds no pace lock, who renews nothing no token lock. *)
LEMMA HoldsNothing ==
    ASSUME ClientInv, NEW c \in Calls
    PROVE  /\ call[c].at # "sleep" => paceLock # c /\ Released(paceLock, c) = paceLock
           /\ ~Renewing(call[c]) => tokenLock # c
           /\ tokenLock \in Calls \cup {None} /\ paceLock \in Calls \cup {None}
  BY InvOf DEF Holds, Released, TypeOK

(* Steps that start nothing and pause nothing. *)
LEMMA NoStartIsFine ==
    ASSUME ClientInv', UNCHANGED <<starts, blocked>>
    PROVE  Fine
<1>1. Promise!vars' = Promise!vars
  BY DEF Promise!vars
<1>2. QED
  BY <1>1 DEF Fine

LEMMA PacingStays ==
    ASSUME ClientInv
    PROVE  /\ starts \in Seq(0 .. Window - 1) /\ Len(starts) <= Budget /\ Spaced /\ blocked \in Nat
           /\ starts' = starts => Spaced'
           /\ flag \in BOOLEAN /\ npsso \in Tokens /\ paceLock \in Calls \cup {None}
           /\ \A c \in Calls : Released(paceLock, c) \in Calls \cup {None}
  BY DEF ClientInv, TypeOK, Spaced, Released

(* A step of c that starts nothing and leaves the tokens alone. *)
LEMMA PlainStepIsFine ==
    ASSUME ClientInv, NEW c \in Calls, NEW new \in Call, call' = [call EXCEPT ![c] = new],
           UNCHANGED <<npsso, starts, blocked>>,
           access' \in {access, None}, refresh' \in {refresh, None},
           tokenLock' \in {tokenLock, Released(tokenLock, c)}, paceLock' \in Calls \cup {None},
           flag' \in BOOLEAN,
           new.at \in Waiting /\ new.ask \in SignIns =>
               /\ tokenLock' = c /\ access' = None
               /\ new.ask # "refresh" => refresh' = None,
           tokenLock' = c => Renewing(new), paceLock' = c <=> new.at = "sleep",
           \A d \in Calls \ {c} : paceLock' = d <=> paceLock = d
    PROVE  Fine
<1>1. /\ \A d \in Calls \ {c} : Renews(d, tokenLock', access', refresh')
                              /\ Holds(d, tokenLock', paceLock')
      /\ tokenLock' \in Calls \cup {None} /\ access' \in Tokens \cup {None}
      /\ refresh' \in Tokens \cup {None}
  BY OthersRenew
<1>2. ClientInv'
  BY <1>1, PacingStays, CallStep
<1>3. QED
  BY <1>2, NoStartIsFine

(* A call that ends gives up the locks. *)
LEMMA EndIsFine ==
    ASSUME ClientInv, NEW c \in Calls, NEW outcome \in {"idle", "auth"}, Ends(c, outcome),
           UNCHANGED <<tokens, starts, blocked>>, paceLock' = Released(paceLock, c),
           flag' \in BOOLEAN
    PROVE  Fine
<1>1. PICK new : new = [Fresh EXCEPT !.at = outcome]
  OBVIOUS
<1>2. new \in Call /\ new.ask = "get" /\ new.at # "sleep"
  BY <1>1, FreshCall DEF Waiting
<1>3. /\ call' = [call EXCEPT ![c] = new] /\ tokenLock' = Released(tokenLock, c)
      /\ npsso' = npsso /\ access' = access /\ refresh' = refresh
  BY <1>1 DEF Ends, tokens
<1>4. new.ask \notin SignIns
  BY <1>2 DEF SignIns
<1>5. /\ tokenLock' # c /\ paceLock' # c /\ paceLock' \in Calls \cup {None}
      /\ \A d \in Calls \ {c} : paceLock' = d <=> paceLock = d
  BY <1>3, HoldsNothing, Releases
<1>6. QED
  BY <1>2, <1>3, <1>4, <1>5, PlainStepIsFine

LEMMA BeginIsFine ==
    ASSUME ClientInv, NEW c \in Calls, Begin(c)
    PROVE  Fine
<1>1. PICK new : new = [Fresh EXCEPT !.at = "token"]
  OBVIOUS
<1>2. new \in Call /\ new.ask = "get" /\ new.at # "sleep"
  BY <1>1, FreshCall DEF Waiting
<1>3. /\ call' = [call EXCEPT ![c] = new] /\ UNCHANGED <<tokenLock, npsso, access, refresh>>
      /\ UNCHANGED <<paceLock, starts, blocked, flag>> /\ call[c].at = "idle"
  BY <1>1 DEF Begin, tokens, pacing
<1>4. new.ask \notin SignIns
  BY <1>2 DEF SignIns
<1>5. tokenLock # c /\ paceLock # c
  BY <1>3, HoldsNothing DEF Renewing, Waiting
<1>6. QED
  BY <1>2, <1>3, <1>4, <1>5, PlainStepIsFine, PacingStays

LEMMA CancelIsFine ==
    ASSUME ClientInv, NEW c \in Calls, Cancel(c)
    PROVE  Fine
  BY EndIsFine, PacingStays DEF Cancel, Waiting

LEMMA UseTokenIsFine ==
    ASSUME ClientInv, NEW c \in Calls, UseToken(c)
    PROVE  Fine
<1>1. TypeOK /\ call \in [Calls -> Call] /\ call[c] \in Call /\ access \in Tokens \cup {None}
  BY InvOf DEF TypeOK
<1>2. PICK new : new = [call[c] EXCEPT !.at = "pace", !.ask = "get", !.token = access]
  OBVIOUS
<1>3. new \in Call /\ new.ask = "get" /\ new.at # "sleep"
  BY <1>1, <1>2 DEF Call, Waiting
<1>4. /\ call' = [call EXCEPT ![c] = new] /\ UNCHANGED <<tokenLock, npsso, access, refresh>>
      /\ UNCHANGED <<paceLock, starts, blocked, flag>> /\ call[c].at = "token" /\ tokenLock = None
  BY <1>1, <1>2 DEF UseToken, tokens, pacing
<1>5. new.ask \notin SignIns
  BY <1>3 DEF SignIns
<1>6. tokenLock # c /\ paceLock # c
  BY <1>4, HoldsNothing, ClientAssumption
<1>7. QED
  BY <1>3, <1>4, <1>5, <1>6, PlainStepIsFine, PacingStays

LEMMA RenewTokenIsFine ==
    ASSUME ClientInv, NEW c \in Calls, RenewToken(c)
    PROVE  Fine
<1>1. TypeOK /\ call \in [Calls -> Call] /\ call[c] \in Call
  BY InvOf DEF TypeOK
<1>2. PICK new : new = [call[c] EXCEPT !.at = "pace", !.ask = Renewal]
  OBVIOUS
<1>3. /\ new \in Call /\ new.ask = Renewal /\ (Renewal # "refresh" => refresh = None)
      /\ Renewing(new) /\ new.at # "sleep"
  BY <1>1, <1>2 DEF Call, Waiting, Renewal, Renewing, SignIns
<1>4. /\ call' = [call EXCEPT ![c] = new] /\ UNCHANGED <<npsso, access, refresh>>
      /\ UNCHANGED <<paceLock, starts, blocked, flag>>
      /\ tokenLock = None /\ access = None /\ tokenLock' = c /\ call[c].at = "token"
  BY <1>1, <1>2 DEF RenewToken, tokens, pacing
<1>5. /\ \A d \in Calls \ {c} : Renews(d, tokenLock', access', refresh')
                              /\ Holds(d, tokenLock', paceLock')
      /\ paceLock' # c
  BY <1>4, NobodyElseRenews, HoldsNothing
<1>6. ClientInv'
  BY <1>1, <1>3, <1>4, <1>5, PacingStays, CallStep DEF TypeOK
<1>7. QED
  BY <1>4, <1>6, NoStartIsFine
-----------------------------------------------------------------------------
(* The request budget *)

(* How long the next start has to wait; and what it means not to wait. *)
LEMMA SlotWaitIs ==
    ASSUME ClientInv
    PROVE  /\ SlotWait \in Nat
           /\ SlotWait = 0 => /\ blocked = 0
                              /\ Len(starts) < Budget
                              /\ starts # <<>> => starts[Len(starts)] >= Gap
<1>1. starts \in Seq(0 .. Window - 1) /\ blocked \in Nat
  BY PacingStays
<1>2. PICK n \in Nat : n = Len(starts)
  BY <1>1, LenProperties
<1>3. /\ Budget \in Nat \ {0} /\ Window \in Nat \ {0} /\ Gap \in Nat
      /\ \A i \in 1 .. n : starts[i] \in Nat /\ starts[i] < Window
      /\ starts = <<>> <=> n = 0
  <2>1. Budget \in Nat \ {0} /\ Window \in Nat \ {0} /\ Gap \in Nat
    BY ClientAssumption
  <2>2. \A i \in 1 .. n : starts[i] \in 0 .. Window - 1
    BY <1>1, <1>2, ElementOfSeq
  <2>3. starts = <<>> <=> n = 0
    BY <1>1, <1>2, EmptySeq
  <2>4. QED
    BY <2>1, <2>2, <2>3
<1>4. PICK spent : spent = IF n < Budget THEN 0 ELSE Window - starts[n - Budget + 1]
  OBVIOUS
<1>5. PICK gap : gap = IF starts = <<>> THEN 0 ELSE Later(Gap, starts[n])
  OBVIOUS
<1>6. SlotWait = Longer(blocked, Longer(spent, gap))
  BY <1>2, <1>4, <1>5 DEF SlotWait
<1>7. spent \in Nat /\ (spent = 0 => n < Budget)
  <2>1. CASE n < Budget
    BY <2>1, <1>4
  <2>2. CASE ~(n < Budget)
    <3>1. n - Budget + 1 \in 1 .. n
      BY <2>2, <1>3
    <3>2. starts[n - Budget + 1] \in Nat /\ starts[n - Budget + 1] < Window
      BY <3>1, <1>3
    <3>3. QED
      BY <2>2, <3>2, <1>3, <1>4
  <2>3. QED
    BY <2>1, <2>2
<1>8. gap \in Nat /\ (gap = 0 /\ starts # <<>> => starts[n] >= Gap)
  <2>1. CASE starts = <<>>
    BY <2>1, <1>5
  <2>2. CASE starts # <<>>
    <3>1. n \in 1 .. n
      BY <2>2, <1>3
    <3>2. starts[n] \in Nat
      BY <3>1, <1>3
    <3>3. QED
      BY <2>2, <3>2, <1>3, <1>5 DEF Later
  <2>3. QED
    BY <2>1, <2>2
<1>9. QED
  BY <1>1, <1>2, <1>6, <1>7, <1>8 DEF Longer

(* A call that is told to slow down keeps no lock it should not. *)
LEMMA LimitedKeepsInv ==
    ASSUME ClientInv, NEW c \in Calls, NEW after, Limited(c, after),
           UNCHANGED <<npsso, access, refresh, starts, flag>>,
           blocked' \in Nat, paceLock' = Released(paceLock, c)
    PROVE  ClientInv'
<1>1. TypeOK /\ call \in [Calls -> Call] /\ call[c] \in Call
  BY InvOf DEF TypeOK
<1>2. PICK new \in Call : /\ call' = [call EXCEPT ![c] = new]
                          /\ new.ask = "get" /\ new.at # "sleep"
                          /\ tokenLock' \in {tokenLock, Released(tokenLock, c)} /\ tokenLock' # c
  <2>1. CASE call[c].ask = "get" /\ ~call[c].retried /\ after <= InlineMax
    <3>1. PICK new : new = [call[c] EXCEPT !.at = "token", !.token = None, !.retried = TRUE]
      OBVIOUS
    <3>2. new \in Call /\ new.ask = "get" /\ new.at # "sleep"
      BY <1>1, <2>1, <3>1 DEF Call, Waiting
    <3>3. call' = [call EXCEPT ![c] = new] /\ tokenLock' = tokenLock
      BY <1>1, <2>1, <3>1 DEF Limited
    <3>4. tokenLock # c
      BY <2>1, HoldsNothing DEF Renewing, SignIns
    <3>5. QED
      BY <3>2, <3>3, <3>4
  <2>2. CASE ~(call[c].ask = "get" /\ ~call[c].retried /\ after <= InlineMax)
    <3>1. PICK new : new = [Fresh EXCEPT !.at = "idle"]
      OBVIOUS
    <3>2. new \in Call /\ new.ask = "get" /\ new.at # "sleep"
      BY <3>1, FreshCall
    <3>3. call' = [call EXCEPT ![c] = new] /\ tokenLock' = Released(tokenLock, c)
      BY <2>2, <3>1 DEF Limited, Ends
    <3>4. Released(tokenLock, c) # c
      BY HoldsNothing, Releases
    <3>5. QED
      BY <3>2, <3>3, <3>4
  <2>3. QED
    BY <2>1, <2>2
<1>3. new.ask \notin SignIns
  BY <1>2 DEF SignIns
<1>4. /\ paceLock' # c /\ paceLock' \in Calls \cup {None}
      /\ \A d \in Calls \ {c} : paceLock' = d <=> paceLock = d
  BY HoldsNothing, Releases
<1>5. /\ \A d \in Calls \ {c} : Renews(d, tokenLock', access', refresh')
                              /\ Holds(d, tokenLock', paceLock')
      /\ tokenLock' \in Calls \cup {None} /\ access' \in Tokens \cup {None}
      /\ refresh' \in Tokens \cup {None}
  BY <1>2, <1>4, OthersRenew
<1>6. QED
  BY <1>2, <1>3, <1>4, <1>5, PacingStays, CallStep

LEMMA RefuseIsFine ==
    ASSUME ClientInv, NEW c \in Calls, Refuse(c)
    PROVE  Fine
<1>1. PICK after : Limited(c, after)
  BY DEF Refuse
<1>2. UNCHANGED <<npsso, access, refresh, starts, blocked, flag>> /\ paceLock' = Released(paceLock, c)
  BY DEF Refuse, tokens
<1>3. ClientInv'
  BY <1>1, <1>2, PacingStays, LimitedKeepsInv
<1>4. QED
  BY <1>2, <1>3, NoStartIsFine

(* What a call renews, it goes on renewing in its next place. *)
LEMMA MovesOn ==
    ASSUME ClientInv, NEW c \in Calls, call[c].at \in Waiting, NEW new, new.ask = call[c].ask,
           new.at \in Waiting
    PROVE  /\ new.at \in Waiting /\ new.ask \in SignIns =>
                  /\ tokenLock = c /\ access = None
                  /\ new.ask # "refresh" => refresh = None
           /\ tokenLock = c => Renewing(new)
  BY InvOf DEF Renews, Holds, Renewing

LEMMA SleepIsFine ==
    ASSUME ClientInv, NEW c \in Calls, Sleep(c)
    PROVE  Fine
<1>1. TypeOK /\ call \in [Calls -> Call] /\ call[c] \in Call
  BY InvOf DEF TypeOK
<1>2. PICK wait \in Nat : wait = SlotWait
  BY SlotWaitIs
<1>3. PICK new : new = [call[c] EXCEPT !.at = "sleep", !.wake = wait]
  OBVIOUS
<1>4. new \in Call /\ new.ask = call[c].ask /\ new.at = "sleep" /\ new.at \in Waiting
  BY <1>1, <1>3 DEF Call, Waiting
<1>5. /\ call' = [call EXCEPT ![c] = new] /\ UNCHANGED <<tokenLock, npsso, access, refresh>>
      /\ UNCHANGED <<starts, blocked, flag>> /\ paceLock' = c /\ call[c].at \in Waiting
      /\ paceLock = None \/ call[c].at = "sleep"
  BY <1>1, <1>2, <1>3 DEF Sleep, Looks, tokens, Waiting
<1>6. /\ new.at \in Waiting /\ new.ask \in SignIns =>
             /\ tokenLock = c /\ access = None
             /\ new.ask # "refresh" => refresh = None
      /\ tokenLock = c => Renewing(new)
  BY <1>4, <1>5, MovesOn
<1>7. \A d \in Calls \ {c} : c = d <=> paceLock = d
  <2>1. paceLock \in {None, c}
    BY <1>5, InvOf DEF Holds
  <2>2. QED
    BY <2>1, ClientAssumption
<1>8. QED
  BY <1>4, <1>5, <1>6, <1>7, PlainStepIsFine, PacingStays

(* The ages of the newest starts, as the promise sees them. *)
Age(s, k) == IF k <= Len(s) THEN s[Len(s) - k + 1] ELSE Window

(* A start pushes every age one place back. *)
LEMMA StartPushes ==
    ASSUME NEW s \in Seq(0 .. Window - 1), NEW k \in Nat \ {0}
    PROVE  Age(Append(s, 0), k) = IF k = 1 THEN 0 ELSE Age(s, k - 1)
<1>1. PICK n \in Nat : n = Len(s)
  BY LenProperties
<1>2. 0 \in 0 .. Window - 1
  BY ClientAssumption
<1>3. PICK t : t = Append(s, 0)
  OBVIOUS
<1>4. Len(t) = n + 1 /\ (\A i \in 1 .. n : t[i] = s[i]) /\ t[n + 1] = 0
  BY <1>1, <1>2, <1>3, AppendProperties
<1>5. CASE k = 1
  BY <1>4, <1>3, <1>5 DEF Age
<1>6. CASE k # 1 /\ k <= n + 1
  <2>1. n + 1 - k + 1 \in 1 .. n /\ n + 1 - k + 1 = n - (k - 1) + 1 /\ k - 1 <= n
    BY <1>6
  <2>2. QED
    BY <2>1, <1>1, <1>3, <1>4, <1>6 DEF Age
<1>7. CASE k > n + 1
  BY <1>1, <1>3, <1>4, <1>7 DEF Age
<1>8. QED
  BY <1>5, <1>6, <1>7

LEMMA StartIsFine ==
    ASSUME ClientInv, NEW c \in Calls, Start(c)
    PROVE  Fine
<1>1. TypeOK /\ call \in [Calls -> Call] /\ call[c] \in Call
  BY InvOf DEF TypeOK
<1>2. PICK new : new = [call[c] EXCEPT !.at = "flight", !.wake = 0]
  OBVIOUS
<1>3. new \in Call /\ new.ask = call[c].ask /\ new.at = "flight" /\ new.at \in Waiting
  BY <1>1, <1>2 DEF Call, Waiting
<1>4. /\ call' = [call EXCEPT ![c] = new] /\ UNCHANGED <<tokenLock, npsso, access, refresh>>
      /\ starts' = Append(starts, 0) /\ blocked' = blocked /\ flag' = flag
      /\ paceLock' = Released(paceLock, c) /\ call[c].at \in Waiting /\ SlotWait = 0
  BY <1>1, <1>2 DEF Start, MayStart, Looks, tokens, Waiting
<1>5. /\ new.at \in Waiting /\ new.ask \in SignIns =>
             /\ tokenLock = c /\ access = None
             /\ new.ask # "refresh" => refresh = None
      /\ tokenLock = c => Renewing(new)
  BY <1>3, <1>4, MovesOn
<1>6. starts \in Seq(0 .. Window - 1) /\ 0 \in 0 .. Window - 1 /\ blocked \in Nat /\ Spaced
  BY PacingStays, ClientAssumption
<1>7. PICK n \in Nat : n = Len(starts)
  BY <1>6, LenProperties
<1>8. /\ starts' \in Seq(0 .. Window - 1) /\ Len(starts') = n + 1
      /\ \A i \in 1 .. n : starts'[i] = starts[i]
      /\ starts'[n + 1] = 0
  BY <1>4, <1>6, <1>7, AppendProperties
<1>9. blocked = 0 /\ n < Budget /\ (starts # <<>> => starts[n] >= Gap) /\ Budget \in Nat \ {0}
  BY <1>4, <1>7, SlotWaitIs, ClientAssumption
<1>10. Len(starts') <= Budget
  BY <1>7, <1>8, <1>9
<1>11. Spaced'
  <2> SUFFICES ASSUME NEW i \in 1 .. n + 1, NEW k \in 1 .. n + 1, i < k
               PROVE  starts'[i] >= starts'[k] + Gap
    BY <1>8, LenProperties DEF Spaced
  <2>1. i \in 1 .. n /\ n \in 1 .. n /\ 1 .. n = DOMAIN starts /\ starts # <<>>
    BY <1>6, <1>7, LenProperties, EmptySeq
  <2>2. starts[i] \in 0 .. Window - 1 /\ starts[n] \in 0 .. Window - 1
    BY <2>1, <1>6, <1>7, ElementOfSeq
  <2>3. CASE k = n + 1
    <3>1. starts[n] >= Gap
      BY <2>1, <1>9
    <3>2. starts[i] >= starts[n]
      <4>1. CASE i = n
        BY <4>1, <2>2, ClientAssumption
      <4>2. CASE i < n
        <5>1. starts[i] >= starts[n] + Gap
          BY <4>2, <2>1, <1>6 DEF Spaced
        <5>2. QED
          BY <5>1, <2>2, ClientAssumption
      <4>3. QED
        BY <4>1, <4>2, <2>1
    <3>3. QED
      BY <3>1, <3>2, <2>1, <2>2, <2>3, <1>8, ClientAssumption
  <2>4. CASE k \in 1 .. n
    BY <2>1, <2>4, <1>6, <1>8 DEF Spaced
  <2>5. QED
    BY <2>3, <2>4
<1>12. /\ paceLock' # c
       /\ \A d \in Calls \ {c} : Renews(d, tokenLock', access', refresh')
                               /\ Holds(d, tokenLock', paceLock')
       /\ tokenLock' \in Calls \cup {None} /\ access' \in Tokens \cup {None}
       /\ refresh' \in Tokens \cup {None}
  <2>1. paceLock' # c /\ \A d \in Calls \ {c} : paceLock' = d <=> paceLock = d
    BY <1>4, HoldsNothing, Releases
  <2>2. QED
    BY <2>1, <1>4, OthersRenew
<1>13. ClientInv'
  BY <1>3, <1>4, <1>5, <1>8, <1>10, <1>11, <1>12, PacingStays, CallStep
<1>14. \A k \in 1 .. Budget : Age(starts', k) = IF k = 1 THEN 0 ELSE Age(starts, k - 1)
  BY <1>4, <1>6, <1>9, StartPushes
<1>15. Age(starts, Budget) = Window
  BY <1>7, <1>9 DEF Age
<1>16. Age(starts, 1) >= Gap
  <2>1. CASE starts = <<>>
    BY <2>1, <1>6, ClientAssumption, EmptySeq DEF Age
  <2>2. CASE starts # <<>>
    <3>1. n >= 1 /\ n - 1 + 1 = n
      BY <2>2, <1>6, <1>7, EmptySeq
    <3>2. QED
      BY <3>1, <2>2, <1>7, <1>9 DEF Age
  <2>3. QED
    BY <2>1, <2>2
<1>17. Promise!Start
  <2>1. PICK age : age = [k \in 1 .. Budget |-> Age(starts, k)]
    OBVIOUS
  <2>2. \A k \in 1 .. Budget : k # 1 => k - 1 \in 1 .. Budget
    BY <1>9
  <2>3. [k \in 1 .. Budget |-> Age(starts', k)]
            = [k \in 1 .. Budget |-> IF k = 1 THEN 0 ELSE age[k - 1]]
    BY <1>14, <2>1, <2>2
  <2>4. age[Budget] = Window /\ age[1] >= Gap
    BY <1>9, <1>15, <1>16, <2>1
  <2>5. QED
    BY <1>4, <1>9, <2>1, <2>3, <2>4 DEF Promise!Start, Age
<1>18. QED
  BY <1>13, <1>17 DEF Fine, Promise!Next
-----------------------------------------------------------------------------
(* Answers *)

LEMMA ThrottleIsFine ==
    ASSUME ClientInv, NEW c \in Calls, NEW pause \in Pauses, Throttle(c, pause)
    PROVE  Fine
<1>1. /\ Limited(c, pause) /\ blocked' = Longer(blocked, pause)
      /\ UNCHANGED <<npsso, access, refresh, starts, flag>> /\ paceLock' = paceLock
  BY DEF Throttle, tokens
<1>2. blocked \in Nat /\ pause \in Nat /\ blocked' \in Nat
  BY <1>1, PacingStays, ClientAssumption DEF Longer
<1>3. ClientInv'
  <2>1. Released(paceLock, c) = paceLock
    BY HoldsNothing DEF Throttle, InFlight
  <2>2. QED
    BY <1>1, <1>2, <2>1, LimitedKeepsInv
<1>4. blocked' = IF pause > blocked THEN pause ELSE blocked
  BY <1>1, <1>2 DEF Longer
<1>5. Promise!Throttle
  BY <1>1, <1>4 DEF Promise!Throttle
<1>6. QED
  BY <1>3, <1>5 DEF Fine, Promise!Next

LEMMA FailIsFine ==
    ASSUME ClientInv, NEW c \in Calls, Fail(c) \/ Disappoint(c) \/ Answer(c)
    PROVE  Fine
<1>1. Ends(c, "idle") /\ UNCHANGED <<tokens, pacing, flag>> /\ call[c].at = "flight"
  BY DEF Fail, Disappoint, Answer, InFlight
<1>2. QED
  BY <1>1, EndIsFine, HoldsNothing, PacingStays DEF pacing

LEMMA UnauthorizedIsFine ==
    ASSUME ClientInv, NEW c \in Calls, Unauthorized(c)
    PROVE  Fine
<1>1. /\ UNCHANGED <<npsso, refresh, paceLock, starts, blocked, flag>>
      /\ call[c].ask = "get" /\ call[c].at = "flight"
      /\ TypeOK /\ call \in [Calls -> Call] /\ call[c] \in Call
  BY InvOf DEF Unauthorized, pacing, InFlight, TypeOK
<1>2. CASE RenewsOnce(c)
  <2>1. PICK new : new = [call[c] EXCEPT !.at = "token", !.token = None, !.renewed = TRUE]
    OBVIOUS
  <2>2. new \in Call /\ new.ask = "get" /\ new.at # "sleep"
    BY <1>1, <2>1 DEF Call, Waiting
  <2>3. call' = [call EXCEPT ![c] = new] /\ tokenLock' = tokenLock /\ access' = None
    BY <1>1, <1>2, <2>1 DEF Unauthorized
  <2>4. new.ask \notin SignIns
    BY <2>2 DEF SignIns
  <2>5. tokenLock # c /\ paceLock # c
    BY <1>1, HoldsNothing DEF Renewing, SignIns
  <2>6. QED
    BY <1>1, <2>2, <2>3, <2>4, <2>5, PlainStepIsFine, PacingStays
<1>3. CASE ~RenewsOnce(c)
  <2>1. Ends(c, "auth") /\ access' = access
    BY <1>3 DEF Unauthorized
  <2>2. QED
    BY <1>1, <2>1, EndIsFine, HoldsNothing, PacingStays DEF tokens
<1>4. QED
  BY <1>2, <1>3

LEMMA GiveCodeIsFine ==
    ASSUME ClientInv, NEW c \in Calls, GiveCode(c)
    PROVE  Fine
<1>1. /\ UNCHANGED <<npsso, access, refresh, tokenLock, paceLock, starts, blocked, flag>>
      /\ call[c].at = "flight" /\ call[c].ask = "authorize"
      /\ TypeOK /\ call \in [Calls -> Call] /\ call[c] \in Call
  BY InvOf DEF GiveCode, tokens, pacing, InFlight, TypeOK
<1>2. PICK new : new = [call[c] EXCEPT !.at = "pace", !.ask = "exchange"]
  OBVIOUS
<1>3. new \in Call /\ new.ask = "exchange" /\ new.at # "sleep" /\ Renewing(new)
  BY <1>1, <1>2 DEF Call, Waiting, Renewing, SignIns
<1>4. call' = [call EXCEPT ![c] = new]
  BY <1>1, <1>2 DEF GiveCode
<1>5. tokenLock = c /\ access = None /\ refresh = None /\ paceLock # c
  BY <1>1, InvOf, HoldsNothing DEF Renews, Waiting, SignIns
<1>6. QED
  BY <1>1, <1>3, <1>4, <1>5, PlainStepIsFine, PacingStays

LEMMA GiveTokensIsFine ==
    ASSUME ClientInv, NEW c \in Calls, GiveTokens(c)
    PROVE  Fine
<1>1. /\ UNCHANGED <<npsso, paceLock, starts, blocked, flag>> /\ access' = "live"
      /\ refresh' \in {refresh, "live"} /\ tokenLock' = Released(tokenLock, c)
      /\ call[c].at = "flight" /\ call[c].ask \in {"refresh", "exchange"}
      /\ TypeOK /\ call \in [Calls -> Call] /\ call[c] \in Call
  BY InvOf DEF GiveTokens, pacing, InFlight, TypeOK
<1>2. PICK new : new = [call[c] EXCEPT !.at = "pace", !.ask = "get", !.token = "live"]
  OBVIOUS
<1>3. new \in Call /\ new.ask = "get" /\ new.at # "sleep"
  BY <1>1, <1>2 DEF Call, Waiting, Tokens
<1>4. call' = [call EXCEPT ![c] = new]
  BY <1>1, <1>2 DEF GiveTokens
<1>5. tokenLock = c
  BY <1>1, InvOf DEF Renews, Waiting, SignIns
<1>6. /\ tokenLock' = None /\ access' \in Tokens \cup {None} /\ refresh' \in Tokens \cup {None}
      /\ tokenLock' # c /\ paceLock # c
  BY <1>1, <1>5, HoldsNothing, ClientAssumption DEF Released, TypeOK, Tokens
<1>7. \A d \in Calls \ {c} : Renews(d, tokenLock', access', refresh')
                            /\ Holds(d, tokenLock', paceLock')
  BY <1>1, <1>5, <1>6, NobodyElseRenews
<1>8. new.ask \notin SignIns
  BY <1>3 DEF SignIns
<1>9. ClientInv'
  BY <1>1, <1>3, <1>4, <1>6, <1>7, <1>8, PacingStays, CallStep
<1>10. QED
  BY <1>1, <1>9, NoStartIsFine

LEMMA SignInRefusedIsFine ==
    ASSUME ClientInv, NEW c \in Calls, InFlight(c, SignIns), SignInRefused(c)
    PROVE  Fine
<1>1. /\ UNCHANGED <<npsso, paceLock, starts, blocked, flag>>
      /\ call[c].at = "flight" /\ call[c].ask \in SignIns
      /\ TypeOK /\ call \in [Calls -> Call] /\ call[c] \in Call
  BY InvOf DEF SignInRefused, pacing, InFlight, TypeOK
<1>2. CASE call[c].ask = "refresh"
  <2>1. PICK new : new = [call[c] EXCEPT !.at = "pace", !.ask = "authorize"]
    OBVIOUS
  <2>2. new \in Call /\ new.at # "sleep" /\ Renewing(new)
    BY <1>1, <2>1 DEF Call, Waiting, Renewing, SignIns
  <2>3. /\ call' = [call EXCEPT ![c] = new] /\ access' = None /\ refresh' = None
        /\ tokenLock' = tokenLock
    BY <1>1, <1>2, <2>1 DEF SignInRefused
  <2>4. tokenLock = c /\ paceLock # c
    BY <1>1, InvOf, HoldsNothing DEF Renews, Waiting
  <2>5. QED
    BY <1>1, <2>2, <2>3, <2>4, PlainStepIsFine, PacingStays
<1>3. CASE call[c].ask # "refresh"
  <2>1. Ends(c, "auth") /\ UNCHANGED <<access, refresh>>
    BY <1>3 DEF SignInRefused
  <2>2. QED
    BY <1>1, <2>1, EndIsFine, HoldsNothing, PacingStays DEF tokens
<1>4. QED
  BY <1>2, <1>3

LEMMA ReportIsFine ==
    ASSUME ClientInv, NEW c \in Calls, Report(c)
    PROVE  Fine
<1>1. /\ Ends(c, "idle") /\ UNCHANGED <<tokens, paceLock, starts, blocked>> /\ flag' \in BOOLEAN
      /\ call[c].at = "auth"
  BY PacingStays DEF Report, pacing
<1>2. QED
  BY <1>1, EndIsFine, HoldsNothing

LEMMA AnswersAreFine ==
    ASSUME ClientInv, NEW c \in Calls, Answers(c)
    PROVE  Fine
<1>1. CASE \E pause \in Pauses : Throttle(c, pause)
  BY <1>1, ThrottleIsFine
<1>2. CASE RejectSignIn(c) \/ SignInOutage(c)
  <2>1. InFlight(c, SignIns) /\ SignInRefused(c)
    BY <1>2 DEF RejectSignIn, SignInOutage, InFlight, SignIns
  <2>2. QED
    BY <2>1, SignInRefusedIsFine
<1>3. QED
  BY <1>1, <1>2, FailIsFine, UnauthorizedIsFine, GiveCodeIsFine, GiveTokensIsFine, ReportIsFine
     DEF Answers

-----------------------------------------------------------------------------
(* Sony *)

LEMMA TokenDiesIsFine ==
    ASSUME ClientInv, NEW c \in Calls, TokenDies(c)
    PROVE  Fine
<1>1. /\ UNCHANGED <<npsso, access, refresh, tokenLock, paceLock, starts, blocked, flag>>
      /\ TypeOK /\ call \in [Calls -> Call] /\ call[c] \in Call
  BY InvOf DEF TokenDies, tokens, pacing, TypeOK
<1>2. PICK new : new = [call[c] EXCEPT !.token = "dead"]
  OBVIOUS
<1>3. new \in Call /\ new.ask = call[c].ask /\ new.at = call[c].at
  BY <1>1, <1>2 DEF Call, Tokens
<1>4. call' = [call EXCEPT ![c] = new]
  BY <1>1, <1>2 DEF TokenDies
<1>5. /\ new.at \in Waiting /\ new.ask \in SignIns =>
             /\ tokenLock = c /\ access = None
             /\ new.ask # "refresh" => refresh = None
      /\ tokenLock = c => Renewing(new)
      /\ paceLock = c <=> new.at = "sleep"
  BY <1>3, InvOf DEF Renews, Holds, Renewing
<1>6. QED
  BY <1>1, <1>3, <1>4, <1>5, PlainStepIsFine, PacingStays

(* Tokens that go leave whoever renews them as they are. *)
LEMMA WorldIsFine ==
    ASSUME ClientInv, World
    PROVE  Fine
<1>1. /\ UNCHANGED <<call, tokenLock, paceLock, starts, blocked>>
      /\ npsso' \in Tokens /\ flag' \in BOOLEAN
      /\ access' \in Tokens \cup {None} /\ (access = None => access' = None)
      /\ refresh' \in Tokens \cup {None} /\ (refresh = None => refresh' = None)
  <2>1. TypeOK /\ None \notin Tokens
    BY InvOf, ClientAssumption DEF Tokens
  <2>2. CASE AccessLapses \/ RefreshLapses
    BY <2>1, <2>2 DEF AccessLapses, RefreshLapses, pacing, TypeOK
  <2>3. CASE AccessDies \/ RefreshDies
    BY <2>1, <2>3 DEF AccessDies, RefreshDies, pacing, TypeOK, Tokens
  <2>4. CASE NpssoDies \/ FlagLapses
    BY <2>1, <2>4 DEF NpssoDies, FlagLapses, pacing, tokens, TypeOK, Tokens
  <2>5. QED
    BY <2>2, <2>3, <2>4 DEF World
<1>2. TypeOK' /\ Spaced'
  BY <1>1, TypesLater, PacingStays DEF ClientInv, TypeOK
<1>3. RenewalsAreNeeded' /\ LocksHeld'
  BY <1>1 DEF ClientInv, RenewalsAreNeeded, LocksHeld, Holds
<1>4. QED
  BY <1>1, <1>2, <1>3, NoStartIsFine DEF ClientInv
-----------------------------------------------------------------------------
(* Time *)

(* A set of numbers up to n has a least one. *)
LEMMA LeastNumber ==
    ASSUME NEW n \in Nat, NEW K \in SUBSET (0 .. n), K # {}
    PROVE  \E k \in K : \A m \in K : k <= m
<1> DEFINE T == {1 .. k : k \in K}
<1>1. T \subseteq FiniteSubsetsOf(Nat)
  <2> SUFFICES ASSUME NEW k \in K
               PROVE  1 .. k \in FiniteSubsetsOf(Nat)
    OBVIOUS
  <2>1. k \in Nat /\ 1 .. k \subseteq Nat
    OBVIOUS
  <2>2. IsFiniteSet(1 .. k)
    BY <2>1, FS_Interval
  <2>3. QED
    BY <2>1, <2>2 DEF FiniteSubsetsOf
<1>2. T # {}
  OBVIOUS
<1>3. PICK x \in T : \A y \in T : ~(<<y, x>> \in StrictSubsetOrdering(Nat))
  BY <1>1, <1>2, FS_StrictSubsetOrderingWellFounded, WFMin
<1>4. PICK k \in K : x = 1 .. k
  BY <1>3
<1>5. ASSUME NEW m \in K, m < k
      PROVE  FALSE
  <2>1. PICK y : y = 1 .. m
    OBVIOUS
  <2>2. m \in Nat /\ k \in Nat /\ y \in T
    BY <2>1
  <2>3. y \subseteq x /\ k \in x /\ k \notin y /\ x \subseteq Nat
    BY <1>4, <1>5, <2>1, <2>2
  <2>4. x \in SUBSET Nat /\ y \in SUBSET Nat /\ y # x
    BY <2>3
  <2>5. <<y, x>> \in StrictSubsetOrdering(Nat)
    BY <2>3, <2>4 DEF StrictSubsetOrdering
  <2>6. QED
    BY <1>3, <2>2, <2>5
<1>6. QED
  BY <1>5
(* Exactly the starts that leave the window are popped. *)
LEMMA PoppedIs ==
    ASSUME ClientInv, NEW n, n = Len(starts)
    PROVE  /\ n \in Nat /\ n <= Budget /\ DOMAIN starts = 1 .. n
           /\ \A i \in 1 .. n : starts[i] \in Nat /\ starts[i] < Window
           /\ Popped \in 0 .. n
           /\ \A i \in 1 .. Popped : starts[i] + 1 = Window
           /\ \A i \in Popped + 1 .. n : starts[i] + 1 < Window
<1>1. /\ starts \in Seq(0 .. Window - 1) /\ n \in Nat /\ n <= Budget /\ DOMAIN starts = 1 .. n
      /\ Window \in Nat \ {0} /\ Spaced
  BY PacingStays, LenProperties, ClientAssumption
<1>2. \A i \in 1 .. n : starts[i] \in Nat /\ starts[i] < Window
  <2>1. \A i \in 1 .. n : starts[i] \in 0 .. Window - 1
    BY <1>1, ElementOfSeq
  <2>2. QED
    BY <1>1, <2>1
<1> DEFINE K == {k \in 0 .. n : k = n \/ starts[k + 1] + 1 < Window}
<1>3. PICK k \in K : \A m \in K : k <= m
  <2>1. n \in K /\ K \in SUBSET (0 .. n)
    BY <1>1
  <2>2. QED
    BY <1>1, <2>1, LeastNumber
<1>4. ASSUME NEW i \in 1 .. k
      PROVE  starts[i] + 1 >= Window
  <2>1. k \in 0 .. n /\ i - 1 \in 0 .. n /\ i - 1 < k /\ i - 1 # n /\ (i - 1) + 1 = i
    BY <1>1
  <2>2. i - 1 \notin K
    BY <1>3, <2>1
  <2>3. ~(starts[(i - 1) + 1] + 1 < Window)
    BY <2>1, <2>2
  <2>4. i \in 1 .. n
    BY <2>1
  <2>5. QED
    BY <1>1, <1>2, <2>1, <2>3, <2>4
<1>5. k \in 0 .. n /\ (k < n => starts[k + 1] + 1 < Window)
  OBVIOUS
<1>6. \E m \in 0 .. Len(starts) :
          /\ \A i \in 1 .. m : starts[i] + 1 >= Window
          /\ m < Len(starts) => starts[m + 1] + 1 < Window
  BY <1>4, <1>5
<1>7. /\ Popped \in 0 .. n
      /\ \A i \in 1 .. Popped : starts[i] + 1 >= Window
      /\ Popped < n => starts[Popped + 1] + 1 < Window
  BY <1>6 DEF Popped
<1> HIDE DEF K
<1>8. PICK p \in 0 .. n : p = Popped
  BY <1>7
<1>9. ASSUME NEW i \in 1 .. p
      PROVE  starts[i] + 1 = Window
  BY <1>1, <1>2, <1>7, <1>8
<1>10. ASSUME NEW i \in p + 1 .. n
       PROVE  starts[i] + 1 < Window
  <2>1. p < n /\ p + 1 \in 1 .. n /\ i \in 1 .. n /\ p + 1 <= i
    BY <1>1
  <2>2. starts[p + 1] >= starts[i]
    <3>1. p + 1 < i => starts[p + 1] >= starts[i] + Gap
      BY <1>1, <2>1 DEF Spaced
    <3>2. QED
      BY <1>2, <2>1, <3>1, ClientAssumption
  <2>3. QED
    BY <1>1, <1>2, <1>7, <1>8, <2>1, <2>2
<1>11. QED
  BY <1>1, <1>2, <1>8, <1>9, <1>10

(* What is left is one tick older, and as far apart. *)
LEMMA AgedIs ==
    ASSUME ClientInv, NEW n, n = Len(starts), NEW p, p = Popped, NEW t, t = Aged
    PROVE  /\ t \in Seq(0 .. Window - 1) /\ Len(t) = n - p
           /\ \A i \in 1 .. n - p : t[i] = starts[p + i] + 1
           /\ \A i, k \in DOMAIN t : i < k => t[i] >= t[k] + Gap
<1>1. /\ n \in Nat /\ n <= Budget /\ DOMAIN starts = 1 .. n /\ p \in 0 .. n
      /\ \A i \in 1 .. n : starts[i] \in Nat /\ starts[i] < Window
      /\ \A i \in p + 1 .. n : starts[i] + 1 < Window
  BY PoppedIs
<1>2. t = [i \in 1 .. n - p |-> starts[p + i] + 1] /\ n - p \in Nat
  BY <1>1 DEF Aged
<1>3. ASSUME NEW i \in 1 .. n - p
      PROVE  starts[p + i] + 1 \in 0 .. Window - 1
  <2>1. p + i \in p + 1 .. n /\ p + i \in 1 .. n
    BY <1>1
  <2>2. QED
    BY <1>1, <2>1, ClientAssumption
<1>4. t \in Seq(0 .. Window - 1)
  <2>1. PICK m \in Nat : m = n - p
    BY <1>2
  <2>2. t \in [1 .. m -> 0 .. Window - 1]
    BY <1>2, <1>3, <2>1
  <2>3. t \in UNION {[1 .. k -> 0 .. Window - 1] : k \in Nat}
    BY <2>1, <2>2
  <2>4. QED
    BY <2>3, SeqDef, Zenon
<1>5. Len(t) = n - p /\ DOMAIN t = 1 .. n - p
  BY <1>2, <1>4, LenProperties
<1>6. ASSUME NEW i \in 1 .. n - p, NEW k \in 1 .. n - p, i < k
      PROVE  t[i] >= t[k] + Gap
  <2>1. p + i \in 1 .. n /\ p + k \in 1 .. n /\ p + i < p + k
    BY <1>1, <1>6
  <2>2. starts[p + i] >= starts[p + k] + Gap
    BY <1>1, <2>1 DEF ClientInv, Spaced
  <2>3. QED
    BY <1>1, <1>2, <2>1, <2>2, ClientAssumption
<1>7. QED
  BY <1>2, <1>4, <1>5, <1>6

(* A tick ages every start the promise knows, up to the window. *)
LEMMA TickAges ==
    ASSUME ClientInv, NEW k \in 1 .. Budget, NEW t, t = Aged
    PROVE  Age(t, k) = IF Age(starts, k) < Window THEN Age(starts, k) + 1 ELSE Window
<1>1. PICK n : n = Len(starts)
  OBVIOUS
<1>2. PICK p : p = Popped
  OBVIOUS
<1>3. /\ n \in Nat /\ p \in 0 .. n /\ Budget \in Nat /\ Window \in Nat
      /\ \A i \in 1 .. n : starts[i] \in Nat /\ starts[i] < Window
      /\ \A i \in 1 .. p : starts[i] + 1 = Window
  BY <1>1, <1>2, PoppedIs, ClientAssumption
<1>4. Len(t) = n - p /\ \A i \in 1 .. n - p : t[i] = starts[p + i] + 1
  BY <1>1, <1>2, AgedIs
<1>5. CASE k <= n - p
  <2>1. n - p - k + 1 \in 1 .. n - p /\ p + (n - p - k + 1) = n - k + 1 /\ n - k + 1 \in 1 .. n
        /\ k <= n
    BY <1>3, <1>5
  <2>2. t[n - p - k + 1] = starts[n - k + 1] + 1
    BY <1>4, <2>1
  <2>3. Age(t, k) = starts[n - k + 1] + 1 /\ Age(starts, k) = starts[n - k + 1]
    BY <1>1, <1>4, <1>5, <2>1, <2>2 DEF Age
  <2>4. starts[n - k + 1] < Window
    BY <1>3, <2>1
  <2>5. QED
    BY <2>3, <2>4
<1>6. CASE k > n - p /\ k <= n
  <2>1. n - k + 1 \in 1 .. p /\ n - k + 1 \in 1 .. n
    BY <1>3, <1>6
  <2>2. Age(t, k) = Window
    BY <1>3, <1>4, <1>6 DEF Age
  <2>3. Age(starts, k) = starts[n - k + 1]
    BY <1>1, <1>6 DEF Age
  <2>4. QED
    BY <1>3, <2>1, <2>2, <2>3
<1>7. CASE k > n
  <2>1. ~(k <= n - p)
    BY <1>3, <1>7
  <2>2. Age(t, k) = Window /\ Age(starts, k) = Window
    BY <1>1, <1>3, <1>4, <1>7, <2>1 DEF Age
  <2>3. QED
    BY <1>3, <2>2
<1>8. QED
  BY <1>3, <1>5, <1>6, <1>7

LEMMA TickIsFine ==
    ASSUME ClientInv, Tick
    PROVE  Fine
<1>1. /\ starts' = Aged /\ blocked' = Later(blocked, 1)
      /\ UNCHANGED <<npsso, access, refresh, tokenLock, paceLock, flag>>
      /\ call' = [c \in Calls |-> [call[c] EXCEPT !.wake = Later(@, 1)]]
      /\ TypeOK /\ blocked \in Nat
  BY InvOf DEF Tick, tokens, TypeOK
<1>2. ASSUME NEW c \in Calls
      PROVE  call'[c] \in Call /\ call'[c].at = call[c].at /\ call'[c].ask = call[c].ask
  <2>1. call[c] \in Call /\ Later(call[c].wake, 1) \in Nat
    BY <1>1, TypeOfCall DEF Later
  <2>2. call'[c] = [call[c] EXCEPT !.wake = Later(call[c].wake, 1)]
    BY <1>1
  <2>3. QED
    BY <2>1, <2>2 DEF Call
<1>3. call' \in [Calls -> Call]
  BY <1>1, <1>2
<1>4. /\ starts' \in Seq(0 .. Window - 1) /\ Len(starts') <= Budget /\ Spaced'
  <2>1. PICK n : n = Len(starts)
    OBVIOUS
  <2>2. PICK p : p = Popped
    OBVIOUS
  <2>3. PICK t : t = Aged
    OBVIOUS
  <2>4. n \in Nat /\ n <= Budget /\ p \in 0 .. n
    BY <2>1, <2>2, PoppedIs
  <2>5. /\ t \in Seq(0 .. Window - 1) /\ Len(t) = n - p
        /\ \A i, k \in DOMAIN t : i < k => t[i] >= t[k] + Gap
    BY <2>1, <2>2, <2>3, AgedIs
  <2>6. Len(t) <= Budget
    BY <2>4, <2>5, ClientAssumption
  <2>7. QED
    BY <1>1, <2>3, <2>5, <2>6 DEF Spaced
<1>5. blocked' \in Nat
  BY <1>1 DEF Later
<1>6. TypeOK'
  BY <1>1, <1>3, <1>4, <1>5, TypesLater DEF TypeOK
<1>7. RenewalsAreNeeded' /\ LocksHeld'
  BY <1>1, <1>2 DEF ClientInv, RenewalsAreNeeded, LocksHeld, Holds, Renewing
<1>8. \A k \in 1 .. Budget :
          Age(starts', k) = IF Age(starts, k) < Window THEN Age(starts, k) + 1 ELSE Window
  BY <1>1, TickAges
<1>9. Promise!Tick
  <2>1. PICK age : age = [k \in 1 .. Budget |-> Age(starts, k)]
    OBVIOUS
  <2>2. [k \in 1 .. Budget |-> Age(starts', k)]
            = [k \in 1 .. Budget |-> IF age[k] < Window THEN age[k] + 1 ELSE Window]
    BY <1>8, <2>1
  <2>3. blocked' = IF blocked > 1 THEN blocked - 1 ELSE 0
    BY <1>1 DEF Later
  <2>4. QED
    BY <2>1, <2>2, <2>3 DEF Promise!Tick, Promise!Older, Promise!Later, Age
<1>10. QED
  BY <1>4, <1>6, <1>7, <1>9 DEF Fine, ClientInv, Promise!Next

-----------------------------------------------------------------------------
(* The invariant *)

LEMMA InitIsFine ==
    ASSUME Init
    PROVE  ClientInv /\ Promise!Init
<1>1. Budget \in Nat \ {0} /\ Window \in Nat \ {0} /\ Len(<<>>) = 0 /\ <<>> \in Seq(0 .. Window - 1)
  BY ClientAssumption, EmptySeq
<1>2. Fresh \in Call
  BY DEF Fresh, Call
<1>3. TypeOK
  <2>1. call \in [Calls -> Call] /\ npsso \in Tokens
    BY <1>2 DEF Init
  <2>2. starts \in Seq(0 .. Window - 1) /\ Len(starts) <= Budget
    BY <1>1 DEF Init
  <2>3. QED
    BY <2>1, <2>2 DEF Init, TypeOK
<1>4. Spaced
  BY DEF Init, Spaced
<1>5. RenewalsAreNeeded /\ LocksHeld
  BY ClientAssumption DEF Init, Fresh, RenewalsAreNeeded, LocksHeld, Holds, Waiting
<1>6. Promise!Init
  BY <1>1 DEF Init, Promise!Init
<1>7. QED
  BY <1>3, <1>4, <1>5, <1>6 DEF ClientInv

LEMMA NextIsFine ==
    ASSUME ClientInv, Next
    PROVE  Fine
<1>1. ASSUME NEW c \in Calls,
             Begin(c) \/ Cancel(c) \/ Locks(c) \/ Paces(c) \/ Answers(c) \/ TokenDies(c)
      PROVE  Fine
  BY <1>1, BeginIsFine, CancelIsFine, UseTokenIsFine, RenewTokenIsFine, RefuseIsFine, SleepIsFine,
     StartIsFine, AnswersAreFine, TokenDiesIsFine DEF Locks, Paces
<1>2. QED
  BY <1>1, WorldIsFine, TickIsFine DEF Next

LEMMA StillIsFine ==
    ASSUME ClientInv, UNCHANGED vars
    PROVE  Fine
<1>1. UNCHANGED <<npsso, access, refresh, tokenLock, paceLock, starts, blocked, flag, call>>
  BY DEF vars
<1>2. ClientInv'
  BY <1>1 DEF ClientInv, TypeOK, Spaced, RenewalsAreNeeded, LocksHeld, Holds
<1>3. QED
  BY <1>1, <1>2, NoStartIsFine

(* A queue of starts spaced by the gap, within the budget, and renewals under *)
(* the token lock, in every reachable state (app/services/psn.py,          *)
(* TokenState and _acquire).                                               *)
THEOREM ClientInvariant == Spec => []ClientInv
<1>1. ClientInv /\ [Next]_vars => ClientInv'
  BY NextIsFine, StillIsFine DEF Fine
<1>2. QED
  BY InitIsFine, <1>1, PTL DEF Spec

(* Every variable has its type: in particular no more than Budget requests *)
(* have started within a window.                                           *)
THEOREM TypeCorrect == Spec => []TypeOK
<1>1. ClientInv => TypeOK
  BY DEF ClientInv
<1>2. QED
  BY <1>1, ClientInvariant, PTL

(* Any two requests that started within a window are Gap apart, whichever  *)
(* calls made them (psn_min_request_interval).                             *)
THEOREM RequestsAreSpaced == Spec => []Spaced
<1>1. ClientInv => Spaced
  BY DEF ClientInv
<1>2. QED
  BY <1>1, ClientInvariant, PTL

(* No lock is left behind: not by an exception, a cancellation, a refused  *)
(* sign-in or a retry (`async with token_lock`, `async with pace_lock`).   *)
THEOREM LocksAreNotLeftBehind == Spec => []LocksHeld
<1>1. ClientInv => LocksHeld
  BY DEF ClientInv
<1>2. QED
  BY <1>1, ClientInvariant, PTL

(* Two calls never renew at once, nobody renews a token that is there, and *)
(* the NPSSO is sent only without a refresh token.                         *)
THEOREM RenewalsOnlyWhenNeeded == Spec => []RenewalsAreNeeded
<1>1. ClientInv => RenewalsAreNeeded
  BY DEF ClientInv
<1>2. QED
  BY <1>1, ClientInvariant, PTL

(* However many calls share it and however long they sleep, the pacing     *)
(* keeps to the request budget: the window, the gap and every pause.       *)
THEOREM PacingKeepsTheBudget == Spec => ImplementsBudget
<1>1. ClientInv /\ [Next]_vars => [Promise!Next]_(Promise!vars)
  BY NextIsFine, StillIsFine DEF Fine
<1>2. QED
  BY InitIsFine, <1>1, ClientInvariant, PTL DEF Spec, ImplementsBudget, Promise!Spec
============================================================================
