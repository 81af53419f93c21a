----------------------------- MODULE PsnClient -----------------------------
(***************************************************************************)
(* The PlayStation client of one process (app/services/psn.py): the tokens *)
(* of the server account, the request budget every client of the process   *)
(* draws on, and the calls that share both.                                *)
(*                                                                         *)
(* A call gets a token under the token lock, which may take requests of    *)
(* its own (refresh, or authorize and exchange), waits under the pace lock *)
(* for the right to start, and reads Sony's answer.  Times are ages and    *)
(* remaining times; Tick ages them all.                                    *)
(***************************************************************************)
EXTENDS Naturals, Sequences

CONSTANTS Calls,
          Budget,     \* psn_request_budget
          Window,     \* psn_budget_window_seconds
          Gap,        \* psn_min_request_interval
          InlineMax,  \* INLINE_RETRY_MAX
          MaxWait,    \* MaxWait[c]: max_wait of the client of c, or None
          Pauses,     \* what a 429 may ask for, the default backoff included
          None

ASSUME ClientAssumption ==
    /\ Budget \in Nat \ {0}
    /\ Window \in Nat \ {0}
    /\ Gap \in 0 .. Window
    /\ InlineMax \in Nat
    /\ Pauses \subseteq Nat
    /\ None \notin Nat \cup Calls \cup {"live", "dead"}
    /\ MaxWait \in [Calls -> Nat \cup {None}]

VARIABLES
    npsso,      \* the NPSSO of the settings: does Sony still accept it?
    access,     \* state.access_token while access_valid(), else None
    refresh,    \* state.refresh_token while refresh_valid(), else None
    tokenLock,  \* who holds the token lock, or None
    paceLock,   \* who holds the pace lock, or None
    starts,     \* state.request_starts in the window, as ages, oldest first
    blocked,    \* state.blocked_until: how long nothing may start
    flag,       \* is the NPSSO marked as rejected, in Redis?
    call        \* call[c], see Call

vars == <<npsso, access, refresh, tokenLock, paceLock, starts, blocked, flag, call>>
tokens == <<npsso, access, refresh>>
pacing == <<paceLock, starts, blocked>>

(* A token Sony accepts or has revoked. *)
Tokens == {"live", "dead"}

Waiting == {"token", "pace", "sleep", "flight", "auth"}

(* A call that ends is idle until the next.  One that ends in PSNAuthError *)
(* has that to report first.                                               *)
(*                                                                         *)
(* What the call asks for next: a get is the request it was made for, the  *)
(* others renew the token it needs.  wake is what is left of a sleep.      *)
Call == [at : Waiting \cup {"idle"}, ask : {"get", "refresh", "authorize", "exchange"},
         token : Tokens \cup {None}, wake : Nat, renewed : BOOLEAN, retried : BOOLEAN]

TypeOK ==
    /\ npsso \in Tokens
    /\ access \in Tokens \cup {None}
    /\ refresh \in Tokens \cup {None}
    /\ tokenLock \in Calls \cup {None}
    /\ paceLock \in Calls \cup {None}
    /\ starts \in Seq(0 .. Window - 1)
    /\ Len(starts) <= Budget
    /\ blocked \in Nat
    /\ flag \in BOOLEAN
    /\ call \in [Calls -> Call]

Fresh == [at |-> "idle", ask |-> "get", token |-> None, wake |-> 0,
          renewed |-> FALSE, retried |-> FALSE]

Init ==
    /\ npsso \in Tokens
    /\ access = None
    /\ refresh = None
    /\ tokenLock = None
    /\ paceLock = None
    /\ starts = <<>>
    /\ blocked = 0
    /\ flag = FALSE
    /\ call = [c \in Calls |-> Fresh]

Later(t, d) == IF t > d THEN t - d ELSE 0
Longer(s, t) == IF s > t THEN s ELSE t

(* Leaving `async with` releases the lock, on return and on an exception.  *)
Released(lock, c) == IF lock = c THEN None ELSE lock

-----------------------------------------------------------------------------
(* Calls *)

(* Nothing is asked of Sony while the NPSSO is marked as rejected.         *)
Begin(c) ==
    /\ call[c].at = "idle"
    /\ ~flag
    /\ call' = [call EXCEPT ![c] = [Fresh EXCEPT !.at = "token"]]
    /\ UNCHANGED <<tokens, tokenLock, pacing, flag>>

(* The call ends as outcome and gives up what it holds. *)
Ends(c, outcome) ==
    /\ call' = [call EXCEPT ![c] = [Fresh EXCEPT !.at = outcome]]
    /\ tokenLock' = Released(tokenLock, c)

(* The task is cancelled at an await: a job timeout, a shutdown. *)
Cancel(c) ==
    /\ call[c].at \in Waiting
    /\ Ends(c, "idle")
    /\ paceLock' = Released(paceLock, c)
    /\ UNCHANGED <<tokens, starts, blocked, flag>>

(* access_token(), once the token lock is had: a valid token is used, else *)
(* the lock is kept while one is asked for.                                *)
UseToken(c) ==
    /\ call[c].at = "token"
    /\ tokenLock = None
    /\ access # None
    /\ call' = [call EXCEPT ![c].at = "pace", ![c].ask = "get", ![c].token = access]
    /\ UNCHANGED <<tokens, tokenLock, pacing, flag>>

(* Bug: every renewal goes back to the NPSSO. *)
RenewalAlwaysFull == "authorize"

(* The refresh token is used while there is one. *)
Renewal == IF refresh # None THEN "refresh" ELSE "authorize"

RenewToken(c) ==
    /\ call[c].at = "token"
    /\ tokenLock = None
    /\ access = None
    /\ tokenLock' = c
    /\ call' = [call EXCEPT ![c].at = "pace", ![c].ask = Renewal]
    /\ UNCHANGED <<tokens, pacing, flag>>

-----------------------------------------------------------------------------
(* The request budget *)

(* _slot_wait: how long until the next request may start. *)
SlotWait ==
    LET spent == IF Len(starts) < Budget THEN 0
                 ELSE Window - starts[Len(starts) - Budget + 1]
        gap == IF starts = <<>> THEN 0 ELSE Later(Gap, starts[Len(starts)])
    IN  Longer(blocked, Longer(spent, gap))

(* The loop of _acquire looks at the clock: first when the pace lock is    *)
(* had, then after every sleep.                                            *)
Looks(c) ==
    \/ call[c].at = "pace" /\ paceLock = None
    \/ call[c].at = "sleep" /\ call[c].wake = 0

(* A long pause fails fast, and so does a wait the caller cannot afford. *)
FailsFast(c) ==
    \/ blocked > InlineMax
    \/ MaxWait[c] # None /\ SlotWait > MaxWait[c]

(* PSNRateLimitedError in _get_json: a get is tried once more after a      *)
(* short wait.  From access_token() it is passed on.                       *)
Limited(c, after) ==
    IF call[c].ask = "get" /\ ~call[c].retried /\ after <= InlineMax
    THEN /\ call' = [call EXCEPT ![c].at = "token", ![c].token = None, ![c].retried = TRUE]
         /\ UNCHANGED tokenLock
    ELSE Ends(c, "idle")

Refuse(c) ==
    /\ Looks(c)
    /\ FailsFast(c)
    /\ Limited(c, IF blocked > InlineMax THEN blocked ELSE SlotWait)
    /\ paceLock' = Released(paceLock, c)
    /\ UNCHANGED <<tokens, starts, blocked, flag>>

(* Sleep holding the lock: the others queue behind. *)
Sleep(c) ==
    /\ Looks(c)
    /\ ~FailsFast(c)
    /\ SlotWait > 0
    /\ paceLock' = c
    /\ call' = [call EXCEPT ![c].at = "sleep", ![c].wake = SlotWait]
    /\ UNCHANGED <<tokens, tokenLock, starts, blocked, flag>>

(* Bug: a call that slept starts without looking again. *)
MayStartAfterSleep(c) == call[c].at = "sleep" \/ (~FailsFast(c) /\ SlotWait = 0)

MayStart(c) == ~FailsFast(c) /\ SlotWait = 0

Start(c) ==
    /\ Looks(c)
    /\ MayStart(c)
    /\ starts' = Append(starts, 0)
    /\ paceLock' = Released(paceLock, c)
    /\ call' = [call EXCEPT ![c].at = "flight", ![c].wake = 0]
    /\ UNCHANGED <<tokens, tokenLock, blocked, flag>>

-----------------------------------------------------------------------------
(* Answers *)

InFlight(c, asks) == call[c].at = "flight" /\ call[c].ask \in asks
SignIns == {"refresh", "authorize", "exchange"}

(* 429, to any request: everything in the process pauses. *)
Throttle(c, pause) ==
    /\ InFlight(c, SignIns \cup {"get"})
    /\ blocked' = Longer(blocked, pause)
    /\ Limited(c, pause)
    /\ UNCHANGED <<tokens, paceLock, starts, flag>>

(* httpx.HTTPError *)
Fail(c) ==
    /\ InFlight(c, SignIns \cup {"get"})
    /\ Ends(c, "idle")
    /\ UNCHANGED <<tokens, pacing, flag>>

(* _error_for: Sony hides or does not know what was asked, or is broken.   *)
(* Whatever the token, such an answer says nothing about it.               *)
Disappoint(c) ==
    /\ InFlight(c, {"get"})
    /\ Ends(c, "idle")
    /\ UNCHANGED <<tokens, pacing, flag>>

Answer(c) ==
    /\ InFlight(c, {"get"})
    /\ call[c].token = "live"
    /\ Ends(c, "idle")
    /\ UNCHANGED <<tokens, pacing, flag>>

(* Bug: every 401 is answered by renewing. *)
RenewsEvery(c) == TRUE

(* 401 renews the token, once per call. *)
RenewsOnce(c) == ~call[c].renewed

Unauthorized(c) ==
    /\ InFlight(c, {"get"})
    /\ call[c].token = "dead"
    /\ IF RenewsOnce(c)
       THEN /\ access' = None  \* invalidate_access_token: whoever renewed it since
            /\ call' = [call EXCEPT ![c].at = "token", ![c].token = None, ![c].renewed = TRUE]
            /\ UNCHANGED tokenLock
       ELSE /\ Ends(c, "auth")
            /\ UNCHANGED access
    /\ UNCHANGED <<npsso, refresh, pacing, flag>>

(* The authorize redirect carries a code. *)
GiveCode(c) ==
    /\ InFlight(c, {"authorize"})
    /\ npsso = "live"
    /\ call' = [call EXCEPT ![c].at = "pace", ![c].ask = "exchange"]
    /\ UNCHANGED <<tokens, tokenLock, pacing, flag>>

(* The token endpoint answers 200: the lock is released and the request    *)
(* the call was made for is next.                                          *)
GiveTokens(c) ==
    /\ InFlight(c, {"refresh", "exchange"})
    /\ call[c].ask = "refresh" => refresh # "dead"
    /\ access' = "live"
    /\ refresh' \in {refresh, "live"}  \* the answer may bring a new one
    /\ tokenLock' = Released(tokenLock, c)
    /\ call' = [call EXCEPT ![c].at = "pace", ![c].ask = "get", ![c].token = "live"]
    /\ UNCHANGED <<npsso, pacing, flag>>

(* PSNAuthError while signing in: after a refresh, a full sign-in follows. *)
SignInRefused(c) ==
    /\ IF call[c].ask = "refresh"
       THEN /\ access' = None
            /\ refresh' = None
            /\ call' = [call EXCEPT ![c].at = "pace", ![c].ask = "authorize"]
            /\ UNCHANGED tokenLock
       ELSE Ends(c, "auth") /\ UNCHANGED <<access, refresh>>
    /\ UNCHANGED <<npsso, pacing, flag>>

RejectSignIn(c) ==
    /\ \/ InFlight(c, {"refresh"}) /\ refresh = "dead"
       \/ InFlight(c, {"authorize"}) /\ npsso = "dead"
    /\ SignInRefused(c)

(* Any other answer but 429: a 5xx, a page without a code, a body that is  *)
(* no token.                                                               *)
SignInOutage(c) ==
    /\ InFlight(c, SignIns)
    /\ SignInRefused(c)

(* block_auth.  Redis may not take it. *)
Report(c) ==
    /\ call[c].at = "auth"
    /\ flag' \in {flag, TRUE}
    /\ Ends(c, "idle")
    /\ UNCHANGED <<tokens, pacing>>

-----------------------------------------------------------------------------
(* Time and Sony *)

(* The oldest starts are popped while they are as old as the window, at    *)
(* the latest when they are looked at again.                               *)
Popped == CHOOSE n \in 0 .. Len(starts) :
              /\ \A i \in 1 .. n : starts[i] + 1 >= Window
              /\ n < Len(starts) => starts[n + 1] + 1 < Window
Aged == [i \in 1 .. Len(starts) - Popped |-> starts[Popped + i] + 1]

Tick ==
    /\ starts' = Aged
    /\ blocked' = Later(blocked, 1)
    /\ call' = [c \in Calls |-> [call[c] EXCEPT !.wake = Later(@, 1)]]
    /\ UNCHANGED <<tokens, tokenLock, paceLock, flag>>

(* A token nears its stated end: access_valid() and refresh_valid(). *)
AccessLapses ==
    /\ access # None
    /\ access' = None
    /\ UNCHANGED <<npsso, refresh, tokenLock, pacing, call, flag>>

RefreshLapses ==
    /\ refresh # None
    /\ refresh' = None
    /\ UNCHANGED <<npsso, access, tokenLock, pacing, call, flag>>

(* Sony revokes a token before that. *)
AccessDies ==
    /\ access = "live"
    /\ access' = "dead"
    /\ UNCHANGED <<npsso, refresh, tokenLock, pacing, call, flag>>

RefreshDies ==
    /\ refresh = "live"
    /\ refresh' = "dead"
    /\ UNCHANGED <<npsso, access, tokenLock, pacing, call, flag>>

(* The token of a waiting call is revoked, or runs out while it waits. *)
TokenDies(c) ==
    /\ call[c].token = "live"
    /\ call' = [call EXCEPT ![c].token = "dead"]
    /\ UNCHANGED <<tokens, tokenLock, pacing, flag>>

(* AUTH_FLAG_SECONDS are over. *)
FlagLapses ==
    /\ flag
    /\ flag' = FALSE
    /\ UNCHANGED <<tokens, tokenLock, pacing, call>>

(* The NPSSO expires.  A new one needs a restart: another process. *)
NpssoDies ==
    /\ npsso = "live"
    /\ npsso' = "dead"
    /\ UNCHANGED <<access, refresh, tokenLock, pacing, call, flag>>

-----------------------------------------------------------------------------

Locks(c) == UseToken(c) \/ RenewToken(c)
Paces(c) == Refuse(c) \/ Sleep(c) \/ Start(c)
Answers(c) ==
    \/ \E pause \in Pauses : Throttle(c, pause)
    \/ Fail(c) \/ Disappoint(c) \/ Answer(c) \/ Unauthorized(c)
    \/ GiveCode(c) \/ GiveTokens(c) \/ RejectSignIn(c) \/ SignInOutage(c) \/ Report(c)
World == AccessLapses \/ RefreshLapses \/ AccessDies \/ RefreshDies \/ NpssoDies \/ FlagLapses

Next ==
    \/ \E c \in Calls : Begin(c) \/ Cancel(c) \/ Locks(c) \/ Paces(c) \/ Answers(c) \/ TokenDies(c)
    \/ World
    \/ Tick

Spec == Init /\ [][Next]_vars

(* Time passes, a request is answered or times out, and asyncio hands a    *)
(* lock to those who wait for it in turn.                                  *)
Fairness ==
    /\ WF_vars(Tick)
    /\ \A c \in Calls : SF_vars(Locks(c) \/ Paces(c) \/ Answers(c))

FairSpec == Spec /\ Fairness

-----------------------------------------------------------------------------
(* Properties *)

(* Every request of the process, sign-ins included, keeps to the budget:   *)
(* the window, the gap and the pauses of a 429, whichever call starts it   *)
(* and however long it slept.                                              *)
Promise == INSTANCE RequestBudget WITH
    age <- [k \in 1 .. Budget |->
               IF k <= Len(starts) THEN starts[Len(starts) - k + 1] ELSE Window],
    pause <- blocked

ImplementsBudget == Promise!Spec

(* A renewal is under way only while the process has no valid token, and   *)
(* the NPSSO is sent only when the refresh token is gone or rejected: the  *)
(* calls that queued behind a renewal use what it brought.                 *)
RenewalsAreNeeded ==
    \A c \in Calls : call[c].at \in Waiting =>
        /\ call[c].ask \in SignIns => tokenLock = c /\ access = None
        /\ call[c].ask \in {"authorize", "exchange"} => refresh = None

(* Every call comes to an end: no 401, no 429 and no queue at a lock keeps *)
(* it for ever.                                                            *)
EveryCallEnds == \A c \in Calls : call[c].at \in Waiting ~> call[c].at = "idle"

(* PlayStation is stopped for a day only when Sony rejects the NPSSO.      *)
OnlyRejectionsBlock == flag => npsso = "dead"
=============================================================================
