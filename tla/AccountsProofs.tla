--------------------------- MODULE AccountsProofs ---------------------------
(***************************************************************************)
(* Sign-in and account linking, for every number of users, sessions and    *)
(* requests: what holds of each request by the place it has reached        *)
(* (Shape), what it may still rely on in the tables and in Redis although  *)
(* others have run since it read them (Relies), and the proofs that every  *)
(* step of every request leaves all of them that.                          *)
(***************************************************************************)
EXTENDS Accounts, TLAPS

(* Where the user has been identified by a session of the request.         *)
SignedIn == {"identity", "provider", "recall", "ask", "remember", "serve", "dropped",
             "forget", "revoke", "intend", "verify", "recheck", "claim", "convert",
             "factors", "attach"}

WithSid == {"recall", "ask", "remember", "forget", "revoke", "verify", "recheck", "claim",
            "convert", "factors", "old", "lookup", "join", "publish"}

WithUser == {"converted", "issue", "publish", "dropOld", "dropProvider", "hand"}

Issued == {"publish", "dropOld", "dropProvider", "hand"}

RoundTrip == {"consume", "steamSays", "owner", "summary", "converted", "attach"}

(* The locals of a request, by its place and by what it is doing.          *)
Shape(q) ==
    /\ q.at = "idle" => q = Quiet
    /\ q.at \in SignedIn => q.token # None /\ q.user # None /\ q.doing # "exchange"
    /\ q.at \in SignedIn \ {"attach"} => q.doing # "steamBack" /\ q.doing # "connectBack"
    /\ q.at \in WithSid => q.sid # None
    /\ q.at \in WithUser => q.user # None
    /\ q.at \in {"old", "lookup", "join"} => q.doing = "exchange"
    /\ q.at \in {"old", "dropOld", "dropProvider"} => q.token # None
    /\ q.at = "dropProvider" => q.doing = "exchange"
    /\ q.doing = "exchange" /\ q.at # "idle" => q.sid # None
    /\ q.doing = "steamBack" => q.token = None /\ q.sid = None
    /\ q.fresh # None <=> q.at \in Issued
    /\ q.at \in RoundTrip =>
           /\ q.stored # None
           /\ q.stored.session = q.token
           /\ q.doing \in {"steamBack", "connectBack"}
           /\ q.doing = "connectBack" => /\ q.token # None /\ q.user # None
                                         /\ q.stored.user = q.user
    /\ q.at \in {"consume", "steamSays"} => q.login # None
    /\ q.at \in {"owner", "summary", "attach"} => q.steam # None
    /\ q.at \in {"summary", "converted"} => q.doing = "steamBack"
    /\ q.at = "attach" => q.doing = "connectBack"

(* An exchange that has looked at a live session it is about to replace.   *)
Replacing(q) ==
    /\ q.doing = "exchange"
    /\ q.at \in {"lookup", "join", "issue", "publish", "dropOld"}
    /\ q.token # None

(* The session a request holds was handed out, to the user it acts for,    *)
(* and the one it is issuing is known to nobody else.                      *)
Relies(q) ==
    /\ q.token # None => tokens[q.token] # None
    /\ q.token # None /\ q.doing # "exchange" => q.user = tokens[q.token].user
    /\ q.user # None => q.user \in users
    /\ q.at \in {"issue"} \cup Issued /\ q.sid # None => identity[q.user] = q.sid.subject
    /\ q.fresh # None =>
           /\ tokens[q.fresh] = None
           /\ q.sid # None => provider[q.fresh] = q.sid
           /\ q.at # "publish" => sessions[q.fresh] = q.user
    /\ q.at \in {"dropped", "dropProvider"} => sessions[q.token] = None
    /\ Replacing(q) /\ sessions[q.token] # None => Replaceable(tokens[q.token], q.sid)
    /\ q.at = "steamSays" => logins[q.login] = None

RequestOK(r) == Shape(req[r]) /\ Relies(req[r])

TokensOfUsers == \A t \in Sessions : tokens[t] # None => tokens[t].user \in users

(* No two requests issue the same session.                                 *)
FreshApart ==
    \A r, o \in Requests : req[r].fresh # None /\ req[r].fresh = req[o].fresh => r = o

AccountsInv ==
    /\ TypeOK
    /\ OneOwnerEach
    /\ SessionsMatchIdentities
    /\ TokensOfUsers
    /\ FreshApart
    /\ OneCallbackPerLogin
    /\ \A r \in Requests : RequestOK(r)

(* The body of LinksAreForever.                                            *)
LinkStep ==
    \A u \in UserIds :
        /\ identity[u] # None => identity'[u] = identity[u]
        /\ steam[u] # None => steam'[u] = steam[u]
        /\ u \in users /\ <<identity'[u], steam'[u]>> # <<identity[u], steam[u]>>
               => ByOneOf(u)

(* What every step does: it preserves the invariant and moves no link.     *)
Fine == AccountsInv' /\ LinkStep

(* All that the invariant reads but the requests.                          *)
world == <<users, identity, steam, sessions, provider, logins, tokens>>

(* A step is steady for q when it leaves what q relies on: rows only come, *)
(* the session q holds is at most dropped, and the one it issues, and the  *)
(* login it consumed, are left alone.                                      *)
Steady(q) ==
    /\ users \subseteq users'
    /\ \A u \in UserIds : identity[u] # None => identity'[u] = identity[u]
    /\ q.token # None /\ tokens[q.token] # None =>
           /\ tokens'[q.token] # None
           /\ tokens'[q.token].user = tokens[q.token].user
           /\ tokens'[q.token].viaProvider = tokens[q.token].viaProvider
           /\ sessions'[q.token] \in {sessions[q.token], None}
    /\ q.fresh # None =>
           /\ tokens'[q.fresh] = tokens[q.fresh]
           /\ provider'[q.fresh] = provider[q.fresh]
           /\ sessions'[q.fresh] = sessions[q.fresh]
    /\ q.at = "steamSays" /\ logins[q.login] = None => logins'[q.login] = None

(* Only request r moves.                                                   *)
Alone(r) ==
    /\ req' \in [Requests -> Request]
    /\ \A o \in Requests \ {r} : req'[o] = req[o]

(* Request r goes to a place with the locals it has.                       *)
Moved(r, place) ==
    /\ Alone(r)
    /\ req'[r].at = place
    /\ req'[r].doing = req[r].doing
    /\ req'[r].token = req[r].token
    /\ req'[r].user = req[r].user
    /\ req'[r].sid = req[r].sid
    /\ req'[r].identity = req[r].identity
    /\ req'[r].login = req[r].login
    /\ req'[r].stored = req[r].stored
    /\ req'[r].steam = req[r].steam
    /\ req'[r].fresh = req[r].fresh

-----------------------------------------------------------------------------
(* Requests *)

LEMMA QuietIsARequest == Quiet \in Request
  BY DEF Quiet, Request, Places, Maybe

LEMMA Becoming ==
    ASSUME TypeOK, NEW r \in Requests, NEW q \in Request, Become(r, q)
    PROVE  Alone(r) /\ req'[r] = q
  BY DEF TypeOK, Become, Alone

LEMMA Going ==
    ASSUME TypeOK, NEW r \in Requests, NEW place \in Places, Goto(r, place)
    PROVE  Moved(r, place)
<1>1. req \in [Requests -> Request]
  BY DEF TypeOK
<1>2. req[r] \in Request
  BY <1>1
<1>3. [req[r] EXCEPT !.at = place] \in Request
  BY <1>2 DEF Request
<1>4. Alone(r) /\ req'[r] = [req[r] EXCEPT !.at = place]
  BY <1>3, Becoming DEF Goto
<1>5. QED
  BY <1>2, <1>4 DEF Moved, Request

LEMMA Answering ==
    ASSUME TypeOK, NEW r \in Requests, Answer(r)
    PROVE  Alone(r) /\ req'[r] = Quiet
  BY QuietIsARequest, Becoming DEF Answer

(* A request that is over relies on nothing.                               *)
LEMMA QuietIsOK ==
    ASSUME NEW r \in Requests, req'[r] = Quiet
    PROVE  RequestOK(r)' /\ req'[r].fresh = None /\ req'[r].at # "steamSays"
  BY AccountsAssumption
     DEF RequestOK, Shape, Relies, Replacing, Quiet, SignedIn, WithSid, WithUser, Issued, RoundTrip

LEMMA SteadyRelies ==
    ASSUME TypeOK, NEW q \in Request, Shape(q), Relies(q), Steady(q)
    PROVE  Relies(q)'
<1>1. q.token # None => q.token \in Sessions
  BY DEF Request, Maybe
<1>2. q.user # None => q.user \in UserIds
  BY DEF Request, Maybe
<1>3. q.sid # None => q.sid.subject \in Subjects /\ q.sid.subject # None
  BY AccountsAssumption DEF Request, Maybe, Sids
<1>4. q.token # None => tokens[q.token] # None /\ tokens[q.token].user \in UserIds
  BY <1>1 DEF TypeOK, Relies, Token, Maybe
<1>5. Replacing(q) => q.sid # None
  BY DEF Replacing, Shape
<1>6. q.token # None => tokens'[q.token] # None
  BY <1>4 DEF Steady
<1>7. q.token # None /\ q.doing # "exchange" => q.user = tokens'[q.token].user
  BY <1>4 DEF Steady, Relies
<1>8. q.user # None => q.user \in users'
  BY DEF Steady, Relies
<1>9. q.at \in {"issue"} \cup Issued => q.user # None
  BY DEF Shape, WithUser, Issued
<1>10. q.at \in {"issue"} \cup Issued /\ q.sid # None => identity'[q.user] = q.sid.subject
  BY <1>2, <1>3, <1>9 DEF Steady, Relies
<1>11. q.fresh # None =>
           /\ tokens'[q.fresh] = None
           /\ q.sid # None => provider'[q.fresh] = q.sid
           /\ q.at # "publish" => sessions'[q.fresh] = q.user
  BY DEF Steady, Relies
<1>12. q.at \in {"dropped", "dropProvider"} => sessions'[q.token] = None
  <2>1. q.at \in {"dropped", "dropProvider"} => q.token # None
    BY DEF Shape, SignedIn
  <2>2. QED
    BY <2>1, <1>4 DEF Steady, Relies
<1>13. ASSUME Replacing(q), sessions'[q.token] # None
       PROVE  Replaceable(tokens[q.token], q.sid)'
  <2>1. q.token # None /\ sessions[q.token] # None /\ q.sid # None
    BY <1>13, <1>4, <1>5 DEF Replacing, Steady
  <2>2. Replaceable(tokens[q.token], q.sid)
    BY <1>13, <2>1 DEF Relies
  <2>3. /\ tokens'[q.token].user = tokens[q.token].user
        /\ tokens'[q.token].viaProvider = tokens[q.token].viaProvider
    BY <2>1, <1>4 DEF Steady
  <2>4. identity[tokens[q.token].user] # None
        => identity'[tokens[q.token].user] = identity[tokens[q.token].user]
    BY <2>1, <1>4 DEF Steady
  <2>5. QED
    BY <2>1, <2>2, <2>3, <2>4, <1>3 DEF Replaceable
<1>14. q.at = "steamSays" => logins'[q.login] = None
  BY DEF Steady, Relies
<1>15. QED
  BY <1>6, <1>7, <1>8, <1>10, <1>11, <1>12, <1>13, <1>14 DEF Relies, Replacing

(* A step of r that the others are steady in.                              *)
LEMMA StepIsFine ==
    ASSUME AccountsInv, NEW r \in Requests, Alone(r),
           \A o \in Requests \ {r} : Steady(req[o]),
           RequestOK(r)',
           \A o \in Requests \ {r} : req'[r].fresh # None => req[o].fresh # req'[r].fresh,
           \A o \in Requests \ {r} : req'[r].at = "steamSays" /\ req[o].at = "steamSays"
                                       => req[o].login # req'[r].login,
           TypeOK', OneOwnerEach', SessionsMatchIdentities', TokensOfUsers', LinkStep
    PROVE  Fine
<1>1. /\ TypeOK /\ FreshApart /\ OneCallbackPerLogin
      /\ \A o \in Requests : req[o] \in Request /\ RequestOK(o)
  BY DEF AccountsInv, TypeOK
<1>2. ASSUME NEW o \in Requests \ {r}
      PROVE  RequestOK(o)'
  <2>1. PICK q \in Request : q = req[o]
    BY <1>1
  <2>2. Shape(q) /\ Relies(q) /\ Steady(q)
    BY <1>1, <2>1 DEF RequestOK
  <2>3. Relies(q)'
    BY <1>1, <2>2, SteadyRelies
  <2>4. req'[o] = q
    BY <2>1 DEF Alone
  <2>5. QED
    BY <2>2, <2>3, <2>4 DEF RequestOK
<1>3. FreshApart'
  BY <1>1 DEF FreshApart, Alone
<1>4. OneCallbackPerLogin'
  BY <1>1 DEF OneCallbackPerLogin, At, Alone
<1>5. QED
  BY <1>2, <1>3, <1>4 DEF Fine, AccountsInv

(* A step of no request.                                                   *)
LEMMA NoStepIsFine ==
    ASSUME AccountsInv, req' = req, \A o \in Requests : Steady(req[o]),
           TypeOK', OneOwnerEach', SessionsMatchIdentities', TokensOfUsers', LinkStep
    PROVE  Fine
<1>1. /\ TypeOK /\ FreshApart /\ OneCallbackPerLogin
      /\ \A o \in Requests : req[o] \in Request /\ RequestOK(o)
  BY DEF AccountsInv, TypeOK
<1>2. ASSUME NEW o \in Requests
      PROVE  RequestOK(o)'
  <2>1. PICK q \in Request : q = req[o]
    BY <1>1
  <2>2. Shape(q) /\ Relies(q) /\ Steady(q)
    BY <1>1, <2>1 DEF RequestOK
  <2>3. Relies(q)'
    BY <1>1, <2>2, SteadyRelies
  <2>4. req'[o] = q
    BY <2>1
  <2>5. QED
    BY <2>2, <2>3, <2>4 DEF RequestOK
<1>3. OneCallbackPerLogin'
  BY <1>1 DEF OneCallbackPerLogin, At
<1>4. QED
  BY <1>1, <1>2, <1>3 DEF Fine, AccountsInv, FreshApart

LEMMA SameLinks ==
    ASSUME identity' = identity, steam' = steam
    PROVE  LinkStep
  BY DEF LinkStep

LEMMA SameWorldIsSteady ==
    ASSUME UNCHANGED world, NEW q
    PROVE  Steady(q)
  BY DEF Steady, world

(* A step of r that only moves r, and at most touches an intent, what is   *)
(* remembered of the provider, or the provider itself.                     *)
LEMMA MoveIsFine ==
    ASSUME AccountsInv, NEW r \in Requests, Alone(r), UNCHANGED world,
           intent' \in [Sessions -> Maybe(UserIds)], remembered' \subseteq Sids,
           clerk' \in [Sids -> {"none", "active", "ended", "signedOut"}],
           RequestOK(r)', req'[r].fresh \in {None, req[r].fresh}, req'[r].at # "steamSays"
    PROVE  Fine
<1>1. \A o \in Requests \ {r} : Steady(req[o])
  BY SameWorldIsSteady
<1>2. \A o \in Requests \ {r} : req'[r].fresh # None => req[o].fresh # req'[r].fresh
  BY DEF AccountsInv, FreshApart
<1>3. TypeOK'
  BY DEF AccountsInv, TypeOK, Alone, world
<1>4. OneOwnerEach'
  BY DEF AccountsInv, OneOwnerEach, world
<1>5. SessionsMatchIdentities'
  BY DEF AccountsInv, SessionsMatchIdentities, world
<1>6. TokensOfUsers'
  BY DEF AccountsInv, TokensOfUsers, world
<1>7. LinkStep
  BY SameLinks DEF world
<1>8. QED
  BY <1>1, <1>2, <1>3, <1>4, <1>5, <1>6, <1>7, StepIsFine

(* The same with everything but r left alone.                              *)
LEMMA OnlyMoveIsFine ==
    ASSUME AccountsInv, NEW r \in Requests, Alone(r),
           UNCHANGED <<accounts, keys, tokens, clerk>>,
           RequestOK(r)', req'[r].fresh \in {None, req[r].fresh}, req'[r].at # "steamSays"
    PROVE  Fine
<1>1. UNCHANGED world /\ intent' = intent /\ remembered' = remembered /\ clerk' = clerk
  BY DEF world, accounts, keys
<1>2. /\ intent' \in [Sessions -> Maybe(UserIds)]
      /\ remembered' \subseteq Sids
      /\ clerk' \in [Sids -> {"none", "active", "ended", "signedOut"}]
  BY <1>1 DEF AccountsInv, TypeOK
<1>3. QED
  BY <1>1, <1>2, MoveIsFine

LEMMA AnswerIsFine ==
    ASSUME AccountsInv, NEW r \in Requests, Answer(r),
           UNCHANGED <<accounts, keys, tokens, clerk>>
    PROVE  Fine
<1>1. Alone(r) /\ req'[r] = Quiet
  BY Answering DEF AccountsInv
<1>2. RequestOK(r)' /\ req'[r].fresh = None /\ req'[r].at # "steamSays"
  BY <1>1, QuietIsOK
<1>3. QED
  BY <1>1, <1>2, OnlyMoveIsFine
-----------------------------------------------------------------------------
(* The check in front of every signed-in route *)

LEMMA InvOf ==
    ASSUME AccountsInv, NEW r \in Requests
    PROVE  /\ TypeOK /\ OneOwnerEach /\ SessionsMatchIdentities /\ TokensOfUsers
           /\ req[r] \in Request /\ Shape(req[r]) /\ Relies(req[r])
  BY DEF AccountsInv, TypeOK, RequestOK

(* A move to another place where the same holds, and less is asked.        *)
LEMMA GoIsFine ==
    ASSUME AccountsInv, NEW r \in Requests, NEW place \in Places, Goto(r, place),
           UNCHANGED <<accounts, keys, tokens, clerk>>, place # "steamSays",
           RequestOK(r)'
    PROVE  Fine
<1>1. Moved(r, place)
  BY Going, InvOf
<1>2. QED
  BY <1>1, OnlyMoveIsFine DEF Moved

LEMMA ArriveIsFine ==
    ASSUME AccountsInv, NEW r \in Requests, NEW t \in Sessions, NEW route \in SignedInRoutes,
           Arrive(r, t, route)
    PROVE  Fine
<1> DEFINE doing == IF route = "logout" THEN route ELSE None
           q == [Quiet EXCEPT !.at = "identity", !.token = t, !.user = tokens[t].user,
                              !.doing = doing]
<1>1. TypeOK /\ TokensOfUsers
  BY InvOf
<1>2. t # None /\ tokens[t] # None /\ tokens[t].user \in users /\ tokens[t].user # None
      /\ tokens[t].user \in UserIds
  BY <1>1, AccountsAssumption DEF Arrive, TokensOfUsers, TypeOK
<1>3. doing \in Maybe(AllRoutes) /\ doing \notin {"exchange", "steamBack", "connectBack"}
  BY AccountsAssumption DEF Maybe, AllRoutes, SignedInRoutes
<1>. Become(r, q)
  BY DEF Arrive
<1> HIDE DEF doing
<1>4. /\ q.at = "identity" /\ q.doing = doing /\ q.token = t /\ q.user = tokens[t].user
      /\ q.sid = None /\ q.fresh = None
  BY DEF Quiet
<1>5. q \in Request
  BY <1>2, <1>3, QuietIsARequest DEF Request, Places, Maybe
<1>6. Alone(r) /\ req'[r] = q
  BY <1>1, <1>5, Becoming
<1>7. UNCHANGED world /\ UNCHANGED <<accounts, keys, tokens, clerk>>
  BY DEF Arrive, world, accounts, keys
<1>8. Shape(q)
  BY <1>2, <1>3, <1>4
     DEF Shape, SignedIn, WithSid, WithUser, Issued, RoundTrip
<1>9. Relies(q)
  BY <1>2, <1>3, <1>4 DEF Relies, Issued, Replacing
<1> HIDE DEF q
<1>10. RequestOK(r)'
  BY <1>6, <1>7, <1>8, <1>9 DEF RequestOK, Relies, Replaceable, world
<1>11. q.fresh = None /\ q.at # "steamSays"
  BY <1>4
<1>12. QED
  BY <1>6, <1>7, <1>10, <1>11, OnlyMoveIsFine

LEMMA CheckIdentityIsFine ==
    ASSUME AccountsInv, NEW r \in Requests, CheckIdentity(r)
    PROVE  Fine
<1>1. /\ TypeOK /\ req[r] \in Request /\ Shape(req[r]) /\ Relies(req[r])
      /\ req[r].at = "identity" /\ UNCHANGED <<accounts, keys, tokens, clerk>> /\ UNCHANGED world
  BY InvOf DEF CheckIdentity, At, world, accounts, keys
<1>2. CASE Answer(r)
  BY <1>1, <1>2, AnswerIsFine
<1>3. CASE Goto(r, "serve")
  <2>1. "serve" \in Places
    BY DEF Places
  <2>2. Moved(r, "serve")
    BY <1>1, <1>3, <2>1, Going
  <2>3. RequestOK(r)'
    BY <1>1, <2>2 DEF Moved, RequestOK, Shape, Relies, Replacing, world,
                      SignedIn, WithSid, WithUser, Issued, RoundTrip
  <2>4. QED
    BY <1>1, <1>3, <2>1, <2>3, GoIsFine
<1> DEFINE q == [req[r] EXCEPT !.at = "provider", !.identity = identity[req[r].user]]
<1>4. CASE Become(r, q)
  <2>1. q \in Request
    BY <1>1 DEF Request, Places, Maybe, TypeOK, Shape, SignedIn
  <2>2. Alone(r) /\ req'[r] = q
    BY <1>1, <1>4, <2>1, Becoming
  <2>3. /\ q.at = "provider" /\ q.fresh = req[r].fresh /\ q.token = req[r].token
        /\ q.user = req[r].user /\ q.doing = req[r].doing /\ q.sid = req[r].sid
        /\ q.stored = req[r].stored /\ q.login = req[r].login /\ q.steam = req[r].steam
    BY <1>1 DEF Request
  <2> HIDE DEF q
  <2>4. RequestOK(r)'
    BY <1>1, <2>2, <2>3 DEF RequestOK, Shape, Relies, Replacing, world,
                      SignedIn, WithSid, WithUser, Issued, RoundTrip
  <2>5. QED
    BY <1>1, <2>2, <2>3, <2>4, OnlyMoveIsFine
<1>5. QED
  BY <1>2, <1>3, <1>4 DEF CheckIdentity
(* A request that goes on to one place, or is over, in the same world.     *)
LEMMA GoOrAnswerIsFine ==
    ASSUME AccountsInv, NEW r \in Requests, NEW place \in Places,
           Goto(r, place) \/ Answer(r), place # "steamSays",
           UNCHANGED <<accounts, keys, tokens, clerk>>,
           Moved(r, place) => RequestOK(r)'
    PROVE  Fine
<1>1. CASE Answer(r)
  BY <1>1, AnswerIsFine
<1>2. CASE Goto(r, place)
  <2>1. Moved(r, place)
    BY <1>2, Going, InvOf
  <2>2. QED
    BY <1>2, <2>1, GoIsFine
<1>3. QED
  BY <1>1, <1>2

LEMMA SameWorld ==
    ASSUME UNCHANGED <<accounts, keys, tokens, clerk>>
    PROVE  UNCHANGED world
  BY DEF accounts, keys, world

LEMMA ReadProviderIsFine ==
    ASSUME AccountsInv, NEW r \in Requests, ReadProvider(r)
    PROVE  Fine
<1>1. /\ TypeOK /\ req[r] \in Request /\ Shape(req[r]) /\ Relies(req[r]) /\ req[r].at = "provider"
      /\ UNCHANGED <<accounts, keys, tokens, clerk>> /\ UNCHANGED world
  BY InvOf, SameWorld DEF ReadProvider, At
<1>2. CASE Answer(r)
  BY <1>1, <1>2, AnswerIsFine
<1> DEFINE c == provider[req[r].token]
           place == IF req[r].doing = "logout" THEN "serve" ELSE "recall"
           q == [req[r] EXCEPT !.sid = c, !.identity = None, !.at = place]
<1>3. CASE c # None /\ Become(r, q)
  <2>1. c \in Sids
    BY <1>1, <1>3 DEF TypeOK, Shape, SignedIn, Request, Maybe
  <2>2. place \in {"serve", "recall"} /\ place \in Places
    BY DEF Places
  <2> HIDE DEF c, place
  <2>3. q \in Request
    BY <1>1, <2>1, <2>2 DEF Request, Maybe
  <2>4. Alone(r) /\ req'[r] = q
    BY <1>1, <1>3, <2>3, Becoming
  <2>5. /\ q.at = place /\ q.fresh = req[r].fresh /\ q.token = req[r].token
        /\ q.user = req[r].user /\ q.doing = req[r].doing /\ q.sid # None
        /\ q.stored = req[r].stored /\ q.login = req[r].login /\ q.steam = req[r].steam
    BY <1>1, <1>3 DEF Request
  <2> HIDE DEF q
  <2>6. RequestOK(r)'
    BY <1>1, <2>2, <2>4, <2>5
       DEF RequestOK, Shape, Relies, Replacing, world,
           SignedIn, WithSid, WithUser, Issued, RoundTrip
  <2>7. QED
    BY <1>1, <2>2, <2>4, <2>5, <2>6, OnlyMoveIsFine
<1>4. QED
  BY <1>2, <1>3 DEF ReadProvider

LEMMA RecallIsFine ==
    ASSUME AccountsInv, NEW r \in Requests, Recall(r)
    PROVE  Fine
<1>1. /\ req[r] \in Request /\ Shape(req[r]) /\ Relies(req[r]) /\ req[r].at = "recall"
      /\ UNCHANGED <<accounts, keys, tokens, clerk>> /\ UNCHANGED world
  BY InvOf, SameWorld DEF Recall, At
<1>2. PICK place \in {"serve", "ask"} : Goto(r, place)
  BY DEF Recall
<1>3. place \in Places
  BY DEF Places
<1>4. Moved(r, place) => RequestOK(r)'
  BY <1>1, <1>2 DEF Moved, RequestOK, Shape, Relies, Replacing, world,
                 SignedIn, WithSid, WithUser, Issued, RoundTrip
<1>5. QED
  BY <1>1, <1>2, <1>3, <1>4, GoOrAnswerIsFine

LEMMA AskProviderIsFine ==
    ASSUME AccountsInv, NEW r \in Requests, AskProvider(r)
    PROVE  Fine
<1>1. /\ req[r] \in Request /\ Shape(req[r]) /\ Relies(req[r]) /\ req[r].at = "ask"
      /\ UNCHANGED <<accounts, keys, tokens, clerk>> /\ UNCHANGED world
  BY InvOf, SameWorld DEF AskProvider, At
<1>2. /\ "remember" \in Places
      /\ Goto(r, "remember") \/ Answer(r)
  BY <1>1 DEF AskProvider, Places
<1>3. Moved(r, "remember") => RequestOK(r)'
  BY <1>1, <1>2 DEF Moved, RequestOK, Shape, Relies, Replacing, world,
                 SignedIn, WithSid, WithUser, Issued, RoundTrip
<1>4. QED
  BY <1>1, <1>2, <1>3, GoOrAnswerIsFine

LEMMA RememberIsFine ==
    ASSUME AccountsInv, NEW r \in Requests, Remember(r)
    PROVE  Fine
<1>1. /\ TypeOK /\ req[r] \in Request /\ Shape(req[r]) /\ Relies(req[r]) /\ req[r].at = "remember"
      /\ UNCHANGED world /\ intent' = intent /\ clerk' = clerk
  BY InvOf DEF Remember, At, world, accounts
<1>2. Moved(r, "serve")
  BY <1>1, Going DEF Remember, Places
<1>3. req[r].sid \in Sids
  BY <1>1 DEF Shape, WithSid, Request, Maybe
<1>4. RequestOK(r)'
  BY <1>1, <1>2 DEF Moved, RequestOK, Shape, Relies, Replacing, world,
                 SignedIn, WithSid, WithUser, Issued, RoundTrip
<1>5. remembered' \subseteq Sids
  BY <1>1, <1>3 DEF Remember, TypeOK
<1>6. QED
  BY <1>1, <1>2, <1>4, <1>5, MoveIsFine DEF Moved, TypeOK

LEMMA ReadIsFine ==
    ASSUME AccountsInv, NEW r \in Requests, Read(r)
    PROVE  Fine
  BY AnswerIsFine DEF Read

LEMMA RefuseConvertedIsFine ==
    ASSUME AccountsInv, NEW r \in Requests, RefuseConverted(r)
    PROVE  Fine
<1>1. /\ req[r] \in Request /\ Shape(req[r]) /\ Relies(req[r]) /\ req[r].at = "converted"
      /\ UNCHANGED <<accounts, keys, tokens, clerk>> /\ UNCHANGED world
  BY InvOf, SameWorld DEF RefuseConverted, At
<1>2. /\ "issue" \in Places
      /\ Goto(r, "issue") \/ Answer(r)
      /\ req[r].doing = "steamBack"
  BY <1>1 DEF RefuseConverted, Places, Shape
<1>3. Moved(r, "issue") => RequestOK(r)'
  BY <1>1, <1>2 DEF Moved, RequestOK, Shape, Relies, Replacing, world,
                 SignedIn, WithSid, WithUser, Issued, RoundTrip
<1>4. QED
  BY <1>1, <1>2, <1>3, GoOrAnswerIsFine

LEMMA CheckConnectIsFine ==
    ASSUME AccountsInv, NEW r \in Requests, CheckConnect(r)
    PROVE  Fine
<1>1. /\ req[r] \in Request /\ Shape(req[r]) /\ Relies(req[r]) /\ req[r].at = "owner"
      /\ UNCHANGED <<accounts, keys, tokens, clerk>> /\ UNCHANGED world
  BY InvOf, SameWorld DEF CheckConnect, At
<1>2. /\ "attach" \in Places
      /\ Goto(r, "attach") \/ Answer(r)
      /\ req[r].doing = "connectBack"
  BY <1>1 DEF CheckConnect, Places
<1>3. Moved(r, "attach") => RequestOK(r)'
  BY <1>1, <1>2 DEF Moved, RequestOK, Shape, Relies, Replacing, world,
                 SignedIn, WithSid, WithUser, Issued, RoundTrip
<1>4. QED
  BY <1>1, <1>2, <1>3, GoOrAnswerIsFine

LEMMA CheckUnconnectedIsFine ==
    ASSUME AccountsInv, NEW r \in Requests, CheckUnconnected(r)
    PROVE  Fine
<1>1. /\ req[r] \in Request /\ Shape(req[r]) /\ Relies(req[r]) /\ req[r].at = "serve"
      /\ UNCHANGED <<accounts, keys, tokens, clerk>> /\ UNCHANGED world
  BY InvOf, SameWorld DEF CheckUnconnected, Serving, At
<1>2. CASE Answer(r)
  BY <1>1, <1>2, AnswerIsFine
<1>3. CASE Goto(r, "factors") /\ req[r].sid # None
  <2>1. "factors" \in Places
    BY DEF Places
  <2>2. Moved(r, "factors")
    BY <1>3, <2>1, Going, InvOf
  <2>3. RequestOK(r)'
    BY <1>1, <1>3, <2>2 DEF Moved, RequestOK, Shape, Relies, Replacing, world,
                     SignedIn, WithSid, WithUser, Issued, RoundTrip
  <2>4. QED
    BY <1>1, <1>3, <2>1, <2>3, GoIsFine
<1>4. QED
  BY <1>2, <1>3 DEF CheckUnconnected

LEMMA CheckLinkIsFine ==
    ASSUME AccountsInv, NEW r \in Requests, CheckLink(r)
    PROVE  Fine
<1>1. /\ req[r] \in Request /\ Shape(req[r]) /\ Relies(req[r]) /\ req[r].at = "serve"
      /\ UNCHANGED <<accounts, keys, tokens, clerk>> /\ UNCHANGED world
  BY InvOf, SameWorld DEF CheckLink, Serving, At
<1>2. /\ "intend" \in Places
      /\ Goto(r, "intend") \/ Answer(r)
  BY <1>1 DEF CheckLink, Places
<1>3. Moved(r, "intend") => RequestOK(r)'
  BY <1>1, <1>2 DEF Moved, RequestOK, Shape, Relies, Replacing, world,
                 SignedIn, WithSid, WithUser, Issued, RoundTrip
<1>4. QED
  BY <1>1, <1>2, <1>3, GoOrAnswerIsFine

LEMMA VerifyLinkIsFine ==
    ASSUME AccountsInv, NEW r \in Requests, VerifyLink(r)
    PROVE  Fine
<1>1. /\ req[r] \in Request /\ Shape(req[r]) /\ Relies(req[r]) /\ req[r].at = "verify"
      /\ UNCHANGED <<accounts, keys, tokens, clerk>> /\ UNCHANGED world
  BY InvOf, SameWorld DEF VerifyLink, At
<1>2. /\ "recheck" \in Places
      /\ Goto(r, "recheck") \/ Answer(r)
  BY <1>1 DEF VerifyLink, Places
<1>3. Moved(r, "recheck") => RequestOK(r)'
  BY <1>1, <1>2 DEF Moved, RequestOK, Shape, Relies, Replacing, world,
                 SignedIn, WithSid, WithUser, Issued, RoundTrip
<1>4. QED
  BY <1>1, <1>2, <1>3, GoOrAnswerIsFine

LEMMA RecheckIsFine ==
    ASSUME AccountsInv, NEW r \in Requests, Recheck(r)
    PROVE  Fine
<1>1. /\ req[r] \in Request /\ Shape(req[r]) /\ Relies(req[r]) /\ req[r].at = "recheck"
      /\ UNCHANGED <<accounts, keys, tokens, clerk>> /\ UNCHANGED world
  BY InvOf, SameWorld DEF Recheck, At
<1>2. /\ "claim" \in Places
      /\ Goto(r, "claim") \/ Answer(r)
  BY <1>1 DEF Recheck, Places
<1>3. Moved(r, "claim") => RequestOK(r)'
  BY <1>1, <1>2 DEF Moved, RequestOK, Shape, Relies, Replacing, world,
                 SignedIn, WithSid, WithUser, Issued, RoundTrip
<1>4. QED
  BY <1>1, <1>2, <1>3, GoOrAnswerIsFine

LEMMA CheckOldIsFine ==
    ASSUME AccountsInv, NEW r \in Requests, CheckOld(r)
    PROVE  Fine
<1>1. /\ req[r] \in Request /\ Shape(req[r]) /\ Relies(req[r]) /\ req[r].at = "old"
      /\ UNCHANGED <<accounts, keys, tokens, clerk>> /\ UNCHANGED world
  BY InvOf, SameWorld DEF CheckOld, At
<1>2. CASE Answer(r)
  BY <1>1, <1>2, AnswerIsFine
<1>3. CASE Goto(r, "lookup") /\ (sessions[req[r].token] = None \/ Replaceable(tokens[req[r].token], req[r].sid))
  <2>1. "lookup" \in Places
    BY DEF Places
  <2>2. Moved(r, "lookup")
    BY <1>3, <2>1, Going, InvOf
  <2>3. RequestOK(r)'
    BY <1>1, <1>3, <2>2 DEF Moved, RequestOK, Shape, Relies, Replacing, world,
                     SignedIn, WithSid, WithUser, Issued, RoundTrip, Replaceable
  <2>4. QED
    BY <1>1, <1>3, <2>1, <2>3, GoIsFine
<1>4. QED
  BY <1>2, <1>3 DEF CheckOld
LEMMA AbandonIsFine ==
    ASSUME AccountsInv, NEW r \in Requests, Abandon(r)
    PROVE  Fine
  BY AnswerIsFine DEF Abandon

(* A request that is over, having touched an intent or the provider.       *)
LEMMA LeaveIsFine ==
    ASSUME AccountsInv, NEW r \in Requests, Answer(r), UNCHANGED world,
           intent' \in [Sessions -> Maybe(UserIds)], remembered' \subseteq Sids,
           clerk' \in [Sids -> {"none", "active", "ended", "signedOut"}]
    PROVE  Fine
<1>1. Alone(r) /\ req'[r] = Quiet
  BY Answering, InvOf
<1>2. RequestOK(r)' /\ req'[r].fresh = None /\ req'[r].at # "steamSays"
  BY <1>1, QuietIsOK
<1>3. QED
  BY <1>1, <1>2, MoveIsFine

LEMMA ForgetActiveIsFine ==
    ASSUME AccountsInv, NEW r \in Requests, ForgetActive(r)
    PROVE  Fine
<1>1. /\ TypeOK /\ req[r] \in Request /\ Shape(req[r]) /\ Relies(req[r]) /\ req[r].at = "forget"
      /\ UNCHANGED world /\ intent' = intent /\ clerk' = clerk
  BY InvOf DEF ForgetActive, At, world, accounts
<1>2. Moved(r, "revoke")
  BY <1>1, Going DEF ForgetActive, Places
<1>3. RequestOK(r)'
  BY <1>1, <1>2 DEF Moved, RequestOK, Shape, Relies, Replacing, world,
                    SignedIn, WithSid, WithUser, Issued, RoundTrip
<1>4. remembered' \subseteq Sids
  BY <1>1 DEF ForgetActive, TypeOK
<1>5. QED
  BY <1>1, <1>2, <1>3, <1>4, MoveIsFine DEF Moved, TypeOK

LEMMA RevokeIsFine ==
    ASSUME AccountsInv, NEW r \in Requests, Revoke(r)
    PROVE  Fine
<1>1. TypeOK /\ UNCHANGED world /\ intent' = intent /\ remembered' = remembered /\ Answer(r)
  BY InvOf DEF Revoke, world, accounts, keys
<1>2. clerk' \in [Sids -> {"none", "active", "ended", "signedOut"}]
  BY <1>1 DEF Revoke, TypeOK
<1>3. QED
  BY <1>1, <1>2, LeaveIsFine DEF TypeOK

LEMMA StartLinkIsFine ==
    ASSUME AccountsInv, NEW r \in Requests, StartLink(r)
    PROVE  Fine
<1>1. /\ TypeOK /\ req[r] \in Request /\ Answer(r)
      /\ UNCHANGED world /\ clerk' = clerk /\ remembered' = remembered
  BY InvOf DEF StartLink, world, accounts
<1>2. intent' \in [Sessions -> Maybe(UserIds)]
  BY <1>1 DEF StartLink, TypeOK, Request
<1>3. QED
  BY <1>1, <1>2, LeaveIsFine DEF TypeOK

LEMMA CancelLinkIsFine ==
    ASSUME AccountsInv, NEW r \in Requests, CancelLink(r)
    PROVE  Fine
<1>1. TypeOK /\ Answer(r) /\ UNCHANGED world /\ clerk' = clerk /\ remembered' = remembered
  BY InvOf DEF CancelLink, world, accounts
<1>2. intent' \in [Sessions -> Maybe(UserIds)]
  BY <1>1 DEF CancelLink, TypeOK, Maybe
<1>3. QED
  BY <1>1, <1>2, LeaveIsFine DEF TypeOK

LEMMA ClaimIntentIsFine ==
    ASSUME AccountsInv, NEW r \in Requests, ClaimIntent(r)
    PROVE  Fine
<1>1. /\ TypeOK /\ req[r] \in Request /\ Shape(req[r]) /\ Relies(req[r]) /\ req[r].at = "claim"
      /\ UNCHANGED world /\ clerk' = clerk /\ remembered' = remembered
  BY InvOf DEF ClaimIntent, At, world, accounts
<1>2. intent' \in [Sessions -> Maybe(UserIds)]
  BY <1>1 DEF ClaimIntent, TypeOK, Maybe
<1>3. CASE Answer(r)
  BY <1>1, <1>2, <1>3, LeaveIsFine DEF TypeOK
<1>4. CASE Goto(r, "convert")
  <2>1. Moved(r, "convert")
    BY <1>1, <1>4, Going DEF Places
  <2>2. RequestOK(r)'
    BY <1>1, <2>1 DEF Moved, RequestOK, Shape, Relies, Replacing, world,
                      SignedIn, WithSid, WithUser, Issued, RoundTrip
  <2>3. QED
    BY <1>1, <1>2, <2>1, <2>2, MoveIsFine DEF Moved, TypeOK
<1>5. QED
  BY <1>3, <1>4 DEF ClaimIntent

LEMMA CompleteLinkIsFine ==
    ASSUME AccountsInv, NEW r \in Requests, NEW c \in Sids, CompleteLink(r, c)
    PROVE  Fine
<1>1. /\ TypeOK /\ req[r] \in Request /\ Shape(req[r]) /\ Relies(req[r]) /\ req[r].at = "serve"
      /\ UNCHANGED <<accounts, keys, tokens, clerk>> /\ UNCHANGED world
  BY InvOf, SameWorld DEF CompleteLink, Serving, At
<1>2. CASE Answer(r)
  BY <1>1, <1>2, AnswerIsFine
<1> DEFINE q == [req[r] EXCEPT !.at = "verify", !.sid = c]
<1>3. CASE Become(r, q)
  <2>1. q \in Request
    BY <1>1 DEF Request, Places, Maybe
  <2>2. Alone(r) /\ req'[r] = q
    BY <1>1, <1>3, <2>1, Becoming
  <2>3. /\ q.at = "verify" /\ q.fresh = req[r].fresh /\ q.token = req[r].token
        /\ q.user = req[r].user /\ q.doing = req[r].doing /\ q.sid # None
        /\ q.stored = req[r].stored /\ q.login = req[r].login /\ q.steam = req[r].steam
    BY <1>1, AccountsAssumption DEF Request
  <2> HIDE DEF q
  <2>4. RequestOK(r)'
    BY <1>1, <2>2, <2>3 DEF RequestOK, Shape, Relies, Replacing, world,
                      SignedIn, WithSid, WithUser, Issued, RoundTrip
  <2>5. QED
    BY <1>1, <2>2, <2>3, <2>4, OnlyMoveIsFine
<1>4. QED
  BY <1>2, <1>3 DEF CompleteLink

-----------------------------------------------------------------------------
(* The Steam round trip *)

LEMMA SteamBackIsFine ==
    ASSUME AccountsInv, NEW r \in Requests, NEW l \in Logins, NEW k \in Logins, SteamBack(r, l, k)
    PROVE  Fine
<1> DEFINE q == [Quiet EXCEPT !.at = "consume", !.doing = "steamBack",
                              !.login = l, !.stored = logins[l]]
<1>1. /\ TypeOK /\ req[r] \in Request /\ req[r] = Quiet /\ Become(r, q)
      /\ UNCHANGED <<accounts, keys, tokens, clerk>> /\ UNCHANGED world
  BY InvOf, SameWorld DEF SteamBack, At, Shape
<1>2. /\ logins[l] = Expected(r, k) /\ logins[l] \in Binding /\ logins[l] # None
      /\ logins[l].session = None
  BY <1>1, AccountsAssumption DEF SteamBack, Matches, Expected, Binding, Quiet, Maybe, Request
<1>3. q \in Request
  <2>1. "steamBack" \in Maybe(AllRoutes) /\ l \in Maybe(Logins) /\ logins[l] \in Maybe(Binding)
    BY <1>2 DEF AllRoutes, Maybe
  <2>2. "consume" \in Places
    BY DEF Places
  <2>3. QED
    BY <2>1, <2>2, QuietIsARequest DEF Request
<1>4. Alone(r) /\ req'[r] = q
  BY <1>1, <1>3, Becoming
<1>5. /\ q.at = "consume" /\ q.fresh = None /\ q.token = None /\ q.user = None
      /\ q.doing = "steamBack" /\ q.sid = None /\ q.stored = logins[l] /\ q.login # None
  BY AccountsAssumption DEF Quiet
<1> HIDE DEF q
<1>6. RequestOK(r)'
  BY <1>1, <1>2, <1>4, <1>5 DEF RequestOK, Shape, Relies, Replacing, world,
                    SignedIn, WithSid, WithUser, Issued, RoundTrip
<1>7. QED
  BY <1>1, <1>4, <1>5, <1>6, OnlyMoveIsFine

LEMMA ConnectBackIsFine ==
    ASSUME AccountsInv, NEW r \in Requests, NEW l \in Logins, NEW k \in Logins, ConnectBack(r, l, k)
    PROVE  Fine
<1>1. /\ TypeOK /\ req[r] \in Request /\ Shape(req[r]) /\ Relies(req[r]) /\ req[r].at = "serve"
      /\ UNCHANGED <<accounts, keys, tokens, clerk>> /\ UNCHANGED world
  BY InvOf, SameWorld DEF ConnectBack, Serving, At
<1>2. CASE Answer(r)
  BY <1>1, <1>2, AnswerIsFine
<1> DEFINE q == [req[r] EXCEPT !.at = "consume", !.doing = "connectBack",
                               !.login = l, !.stored = logins[l]]
<1>3. CASE Matches(r, l, k) /\ Become(r, q)
  <2>1. /\ logins[l] = Expected(r, k) /\ logins[l] \in Binding /\ logins[l] # None
        /\ logins[l].session = req[r].token /\ logins[l].user = req[r].user
    BY <1>1, <1>3, AccountsAssumption DEF Matches, Expected, Binding, Maybe, Request
  <2>2. q \in Request
    BY <1>1, <2>1 DEF Request, Places, Maybe, AllRoutes, SignedInRoutes
  <2>3. Alone(r) /\ req'[r] = q
    BY <1>1, <1>3, <2>2, Becoming
  <2>4. /\ q.at = "consume" /\ q.fresh = req[r].fresh /\ q.token = req[r].token
        /\ q.user = req[r].user /\ q.doing = "connectBack" /\ q.sid = req[r].sid
        /\ q.stored = logins[l] /\ q.login # None /\ q.steam = req[r].steam
    BY <1>1, AccountsAssumption DEF Request
  <2> HIDE DEF q
  <2>5. RequestOK(r)'
    BY <1>1, <2>1, <2>3, <2>4 DEF RequestOK, Shape, Relies, Replacing, world,
                      SignedIn, WithSid, WithUser, Issued, RoundTrip
  <2>6. QED
    BY <1>1, <2>3, <2>4, <2>5, OnlyMoveIsFine
<1>4. QED
  BY <1>2, <1>3 DEF ConnectBack

LEMMA SteamSaysIsFine ==
    ASSUME AccountsInv, NEW r \in Requests, NEW s \in SteamIds, SteamSays(r, s)
    PROVE  Fine
<1> DEFINE q == [req[r] EXCEPT !.at = "owner", !.steam = s, !.login = None]
<1>1. /\ TypeOK /\ req[r] \in Request /\ Shape(req[r]) /\ Relies(req[r]) /\ req[r].at = "steamSays"
      /\ UNCHANGED <<accounts, keys, tokens, clerk>> /\ UNCHANGED world /\ Become(r, q)
  BY InvOf, SameWorld DEF SteamSays, At
<1>2. q \in Request
  BY <1>1 DEF Request, Places, Maybe
<1>3. Alone(r) /\ req'[r] = q
  BY <1>1, <1>2, Becoming
<1>4. /\ q.at = "owner" /\ q.fresh = req[r].fresh /\ q.token = req[r].token
      /\ q.user = req[r].user /\ q.doing = req[r].doing /\ q.sid = req[r].sid
      /\ q.stored = req[r].stored /\ q.steam # None
  BY <1>1, AccountsAssumption DEF Request
<1> HIDE DEF q
<1>5. RequestOK(r)'
  BY <1>1, <1>3, <1>4 DEF RequestOK, Shape, Relies, Replacing, world,
                    SignedIn, WithSid, WithUser, Issued, RoundTrip
<1>6. QED
  BY <1>1, <1>3, <1>4, <1>5, OnlyMoveIsFine

(* A sign-in that found the owner u of its Steam account.                  *)
LEMMA FoundIsFine ==
    ASSUME AccountsInv, NEW r \in Requests, req[r].at \in {"owner", "summary"},
           req[r].doing = "steamBack", NEW u \in UserIds, steam[u] = req[r].steam,
           Become(r, [req[r] EXCEPT !.at = "converted", !.user = u]),
           UNCHANGED <<accounts, keys, tokens, clerk>>
    PROVE  Fine
<1> DEFINE q == [req[r] EXCEPT !.at = "converted", !.user = u]
<1>1. /\ TypeOK /\ req[r] \in Request /\ Shape(req[r]) /\ Relies(req[r]) /\ UNCHANGED world
      /\ u \in users /\ u # None
  BY InvOf, SameWorld, AccountsAssumption DEF OneOwnerEach, Shape
<1>2. q \in Request
  BY <1>1 DEF Request, Places, Maybe
<1>3. Alone(r) /\ req'[r] = q
  BY <1>1, <1>2, Becoming
<1>4. /\ q.at = "converted" /\ q.fresh = req[r].fresh /\ q.token = req[r].token
      /\ q.user = u /\ q.doing = req[r].doing /\ q.sid = req[r].sid
      /\ q.stored = req[r].stored /\ q.steam = req[r].steam /\ q.login = req[r].login
  BY <1>1 DEF Request
<1> HIDE DEF q
<1>5. RequestOK(r)'
  BY <1>1, <1>3, <1>4 DEF RequestOK, Shape, Relies, Replacing, world,
                    SignedIn, WithSid, WithUser, Issued, RoundTrip
<1>6. QED
  BY <1>1, <1>3, <1>4, <1>5, OnlyMoveIsFine

LEMMA FindOwnerIsFine ==
    ASSUME AccountsInv, NEW r \in Requests, FindOwner(r)
    PROVE  Fine
<1>1. /\ TypeOK /\ req[r] \in Request /\ Shape(req[r]) /\ Relies(req[r]) /\ req[r].at = "owner"
      /\ UNCHANGED <<accounts, keys, tokens, clerk>> /\ UNCHANGED world
      /\ req[r].doing = "steamBack"
  BY InvOf, SameWorld DEF FindOwner, At
<1>2. CASE Goto(r, "summary")
  <2>1. "summary" \in Places
    BY DEF Places
  <2>2. Moved(r, "summary")
    BY <1>2, <2>1, Going, InvOf
  <2>3. RequestOK(r)'
    BY <1>1, <2>2 DEF Moved, RequestOK, Shape, Relies, Replacing, world,
                      SignedIn, WithSid, WithUser, Issued, RoundTrip
  <2>4. QED
    BY <1>1, <1>2, <2>1, <2>3, GoIsFine
<1>3. CASE \E u \in UserIds :
               /\ steam[u] = req[r].steam
               /\ Become(r, [req[r] EXCEPT !.at = "converted", !.user = u])
  BY <1>1, <1>3, FoundIsFine
<1>4. QED
  BY <1>2, <1>3 DEF FindOwner
-----------------------------------------------------------------------------
(* Sign-in through the provider *)

LEMMA ExchangeIsFine ==
    ASSUME AccountsInv, NEW r \in Requests, NEW t \in Maybe(Sessions), NEW c \in Sids,
           Exchange(r, t, c)
    PROVE  Fine
<1> DEFINE place == IF t = None THEN "lookup" ELSE "old"
           q == [Quiet EXCEPT !.at = place, !.doing = "exchange", !.token = t, !.sid = c]
<1>1. /\ TypeOK /\ Become(r, q)
      /\ t # None => tokens[t] # None
      /\ UNCHANGED <<accounts, keys, tokens, clerk>> /\ UNCHANGED world
  BY InvOf, SameWorld DEF Exchange
<1>2. /\ place \in Places /\ place \in {"lookup", "old"}
      /\ place = "old" <=> t # None
  BY DEF Places
<1> HIDE DEF place
<1>3. "exchange" \in Maybe(AllRoutes) /\ c \in Maybe(Sids) /\ c # None
  BY AccountsAssumption DEF Maybe, AllRoutes
<1>4. q \in Request
  BY <1>2, <1>3, QuietIsARequest DEF Request
<1>5. Alone(r) /\ req'[r] = q
  BY <1>1, <1>4, Becoming
<1>6. /\ q.at = place /\ q.fresh = None /\ q.token = t /\ q.user = None
      /\ q.doing = "exchange" /\ q.sid = c
  BY DEF Quiet
<1> HIDE DEF q
<1>7. RequestOK(r)'
  BY <1>1, <1>2, <1>3, <1>5, <1>6
     DEF RequestOK, Shape, Relies, Replacing, world,
         SignedIn, WithSid, WithUser, Issued, RoundTrip
<1>8. QED
  BY <1>1, <1>2, <1>5, <1>6, <1>7, OnlyMoveIsFine

(* A sign-in that found the user u of its subject.                         *)
LEMMA KnownIsFine ==
    ASSUME AccountsInv, NEW r \in Requests, req[r].at \in {"lookup", "join"},
           NEW u \in UserIds, identity[u] = req[r].sid.subject,
           Become(r, [req[r] EXCEPT !.at = "issue", !.user = u]),
           UNCHANGED <<accounts, keys, tokens, clerk>>
    PROVE  Fine
<1> DEFINE q == [req[r] EXCEPT !.at = "issue", !.user = u]
<1>1. /\ TypeOK /\ req[r] \in Request /\ Shape(req[r]) /\ Relies(req[r]) /\ UNCHANGED world
  BY InvOf, SameWorld
<1>2. req[r].sid \in Sids
  BY <1>1 DEF Shape, WithSid, Request, Maybe
<1>3. u \in users /\ u # None
  BY <1>2, InvOf, AccountsAssumption DEF OneOwnerEach, Sids
<1>4. q \in Request
  BY <1>1 DEF Request, Places, Maybe
<1>5. Alone(r) /\ req'[r] = q
  BY <1>1, <1>4, Becoming
<1>6. /\ q.at = "issue" /\ q.fresh = req[r].fresh /\ q.token = req[r].token
      /\ q.user = u /\ q.doing = req[r].doing /\ q.sid = req[r].sid
  BY <1>1 DEF Request
<1> HIDE DEF q
<1>7. Shape(q)
  BY <1>1, <1>3, <1>6
     DEF Shape, SignedIn, WithSid, WithUser, Issued, RoundTrip
<1>8. Relies(q)
  BY <1>1, <1>3, <1>6
     DEF Shape, Relies, Replacing, Issued
<1>9. RequestOK(r)'
  BY <1>1, <1>5, <1>7, <1>8 DEF RequestOK, Relies, Replacing, Replaceable, world
<1>10. QED
  BY <1>1, <1>5, <1>6, <1>9, OnlyMoveIsFine

LEMMA LookupIsFine ==
    ASSUME AccountsInv, NEW r \in Requests, Lookup(r)
    PROVE  Fine
<1>1. /\ TypeOK /\ req[r] \in Request /\ Shape(req[r]) /\ Relies(req[r]) /\ req[r].at = "lookup"
      /\ UNCHANGED <<accounts, keys, tokens, clerk>> /\ UNCHANGED world
  BY InvOf, SameWorld DEF Lookup, At
<1>2. CASE Goto(r, "join")
  <2>1. "join" \in Places
    BY DEF Places
  <2>2. Moved(r, "join")
    BY <1>2, <2>1, Going, InvOf
  <2>3. RequestOK(r)'
    BY <1>1, <2>2 DEF Moved, RequestOK, Shape, Relies, Replacing, Replaceable, world,
                      SignedIn, WithSid, WithUser, Issued, RoundTrip
  <2>4. QED
    BY <1>1, <1>2, <2>1, <2>3, GoIsFine
<1>3. CASE \E u \in UserIds :
               /\ identity[u] = req[r].sid.subject
               /\ Become(r, [req[r] EXCEPT !.at = "issue", !.user = u])
  BY <1>1, <1>3, KnownIsFine
<1>4. QED
  BY <1>2, <1>3 DEF Lookup

-----------------------------------------------------------------------------
(* Steps that write what other requests read *)

LEMMA OwnStepIsFine ==
    ASSUME AccountsInv, NEW r \in Requests, Alone(r),
           \A o \in Requests \ {r} : Steady(req[o]),
           RequestOK(r)', req'[r].fresh \in {None, req[r].fresh}, req'[r].at # "steamSays",
           TypeOK', OneOwnerEach', SessionsMatchIdentities', TokensOfUsers', LinkStep
    PROVE  Fine
<1>1. \A o \in Requests \ {r} : req'[r].fresh # None => req[o].fresh # req'[r].fresh
  BY DEF AccountsInv, FreshApart
<1>2. QED
  BY <1>1, StepIsFine

(* Only the logins change, and none that was consumed comes back while it  *)
(* is being used.                                                          *)
LEMMA LoginsAreSteady ==
    ASSUME UNCHANGED <<users, identity, sessions, provider, tokens>>,
           NEW q, q.at = "steamSays" /\ logins[q.login] = None => logins'[q.login] = None
    PROVE  Steady(q)
  BY DEF Steady

LEMMA SameRows ==
    ASSUME AccountsInv, UNCHANGED <<users, identity, steam, sessions, provider, tokens>>
    PROVE  /\ OneOwnerEach' /\ SessionsMatchIdentities' /\ TokensOfUsers' /\ LinkStep
<1>1. OneOwnerEach'
  BY DEF AccountsInv, OneOwnerEach
<1>2. SessionsMatchIdentities'
  BY DEF AccountsInv, SessionsMatchIdentities
<1>3. TokensOfUsers'
  BY DEF AccountsInv, TokensOfUsers
<1>4. LinkStep
  BY SameLinks
<1>5. QED
  BY <1>1, <1>2, <1>3, <1>4

LEMMA ConsumeIsFine ==
    ASSUME AccountsInv, NEW r \in Requests, Consume(r)
    PROVE  Fine
<1>1. /\ TypeOK /\ req[r] \in Request /\ Shape(req[r]) /\ Relies(req[r]) /\ req[r].at = "consume"
      /\ UNCHANGED <<users, identity, steam, sessions, provider, tokens>>
      /\ UNCHANGED <<intent, remembered, clerk>>
      /\ logins' = [logins EXCEPT ![req[r].login] = None]
  BY InvOf DEF Consume, At, accounts
<1>2. req[r].login \in Logins /\ logins' \in [Logins -> Maybe(Binding)]
      /\ logins'[req[r].login] = None
  BY <1>1 DEF TypeOK, Shape, Request, Maybe
<1>3. \A o \in Requests : req[o].at = "steamSays" => req[o].login \in Logins
  BY InvOf DEF Shape, Request, Maybe
<1>4. \A o \in Requests \ {r} : Steady(req[o])
  <2>1. \A o \in Requests : req[o].at = "steamSays" /\ logins[req[o].login] = None
                               => logins'[req[o].login] = None
    BY <1>1, <1>3 DEF TypeOK
  <2>2. QED
    BY <1>1, <2>1, LoginsAreSteady
<1>5. OneOwnerEach' /\ SessionsMatchIdentities' /\ TokensOfUsers' /\ LinkStep
  BY <1>1, SameRows
<1>6. CASE Answer(r)
  <2>1. Alone(r) /\ req'[r] = Quiet
    BY <1>1, <1>6, Answering
  <2>2. RequestOK(r)' /\ req'[r].fresh = None /\ req'[r].at # "steamSays"
    BY <2>1, QuietIsOK
  <2>3. TypeOK'
    BY <1>1, <1>2, <2>1 DEF TypeOK, Alone
  <2>4. QED
    BY <1>4, <1>5, <2>1, <2>2, <2>3, OwnStepIsFine
<1>7. CASE Goto(r, "steamSays") /\ logins[req[r].login] = req[r].stored
  <2>1. Moved(r, "steamSays")
    BY <1>1, <1>7, Going DEF Places
  <2>2. RequestOK(r)'
    BY <1>1, <1>2, <2>1 DEF Moved, RequestOK, Shape, Relies, Replacing,
                      SignedIn, WithSid, WithUser, Issued, RoundTrip
  <2>3. TypeOK'
    BY <1>1, <1>2, <2>1 DEF TypeOK, Alone, Moved
  <2>4. req[r].stored # None /\ logins[req[r].login] = req[r].stored
    BY <1>1, <1>7 DEF Shape, RoundTrip
  <2>5. \A o \in Requests \ {r} : req[o].at = "steamSays" => logins[req[o].login] = None
    BY InvOf DEF Relies
  <2>6. \A o \in Requests \ {r} : req[o].at = "steamSays" => req[o].login # req'[r].login
    BY <2>1, <2>4, <2>5 DEF Moved
  <2>7. \A o \in Requests \ {r} : req'[r].fresh # None => req[o].fresh # req'[r].fresh
    BY <2>1 DEF Moved, AccountsInv, FreshApart
  <2>8. QED
    BY <1>4, <1>5, <2>1, <2>2, <2>3, <2>6, <2>7, StepIsFine DEF Moved
<1>8. QED
  BY <1>6, <1>7 DEF Consume

LEMMA BeginLoginIsFine ==
    ASSUME AccountsInv, NEW l \in Logins, BeginLogin(l)
    PROVE  Fine
<1>1. /\ TypeOK /\ req' = req
      /\ UNCHANGED <<users, identity, steam, sessions, provider, tokens>>
      /\ UNCHANGED <<intent, remembered, clerk>>
      /\ \A o \in Requests : req[o].login # l
      /\ logins' = [logins EXCEPT ![l] = [secret |-> l, session |-> None, user |-> None]]
  BY DEF AccountsInv, BeginLogin, NewLogin, accounts
<1>2. logins' \in [Logins -> Maybe(Binding)]
  BY <1>1 DEF TypeOK, Binding, Maybe
<1>3. \A o \in Requests : req[o].at = "steamSays" => req[o].login \in Logins
  BY InvOf DEF Shape, Request, Maybe
<1>4. \A o \in Requests : req[o].at = "steamSays" /\ logins[req[o].login] = None
                             => logins'[req[o].login] = None
  BY <1>1, <1>3 DEF TypeOK
<1>5. \A o \in Requests : Steady(req[o])
  BY <1>1, <1>4, LoginsAreSteady
<1>6. TypeOK'
  BY <1>1, <1>2 DEF TypeOK
<1>7. QED
  BY <1>1, <1>5, <1>6, SameRows, NoStepIsFine

LEMMA LapseLoginIsFine ==
    ASSUME AccountsInv, NEW l \in Logins, LapseLogin(l)
    PROVE  Fine
<1>1. /\ TypeOK /\ req' = req
      /\ UNCHANGED <<users, identity, steam, sessions, provider, tokens>>
      /\ UNCHANGED <<intent, remembered, clerk>>
      /\ logins' = [logins EXCEPT ![l] = None]
  BY DEF AccountsInv, LapseLogin, accounts
<1>2. logins' \in [Logins -> Maybe(Binding)]
  BY <1>1 DEF TypeOK, Maybe
<1>3. \A o \in Requests : req[o].at = "steamSays" => req[o].login \in Logins
  BY InvOf DEF Shape, Request, Maybe
<1>4. \A o \in Requests : req[o].at = "steamSays" /\ logins[req[o].login] = None
                             => logins'[req[o].login] = None
  BY <1>1, <1>3 DEF TypeOK
<1>5. \A o \in Requests : Steady(req[o])
  BY <1>1, <1>4, LoginsAreSteady
<1>6. TypeOK'
  BY <1>1, <1>2 DEF TypeOK
<1>7. QED
  BY <1>1, <1>5, <1>6, SameRows, NoStepIsFine

LEMMA BeginConnectIsFine ==
    ASSUME AccountsInv, NEW r \in Requests, NEW l \in Logins, NEW c \in Sids, BeginConnect(r, l, c)
    PROVE  Fine
<1>1. /\ TypeOK /\ req[r] \in Request /\ Answer(r)
      /\ UNCHANGED <<users, identity, steam, sessions, provider, tokens>>
      /\ UNCHANGED <<intent, remembered, clerk>>
      /\ \A o \in Requests : req[o].login # l
      /\ logins' = [logins EXCEPT ![l] = Expected(r, l)]
  BY InvOf DEF BeginConnect, NewLogin, accounts
<1>2. Expected(r, l) \in Binding
  BY <1>1 DEF Expected, Binding, Request
<1>3. logins' \in [Logins -> Maybe(Binding)]
  BY <1>1, <1>2 DEF TypeOK, Maybe
<1>4. \A o \in Requests : req[o].at = "steamSays" => req[o].login \in Logins
  BY InvOf DEF Shape, Request, Maybe
<1>5. \A o \in Requests : req[o].at = "steamSays" /\ logins[req[o].login] = None
                             => logins'[req[o].login] = None
  BY <1>1, <1>4 DEF TypeOK
<1>6. \A o \in Requests \ {r} : Steady(req[o])
  BY <1>1, <1>5, LoginsAreSteady
<1>7. Alone(r) /\ req'[r] = Quiet
  BY <1>1, Answering
<1>8. RequestOK(r)' /\ req'[r].fresh = None /\ req'[r].at # "steamSays"
  BY <1>7, QuietIsOK
<1>9. TypeOK'
  BY <1>1, <1>3, <1>7 DEF TypeOK, Alone
<1>10. QED
  BY <1>1, <1>6, <1>7, <1>8, <1>9, SameRows, OwnStepIsFine
-----------------------------------------------------------------------------
(* Sessions *)

(* The session a request holds was handed out: nobody is issuing it.       *)
LEMMA HeldIsNotFresh ==
    ASSUME AccountsInv, NEW r \in Requests, req[r].token # None
    PROVE  /\ req[r].token \in Sessions
           /\ tokens[req[r].token] # None
           /\ \A o \in Requests : req[o].fresh # req[r].token
<1>1. req[r].token \in Sessions /\ tokens[req[r].token] # None
  BY InvOf DEF Relies, Request, Maybe
<1>2. \A o \in Requests : req[o].fresh # None => tokens[req[o].fresh] = None
  BY InvOf DEF Relies
<1>3. QED
  BY <1>1, <1>2

LEMMA FreshOf ==
    ASSUME AccountsInv, NEW r \in Requests, req[r].fresh # None
    PROVE  /\ req[r].fresh \in Sessions
           /\ tokens[req[r].fresh] = None
           /\ \A o \in Requests \ {r} : req[o].fresh # req[r].fresh
           /\ \A o \in Requests : req[o].token # req[r].fresh
<1>1. req[r].fresh \in Sessions /\ tokens[req[r].fresh] = None
  BY InvOf DEF Relies, Request, Maybe
<1>2. \A o \in Requests \ {r} : req[o].fresh # req[r].fresh
  BY DEF AccountsInv, FreshApart
<1>3. \A o \in Requests : req[o].token # req[r].fresh
  BY <1>1, HeldIsNotFresh
<1>4. QED
  BY <1>1, <1>2, <1>3

LEMMA SameRows2 ==
    ASSUME AccountsInv, UNCHANGED <<users, identity, steam, tokens>>
    PROVE  /\ OneOwnerEach' /\ TokensOfUsers' /\ LinkStep
<1>1. OneOwnerEach'
  BY DEF AccountsInv, OneOwnerEach
<1>2. TokensOfUsers'
  BY DEF AccountsInv, TokensOfUsers
<1>3. LinkStep
  BY SameLinks
<1>4. QED
  BY <1>1, <1>2, <1>3

(* r drops the session it holds and goes on.                               *)
LEMMA DropIsFine ==
    ASSUME AccountsInv, NEW r \in Requests, req[r].token # None,
           sessions' = [sessions EXCEPT ![req[r].token] = None],
           UNCHANGED <<accounts, provider, intent, logins, remembered, tokens, clerk>>,
           Alone(r), req'[r].fresh = req[r].fresh, req'[r].at # "steamSays", RequestOK(r)'
    PROVE  Fine
<1>1. PICK t \in Sessions : t = req[r].token /\ tokens[t] # None /\ \A o \in Requests : req[o].fresh # t
  BY HeldIsNotFresh
<1>2. /\ TypeOK /\ SessionsMatchIdentities /\ \A o \in Requests : req[o] \in Request
      /\ UNCHANGED <<users, identity, steam, tokens>>
  BY InvOf DEF accounts
<1>3. /\ sessions' \in [Sessions -> Maybe(UserIds)]
      /\ sessions' = [sessions EXCEPT ![t] = None]
  BY <1>1, <1>2 DEF TypeOK, Maybe
<1>4. \A o \in Requests \ {r} : Steady(req[o])
  BY <1>1, <1>2, <1>3 DEF TypeOK, Steady, Request, Maybe
<1>5. TypeOK'
  BY <1>2, <1>3 DEF TypeOK, Alone
<1>6. SessionsMatchIdentities'
  BY <1>2, <1>3 DEF SessionsMatchIdentities, TypeOK
<1>7. QED
  BY <1>2, <1>4, <1>5, <1>6, SameRows2, OwnStepIsFine

LEMMA DeleteSessionIsFine ==
    ASSUME AccountsInv, NEW r \in Requests, DeleteSession(r)
    PROVE  Fine
<1>1. /\ TypeOK /\ req[r] \in Request /\ Shape(req[r]) /\ Relies(req[r]) /\ req[r].at = "serve"
      /\ sessions' = [sessions EXCEPT ![req[r].token] = None]
      /\ UNCHANGED <<accounts, provider, intent, logins, remembered, tokens, clerk>>
  BY InvOf DEF DeleteSession, Serving, At
<1>2. Moved(r, "dropped")
  BY <1>1, Going DEF DeleteSession, Places
<1>3. req[r].token \in Sessions /\ req[r].token # None /\ sessions'[req[r].token] = None
  BY <1>1 DEF Shape, SignedIn, Request, Maybe, TypeOK
<1>4. RequestOK(r)'
  BY <1>1, <1>2, <1>3 DEF Moved, RequestOK, Shape, Relies, Replacing, accounts,
                    SignedIn, WithSid, WithUser, Issued, RoundTrip
<1>5. QED
  BY <1>1, <1>2, <1>3, <1>4, DropIsFine DEF Moved

LEMMA DropSessionIsFine ==
    ASSUME AccountsInv, NEW r \in Requests, DropSession(r)
    PROVE  Fine
<1>1. /\ TypeOK /\ req[r] \in Request /\ Shape(req[r]) /\ Relies(req[r]) /\ req[r].at = "dropOld"
      /\ sessions' = [sessions EXCEPT ![req[r].token] = None]
      /\ UNCHANGED <<accounts, provider, intent, logins, remembered, tokens, clerk>>
  BY InvOf DEF DropSession, At
<1>2. PICK place \in {"dropProvider", "hand"} :
          Goto(r, place) /\ (place = "dropProvider" => req[r].doing = "exchange")
  BY DEF DropSession
<1>3. Moved(r, place)
  BY <1>1, <1>2, Going DEF Places
<1>4. req[r].token \in Sessions /\ req[r].token # None /\ sessions'[req[r].token] = None
  BY <1>1 DEF Shape, Request, Maybe, TypeOK
<1>5. req[r].fresh # None /\ req[r].fresh # req[r].token
  BY <1>1, <1>4, HeldIsNotFresh DEF Shape, Issued
<1>6. sessions'[req[r].fresh] = req[r].user
  BY <1>1, <1>5 DEF Relies, TypeOK, Request, Maybe
<1>7. RequestOK(r)'
  BY <1>1, <1>2, <1>3, <1>4, <1>5, <1>6
     DEF Moved, RequestOK, Shape, Relies, Replacing, accounts,
         SignedIn, WithSid, WithUser, Issued, RoundTrip
<1>8. QED
  BY <1>1, <1>3, <1>4, <1>7, DropIsFine DEF Moved

(* r drops the provider record of a session that is over already.          *)
LEMMA DropRecordIsFine ==
    ASSUME AccountsInv, NEW r \in Requests, req[r].token # None, sessions[req[r].token] = None,
           provider' = [provider EXCEPT ![req[r].token] = None],
           UNCHANGED <<accounts, sessions, intent, logins, remembered, tokens, clerk>>,
           Alone(r), req'[r].fresh \in {None, req[r].fresh}, req'[r].at # "steamSays",
           RequestOK(r)'
    PROVE  Fine
<1>1. PICK t \in Sessions : t = req[r].token /\ tokens[t] # None /\ \A o \in Requests : req[o].fresh # t
  BY HeldIsNotFresh
<1>2. /\ TypeOK /\ SessionsMatchIdentities /\ \A o \in Requests : req[o] \in Request
      /\ UNCHANGED <<users, identity, steam, tokens>>
  BY InvOf DEF accounts
<1>3. /\ provider' \in [Sessions -> Maybe(Sids)]
      /\ provider' = [provider EXCEPT ![t] = None]
  BY <1>1, <1>2 DEF TypeOK, Maybe
<1>4. \A o \in Requests \ {r} : Steady(req[o])
  BY <1>1, <1>2, <1>3 DEF TypeOK, Steady, Request, Maybe
<1>5. TypeOK'
  BY <1>2, <1>3 DEF TypeOK, Alone
<1>6. SessionsMatchIdentities'
  BY <1>1, <1>2, <1>3 DEF SessionsMatchIdentities, TypeOK
<1>7. QED
  BY <1>2, <1>4, <1>5, <1>6, SameRows2, OwnStepIsFine

LEMMA DeleteProviderIsFine ==
    ASSUME AccountsInv, NEW r \in Requests, DeleteProvider(r)
    PROVE  Fine
<1>1. /\ TypeOK /\ req[r] \in Request /\ Shape(req[r]) /\ Relies(req[r]) /\ req[r].at = "dropped"
      /\ provider' = [provider EXCEPT ![req[r].token] = None]
      /\ UNCHANGED <<accounts, sessions, intent, logins, remembered, tokens, clerk>>
  BY InvOf DEF DeleteProvider, At
<1>2. req[r].token # None /\ sessions[req[r].token] = None
  BY <1>1 DEF Shape, SignedIn, Relies
<1>3. CASE Answer(r)
  <2>1. Alone(r) /\ req'[r] = Quiet
    BY <1>1, <1>3, Answering
  <2>2. RequestOK(r)' /\ req'[r].fresh = None /\ req'[r].at # "steamSays"
    BY <2>1, QuietIsOK
  <2>3. QED
    BY <1>1, <1>2, <2>1, <2>2, DropRecordIsFine
<1>4. CASE Goto(r, "forget") /\ req[r].sid # None
  <2>1. Moved(r, "forget")
    BY <1>1, <1>4, Going DEF Places
  <2>2. RequestOK(r)'
    BY <1>1, <1>4, <2>1 DEF Moved, RequestOK, Shape, Relies, Replacing, accounts,
                      SignedIn, WithSid, WithUser, Issued, RoundTrip
  <2>3. QED
    BY <1>1, <1>2, <2>1, <2>2, DropRecordIsFine DEF Moved
<1>5. QED
  BY <1>3, <1>4 DEF DeleteProvider

LEMMA DropProviderIsFine ==
    ASSUME AccountsInv, NEW r \in Requests, DropProvider(r)
    PROVE  Fine
<1>1. /\ TypeOK /\ req[r] \in Request /\ Shape(req[r]) /\ Relies(req[r]) /\ req[r].at = "dropProvider"
      /\ provider' = [provider EXCEPT ![req[r].token] = None]
      /\ UNCHANGED <<accounts, sessions, intent, logins, remembered, tokens, clerk>>
  BY InvOf DEF DropProvider, At
<1>2. req[r].token # None /\ sessions[req[r].token] = None
  BY <1>1 DEF Shape, Relies
<1>3. Moved(r, "hand")
  BY <1>1, Going DEF DropProvider, Places
<1>4. req[r].fresh # None /\ req[r].fresh # req[r].token /\ req[r].fresh \in Sessions
  BY <1>1, <1>2, HeldIsNotFresh, FreshOf DEF Shape, Issued
<1>5. provider'[req[r].fresh] = provider[req[r].fresh]
  BY <1>1, <1>4 DEF TypeOK
<1>6. RequestOK(r)'
  BY <1>1, <1>3, <1>4, <1>5
     DEF Moved, RequestOK, Shape, Relies, Replacing, accounts,
         SignedIn, WithSid, WithUser, Issued, RoundTrip
<1>7. QED
  BY <1>1, <1>2, <1>3, <1>6, DropRecordIsFine DEF Moved

LEMMA KeepProviderIsFine ==
    ASSUME AccountsInv, NEW r \in Requests, KeepProvider(r)
    PROVE  Fine
<1>1. /\ TypeOK /\ req[r] \in Request /\ Shape(req[r]) /\ Relies(req[r]) /\ req[r].at = "issue"
      /\ req[r].sid # None /\ req[r].sid \in Sids
      /\ UNCHANGED <<users, identity, steam, tokens>>
      /\ UNCHANGED <<sessions, intent, logins, remembered, clerk>>
  BY InvOf DEF KeepProvider, At, accounts, Request, Maybe
<1>2. PICK n \in Sessions :
          /\ Unused(n)
          /\ provider' = [provider EXCEPT ![n] = req[r].sid]
          /\ Become(r, [req[r] EXCEPT !.at = "publish", !.fresh = n])
  BY DEF KeepProvider
<1> DEFINE q == [req[r] EXCEPT !.at = "publish", !.fresh = n]
<1>3. q \in Request
  BY <1>1 DEF Request, Places, Maybe
<1>4. Alone(r) /\ req'[r] = q
  BY <1>1, <1>2, <1>3, Becoming
<1>5. /\ q.at = "publish" /\ q.fresh = n /\ q.token = req[r].token
      /\ q.user = req[r].user /\ q.doing = req[r].doing /\ q.sid = req[r].sid
  BY <1>1 DEF Request
<1> HIDE DEF q
<1>6. /\ provider' \in [Sessions -> Maybe(Sids)] /\ provider'[n] = req[r].sid
      /\ n # None /\ tokens[n] = None
      /\ \A o \in Requests : req[o].fresh # n /\ req[o].token # n
  BY <1>1, <1>2, AccountsAssumption DEF TypeOK, Maybe, Unused
<1>7. Shape(q)
  BY <1>1, <1>5, <1>6 DEF Shape, SignedIn, WithSid, WithUser, Issued, RoundTrip
<1>8. RequestOK(r)'
  BY <1>1, <1>4, <1>5, <1>6, <1>7 DEF RequestOK, Relies, Replacing, Replaceable, Issued
<1>9. \A o \in Requests \ {r} : Steady(req[o])
  <2>1. \A o \in Requests : req[o] \in Request
    BY InvOf
  <2>2. QED
    BY <1>1, <1>2, <1>6, <2>1 DEF TypeOK, Steady, Request, Maybe
<1>10. TypeOK'
  BY <1>1, <1>4, <1>6 DEF TypeOK, Alone
<1>11. SessionsMatchIdentities'
  BY <1>1, <1>2, <1>6, InvOf DEF SessionsMatchIdentities, TypeOK
<1>12. QED
  BY <1>1, <1>4, <1>5, <1>6, <1>8, <1>9, <1>10, <1>11, SameRows2, StepIsFine
(* r publishes the session n, which nobody but r knows of.                 *)
LEMMA PublishAsIsFine ==
    ASSUME AccountsInv, NEW r \in Requests, NEW n \in Sessions, PublishAs(r, n),
           req[r].at \in {"issue", "publish"}, tokens[n] = None,
           \A o \in Requests \ {r} : req[o].fresh # n,
           req[r].sid # None => provider[n] = req[r].sid,
           UNCHANGED <<accounts, provider, intent, logins, remembered, tokens, clerk>>
    PROVE  Fine
<1>1. /\ TypeOK /\ req[r] \in Request /\ Shape(req[r]) /\ Relies(req[r])
      /\ UNCHANGED <<users, identity, steam, tokens>>
      /\ \A o \in Requests : req[o] \in Request
  BY InvOf DEF accounts
<1>2. PICK place \in {"hand", "dropOld"} :
          place = AfterIssue(r) /\ (place = "dropOld" <=> req[r].token # None)
  BY DEF AfterIssue
<1> DEFINE q == [req[r] EXCEPT !.at = place, !.fresh = n]
<1>3. q \in Request
  <2>1. place \in Places /\ n \in Maybe(Sessions)
    BY DEF Places, Maybe
  <2>2. QED
    BY <1>1, <2>1 DEF Request
<1>4. Alone(r) /\ req'[r] = q
  BY <1>1, <1>2, <1>3, Becoming DEF PublishAs
<1>5. /\ q.at = place /\ q.fresh = n /\ q.token = req[r].token
      /\ q.user = req[r].user /\ q.doing = req[r].doing /\ q.sid = req[r].sid
  BY <1>1 DEF Request
<1> HIDE DEF q
<1>6. /\ sessions' = [sessions EXCEPT ![n] = req[r].user]
      /\ sessions' \in [Sessions -> Maybe(UserIds)] /\ sessions'[n] = req[r].user /\ n # None
  BY <1>1, AccountsAssumption DEF PublishAs, TypeOK, Request
<1>7. \A o \in Requests : req[o].token # n
  BY <1>6, HeldIsNotFresh
<1>8. Shape(q)
  BY <1>1, <1>2, <1>5, <1>6 DEF Shape, SignedIn, WithSid, WithUser, Issued, RoundTrip
<1>9. req[r].token # None => sessions'[req[r].token] = sessions[req[r].token]
  BY <1>1, <1>6, <1>7 DEF TypeOK, Request, Maybe
<1>10. RequestOK(r)'
  BY <1>1, <1>2, <1>4, <1>5, <1>6, <1>8, <1>9
     DEF RequestOK, Relies, Replacing, Replaceable, Issued, accounts
<1>11. \A o \in Requests \ {r} : Steady(req[o])
  BY <1>1, <1>6, <1>7 DEF TypeOK, Steady, Request, Maybe
<1>12. TypeOK'
  BY <1>1, <1>4, <1>6 DEF TypeOK, Alone
<1>13. SessionsMatchIdentities'
  BY <1>1, <1>6, InvOf DEF SessionsMatchIdentities, TypeOK
<1>14. QED
  BY <1>1, <1>4, <1>5, <1>6, <1>10, <1>11, <1>12, <1>13, SameRows2, StepIsFine

LEMMA PublishIsFine ==
    ASSUME AccountsInv, NEW r \in Requests, Publish(r)
    PROVE  Fine
<1>1. /\ Shape(req[r]) /\ Relies(req[r])
      /\ UNCHANGED <<accounts, provider, intent, logins, remembered, tokens, clerk>>
  BY InvOf DEF Publish
<1>2. CASE At(r, "publish") /\ PublishAs(r, req[r].fresh)
  <2>1. req[r].at = "publish" /\ req[r].fresh # None
    BY <1>1, <1>2 DEF At, Shape, Issued
  <2>2. PICK n \in Sessions : n = req[r].fresh
    BY <2>1, FreshOf
  <2>3. tokens[n] = None /\ \A o \in Requests \ {r} : req[o].fresh # n
    BY <2>1, <2>2, FreshOf
  <2>4. req[r].sid # None => provider[n] = req[r].sid
    BY <1>1, <2>1, <2>2 DEF Relies
  <2>5. QED
    BY <1>1, <1>2, <2>1, <2>2, <2>3, <2>4, PublishAsIsFine
<1>3. CASE /\ At(r, "issue")
           /\ req[r].sid = None
           /\ \E n \in Sessions : Unused(n) /\ PublishAs(r, n)
  <2>1. PICK n \in Sessions : Unused(n) /\ PublishAs(r, n)
    BY <1>3
  <2>2. tokens[n] = None /\ \A o \in Requests : req[o].fresh # n
    BY <2>1 DEF Unused
  <2>3. QED
    BY <1>1, <1>3, <2>1, <2>2, PublishAsIsFine DEF At
<1>4. QED
  BY <1>2, <1>3 DEF Publish

LEMMA HandOverIsFine ==
    ASSUME AccountsInv, NEW r \in Requests, HandOver(r)
    PROVE  Fine
<1> DEFINE token == [user |-> req[r].user, viaProvider |-> req[r].sid # None, recent |-> TRUE]
<1>1. /\ TypeOK /\ req[r] \in Request /\ Shape(req[r]) /\ Relies(req[r]) /\ req[r].at = "hand"
      /\ UNCHANGED <<users, identity, steam, sessions, provider, logins>>
      /\ UNCHANGED <<intent, remembered, clerk>> /\ Answer(r)
      /\ \A o \in Requests : req[o] \in Request
  BY InvOf DEF HandOver, At, accounts, keys
<1>2. req[r].fresh # None /\ req[r].user # None
  BY <1>1 DEF Shape, Issued, WithUser
<1>3. PICK n \in Sessions : /\ n = req[r].fresh /\ tokens[n] = None
                            /\ \A o \in Requests \ {r} : req[o].fresh # n
                            /\ \A o \in Requests : req[o].token # n
  BY <1>2, FreshOf
<1>4. /\ req[r].user \in users /\ req[r].user \in UserIds /\ sessions[n] = req[r].user
      /\ req[r].sid # None => /\ provider[n] = req[r].sid
                              /\ identity[req[r].user] = req[r].sid.subject
  BY <1>1, <1>2, <1>3 DEF Relies, Issued, TypeOK, Request, Maybe
<1>5. token \in Token /\ token.user = req[r].user /\ token.viaProvider = (req[r].sid # None)
  BY <1>4 DEF Token
<1>6. tokens' = [tokens EXCEPT ![n] = token]
  BY <1>3 DEF HandOver
<1> HIDE DEF token
<1>7. tokens' \in [Sessions -> Maybe(Token)] /\ tokens'[n] = token
      /\ \A t \in Sessions \ {n} : tokens'[t] = tokens[t]
  BY <1>1, <1>5, <1>6 DEF TypeOK, Maybe
<1>8. Alone(r) /\ req'[r] = Quiet
  BY <1>1, Answering
<1>9. RequestOK(r)' /\ req'[r].fresh = None /\ req'[r].at # "steamSays"
  BY <1>8, QuietIsOK
<1>10. \A o \in Requests \ {r} : Steady(req[o])
  BY <1>1, <1>3, <1>7 DEF Steady, Request, Maybe
<1>11. TypeOK'
  BY <1>1, <1>7, <1>8 DEF TypeOK, Alone
<1>12. OneOwnerEach'
  BY <1>1, InvOf DEF OneOwnerEach
<1>13. SessionsMatchIdentities'
  <2> SUFFICES ASSUME NEW t \in Sessions, tokens'[t] # None, sessions'[t] # None
               PROVE  /\ sessions'[t] = tokens'[t].user
                      /\ tokens'[t].viaProvider =>
                             /\ provider'[t] # None
                             /\ identity'[sessions'[t]] = provider'[t].subject
    BY DEF SessionsMatchIdentities
  <2>1. CASE t = n
    BY <2>1, <1>1, <1>4, <1>5, <1>7
  <2>2. CASE t # n
    BY <2>2, <1>1, <1>7, InvOf DEF SessionsMatchIdentities
  <2>3. QED
    BY <2>1, <2>2
<1>14. TokensOfUsers'
  BY <1>1, <1>4, <1>5, <1>7, InvOf DEF TokensOfUsers
<1>15. LinkStep
  BY <1>1, SameLinks
<1>16. QED
  BY <1>8, <1>9, <1>10, <1>11, <1>12, <1>13, <1>14, <1>15, OwnStepIsFine

(* The time of a session is up.                                            *)
LEMMA LapseIsFine ==
    ASSUME AccountsInv, NEW t \in Sessions, Lapse(t)
    PROVE  Fine
<1>1. /\ TypeOK /\ \A o \in Requests : req[o] \in Request /\ req[o].fresh # t
      /\ UNCHANGED <<users, identity, steam, logins, req>>
      /\ UNCHANGED <<remembered, clerk>>
      /\ sessions' = [sessions EXCEPT ![t] = None]
      /\ provider' = [provider EXCEPT ![t] = None]
      /\ intent' = [intent EXCEPT ![t] = None]
  BY InvOf DEF Lapse, accounts, AccountsInv
<1>2. /\ sessions' \in [Sessions -> Maybe(UserIds)]
      /\ provider' \in [Sessions -> Maybe(Sids)]
      /\ intent' \in [Sessions -> Maybe(UserIds)]
      /\ sessions'[t] = None
      /\ \A n \in Sessions \ {t} : sessions'[n] = sessions[n] /\ provider'[n] = provider[n]
  BY <1>1 DEF TypeOK, Maybe
<1>3. /\ tokens' \in [Sessions -> Maybe(Token)]
      /\ \A n \in Sessions \ {t} : tokens'[n] = tokens[n]
      /\ tokens'[t] \in {tokens[t], None}
      /\ Held(t) => tokens' = tokens
  BY <1>1 DEF Lapse, TypeOK, Maybe
<1>4. \A o \in Requests : Steady(req[o])
  <2> SUFFICES ASSUME NEW o \in Requests
               PROVE  Steady(req[o])
    OBVIOUS
  <2>1. req[o].token # None => req[o].token \in Sessions
    BY <1>1 DEF Request, Maybe
  <2>2. req[o].fresh # None => req[o].fresh \in Sessions \ {t}
    BY <1>1 DEF Request, Maybe
  <2>3. req[o].token = t => Held(t)
    BY DEF Held
  <2>4. req[o].token # None => tokens'[req[o].token] = tokens[req[o].token]
    BY <1>3, <2>1, <2>3
  <2>5. req[o].token # None => sessions'[req[o].token] \in {sessions[req[o].token], None}
    BY <1>2, <2>1
  <2>6. QED
    BY <1>1, <1>2, <1>3, <2>2, <2>4, <2>5 DEF Steady
<1>5. TypeOK'
  BY <1>1, <1>2, <1>3 DEF TypeOK
<1>6. OneOwnerEach'
  BY <1>1 DEF AccountsInv, OneOwnerEach
<1>7. SessionsMatchIdentities'
  BY <1>1, <1>2, <1>3 DEF AccountsInv, SessionsMatchIdentities
<1>8. TokensOfUsers'
  BY <1>1, <1>3 DEF AccountsInv, TokensOfUsers
<1>9. LinkStep
  BY <1>1, SameLinks
<1>10. QED
  BY <1>1, <1>4, <1>5, <1>6, <1>7, <1>8, <1>9, NoStepIsFine

LEMMA AgeIsFine ==
    ASSUME AccountsInv, NEW t \in Sessions, Age(t)
    PROVE  Fine
<1>1. /\ TypeOK /\ \A o \in Requests : req[o] \in Request
      /\ UNCHANGED <<users, identity, steam, sessions, provider, logins, req>>
      /\ UNCHANGED <<intent, remembered, clerk>>
      /\ tokens[t] # None /\ tokens[t] \in Token
      /\ tokens' = [tokens EXCEPT ![t].recent = FALSE]
  BY InvOf DEF Age, accounts, keys, AccountsInv, TypeOK, Maybe
<1> DEFINE token == [tokens[t] EXCEPT !.recent = FALSE]
<1>2. /\ token \in Token /\ token # None /\ token.user = tokens[t].user
      /\ token.viaProvider = tokens[t].viaProvider
  BY <1>1, AccountsAssumption DEF Token
<1>3. tokens' = [tokens EXCEPT ![t] = token]
  BY <1>1
<1> HIDE DEF token
<1>4. /\ tokens' \in [Sessions -> Maybe(Token)] /\ tokens'[t] = token
      /\ \A n \in Sessions \ {t} : tokens'[n] = tokens[n]
  BY <1>1, <1>2, <1>3 DEF TypeOK, Maybe
<1>5. \A o \in Requests : Steady(req[o])
  <2> SUFFICES ASSUME NEW o \in Requests
               PROVE  Steady(req[o])
    OBVIOUS
  <2>1. req[o].token # None => req[o].token \in Sessions
    BY <1>1 DEF Request, Maybe
  <2>2. req[o].fresh # None => tokens[req[o].fresh] = None /\ req[o].fresh \in Sessions \ {t}
    BY <1>1, FreshOf
  <2>3. QED
    BY <1>1, <1>2, <1>4, <2>1, <2>2 DEF Steady
<1>6. TypeOK'
  BY <1>1, <1>4 DEF TypeOK
<1>7. OneOwnerEach'
  BY <1>1 DEF AccountsInv, OneOwnerEach
<1>8. SessionsMatchIdentities'
  BY <1>1, <1>2, <1>4 DEF AccountsInv, SessionsMatchIdentities
<1>9. TokensOfUsers'
  BY <1>1, <1>2, <1>4 DEF AccountsInv, TokensOfUsers
<1>10. LinkStep
  BY <1>1, SameLinks
<1>11. QED
  BY <1>1, <1>5, <1>6, <1>7, <1>8, <1>9, <1>10, NoStepIsFine

(* Keys that lapse, and the provider's own steps, touch no request.        *)
LEMMA OutsideIsFine ==
    ASSUME AccountsInv, UNCHANGED world, req' = req,
           intent' \in [Sessions -> Maybe(UserIds)], remembered' \subseteq Sids,
           clerk' \in [Sids -> {"none", "active", "ended", "signedOut"}]
    PROVE  Fine
<1>1. \A o \in Requests : Steady(req[o])
  BY SameWorldIsSteady
<1>2. UNCHANGED <<users, identity, steam, sessions, provider, tokens>>
  BY DEF world
<1>3. TypeOK'
  BY DEF AccountsInv, TypeOK, world
<1>4. QED
  BY <1>1, <1>2, <1>3, SameRows, NoStepIsFine

LEMMA LapseIntentIsFine ==
    ASSUME AccountsInv, NEW t \in Sessions, LapseIntent(t)
    PROVE  Fine
<1>1. TypeOK /\ UNCHANGED world /\ req' = req /\ remembered' = remembered /\ clerk' = clerk
  BY DEF AccountsInv, LapseIntent, world, accounts
<1>2. intent' \in [Sessions -> Maybe(UserIds)]
  BY <1>1 DEF LapseIntent, TypeOK, Maybe
<1>3. QED
  BY <1>1, <1>2, OutsideIsFine DEF TypeOK

LEMMA LapseActiveIsFine ==
    ASSUME AccountsInv, NEW c \in Sids, LapseActive(c)
    PROVE  Fine
<1>1. TypeOK /\ UNCHANGED world /\ req' = req /\ intent' = intent /\ clerk' = clerk
  BY DEF AccountsInv, LapseActive, world, accounts
<1>2. remembered' \subseteq Sids
  BY <1>1 DEF LapseActive, TypeOK
<1>3. QED
  BY <1>1, <1>2, OutsideIsFine DEF TypeOK

LEMMA ProviderIsFine ==
    ASSUME AccountsInv, NEW c \in Sids, SignIn(c) \/ EndElsewhere(c)
    PROVE  Fine
<1>1. TypeOK /\ UNCHANGED world /\ req' = req /\ intent' = intent /\ remembered' = remembered
  BY DEF AccountsInv, SignIn, EndElsewhere, world, accounts, keys
<1>2. clerk' \in [Sids -> {"none", "active", "ended", "signedOut"}]
  BY <1>1 DEF SignIn, EndElsewhere, TypeOK
<1>3. QED
  BY <1>1, <1>2, OutsideIsFine DEF TypeOK
-----------------------------------------------------------------------------
(* Rows *)

(* Rows that only come leave every request what it relies on.              *)
LEMMA RowsAreSteady ==
    ASSUME UNCHANGED <<sessions, provider, logins, tokens>>, users \subseteq users',
           \A u \in UserIds : identity[u] # None => identity'[u] = identity[u],
           NEW q
    PROVE  Steady(q)
  BY DEF Steady

(* The user of a live session of the provider keeps its identity.          *)
LEMMA IdentitiesStay ==
    ASSUME TypeOK, SessionsMatchIdentities, UNCHANGED <<sessions, provider, tokens>>,
           \A u \in UserIds : identity[u] # None => identity'[u] = identity[u]
    PROVE  SessionsMatchIdentities'
<1> SUFFICES ASSUME NEW t \in Sessions, tokens[t] # None, sessions[t] # None
             PROVE  /\ sessions[t] = tokens[t].user
                    /\ tokens[t].viaProvider =>
                           /\ provider[t] # None
                           /\ identity'[sessions[t]] = provider[t].subject
  BY DEF SessionsMatchIdentities
<1>1. sessions[t] = tokens[t].user /\ sessions[t] \in UserIds
  BY DEF SessionsMatchIdentities, TypeOK, Maybe
<1>2. ASSUME tokens[t].viaProvider
      PROVE  provider[t] # None /\ identity'[sessions[t]] = provider[t].subject
  <2>1. provider[t] # None /\ identity[sessions[t]] = provider[t].subject
    BY <1>2 DEF SessionsMatchIdentities
  <2>2. provider[t].subject # None
    BY <2>1, AccountsAssumption DEF TypeOK, Maybe, Sids
  <2>3. QED
    BY <1>1, <2>1, <2>2
<1>3. QED
  BY <1>1, <1>2

(* r adds the user u, with s or c of its own, and is at a place as u.      *)
LEMMA JoinBySteamIsFine ==
    ASSUME AccountsInv, NEW r \in Requests, JoinBySteam(r)
    PROVE  Fine
<1>1. /\ TypeOK /\ OneOwnerEach /\ req[r] \in Request /\ Shape(req[r]) /\ Relies(req[r])
      /\ req[r].at = "summary" /\ req[r].doing = "steamBack"
      /\ UNCHANGED <<sessions, provider, logins, tokens, identity>>
      /\ UNCHANGED <<intent, remembered, clerk>>
      /\ UNCHANGED <<identity, keys, tokens, clerk>>
  BY InvOf DEF JoinBySteam, At, keys, Shape
<1>2. CASE /\ \E u \in UserIds :
                  /\ steam[u] = req[r].steam
                  /\ Become(r, [req[r] EXCEPT !.at = "converted", !.user = u])
           /\ UNCHANGED <<users, steam>>
  BY <1>1, <1>2, FoundIsFine DEF accounts
<1>3. CASE /\ ~SteamOwned(req[r].steam)
           /\ \E u \in UserIds \ users :
                  /\ users' = users \cup {u}
                  /\ steam' = [steam EXCEPT ![u] = req[r].steam]
                  /\ Become(r, [req[r] EXCEPT !.at = "converted", !.user = u])
  <2>1. PICK u \in UserIds \ users :
            /\ users' = users \cup {u}
            /\ steam' = [steam EXCEPT ![u] = req[r].steam]
            /\ Become(r, [req[r] EXCEPT !.at = "converted", !.user = u])
    BY <1>3
  <2>2. PICK s \in SteamIds : s = req[r].steam
    BY <1>1 DEF Shape, Request, Maybe
  <2> DEFINE q == [req[r] EXCEPT !.at = "converted", !.user = u]
  <2>3. q \in Request
    BY <1>1 DEF Request, Places, Maybe
  <2>4. Alone(r) /\ req'[r] = q
    BY <1>1, <2>1, <2>3, Becoming
  <2>5. /\ q.at = "converted" /\ q.fresh = req[r].fresh /\ q.token = req[r].token
        /\ q.user = u /\ q.doing = req[r].doing /\ q.sid = req[r].sid
        /\ q.stored = req[r].stored /\ q.steam = req[r].steam /\ q.login = req[r].login
    BY <1>1 DEF Request
  <2> HIDE DEF q
  <2>6. /\ steam' \in [UserIds -> Maybe(SteamIds)] /\ users' \subseteq UserIds
        /\ steam'[u] = s /\ s # None /\ u # None
        /\ \A v \in UserIds \ {u} : steam'[v] = steam[v]
    BY <1>1, <2>1, <2>2, AccountsAssumption DEF TypeOK, Maybe
  <2>7. Shape(q)
    BY <1>1, <2>5, <2>6 DEF Shape, SignedIn, WithSid, WithUser, Issued, RoundTrip
  <2>8. RequestOK(r)'
    BY <1>1, <2>1, <2>4, <2>5, <2>7 DEF RequestOK, Shape, Relies, Replacing, Issued
  <2>9. \A o \in Requests \ {r} : Steady(req[o])
    BY <1>1, <2>1, RowsAreSteady
  <2>10. TypeOK'
    BY <1>1, <2>4, <2>6 DEF TypeOK, Alone
  <2>11. \A v \in UserIds : steam[v] # s
    BY <1>3, <2>2 DEF SteamOwned
  <2>12. identity[u] = None /\ steam[u] = None
    BY <1>1, <2>1 DEF OneOwnerEach
  <2>13. OneOwnerEach'
    BY <1>1, <2>1, <2>6, <2>11 DEF OneOwnerEach
  <2>14. SessionsMatchIdentities'
    BY <1>1, InvOf, IdentitiesStay
  <2>15. TokensOfUsers'
    BY <1>1, <2>1, InvOf DEF TokensOfUsers
  <2>16. LinkStep
    BY <1>1, <2>1, <2>6, <2>12 DEF LinkStep
  <2>17. QED
    BY <2>4, <2>5, <2>8, <2>9, <2>10, <2>13, <2>14, <2>15, <2>16, OwnStepIsFine
<1>4. QED
  BY <1>2, <1>3 DEF JoinBySteam

LEMMA JoinBySubjectIsFine ==
    ASSUME AccountsInv, NEW r \in Requests, JoinBySubject(r)
    PROVE  Fine
<1>1. /\ TypeOK /\ OneOwnerEach /\ req[r] \in Request /\ Shape(req[r]) /\ Relies(req[r])
      /\ req[r].at = "join" /\ req[r].doing = "exchange"
      /\ UNCHANGED <<sessions, provider, logins, tokens, steam>>
      /\ UNCHANGED <<intent, remembered, clerk>>
      /\ UNCHANGED <<steam, keys, tokens, clerk>>
  BY InvOf DEF JoinBySubject, At, keys, Shape
<1>2. CASE /\ \E u \in UserIds :
                  /\ identity[u] = req[r].sid.subject
                  /\ Become(r, [req[r] EXCEPT !.at = "issue", !.user = u])
           /\ UNCHANGED <<users, identity>>
  BY <1>1, <1>2, KnownIsFine DEF accounts
<1>3. CASE /\ ~SubjectOwned(req[r].sid.subject)
           /\ \E u \in UserIds \ users :
                  /\ users' = users \cup {u}
                  /\ identity' = [identity EXCEPT ![u] = req[r].sid.subject]
                  /\ Become(r, [req[r] EXCEPT !.at = "issue", !.user = u])
  <2>1. PICK u \in UserIds \ users :
            /\ users' = users \cup {u}
            /\ identity' = [identity EXCEPT ![u] = req[r].sid.subject]
            /\ Become(r, [req[r] EXCEPT !.at = "issue", !.user = u])
    BY <1>3
  <2>2. PICK c \in Subjects : c = req[r].sid.subject
    BY <1>1 DEF Shape, WithSid, Request, Maybe, Sids
  <2> DEFINE q == [req[r] EXCEPT !.at = "issue", !.user = u]
  <2>3. q \in Request
    BY <1>1 DEF Request, Places, Maybe
  <2>4. Alone(r) /\ req'[r] = q
    BY <1>1, <2>1, <2>3, Becoming
  <2>5. /\ q.at = "issue" /\ q.fresh = req[r].fresh /\ q.token = req[r].token
        /\ q.user = u /\ q.doing = req[r].doing /\ q.sid = req[r].sid
        /\ q.stored = req[r].stored /\ q.steam = req[r].steam /\ q.login = req[r].login
    BY <1>1 DEF Request
  <2> HIDE DEF q
  <2>6. /\ identity' \in [UserIds -> Maybe(Subjects)] /\ users' \subseteq UserIds
        /\ identity'[u] = c /\ c # None /\ u # None
        /\ \A v \in UserIds \ {u} : identity'[v] = identity[v]
    BY <1>1, <2>1, <2>2, AccountsAssumption DEF TypeOK, Maybe
  <2>7. Shape(q)
    BY <1>1, <2>5, <2>6 DEF Shape, SignedIn, WithSid, WithUser, Issued, RoundTrip
  <2>8. identity[u] = None /\ steam[u] = None
    BY <1>1, <2>1 DEF OneOwnerEach
  <2>9. \A v \in UserIds : identity[v] # None => identity'[v] = identity[v]
    BY <2>6, <2>8
  <2>10. Replacing(req[r]) /\ sessions[req[r].token] # None
            => Replaceable(tokens[req[r].token], req[r].sid)'
    <3>1. req[r].token # None => tokens[req[r].token].user \in UserIds
      BY <1>1, HeldIsNotFresh DEF TypeOK, Token, Maybe
    <3>2. QED
      BY <1>1, <2>2, <2>4, <2>5, <2>6, <2>9, <3>1 DEF Relies, Replacing, Replaceable
  <2>11. RequestOK(r)'
    BY <1>1, <2>1, <2>2, <2>4, <2>5, <2>6, <2>7, <2>10
       DEF RequestOK, Shape, Relies, Replacing, Replaceable, Issued
  <2>12. \A o \in Requests \ {r} : Steady(req[o])
    BY <1>1, <2>1, <2>9, RowsAreSteady
  <2>13. TypeOK'
    BY <1>1, <2>4, <2>6 DEF TypeOK, Alone
  <2>14. \A v \in UserIds : identity[v] # c
    BY <1>3, <2>2 DEF SubjectOwned
  <2>15. OneOwnerEach'
    BY <1>1, <2>1, <2>6, <2>14 DEF OneOwnerEach
  <2>16. SessionsMatchIdentities'
    BY <1>1, <2>9, InvOf, IdentitiesStay
  <2>17. TokensOfUsers'
    BY <1>1, <2>1, InvOf DEF TokensOfUsers
  <2>18. LinkStep
    BY <1>1, <2>1, <2>6, <2>8 DEF LinkStep
  <2>19. QED
    BY <2>4, <2>5, <2>11, <2>12, <2>13, <2>15, <2>16, <2>17, <2>18, OwnStepIsFine
<1>4. QED
  BY <1>2, <1>3 DEF JoinBySubject
(* What r writes to the links of its own user.                             *)
LEMMA OwnLinks ==
    ASSUME AccountsInv, NEW r \in Requests, req[r].token # None, req[r].doing # "exchange",
           NEW u \in UserIds, u = req[r].user, req'[r] # req[r],
           \A v \in UserIds : identity[v] # None => identity'[v] = identity[v],
           \A v \in UserIds : steam[v] # None => steam'[v] = steam[v],
           \A v \in UserIds \ {u} : identity'[v] = identity[v] /\ steam'[v] = steam[v]
    PROVE  LinkStep
<1>1. tokens[req[r].token].user = u
  BY InvOf DEF Relies
<1>2. ByOneOf(u)
  BY <1>1 DEF ByOneOf
<1>3. QED
  BY <1>2 DEF LinkStep

LEMMA AttachSteamIsFine ==
    ASSUME AccountsInv, NEW r \in Requests, AttachSteam(r)
    PROVE  Fine
<1>1. /\ TypeOK /\ OneOwnerEach /\ req[r] \in Request /\ Shape(req[r]) /\ Relies(req[r])
      /\ req[r].at = "attach" /\ Answer(r)
      /\ UNCHANGED <<users, identity, sessions, provider, logins, tokens>>
      /\ UNCHANGED <<intent, remembered, clerk>>
  BY InvOf DEF AttachSteam, At, keys
<1>2. /\ req[r].token # None /\ req[r].doing # "exchange"
      /\ req[r].user # None /\ req[r].user \in users
      /\ req[r].steam # None
  BY <1>1 DEF Shape, SignedIn, Relies
<1>3. PICK u \in UserIds, s \in SteamIds : u = req[r].user /\ s = req[r].steam
  BY <1>1, <1>2 DEF Request, Maybe
<1>4. Alone(r) /\ req'[r] = Quiet
  BY <1>1, Answering
<1>5. req'[r] # req[r]
  BY <1>1, <1>4 DEF Quiet
<1>6. RequestOK(r)' /\ req'[r].fresh = None /\ req'[r].at # "steamSays"
  BY <1>4, QuietIsOK
<1>7. \A o \in Requests \ {r} : Steady(req[o])
  BY <1>1, RowsAreSteady
<1>8. CASE steam' = steam
  <2>1. TypeOK'
    BY <1>1, <1>4, <1>8 DEF TypeOK, Alone
  <2>2. QED
    BY <1>1, <1>4, <1>6, <1>7, <1>8, <2>1, SameRows, OwnStepIsFine
<1>9. CASE Attachable(u, s) /\ steam' = [steam EXCEPT ![u] = s]
  <2>1. /\ steam' \in [UserIds -> Maybe(SteamIds)] /\ steam'[u] = s /\ s # None
        /\ \A v \in UserIds \ {u} : steam'[v] = steam[v]
    BY <1>1, <1>9, AccountsAssumption DEF TypeOK, Maybe
  <2>2. steam[u] = None /\ \A v \in UserIds : steam[v] # s
    BY <1>9 DEF Attachable, SteamOwned
  <2>3. TypeOK'
    BY <1>1, <1>4, <2>1 DEF TypeOK, Alone
  <2>4. OneOwnerEach'
    BY <1>1, <1>2, <1>3, <2>1, <2>2 DEF OneOwnerEach
  <2>5. SessionsMatchIdentities' /\ TokensOfUsers'
    BY <1>1, InvOf DEF SessionsMatchIdentities, TokensOfUsers
  <2>6. LinkStep
    BY <1>1, <1>2, <1>3, <1>5, <2>1, <2>2, OwnLinks
  <2>7. QED
    BY <1>4, <1>6, <1>7, <2>3, <2>4, <2>5, <2>6, OwnStepIsFine
<1>10. QED
  BY <1>3, <1>8, <1>9 DEF AttachSteam

LEMMA ConvertIsFine ==
    ASSUME AccountsInv, NEW r \in Requests, Convert(r)
    PROVE  Fine
<1>1. /\ TypeOK /\ OneOwnerEach /\ req[r] \in Request /\ Shape(req[r]) /\ Relies(req[r])
      /\ req[r].at = "convert"
      /\ UNCHANGED <<users, steam, keys, tokens, clerk>>
      /\ UNCHANGED <<users, steam, sessions, provider, logins, tokens>>
      /\ UNCHANGED <<intent, remembered, clerk>>
  BY InvOf DEF Convert, At, keys
<1>2. CASE UNCHANGED identity /\ Answer(r)
  BY <1>1, <1>2, AnswerIsFine DEF accounts
<1>3. CASE /\ Identifiable(req[r].user, req[r].sid.subject)
           /\ identity' = [identity EXCEPT ![req[r].user] = req[r].sid.subject]
           /\ Goto(r, "issue")
  <2>1. /\ req[r].token # None /\ req[r].doing # "exchange" /\ req[r].sid # None
        /\ req[r].user # None /\ req[r].user \in users
    BY <1>1 DEF Shape, SignedIn, WithSid, Relies
  <2>2. PICK u \in UserIds, c \in Subjects : u = req[r].user /\ c = req[r].sid.subject
    BY <1>1, <2>1 DEF Request, Maybe, Sids
  <2>3. Moved(r, "issue")
    BY <1>1, <1>3, Going DEF Places
  <2>4. req'[r] # req[r]
    BY <1>1, <2>3 DEF Moved
  <2>5. /\ identity' \in [UserIds -> Maybe(Subjects)] /\ identity'[u] = c /\ c # None
        /\ \A v \in UserIds \ {u} : identity'[v] = identity[v]
    BY <1>1, <1>3, <2>2, AccountsAssumption DEF TypeOK, Maybe
  <2>6. identity[u] = None /\ \A v \in UserIds : identity[v] # c
    BY <1>3, <2>2 DEF Identifiable, SubjectOwned
  <2>7. \A v \in UserIds : identity[v] # None => identity'[v] = identity[v]
    BY <2>5, <2>6
  <2>8. RequestOK(r)'
    BY <1>1, <2>1, <2>2, <2>3, <2>5
       DEF Moved, RequestOK, Shape, Relies, Replacing,
           SignedIn, WithSid, WithUser, Issued, RoundTrip
  <2>9. \A o \in Requests \ {r} : Steady(req[o])
    BY <1>1, <2>7, RowsAreSteady
  <2>10. TypeOK'
    BY <1>1, <2>3, <2>5 DEF TypeOK, Alone, Moved
  <2>11. OneOwnerEach'
    BY <1>1, <2>1, <2>2, <2>5, <2>6 DEF OneOwnerEach
  <2>12. SessionsMatchIdentities'
    BY <1>1, <2>7, InvOf, IdentitiesStay
  <2>13. TokensOfUsers'
    BY <1>1, InvOf DEF TokensOfUsers
  <2>14. LinkStep
    BY <1>1, <2>1, <2>2, <2>4, <2>5, <2>7, OwnLinks
  <2>15. QED
    BY <2>3, <2>8, <2>9, <2>10, <2>11, <2>12, <2>13, <2>14, OwnStepIsFine DEF Moved
<1>4. QED
  BY <1>2, <1>3 DEF Convert

-----------------------------------------------------------------------------
(* The theorems *)

LEMMA InitIsFine == Init => AccountsInv
<1> SUFFICES ASSUME Init PROVE AccountsInv
  OBVIOUS
<1>1. TypeOK
  BY QuietIsARequest DEF Init, TypeOK, Maybe
<1>2. OneOwnerEach
  BY DEF Init, OneOwnerEach
<1>3. SessionsMatchIdentities /\ TokensOfUsers
  BY DEF Init, SessionsMatchIdentities, TokensOfUsers
<1>4. FreshApart
  BY DEF Init, FreshApart, Quiet
<1>5. OneCallbackPerLogin
  BY DEF Init, OneCallbackPerLogin, At, Quiet
<1>6. ASSUME NEW r \in Requests
      PROVE  RequestOK(r)
  <2>1. req[r] = Quiet
    BY DEF Init
  <2>2. QED
    BY <2>1, AccountsAssumption
       DEF RequestOK, Shape, Relies, Replacing, Quiet,
           SignedIn, WithSid, WithUser, Issued, RoundTrip
<1>7. QED
  BY <1>1, <1>2, <1>3, <1>4, <1>5, <1>6 DEF AccountsInv

LEMMA RequestIsFine ==
    ASSUME AccountsInv, NEW r \in Requests, Step(r)
    PROVE  Fine
<1>1. CASE Admission(r)
  BY <1>1, ArriveIsFine, CheckIdentityIsFine, ReadProviderIsFine, RecallIsFine,
     AskProviderIsFine, RememberIsFine, ReadIsFine DEF Admission
<1>2. CASE Logout(r)
  BY <1>2, DeleteSessionIsFine, DeleteProviderIsFine, ForgetActiveIsFine, RevokeIsFine DEF Logout
<1>3. CASE IssueSession(r)
  BY <1>3, KeepProviderIsFine, PublishIsFine, DropSessionIsFine, DropProviderIsFine,
     HandOverIsFine DEF IssueSession
<1>4. CASE SteamRoundTrip(r)
  BY <1>4, SteamBackIsFine, ConnectBackIsFine, ConsumeIsFine, SteamSaysIsFine, FindOwnerIsFine,
     JoinBySteamIsFine, RefuseConvertedIsFine, CheckConnectIsFine, AttachSteamIsFine,
     CheckUnconnectedIsFine, BeginConnectIsFine DEF SteamRoundTrip
<1>5. CASE Conversion(r)
  BY <1>5, CheckLinkIsFine, StartLinkIsFine, CancelLinkIsFine, CompleteLinkIsFine,
     VerifyLinkIsFine, RecheckIsFine, ClaimIntentIsFine, ConvertIsFine DEF Conversion
<1>6. CASE ProviderSignIn(r)
  BY <1>6, ExchangeIsFine, CheckOldIsFine, LookupIsFine, JoinBySubjectIsFine DEF ProviderSignIn
<1>7. QED
  BY <1>1, <1>2, <1>3, <1>4, <1>5, <1>6 DEF Step

LEMMA NextIsFine ==
    ASSUME AccountsInv, [Next]_vars
    PROVE  AccountsInv' /\ [LinkStep]_vars
<1>1. CASE UNCHANGED vars
  <2>1. UNCHANGED world /\ req' = req /\ intent' = intent /\ remembered' = remembered
        /\ clerk' = clerk
    BY <1>1 DEF vars, world
  <2>2. Fine
    BY <2>1, OutsideIsFine DEF AccountsInv, TypeOK
  <2>3. QED
    BY <2>2 DEF Fine
<1>2. CASE Next
  <2>1. ASSUME NEW r \in Requests, Step(r) \/ Abandon(r) PROVE Fine
    BY <2>1, RequestIsFine, AbandonIsFine
  <2>2. ASSUME NEW l \in Logins, BeginLogin(l) \/ LapseLogin(l) PROVE Fine
    BY <2>2, BeginLoginIsFine, LapseLoginIsFine
  <2>3. ASSUME NEW t \in Sessions, Lapse(t) \/ Age(t) \/ LapseIntent(t) PROVE Fine
    BY <2>3, LapseIsFine, AgeIsFine, LapseIntentIsFine
  <2>4. ASSUME NEW c \in Sids, LapseActive(c) \/ SignIn(c) \/ EndElsewhere(c) PROVE Fine
    BY <2>4, LapseActiveIsFine, ProviderIsFine
  <2>5. Fine
    BY <1>2, <2>1, <2>2, <2>3, <2>4 DEF Next
  <2>6. QED
    BY <2>5 DEF Fine
<1>3. QED
  BY <1>1, <1>2

(* Whatever requests are under way and wherever they stop, each has the    *)
(* locals its place asks for and can rely on what it read.                 *)
THEOREM AccountsInvariant == Spec => []AccountsInv
<1>1. Init => AccountsInv
  BY InitIsFine
<1>2. AccountsInv /\ [Next]_vars => AccountsInv'
  BY NextIsFine
<1>3. QED
  BY <1>1, <1>2, PTL DEF Spec

(* TypeOK for every set of users, sessions, logins and requests.           *)
THEOREM TypeCorrect == Spec => []TypeOK
<1>1. AccountsInv => TypeOK
  BY DEF AccountsInv
<1>2. QED
  BY <1>1, AccountsInvariant, PTL

(* However many sign-ins, connections and conversions race, a Steam account*)
(* and a subject each belong to one user, and every user can sign in.      *)
THEOREM OneOwner == Spec => []OneOwnerEach
<1>1. AccountsInv => OneOwnerEach
  BY DEF AccountsInv
<1>2. QED
  BY <1>1, AccountsInvariant, PTL

(* A live session belongs to the user its token names, and a session of    *)
(* the provider to a subject who is that user.                             *)
THEOREM SessionsMatch == Spec => []SessionsMatchIdentities
<1>1. AccountsInv => SessionsMatchIdentities
  BY DEF AccountsInv
<1>2. QED
  BY <1>1, AccountsInvariant, PTL

(* Whoever uses Steam's answer to a login finds its state gone, and whoever*)
(* gets there finds it still kept: GETDEL lets one callback through.       *)
THEOREM OneCallback == Spec => []OneCallbackPerLogin
<1>1. AccountsInv => OneCallbackPerLogin
  BY DEF AccountsInv
<1>2. QED
  BY <1>1, AccountsInvariant, PTL

(* A round trip that began a connection stays with the session and user    *)
(* that began it, and a sign-in with none, up to the write.                *)
THEOREM SteamLands == Spec => []SteamLandsWhereAsked
<1>1. ASSUME AccountsInv
      PROVE  SteamLandsWhereAsked
  <2> SUFFICES ASSUME NEW r \in Requests, req[r].at \in Answered
               PROVE  IF req[r].doing = "steamBack"
                      THEN req[r].stored.session = None
                      ELSE /\ req[r].stored.session = req[r].token
                           /\ req[r].stored.user = tokens[req[r].token].user
    BY DEF SteamLandsWhereAsked
  <2>1. Shape(req[r]) /\ Relies(req[r]) /\ req[r].at \in RoundTrip
    BY <1>1, InvOf DEF Answered, RoundTrip
  <2>2. CASE req[r].doing = "steamBack"
    BY <2>1, <2>2 DEF Shape
  <2>3. CASE req[r].doing # "steamBack"
    BY <2>1, <2>3 DEF Shape, Relies
  <2>4. QED
    BY <2>2, <2>3
<1>2. QED
  BY <1>1, AccountsInvariant, PTL

(* The session that an exchange replaces while it is alive is of the user  *)
(* it signs in, or a Steam session whose user has been converted.          *)
THEOREM SwitchesAfterSignOut == Spec => []SwitchesOnlyAfterSignOut
<1>1. ASSUME AccountsInv
      PROVE  SwitchesOnlyAfterSignOut
  <2> SUFFICES ASSUME NEW r \in Requests, req[r].doing = "exchange",
                      req[r].at \in {"issue", "publish", "dropOld"},
                      req[r].token # None, sessions[req[r].token] # None
               PROVE  \/ sessions[req[r].token] = req[r].user
                      \/ /\ ~tokens[req[r].token].viaProvider
                         /\ identity[sessions[req[r].token]] # None
    BY DEF SwitchesOnlyAfterSignOut
  <2>1. /\ Shape(req[r]) /\ Relies(req[r]) /\ SessionsMatchIdentities /\ OneOwnerEach /\ TypeOK
        /\ req[r] \in Request
    BY <1>1, InvOf
  <2>2. req[r].token \in Sessions /\ tokens[req[r].token] # None
    BY <1>1, HeldIsNotFresh
  <2>3. sessions[req[r].token] = tokens[req[r].token].user
    BY <2>1, <2>2 DEF SessionsMatchIdentities
  <2>4. req[r].sid # None /\ req[r].user # None
    BY <2>1 DEF Shape, WithUser
  <2>5. identity[req[r].user] = req[r].sid.subject
    BY <2>1, <2>4 DEF Relies, Issued
  <2>6. Replaceable(tokens[req[r].token], req[r].sid)
    BY <2>1 DEF Relies, Replacing
  <2>7. CASE tokens[req[r].token].viaProvider
    <3>1. identity[tokens[req[r].token].user] = req[r].sid.subject
      BY <2>6, <2>7 DEF Replaceable
    <3>2. req[r].sid.subject # None
      BY <2>1, <2>4, AccountsAssumption DEF Request, Maybe, Sids
    <3>3. tokens[req[r].token].user \in UserIds /\ req[r].user \in UserIds
      BY <2>1, <2>2, <2>4 DEF TypeOK, Token, Request, Maybe
    <3>4. QED
      BY <2>1, <2>3, <2>5, <3>1, <3>2, <3>3 DEF OneOwnerEach
  <2>8. CASE ~tokens[req[r].token].viaProvider
    BY <2>3, <2>6, <2>8 DEF Replaceable
  <2>9. QED
    BY <2>7, <2>8
<1>2. QED
  BY <1>1, AccountsInvariant, PTL

(* No step of any request moves a Steam account or an identity, and a user *)
(* who exists gains one only by a request in a session of its own.         *)
THEOREM LinksStay == Spec => LinksAreForever
<1>1. AccountsInv /\ [Next]_vars => [LinkStep]_vars
  BY NextIsFine
<1>2. QED
  BY <1>1, AccountsInvariant, PTL DEF Spec, LinksAreForever, LinkStep
=============================================================================
