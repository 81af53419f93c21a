------------------------------ MODULE Accounts ------------------------------
(***************************************************************************)
(* Sign-in and account linking: the Steam round trip (app/routers/auth.py),*)
(* the exchange and conversion of accounts signed in through the account   *)
(* provider (app/routers/accounts.py), and the check in front of every     *)
(* signed-in route (app/deps.py, app/clerk_auth.py).                       *)
(*                                                                         *)
(* Each call to Redis, each answer of the provider or of Steam and each    *)
(* commit is an action, so requests interleave wherever the code awaits,   *)
(* and between a query and a commit, where another API process may come.   *)
(* A request that is refused before it changed anything leaves no trace    *)
(* and is not modelled.  Redis errors, provider outages and restarts drop  *)
(* a request between any two of its steps (Abandon).                       *)
(***************************************************************************)
EXTENDS FiniteSets

CONSTANTS UserIds,   \* bound on the users
          SteamIds,
          Subjects,  \* people at the account provider
          Visits,    \* bound on the provider sessions of one subject
          Sessions,  \* bound on the session ids in use at one time
          Logins,    \* bound on the Steam round trips under way at one time
          Requests,  \* bound on the requests in progress
          Routes,    \* the routes that are called
          None

SignedInRoutes == {"read", "logout", "startLink", "cancelLink", "completeLink",
                   "startConnect", "connectBack"}
AllRoutes == SignedInRoutes \cup {"steamBack", "exchange"}

Maybe(S) == S \cup {None}

(* A session at the provider: the sid and sub claims of its tokens.        *)
Sids == [subject : Subjects, visit : Visits]

(* What the signed token of a session says, and whether its sign-in is     *)
(* recent: within LINK_SECONDS.                                            *)
Token == [user : UserIds, viaProvider : BOOLEAN, recent : BOOLEAN]

(* What a login state is bound to: the secret in the cookie of the browser *)
(* that began it, and for a connection also its session and user.          *)
Binding == [secret : Logins, session : Maybe(Sessions), user : Maybe(UserIds)]

(* None is none of the values it stands beside.                            *)
ASSUME AccountsAssumption ==
    /\ Routes \subseteq AllRoutes
    /\ None \notin UserIds \cup SteamIds \cup Subjects \cup Sessions \cup Logins
    /\ None \notin Sids \cup Token \cup Binding
    /\ None \notin AllRoutes

VARIABLES
    users,       \* table users: the ids in use
    identity,    \* table auth_identities: identity[u] is the subject of u
    steam,       \* table linked_accounts, Steam rows: steam[u]
    sessions,    \* Redis session:<id>, the user it was issued to
    provider,    \* Redis provider-session:<id>
    intent,      \* Redis account-link:<id>
    logins,      \* Redis login:<state>, see Binding
    remembered,  \* Redis provider-active:<sid>
    tokens,      \* the session tokens browsers hold, see Token
    clerk,       \* the provider: what became of each of its sessions
    req          \* req[r]: where request r is and its locals, see Request

accounts == <<users, identity, steam>>
keys == <<sessions, provider, intent, logins, remembered>>
vars == <<users, identity, steam, sessions, provider, intent, logins,
          remembered, tokens, clerk, req>>

Places == {"idle", "identity", "provider", "recall", "ask", "remember", "serve",
           "dropped", "forget", "revoke", "intend", "verify", "recheck", "claim",
           "convert", "factors", "consume", "steamSays", "owner", "summary",
           "converted", "attach", "old", "lookup", "join", "issue", "publish",
           "dropOld", "dropProvider", "hand"}
Request == [at : Places, doing : Maybe(AllRoutes), token : Maybe(Sessions),
            user : Maybe(UserIds), sid : Maybe(Sids), identity : Maybe(Subjects),
            login : Maybe(Logins), stored : Maybe(Binding),
            steam : Maybe(SteamIds), fresh : Maybe(Sessions)]
Quiet == [at |-> "idle", doing |-> None, token |-> None, user |-> None,
          sid |-> None, identity |-> None, login |-> None, stored |-> None,
          steam |-> None, fresh |-> None]

TypeOK ==
    /\ users \subseteq UserIds
    /\ identity \in [UserIds -> Maybe(Subjects)]
    /\ steam \in [UserIds -> Maybe(SteamIds)]
    /\ sessions \in [Sessions -> Maybe(UserIds)]
    /\ provider \in [Sessions -> Maybe(Sids)]
    /\ intent \in [Sessions -> Maybe(UserIds)]
    /\ logins \in [Logins -> Maybe(Binding)]
    /\ remembered \subseteq Sids
    /\ tokens \in [Sessions -> Maybe(Token)]
    /\ clerk \in [Sids -> {"none", "active", "ended", "signedOut"}]
    /\ req \in [Requests -> Request]

Init ==
    /\ users = {}
    /\ identity = [u \in UserIds |-> None]
    /\ steam = [u \in UserIds |-> None]
    /\ sessions = [t \in Sessions |-> None]
    /\ provider = [t \in Sessions |-> None]
    /\ intent = [t \in Sessions |-> None]
    /\ logins = [l \in Logins |-> None]
    /\ remembered = {}
    /\ tokens = [t \in Sessions |-> None]
    /\ clerk = [c \in Sids |-> "none"]
    /\ req = [r \in Requests |-> Quiet]

At(r, place) == req[r].at = place
Serving(r, route) ==
    At(r, "serve") /\ route \in Routes /\ (req[r].doing = "logout" <=> route = "logout")
Become(r, locals) == req' = [req EXCEPT ![r] = locals]
Goto(r, place) == Become(r, [req[r] EXCEPT !.at = place])
Answer(r) == Become(r, Quiet)

SubjectOwned(c) == \E u \in UserIds : identity[u] = c
SteamOwned(s) == \E u \in UserIds : steam[u] = s

-----------------------------------------------------------------------------
(* get_current_user: the session in Redis, the identity of its user, and   *)
(* for a session of the provider a live check, remembered for 30 seconds.  *)
(* Only sign-out skips that check; which other route it is for does not    *)
(* matter before it is served.                                             *)

Arrive(r, t, route) ==
    /\ At(r, "idle")
    /\ route \in Routes
    /\ tokens[t] # None
    /\ sessions[t] = tokens[t].user
    /\ Become(r, [Quiet EXCEPT !.at = "identity", !.token = t, !.user = tokens[t].user,
           !.doing = IF route = "logout" THEN route ELSE None])
    /\ UNCHANGED <<accounts, keys, tokens, clerk>>

CheckIdentity(r) ==
    /\ At(r, "identity")
    /\ LET known == identity[req[r].user]
       IN  IF tokens[req[r].token].viaProvider
           THEN Become(r, [req[r] EXCEPT !.at = "provider", !.identity = known])
           ELSE IF known = None THEN Goto(r, "serve") ELSE Answer(r)
    /\ UNCHANGED <<accounts, keys, tokens, clerk>>

ReadProvider(r) ==
    /\ At(r, "provider")
    /\ LET c == provider[req[r].token]
       IN  IF c # None /\ req[r].identity = c.subject
           THEN Become(r, [req[r] EXCEPT !.sid = c, !.identity = None,
                    !.at = IF req[r].doing = "logout" THEN "serve" ELSE "recall"])
           ELSE Answer(r)
    /\ UNCHANGED <<accounts, keys, tokens, clerk>>

(* confirm_active *)
Recall(r) ==
    /\ At(r, "recall")
    /\ Goto(r, IF req[r].sid \in remembered THEN "serve" ELSE "ask")
    /\ UNCHANGED <<accounts, keys, tokens, clerk>>

AskProvider(r) ==
    /\ At(r, "ask")
    /\ IF clerk[req[r].sid] = "active" THEN Goto(r, "remember") ELSE Answer(r)
    /\ UNCHANGED <<accounts, keys, tokens, clerk>>

Remember(r) ==
    /\ At(r, "remember")
    /\ remembered' = remembered \cup {req[r].sid}
    /\ Goto(r, "serve")
    /\ UNCHANGED <<accounts, sessions, provider, intent, logins, tokens, clerk>>

(* Any other signed-in route.                                              *)
Read(r) ==
    /\ Serving(r, "read")
    /\ Answer(r)
    /\ UNCHANGED <<accounts, keys, tokens, clerk>>

-----------------------------------------------------------------------------
(* POST /auth/logout *)

DeleteSession(r) ==
    /\ Serving(r, "logout")
    /\ sessions' = [sessions EXCEPT ![req[r].token] = None]
    /\ Goto(r, "dropped")
    /\ UNCHANGED <<accounts, provider, intent, logins, remembered, tokens, clerk>>

DeleteProvider(r) ==
    /\ At(r, "dropped")
    /\ provider' = [provider EXCEPT ![req[r].token] = None]
    /\ IF req[r].sid = None THEN Answer(r) ELSE Goto(r, "forget")
    /\ UNCHANGED <<accounts, sessions, intent, logins, remembered, tokens, clerk>>

ForgetActive(r) ==
    /\ At(r, "forget")
    /\ remembered' = remembered \ {req[r].sid}
    /\ Goto(r, "revoke")
    /\ UNCHANGED <<accounts, sessions, provider, intent, logins, tokens, clerk>>

(* A session that is over already is a 404 there and fine here.            *)
Revoke(r) ==
    /\ At(r, "revoke")
    /\ clerk' = IF clerk[req[r].sid] = "active"
                THEN [clerk EXCEPT ![req[r].sid] = "signedOut"] ELSE clerk
    /\ Answer(r)
    /\ UNCHANGED <<accounts, keys, tokens>>

-----------------------------------------------------------------------------
(* issue_session: the provider record first, then the session itself, then *)
(* the answer hands the token over.                                        *)

Unused(n) ==
    /\ tokens[n] = None
    /\ sessions[n] = None
    /\ provider[n] = None
    /\ \A r \in Requests : n \notin {req[r].token, req[r].fresh}
    /\ \A l \in Logins : logins[l] # None => logins[l].session # n

KeepProvider(r) ==
    /\ At(r, "issue")
    /\ req[r].sid # None
    /\ \E n \in Sessions :
           /\ Unused(n)
           /\ provider' = [provider EXCEPT ![n] = req[r].sid]
           /\ Become(r, [req[r] EXCEPT !.at = "publish", !.fresh = n])
    /\ UNCHANGED <<accounts, sessions, intent, logins, remembered, tokens, clerk>>

(* complete_link and exchange then end the session they replace.           *)
AfterIssue(r) == IF req[r].token = None THEN "hand" ELSE "dropOld"

PublishAs(r, n) ==
    /\ sessions' = [sessions EXCEPT ![n] = req[r].user]
    /\ Become(r, [req[r] EXCEPT !.at = AfterIssue(r), !.fresh = n])

Publish(r) ==
    /\ \/ At(r, "publish") /\ PublishAs(r, req[r].fresh)
       \/ /\ At(r, "issue")
          /\ req[r].sid = None
          /\ \E n \in Sessions : Unused(n) /\ PublishAs(r, n)
    /\ UNCHANGED <<accounts, provider, intent, logins, remembered, tokens, clerk>>

(* Bug: the provider record of the old session goes first.                  *)
DropProviderFirst(r) ==
    /\ At(r, "dropOld")
    /\ provider' = [provider EXCEPT ![req[r].token] = None]
    /\ Goto(r, "hand")
    /\ UNCHANGED <<accounts, sessions, intent, logins, remembered, tokens, clerk>>

DropSession(r) ==
    /\ At(r, "dropOld")
    /\ sessions' = [sessions EXCEPT ![req[r].token] = None]
    /\ Goto(r, IF req[r].doing = "exchange" THEN "dropProvider" ELSE "hand")
    /\ UNCHANGED <<accounts, provider, intent, logins, remembered, tokens, clerk>>

DropProvider(r) ==
    /\ At(r, "dropProvider")
    /\ provider' = [provider EXCEPT ![req[r].token] = None]
    /\ Goto(r, "hand")
    /\ UNCHANGED <<accounts, sessions, intent, logins, remembered, tokens, clerk>>

HandOver(r) ==
    /\ At(r, "hand")
    /\ tokens' = [tokens EXCEPT ![req[r].fresh] =
           [user |-> req[r].user, viaProvider |-> req[r].sid # None, recent |-> TRUE]]
    /\ Answer(r)
    /\ UNCHANGED <<accounts, keys, clerk>>

-----------------------------------------------------------------------------
(* The Steam round trip: begin_steam and verified_steam_id.                *)

NewLogin(l) ==
    /\ logins[l] = None
    /\ \A r \in Requests : req[r].login # l

(* GET /auth/steam/login *)
BeginLogin(l) ==
    /\ "steamBack" \in Routes
    /\ NewLogin(l)
    /\ logins' = [logins EXCEPT ![l] = [secret |-> l, session |-> None, user |-> None]]
    /\ UNCHANGED <<accounts, sessions, provider, intent, remembered, tokens, clerk, req>>

(* What the stored binding must be: the browser has the cookie of login k, *)
(* and a connection comes back to its session and user.                    *)
Expected(r, k) == [secret |-> k, session |-> req[r].token, user |-> req[r].user]
(* Bug: only the browser is compared.                                       *)
MatchesBrowser(r, l, k) == logins[l] # None /\ logins[l].secret = k

Matches(r, l, k) == logins[l] = Expected(r, k)

(* GET /auth/steam/callback, up to the GET of the state                    *)
SteamBack(r, l, k) ==
    /\ At(r, "idle")
    /\ "steamBack" \in Routes
    /\ Matches(r, l, k)
    /\ Become(r, [Quiet EXCEPT !.at = "consume", !.doing = "steamBack",
                               !.login = l, !.stored = logins[l]])
    /\ UNCHANGED <<accounts, keys, tokens, clerk>>

(* GET /auth/steam/connect/callback, likewise                              *)
ConnectBack(r, l, k) ==
    /\ Serving(r, "connectBack")
    /\ IF Matches(r, l, k)
       THEN Become(r, [req[r] EXCEPT !.at = "consume", !.doing = "connectBack",
                                     !.login = l, !.stored = logins[l]])
       ELSE Answer(r)
    /\ UNCHANGED <<accounts, keys, tokens, clerk>>

(* Bug: GET and DELETE, without comparing what was deleted.                 *)
ConsumeBlindly(r) ==
    /\ At(r, "consume")
    /\ Goto(r, "steamSays")
    /\ logins' = [logins EXCEPT ![req[r].login] = None]
    /\ UNCHANGED <<accounts, sessions, provider, intent, remembered, tokens, clerk>>

(* GETDEL admits one callback of a login.                                  *)
Consume(r) ==
    /\ At(r, "consume")
    /\ IF logins[req[r].login] = req[r].stored THEN Goto(r, "steamSays") ELSE Answer(r)
    /\ logins' = [logins EXCEPT ![req[r].login] = None]
    /\ UNCHANGED <<accounts, sessions, provider, intent, remembered, tokens, clerk>>

(* Steam confirms the assertion; a refusal ends the request like Abandon.  *)
(* Its nonce is recorded after that, but an assertion names the one login  *)
(* it answers, which Consume admitted once: the nonce set refuses nothing. *)
SteamSays(r, s) ==
    /\ At(r, "steamSays")
    /\ Become(r, [req[r] EXCEPT !.at = "owner", !.steam = s, !.login = None])
    /\ UNCHANGED <<accounts, keys, tokens, clerk>>

(* Sign-in goes to the owner of the Steam account, and otherwise asks for  *)
(* the player's name first.                                                *)
FindOwner(r) ==
    /\ At(r, "owner")
    /\ req[r].doing = "steamBack"
    /\ IF SteamOwned(req[r].steam)
       THEN \E u \in UserIds :
                /\ steam[u] = req[r].steam
                /\ Become(r, [req[r] EXCEPT !.at = "converted", !.user = u])
       ELSE Goto(r, "summary")
    /\ UNCHANGED <<accounts, keys, tokens, clerk>>

(* The row of a new user and its link, in one commit; the unique key makes *)
(* the loser of a race adopt the winner's user.                            *)
JoinBySteam(r) ==
    /\ At(r, "summary")
    /\ IF SteamOwned(req[r].steam)
       THEN /\ \E u \in UserIds :
                   /\ steam[u] = req[r].steam
                   /\ Become(r, [req[r] EXCEPT !.at = "converted", !.user = u])
            /\ UNCHANGED <<users, steam>>
       ELSE \E u \in UserIds \ users :
                /\ users' = users \cup {u}
                /\ steam' = [steam EXCEPT ![u] = req[r].steam]
                /\ Become(r, [req[r] EXCEPT !.at = "converted", !.user = u])
    /\ UNCHANGED <<identity, keys, tokens, clerk>>

RefuseConverted(r) ==
    /\ At(r, "converted")
    /\ IF identity[req[r].user] = None THEN Goto(r, "issue") ELSE Answer(r)
    /\ UNCHANGED <<accounts, keys, tokens, clerk>>

(* A connection: already, in use, or on to the insert.                     *)
CheckConnect(r) ==
    /\ At(r, "owner")
    /\ req[r].doing = "connectBack"
    /\ IF steam[req[r].user] # None \/ SteamOwned(req[r].steam)
       THEN Answer(r) ELSE Goto(r, "attach")
    /\ UNCHANGED <<accounts, keys, tokens, clerk>>

(* Two unique keys: one Steam account per user, one user per Steam account.*)
Attachable(u, s) == steam[u] = None /\ ~SteamOwned(s)

AttachSteam(r) ==
    /\ At(r, "attach")
    /\ steam' = IF Attachable(req[r].user, req[r].steam)
                THEN [steam EXCEPT ![req[r].user] = req[r].steam] ELSE steam
    /\ Answer(r)
    /\ UNCHANGED <<users, identity, keys, tokens, clerk>>

(* POST /auth/steam/connect: the provider session must belong to the same  *)
(* subject as this session and be active; the state is then bound to it.   *)
CheckUnconnected(r) ==
    /\ Serving(r, "startConnect")
    /\ IF req[r].sid # None /\ steam[req[r].user] = None
       THEN Goto(r, "factors") ELSE Answer(r)
    /\ UNCHANGED <<accounts, keys, tokens, clerk>>

BeginConnect(r, l, c) ==
    /\ At(r, "factors")
    /\ NewLogin(l)
    /\ c.subject = req[r].sid.subject
    /\ clerk[c] = "active"
    /\ logins' = [logins EXCEPT ![l] = Expected(r, l)]
    /\ Answer(r)
    /\ UNCHANGED <<accounts, sessions, provider, intent, remembered, tokens, clerk>>

-----------------------------------------------------------------------------
(* Conversion of a Steam account to the provider: an intent kept with the  *)
(* Steam session, completed once by a fresh session of the provider.       *)

SteamOwner(r) == ~tokens[req[r].token].viaProvider /\ steam[req[r].user] # None
FreshSteamOwner(r) == SteamOwner(r) /\ tokens[req[r].token].recent

CheckLink(r) ==
    /\ Serving(r, "startLink")
    /\ IF FreshSteamOwner(r) THEN Goto(r, "intend") ELSE Answer(r)
    /\ UNCHANGED <<accounts, keys, tokens, clerk>>

StartLink(r) ==
    /\ At(r, "intend")
    /\ intent' = [intent EXCEPT ![req[r].token] = req[r].user]
    /\ Answer(r)
    /\ UNCHANGED <<accounts, sessions, provider, logins, remembered, tokens, clerk>>

CancelLink(r) ==
    /\ Serving(r, "cancelLink")
    /\ intent' = IF SteamOwner(r) THEN [intent EXCEPT ![req[r].token] = None] ELSE intent
    /\ Answer(r)
    /\ UNCHANGED <<accounts, sessions, provider, logins, remembered, tokens, clerk>>

CompleteLink(r, c) ==
    /\ Serving(r, "completeLink")
    /\ IF FreshSteamOwner(r) /\ intent[req[r].token] = req[r].user
       THEN Become(r, [req[r] EXCEPT !.at = "verify", !.sid = c]) ELSE Answer(r)
    /\ UNCHANGED <<accounts, keys, tokens, clerk>>

(* The provider's answer, then the checks repeated after the wait.         *)
VerifyLink(r) ==
    /\ At(r, "verify")
    /\ IF /\ clerk[req[r].sid] = "active"
          /\ ~SubjectOwned(req[r].sid.subject)
          /\ FreshSteamOwner(r)
       THEN Goto(r, "recheck") ELSE Answer(r)
    /\ UNCHANGED <<accounts, keys, tokens, clerk>>

Recheck(r) ==
    /\ At(r, "recheck")
    /\ IF sessions[req[r].token] = req[r].user THEN Goto(r, "claim") ELSE Answer(r)
    /\ UNCHANGED <<accounts, keys, tokens, clerk>>

ClaimIntent(r) ==
    /\ At(r, "claim")
    /\ IF intent[req[r].token] = req[r].user THEN Goto(r, "convert") ELSE Answer(r)
    /\ intent' = [intent EXCEPT ![req[r].token] = None]
    /\ UNCHANGED <<accounts, sessions, provider, logins, remembered, tokens, clerk>>

(* Two unique keys: one identity per user, one user per subject.           *)
Identifiable(u, c) == identity[u] = None /\ ~SubjectOwned(c)

(* Bug: the identity is stored under the session of the provider.           *)
ConvertToVisit(r) ==
    /\ At(r, "convert")
    /\ identity' = [identity EXCEPT ![req[r].user] = req[r].sid]
    /\ Goto(r, "issue")
    /\ UNCHANGED <<users, steam, keys, tokens, clerk>>

Convert(r) ==
    /\ At(r, "convert")
    /\ IF Identifiable(req[r].user, req[r].sid.subject)
       THEN /\ identity' = [identity EXCEPT ![req[r].user] = req[r].sid.subject]
            /\ Goto(r, "issue")
       ELSE UNCHANGED identity /\ Answer(r)
    /\ UNCHANGED <<users, steam, keys, tokens, clerk>>

-----------------------------------------------------------------------------
(* POST /auth/clerk/session: t is the session cookie the browser still has,*)
(* c its session at the provider, which the provider confirms.             *)

Exchange(r, t, c) ==
    /\ At(r, "idle")
    /\ "exchange" \in Routes
    /\ clerk[c] = "active"
    /\ t # None => tokens[t] # None
    /\ Become(r, [Quiet EXCEPT !.at = IF t = None THEN "lookup" ELSE "old",
                               !.doing = "exchange", !.token = t, !.sid = c])
    /\ UNCHANGED <<accounts, keys, tokens, clerk>>

(* Bug: any Steam session may be replaced.                                  *)
ReplaceableSteam(old, c) == old.viaProvider => identity[old.user] = c.subject

(* A live session is only replaced by one of the same account, unless it is*)
(* a Steam session that a conversion has put out of use.                   *)
Replaceable(old, c) ==
    IF old.viaProvider THEN identity[old.user] = c.subject ELSE identity[old.user] # None

CheckOld(r) ==
    /\ At(r, "old")
    /\ IF sessions[req[r].token] = None \/ Replaceable(tokens[req[r].token], req[r].sid)
       THEN Goto(r, "lookup") ELSE Answer(r)
    /\ UNCHANGED <<accounts, keys, tokens, clerk>>

Lookup(r) ==
    /\ At(r, "lookup")
    /\ IF SubjectOwned(req[r].sid.subject)
       THEN \E u \in UserIds :
                /\ identity[u] = req[r].sid.subject
                /\ Become(r, [req[r] EXCEPT !.at = "issue", !.user = u])
       ELSE Goto(r, "join")
    /\ UNCHANGED <<accounts, keys, tokens, clerk>>

(* Bug: no unique key on the subject.                                       *)
JoinBySubjectTwice(r) ==
    /\ At(r, "join")
    /\ \E u \in UserIds \ users :
           /\ users' = users \cup {u}
           /\ identity' = [identity EXCEPT ![u] = req[r].sid.subject]
           /\ Become(r, [req[r] EXCEPT !.at = "issue", !.user = u])
    /\ UNCHANGED <<steam, keys, tokens, clerk>>

(* Bug: a first provider sign-in adopts an account that has no identity yet.*)
JoinBySubjectMerging(r) ==
    /\ At(r, "join")
    /\ ~SubjectOwned(req[r].sid.subject)
    /\ \E u \in UserIds :
           /\ identity[u] = None
           /\ users' = users \cup {u}
           /\ identity' = [identity EXCEPT ![u] = req[r].sid.subject]
           /\ Become(r, [req[r] EXCEPT !.at = "issue", !.user = u])
    /\ UNCHANGED <<steam, keys, tokens, clerk>>

JoinBySubject(r) ==
    /\ At(r, "join")
    /\ IF SubjectOwned(req[r].sid.subject)
       THEN /\ \E u \in UserIds :
                   /\ identity[u] = req[r].sid.subject
                   /\ Become(r, [req[r] EXCEPT !.at = "issue", !.user = u])
            /\ UNCHANGED <<users, identity>>
       ELSE \E u \in UserIds \ users :
                /\ users' = users \cup {u}
                /\ identity' = [identity EXCEPT ![u] = req[r].sid.subject]
                /\ Become(r, [req[r] EXCEPT !.at = "issue", !.user = u])
    /\ UNCHANGED <<steam, keys, tokens, clerk>>

-----------------------------------------------------------------------------
(* Time, failures and the provider.                                        *)

Held(t) == \E r \in Requests : t \in {req[r].token, req[r].fresh}

(* The time of session t is up: its keys and, for browsers, its token.  The*)
(* token ends before the keys do, so they go together.                     *)
Lapse(t) ==
    /\ \A r \in Requests : req[r].fresh # t
    /\ {sessions[t], provider[t], intent[t], tokens[t]} # {None}
    /\ sessions' = [sessions EXCEPT ![t] = None]
    /\ provider' = [provider EXCEPT ![t] = None]
    /\ intent' = [intent EXCEPT ![t] = None]
    /\ tokens' = IF Held(t) THEN tokens ELSE [tokens EXCEPT ![t] = None]
    /\ UNCHANGED <<accounts, logins, remembered, clerk, req>>

(* LINK_SECONDS after the sign-in.                                         *)
Age(t) ==
    /\ tokens[t] # None
    /\ tokens[t].recent
    /\ tokens' = [tokens EXCEPT ![t].recent = FALSE]
    /\ UNCHANGED <<accounts, keys, clerk, req>>

LapseIntent(t) ==
    /\ intent[t] # None
    /\ intent' = [intent EXCEPT ![t] = None]
    /\ UNCHANGED <<accounts, sessions, provider, logins, remembered, tokens, clerk, req>>

LapseLogin(l) ==
    /\ logins[l] # None
    /\ logins' = [logins EXCEPT ![l] = None]
    /\ UNCHANGED <<accounts, sessions, provider, intent, remembered, tokens, clerk, req>>

(* ACTIVE_SECONDS after it was remembered.                                 *)
LapseActive(c) ==
    /\ c \in remembered
    /\ remembered' = remembered \ {c}
    /\ UNCHANGED <<accounts, sessions, provider, intent, logins, tokens, clerk, req>>

Abandon(r) ==
    /\ ~At(r, "idle")
    /\ Answer(r)
    /\ UNCHANGED <<accounts, keys, tokens, clerk>>

(* A person signs in there, and the provider ends a session on its own.    *)
SignIn(c) ==
    /\ clerk[c] = "none"
    /\ clerk' = [clerk EXCEPT ![c] = "active"]
    /\ UNCHANGED <<accounts, keys, tokens, req>>

EndElsewhere(c) ==
    /\ clerk[c] = "active"
    /\ clerk' = [clerk EXCEPT ![c] = "ended"]
    /\ UNCHANGED <<accounts, keys, tokens, req>>

-----------------------------------------------------------------------------
Admission(r) ==
    \/ \E t \in Sessions, route \in SignedInRoutes : Arrive(r, t, route)
    \/ CheckIdentity(r) \/ ReadProvider(r) \/ Recall(r) \/ AskProvider(r) \/ Remember(r)
    \/ Read(r)

Logout(r) ==
    DeleteSession(r) \/ DeleteProvider(r) \/ ForgetActive(r) \/ Revoke(r)

IssueSession(r) ==
    KeepProvider(r) \/ Publish(r) \/ DropSession(r) \/ DropProvider(r) \/ HandOver(r)

SteamRoundTrip(r) ==
    \/ \E l, k \in Logins : SteamBack(r, l, k) \/ ConnectBack(r, l, k)
    \/ Consume(r)
    \/ \E s \in SteamIds : SteamSays(r, s)
    \/ FindOwner(r) \/ JoinBySteam(r) \/ RefuseConverted(r)
    \/ CheckConnect(r) \/ AttachSteam(r)
    \/ CheckUnconnected(r)
    \/ \E l \in Logins, c \in Sids : BeginConnect(r, l, c)

Conversion(r) ==
    \/ CheckLink(r) \/ StartLink(r) \/ CancelLink(r)
    \/ \E c \in Sids : CompleteLink(r, c)
    \/ VerifyLink(r) \/ Recheck(r) \/ ClaimIntent(r) \/ Convert(r)

ProviderSignIn(r) ==
    \/ \E t \in Maybe(Sessions), c \in Sids : Exchange(r, t, c)
    \/ CheckOld(r) \/ Lookup(r) \/ JoinBySubject(r)

Step(r) == Admission(r) \/ Logout(r) \/ IssueSession(r) \/ SteamRoundTrip(r)
           \/ Conversion(r) \/ ProviderSignIn(r)

Next ==
    \/ \E r \in Requests : Step(r) \/ Abandon(r)
    \/ \E l \in Logins : BeginLogin(l) \/ LapseLogin(l)
    \/ \E t \in Sessions : Lapse(t) \/ Age(t) \/ LapseIntent(t)
    \/ \E c \in Sids : LapseActive(c) \/ SignIn(c) \/ EndElsewhere(c)

Spec == Init /\ [][Next]_vars

-----------------------------------------------------------------------------
(* Properties                                                              *)

(* Steam sign-ins, exchanges, connections and conversions race, and each   *)
(* looks before it inserts: still a Steam account and a provider subject   *)
(* each belong to one user, and every user has a way to sign in.           *)
OneOwnerEach ==
    /\ \A u, v \in UserIds : identity[u] = identity[v] /\ identity[u] # None => u = v
    /\ \A u, v \in UserIds : steam[u] = steam[v] /\ steam[u] # None => u = v
    /\ \A u \in UserIds : u \in users <=> identity[u] # None \/ steam[u] # None

(* Every session that get_current_user would find alive is the session of  *)
(* the user its token names, and a session of the provider has its record, *)
(* of a subject who is that user: the two keys are written and dropped in  *)
(* the order that keeps this true, whatever is abandoned in between, and   *)
(* the loser of a race to create a user signs in to the winner's.          *)
SessionsMatchIdentities ==
    \A t \in Sessions :
        tokens[t] # None /\ sessions[t] # None =>
            /\ sessions[t] = tokens[t].user
            /\ tokens[t].viaProvider =>
                   /\ provider[t] # None
                   /\ identity[sessions[t]] = provider[t].subject

(* Two callbacks may present one login at once, and both find its state:   *)
(* GETDEL lets only one of them go on to use Steam's answer.               *)
OneCallbackPerLogin ==
    \A r, o \in Requests :
        At(r, "steamSays") /\ At(o, "steamSays") /\ req[r].login = req[o].login => r = o

(* A round trip begun to connect Steam never signs anyone in, and lands on *)
(* the session and user that began it, however many logins, sessions and   *)
(* browsers are under way: connect_binding.                                *)
Answered == {"steamSays", "owner", "summary", "converted", "attach"}
SteamLandsWhereAsked ==
    \A r \in Requests :
        req[r].at \in Answered =>
            IF req[r].doing = "steamBack"
            THEN req[r].stored.session = None
            ELSE /\ req[r].stored.session = req[r].token
                 /\ req[r].stored.user = tokens[req[r].token].user

(* An exchange never silently switches a browser between accounts: while   *)
(* the session it is about to replace is alive, it is one of the same user *)
(* or a Steam session its user's conversion put out of use.                *)
SwitchesOnlyAfterSignOut ==
    \A r \in Requests :
        /\ req[r].doing = "exchange"
        /\ req[r].at \in {"issue", "publish", "dropOld"}
        /\ req[r].token # None
        /\ sessions[req[r].token] # None
        => \/ sessions[req[r].token] = req[r].user
           \/ /\ ~tokens[req[r].token].viaProvider
              /\ identity[sessions[req[r].token]] # None

(* Nothing ever moves a Steam account or an identity to another user, and  *)
(* a user who exists gains one only by a request in a session of its own:  *)
(* no sign-in merges into an existing account.                             *)
ByOneOf(u) ==
    \E r \in Requests :
        /\ req[r].token # None
        /\ tokens[req[r].token].user = u
        /\ req'[r] # req[r]
LinksAreForever ==
    [][\A u \in UserIds :
        /\ identity[u] # None => identity'[u] = identity[u]
        /\ steam[u] # None => steam'[u] = steam[u]
        /\ u \in users /\ <<identity'[u], steam'[u]>> # <<identity[u], steam[u]>>
               => ByOneOf(u)]_vars

(* A sign-out takes effect at once: once it has revoked the provider's     *)
(* session, no request in any session built on that one is let through on  *)
(* the remembered liveness.                                                *)
NoGraceAfterSignOut ==
    [][\A r \in Requests :
        At(r, "recall") /\ clerk[req[r].sid] = "signedOut" => req'[r].at # "serve"]_vars

=============================================================================
