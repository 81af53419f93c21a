------------------------------ MODULE PsnLink ------------------------------
(***************************************************************************)
(* Linking a PlayStation account (app/routers/psn.py).                     *)
(*                                                                         *)
(* A session asks for a code for a profile, its player puts the code into  *)
(* the About Me of that profile, and a check reads the profile and links   *)
(* the account.  Every request gives way to the others at each await:      *)
(* Redis, Sony.                                                            *)
(***************************************************************************)
EXTENDS Naturals, FiniteSets

CONSTANTS Users,
          Sessions,
          OwnerOf,    \* OwnerOf[s]: the user signed in as s
          Profiles,   \* PSN accounts
          Codes,      \* the one-time codes there are (bound)
          Requests,   \* requests under way at once (bound)
          None

ASSUME LinkAssumption ==
    /\ OwnerOf \in [Sessions -> Users]
    /\ None \notin Codes \cup Profiles \cup Sessions \cup Users
    /\ None \notin [session : Sessions, account : Profiles]

VARIABLES
    alive,    \* the sessions that are not revoked
    linked,   \* linked[u]: the PSN account of u and the code it was linked by
    issued,   \* issued[k]: who asked for code k and for which account
    pending,  \* pending[s]: the code that waits in the session, or None
    aboutMe,  \* aboutMe[p]: the code in the profile's text, or None
    req,      \* req[r], see Request
    proved,   \* history: codes Sony showed while their session was live
    dropped   \* history: codes cancelled, replaced or expired

vars == <<alive, linked, issued, pending, aboutMe, req, proved, dropped>>
history == <<proved, dropped>>
players == <<alive, aboutMe>>

(* A link waits for its code to be made, a check for its code to be shown. *)
Request == [for : {"link", "check"},
            at : {"pending", "sony", "session", "consume", "insert"},
            session : Sessions \cup {None}, account : Profiles \cup {None},
            code : Codes \cup {None}]

(* Types, and: what waits in a session was issued to that session. *)
TypeOK ==
    /\ alive \subseteq Sessions
    /\ linked \in [Users -> [account : Profiles, code : Codes] \cup {None}]
    /\ issued \in [Codes -> [session : Sessions, account : Profiles] \cup {None}]
    /\ pending \in [Sessions -> Codes \cup {None}]
    /\ \A s \in Sessions : pending[s] # None => issued[pending[s]].session = s
    /\ aboutMe \in [Profiles -> Codes \cup {None}]
    /\ req \in [Requests -> Request \cup {None}]
    /\ proved \subseteq Codes
    /\ dropped \subseteq Codes

Init ==
    /\ alive = Sessions
    /\ linked = [u \in Users |-> None]
    /\ issued = [k \in Codes |-> None]
    /\ pending = [s \in Sessions |-> None]
    /\ aboutMe = [p \in Profiles |-> None]
    /\ req = [r \in Requests |-> None]
    /\ proved = {}
    /\ dropped = {}

At(r, step) == req[r] # None /\ req[r].at = step
Goes(r, step) == req' = [req EXCEPT ![r].at = step]
Ends(r) == req' = [req EXCEPT ![r] = None]
Taken(p) == \E u \in Users : linked[u] # None /\ linked[u].account = p

(* _pending_key *)
PendingKey(s) == s

(* What a session's key loses is dropped, unless it is being linked. *)
Drops(s) == dropped' = IF pending[PendingKey(s)] = None
                       THEN dropped ELSE dropped \cup {pending[PendingKey(s)]}

-----------------------------------------------------------------------------
(* Routes *)

(* POST /auth/psn/link *)
StartLink(r, s, p) ==
    /\ req[r] = None
    /\ s \in alive
    /\ linked[OwnerOf[s]] = None
    /\ req' = [req EXCEPT ![r] = [for |-> "link", at |-> "sony", session |-> s,
                                  account |-> p, code |-> None]]
    /\ UNCHANGED <<players, linked, issued, pending, history>>

(* POST /auth/psn/link/check *)
CheckLink(r, s) ==
    /\ req[r] = None
    /\ s \in alive
    /\ linked[OwnerOf[s]] = None
    /\ req' = [req EXCEPT ![r] = [for |-> "check", at |-> "pending", session |-> s,
                                  account |-> None, code |-> None]]
    /\ UNCHANGED <<players, linked, issued, pending, history>>

(* DELETE /auth/psn/link *)
CancelLink(s) ==
    /\ s \in alive
    /\ pending[PendingKey(s)] # None
    /\ pending' = [pending EXCEPT ![PendingKey(s)] = None]
    /\ Drops(s)
    /\ UNCHANGED <<players, linked, issued, req, proved>>

(* The check reads the code that waits in its session. *)
ReadPending(r) ==
    /\ At(r, "pending")
    /\ LET code == pending[PendingKey(req[r].session)]
       IN  IF code = None
           THEN Ends(r)
           ELSE req' = [req EXCEPT ![r].at = "sony", ![r].code = code,
                                   ![r].account = issued[code].account]
    /\ UNCHANGED <<players, linked, issued, pending, history>>

-----------------------------------------------------------------------------
(* Sony answers *)

(* The Online ID resolves to an account; a taken one ends the request. *)
Resolve(r) ==
    /\ At(r, "sony")
    /\ req[r].for = "link"
    /\ IF Taken(req[r].account) THEN Ends(r) ELSE Goes(r, "insert")
    /\ UNCHANGED <<players, linked, issued, pending, history>>

(* verification_matches: the code that was pending is in the About Me. *)
Found(r) == aboutMe[req[r].account] = req[r].code

ShowProfile(r) ==
    /\ At(r, "sony")
    /\ req[r].for = "check"
    /\ IF Found(r) THEN Goes(r, "session") ELSE Ends(r)
    /\ proved' = IF Found(r) /\ req[r].session \in alive
                 THEN proved \cup {req[r].code} ELSE proved
    /\ UNCHANGED <<players, linked, issued, pending, dropped>>

(* Sony is known to reject the NPSSO, rejects it now, is busy, does not    *)
(* answer or does not show the profile; or Redis fails.                    *)
GiveUp(r) ==
    /\ req[r] # None
    /\ Ends(r)
    /\ UNCHANGED <<players, linked, issued, pending, history>>

-----------------------------------------------------------------------------
(* After Sony *)

(* start_link: a new code replaces what waited in the session. *)
Issue(r, code) ==
    /\ At(r, "insert")
    /\ req[r].for = "link"
    /\ issued[code] = None
    /\ LET s == req[r].session
       IN  /\ issued' = [issued EXCEPT ![code] = [session |-> s, account |-> req[r].account]]
           /\ pending' = [pending EXCEPT ![PendingKey(s)] = code]
           /\ Drops(s)
    /\ Ends(r)
    /\ UNCHANGED <<players, linked, proved>>

(* Bug: the session is not looked at again after Sony answered. *)
LiveUnchecked(r) == TRUE

StillLive(r) == req[r].session \in alive

RecheckSession(r) ==
    /\ At(r, "session")
    /\ IF StillLive(r) THEN Goes(r, "consume") ELSE Ends(r)
    /\ UNCHANGED <<players, linked, issued, pending, history>>

(* Bug: the code read before Sony was asked is used. *)
RedeemedEarly(r) == req[r].code

(* What GETDEL returns: one request gets the code. *)
Redeemed(r) == pending[PendingKey(req[r].session)]

(* It must be what Sony was asked about. *)
Consume(r) ==
    /\ At(r, "consume")
    /\ LET s == req[r].session
           code == Redeemed(r)
       IN  /\ pending' = [pending EXCEPT ![PendingKey(s)] = None]
           /\ IF code # None /\ code = req[r].code /\ ~Taken(issued[code].account)
              THEN Goes(r, "insert") /\ UNCHANGED dropped
              ELSE Ends(r) /\ Drops(s)
    /\ UNCHANGED <<players, linked, issued, proved>>

(* The unique keys let one account in per user and one user per account.   *)
(* Another API process may insert between the check and this one.          *)
Insert(r) ==
    /\ At(r, "insert")
    /\ req[r].for = "check"
    /\ LET u == OwnerOf[req[r].session]
       IN  linked' = IF linked[u] = None /\ ~Taken(req[r].account)
                     THEN [linked EXCEPT ![u] = [account |-> req[r].account,
                                                 code |-> req[r].code]]
                     ELSE linked
    /\ Ends(r)
    /\ UNCHANGED <<players, issued, pending, history>>

-----------------------------------------------------------------------------
(* Players and time *)

(* Somebody puts a code that was issued into a profile's text. *)
WriteAboutMe(p, code) ==
    /\ issued[code] # None
    /\ aboutMe[p] # code
    /\ aboutMe' = [aboutMe EXCEPT ![p] = code]
    /\ UNCHANGED <<alive, linked, issued, pending, req, history>>

Revoke(s) ==
    /\ s \in alive
    /\ alive' = alive \ {s}
    /\ UNCHANGED <<aboutMe, linked, issued, pending, req, history>>

CodeExpires(s) ==
    /\ pending[s] # None
    /\ pending' = [pending EXCEPT ![s] = None]
    /\ Drops(s)
    /\ UNCHANGED <<players, linked, issued, req, proved>>

Route(r) ==
    \/ \E s \in Sessions : CheckLink(r, s) \/ \E p \in Profiles : StartLink(r, s, p)
    \/ ReadPending(r)
    \/ Resolve(r) \/ ShowProfile(r) \/ GiveUp(r)
    \/ \E code \in Codes : Issue(r, code)
    \/ RecheckSession(r) \/ Consume(r) \/ Insert(r)

World ==
    \/ \E s \in Sessions : CancelLink(s) \/ Revoke(s) \/ CodeExpires(s)
    \/ \E p \in Profiles, code \in Codes : WriteAboutMe(p, code)

Next == (\E r \in Requests : Route(r)) \/ World

Spec == Init /\ [][Next]_vars

-----------------------------------------------------------------------------
(* Properties *)

(* A PSN account is linked to a user only after Sony showed, in the        *)
(* profile of that very account and while the session was live, the code   *)
(* issued to that session for it; whatever else happens between the        *)
(* reading of the pending code and the insert.                             *)
LinkedByProof ==
    \A u \in Users : linked[u] # None =>
        LET code == linked[u].code
        IN  /\ code \in proved
            /\ OwnerOf[issued[code].session] = u
            /\ issued[code].account = linked[u].account

(* A code that was cancelled, replaced or expired before it was consumed   *)
(* links nothing, though its check was already waiting for Sony.           *)
DroppedCodesNeverLink ==
    \A u \in Users : linked[u] # None => linked[u].code \notin dropped
=============================================================================
