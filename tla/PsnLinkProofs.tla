--------------------------- MODULE PsnLinkProofs ---------------------------
(***************************************************************************)
(* Theorems of PsnLink, for every set of users, sessions, profiles, codes  *)
(* and requests.                                                           *)
(***************************************************************************)
EXTENDS PsnLink, TLAPS

(* Who asked for a code, and for which account. *)
Ticket == [session : Sessions, account : Profiles]

(* A code that was taken out of its session to be linked: it was not       *)
(* dropped, and it waits nowhere, so that it never will be.                *)
Spent(k) == k \notin dropped /\ \A s \in Sessions : pending[s] # k

PendingIsIssued ==
    \A s \in Sessions : pending[s] # None =>
        /\ issued[pending[s]] \in Ticket
        /\ issued[pending[s]].session = s
        /\ pending[s] \notin dropped

DroppedWereIssued == \A k \in dropped : issued[k] \in Ticket

(* What a check has established when it is at a step. *)
CheckOK(r) ==
    req[r] # None /\ req[r].for = "check" =>
        /\ req[r].session \in Sessions
        /\ req[r].at # "pending" =>
              /\ req[r].code \in Codes
              /\ issued[req[r].code] \in Ticket
              /\ issued[req[r].code].session = req[r].session
              /\ issued[req[r].code].account = req[r].account
        /\ req[r].at = "session" /\ req[r].session \in alive => req[r].code \in proved
        /\ req[r].at \in {"consume", "insert"} => req[r].code \in proved
        /\ req[r].at = "insert" => Spent(req[r].code)

(* A request for a link has the session and the account it is for. *)
LinkRequestOK(r) ==
    req[r] # None /\ req[r].for = "link" =>
        req[r].session \in Sessions /\ req[r].account \in Profiles

LinkOK(u) ==
    linked[u] # None =>
        /\ linked[u].code \in Codes
        /\ issued[linked[u].code] \in Ticket
        /\ OwnerOf[issued[linked[u].code].session] = u
        /\ issued[linked[u].code].account = linked[u].account
        /\ linked[u].code \in proved
        /\ Spent(linked[u].code)

LinkInv ==
    /\ TypeOK
    /\ PendingIsIssued
    /\ DroppedWereIssued
    /\ \A r \in Requests : CheckOK(r) /\ LinkRequestOK(r)
    /\ \A u \in Users : LinkOK(u)

-----------------------------------------------------------------------------
(* What every step has in common *)

(* Tickets are written once, sessions end once, proofs are not forgotten,  *)
(* and a spent code stays spent.                                           *)
Grows ==
    /\ \A k \in Codes : issued[k] \in Ticket => issued'[k] = issued[k]
    /\ alive' \subseteq alive
    /\ proved \subseteq proved'
    /\ \A k \in Codes : issued[k] \in Ticket /\ Spent(k) => Spent(k)'

LEMMA ChecksStayOK ==
    ASSUME LinkInv, Grows, NEW r \in Requests, req'[r] = req[r]
    PROVE  CheckOK(r)' /\ LinkRequestOK(r)'
<1>1. CheckOK(r) /\ LinkRequestOK(r)
  BY DEF LinkInv
<1>2. LinkRequestOK(r)'
  BY <1>1 DEF LinkRequestOK
<1>3. CheckOK(r)'
  <2> SUFFICES ASSUME req[r] # None, req[r].for = "check"
               PROVE  CheckOK(r)'
    BY DEF CheckOK
  <2>1. req[r].session \in Sessions
    BY <1>1 DEF CheckOK
  <2>2. CASE req[r].at = "pending"
    BY <2>1, <2>2 DEF CheckOK
  <2>3. CASE req[r].at # "pending"
    <3> DEFINE k == req[r].code
    <3>1. k \in Codes /\ issued[k] \in Ticket /\ issued'[k] = issued[k]
      BY <1>1, <2>3 DEF CheckOK, Grows
    <3>2. issued[k].session = req[r].session /\ issued[k].account = req[r].account
      BY <1>1, <2>3 DEF CheckOK
    <3>3. req[r].at = "session" /\ req[r].session \in alive' => k \in proved'
      BY <1>1 DEF CheckOK, Grows
    <3>4. req[r].at \in {"consume", "insert"} => k \in proved'
      BY <1>1 DEF CheckOK, Grows
    <3>5. req[r].at = "insert" => Spent(k)'
      BY <1>1, <3>1 DEF CheckOK, Grows
    <3>6. QED
      BY <2>1, <3>1, <3>2, <3>3, <3>4, <3>5 DEF CheckOK
  <2>4. QED
    BY <2>2, <2>3
<1>4. QED
  BY <1>2, <1>3

LEMMA LinksStayOK ==
    ASSUME LinkInv, Grows, NEW u \in Users, linked'[u] = linked[u]
    PROVE  LinkOK(u)'
<1> SUFFICES ASSUME linked[u] # None
             PROVE  LinkOK(u)'
  BY DEF LinkOK
<1> DEFINE k == linked[u].code
<1>1. /\ k \in Codes /\ issued[k] \in Ticket
      /\ OwnerOf[issued[k].session] = u
      /\ issued[k].account = linked[u].account
      /\ k \in proved
      /\ Spent(k)
  BY DEF LinkInv, LinkOK
<1>2. issued'[k] = issued[k] /\ k \in proved' /\ Spent(k)'
  BY <1>1 DEF Grows
<1>3. QED
  BY <1>1, <1>2 DEF LinkOK

(* So a step has to be looked at only where it changes something. *)
LEMMA StepKeepsInv ==
    ASSUME LinkInv, Grows, TypeOK', PendingIsIssued', DroppedWereIssued',
           \A r \in Requests : req'[r] # req[r] => CheckOK(r)' /\ LinkRequestOK(r)',
           \A u \in Users : linked'[u] # linked[u] => LinkOK(u)'
    PROVE  LinkInv'
<1>1. \A r \in Requests : CheckOK(r)' /\ LinkRequestOK(r)'
  BY ChecksStayOK
<1>2. \A u \in Users : LinkOK(u)'
  BY LinksStayOK
<1>3. QED
  BY <1>1, <1>2 DEF LinkInv

(* A step of one request that writes nothing but what it proved.           *)
LEMMA RequestStepKeepsInv ==
    ASSUME LinkInv, NEW r \in Requests, TypeOK',
           UNCHANGED <<alive, linked, issued, pending, dropped>>,
           proved \subseteq proved',
           \A q \in Requests \ {r} : req'[q] = req[q],
           CheckOK(r)' /\ LinkRequestOK(r)'
    PROVE  LinkInv'
<1>1. Grows
  BY DEF Grows, Spent
<1>2. PendingIsIssued' /\ DroppedWereIssued'
  BY DEF LinkInv, PendingIsIssued, DroppedWereIssued
<1>3. QED
  BY <1>1, <1>2, StepKeepsInv

(* The request is over. *)
LEMMA EndsTypes ==
    ASSUME LinkInv, NEW r \in Requests, Ends(r)
    PROVE  /\ req' \in [Requests -> Request \cup {None}]
           /\ req'[r] = None
           /\ \A q \in Requests \ {r} : req'[q] = req[q]
           /\ CheckOK(r)' /\ LinkRequestOK(r)'
<1>1. /\ req' \in [Requests -> Request \cup {None}]
      /\ req'[r] = None
      /\ \A q \in Requests \ {r} : req'[q] = req[q]
  BY DEF LinkInv, TypeOK, Ends
<1>2. QED
  BY <1>1 DEF CheckOK, LinkRequestOK

LEMMA GoesTypes ==
    ASSUME LinkInv, NEW r \in Requests, req[r] # None,
           NEW step \in {"pending", "sony", "session", "consume", "insert"}, Goes(r, step)
    PROVE  /\ req' \in [Requests -> Request \cup {None}]
           /\ req'[r] # None => req'[r] \in Request
           /\ req'[r].at = step /\ req'[r].for = req[r].for
           /\ req'[r].session = req[r].session /\ req'[r].account = req[r].account
           /\ req'[r].code = req[r].code
           /\ \A q \in Requests \ {r} : req'[q] = req[q]
<1>1. req[r] \in Request
  BY DEF LinkInv, TypeOK
<1>2. req'[r] = [req[r] EXCEPT !.at = step]
  BY DEF LinkInv, TypeOK, Goes
<1>3. req'[r] \in Request
  BY <1>1, <1>2 DEF Request
<1>4. \A q \in Requests \ {r} : req'[q] = req[q]
  BY DEF LinkInv, TypeOK, Goes
<1>5. req' \in [Requests -> Request \cup {None}]
  BY <1>3 DEF LinkInv, TypeOK, Goes
<1>6. QED
  BY <1>1, <1>2, <1>3, <1>4, <1>5 DEF Request

LEMMA EndingKeepsInv ==
    ASSUME LinkInv, NEW r \in Requests, Ends(r),
           UNCHANGED <<players, linked, issued, pending, history>>
    PROVE  LinkInv'
<1>1. TypeOK'
  BY EndsTypes DEF LinkInv, TypeOK, players, history
<1>2. QED
  BY <1>1, EndsTypes, RequestStepKeepsInv DEF players, history

-----------------------------------------------------------------------------
(* Requests before and while Sony is asked *)

LEMMA StartLinkKeepsInv ==
    ASSUME LinkInv, NEW r \in Requests, NEW s \in Sessions, NEW p \in Profiles,
           StartLink(r, s, p)
    PROVE  LinkInv'
<1> DEFINE new == [for |-> "link", at |-> "sony", session |-> s, account |-> p, code |-> None]
<1>1. new \in Request
  BY DEF Request
<1>2. req' = [req EXCEPT ![r] = new]
  BY DEF StartLink
<1>3. req'[r] = new /\ \A q \in Requests \ {r} : req'[q] = req[q]
  BY <1>2 DEF LinkInv, TypeOK
<1>4. TypeOK'
  BY <1>1, <1>2 DEF LinkInv, TypeOK, StartLink, players, history
<1>5. CheckOK(r)' /\ LinkRequestOK(r)'
  BY <1>3 DEF CheckOK, LinkRequestOK
<1>6. QED
  BY <1>3, <1>4, <1>5, RequestStepKeepsInv DEF StartLink, players, history

LEMMA CheckLinkKeepsInv ==
    ASSUME LinkInv, NEW r \in Requests, NEW s \in Sessions, CheckLink(r, s)
    PROVE  LinkInv'
<1> DEFINE new == [for |-> "check", at |-> "pending", session |-> s, account |-> None,
                   code |-> None]
<1>1. new \in Request
  BY DEF Request
<1>2. req' = [req EXCEPT ![r] = new]
  BY DEF CheckLink
<1>3. req'[r] = new /\ \A q \in Requests \ {r} : req'[q] = req[q]
  BY <1>2 DEF LinkInv, TypeOK
<1>4. TypeOK'
  BY <1>1, <1>2 DEF LinkInv, TypeOK, CheckLink, players, history
<1>5. CheckOK(r)' /\ LinkRequestOK(r)'
  BY <1>3 DEF CheckOK, LinkRequestOK
<1>6. QED
  BY <1>3, <1>4, <1>5, RequestStepKeepsInv DEF CheckLink, players, history

LEMMA ReadPendingKeepsInv ==
    ASSUME LinkInv, NEW r \in Requests, ReadPending(r)
    PROVE  LinkInv'
<1> DEFINE s == req[r].session
           code == pending[s]
<1>1. CASE Ends(r)
  BY <1>1, EndingKeepsInv DEF ReadPending
<1>2. CASE ~ Ends(r)
  <2> DEFINE new == [req[r] EXCEPT !.at = "sony", !.code = code, !.account = issued[code].account]
  <2>1. req[r] \in Request /\ req[r] # None
    BY DEF LinkInv, TypeOK, ReadPending, At
  <2>2. code # None /\ req' = [req EXCEPT ![r].at = "sony", ![r].code = code,
                                          ![r].account = issued[code].account]
    BY <1>2 DEF ReadPending, PendingKey
  <2>3. s \in Sessions
    BY <2>1 DEF LinkInv, CheckOK, LinkRequestOK, Request
  <2>4. /\ code \in Codes /\ issued[code] \in Ticket /\ issued[code].session = s
        /\ issued[code].account \in Profiles
    BY <2>2, <2>3 DEF LinkInv, TypeOK, PendingIsIssued, Ticket
  <2>5. req' = [req EXCEPT ![r] = new]
    BY <2>2 DEF LinkInv, TypeOK
  <2>6. req'[r] = new /\ \A q \in Requests \ {r} : req'[q] = req[q]
    BY <2>5 DEF LinkInv, TypeOK
  <2>7. /\ new \in Request
        /\ new.at = "sony" /\ new.for = req[r].for /\ new.session = s
        /\ new.code = code /\ new.account = issued[code].account
    BY <2>1, <2>4 DEF Request
  <2> HIDE DEF new, code, s
  <2>8. TypeOK'
    BY <2>5, <2>7 DEF LinkInv, TypeOK, ReadPending, players, history
  <2>9. UNCHANGED <<alive, linked, issued, pending, dropped, proved>>
    BY DEF ReadPending, players, history
  <2>10. LinkRequestOK(r)'
    BY <2>3, <2>4, <2>6, <2>7 DEF LinkRequestOK
  <2>11. CheckOK(r)'
    BY <2>3, <2>4, <2>6, <2>7, <2>9 DEF CheckOK
  <2>12. QED
    BY <2>6, <2>8, <2>9, <2>10, <2>11, RequestStepKeepsInv
<1>3. QED
  BY <1>1, <1>2

(* A request goes on, as what it is, to a step it is ready for. *)
LEMMA GoingKeepsInv ==
    ASSUME LinkInv, NEW r \in Requests, req[r] # None,
           NEW step \in {"pending", "sony", "session", "consume", "insert"}, Goes(r, step),
           UNCHANGED <<players, linked, issued, pending, dropped>>,
           proved \subseteq proved', proved' \subseteq Codes,
           req[r].for = "check" =>
              /\ req[r].at # "pending" /\ step # "insert"
              /\ step = "session" /\ req[r].session \in alive => req[r].code \in proved'
              /\ step = "consume" => req[r].code \in proved'
    PROVE  LinkInv'
<1>1. /\ req' \in [Requests -> Request \cup {None}]
      /\ req'[r].at = step /\ req'[r].for = req[r].for
      /\ req'[r].session = req[r].session /\ req'[r].account = req[r].account
      /\ req'[r].code = req[r].code
      /\ \A q \in Requests \ {r} : req'[q] = req[q]
  BY GoesTypes
<1>2. TypeOK'
  BY <1>1 DEF LinkInv, TypeOK, players
<1>3. CheckOK(r) /\ LinkRequestOK(r)
  BY DEF LinkInv
<1>4. LinkRequestOK(r)'
  BY <1>1, <1>3 DEF LinkRequestOK
<1>5. UNCHANGED <<alive, linked, issued, pending, dropped>>
  BY DEF players
<1>6. CheckOK(r)'
  BY <1>1, <1>3, <1>5 DEF CheckOK
<1>7. QED
  BY <1>1, <1>2, <1>4, <1>5, <1>6, RequestStepKeepsInv

LEMMA ResolveKeepsInv ==
    ASSUME LinkInv, NEW r \in Requests, Resolve(r)
    PROVE  LinkInv'
<1>1. CASE Ends(r)
  BY <1>1, EndingKeepsInv DEF Resolve
<1>2. CASE ~ Ends(r)
  <2>1. Goes(r, "insert") /\ req[r] # None /\ req[r].for = "link"
    BY <1>2 DEF Resolve, At
  <2>2. proved' \subseteq Codes
    BY DEF LinkInv, TypeOK, Resolve, history
  <2>3. QED
    BY <2>1, <2>2, GoingKeepsInv DEF Resolve, history
<1>3. QED
  BY <1>1, <1>2

LEMMA ShowProfileKeepsInv ==
    ASSUME LinkInv, NEW r \in Requests, ShowProfile(r)
    PROVE  LinkInv'
<1>1. req[r] # None /\ req[r].at = "sony" /\ req[r].for = "check"
  BY DEF ShowProfile, At
<1>2. req[r].code \in Codes
  BY <1>1 DEF LinkInv, CheckOK
<1>3. proved \subseteq proved' /\ proved' \subseteq Codes
  BY <1>2 DEF LinkInv, TypeOK, ShowProfile
<1>4. CASE Found(r)
  <2>1. Goes(r, "session")
    BY <1>4 DEF ShowProfile
  <2>2. req[r].session \in alive => req[r].code \in proved'
    BY <1>4 DEF ShowProfile
  <2>3. QED
    BY <1>1, <1>3, <2>1, <2>2, GoingKeepsInv DEF ShowProfile
<1>5. CASE ~ Found(r)
  BY <1>5, EndingKeepsInv DEF ShowProfile, history
<1>6. QED
  BY <1>4, <1>5

LEMMA RecheckSessionKeepsInv ==
    ASSUME LinkInv, NEW r \in Requests, RecheckSession(r)
    PROVE  LinkInv'
<1>1. CASE StillLive(r)
  <2>1. req[r] # None /\ req[r].at = "session" /\ req[r].session \in alive
    BY <1>1 DEF RecheckSession, At, StillLive
  <2>2. req[r].for = "check" => req[r].code \in proved
    BY <2>1 DEF LinkInv, CheckOK
  <2>3. Goes(r, "consume")
    BY <1>1 DEF RecheckSession
  <2>4. proved' = proved /\ proved \subseteq Codes
    BY DEF LinkInv, TypeOK, RecheckSession, history
  <2>5. QED
    BY <2>1, <2>2, <2>3, <2>4, GoingKeepsInv DEF RecheckSession, history
<1>2. CASE ~ StillLive(r)
  BY <1>2, EndingKeepsInv DEF RecheckSession
<1>3. QED
  BY <1>1, <1>2

-----------------------------------------------------------------------------
(* Codes that leave a session *)

(* The code of a session is dropped, and nothing else is touched. *)
LEMMA DroppingGrows ==
    ASSUME LinkInv, NEW s \in Sessions,
           pending' = [pending EXCEPT ![s] = None], Drops(s),
           UNCHANGED <<players, issued, proved>>
    PROVE  /\ Grows
           /\ PendingIsIssued' /\ DroppedWereIssued'
           /\ pending' \in [Sessions -> Codes \cup {None}]
           /\ \A t \in Sessions : pending'[t] # None => issued'[pending'[t]].session = t
           /\ dropped' \subseteq Codes
<1>1. pending \in [Sessions -> Codes \cup {None}] /\ dropped \subseteq Codes
  BY DEF LinkInv, TypeOK
<1>2. pending'[s] = None /\ \A t \in Sessions \ {s} : pending'[t] = pending[t]
  BY <1>1
<1>3. dropped' = IF pending[s] = None THEN dropped ELSE dropped \cup {pending[s]}
  BY DEF Drops, PendingKey
<1>4. UNCHANGED <<alive, issued, proved>>
  BY DEF players
<1>5. \A k \in Codes : Spent(k) => Spent(k)'
  BY <1>2, <1>3, LinkAssumption DEF Spent
<1>6. Grows
  BY <1>4, <1>5 DEF Grows
<1>7. PendingIsIssued'
  <2> SUFFICES ASSUME NEW t \in Sessions, pending'[t] # None
               PROVE  /\ issued[pending[t]] \in Ticket /\ issued[pending[t]].session = t
                      /\ pending'[t] = pending[t] /\ pending[t] \notin dropped'
    BY <1>4 DEF PendingIsIssued
  <2>1. t # s /\ pending'[t] = pending[t]
    BY <1>2
  <2>2. issued[pending[t]] \in Ticket /\ issued[pending[t]].session = t /\ pending[t] \notin dropped
    BY <2>1 DEF LinkInv, PendingIsIssued
  <2>3. pending[s] # None => issued[pending[s]].session = s
    BY DEF LinkInv, PendingIsIssued
  <2>4. pending[s] # None => pending[t] # pending[s]
    BY <2>1, <2>2, <2>3
  <2>5. QED
    BY <1>3, <2>1, <2>2, <2>4
<1>8. DroppedWereIssued'
  BY <1>3, <1>4 DEF LinkInv, PendingIsIssued, DroppedWereIssued
<1>9. pending' \in [Sessions -> Codes \cup {None}] /\ dropped' \subseteq Codes
  BY <1>1, <1>3
<1>10. \A t \in Sessions : pending'[t] # None => issued'[pending'[t]].session = t
  BY <1>7 DEF PendingIsIssued
<1>11. QED
  BY <1>6, <1>7, <1>8, <1>9, <1>10

LEMMA DroppingKeepsInv ==
    ASSUME LinkInv, NEW s \in Sessions,
           pending' = [pending EXCEPT ![s] = None], Drops(s),
           UNCHANGED <<players, linked, issued, proved>>,
           UNCHANGED req \/ \E r \in Requests : Ends(r)
    PROVE  LinkInv'
<1>1. UNCHANGED <<alive, aboutMe, linked, issued, proved>>
  BY DEF players
<1>2. req' \in [Requests -> Request \cup {None}]
      /\ \A r \in Requests : req'[r] # req[r] => CheckOK(r)' /\ LinkRequestOK(r)'
  <2>1. CASE UNCHANGED req
    BY <2>1 DEF LinkInv, TypeOK
  <2>2. CASE \E r \in Requests : Ends(r)
    <3>1. PICK r \in Requests : Ends(r)
      BY <2>2
    <3>2. /\ req' \in [Requests -> Request \cup {None}]
          /\ \A q \in Requests \ {r} : req'[q] = req[q]
          /\ CheckOK(r)' /\ LinkRequestOK(r)'
      BY <3>1, EndsTypes
    <3>3. QED
      BY <3>2
  <2>3. QED
    BY <2>1, <2>2
<1>3. TypeOK'
  BY <1>1, <1>2, DroppingGrows DEF LinkInv, TypeOK
<1>4. \A u \in Users : linked'[u] = linked[u]
  BY <1>1
<1>5. QED
  BY <1>2, <1>3, <1>4, DroppingGrows, StepKeepsInv

LEMMA ConsumeKeepsInv ==
    ASSUME LinkInv, NEW r \in Requests, Consume(r)
    PROVE  LinkInv'
<1> DEFINE s == req[r].session
           code == pending[s]
<1>1. req[r] # None /\ req[r] \in Request /\ req[r].at = "consume"
  BY DEF LinkInv, TypeOK, Consume, At
<1>2. s \in Sessions
  BY <1>1 DEF LinkInv, CheckOK, LinkRequestOK, Request
<1>3. pending' = [pending EXCEPT ![s] = None]
  BY DEF Consume, PendingKey
<1>4. CASE Ends(r) /\ Drops(s)
  BY <1>2, <1>3, <1>4, DroppingKeepsInv DEF Consume
<1>5. CASE ~ (Ends(r) /\ Drops(s))
  <2>1. code # None /\ code = req[r].code /\ Goes(r, "insert") /\ UNCHANGED dropped
    BY <1>5 DEF Consume, Redeemed, PendingKey
  <2>2. /\ req' \in [Requests -> Request \cup {None}]
        /\ req'[r].at = "insert" /\ req'[r].for = req[r].for
        /\ req'[r].session = req[r].session /\ req'[r].account = req[r].account
        /\ req'[r].code = req[r].code
        /\ \A q \in Requests \ {r} : req'[q] = req[q]
    BY <1>1, <2>1, GoesTypes
  <2>3. UNCHANGED <<alive, aboutMe, linked, issued, proved, dropped>>
    BY <2>1 DEF Consume, players
  <2>4. pending \in [Sessions -> Codes \cup {None}]
    BY DEF LinkInv, TypeOK
  <2>5. pending'[s] = None /\ \A t \in Sessions \ {s} : pending'[t] = pending[t]
    BY <1>2, <1>3, <2>4
  <2>6. Grows
    BY <2>3, <2>5, LinkAssumption DEF Grows, Spent
  <2>7. PendingIsIssued' /\ DroppedWereIssued'
    BY <2>3, <2>5 DEF LinkInv, PendingIsIssued, DroppedWereIssued
  <2>8. TypeOK'
    <3>1. pending' \in [Sessions -> Codes \cup {None}]
      BY <1>3, <2>4
    <3>2. \A t \in Sessions : pending'[t] # None => issued'[pending'[t]].session = t
      BY <2>7 DEF PendingIsIssued
    <3>3. QED
      BY <2>2, <2>3, <3>1, <3>2 DEF LinkInv, TypeOK
  <2>9. PICK k \in Codes : k = code
    BY <1>2, <2>1, <2>4
  <2>10. Spent(k)'
    <3>1. k \notin dropped /\ issued[k].session = s
      BY <1>2, <2>1, <2>9 DEF LinkInv, PendingIsIssued
    <3>2. \A t \in Sessions \ {s} : pending[t] # k
      BY <2>1, <2>9, <3>1 DEF LinkInv, PendingIsIssued
    <3>3. pending'[s] # k
      BY <2>1, <2>5, <2>9
    <3>4. QED
      BY <2>3, <2>5, <3>1, <3>2, <3>3 DEF Spent
  <2>11. CheckOK(r) /\ LinkRequestOK(r)
    BY DEF LinkInv
  <2>12. LinkRequestOK(r)'
    BY <1>1, <2>2, <2>11 DEF LinkRequestOK
  <2>13. CheckOK(r)'
    <3>1. req'[r].code = k
      BY <2>1, <2>2, <2>9
    <3>2. req'[r].code \notin dropped' /\ \A t \in Sessions : pending'[t] # req'[r].code
      BY <2>10, <3>1 DEF Spent
    <3>3. QED
      BY <1>1, <2>2, <2>3, <2>11, <3>2 DEF CheckOK, Spent
  <2>14. QED
    BY <2>2, <2>3, <2>6, <2>7, <2>8, <2>12, <2>13, StepKeepsInv
<1>6. QED
  BY <1>4, <1>5

-----------------------------------------------------------------------------
(* Codes that are issued, and accounts that are linked *)

LEMMA IssueKeepsInv ==
    ASSUME LinkInv, NEW r \in Requests, NEW code \in Codes, Issue(r, code)
    PROVE  LinkInv'
<1> DEFINE s == req[r].session
           ticket == [session |-> s, account |-> req[r].account]
<1>1. req[r] # None /\ req[r].for = "link"
  BY DEF Issue, At
<1>2. s \in Sessions /\ req[r].account \in Profiles
  BY <1>1 DEF LinkInv, LinkRequestOK
<1>3. ticket \in Ticket /\ ticket.session = s
  BY <1>2 DEF Ticket
<1>4. /\ issued[code] = None
      /\ issued' = [issued EXCEPT ![code] = ticket]
      /\ pending' = [pending EXCEPT ![s] = code]
      /\ Ends(r)
  BY DEF Issue, PendingKey
<1>5. dropped' = IF pending[s] = None THEN dropped ELSE dropped \cup {pending[s]}
  BY DEF Issue, Drops, PendingKey
<1>6. UNCHANGED <<alive, aboutMe, linked, proved>>
  BY DEF Issue, players
<1>7. issued[code] \notin Ticket
  BY <1>4, LinkAssumption DEF Ticket
<1>8. /\ pending \in [Sessions -> Codes \cup {None}] /\ dropped \subseteq Codes
      /\ issued \in [Codes -> Ticket \cup {None}]
  BY DEF LinkInv, TypeOK, Ticket
<1>9. issued'[code] = ticket /\ \A k \in Codes \ {code} : issued'[k] = issued[k]
  BY <1>4, <1>8
<1>10. pending'[s] = code /\ \A t \in Sessions \ {s} : pending'[t] = pending[t]
  BY <1>2, <1>4, <1>8
<1> HIDE DEF s, ticket
<1>11. \A t \in Sessions : pending[t] # None =>
          /\ pending[t] \in Codes \ {code}
          /\ issued[pending[t]] \in Ticket /\ issued[pending[t]].session = t
          /\ pending[t] \notin dropped
  BY <1>7, <1>8 DEF LinkInv, PendingIsIssued
<1>12. code \notin dropped' /\ \A k \in dropped' : k \in Codes /\ issued[k] \in Ticket
  BY <1>2, <1>5, <1>7, <1>8, <1>11 DEF LinkInv, DroppedWereIssued
<1>13. Grows
  <2>1. \A k \in Codes : issued[k] \in Ticket => issued'[k] = issued[k]
    BY <1>7, <1>9
  <2>2. ASSUME NEW k \in Codes, issued[k] \in Ticket, Spent(k)
        PROVE  Spent(k)'
    <3>1. k # code /\ k \notin dropped /\ \A t \in Sessions : pending[t] # k
      BY <1>7, <2>2 DEF Spent
    <3>2. k \notin dropped'
      BY <1>2, <1>5, <3>1
    <3>3. \A t \in Sessions : pending'[t] # k
      BY <1>10, <3>1
    <3>4. QED
      BY <3>2, <3>3 DEF Spent
  <2>3. QED
    BY <1>6, <2>1, <2>2 DEF Grows
<1>14. PendingIsIssued'
  <2> SUFFICES ASSUME NEW t \in Sessions, pending'[t] # None
               PROVE  /\ issued'[pending'[t]] \in Ticket /\ issued'[pending'[t]].session = t
                      /\ pending'[t] \notin dropped'
    BY DEF PendingIsIssued
  <2>1. CASE t = s
    BY <1>3, <1>9, <1>10, <1>12, <2>1
  <2>2. CASE t # s
    <3>1. pending'[t] = pending[t] /\ pending[t] # None
      BY <1>10, <2>2
    <3>2. issued'[pending[t]] = issued[pending[t]] /\ issued[pending[t]].session = t
          /\ issued[pending[t]] \in Ticket
      BY <1>9, <1>11, <3>1
    <3>3. pending[t] \notin dropped'
      BY <1>2, <1>5, <1>11, <2>2, <3>1
    <3>4. QED
      BY <3>1, <3>2, <3>3
  <2>3. QED
    BY <2>1, <2>2
<1>15. DroppedWereIssued'
  BY <1>9, <1>12, <1>7 DEF DroppedWereIssued
<1>16. TypeOK'
  <2>1. issued' \in [Codes -> Ticket \cup {None}] /\ pending' \in [Sessions -> Codes \cup {None}]
    BY <1>3, <1>4, <1>8
  <2>2. \A t \in Sessions : pending'[t] # None => issued'[pending'[t]].session = t
    BY <1>14 DEF PendingIsIssued
  <2>3. req' \in [Requests -> Request \cup {None}]
    BY <1>4, EndsTypes
  <2>4. dropped' \subseteq Codes
    BY <1>12
  <2>5. QED
    BY <1>6, <2>1, <2>2, <2>3, <2>4 DEF LinkInv, TypeOK, Ticket
<1>17. CheckOK(r)' /\ LinkRequestOK(r)' /\ \A q \in Requests \ {r} : req'[q] = req[q]
  BY <1>4, EndsTypes
<1>18. QED
  BY <1>6, <1>13, <1>14, <1>15, <1>16, <1>17, StepKeepsInv

LEMMA InsertKeepsInv ==
    ASSUME LinkInv, NEW r \in Requests, Insert(r)
    PROVE  LinkInv'
<1> DEFINE u == OwnerOf[req[r].session]
           link == [account |-> req[r].account, code |-> req[r].code]
<1>1. req[r] # None /\ req[r].at = "insert" /\ req[r].for = "check"
  BY DEF Insert, At
<1>2. /\ req[r].session \in Sessions /\ req[r].code \in Codes
      /\ issued[req[r].code] \in Ticket
      /\ issued[req[r].code].session = req[r].session
      /\ issued[req[r].code].account = req[r].account
      /\ req[r].code \in proved
      /\ Spent(req[r].code)
  BY <1>1 DEF LinkInv, CheckOK
<1>3. u \in Users /\ req[r].account \in Profiles
  BY <1>2, LinkAssumption DEF Ticket
<1>4. linked' = linked \/ linked' = [linked EXCEPT ![u] = link]
  BY DEF Insert
<1>5. UNCHANGED <<alive, aboutMe, issued, pending, proved, dropped>>
  BY DEF Insert, players, history
<1>6. Ends(r)
  BY DEF Insert
<1>7. linked \in [Users -> [account : Profiles, code : Codes] \cup {None}]
  BY DEF LinkInv, TypeOK
<1>8. linked' \in [Users -> [account : Profiles, code : Codes] \cup {None}]
  BY <1>2, <1>3, <1>4, <1>7
<1>9. TypeOK'
  BY <1>5, <1>6, <1>8, EndsTypes DEF LinkInv, TypeOK
<1>10. Grows /\ PendingIsIssued' /\ DroppedWereIssued'
  BY <1>5 DEF Grows, Spent, LinkInv, PendingIsIssued, DroppedWereIssued
<1>11. ASSUME NEW v \in Users, linked'[v] # linked[v]
       PROVE  LinkOK(v)'
  <2>1. v = u /\ linked'[v] = link
    BY <1>3, <1>4, <1>7, <1>11
  <2>2. linked'[v].code = req[r].code /\ linked'[v].account = req[r].account
    BY <2>1
  <2>3. /\ linked'[v].code \in Codes /\ issued'[linked'[v].code] \in Ticket
        /\ OwnerOf[issued'[linked'[v].code].session] = v
        /\ issued'[linked'[v].code].account = linked'[v].account
        /\ linked'[v].code \in proved'
    BY <1>2, <1>5, <2>1, <2>2
  <2>4. linked'[v].code \notin dropped' /\ \A s \in Sessions : pending'[s] # linked'[v].code
    BY <1>2, <1>5, <2>2 DEF Spent
  <2>5. QED
    BY <2>3, <2>4 DEF LinkOK, Spent
<1>12. CheckOK(r)' /\ LinkRequestOK(r)' /\ \A q \in Requests \ {r} : req'[q] = req[q]
  BY <1>6, EndsTypes
<1>13. QED
  BY <1>9, <1>10, <1>11, <1>12, StepKeepsInv

-----------------------------------------------------------------------------
(* Players and sessions *)

LEMMA PlayersKeepInv ==
    ASSUME LinkInv, UNCHANGED <<linked, issued, pending, req, history>>,
           alive' \subseteq alive, aboutMe' \in [Profiles -> Codes \cup {None}]
    PROVE  LinkInv'
<1>1. UNCHANGED <<linked, issued, pending, req, proved, dropped>>
  BY DEF history
<1>2. TypeOK'
  BY <1>1 DEF LinkInv, TypeOK
<1>3. Grows /\ PendingIsIssued' /\ DroppedWereIssued'
  BY <1>1 DEF Grows, Spent, LinkInv, PendingIsIssued, DroppedWereIssued
<1>4. QED
  BY <1>1, <1>2, <1>3, StepKeepsInv

LEMMA WorldKeepsInv ==
    ASSUME LinkInv, World
    PROVE  LinkInv'
<1>1. ASSUME NEW s \in Sessions, CancelLink(s)
      PROVE  LinkInv'
  BY <1>1, DroppingKeepsInv DEF CancelLink, PendingKey
<1>2. ASSUME NEW s \in Sessions, Revoke(s)
      PROVE  LinkInv'
  <2>1. alive' \subseteq alive /\ aboutMe' \in [Profiles -> Codes \cup {None}]
    BY <1>2 DEF Revoke, LinkInv, TypeOK
  <2>2. QED
    BY <1>2, <2>1, PlayersKeepInv DEF Revoke
<1>3. ASSUME NEW s \in Sessions, CodeExpires(s)
      PROVE  LinkInv'
  BY <1>3, DroppingKeepsInv DEF CodeExpires
<1>4. ASSUME NEW p \in Profiles, NEW code \in Codes, WriteAboutMe(p, code)
      PROVE  LinkInv'
  <2>1. alive' \subseteq alive /\ aboutMe' \in [Profiles -> Codes \cup {None}]
    BY <1>4 DEF WriteAboutMe, LinkInv, TypeOK
  <2>2. QED
    BY <1>4, <2>1, PlayersKeepInv DEF WriteAboutMe
<1>5. QED
  BY <1>1, <1>2, <1>3, <1>4 DEF World

LEMMA RouteKeepsInv ==
    ASSUME LinkInv, NEW r \in Requests, Route(r)
    PROVE  LinkInv'
<1>1. CASE GiveUp(r)
  BY <1>1, EndingKeepsInv DEF GiveUp
<1>2. QED
  BY <1>1, StartLinkKeepsInv, CheckLinkKeepsInv, ReadPendingKeepsInv, ResolveKeepsInv,
     ShowProfileKeepsInv, IssueKeepsInv, RecheckSessionKeepsInv, ConsumeKeepsInv, InsertKeepsInv
     DEF Route

-----------------------------------------------------------------------------
(* Theorems *)

(* The inductive invariant of linking: what each request has established   *)
(* at each of its steps, and that a consumed code can never be dropped or  *)
(* wait again.                                                             *)
THEOREM LinkInvariant == Spec => []LinkInv
<1>1. Init => LinkInv
  <2> SUFFICES ASSUME Init PROVE LinkInv
    OBVIOUS
  <2>1. TypeOK
    BY DEF Init, TypeOK
  <2>2. PendingIsIssued /\ DroppedWereIssued
    BY DEF Init, PendingIsIssued, DroppedWereIssued
  <2>3. \A r \in Requests : CheckOK(r) /\ LinkRequestOK(r)
    BY DEF Init, CheckOK, LinkRequestOK
  <2>4. \A u \in Users : LinkOK(u)
    BY DEF Init, LinkOK
  <2>5. QED
    BY <2>1, <2>2, <2>3, <2>4 DEF LinkInv
<1>2. LinkInv /\ [Next]_vars => LinkInv'
  <2> SUFFICES ASSUME LinkInv, [Next]_vars PROVE LinkInv'
    OBVIOUS
  <2>1. CASE UNCHANGED vars
    <3>1. UNCHANGED <<linked, issued, pending, req, history, alive, aboutMe>>
      BY <2>1 DEF vars, history
    <3>2. aboutMe' \in [Profiles -> Codes \cup {None}]
      BY <3>1 DEF LinkInv, TypeOK
    <3>3. QED
      BY <3>1, <3>2, PlayersKeepInv
  <2>2. QED
    BY <2>1, RouteKeepsInv, WorldKeepsInv DEF Next
<1>3. QED
  BY <1>1, <1>2, PTL DEF Spec

(* Types hold, and what waits in a session was issued to that session.     *)
THEOREM LinkTypes == Spec => []TypeOK
<1>1. LinkInv => TypeOK
  BY DEF LinkInv
<1>2. QED
  BY <1>1, LinkInvariant, PTL

(* For every number of users, sessions and concurrent requests: an account *)
(* is linked only by a code Sony showed in the profile of that account, to *)
(* the user whose live session was given the code for it.                  *)
THEOREM LinksAreProved == Spec => []LinkedByProof
<1>1. LinkInv => LinkedByProof
  BY DEF LinkInv, LinkOK, LinkedByProof
<1>2. QED
  BY <1>1, LinkInvariant, PTL

(* A code that was cancelled, replaced or expired never links an account.  *)
THEOREM DroppedCodesAreDead == Spec => []DroppedCodesNeverLink
<1>1. LinkInv => DroppedCodesNeverLink
  BY DEF LinkInv, LinkOK, Spent, DroppedCodesNeverLink
<1>2. QED
  BY <1>1, LinkInvariant, PTL
=============================================================================
