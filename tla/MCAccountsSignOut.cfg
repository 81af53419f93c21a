\* Two sessions built on one provider session, a sign-out and the remembered liveness.
CONSTANTS
    UserIds = {u1}
    SteamIds = {}
    Subjects = {p1}
    Visits = {1}
    Sessions = {t1, t2}
    Logins = {}
    Requests = {r1, r2}
    Routes = {"exchange", "read", "logout"}
    None = None
SPECIFICATION Spec
PROPERTY
    NoGraceAfterSignOut
\* The bound on provider sessions ends every run.
CHECK_DEADLOCK FALSE
