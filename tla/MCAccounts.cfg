\* Steam and provider sign-ins, conversions, connections and sign-outs of the same people at once.
CONSTANTS
    UserIds = {u1, u2}
    SteamIds = {s1}
    Subjects = {p1}
    Visits = {1}
    Sessions = {t1, t2}
    Logins = {l1}
    Requests = {r1, r2}
    Routes = {"steamBack", "exchange", "startLink", "cancelLink", "completeLink", "startConnect", "connectBack", "read", "logout"}
    None = None
SPECIFICATION Spec
SYMMETRY Symmetric
INVARIANTS
    TypeOK
    OneOwnerEach
    SessionsMatchIdentities
    SwitchesOnlyAfterSignOut
    OneCallbackPerLogin
    SteamLandsWhereAsked
PROPERTIES
    LinksAreForever
