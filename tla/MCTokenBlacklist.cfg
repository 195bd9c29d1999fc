SPECIFICATION FairSpec
CONSTANTS
    r1 = r1
    r2 = r2
    t1 = t1
    t2 = t2
    Requests = {r1, r2}
    Tokens = {t1, t2}
    tokenOf <- MCTokenOf
    Settings = {"dark", "light"}
    NoSettings = "none"
CHECK_DEADLOCK FALSE
INVARIANTS
    LoggedOutStaysBlacklisted
    ReferenceResolves
    SettingsAreKept
PROPERTY LogoutTakesEffect
