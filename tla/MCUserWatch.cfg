SPECIFICATION FairSpec
CONSTANTS
    u1 = u1
    u2 = u2
    U2 = U2
    c1 = c1
    c2 = c2
    Users = {u1, u2}
    Emails = {u1, u2, U2}
    lower <- MCLower
    Clients = {c1, c2}
    emailOf <- MCEmailOf
    Settings = {"dark", "light"}
    Groups = {"dev"}
    Tombstones = TRUE
    MaxChanges = 3
    MaxFaults = 1
CHECK_DEADLOCK FALSE
INVARIANTS
    ShownIsPending
    StaleOnlyIfMissed
PROPERTY PushedEventually
