SPECIFICATION Spec
CONSTANTS
    u1 = u1
    u2 = u2
    U2 = U2
    c1 = c1
    c2 = c2
    Users = {u1, u2}
    Emails = {u1, u2, U2}
    lower <- MCLower
    Clients = {c1, c2}
    emailOf <- MCEmailOf
    Settings = {"dark", "light"}
    Groups = {"dev", "ops"}
    Tombstones = FALSE
    MaxChanges = 3
    MaxFaults = 0
CHECK_DEADLOCK FALSE
INVARIANT GroupsAreCurrent
