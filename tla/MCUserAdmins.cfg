SPECIFICATION Spec
CONSTANTS
    u1 = u1
    u2 = u2
    r1 = r1
    r2 = r2
    r3 = r3
    Users = {u1, u2}
    Requests = {r1, r2, r3}
    callerOf <- MCCallerOf
    MaxGrants = 1
    MaxSaves = 1
SYMMETRY Alike
CHECK_DEADLOCK FALSE
INVARIANTS
    AdminLeft
PROPERTIES
    GroupRightsStay
    SavingKeepsRights
