SPECIFICATION Spec
CONSTANTS
    r1 = r1
    r2 = r2
    r3 = r3
    Users = {"ann", "bob"}
    ServiceAccounts = {"robot"}
    Admins = {"bob"}
    Requests = {r1, r2, r3}
    UserProjectsLimit = 1
    MaxProjects = 2
SYMMETRY Alike
CHECK_DEADLOCK FALSE
INVARIANTS
    EditsAreSeen
    DuplicatesOnlyUnseen
    ManagerLeft
PROPERTY LimitExceededOnlyByRace
