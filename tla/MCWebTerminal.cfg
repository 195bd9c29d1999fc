SPECIFICATION FairSpec
CONSTANTS
    s1 = s1
    s2 = s2
    Sessions = {s1, s2}
    podLifetime = 2
    maxNumberOfExpirationRefreshes = 2
    spareRestarts = 2
    MaxConnects = 3
    MaxFaults = 1
INVARIANTS
    RefreshesWithinLimit
    DeletesLiveOnlyIfStale
    PolicyCoversPod
PROPERTIES
    ExitRestartsJob
    PodIsDeleted
