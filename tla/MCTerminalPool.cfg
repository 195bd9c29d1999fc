SPECIFICATION FairPoolSpec
CONSTANTS
    h1 = h1
    h2 = h2
    h3 = h3
    h4 = h4
    k1 = k1
    k2 = k2
    Handlers <- MCHandlers
    Keys <- MCKeys
    keyOf <- MCKeyOf
    maxNumberOfConnections = 2
    MaxReleases = 1
INVARIANTS
    NoPhantomConnections
    ExactUntilReleased
PROPERTIES
    OverLimitOnlyByRace
    ImplementsAdmission
    EveryConnectionIsAnswered
