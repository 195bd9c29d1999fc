SPECIFICATION FairSpec
CONSTANTS
    s1 = s1
    s2 = s2
    Sessions <- TwoSessions
    remainingTokenExpirationTime = 1
    minute = 1
    retry = 1
    TokenLife = 3
    MaxTokens = 3
    MaxFaults = 1
INVARIANTS
    StoredTokenIsCurrent
    ToldInTime
PROPERTIES
    ExpiredRecovers
