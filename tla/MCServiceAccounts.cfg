SPECIFICATION FairSpec
CONSTANTS
    r1 = r1
    r2 = r2
    Names = {"ci", "cd"}
    Groups = {"editors", "viewers"}
    Requests = {r1, r2}
    MaxAccounts = 3
    MaxTokens = 3
    MaxTime = 1
CHECK_DEADLOCK FALSE
INVARIANTS
    RevokedStaysRevoked
    NamesClashUnseen
    GroupLostOnlyIfMisread
PROPERTIES
    RevokedIsRefused
    TokensGoWithAccount
