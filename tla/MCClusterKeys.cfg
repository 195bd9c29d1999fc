SPECIFICATION KeysSpec
CONSTANTS
    r1 = r1
    r2 = r2
    Requests = {r1, r2}
    web = web
    db = db
    k1 = k1
    k2 = k2
    Names = {web, db}
    Keys = {k1}
    Credentials = {"own"}
    Patches <- SomePatches
    MaxClusters = 4
    KeyNames = {"mine"}
    MaxKeys = 2
SYMMETRY Alike
CHECK_DEADLOCK FALSE
INVARIANTS
    KeysInv
    NamesClashUnchecked
    LinkedHasPresetCredentials
    EncryptedHasKey
    CleanupIsKept
PROPERTIES
    ExternalCCMStays
