SPECIFICATION Spec
CONSTANTS
    Unset = Unset
    Blank = Blank
    Odd = Odd
    Deployments <- MCDeployments
    GoodEnv <- MCGoodEnv
    GoodRecord <- MCGoodRecord
    Methods = {"GET", "SOURCE", "PUT"}
    Targets = {"health", "station", "stream", "other"}
    Auths <- MCAuths
    Headers <- MCHeaders
    BufferSizes = {1, 417}
    MaxLegs = 2
    MaxFrames = 3
INVARIANTS
    TypeOK
    EachComplaintOnce
    SafeToServe
    PasswordDecides
    DriftBounded
