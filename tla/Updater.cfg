SPECIFICATION UpdaterLiveSpec
CONSTANTS
    Releases = {1, 2, 3, 4}
    VersionOf <- Published
    TargetsOf <- Built
    MaxUint = 10
    Samples <- Compared
    Feeds <- Promotions
    Mandatory = {3}
    Platforms = {TRUE, FALSE}
    Spawned = {s1}
    s1 = s1
    MaxChanges = 1
    FaultKinds = {"start", "fetch", "download", "sparkle", "save", "install", "restart"}
    MaxFaults = 1
INVARIANTS CompareIsPrecedence UpdaterTypeOK ReadyMeansStaged StagedIsNewer SettledOnChannel CheckingMeansChecking
PROPERTIES PromotedUpdateArrives
