SPECIFICATION UpdaterSpec
CONSTANTS
    Releases = {1, 2, 3, 4}
    VersionOf <- Published
    TargetsOf <- Built
    MaxUint = 10
    Samples <- Compared
    Feeds <- Promotions
    Mandatory = {}
    Platforms = {FALSE}
    Spawned = {s1}
    s1 = s1
    MaxChanges = 2
    FaultKinds = {}
    MaxFaults = 0
INVARIANTS InstallsDeferred
