SPECIFICATION WatchSpec
CONSTANTS
    Checksums = {1}
    Truncated = {}
    Codes = {401}
    BaseBackoff = 1
    MaxBackoff = 1
    AttemptCap = 1
    FaultKinds = {"queue", "read"}
    MaxFaults = 1
    MaxRewrites = 2
INVARIANTS HealthyMeansQueued
