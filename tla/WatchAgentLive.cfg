SPECIFICATION WatchLiveSpec
CONSTANTS
    Checksums = {1, 2}
    Truncated = {}
    Codes = {401}
    BaseBackoff = 1
    MaxBackoff = 1
    AttemptCap = 1
    FaultKinds = {"crash", "cancel", "load", "write", "archive"}
    MaxFaults = 1
    MaxRewrites = 1
PROPERTIES SavedScanSettles
