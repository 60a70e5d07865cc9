SPECIFICATION ActivitySpec
CONSTANTS
    Checksums = {1, 2}
    Truncated = {}
    Codes = {401}
    BaseBackoff = 2
    MaxBackoff = 1
    AttemptCap = 1
    FaultKinds = {"crash", "cancel", "load", "write", "queue", "archive", "read"}
    MaxFaults = 1
    MaxRewrites = 2
INVARIANTS WatchTypeOK SkippedFileIsArchived ScheduleIsCurrent ShownIsCurrent
PROPERTIES ImplementsPipeline
