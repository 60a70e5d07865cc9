SPECIFICATION Spec
CONSTANTS
    Checksums = {1, 2, 3}
    Truncated = {3}
    Codes = {400, 401, 503}
    BaseBackoff = 2
    MaxBackoff = 3
    AttemptCap = 2
    FaultKinds = {"crash", "cancel", "load", "write", "queue"}
    MaxFaults = 2
INVARIANTS TypeOK UploadedIsAccepted OneAttemptOnDisk MemoryMatchesDisk ScheduleCoversQueue
PROPERTIES FinalRecordsStay ImplementsLedger
