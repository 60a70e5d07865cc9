SPECIFICATION AddonSpec
CONSTANTS
    Deliveries <- Delivered
    BatchSize = 2
    MaxPending = 2
    MaxScans = 3
INVARIANT AddonTypeOK
INVARIANT StoredScansAreWhole
INVARIANT CompleteScansLoad
INVARIANT DecodedAsDelivered
PROPERTY WarnedBeforeLoss
INVARIANT FileReadWholeOrNot
