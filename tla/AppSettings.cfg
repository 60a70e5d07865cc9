SPECIFICATION AppSpec
CONSTANTS
    None = None
    Clients = {u1, u2}
    Tokens = {t1}
    FormerTokens = {None}
    Paths = {p1, p2}
    Runs = {w1, w2}
    Operations = {"folder", "file", "refresh", "channel"}
    Installs = {"none", "addon"}
    MaxChanges = 2
    FaultKinds = {"save", "crash", "inspect"}
    MaxFaults = 2
SYMMETRY Interchangeable
INVARIANTS SettingsAreSaved CopyIsCurrent
