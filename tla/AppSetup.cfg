SPECIFICATION AppLiveSpec
CONSTANTS
    None = None
    Clients = {u1}
    Tokens = {t1}
    FormerTokens = {None}
    Paths = {p1}
    Runs = {w1, w2}
    Operations = {"token"}
    Installs = {"addon"}
    MaxChanges = 1
    FaultKinds = {"inspect"}
    MaxFaults = 1
PROPERTIES SetupCompletes
