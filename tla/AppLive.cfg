SPECIFICATION AppLiveSpec
CONSTANTS
    None = None
    Clients = {u1}
    Tokens = {t1}
    FormerTokens = {None}
    Paths = {p1}
    Runs = {w1, w2}
    Operations = {"token"}
    Installs = {"none", "game", "addon"}
    MaxChanges = 1
    FaultKinds = {"run"}
    MaxFaults = 1
PROPERTIES ReadyRuns SetupCompletes
