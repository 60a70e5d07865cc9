SPECIFICATION AppSpec
CONSTANTS
    None = None
    Clients = {u1}
    Tokens = {t1, t2}
    FormerTokens = {None}
    Paths = {p1}
    Runs = {w1, w2}
    Operations = {"token"}
    Installs = {"addon"}
    MaxChanges = 1
    FaultKinds = {"refuse", "save"}
    MaxFaults = 2
INVARIANTS SameTokenLeavesNoneRefused
