SPECIFICATION AppSpec
CONSTANTS
    None = None
    Clients = {u1, u2}
    Tokens = {t1, t2}
    FormerTokens = {None, t1, t2}
    Paths = {p1}
    Runs = {w1, w2}
    Operations = {"token", "forget"}
    Installs = {"addon"}
    MaxChanges = 1
    FaultKinds = {"run", "refuse", "keyring", "inspect"}
    MaxFaults = 1
SYMMETRY Interchangeable
INVARIANTS AppTypeOK OneWatcher QueueIsQuiet WatcherHasToken QuitStopsWatcher
PROPERTIES OnlyCallsChangeToken
