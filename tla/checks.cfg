SPECIFICATION FairSpec
CONSTANTS
    Metrics = {cpu, disk}
    Polls = {p1}
    CheckTimeout = 2
    PageTimeout = 1
    NoCheck = NoCheck
    NoEntry = NoEntry
    MaxRestarts = 1
INVARIANTS
    PolledWhilePending
    ListedWhileWaited
PROPERTIES
    PageCheckEnds
