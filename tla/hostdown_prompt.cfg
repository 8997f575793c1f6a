SPECIFICATION FairSpec
CONSTANTS
    web = web
    db = db
    Targets = {web, db}
    Handlers = {h1}
    Jobs = {j1}
    AlertIds = {a1, a2, a3}
    NoAlert = NoAlert
    NoTarget = NoTarget
    NeverSeen = NeverSeen
    LongestInterval <- MCLongestInterval
    MinDownAfter = 1
    MissedIntervals = 2
    AllowOverlap = FALSE
    AllowLate = FALSE
    AllowHandResolve = FALSE
    AllowEnroll = TRUE
    MaxFailures = 1
    MaxNow = 4
INVARIANTS
    DownHasAlert
PROPERTIES
    SilentHostIsAlerted
