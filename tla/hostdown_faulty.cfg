SPECIFICATION ReportingSpec
CONSTANTS
    web = web
    db = db
    Targets = {web}
    Handlers = {h1, h2}
    Jobs = {j1}
    AlertIds = {a1, a2, a3}
    NoAlert = NoAlert
    NoTarget = NoTarget
    NeverSeen = NeverSeen
    LongestInterval <- MCLongestInterval
    MinDownAfter = 1
    MissedIntervals = 2
    AllowOverlap = TRUE
    AllowLate = TRUE
    AllowHandResolve = TRUE
    AllowEnroll = TRUE
    MaxFailures = 1
    MaxNow = 3
INVARIANTS
    OneOpenHostDown
PROPERTIES
    DownOnlyWhenSilent
    ReportingHostIsCleared
