SPECIFICATION Spec
CONSTANTS
    NoThreshold = NoThreshold
    HostWide = HostWide
    NoAlert = NoAlert
    cpu = cpu
    disk = disk
    nic = nic
    Handlers = {h1, h2}
    Users = {u1}
    Series = {disk}
    Interfaces = {nic}
    InterfaceOf <- MCInterfaceOf
    AlertIds = {a1, a2}
    Values = {0, 1, 2}
    Policies <- MCTwoPolicies
    AllowOverlap = FALSE
    AllowResend = FALSE
    AllowFailure = FALSE
    MaxAt = 3
    MaxReadings = 3
    MaxComments = 1
SYMMETRY MCSymmetry
INVARIANTS
    StreakHasAlert
    HealthyResolves
    CriticalWasAnnounced
PROPERTIES
    OpensOnStreak
