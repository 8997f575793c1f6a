SPECIFICATION Spec
CONSTANTS
    NoThreshold = NoThreshold
    HostWide = HostWide
    NoAlert = NoAlert
    cpu = cpu
    disk = disk
    nic = nic
    Handlers = {h1, h2}
    Users = {u1}
    Series = {disk}
    Interfaces = {nic}
    InterfaceOf <- MCInterfaceOf
    AlertIds = {a1, a2}
    Values = {0, 1, 2}
    Policies <- MCStreakOfTwo
    AllowOverlap = FALSE
    AllowResend = TRUE
    AllowFailure = TRUE
    MaxAt = 3
    MaxReadings = 3
    MaxComments = 2
SYMMETRY MCSymmetry
INVARIANTS
    TypeOK
    OneOpenAlert
    AlertTellsAReading
    FlagMatchesComments
PROPERTIES
    ImplementsContract
