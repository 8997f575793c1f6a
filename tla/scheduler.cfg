SPECIFICATION Spec
CONSTANTS
    cpu = cpu
    disk = disk
    Metrics = {cpu, disk}
    Never = Never
    NoMetric = NoMetric
    Lists <- MCLists
    RefreshTicks = 1
    MaxLate = 1
    MaxReadings <- MCMaxReadings
    MaxTasks = 2
    MaxFailures = 1
INVARIANTS
    NewestIsKept
PROPERTIES
    CheckNotForgotten
    ImplementsOutbox
