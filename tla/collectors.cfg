SPECIFICATION SamplerSpec
CONSTANTS
    Null = Null
    c1 = c1
    c2 = c2
    k1 = k1
    k2 = k2
    Counters = {c1, c2}
    Collections = {k1, k2}
    StartCount = 2
    MaxTime = 3
SYMMETRY MCSymmetry
CHECK_DEADLOCK FALSE
INVARIANTS
    ReadingIsWhatWasCounted
