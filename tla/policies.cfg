SPECIFICATION FairSpec
CONSTANTS
    NoThreshold = NoThreshold
    Null = Null
    r1 = r1
    r2 = r2
    t1 = t1
    t2 = t2
    ops = ops
    Metrics = {cpu}
    Templates = {t1, t2}
    Teams = {ops}
    Requests = {r1, r2}
    SentSuggestions <- MCSuggestions
    SentPolicies <- MCPolicies
    SentOverrides <- MCOverrides
    SentPatches <- MCPatches
    MaxChanges = 7
CHECK_DEADLOCK FALSE
INVARIANTS
    TypeOK
    CustomizedLevelsInOrder
    CustomizingKeepsPolicy
PROPERTIES
    InvalidOnlyByStalePatch
    ChangesOnlyAtItsSource
    AgentLearnsIntervals
