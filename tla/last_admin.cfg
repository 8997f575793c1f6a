\* Two administrators' requests at once.
SPECIFICATION Spec
CONSTANTS
    Users = {ann, bob}
    Requests = {q1, q2}
    UpdateTakesRole = FALSE
    Null = Null
    Gone = Gone
INVARIANT
    AnAdminIsLeft
CHECK_DEADLOCK FALSE
