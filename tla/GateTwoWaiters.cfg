SPECIFICATION Spec
CONSTANTS
    Waiters = {w1, w2}
    MaxRequests = 2
    Serialised = FALSE
    QuietReset = TRUE
    EmitMayThrow = FALSE
INVARIANT ApprovalIsolation
