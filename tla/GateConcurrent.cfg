SPECIFICATION Spec
CONSTANTS
    Waiters = {w1, w2}
    MaxRequests = 3
    Serialised = FALSE
    QuietReset = FALSE
    EmitMayThrow = TRUE
INVARIANT NoStaleApproval
INVARIANT NoLostWakeup
