SPECIFICATION FairSpec
CONSTANTS
    Waiters = {w1, w2}
    MaxRequests = 3
    Serialised = TRUE
    QuietReset = TRUE
    EmitMayThrow = FALSE
INVARIANT TypeOK
INVARIANT ApprovalIsolation
INVARIANT CancelledWaitRefused
PROPERTY AnswersAreFinal
PROPERTY ExpiredTokensRejected
PROPERTY DecisionReleasesWaiter
