SPECIFICATION Spec
CONSTANTS
    Threads = {t1, t2, t3}
    Providers = {p1, p2}
    Shared = {}
    Tools = {read}
    MaxRounds = 1
    MaxCalls = 1
    NoThread = NoThread
    NoProvider = NoProvider
INVARIANT CancelTargetAlive
