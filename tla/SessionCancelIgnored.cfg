SPECIFICATION Spec
CONSTANTS
    Threads = {t1, t2}
    Providers = {p1}
    Shared = {p1}
    Tools = {read}
    MaxRounds = 1
    MaxCalls = 1
    NoThread = NoThread
    NoProvider = NoProvider
PROPERTY CancelBreaksTurnLoop
