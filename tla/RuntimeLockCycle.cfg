SPECIFICATION Spec
CONSTANTS
    Threads = {t1, t2}
    Tools <- FewTools
    MaxCalls = 1
    NoThread = NoThread
    NoTask = NoTask
    Provider = P
    NoProvider = NoProvider
    OpsOf <- FewOpsOf
    SelfAsking = {}
    Tasks <- FewTasks
    ProfileSteps = 2
    TaskSteps = 3
    ProviderPolls = FALSE
INVARIANT NoLockCycle
