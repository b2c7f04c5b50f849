SPECIFICATION FairSpec
CONSTANTS
    Threads = {t1, t2}
    Tools <- MCTools
    MaxCalls = 2
    NoThread = NoThread
    NoTask = NoTask
    Provider = P
    NoProvider = NoProvider
    OpsOf <- MCOpsOf
    SelfAsking = {"delete_file"}
    Tasks <- MCTasks
    ProfileSteps = 3
    TaskSteps = 2
    ProviderPolls = TRUE
INVARIANT TypeOK
INVARIANT OnlyPermittedToolsRun
INVARIANT StandardAgentsMutateByApproval
INVARIANT SessionOutlivesCancel
INVARIANT RunStartsClean
INVARIANT StepBudget
INVARIANT NoLockCycle
PROPERTY ImplementsContract
PROPERTY CancelEndsTurnLoop
PROPERTY CallsReturn
