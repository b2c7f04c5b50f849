SPECIFICATION FairSpec
CONSTANTS
    Threads = {t1, t2}
    Providers = {p1}
    Shared = {}
    Tools = {read, write}
    MaxRounds = 2
    MaxCalls = 2
    NoThread = NoThread
    NoProvider = NoProvider
INVARIANT TypeOK
INVARIANT PublishedIsCurrent
INVARIANT ReentrantCancelSafe
INVARIANT RoundBudget
INVARIANT ResponsesAnswerCalls
INVARIANT CancelStopsPrompt
PROPERTY PromptSeesOneConfiguration
PROPERTY CallsReturn
