SPECIFICATION FairSpec
CONSTANTS
    Threads = {t1, t2, t3}
    NoThread = NoThread
    Initial <- MCInitial
INVARIANT TypeOK
INVARIANT ContextIsScoped
INVARIANT RuntimeOutlivesCancel
PROPERTY ImplementsWorkflow
PROPERTY CallsReturn
