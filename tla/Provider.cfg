SPECIFICATION FairSpec
CONSTANTS
    MaxAttempts = 2
    Pieces <- MCPieces
    Bodies <- MCBodies
    MaxEntries = 2
    MaxRounds = 1
    MaxPrompts = 2
    Documents <- MCDocuments
    Model = "m"
INVARIANT TypeOK
INVARIANT OneAnswerShown
INVARIANT ChunkingIrrelevant
INVARIANT CancelStopsAttempts
INVARIANT SystemKept
INVARIANT RequestIsComplete
INVARIANT ToolsFollowTheCatalogue
PROPERTY RecordedAnswerIsWhole
PROPERTY RequestsReturn
