SPECIFICATION Spec
CONSTANTS
    MaxAttempts = 2
    Pieces <- MCPieces
    Bodies <- MCOpenBodies
    MaxEntries = 2
    MaxRounds = 1
    MaxPrompts = 2
    Documents <- MCFewDocuments
    Model = "m"
INVARIANT LastEventRead
