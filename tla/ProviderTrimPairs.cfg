SPECIFICATION Spec
CONSTANTS
    MaxAttempts = 2
    Pieces <- MCPieces
    Bodies <- MCFewBodies
    MaxEntries = 2
    MaxRounds = 1
    MaxPrompts = 2
    Documents <- MCFewDocuments
    Model = "m"
INVARIANT PairsKept
