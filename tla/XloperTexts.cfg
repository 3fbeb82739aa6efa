SPECIFICATION Spec
CONSTANTS
    Calls = {c1, c2}
    Blocks <- MCBlocks
    Offered <- MCOffered
    Texts <- MCTexts
    MaxCells = 2
    MaxCalls = 3
    None = None
INVARIANTS
    TextsFit
CHECK_DEADLOCK FALSE
