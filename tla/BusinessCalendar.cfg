SPECIFICATION Spec
CONSTANTS
    Thrown = Thrown
    Data <- MCData
    Bases <- MCBases
    Counts <- MCCounts
    Tenors <- MCTenors
INVARIANTS
    AddedExactly
    NearestDay
    StaysInMonth
PROPERTY
    EveryCallEnds
