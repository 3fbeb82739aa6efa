\* Two threads, two calls each, one edit of a file at any moment.
CONSTANTS
    Threads = {t1, t2}
    Regions <- MCRegions
    Requests <- MCRequests
    MaxCalls = 2
    MaxEdits = 1
    Nothing = Nothing
    Failed = Failed
SPECIFICATION FairSpec
INVARIANTS
    
    AnswerIsCached
PROPERTIES
    ImplementsLookup
    EveryCallEnds
    GoodFilesServe
