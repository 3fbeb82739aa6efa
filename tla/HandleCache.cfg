\* Two threads; the same place of two workbooks.
CONSTANTS
    t1 = t1
    t2 = t2
    book1 = book1
    book2 = book2
    place = place
    Threads <- MCTwoThreads
    Workbooks <- MCWorkbooks
    Places <- MCPlaces
    MaxObjects = 3
    MaxReads = 1
    Absent = Absent
SPECIFICATION Spec
INVARIANTS
    CheckedStaysUsable
    HandlesNotAhead
    ReadsAreFresh
PROPERTIES
    EntriesOnlyAdvance
CHECK_DEADLOCK FALSE
