SPECIFICATION ExcelSpec
CONSTANTS
    Threads = {t1}
    Workbooks = {w1}
    p1 = p1
    p2 = p2
    Places = {p1, p2}
    MaxObjects = 3
    MaxReads = 0
    Absent = Absent
    Callers = {c1}
    Requests <- RequestsDef
    Calendars <- CalendarsDef
    Contents <- ContentsDef
INVARIANTS
    AnswersTheQuestion
    RulesInOrder
PROPERTIES
    CachedStayAsMade
    
