SPECIFICATION ScheduleSpec
CONSTANTS
    Thrown = Thrown
    NoCalendar = NoCalendar
    Calendars <- MCCalendars
    Requests <- MCRequests
INVARIANTS
    Chronological
    CoversTheTerm
    PeriodsMeet
    AccrualsInOrder
    UndefinedOnlyThen
PROPERTY
    EveryStepCloser
