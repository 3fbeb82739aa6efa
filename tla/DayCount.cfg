SPECIFICATION Spec
CONSTANTS
    Thrown = Thrown
    CivilDates <- MCCivilDates
INVARIANTS
    EveryDayInItsYear
    PartsAddUp
    MonthsHaveThirtyDays
CHECK_DEADLOCK FALSE
