\* Every day from 1600 to 1999, and the years around 0, 100, 1000 and 10000.
CONSTANTS
    Thrown = Thrown
    FirstYears <- MCFirstYears
    LastYears <- MCLastYears
    Shifts <- MCShifts
    Zones <- MCZones
SPECIFICATION Spec
INVARIANTS
    CalendarAgrees
    MonthsLandRight
    YearsAreTwelveMonths
    
PROPERTIES
    ShiftsKeepOrder
CHECK_DEADLOCK FALSE
