------------------------------- MODULE DateWalk -------------------------------
(***************************************************************************)
(* Dates against a calendar on the wall: a walk from a 1 January, one day  *)
(* at a time, that turns the civil date over by the rules of the Gregorian *)
(* calendar while the code's Date is only ever incremented.  In every day  *)
(* of the walk what date.cpp computes is compared with the wall calendar.  *)
(***************************************************************************)
EXTENDS Dates

CONSTANTS
    FirstYears,     \* years from whose 1 January walks start
    LastYears,      \* bound: walks stop in these years
    Shifts          \* numbers of months that are added

\* ConvertToJulian is documented for dates after 23 November -4713: neither
\* the walk nor as many years as there are months in a shift lead before -4712.
ASSUME WalkAssumption ==
    /\ FirstYears \subseteq {y \in Int : y >= -4712}
    /\ LastYears \subseteq Int
    /\ Shifts \subseteq Int
    /\ \A y \in FirstYears, n \in Shifts : y + n >= -4712

VARIABLES
    julian,     \* the Date's only member
    civil       \* the date on the wall
vars == <<julian, civil>>

\* The Gregorian calendar, independently of date.cpp.
LeapYear(y) == y % 4 = 0 /\ (y % 100 = 0 => y % 400 = 0)
MonthLength(y, m) ==
    <<31, IF LeapYear(y) THEN 29 ELSE 28, 31, 30, 31, 30, 31, 31, 30, 31, 30, 31>>[m]

Tomorrow(d) ==
    IF d.day < MonthLength(d.year, d.month)
    THEN [d EXCEPT !.day = d.day + 1]
    ELSE IF d.month < 12
    THEN [year |-> d.year, month |-> d.month + 1, day |-> 1]
    ELSE [year |-> d.year + 1, month |-> 1, day |-> 1]

TypeOK ==
    /\ julian \in Int
    /\ civil \in CivilDate
    /\ civil.year >= -4712
    /\ civil.day =< MonthLength(civil.year, civil.month)

Init ==
    \E y \in FirstYears :
        /\ civil = [year |-> y, month |-> 1, day |-> 1]
        /\ julian = NewDate(y, 1, 1)

NextDay ==
    /\ civil.year \notin LastYears
    /\ civil' = Tomorrow(civil)
    /\ julian' = AddDays(julian, 1)

Next == NextDay
Spec == Init /\ [][Next]_vars

-----------------------------------------------------------------------------
(* What must hold *)

\* Both conversions agree with the calendar on every day, across every month
\* end, leap day and century: ConvertToJulian (date.cpp:153-160) counts days
\* and YMD (135-151) is its inverse.
CalendarAgrees ==
    /\ NewDate(civil.year, civil.month, civil.day) = julian
    /\ YMD(julian) = civil

\* Adding n months, of either sign, lands exactly n months away, on the same
\* day or the last of a shorter month, and never throws (269-313: truncated
\* division, with a December that must not count as month 0 of next year).
MonthsLandRight ==
    \A n \in Shifts :
        LET there == AddMonths(julian, n)
            date == YMD(there)
            length == MonthLength(date.year, date.month)
        IN  /\ there # Thrown
            /\ 12 * date.year + date.month = 12 * civil.year + civil.month + n
            /\ date.day = IF civil.day =< length THEN civil.day ELSE length

\* A year is twelve months: the special case for 29 February (315-330) never
\* throws and agrees with the general one of AddMonths.
YearsAreTwelveMonths ==
    \A n \in Shifts : AddYears(julian, n) = AddMonths(julian, 12 * n)

\* Adding the same tenor to a later date never lands earlier, and adding more
\* months to the same date lands strictly later: a schedule of start + k * n
\* months is strictly increasing although month ends are clipped.
ShiftsKeepOrder ==
    [][\A n \in Shifts :
          /\ AddMonths(julian, n) =< AddMonths(julian', n)
          /\ AddMonths(julian, n) < AddMonths(julian, n + 1)]_vars
=============================================================================
