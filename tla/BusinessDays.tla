----------------------------- MODULE BusinessDays -----------------------------
(***************************************************************************)
(* What oa::time::Calendar (calendar.cpp) says of one day.  A Calendar is  *)
(* built once from the data of its regions and only read afterwards.       *)
(***************************************************************************)
EXTENDS Dates

Weekdays == 0 .. 6                      \* Monday to Sunday, as GetDOWInt counts
RegionData == [weekends : SUBSET Weekdays, holidays : SUBSET Int]

\* PopulateHolidays: a day is off if it is off in any of the regions.
Calendar(regions) ==
    [weekends |-> UNION {regions[i].weekends : i \in DOMAIN regions},
     holidays |-> UNION {regions[i].holidays : i \in DOMAIN regions}]

IsHoliday(calendar, julian) ==
    \/ GetDOWInt(julian) \in calendar.weekends
    \/ julian \in calendar.holidays

IsBusinessDay(calendar, julian) == ~IsHoliday(calendar, julian)

BusinessDaysIn(calendar, days) == {j \in days : IsBusinessDay(calendar, j)}

\* AddBusinessDays, from a day and with a number of business days yet to pass.
Walk(calendar, sign) ==
    LET walk[at \in Int \X Nat] ==
            LET next == at[1] + sign IN
            IF at[2] = 0 THEN at[1]
            ELSE walk[<<next, IF IsHoliday(calendar, next) THEN at[2] ELSE at[2] - 1>>]
    IN  walk
===============================================================================
