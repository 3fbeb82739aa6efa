------------------------------ MODULE MCDayCount ------------------------------
(* The days around the ends of long and short months, of a leap day and of *)
(* a century that is no leap year.                                         *)
EXTENDS DayCount

On(years, months, days) ==
    {d \in [year : years, month : months, day : days] : d.day =< DaysInMonth(d.year, d.month)}

MCCivilDates ==
    On({1899, 1900, 2003, 2004}, {2}, {27, 28, 29}) \cup
    On({1900, 2004}, {1, 3}, {1, 15, 30, 31}) \cup
    On({1899, 2001, 2003}, {12}, {1, 30, 31})
=============================================================================
