-------------------------------- MODULE Dates --------------------------------
(***************************************************************************)
(* The arithmetic of oa::time::Date (date.cpp) and of the Tenors added to  *)
(* it.  A Date holds one integer, its Julian day number, and is immutable: *)
(* everything here is an operator from day numbers to day numbers.         *)
(*                                                                         *)
(* Day numbers are unbounded here.  A C++ int is left only by years beyond *)
(* 1.4 million (1461 * (year + 4800) in ConvertToJulian).                  *)
(***************************************************************************)
EXTENDS Integers

CONSTANT Thrown     \* what an operator that throws returns
ASSUME ThrownAssumption == Thrown \notin Int

\* What gregorian() returns.
CivilDate == [year : Int, month : 1 .. 12, day : 1 .. 31]

\* C++ / and %: the quotient is truncated towards zero and the remainder has
\* the sign of the dividend (b is positive wherever the code divides).
Quot(a, b) == IF a >= 0 THEN a \div b ELSE -((-a) \div b)
Rem(a, b) == a - b * Quot(a, b)

IsLeap(year) ==
    \/ Rem(year, 4) = 0 /\ Rem(year, 100) # 0
    \/ Rem(year, 400) = 0

\* For a month in 1 .. 12; any other makes the code throw (see NewDate).
DaysInMonth(year, month) ==
    IF month = 2 THEN (IF IsLeap(year) THEN 29 ELSE 28)
    ELSE IF month \in {4, 6, 9, 11} THEN 30
    ELSE 31

ConvertToJulian(year, month, day) ==
    LET late == Quot(month - 14, 12) IN     \* -1 in January and February
    Quot(1461 * (year + 4800 + late), 4)
    + Quot(367 * (month - 2 - 12 * late), 12)
    - Quot(3 * Quot(year + 4900 + late, 100), 4)
    + day - 32075

\* As YMD, with the offset of the year taken from the month before the wrap.
YMDNoWrap(julian) ==
    LET f == julian + 1401 + Quot(Quot(4 * julian + 274277, 146097) * 3, 4) - 38
        e == 4 * f + 3
        h == 5 * Quot(Rem(e, 1461), 4) + 2
        month == Rem(Quot(h, 153) + 2, 12) + 1
    IN  [year |-> Quot(e, 1461) - 4716, month |-> month, day |-> Quot(Rem(h, 153), 5) + 1]

\* Richards' algorithm.
YMD(julian) ==
    LET f == julian + 1401 + Quot(Quot(4 * julian + 274277, 146097) * 3, 4) - 38
        e == 4 * f + 3
        h == 5 * Quot(Rem(e, 1461), 4) + 2
        month == Rem(Quot(h, 153) + 2, 12) + 1
    IN  [year |-> Quot(e, 1461) - 4716 + Quot(14 - month, 12),
         month |-> month,
         day |-> Quot(Rem(h, 153), 5) + 1]

\* Date(int, int, int): a zero day is refused, and one beyond the month; a
\* negative one is not.
NewDate(year, month, day) ==
    IF month \notin 1 .. 12 \/ day = 0 \/ day > DaysInMonth(year, month)
    THEN Thrown
    ELSE ConvertToJulian(year, month, day)

\* Monday is 0; the index of a negative day number is negative or zero.
GetDOWInt(julian) == Rem(julian, 7)

AddDays(julian, days) == julian + days
AddWeeks(julian, weeks) == julian + 7 * weeks

\* The month and year that AddMonths computes from a month and a year.
NewMonth(month, months) ==
    LET left == Rem(month + months, 12) IN
    IF left <= 0 THEN left + 12 ELSE left

\* NewYear without the step back that a December needs.
NewYearNoDecember(year, month, months) == year + Quot(month + months, 12)
NewYear(year, month, months) ==
    year + Quot(month + months, 12) - (IF Rem(month + months, 12) <= 0 THEN 1 ELSE 0)

\* The day of the month, or the last one when the new month is shorter.
ClipDay(year, month, day) ==
    IF day > DaysInMonth(year, month) THEN DaysInMonth(year, month) ELSE day

AddMonths(julian, months) ==
    LET from == YMD(julian)
        year == NewYear(from.year, from.month, months)
        month == NewMonth(from.month, months)
    IN  NewDate(year, month, ClipDay(year, month, from.day))

\* AddYears, which asks the old year whether it is leap.
AddYearsOldYear(julian, years) ==
    LET from == YMD(julian)
        year == from.year + years
        day == IF ~IsLeap(from.year) /\ from.month = 2
               THEN ClipDay(year, from.month, from.day)
               ELSE from.day
    IN  NewDate(year, from.month, day)

AddYears(julian, years) ==
    LET from == YMD(julian)
        year == from.year + years
        day == IF ~IsLeap(year) /\ from.month = 2
               THEN ClipDay(year, from.month, from.day)
               ELSE from.day
    IN  NewDate(year, from.month, day)

\* A Tenor is a count of days, weeks, months or years ("3M").
Units == {"D", "W", "M", "Y"}
Tenor == [count : Int, unit : Units]

\* Date::operator+(Tenor) and AddTenor.
AddTenor(julian, tenor) ==
    IF tenor.unit = "D" THEN AddDays(julian, tenor.count)
    ELSE IF tenor.unit = "W" THEN AddWeeks(julian, tenor.count)
    ELSE IF tenor.unit = "M" THEN AddMonths(julian, tenor.count)
    ELSE AddYears(julian, tenor.count)

\* value_or: a Date with day number 0 counts as not given.
ValueOr(julian, other) == IF julian # 0 THEN julian ELSE other
=============================================================================
