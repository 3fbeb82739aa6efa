--------------------------- MODULE BusinessCalendar ---------------------------
(***************************************************************************)
(* The searches for business days: Calendar's loops over single days       *)
(* (calendar.cpp:106-154), the adjustment rules of date_adjust/ built on   *)
(* them, and DateFormula::Adjust, which adds a tenor and applies a rule.   *)
(*                                                                         *)
(* One call runs at a time and one iteration of a loop is one step: the    *)
(* Calendar is not written, so calls of other threads change nothing.      *)
(***************************************************************************)
EXTENDS BusinessDays, FiniteSets

CONSTANTS
    Data,           \* lists of region data that calendars are built from
    Bases,          \* dates that are passed in
    Counts,         \* numbers of business days that are added
    Tenors          \* tenors of date formulas

ASSUME DataAssumption ==
    \A regions \in Data :
        /\ \A i \in DOMAIN regions : regions[i] \in RegionData
        /\ IsFiniteSet(Calendar(regions).holidays)
ASSUME CallAssumption ==
    /\ Bases \subseteq Int
    /\ Counts \subseteq Int
    /\ Tenors \subseteq Tenor

\* The loops have no bound, and rest on a weekday that is not a weekend and on
\* holidays running out, here within ten months.
ASSUME OpenAssumption ==
    \A regions \in Data :
        LET open == Calendar(regions) IN
        /\ open.weekends # Weekdays
        /\ \A j \in open.holidays : \E k \in j .. j + 290 : IsBusinessDay(open, k)

\* Formulas lead to dates that the conversions are meant for (date.h:45).
ASSUME FormulaAssumption ==
    \A date \in Bases, tenor \in Tenors :
        LET sum == AddTenor(date, tenor) IN sum = Thrown \/ sum >= NewDate(-4711, 1, 1)

Rules == {"kFollowing", "kPreceding", "kModifiedFollowing", "kPlainAdjustment"}
Calls == Rules \cup {"AddBusinessDays", "GetNextBusinessDay", "GetPrevBusinessDay"}

VARIABLES
    calendar,       \* m_weekends_, m_holidays_
    call,           \* the function, or the adjustment rule, of the last call
    number_of_days, \* its argument in AddBusinessDays
    base,           \* its date; in a date formula, the one the tenor leads to
    pc,             \* the loop the call is in
    curr,           \* the loop's date, and the result when the call is done
    days            \* business days AddBusinessDays has yet to pass
vars == <<calendar, call, number_of_days, base, pc, curr, days>>

Abs(n) == IF n < 0 THEN -n ELSE n
Month(julian) == YMD(julian).month
Holiday(julian) == IsHoliday(calendar, julian)

TypeOK ==
    /\ calendar \in RegionData
    /\ call \in Calls
    /\ number_of_days \in Int
    /\ base \in Int
    /\ pc \in {"idle", "adding", "forward", "back", "done", "thrown"}
    /\ curr \in Int
    /\ days \in Nat

Init ==
    /\ calendar \in {Calendar(regions) : regions \in Data}
    /\ call = "kPlainAdjustment" /\ number_of_days = 0 /\ base = 0
    /\ pc = "idle" /\ curr = 0 /\ days = 0

Return(date) == pc' = "done" /\ curr' = date

-----------------------------------------------------------------------------
(* AddBusinessDays *)

\* AddBusinessDays, counting towards zero from the signed number of days.
AddBusinessDaysSigned(number, date) ==
    /\ pc = "idle"
    /\ call' = "AddBusinessDays"
    /\ number_of_days' = number
    /\ base' = date /\ curr' = date
    /\ days' = number
    /\ pc' = "adding"
    /\ UNCHANGED calendar

AddBusinessDays(number, date) ==
    /\ pc = "idle"
    /\ call' = "AddBusinessDays"
    /\ number_of_days' = number
    /\ base' = date /\ curr' = date
    /\ days' = Abs(number)
    /\ pc' = "adding"
    /\ UNCHANGED calendar

\* AddStep, which asks about the day before it moves on.
AddStepLate ==
    /\ pc = "adding" /\ days # 0
    /\ curr' = curr + (IF number_of_days < 0 THEN -1 ELSE 1)
    /\ days' = IF Holiday(curr) THEN days ELSE days - 1
    /\ UNCHANGED <<calendar, call, number_of_days, base, pc>>

AddStep ==
    /\ pc = "adding" /\ days # 0
    /\ curr' = curr + (IF number_of_days < 0 THEN -1 ELSE 1)
    /\ days' = IF Holiday(curr') THEN days ELSE days - 1
    /\ UNCHANGED <<calendar, call, number_of_days, base, pc>>

AddDone ==
    /\ pc = "adding" /\ days = 0
    /\ Return(curr)
    /\ UNCHANGED <<calendar, call, number_of_days, base, days>>

-----------------------------------------------------------------------------
(* GetNextBusinessDay and GetPrevBusinessDay *)

StartForward(date) == pc' = "forward" /\ curr' = date + 1
StartBack(date) == pc' = "back" /\ curr' = date - 1

GetNextBusinessDay(date) ==
    /\ pc = "idle"
    /\ call' = "GetNextBusinessDay"
    /\ base' = date
    /\ StartForward(date)
    /\ UNCHANGED <<calendar, number_of_days, days>>

GetPrevBusinessDay(date) ==
    /\ pc = "idle"
    /\ call' = "GetPrevBusinessDay"
    /\ base' = date
    /\ StartBack(date)
    /\ UNCHANGED <<calendar, number_of_days, days>>

\* ForwardStep, without the increment.
ForwardStepStuck ==
    /\ pc = "forward" /\ Holiday(curr)
    /\ UNCHANGED vars

ForwardStep ==
    /\ pc = "forward" /\ Holiday(curr)
    /\ curr' = curr + 1
    /\ UNCHANGED <<calendar, call, number_of_days, base, pc, days>>

\* ForwardDone, without the comparison of the months.
ForwardDoneAnyMonth ==
    /\ pc = "forward" /\ ~Holiday(curr)
    /\ Return(curr)
    /\ UNCHANGED <<calendar, call, number_of_days, base, days>>

\* The search forward has its day.  Modified following searches back from the
\* given date if that day is in another month.
ForwardDone ==
    /\ pc = "forward" /\ ~Holiday(curr)
    /\ IF call = "kModifiedFollowing" /\ Month(base) # Month(curr)
       THEN StartBack(base)
       ELSE Return(curr)
    /\ UNCHANGED <<calendar, call, number_of_days, base, days>>

BackStep ==
    /\ pc = "back" /\ Holiday(curr)
    /\ curr' = curr - 1
    /\ UNCHANGED <<calendar, call, number_of_days, base, pc, days>>

BackDone ==
    /\ pc = "back" /\ ~Holiday(curr)
    /\ Return(curr)
    /\ UNCHANGED <<calendar, call, number_of_days, base, days>>

-----------------------------------------------------------------------------
(* DateFormula::Adjust, and AdjustDate of the four rules *)

\* AdjustDate, with the rules' searches exchanged.
AdjustDateSwapped(rule, date) ==
    IF rule = "kPlainAdjustment" \/ ~Holiday(date) THEN Return(date)
    ELSE IF rule = "kFollowing" THEN StartBack(date)
    ELSE StartForward(date)

AdjustDate(rule, date) ==
    IF rule = "kPlainAdjustment" \/ ~Holiday(date) THEN Return(date)
    ELSE IF rule = "kPreceding" THEN StartBack(date)
    ELSE StartForward(date)

\* With the tenor "0D" this is AdjustDate alone.
Adjust(tenor, rule, date) ==
    LET sum == AddTenor(date, tenor) IN
    /\ pc = "idle"
    /\ IF sum = Thrown
       THEN pc' = "thrown" /\ UNCHANGED <<call, base, curr>>
       ELSE call' = rule /\ base' = sum /\ AdjustDate(rule, sum)
    /\ UNCHANGED <<calendar, number_of_days, days>>

-----------------------------------------------------------------------------
Start ==
    \E date \in Bases :
        \/ \E number \in Counts : AddBusinessDays(number, date)
        \/ GetNextBusinessDay(date)
        \/ GetPrevBusinessDay(date)
        \/ \E tenor \in Tenors, rule \in Rules : Adjust(tenor, rule, date)

Step == AddStep \/ AddDone \/ ForwardStep \/ ForwardDone \/ BackStep \/ BackDone

\* The caller has its Date, or its exception.
Leave ==
    /\ pc \in {"done", "thrown"}
    /\ call' = "kPlainAdjustment" /\ number_of_days' = 0 /\ base' = 0
    /\ pc' = "idle" /\ curr' = 0 /\ days' = 0
    /\ UNCHANGED calendar

Next == Start \/ Step \/ Leave

\* A call runs on its caller's thread until it returns.
Spec == Init /\ [][Next]_vars /\ WF_vars(Step)

-----------------------------------------------------------------------------
(* What must hold *)

\* The days a call has left behind: from the base, exclusive, to the current
\* one, inclusive, in either direction.
Passed == IF curr >= base THEN base + 1 .. curr ELSE curr .. base - 1

\* AddBusinessDays(n) (calendar.cpp:133-154) ends on a business day with
\* exactly |n| business days behind it, on the side n asks for; it leaves the
\* date alone, business day or not, when n is zero.
AddedExactly ==
    pc = "done" /\ call = "AddBusinessDays" =>
        /\ Cardinality(BusinessDaysIn(calendar, Passed)) = Abs(number_of_days)
        /\ number_of_days = 0 => curr = base
        /\ number_of_days > 0 => curr > base /\ ~Holiday(curr)
        /\ number_of_days < 0 => curr < base /\ ~Holiday(curr)

\* A search or a rule ends on a business day with none between it and the
\* date it was given, on its own side of that date; only the plain rule may
\* return a holiday.
NearestDay ==
    pc = "done" /\ call # "AddBusinessDays" =>
        /\ call # "kPlainAdjustment" => ~Holiday(curr)
        /\ \A j \in (Passed \ {curr}) : Holiday(j)
        /\ call \in Rules /\ curr # base => Holiday(base)
        /\ call = "kPlainAdjustment" => curr = base
        /\ call = "kFollowing" => curr >= base
        /\ call = "kPreceding" => curr =< base
        /\ call = "GetNextBusinessDay" => curr > base
        /\ call = "GetPrevBusinessDay" => curr < base

\* The days of the month and year of a date.
MonthOf(date) ==
    {j \in date - 30 .. date + 30 :
        YMD(j).month = YMD(date).month /\ YMD(j).year = YMD(date).year}

\* What modified following is for (date_adjust_modified_following.cpp:42-57):
\* it stays in the month if that month has a business day at all, and goes
\* back only if the month has none left.
StaysInMonth ==
    pc = "done" /\ call = "kModifiedFollowing" =>
        /\ BusinessDaysIn(calendar, MonthOf(base)) # {} => curr \in MonthOf(base)
        /\ curr < base => \A j \in MonthOf(base) : j >= base => Holiday(j)

\* Every call returns (OpenAssumption says what its loop rests on).
EveryCallEnds == pc \in {"adding", "forward", "back"} ~> pc = "done"
===============================================================================
