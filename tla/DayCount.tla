------------------------------- MODULE DayCount -------------------------------
(***************************************************************************)
(* The day-count conventions (time/day_count): how many days lie between   *)
(* two dates, and which part of a year.  A year fraction is a floating     *)
(* point sum; here it is the list of its terms, days over the length of a  *)
(* year, in the order the code adds them up.  Only the loop of ACT/ACT     *)
(* takes several steps.                                                    *)
(***************************************************************************)
EXTENDS Dates, Sequences

CONSTANT CivilDates     \* the dates that are asked about

ASSUME CivilDatesAssumption ==
    \A d \in CivilDates :
        /\ d \in CivilDate /\ d.year >= -4712
        /\ d.day =< DaysInMonth(d.year, d.month)

VARIABLES
    pc,             \* where the call is
    rule,           \* the DayCountRule of the call
    start_date,     \* ComputeDayCountFractionActAct's arguments, once swapped
    end_date,
    sign,           \* -1 if they were swapped, and the sum is to be negated
    curr_year,      \* the loop's two locals
    prior_date,
    terms           \* what was added to year_fraction
args == <<rule, start_date, end_date, sign>>
vars == <<pc, args, curr_year, prior_date, terms>>

Rules == {"ACT_ACT", "ACTB_ACTB", "30_360_BOND_BASIS", "30_E_360_ISDA",
          "30_360_E_EUROBOND", "ACT_360", "ACT_365_FIXED"}

\* GenerateDayCounter, which returns null for all others.
DayCounters == Rules \ {"ACTB_ACTB"}

-----------------------------------------------------------------------------
(* Whole days *)

\* As if every month had 30 days, given which days of the month to take.
Thirty(from, to, d1, d2) == 360 * (to.year - from.year) + 30 * (to.month - from.month) + d2 - d1

EuroBondDay(date) == IF date.day = 31 THEN 30 ELSE date.day

\* IsdaDay without the end of February.
IsdaDayNoFebruary(date) == EuroBondDay(date)

IsdaDay(date) ==
    IF date.day = 31 \/ (date.month = 2 /\ date.day = DaysInMonth(date.year, 2))
    THEN 30 ELSE date.day

\* The second day depends on the first, as changed.
BondDay(d1, d2) == IF d2 = 31 /\ d1 > 29 THEN 30 ELSE d2

BondOfOrdered(date1, date2) ==
    LET from == YMD(date1)
        to == YMD(date2)
        d1 == EuroBondDay(from)
    IN  Thirty(from, to, d1, BondDay(d1, to.day))

\* Without the call in the other order.
ComputeDayCount30360AsGiven(date1, date2) == BondOfOrdered(date1, date2)

ComputeDayCount30360(date1, date2) ==
    IF date2 < date1 THEN -BondOfOrdered(date2, date1) ELSE BondOfOrdered(date1, date2)

\* DayCount of the rule's DayCounterBase.
Count(r, date1, date2) ==
    CASE r = "30_360_BOND_BASIS" ->
            ComputeDayCount30360(date1, date2)
      [] r = "30_E_360_ISDA" ->
            Thirty(YMD(date1), YMD(date2), IsdaDay(YMD(date1)), IsdaDay(YMD(date2)))
      [] r = "30_360_E_EUROBOND" ->
            Thirty(YMD(date1), YMD(date2), EuroBondDay(YMD(date1)), EuroBondDay(YMD(date2)))
      [] OTHER -> date2 - date1

\* The divisor of the rules that have one for every year.
YearOf(r) == IF r = "ACT_365_FIXED" THEN 365 ELSE 360

-----------------------------------------------------------------------------
(* Year fractions *)

Earlier(a, b) == IF a < b THEN a ELSE b
Later(a, b) == IF a > b THEN a ELSE b
DaysInYear(year) == IF IsLeap(year) THEN 366 ELSE 365
Year(date) == YMD(date).year
Term(from, to, year) == [days |-> to - from, length |-> DaysInYear(year)]

TypeOK ==
    /\ pc \in {"idle", "loop", "return", "undefined"}
    /\ rule \in Rules
    /\ {start_date, end_date, curr_year, prior_date} \subseteq Int
    /\ sign \in {-1, 1}
    /\ terms \in Seq([days : Int, length : Int])

Init ==
    /\ pc = "idle"
    /\ rule = "ACT_ACT"
    /\ start_date = 0 /\ end_date = 0 /\ sign = 1
    /\ curr_year = 0 /\ prior_date = 0
    /\ terms = <<>>

\* The first term counts from the day before the start, whose own day counts.
DayBeforeIsStart(date) == date
DayBefore(date) == date - 1

\* A rule is mapped to its class, and the class is called; ACTB_ACTB has none.
OneTerm(r, date1, date2) ==
    /\ pc' = "return"
    /\ start_date' = date1 /\ end_date' = date2 /\ sign' = 1
    /\ terms' = <<[days |-> Count(r, date1, date2), length |-> YearOf(r)]>>
    /\ UNCHANGED <<curr_year, prior_date>>

\* ComputeDayCountFractionActAct, within one year and over several.
ActAct(date1, date2) ==
    /\ sign' = IF date2 < date1 THEN -1 ELSE 1
    /\ start_date' = Earlier(date1, date2)
    /\ end_date' = Later(date1, date2)
    /\ IF Year(date1) = Year(date2)
       THEN /\ terms' = <<Term(start_date', end_date', Year(date1))>>
            /\ pc' = "return"
            /\ UNCHANGED <<curr_year, prior_date>>
       ELSE /\ curr_year' = Year(start_date')
            /\ prior_date' = DayBefore(start_date')
            /\ pc' = "loop"
            /\ UNCHANGED terms

\* YearFraction of the rule that GenerateDayCounter is asked for.
YearFraction(r, date1, date2) ==
    /\ pc = "idle"
    /\ rule' = r
    /\ IF r = "ACT_ACT" THEN ActAct(date1, date2)
       ELSE IF r \in DayCounters THEN OneTerm(r, date1, date2)
       ELSE /\ pc' = "undefined"
            /\ UNCHANGED <<start_date, end_date, sign, curr_year, prior_date, terms>>

\* The days of curr_year, to its last one.
YearStep ==
    /\ pc = "loop" /\ curr_year < Year(end_date)
    /\ LET curr_date == NewDate(curr_year, 12, 31) IN
        IF curr_date < end_date
        THEN /\ terms' = Append(terms, Term(prior_date, curr_date, curr_year))
             /\ prior_date' = curr_date
        ELSE UNCHANGED <<terms, prior_date>>
    /\ curr_year' = curr_year + 1
    /\ UNCHANGED <<pc, args>>

\* The days of the last year, to the end date.
LastYear ==
    /\ pc = "loop" /\ curr_year >= Year(end_date)
    /\ terms' = Append(terms, Term(NewDate(Year(end_date), 1, 1), end_date, Year(end_date)))
    /\ pc' = "return"
    /\ UNCHANGED <<args, curr_year, prior_date>>

Return ==
    /\ pc = "return"
    /\ pc' = "idle" /\ rule' = "ACT_ACT"
    /\ start_date' = 0 /\ end_date' = 0 /\ sign' = 1
    /\ curr_year' = 0 /\ prior_date' = 0
    /\ terms' = <<>>

Call ==
    \E r \in Rules, d1 \in CivilDates, d2 \in CivilDates :
        YearFraction(r, NewDate(d1.year, d1.month, d1.day), NewDate(d2.year, d2.month, d2.day))

Next == Call \/ YearStep \/ LastYear \/ Return

Spec == Init /\ [][Next]_vars

-----------------------------------------------------------------------------
(* What must hold *)

NewYearsDay(year) == NewDate(year, 1, 1)

\* ACT/ACT counts every day of the term, from the start date to the day before
\* the end date, exactly once, as a part of the year it lies in and over that
\* year's true length; the sign says which argument was the later one
\* (day_count_act_act.cpp:21-60: days are counted from the day before the
\* start, from each 31 December, and in the last year from 1 January).
EveryDayInItsYear ==
    pc = "return" /\ rule = "ACT_ACT" =>
        /\ start_date =< end_date
        /\ Len(terms) = Year(end_date) - Year(start_date) + 1
        /\ \A i \in 1 .. Len(terms) :
            LET year == Year(start_date) + i - 1 IN
            terms[i] = [days |-> Earlier(end_date, NewYearsDay(year + 1))
                                 - Later(start_date, NewYearsDay(year)),
                        length |-> NewYearsDay(year + 1) - NewYearsDay(year)]

AddsUp(r, a, m, b) ==
    LET sum == Count(r, a, m) + Count(r, m, b) IN
    /\ Count(r, b, a) = -Count(r, a, b)
    /\ r # "30_360_BOND_BASIS" => sum = Count(r, a, b)
    /\ a =< m /\ m =< b => sum - Count(r, a, b) \in -1 .. 1

\* Splitting a term changes nothing: the days of its parts add up to the days
\* of the whole, whatever the day it is split on, and counting backwards gives
\* the same number, negative.  Under the bond basis, where the second day
\* depends on the first, a split can gain or lose a day.
PartsAddUp ==
    pc = "return" =>
        \A d \in CivilDates :
            AddsUp(rule, start_date, NewDate(d.year, d.month, d.day), end_date)

\* A month has 30 days, and a year 360: between two dates on the same day of
\* their months, and between the last days of two months; for the end of
\* February only ISDA's convention promises it.
MonthsHaveThirtyDays ==
    pc = "return" /\ rule \in {"30_360_BOND_BASIS", "30_E_360_ISDA", "30_360_E_EUROBOND"} =>
        LET from == YMD(start_date)
            to == YMD(end_date)
            LastDay(date) == date.day = DaysInMonth(date.year, date.month)
            months == 12 * (to.year - from.year) + to.month - from.month
        IN  \/ from.day = to.day /\ (LastDay(from) <=> LastDay(to))
            \/ /\ LastDay(from) /\ LastDay(to)
               /\ rule = "30_E_360_ISDA" \/ 2 \notin {from.month, to.month}
            => Count(rule, start_date, end_date) = 30 * months
=============================================================================
