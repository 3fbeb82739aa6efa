--------------------------- MODULE CashflowSchedule ---------------------------
(***************************************************************************)
(* CashflowGen::CreateFixedCashflows (cashflow_gen.cpp:199-297): the       *)
(* periods of a schedule, its stubs, and the rows made of them.  One       *)
(* iteration of a loop is one step.  Amounts and day counts are left out;  *)
(* of ComputeCoupon there remains that it throws for a type of calculation *)
(* it does not know.                                                       *)
(***************************************************************************)
EXTENDS BusinessDays, SequencesExt

CONSTANTS
    Requests,       \* arguments and options that schedules are asked for with
    Calendars,      \* calendars of business-date formulas
    NoCalendar      \* a formula's null calendar

Formula == [days : Int, calendar : Calendars \cup {NoCalendar}]
Stubs == {"kNone", "kShortFirst", "kShortLast", "kLongFirst", "kLongLast"}
CalcTypes == {"kFlat", "kUSTStreetConv", "kBBGCalcType1", "kBBGCalcType2", "kCompounding"}
DayCountRules ==
    {"kACT_ACT", "kACTB_ACTB", "k30_360_BOND_BASIS", "k30_E_360_ISDA",
     "k30_360_E_EUROBOND", "kACT_360", "kACT_365_FIXED"}

\* A stub date of 0 is one that was not given.
Request ==
    [start_date : Int, mat_date : Int, reset_freq : Tenor, day_count_rule : DayCountRules,
     date_direction : {"kForward", "kBackward"},
     front_stub_type : Stubs, back_stub_type : Stubs,
     front_stub_date : Int, back_stub_date : Int,
     start_adjustment : Formula, end_adjustment : Formula,
     pay_adjustment : Formula, fix_adjustment : Formula,
     reset_direction : {"kAdvance", "kInArears"}, calc_type : CalcTypes]

\* Loops over a tenor that does not lead forward never end: only tenors that
\* do are asked for.  Holidays are read from a file, and some weekday is open.
ASSUME RequestAssumption ==
    /\ \A calendar \in Calendars :
          /\ calendar \in RegionData
          /\ calendar.weekends # Weekdays /\ IsFiniteSet(calendar.holidays)
    /\ NoCalendar \notin Calendars
    /\ Requests \subseteq Request
    /\ \A r \in Requests : r.reset_freq.count > 0

\* A tenor of months or years, in months.
MonthsOf(tenor) == IF tenor.unit = "M" THEN tenor.count ELSE 12 * tenor.count

\* Schedules lie where the conversions are meant for (date.h:45), with the
\* period that may begin before the start date.
ASSUME TermsAssumption ==
    \A r \in Requests : r.reset_freq.unit \in {"M", "Y"} =>
        LET start == YMD(r.start_date)
        IN  /\ r.start_date >= NewDate(-4712, 1, 1)
            /\ 12 * (start.year + 4712) + start.month > MonthsOf(r.reset_freq)

VARIABLES
    request,        \* the arguments of the call, and its Options
    stage,          \* the loop the call is in
    curr,           \* curr_start_date or curr_end_date
    total_length,   \* how many units of the tenor the next one is away
    starts, ends,   \* unadjusted_start_dates, unadjusted_end_dates
    cashflows
scheduleVars == <<request, stage, curr, total_length, starts, ends, cashflows>>

Row == [unadj_start : Int, unadj_end : Int, start_date : Int, end_date : Int,
        fixing_date : Int, payment_date : Int, cf_type : {"kFixed", "kPrincipal"}]

ScheduleTypeOK ==
    /\ request \in Request
    /\ stage \in {"idle", "periods", "stubs", "rows", "done", "thrown", "undefined"}
    /\ curr \in Int
    /\ total_length \in Int
    /\ starts \in Seq(Int) /\ ends \in Seq(Int) /\ Len(starts) = Len(ends)
    /\ cashflows \in Seq(Row)

Forward == request.date_direction = "kForward"
Length == request.reset_freq.count

\* A date some units of the tenor away.
Away(date, length) == AddTenor(date, [request.reset_freq EXCEPT !.count = length])

\* Calendar::AddBusinessDays.
AddBusinessDays(calendar, number, date) ==
    IF number < 0 THEN Walk(calendar, -1)[<<date, -number>>]
    ELSE Walk(calendar, 1)[<<date, number>>]

\* BusinessDateFormula::Adjust.
Adjust(date, formula) ==
    IF formula.calendar = NoCalendar THEN AddDays(date, formula.days)
    ELSE AddBusinessDays(formula.calendar, formula.days, date)

-----------------------------------------------------------------------------
(* The periods *)

ScheduleInit ==
    /\ request \in Requests
    /\ stage = "idle"
    /\ curr = 0
    /\ total_length = 0
    /\ starts = <<>> /\ ends = <<>>
    /\ cashflows = <<>>

\* CreateFixedCashflows, with a length that starts at zero.
CreateFixedCashflowsFromZero ==
    /\ stage = "idle"
    /\ IF request.start_date > request.mat_date
       THEN stage' = "thrown" /\ UNCHANGED curr
       ELSE /\ stage' = "periods"
            /\ curr' = IF Forward THEN request.start_date ELSE request.mat_date
    /\ UNCHANGED <<request, total_length, starts, ends, cashflows>>

CreateFixedCashflows ==
    /\ stage = "idle"
    /\ IF request.start_date > request.mat_date
       THEN stage' = "thrown" /\ UNCHANGED <<curr, total_length>>
       ELSE /\ stage' = "periods"
            /\ curr' = IF Forward THEN request.start_date ELSE request.mat_date
            /\ total_length' = IF Forward THEN Length ELSE -Length
    /\ UNCHANGED <<request, starts, ends, cashflows>>

\* The schedule has one more period; the loop goes on from another date.
AddPeriod(start, end, next, length) ==
    /\ starts' = Append(starts, start)
    /\ ends' = Append(ends, end)
    /\ curr' = next
    /\ total_length' = length
    /\ UNCHANGED stage

\* AddTenor's exception leaves the call.
PeriodThrows ==
    /\ stage' = "thrown"
    /\ UNCHANGED <<curr, total_length, starts, ends>>

\* ForwardPeriod, without advancing the length.
ForwardPeriodStuck ==
    /\ stage = "periods" /\ Forward
    /\ curr < request.mat_date
    /\ AddPeriod(curr, Away(curr, Length), Away(request.start_date, total_length), total_length)
    /\ UNCHANGED <<request, cashflows>>

\* Every start is counted from the start date, every end from its own start.
ForwardPeriod ==
    /\ stage = "periods" /\ Forward
    /\ curr < request.mat_date
    /\ LET end == Away(curr, Length)
           next == Away(request.start_date, total_length)
       IN  IF Thrown \in {end, next} THEN PeriodThrows
           ELSE AddPeriod(curr, end, next, total_length + Length)
    /\ UNCHANGED <<request, cashflows>>

BackwardPeriod ==
    /\ stage = "periods" /\ ~Forward
    /\ curr > request.start_date
    /\ LET start == Away(curr, -Length)
           next == Away(request.mat_date, total_length)
       IN  IF Thrown \in {start, next} THEN PeriodThrows
           ELSE AddPeriod(start, curr, next, total_length - Length)
    /\ UNCHANGED <<request, cashflows>>

\* PeriodsDone, without the reversal.
PeriodsDoneUnsorted ==
    /\ stage = "periods"
    /\ IF Forward THEN curr >= request.mat_date ELSE curr =< request.start_date
    /\ stage' = "stubs"
    /\ UNCHANGED <<request, curr, total_length, starts, ends, cashflows>>

PeriodsDone ==
    /\ stage = "periods"
    /\ IF Forward THEN curr >= request.mat_date ELSE curr =< request.start_date
    /\ stage' = "stubs"
    /\ starts' = IF Forward THEN starts ELSE Reverse(starts)
    /\ ends' = IF Forward THEN ends ELSE Reverse(ends)
    /\ UNCHANGED <<request, curr, total_length, cashflows>>

-----------------------------------------------------------------------------
(* StubDateAdjustments *)

FrontStub == ~Forward /\ request.front_stub_type \in {"kLongFirst", "kShortFirst"}
BackStub == Forward /\ request.back_stub_type \in {"kLongLast", "kShortLast"}

LongStub ==
    \/ FrontStub /\ request.front_stub_type = "kLongFirst"
    \/ BackStub /\ request.back_stub_type = "kLongLast"

\* Periods that a stub swallows.
Swallowed == IF LongStub THEN 1 ELSE 0

\* erase, pop_back, front and back are undefined on what is empty.
NoPeriodLeft ==
    /\ stage = "stubs"
    /\ FrontStub \/ BackStub
    /\ Len(starts) =< Swallowed
    /\ stage' = "undefined"
    /\ UNCHANGED <<request, curr, total_length, starts, ends, cashflows>>

\* ShortenFront, when the erase forgets the ends.
ShortenFrontStarts ==
    /\ stage = "stubs" /\ FrontStub
    /\ Len(starts) > Swallowed
    /\ starts' = <<ValueOr(request.front_stub_date, request.start_date)>>
                     \o SubSeq(starts, 2 + Swallowed, Len(starts))
    /\ stage' = "rows"
    /\ UNCHANGED <<request, curr, total_length, ends, cashflows>>

ShortenFront ==
    /\ stage = "stubs" /\ FrontStub
    /\ Len(starts) > Swallowed
    /\ starts' = <<ValueOr(request.front_stub_date, request.start_date)>>
                     \o SubSeq(starts, 2 + Swallowed, Len(starts))
    /\ ends' = SubSeq(ends, 1 + Swallowed, Len(ends))
    /\ stage' = "rows"
    /\ UNCHANGED <<request, curr, total_length, cashflows>>

\* ShortenBack, without the fall-through from the long stub to the short one.
ShortenBackBreak ==
    /\ stage = "stubs" /\ BackStub
    /\ Len(starts) > Swallowed
    /\ starts' = SubSeq(starts, 1, Len(starts) - Swallowed)
    /\ ends' = SubSeq(ends, 1, Len(ends) - 1)
                   \o (IF LongStub THEN <<>>
                       ELSE <<ValueOr(request.back_stub_date, request.mat_date)>>)
    /\ stage' = "rows"
    /\ UNCHANGED <<request, curr, total_length, cashflows>>

ShortenBack ==
    /\ stage = "stubs" /\ BackStub
    /\ Len(starts) > Swallowed
    /\ starts' = SubSeq(starts, 1, Len(starts) - Swallowed)
    /\ ends' = SubSeq(ends, 1, Len(ends) - Swallowed - 1)
                   \o <<ValueOr(request.back_stub_date, request.mat_date)>>
    /\ stage' = "rows"
    /\ UNCHANGED <<request, curr, total_length, cashflows>>

NoStub ==
    /\ stage = "stubs" /\ ~FrontStub /\ ~BackStub
    /\ stage' = "rows"
    /\ UNCHANGED <<request, curr, total_length, starts, ends, cashflows>>

-----------------------------------------------------------------------------
(* The rows *)

\* The row of period i, adjusted with the start formula at both ends.
AdjustedOnce(i) ==
    LET start == Adjust(starts[i], request.start_adjustment)
        end == ends[i]
    IN  [unadj_start |-> starts[i], unadj_end |-> ends[i],
         start_date |-> start, end_date |-> end,
         fixing_date |-> start, payment_date |-> Adjust(end, request.pay_adjustment),
         cf_type |-> "kFixed"]

\* The row of period i.  A fixing formula of zero days leaves the start date.
Adjusted(i) ==
    LET start == Adjust(starts[i], request.start_adjustment)
        end == Adjust(ends[i], request.end_adjustment)
        from == IF request.reset_direction = "kAdvance" THEN start ELSE end
    IN  [unadj_start |-> starts[i], unadj_end |-> ends[i],
         start_date |-> start, end_date |-> end,
         fixing_date |-> IF request.fix_adjustment.days = 0 THEN start
                         ELSE Adjust(from, request.fix_adjustment),
         payment_date |-> Adjust(end, request.pay_adjustment),
         cf_type |-> "kFixed"]

\* GenerateDayCounter knows all rules but this one and returns null for it.
HasDayCounter == request.day_count_rule # "kACTB_ACTB"

\* One iteration: the null counter is dereferenced before the coupon throws.
AddRow ==
    /\ stage = "rows"
    /\ Len(cashflows) < Len(starts)
    /\ IF ~HasDayCounter THEN stage' = "undefined" /\ UNCHANGED cashflows
       ELSE IF request.calc_type = "kCompounding"
       THEN stage' = "thrown" /\ UNCHANGED cashflows
       ELSE /\ cashflows' = Append(cashflows, Adjusted(Len(cashflows) + 1))
            /\ UNCHANGED stage
    /\ UNCHANGED <<request, curr, total_length, starts, ends>>

\* AddPrincipal, copying the first row.
AddPrincipalFront ==
    /\ stage = "rows"
    /\ Len(cashflows) = Len(starts)
    /\ IF cashflows = <<>> THEN stage' = "undefined" /\ UNCHANGED cashflows
       ELSE /\ cashflows' = Append(cashflows, [cashflows[1] EXCEPT !.cf_type = "kPrincipal"])
            /\ stage' = "done"
    /\ UNCHANGED <<request, curr, total_length, starts, ends>>

\* The principal is a copy of the last row; back() of no rows is undefined.
AddPrincipal ==
    /\ stage = "rows"
    /\ Len(cashflows) = Len(starts)
    /\ IF cashflows = <<>> THEN stage' = "undefined" /\ UNCHANGED cashflows
       ELSE /\ cashflows' = Append(cashflows,
                   [cashflows[Len(cashflows)] EXCEPT !.cf_type = "kPrincipal"])
            /\ stage' = "done"
    /\ UNCHANGED <<request, curr, total_length, starts, ends>>

\* The caller has its rows, or its exception.
Returned == stage \in {"done", "thrown", "undefined"} /\ UNCHANGED scheduleVars

ScheduleNext ==
    \/ CreateFixedCashflows
    \/ ForwardPeriod \/ BackwardPeriod \/ PeriodsDone
    \/ NoPeriodLeft \/ ShortenFront \/ ShortenBack \/ NoStub
    \/ AddRow \/ AddPrincipal
    \/ Returned

ScheduleSpec == ScheduleInit /\ [][ScheduleNext]_scheduleVars

-----------------------------------------------------------------------------
(* What must hold *)

\* Stub dates that are given lie within the term and within the stub.
SensibleStubs ==
    LET front == ValueOr(request.front_stub_date, request.start_date)
        back == ValueOr(request.back_stub_date, request.mat_date)
    IN  front =< request.start_date /\ back >= request.mat_date

Increasing(s) == \A i \in 1 .. Len(s) - 1 : s[i] < s[i + 1]

\* Periods that start on the same day of every month, or every so many days.
Anchor == YMD(IF Forward THEN request.start_date ELSE request.mat_date)
Regular == request.reset_freq.unit \in {"D", "W"} \/ Anchor.day =< 28

\* Once the periods are there, each has a start before its end, and starts and
\* ends both increase strictly, whatever the direction, the ends of the months
\* and the stubs (237-256); a short first stub, which moves one start and not
\* the overlapping one after it, needs periods without drift for that.
Chronological ==
    stage \in {"stubs", "rows", "done"} /\ SensibleStubs =>
        /\ \A i \in 1 .. Len(starts) : starts[i] < ends[i]
        /\ Increasing(ends)
        /\ Regular \/ ~FrontStub \/ LongStub => Increasing(starts)

\* Where the first and the last period of a schedule lie.
CoveredTerm ==
    LET first == starts[1]
        last == ends[Len(ends)]
    IN  /\ first =< request.start_date
        /\ last >= request.mat_date - (IF Regular THEN 0 ELSE 3)
        /\ Forward => first = request.start_date
        /\ ~Forward => last = request.mat_date
        /\ FrontStub => first = ValueOr(request.front_stub_date, request.start_date)
        /\ BackStub => last = ValueOr(request.back_stub_date, request.mat_date)
        /\ Regular => \A i \in 2 .. Len(starts) : starts[i] > request.start_date
        /\ \A i \in 1 .. Len(ends) - 1 : ends[i] < request.mat_date

\* A finished schedule begins or ends exactly on the date it is generated from,
\* and with a stub at the other end there as well (or on the stub date given);
\* without one it reaches beyond, except that the drift of a month's last days
\* may leave it three days short.  No period but the last starts or ends there.
CoversTheTerm == stage = "done" /\ SensibleStubs => CoveredTerm

\* Each period ends where the next begins.  Starts are counted from the start
\* date and ends from their own start (230-232, and 243-245 backward), so that
\* on the last days of a month the periods drift apart: forward they may leave
\* a gap but never overlap, backward they may overlap but leave no gap, by
\* three days at most, and not at all for days up to the 28th.
PeriodsMeet ==
    stage \in {"stubs", "rows", "done"} =>
        \A i \in 1 .. Len(starts) - 1 :
            LET gap == starts[i + 1] - ends[i] IN
            /\ Forward => gap \in 0 .. 3
            /\ ~Forward => gap \in -3 .. 0
            /\ Regular => gap = 0

\* With one formula for both ends of the periods (Acc_Adj_Rule, time_xl.cpp:160),
\* business-day adjustment keeps the accruals in order: none ends before it
\* starts, or after the next one ends, and none is paid before it ends.
AccrualsInOrder ==
    request.start_adjustment = request.end_adjustment /\ SensibleStubs =>
        /\ \A i \in 1 .. Len(cashflows) :
               /\ cashflows[i].start_date =< cashflows[i].end_date
               /\ request.pay_adjustment.days >= 0 =>
                      cashflows[i].payment_date >= cashflows[i].end_date
        /\ \A i \in 1 .. Len(cashflows) - 1 :
               cashflows[i].end_date =< cashflows[i + 1].end_date

\* A call has undefined behaviour only for a term without a day in it, a long
\* stub over a single period, or the day-count rule without a counter; what is
\* returned has a row per period, and the principal beside the last of them.
UndefinedOnlyThen ==
    /\ stage = "undefined" =>
           \/ request.start_date = request.mat_date
           \/ Swallowed = 1 /\ Len(starts) = 1
           \/ ~HasDayCounter
    /\ stage = "done" =>
           /\ Len(starts) > 0 /\ Len(cashflows) = Len(starts) + 1
           /\ cashflows[Len(cashflows)].payment_date = cashflows[Len(starts)].payment_date

\* Every call ends: an iteration over the periods brings the loop's date closer
\* to the other end of the term, and one over the rows adds a row.  (No state
\* of a call is a deadlock, so a call whose steps all do this ends.)  Dates stay
\* numbers on the way: none is the exception of Date or Tenor.
Remaining == IF Forward THEN request.mat_date - curr ELSE curr - request.start_date
Closer ==
    /\ stage = "periods" /\ stage' = "periods" => Remaining' < Remaining
    /\ stage = "rows" /\ stage' = "rows" => Len(cashflows') > Len(cashflows)
EveryStepCloser == []ScheduleTypeOK /\ [][Closer]_scheduleVars
===============================================================================
