-------------------------- MODULE MCCashflowSchedule --------------------------
(* Terms that begin and end on short and long months' last days, with every *)
(* direction, stub and tenor, and with one thing at a time changed besides. *)
EXTENDS CashflowSchedule

NYB == [weekends |-> {5, 6},
        holidays |-> {NewDate(2024, 1, 1), NewDate(2024, 2, 19), NewDate(2024, 5, 27)}]
Lunar == [weekends |-> {5, 6}, holidays |-> NewDate(2024, 2, 8) .. NewDate(2024, 2, 16)]
MCCalendars == {NYB, Lunar}

None == [days |-> 0, calendar |-> NoCalendar]
Directions == {"kForward", "kBackward"}

Basic ==
    [start_date |-> NewDate(2024, 1, 3), mat_date |-> NewDate(2024, 7, 3),
     reset_freq |-> [count |-> 3, unit |-> "M"], day_count_rule |-> "kACT_360",
     date_direction |-> "kForward", front_stub_type |-> "kNone", back_stub_type |-> "kNone",
     front_stub_date |-> 0, back_stub_date |-> 0,
     start_adjustment |-> None, end_adjustment |-> None,
     pay_adjustment |-> None, fix_adjustment |-> None,
     reset_direction |-> "kAdvance", calc_type |-> "kFlat"]

StartDates == {NewDate(2023, 12, 31), NewDate(2024, 1, 3), NewDate(2024, 2, 29)}
    \cup NewDate(2024, 1, 27) .. NewDate(2024, 2, 2)
MatDates == {NewDate(2024, 1, 28), NewDate(2024, 2, 29), NewDate(2024, 7, 3),
             NewDate(2024, 8, 31), NewDate(2025, 3, 1)}
    \cup NewDate(2024, 3, 28) .. NewDate(2024, 4, 1)
TenorsOfTerms == {[count |-> 1, unit |-> "M"], [count |-> 3, unit |-> "M"],
                  [count |-> 2, unit |-> "W"], [count |-> 45, unit |-> "D"],
                  [count |-> 1, unit |-> "Y"]}

\* Every term, tenor and direction with every stub that its direction knows.
Terms ==
    {[Basic EXCEPT !.start_date = s, !.mat_date = m, !.reset_freq = t,
                   !.date_direction = d, !.front_stub_type = f, !.back_stub_type = b] :
        s \in StartDates, m \in MatDates, t \in TenorsOfTerms, d \in Directions,
        f \in {"kNone", "kShortFirst", "kLongFirst"},
        b \in {"kNone", "kShortLast", "kLongLast"}}

\* Stub dates that are given, as the unit tests give them.
StubDates ==
    {[Basic EXCEPT !.date_direction = d, !.front_stub_type = f, !.back_stub_type = b,
                   !.front_stub_date = NewDate(2023, 12, 20),
                   !.back_stub_date = NewDate(2024, 7, 23)] :
        d \in Directions, f \in {"kShortFirst", "kLongFirst"}, b \in {"kShortLast", "kLongLast"}}

Formulas == {None, [days |-> 2, calendar |-> NoCalendar], [days |-> 2, calendar |-> NYB],
             [days |-> -2, calendar |-> NYB], [days |-> 1, calendar |-> Lunar],
             [days |-> 0, calendar |-> NYB]}
Weekly == [Basic EXCEPT !.start_date = NewDate(2024, 2, 6), !.mat_date = NewDate(2024, 3, 6)]

\* Short periods around holidays, adjusted.
AdjustedTerms ==
    {[Weekly EXCEPT !.reset_freq = [count |-> n, unit |-> "D"],
                    !.start_adjustment = a, !.end_adjustment = e,
                    !.pay_adjustment = p, !.fix_adjustment = x, !.reset_direction = r] :
        n \in {3, 7}, a \in Formulas, e \in Formulas, p \in {None, [days |-> 2, calendar |-> NYB]},
        x \in {None, [days |-> -2, calendar |-> NYB]}, r \in {"kAdvance", "kInArears"}}

Failing ==
    {[Basic EXCEPT !.day_count_rule = d, !.calc_type = c] :
        d \in {"kACTB_ACTB", "kACT_360"}, c \in {"kCompounding", "kUSTStreetConv"}}

MCRequests == Terms \cup StubDates \cup AdjustedTerms \cup Failing
===============================================================================
