-------------------------- MODULE MCBusinessCalendar --------------------------
(* Ends of a January, a leap February and a December under four calendars. *)
EXTENDS BusinessCalendar

January1 == NewDate(2024, 1, 1)
February1 == NewDate(2024, 2, 1)
March1 == NewDate(2024, 3, 1)

\* As in static_data/calendars: Saturdays and Sundays, and a few holidays.
NYB == [weekends |-> {5, 6},
        holidays |-> {January1 - 7, January1, NewDate(2024, 1, 15), NewDate(2024, 2, 19)}]
\* Another weekend, and a holiday on the last working days of two months.
TLV == [weekends |-> {4, 5},
        holidays |-> {February1 - 2, February1 - 1, March1 - 1, March1}]
\* Closed for all of February.
Closed == [weekends |-> {6}, holidays |-> February1 .. March1 - 1]
Empty == [weekends |-> {}, holidays |-> {}]

MCData == {<<NYB>>, <<NYB, TLV>>, <<Closed>>, <<Empty>>}
MCBases == (January1 - 9 .. January1 + 3)
    \cup (February1 - 8 .. February1 + 3)
    \cup (March1 - 6 .. March1 + 3)
MCCounts == -4 .. 4
MCTenors == {[count |-> 0, unit |-> "D"], [count |-> -1, unit |-> "D"],
             [count |-> 1, unit |-> "W"], [count |-> 1, unit |-> "M"],
             [count |-> -3, unit |-> "M"], [count |-> 1, unit |-> "Y"]}
===============================================================================
