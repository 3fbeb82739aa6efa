---------------------------- MODULE DateWalkProofs ----------------------------
(***************************************************************************)
(* The walk of DateWalk agrees with the wall calendar on every day, for    *)
(* any first years and shifts, by the theorems about the arithmetic; and   *)
(* on every day, for any zones within a day of UTC, what a date is turned  *)
(* into reads back as DateConversions says.                                *)
(***************************************************************************)
EXTENDS DateConversions, DatesProofs, SequenceTheorems

\* The two leap-year rules and the two tables of month lengths agree.
LEMMA SameLengths ==
    ASSUME NEW y \in Int, NEW m \in 1 .. 12
    PROVE  /\ DaysInMonth(y, m) = MonthLength(y, m)
           /\ MonthLength(y, m) \in 28 .. 31
<1>1. IsLeap(y) <=> LeapYear(y)
    BY DEF IsLeap, LeapYear, Rem, Quot
<1>2. QED
    BY <1>1 DEF DaysInMonth, MonthLength

-----------------------------------------------------------------------------
(* The walk *)

\* The wall calendar stands at a date not before the walk's first year, and
\* the Date holds that date's number.
IInv ==
    /\ TypeOK
    /\ \E y \in FirstYears : y =< civil.year
    /\ julian = ConvertToJulian(civil.year, civil.month, civil.day)

LEMMA OnADate ==
    ASSUME IInv
    PROVE  /\ civil.year \in Int /\ civil.month \in Int /\ civil.day \in Int
           /\ civil = [year |-> civil.year, month |-> civil.month, day |-> civil.day]
           /\ IsDate(civil.year, civil.month, civil.day)
<1>1. /\ civil.year \in Int /\ civil.month \in 1 .. 12 /\ civil.day \in 1 .. 31
      /\ civil = [year |-> civil.year, month |-> civil.month, day |-> civil.day]
    BY DEF IInv, TypeOK, CivilDate
<1>2. DaysInMonth(civil.year, civil.month) = MonthLength(civil.year, civil.month)
    BY <1>1, SameLengths
<1>3. civil.year >= -4712 /\ civil.day =< MonthLength(civil.year, civil.month)
    BY DEF IInv, TypeOK
<1>4. QED
    BY <1>1, <1>2, <1>3 DEF IsDate

\* One day on, the wall calendar is at a date again, with the next number.
LEMMA TomorrowIsNext ==
    ASSUME NEW y \in Int, NEW m \in Int, NEW d \in Int, IsDate(y, m, d),
           NEW to, to = Tomorrow([year |-> y, month |-> m, day |-> d])
    PROVE  /\ to \in CivilDate
           /\ IsDate(to.year, to.month, to.day)
           /\ to.year >= y
           /\ ConvertToJulian(to.year, to.month, to.day) = ConvertToJulian(y, m, d) + 1
           /\ \/ to.year = y /\ to.month = m /\ to.day = d + 1
              \/ 12 * to.year + to.month = 12 * y + m + 1
<1>1. /\ m \in 1 .. 12 /\ d \in 1 .. 31 /\ d =< DaysInMonth(y, m) /\ y >= -4712
      /\ DaysInMonth(y, m) = MonthLength(y, m) /\ DaysInMonth(y, m) \in 28 .. 31
    BY SameLengths DEF IsDate
<1>2. CASE d < MonthLength(y, m)
    <2>1. to = [year |-> y, month |-> m, day |-> d + 1]
        BY <1>2 DEF Tomorrow
    <2>2. IsDate(y, m, d + 1) /\ d + 1 \in 1 .. 31
        BY <1>1, <1>2 DEF IsDate
    <2>3. ConvertToJulian(y, m, d + 1) = ConvertToJulian(y, m, d) + 1
        BY DEF ConvertToJulian, Quot
    <2>4. QED
        BY <1>1, <2>1, <2>2, <2>3 DEF CivilDate
<1>3. CASE d = MonthLength(y, m) /\ m < 12
    <2>1. to = [year |-> y, month |-> m + 1, day |-> 1]
        BY <1>1, <1>3 DEF Tomorrow
    <2>2. m + 1 \in 1 .. 12 /\ DaysInMonth(y, m + 1) >= 1
        BY <1>1, <1>3 DEF DaysInMonth
    <2>3. IsDate(y, m + 1, 1)
        BY <1>1, <2>2 DEF IsDate
    <2>4. m \in 1 .. 11
        BY <1>1, <1>3
    <2>5. ConvertToJulian(y, m + 1, 1) = ConvertToJulian(y, m, d) + 1
        BY <1>1, <1>3, <2>4, NextMonth
    <2>6. QED
        BY <1>1, <2>1, <2>2, <2>3, <2>5 DEF CivilDate
<1>4. CASE d = MonthLength(y, m) /\ m = 12
    <2>1. to = [year |-> y + 1, month |-> 1, day |-> 1]
        BY <1>1, <1>4 DEF Tomorrow
    <2>2. IsDate(y + 1, 1, 1)
        BY <1>1 DEF IsDate, DaysInMonth
    <2>3. d = 31
        BY <1>1, <1>4 DEF DaysInMonth
    <2>4. ConvertToJulian(y + 1, 1, 1) = ConvertToJulian(y, m, d) + 1
        BY <1>1, <1>4, <2>3, NextYear
    <2>5. QED
        BY <1>1, <1>4, <2>1, <2>2, <2>4 DEF CivilDate
<1>5. QED
    BY <1>1, <1>2, <1>3, <1>4

LEMMA InitIInv == Init => IInv
<1> SUFFICES ASSUME NEW y \in FirstYears,
                    civil = [year |-> y, month |-> 1, day |-> 1],
                    julian = NewDate(y, 1, 1)
             PROVE  IInv
    BY DEF Init
<1>1. y \in Int /\ y >= -4712
    BY WalkAssumption
<1>2. julian = ConvertToJulian(y, 1, 1) /\ MonthLength(y, 1) = 31
    BY DEF NewDate, DaysInMonth, MonthLength
<1>3. julian \in Int
    BY <1>1, <1>2, InMonth
<1>4. QED
    BY <1>1, <1>2, <1>3 DEF IInv, TypeOK, CivilDate

\* A step, and where it leads.
LEMMA StepIInv ==
    ASSUME IInv, [Next]_vars
    PROVE  IInv'
<1>1. CASE UNCHANGED vars
    BY <1>1 DEF IInv, TypeOK, vars
<1>2. CASE NextDay
    <2>1. /\ civil.year \in Int /\ civil.month \in Int /\ civil.day \in Int
          /\ civil = [year |-> civil.year, month |-> civil.month, day |-> civil.day]
          /\ IsDate(civil.year, civil.month, civil.day)
        BY OnADate
    <2>2. civil' = Tomorrow(civil) /\ julian' = julian + 1
        BY <1>2 DEF NextDay, AddDays
    <2>3. /\ civil' \in CivilDate
          /\ IsDate(civil'.year, civil'.month, civil'.day)
          /\ civil'.year >= civil.year
          /\ ConvertToJulian(civil'.year, civil'.month, civil'.day)
               = ConvertToJulian(civil.year, civil.month, civil.day) + 1
        BY <2>1, <2>2, TomorrowIsNext
    <2>4. civil'.day =< MonthLength(civil'.year, civil'.month) /\ civil'.year >= -4712
        BY <2>3, SameLengths DEF IsDate
    <2>5. \E y \in FirstYears : y =< civil'.year
        BY <2>1, <2>3, WalkAssumption DEF IInv, CivilDate
    <2>6. QED
        BY <2>2, <2>3, <2>4, <2>5 DEF IInv, TypeOK
<1>3. QED
    BY <1>1, <1>2 DEF Next

THEOREM Invariance == Spec => []IInv
BY InitIInv, StepIInv, PTL DEF Spec

\* Both conversions of date.cpp agree with the Gregorian calendar on every
\* day that any walk reaches.
THEOREM ConversionsAgree == Spec => []CalendarAgrees
<1>1. IInv => CalendarAgrees
    <2> SUFFICES ASSUME IInv PROVE CalendarAgrees
        OBVIOUS
    <2>1. /\ civil.year \in Int /\ civil.month \in Int /\ civil.day \in Int
          /\ civil = [year |-> civil.year, month |-> civil.month, day |-> civil.day]
          /\ IsDate(civil.year, civil.month, civil.day)
        BY OnADate
    <2>2. YMD(julian) = civil
        BY <2>1, RoundTrip DEF IInv
    <2>3. /\ civil.month \in 1 .. 12 /\ civil.day # 0
          /\ ~(civil.day > DaysInMonth(civil.year, civil.month))
        BY <2>1 DEF IsDate, DaysInMonth
    <2>4. NewDate(civil.year, civil.month, civil.day) = julian
        BY <2>3 DEF NewDate, IInv
    <2>5. QED
        BY <2>2, <2>4 DEF CalendarAgrees
<1>2. QED
    BY <1>1, Invariance, PTL

\* What is n months away from the wall calendar's date.
LEMMA ShiftLands ==
    ASSUME IInv, NEW n \in Int, \A y \in FirstYears : 12 * y + n >= 12 * (-4712)
    PROVE  LET to == Landed(civil.year, civil.month, civil.day, n)
           IN  /\ IsDate(to.year, to.month, to.day)
               /\ to \in CivilDate
               /\ 12 * to.year + to.month = 12 * civil.year + civil.month + n
               /\ AddMonths(julian, n) = ConvertToJulian(to.year, to.month, to.day)
               /\ YMD(AddMonths(julian, n)) = to
<1>1. /\ civil.year \in Int /\ civil.month \in Int /\ civil.day \in Int
      /\ IsDate(civil.year, civil.month, civil.day)
    BY OnADate
<1>2. 12 * civil.year + civil.month + n >= 12 * (-4712) + 1
    <2>1. PICK y \in FirstYears : y =< civil.year
        BY DEF IInv
    <2>2. y \in Int /\ 12 * y + n >= 12 * (-4712) /\ civil.month >= 1
        BY <1>1, WalkAssumption DEF IsDate
    <2>3. QED
        BY <1>1, <2>1, <2>2
<1>3. julian = ConvertToJulian(civil.year, civil.month, civil.day)
    BY DEF IInv
<1>4. QED
    BY <1>1, <1>2, <1>3, AddMonthsLands

\* A shift, and twelve times a shift, stay after the start of year -4712.
LEMMA ShiftsInRange ==
    ASSUME NEW n \in Shifts, NEW y \in FirstYears
    PROVE  n \in Int /\ y \in Int /\ 12 * y + n >= 12 * (-4712) /\ 12 * y + 12 * n >= 12 * (-4712)
<1>1. n \in Int /\ y \in Int /\ y + n >= -4712 /\ y >= -4712
    BY WalkAssumption
<1>2. QED
    BY <1>1

\* AddMonths lands on the right month and day from every day of a walk.
THEOREM MonthsAreAdded == Spec => []MonthsLandRight
<1>1. IInv => MonthsLandRight
    <2> SUFFICES ASSUME IInv, NEW n \in Shifts
                 PROVE  LET there == AddMonths(julian, n)
                            date == YMD(there)
                            length == MonthLength(date.year, date.month)
                        IN  /\ there # Thrown
                            /\ 12 * date.year + date.month = 12 * civil.year + civil.month + n
                            /\ date.day = IF civil.day =< length THEN civil.day ELSE length
        BY DEF MonthsLandRight
    <2> DEFINE to == Landed(civil.year, civil.month, civil.day, n)
    <2>1. n \in Int /\ \A y \in FirstYears : 12 * y + n >= 12 * (-4712)
        BY ShiftsInRange, WalkAssumption
    <2>2. /\ to \in CivilDate
          /\ 12 * to.year + to.month = 12 * civil.year + civil.month + n
          /\ AddMonths(julian, n) = ConvertToJulian(to.year, to.month, to.day)
          /\ YMD(AddMonths(julian, n)) = to
        BY <2>1, ShiftLands
    <2>3. to.day = IF civil.day =< DaysInMonth(to.year, to.month)
                   THEN civil.day ELSE DaysInMonth(to.year, to.month)
        BY DEF Landed
    <2> HIDE DEF to
    <2>4. to.year \in Int /\ to.month \in 1 .. 12 /\ to.month \in Int /\ to.day \in Int
        BY <2>2 DEF CivilDate
    <2>5. DaysInMonth(to.year, to.month) = MonthLength(to.year, to.month)
        BY <2>4, SameLengths
    <2>6. AddMonths(julian, n) # Thrown
        <3>1. ConvertToJulian(to.year, to.month, to.day) \in Int
            BY <2>4, InMonth
        <3>2. QED
            BY <2>2, <3>1, ThrownAssumption
    <2>7. QED
        BY <2>2, <2>3, <2>5, <2>6
<1>2. QED
    BY <1>1, Invariance, PTL

\* A year is twelve months from every day of a walk.
THEOREM TwelveMonthsAYear == Spec => []YearsAreTwelveMonths
<1>1. IInv => YearsAreTwelveMonths
    <2> SUFFICES ASSUME IInv, NEW n \in Shifts
                 PROVE  AddYears(julian, n) = AddMonths(julian, 12 * n)
        BY DEF YearsAreTwelveMonths
    <2>1. n \in Int
        BY WalkAssumption
    <2>2. /\ civil.year \in Int /\ civil.month \in Int /\ civil.day \in Int
          /\ IsDate(civil.year, civil.month, civil.day)
        BY OnADate
    <2>3. julian = ConvertToJulian(civil.year, civil.month, civil.day)
        BY DEF IInv
    <2>4. QED
        BY <2>1, <2>2, <2>3, TwelveMonths
<1>2. QED
    BY <1>1, Invariance, PTL

-----------------------------------------------------------------------------
(* Order *)

\* A step takes the walk one day on: within a month or into the next one.
LEMMA OneDayOn ==
    ASSUME IInv, NextDay
    PROVE  /\ civil'.year \in Int /\ civil'.month \in Int /\ civil'.day \in Int
           /\ IsDate(civil'.year, civil'.month, civil'.day)
           /\ \/ /\ civil'.year = civil.year /\ civil'.month = civil.month
                 /\ civil'.day = civil.day + 1
              \/ 12 * civil'.year + civil'.month = 12 * civil.year + civil.month + 1
<1>1. /\ civil.year \in Int /\ civil.month \in Int /\ civil.day \in Int
      /\ civil = [year |-> civil.year, month |-> civil.month, day |-> civil.day]
      /\ IsDate(civil.year, civil.month, civil.day)
    BY OnADate
<1>2. civil' = Tomorrow([year |-> civil.year, month |-> civil.month, day |-> civil.day])
    BY <1>1 DEF NextDay
<1>3. QED
    BY <1>1, <1>2, TomorrowIsNext DEF CivilDate

\* Adding months keeps dates in order, on every step of a walk.
THEOREM OrderIsKept == Spec => ShiftsKeepOrder
<1> DEFINE Kept(n) == /\ AddMonths(julian, n) =< AddMonths(julian', n)
                      /\ AddMonths(julian, n) < AddMonths(julian, n + 1)
<1>1. ASSUME IInv, IInv', NextDay, NEW n \in Shifts
      PROVE  Kept(n)
    <2> DEFINE to == Landed(civil.year, civil.month, civil.day, n)
               up == Landed(civil'.year, civil'.month, civil'.day, n)
               on == Landed(civil.year, civil.month, civil.day, n + 1)
    <2>1. /\ n \in Int /\ n + 1 \in Int
          /\ \A y \in FirstYears : 12 * y + n >= 12 * (-4712)
          /\ \A y \in FirstYears : 12 * y + (n + 1) >= 12 * (-4712)
        BY ShiftsInRange, WalkAssumption
    <2>2. /\ IsDate(to.year, to.month, to.day) /\ to \in CivilDate
          /\ 12 * to.year + to.month = 12 * civil.year + civil.month + n
          /\ AddMonths(julian, n) = ConvertToJulian(to.year, to.month, to.day)
        BY <1>1, <2>1, ShiftLands
    <2>3. /\ IsDate(on.year, on.month, on.day) /\ on \in CivilDate
          /\ 12 * on.year + on.month = 12 * civil.year + civil.month + (n + 1)
          /\ AddMonths(julian, n + 1) = ConvertToJulian(on.year, on.month, on.day)
        BY <1>1, <2>1, ShiftLands
    <2>4. /\ IsDate(up.year, up.month, up.day) /\ up \in CivilDate
          /\ 12 * up.year + up.month = 12 * civil'.year + civil'.month + n
          /\ AddMonths(julian', n) = ConvertToJulian(up.year, up.month, up.day)
        <3>1. /\ civil'.year \in Int /\ civil'.month \in Int /\ civil'.day \in Int
              /\ IsDate(civil'.year, civil'.month, civil'.day)
            BY <1>1, OneDayOn
        <3>2. julian' = ConvertToJulian(civil'.year, civil'.month, civil'.day)
            BY <1>1 DEF IInv
        <3>3. PICK y \in FirstYears : y =< civil'.year
            BY <1>1 DEF IInv
        <3>4. y \in Int /\ 12 * y + n >= 12 * (-4712) /\ civil'.month >= 1
            BY <2>1, <3>1, WalkAssumption DEF IsDate
        <3>5. 12 * civil'.year + civil'.month + n >= 12 * (-4712) + 1
            BY <2>1, <3>1, <3>3, <3>4
        <3>6. QED
            BY <2>1, <3>1, <3>2, <3>5, AddMonthsLands
    <2>5. /\ civil.year \in Int /\ civil.month \in Int /\ civil.day \in Int
          /\ civil.month \in 1 .. 12 /\ IsDate(civil.year, civil.month, civil.day)
        BY <1>1, OnADate DEF IsDate
    <2>6. /\ to.year \in Int /\ to.month \in Int /\ to.day \in Int
          /\ up.year \in Int /\ up.month \in Int /\ up.day \in Int
          /\ on.year \in Int /\ on.month \in Int /\ on.day \in Int
        BY <2>2, <2>3, <2>4 DEF CivilDate
    <2>7. AddMonths(julian, n) =< AddMonths(julian', n)
        <3>1. CASE /\ civil'.year = civil.year /\ civil'.month = civil.month
                   /\ civil'.day = civil.day + 1
            BY <2>1, <2>2, <2>4, <2>5, <3>1, ClipKeepsOrder
        <3>2. CASE 12 * civil'.year + civil'.month = 12 * civil.year + civil.month + 1
            <4> HIDE DEF to, up, on
            <4>1. 12 * up.year + up.month = 12 * to.year + to.month + 1
                BY <2>1, <2>2, <2>4, <2>5, <2>6, <3>2
            <4>2. ConvertToJulian(to.year, to.month, to.day)
                    < ConvertToJulian(up.year, up.month, up.day)
                BY <2>2, <2>4, <2>6, <4>1, MonthsInOrder
            <4>3. /\ ConvertToJulian(to.year, to.month, to.day) \in Int
                  /\ ConvertToJulian(up.year, up.month, up.day) \in Int
                BY <2>6, InMonth
            <4>4. QED
                BY <2>2, <2>4, <4>2, <4>3
        <3>3. QED
            BY <1>1, <3>1, <3>2, OneDayOn
    <2>8. AddMonths(julian, n) < AddMonths(julian, n + 1)
        <3> HIDE DEF to, up, on
        <3>1. 12 * on.year + on.month = 12 * to.year + to.month + 1
            BY <2>1, <2>2, <2>3, <2>5, <2>6
        <3>2. ConvertToJulian(to.year, to.month, to.day)
                < ConvertToJulian(on.year, on.month, on.day)
            BY <2>2, <2>3, <2>6, <3>1, MonthsInOrder
        <3>3. QED
            BY <2>2, <2>3, <3>2
    <2>9. QED
        BY <2>7, <2>8
<1>2. IInv /\ IInv' /\ [Next]_vars => [\A n \in Shifts : Kept(n)]_vars
    BY <1>1 DEF Next
<1>3. QED
    BY <1>2, Invariance, PTL DEF Spec, ShiftsKeepOrder
-----------------------------------------------------------------------------
(* Texts *)

\* Two and three pieces joined.
LEMMA JoinTwo ==
    ASSUME NEW a, NEW b
    PROVE  <<a>> \o <<b>> = <<a, b>>
<1> DEFINE S == {a, b}
<1>1. <<a>> \in Seq(S) /\ <<b>> \in Seq(S) /\ <<a, b>> \in Seq(S)
    OBVIOUS
<1> HIDE DEF S
<1>2. /\ <<a>> \o <<b>> \in Seq(S) /\ Len(<<a>> \o <<b>>) = 2
      /\ \A i \in 1 .. 2 : (<<a>> \o <<b>>)[i] = IF i <= 1 THEN <<a>>[i] ELSE <<b>>[i - 1]
    BY <1>1, ConcatProperties
<1>3. \A i \in 1 .. 2 : (<<a>> \o <<b>>)[i] = <<a, b>>[i]
    BY <1>2
<1>4. QED
    BY <1>1, <1>2, <1>3, SeqEqual

LEMMA JoinThree ==
    ASSUME NEW a, NEW b, NEW c
    PROVE  <<a, b>> \o <<c>> = <<a, b, c>>
<1> DEFINE S == {a, b, c}
<1>1. <<a, b>> \in Seq(S) /\ <<c>> \in Seq(S) /\ <<a, b, c>> \in Seq(S)
    OBVIOUS
<1> HIDE DEF S
<1>2. /\ <<a, b>> \o <<c>> \in Seq(S) /\ Len(<<a, b>> \o <<c>>) = 3
      /\ \A i \in 1 .. 3 : (<<a, b>> \o <<c>>)[i] = IF i <= 2 THEN <<a, b>>[i] ELSE <<c>>[i - 2]
    BY <1>1, ConcatProperties
<1>3. \A i \in 1 .. 3 : (<<a, b>> \o <<c>>)[i] = <<a, b, c>>[i]
    BY <1>2
<1>4. QED
    BY <1>1, <1>2, <1>3, SeqEqual

\* The pieces texts are made of.
Pieces == {Digits(w, v) : w \in Int, v \in Int} \cup {Dash}

LEMMA InPieces ==
    ASSUME NEW w \in Int, NEW v \in Int
    PROVE  Digits(w, v) \in Pieces /\ Dash \in Pieces
BY DEF Pieces

LEMMA OnePiece ==
    ASSUME NEW a \in Pieces
    PROVE  <<a>> \in Seq(Pieces) /\ Len(<<a>>) = 1
OBVIOUS

LEMMA PiecesDiffer ==
    ASSUME NEW w, NEW v
    PROVE  /\ Digits(w, v).width = w /\ Digits(w, v).value = v
           /\ Digits(w, v) \notin Delimiters
           /\ Dash \in Delimiters
BY DEF Digits, Char, Dash, Delimiters

\* The widths that matter: those of a month, a day and a year.
LEMMA Widths ==
    ASSUME NEW n \in Nat
    PROVE  /\ WidthOf(n) \in 1 .. 5
           /\ n < 100 => WidthOf(n) \in 1 .. 2
           /\ WidthOf(n) = 4 <=> n \in 1000 .. 9999
           /\ WidthOf(n) > 4 <=> n > 9999
           /\ n > 99 <=> WidthOf(n) > 2
BY DEF WidthOf

LEMMA YearWidths ==
    ASSUME NEW y \in Int
    PROVE  /\ (IF y > 9999 THEN WidthOf(y) ELSE 4) \in Int
           /\ (IF y > 9999 THEN WidthOf(y) ELSE 4) = 4 <=> y =< 9999
           /\ (IF y >= 0 THEN WidthOf(y) ELSE 0) \in Int
           /\ (IF y >= 0 THEN WidthOf(y) ELSE 0) = 4 <=> y \in 1000 .. 9999
BY DEF WidthOf

LEMMA OneMore ==
    ASSUME NEW s \in Seq(Pieces), NEW a \in Pieces
    PROVE  /\ s \o <<a>> \in Seq(Pieces)
           /\ Len(s \o <<a>>) = Len(s) + 1
           /\ (s \o <<a>>)[Len(s) + 1] = a
           /\ \A i \in 1 .. Len(s) : (s \o <<a>>)[i] = s[i]
<1> DEFINE one == <<a>>
<1>1. one \in Seq(Pieces) /\ Len(one) = 1 /\ one[1] = a
    BY OnePiece
<1>2. Len(s) \in Nat
    BY LenProperties
<1> HIDE DEF one
<1>3. /\ s \o one \in Seq(Pieces)
      /\ Len(s \o one) = Len(s) + Len(one)
      /\ \A i \in 1 .. Len(s) + Len(one) :
            (s \o one)[i] = IF i <= Len(s) THEN s[i] ELSE one[i - Len(s)]
    BY <1>1, ConcatProperties
<1>4. (s \o one)[Len(s) + 1] = one[Len(s) + 1 - Len(s)]
    BY <1>1, <1>2, <1>3
<1>5. (s \o one)[Len(s) + 1] = a
    BY <1>1, <1>2, <1>4
<1>6. \A i \in 1 .. Len(s) : (s \o one)[i] = s[i]
    BY <1>1, <1>2, <1>3
<1>7. QED
    BY <1>1, <1>3, <1>5, <1>6 DEF one

\* A text of five pieces, and one of a year and single pieces between dashes.
Five(a, b, c, d, e) == <<a, b, c, d, e>>
Joined(year, month, day) == year \o <<Dash>> \o <<month>> \o <<Dash>> \o <<day>>

LEMMA FivePieces ==
    ASSUME NEW text \in Seq(Pieces), Len(text) = 5
    PROVE  text = Five(text[1], text[2], text[3], text[4], text[5])
<1> DEFINE five == Five(text[1], text[2], text[3], text[4], text[5])
<1>1. \A i \in 1 .. 5 : text[i] \in Pieces
    BY ElementOfSeq
<1>2. /\ Len(five) = 5 /\ five \in Seq(Pieces)
      /\ five[1] = text[1] /\ five[2] = text[2] /\ five[3] = text[3] /\ five[4] = text[4]
      /\ five[5] = text[5]
    BY <1>1 DEF Five
<1> HIDE DEF five
<1>3. \A i \in 1 .. 5 : i = 1 \/ i = 2 \/ i = 3 \/ i = 4 \/ i = 5
    OBVIOUS
<1>4. \A i \in 1 .. 5 : text[i] = five[i]
    BY <1>2, <1>3
<1>5. text = five
    BY <1>2, <1>4, SeqEqual
<1>6. QED
    BY <1>5 DEF five

\* A year, a month and a day between dashes: of five pieces when the year is
\* one piece, of more when it is more.
LEMMA JoinedText ==
    ASSUME NEW year \in Seq(Pieces), NEW month \in Pieces, NEW day \in Pieces
    PROVE  /\ Len(Joined(year, month, day)) = Len(year) + 4
           /\ Len(year) = 1 =>
                Joined(year, month, day) = Five(year[1], Dash, month, Dash, day)
<1> DEFINE s == year \o <<Dash>>
           t == s \o <<month>>
           u == t \o <<Dash>>
           text == u \o <<day>>
<1>1. Dash \in Pieces
    BY InPieces
<1>2. /\ s \in Seq(Pieces) /\ Len(s) = Len(year) + 1
      /\ s[Len(year) + 1] = Dash /\ \A i \in 1 .. Len(year) : s[i] = year[i]
    BY <1>1, OneMore
<1> HIDE DEF s
<1>3. /\ t \in Seq(Pieces) /\ Len(t) = Len(s) + 1
      /\ t[Len(s) + 1] = month /\ \A i \in 1 .. Len(s) : t[i] = s[i]
    BY <1>2, OneMore
<1> HIDE DEF t
<1>4. /\ u \in Seq(Pieces) /\ Len(u) = Len(t) + 1
      /\ u[Len(t) + 1] = Dash /\ \A i \in 1 .. Len(t) : u[i] = t[i]
    BY <1>1, <1>3, OneMore
<1> HIDE DEF u
<1>5. /\ text \in Seq(Pieces) /\ Len(text) = Len(u) + 1
      /\ text[Len(u) + 1] = day /\ \A i \in 1 .. Len(u) : text[i] = u[i]
    BY <1>4, OneMore
<1> HIDE DEF text
<1>6. Len(year) \in Nat
    BY LenProperties
<1>7. Len(text) = Len(year) + 4
    BY <1>2, <1>3, <1>4, <1>5, <1>6
<1>8. ASSUME Len(year) = 1
      PROVE  text = Five(year[1], Dash, month, Dash, day)
    <2>1. s[1] = year[1] /\ s[2] = Dash /\ Len(s) = 2
        BY <1>2, <1>8
    <2>2. t[1] = year[1] /\ t[2] = Dash /\ t[3] = month /\ Len(t) = 3
        BY <1>3, <2>1
    <2>3. u[1] = year[1] /\ u[2] = Dash /\ u[3] = month /\ u[4] = Dash /\ Len(u) = 4
        BY <1>4, <2>2
    <2>4. /\ text[1] = year[1] /\ text[2] = Dash /\ text[3] = month /\ text[4] = Dash
          /\ text[5] = day /\ Len(text) = 5
        BY <1>5, <2>3
    <2>5. text = Five(text[1], text[2], text[3], text[4], text[5])
        BY <1>5, <2>4, FivePieces
    <2>6. QED
        BY <2>4, <2>5
<1>9. QED
    BY <1>7, <1>8 DEF text, u, t, s, Joined

\* How the parts of a date are written.
LEMMA WrittenParts ==
    ASSUME NEW n \in 1 .. 31
    PROVE  /\ Plain(n) = <<Digits(WidthOf(n), n)>>
           /\ Filled(n, 2) = <<Digits(2, n)>>
           /\ WidthOf(n) \in 1 .. 2
BY DEF Plain, Filled, WidthOf

LEMMA WrittenYear ==
    ASSUME NEW y \in Int
    PROVE  /\ Plain(y) \in Seq(Pieces) /\ Filled(y, 4) \in Seq(Pieces)
           /\ y >= 0 => /\ Plain(y) = <<Digits(WidthOf(y), y)>>
                        /\ Filled(y, 4) = <<Digits(IF y > 9999 THEN WidthOf(y) ELSE 4, y)>>
           /\ y < 0 => Len(Plain(y)) > 1 /\ Len(Filled(y, 4)) > 1
<1>1. CASE y >= 0
    <2>1. /\ Plain(y) = <<Digits(WidthOf(y), y)>>
          /\ Filled(y, 4) = <<Digits(IF y > 9999 THEN WidthOf(y) ELSE 4, y)>>
        <3>1. (IF WidthOf(y) < 4 THEN 4 ELSE WidthOf(y)) = IF y > 9999 THEN WidthOf(y) ELSE 4
            <4>1. /\ WidthOf(y) \in 1 .. 5
                  /\ WidthOf(y) > 4 <=> y > 9999
                BY <1>1, Widths
            <4>2. QED
                BY <4>1
        <3>2. ~(y < 0)
            BY <1>1
        <3>3. Plain(y) = <<Digits(WidthOf(y), y)>>
            BY <3>2 DEF Plain
        <3>4. Filled(y, 4) = <<Digits(IF WidthOf(y) < 4 THEN 4 ELSE WidthOf(y), y)>>
            BY <1>1 DEF Filled
        <3>5. QED
            BY <3>1, <3>3, <3>4
    <2>2. WidthOf(y) \in Int /\ (IF y > 9999 THEN WidthOf(y) ELSE 4) \in Int
        BY <1>1, Widths
    <2>3. Plain(y) \in Seq(Pieces) /\ Filled(y, 4) \in Seq(Pieces)
        <3> DEFINE plain == Digits(WidthOf(y), y)
                   filled == Digits(IF y > 9999 THEN WidthOf(y) ELSE 4, y)
        <3>1. plain \in Pieces /\ filled \in Pieces
            BY <2>2, InPieces
        <3>2. Plain(y) = <<plain>> /\ Filled(y, 4) = <<filled>>
            BY <2>1
        <3> HIDE DEF plain, filled
        <3>3. QED
            BY <3>1, <3>2, OnePiece
    <2>4. QED
        BY <1>1, <2>1, <2>3
<1>2. CASE y < 0
    <2>1. -y \in Nat /\ WidthOf(-y) \in Int
        BY <1>2, Widths
    <2>2. Plain(y) = <<Dash, Digits(WidthOf(-y), -y)>>
        BY <1>2 DEF Plain
    <2>3. Plain(y) \in Seq(Pieces) /\ Len(Plain(y)) = 2
        BY <2>1, <2>2 DEF Pieces
    <2>4. CASE WidthOf(-y) + 1 < 4
        <3> DEFINE fill == <<Digits(4 - WidthOf(-y) - 1, 0)>>
        <3>1. Filled(y, 4) = fill \o Plain(y)
            BY <1>2, <2>4 DEF Filled
        <3>2. fill \in Seq(Pieces) /\ Len(fill) = 1
            BY <2>1, InPieces, OnePiece
        <3> HIDE DEF fill
        <3>3. fill \o Plain(y) \in Seq(Pieces) /\ Len(fill \o Plain(y)) = Len(fill) + Len(Plain(y))
            BY <2>3, <3>2, ConcatProperties
        <3>4. Filled(y, 4) \in Seq(Pieces) /\ Len(Filled(y, 4)) = 3
            <4> HIDE DEF Filled
            <4>1. Len(fill) + Len(Plain(y)) = 3
                BY <2>3, <3>2
            <4>2. QED
                BY <3>1, <3>3, <4>1
        <3>5. QED
            BY <1>2, <2>3, <3>4
    <2>5. CASE ~(WidthOf(-y) + 1 < 4)
        <3>1. Filled(y, 4) = Plain(y)
            BY <1>2, <2>5 DEF Filled
        <3>2. QED
            BY <1>2, <2>3, <3>1
    <2>6. QED
        BY <2>4, <2>5
<1>3. QED
    BY <1>1, <1>2

\* A number that a month or a day may be.
Short(piece) == piece \in Pieces /\ piece \notin Delimiters /\ piece.width =< 2

LEMMA ShortNumbers ==
    ASSUME NEW v \in 1 .. 2, NEW n \in Int
    PROVE  Short(Digits(v, n)) /\ Digits(v, n).value = n
BY InPieces, PiecesDiffer DEF Short

\* A text of five pieces is refused for the width of its year, and otherwise
\* read as the three numbers say.
LEMMA ReadFive ==
    ASSUME NEW year, year \notin Delimiters, NEW month, Short(month), NEW day, Short(day),
           NEW delimiter \in Delimiters
    PROVE  ReadText(Five(year, delimiter, month, delimiter, day))
             = IF year.width = 4 THEN NewDate(year.value, month.value, day.value) ELSE Thrown
<1> DEFINE text == Five(year, delimiter, month, delimiter, day)
<1>1. /\ Len(text) = 5
      /\ text[1] = year /\ text[2] = delimiter /\ text[3] = month
      /\ text[4] = delimiter /\ text[5] = day
    BY DEF Five
<1> HIDE DEF text
<1>2. Shaped(text) <=> year.width = 4
    BY <1>1 DEF Shaped, Short
<1>3. ReadText(text) = IF year.width = 4 THEN NewDate(year.value, month.value, day.value) ELSE Thrown
    BY <1>1, <1>2 DEF ReadText
<1>4. QED
    BY <1>3 DEF text

\* A year, a month and a day between dashes, read back.
LEMMA ReadJoined ==
    ASSUME NEW year \in Seq(Pieces), NEW month, Short(month), NEW day, Short(day)
    PROVE  /\ Len(year) > 1 => ReadText(Joined(year, month, day)) = Thrown
           /\ \A number \in Pieces \ Delimiters : year = <<number>> =>
                ReadText(Joined(year, month, day))
                  = IF number.width = 4 THEN NewDate(number.value, month.value, day.value)
                    ELSE Thrown
<1> DEFINE text == Joined(year, month, day)
<1>1. /\ Len(text) = Len(year) + 4
      /\ Len(year) = 1 => text = Five(year[1], Dash, month, Dash, day)
    BY JoinedText DEF Short
<1> HIDE DEF text
<1>2. ASSUME Len(year) > 1
      PROVE  ReadText(text) = Thrown
    <2>1. Len(text) # 5
        BY <1>1, <1>2, LenProperties
    <2>2. QED
        BY <2>1 DEF ReadText, Shaped
<1>3. ASSUME NEW number \in Pieces \ Delimiters, year = <<number>>
      PROVE  ReadText(text)
               = IF number.width = 4 THEN NewDate(number.value, month.value, day.value) ELSE Thrown
    <2>1. Len(year) = 1 /\ year[1] = number
        BY <1>3, OnePiece
    <2>2. text = Five(number, Dash, month, Dash, day)
        BY <1>1, <2>1
    <2>3. Dash \in Delimiters
        BY PiecesDiffer
    <2>4. QED
        BY <2>2, <2>3, ReadFive
<1>4. QED
    BY <1>2, <1>3 DEF text

LEMMA OnTheWall ==
    ASSUME IInv
    PROVE  /\ YMD(julian) = civil
           /\ julian \in Int
           /\ julian = ConvertToJulian(civil.year, civil.month, civil.day)
           /\ NewDate(civil.year, civil.month, civil.day) = julian
           /\ civil.year \in Int /\ civil.year >= -4712
           /\ civil.month \in 1 .. 12 /\ civil.day \in 1 .. 31
           /\ civil.day =< DaysInMonth(civil.year, civil.month)
<1>1. /\ civil.year \in Int /\ civil.month \in Int /\ civil.day \in Int
      /\ civil = [year |-> civil.year, month |-> civil.month, day |-> civil.day]
      /\ IsDate(civil.year, civil.month, civil.day)
    BY OnADate
<1>2. YMD(julian) = civil
    BY <1>1, RoundTrip DEF IInv
<1>3. /\ civil.month \in 1 .. 12 /\ civil.day # 0
      /\ ~(civil.day > DaysInMonth(civil.year, civil.month))
    BY <1>1 DEF IsDate, DaysInMonth
<1>4. NewDate(civil.year, civil.month, civil.day) = julian
    BY <1>3 DEF NewDate, IInv
<1>5. QED
    BY <1>1, <1>2, <1>4 DEF IInv, TypeOK, IsDate

LEMMA TextsAreReadBack == IInv => TextsReadBack
<1> SUFFICES ASSUME IInv PROVE TextsReadBack
    OBVIOUS
<1> DEFINE y == civil.year
           m == civil.month
           d == civil.day
<1>1. /\ YMD(julian) = civil /\ NewDate(y, m, d) = julian
      /\ y \in Int /\ m \in 1 .. 12 /\ d \in 1 .. 31
    BY OnTheWall
<1>2. /\ PrintDate(julian) = Filled(y, 4) \o <<Dash>> \o Filled(m, 2) \o <<Dash>> \o Filled(d, 2)
      /\ ToString(julian) = Plain(y) \o <<Dash>> \o Plain(m) \o <<Dash>> \o Plain(d)
    BY <1>1 DEF PrintDate, ToString
<1> HIDE DEF y, m, d
<1>3. /\ Plain(m) = <<Digits(WidthOf(m), m)>> /\ Filled(m, 2) = <<Digits(2, m)>>
      /\ Plain(d) = <<Digits(WidthOf(d), d)>> /\ Filled(d, 2) = <<Digits(2, d)>>
      /\ WidthOf(m) \in 1 .. 2 /\ WidthOf(d) \in 1 .. 2
    BY <1>1, WrittenParts
\* A text of the year, the month and the day, whichever way they are written.
<1>4. ASSUME NEW year \in Seq(Pieces), NEW w \in Int,
             NEW month, Short(month), month.value = m, NEW day, Short(day), day.value = d,
             y < 0 => Len(year) > 1, y >= 0 => year = <<Digits(w, y)>>
      PROVE  ReadText(Joined(year, month, day)) = IF y >= 0 /\ w = 4 THEN julian ELSE Thrown
    <2>1. CASE y < 0
        <3>1. ReadText(Joined(year, month, day)) = Thrown
            BY <1>4, <2>1, ReadJoined
        <3>2. QED
            BY <1>1, <2>1, <3>1
    <2>2. CASE y >= 0
        <3> DEFINE number == Digits(w, y)
        <3>1. /\ number \in Pieces \ Delimiters /\ number.width = w /\ number.value = y
              /\ year = <<number>>
            BY <1>1, <1>4, <2>2, InPieces, PiecesDiffer
        <3> HIDE DEF number
        <3>2. ReadText(Joined(year, month, day)) = IF w = 4 THEN NewDate(y, m, d) ELSE Thrown
            BY <1>4, <3>1, ReadJoined
        <3>3. QED
            BY <1>1, <2>2, <3>2
    <2>3. QED
        BY <1>1, <2>1, <2>2
<1>5. ReadText(PrintDate(julian)) = IF y \in 0 .. 9999 THEN julian ELSE Thrown
    <2> DEFINE w == IF y > 9999 THEN WidthOf(y) ELSE 4
               year == Filled(y, 4)
               month == Digits(2, m)
               day == Digits(2, d)
    <2>1. w \in Int /\ (y >= 0 => (w = 4 <=> y =< 9999))
        <3>1. y \in Int
            BY <1>1
        <3>2. w \in Int /\ (w = 4 <=> y =< 9999)
            BY <3>1, YearWidths
        <3>3. QED
            BY <3>2
    <2>2. /\ year \in Seq(Pieces) /\ (y < 0 => Len(year) > 1)
          /\ (y >= 0 => year = <<Digits(w, y)>>)
        <3>1. y \in Int
            BY <1>1
        <3>2. /\ Filled(y, 4) \in Seq(Pieces)
              /\ y < 0 => Len(Filled(y, 4)) > 1
              /\ y >= 0 => Filled(y, 4) = <<Digits(IF y > 9999 THEN WidthOf(y) ELSE 4, y)>>
            BY <3>1, WrittenYear
        <3>3. QED
            BY <3>2
    <2>3. Short(month) /\ month.value = m /\ Short(day) /\ day.value = d
        BY <1>1, ShortNumbers
    <2>4. PrintDate(julian) = Joined(year, month, day)
        BY <1>2, <1>3 DEF Joined
    <2> HIDE DEF w, year, month, day
    <2>5. ReadText(PrintDate(julian)) = IF y >= 0 /\ w = 4 THEN julian ELSE Thrown
        BY <1>4, <2>1, <2>2, <2>3, <2>4
    <2>6. QED
        BY <1>1, <2>1, <2>5
<1>6. ReadText(ToString(julian)) = IF y \in 1000 .. 9999 THEN julian ELSE Thrown
    <2> DEFINE w == IF y >= 0 THEN WidthOf(y) ELSE 0
               year == Plain(y)
               month == Digits(WidthOf(m), m)
               day == Digits(WidthOf(d), d)
    <2>1. w \in Int /\ (y >= 0 => (w = 4 <=> y \in 1000 .. 9999))
        <3>1. y \in Int
            BY <1>1
        <3>2. w \in Int /\ (w = 4 <=> y \in 1000 .. 9999)
            BY <3>1, YearWidths
        <3>3. QED
            BY <3>2
    <2>2. /\ year \in Seq(Pieces) /\ (y < 0 => Len(year) > 1)
          /\ (y >= 0 => year = <<Digits(w, y)>>)
        <3>1. y \in Int
            BY <1>1
        <3>2. /\ Plain(y) \in Seq(Pieces)
              /\ y < 0 => Len(Plain(y)) > 1
              /\ y >= 0 => Plain(y) = <<Digits(WidthOf(y), y)>>
            BY <3>1, WrittenYear
        <3>3. QED
            BY <3>2
    <2>3. Short(month) /\ month.value = m /\ Short(day) /\ day.value = d
        BY <1>1, <1>3, ShortNumbers
    <2>4. ToString(julian) = Joined(year, month, day)
        BY <1>2, <1>3 DEF Joined
    <2> HIDE DEF w, year, month, day
    <2>5. ReadText(ToString(julian)) = IF y >= 0 /\ w = 4 THEN julian ELSE Thrown
        BY <1>4, <2>1, <2>2, <2>3, <2>4
    <2>6. QED
        BY <1>1, <2>1, <2>5
<1>7. QED
    BY <1>5, <1>6 DEF TextsReadBack, y

\* The numbers of a month's days follow each other.
LEMMA SameMonth ==
    ASSUME NEW y \in Int, NEW m \in Int, NEW d \in Int, NEW k \in Int
    PROVE  ConvertToJulian(y, m, k) = ConvertToJulian(y, m, d) - d + k
BY DEF ConvertToJulian, Quot

LEMMA DaysOfTheMonth ==
    ASSUME IInv, NEW k \in Int
    PROVE  ConvertToJulian(civil.year, civil.month, k) = julian - civil.day + k
<1>1. /\ civil.year \in Int /\ civil.month \in Int /\ civil.day \in Int
      /\ julian = ConvertToJulian(civil.year, civil.month, civil.day)
    BY OnADate, OnTheWall
<1>2. QED
    BY <1>1, SameMonth

LEMMA WrittenIsRead == IInv => ReadsWhatIsWritten
<1> SUFFICES ASSUME IInv, civil.day = 1, civil.year \in 0 .. 9999,
                    NEW k \in 0 .. 40, NEW delimiter \in Delimiters
             PROVE  ReadText(<<Digits(4, civil.year), delimiter,
                               Digits(WidthOf(civil.month), civil.month), delimiter,
                               Digits(2, k)>>)
                      = IF k \in 1 .. MonthLength(civil.year, civil.month)
                        THEN julian + k - 1 ELSE Thrown
    BY DEF ReadsWhatIsWritten
<1>1. /\ civil.year \in Int /\ civil.month \in 1 .. 12 /\ civil.month \in Int
      /\ julian \in Int
    BY OnTheWall
<1>2. /\ DaysInMonth(civil.year, civil.month) = MonthLength(civil.year, civil.month)
      /\ MonthLength(civil.year, civil.month) \in 28 .. 31
    BY <1>1, SameLengths
<1>3. WidthOf(civil.month) \in 1 .. 2
    BY <1>1, WrittenParts
<1>4. ReadText(<<Digits(4, civil.year), delimiter,
                 Digits(WidthOf(civil.month), civil.month), delimiter, Digits(2, k)>>)
        = NewDate(civil.year, civil.month, k)
    <2> DEFINE year == Digits(4, civil.year)
               month == Digits(WidthOf(civil.month), civil.month)
               day == Digits(2, k)
    <2>1. /\ year \notin Delimiters /\ year.width = 4 /\ year.value = civil.year
          /\ Short(month) /\ month.value = civil.month /\ Short(day) /\ day.value = k
        BY <1>1, <1>3, PiecesDiffer, ShortNumbers
    <2> HIDE DEF year, month, day
    <2>2. ReadText(Five(year, delimiter, month, delimiter, day)) = NewDate(civil.year, civil.month, k)
        BY <2>1, ReadFive
    <2>3. QED
        BY <2>2 DEF Five, year, month, day
<1>5. ConvertToJulian(civil.year, civil.month, k) = julian + k - 1
    BY <1>1, DaysOfTheMonth
<1>6. QED
    BY <1>1, <1>2, <1>4, <1>5 DEF NewDate

LEMMA NegativeDaysCount == IInv => NegativeDaysCountBack
<1> SUFFICES ASSUME IInv, NEW k \in -31 .. 0
             PROVE  NewDate(civil.year, civil.month, k)
                      = IF k = 0 THEN Thrown ELSE julian - civil.day + k
    BY DEF NegativeDaysCountBack
<1>1. /\ civil.year \in Int /\ civil.month \in 1 .. 12
      /\ DaysInMonth(civil.year, civil.month) \in 28 .. 31
    BY OnTheWall, SameLengths
<1>2. ConvertToJulian(civil.year, civil.month, k) = julian - civil.day + k
    BY DaysOfTheMonth
<1>3. QED
    BY <1>1, <1>2 DEF NewDate

-----------------------------------------------------------------------------
(* Tenors *)

\* The letter of a unit in lower case.
LEMMA UnitLetter ==
    ASSUME NEW unit \in Units, NEW l, l = CHOOSE k \in {"d", "w", "m", "y"} : Letters[k] = unit
    PROVE  l \in {"d", "w", "m", "y"} /\ l \in DOMAIN Letters /\ Letters[l] = unit
<1>1. \E k \in {"d", "w", "m", "y"} : Letters[k] = unit
    BY DEF Units, Letters
<1>2. l \in {"d", "w", "m", "y"} /\ Letters[l] = unit
    BY <1>1
<1>3. QED
    BY <1>2 DEF Letters

LEMMA TenorsAreReadBack == TenorsReadBack
<1> SUFFICES ASSUME NEW n \in Shifts, NEW unit \in Units,
                    NEW tenor, tenor = [count |-> n, unit |-> unit]
             PROVE  ReadTenor(PrintTenor(tenor)) = tenor
    BY DEF TenorsReadBack
<1> DEFINE l == CHOOSE k \in {"d", "w", "m", "y"} : Letters[k] = unit
           end == Char(l)
<1>1. l \in DOMAIN Letters /\ Letters[l] = unit /\ end.char = l
    BY UnitLetter DEF Char
<1>2. PrintTenor(tenor) = Plain(n) \o <<end>>
    BY DEF PrintTenor
<1>3. n \in Int
    BY WalkAssumption
<1> HIDE DEF l, end
<1>4. CASE n >= 0
    <2> DEFINE number == Digits(WidthOf(n), n)
    <2>1. PrintTenor(tenor) = <<number, end>>
        <3>1. Plain(n) = <<number>>
            BY <1>3, <1>4 DEF Plain
        <3>2. QED
            BY <1>2, <3>1, JoinTwo
    <2>2. number # Dash /\ number.value = n
        BY PiecesDiffer
    <2> HIDE DEF number
    <2>3. QED
        BY <1>1, <2>1, <2>2 DEF ReadTenor
<1>5. CASE n < 0
    <2> DEFINE number == Digits(WidthOf(-n), -n)
    <2>1. PrintTenor(tenor) = <<Dash, number, end>>
        <3>1. Plain(n) = <<Dash, number>>
            BY <1>3, <1>5 DEF Plain
        <3>2. QED
            BY <1>2, <3>1, JoinThree
    <2>2. number.value = -n
        BY PiecesDiffer
    <2> HIDE DEF number
    <2>3. Tail(<<Dash, number, end>>) = <<number, end>>
        OBVIOUS
    <2>4. -(-n) = n
        BY <1>3
    <2>5. QED
        BY <1>1, <2>1, <2>2, <2>3, <2>4 DEF ReadTenor
<1>6. QED
    BY <1>3, <1>4, <1>5

-----------------------------------------------------------------------------
(* Time points *)

\* The date before one, and its number.
LEMMA Yesterday ==
    ASSUME NEW y \in Int, NEW m \in Int, NEW d \in Int, IsDate(y, m, d),
           NEW j \in Int, j = ConvertToJulian(y, m, d)
    PROVE  LET e == YMD(j - 1) IN ConvertToJulian(e.year, e.month, e.day) = j - 1
<1> SUFFICES ASSUME NEW e, e = YMD(j - 1)
             PROVE  ConvertToJulian(e.year, e.month, e.day) = j - 1
    OBVIOUS
<1>1. /\ y >= -4712 /\ m \in 1 .. 12 /\ d \in 1 .. 31 /\ d =< DaysInMonth(y, m)
      /\ DaysInMonth(y, m) \in 28 .. 31
    BY SameLengths DEF IsDate
<1>2. ASSUME NEW z \in Int, NEW k \in Int, NEW b \in Int, IsDate(z, k, b),
             ConvertToJulian(z, k, b) = j - 1
      PROVE  ConvertToJulian(e.year, e.month, e.day) = j - 1
    <2>1. e = [year |-> z, month |-> k, day |-> b]
        BY <1>2, RoundTrip
    <2>2. QED
        BY <1>2, <2>1
<1>3. CASE d > 1
    <2>1. IsDate(y, m, d - 1)
        BY <1>1, <1>3 DEF IsDate
    <2>2. ConvertToJulian(y, m, d - 1) = j - 1
        BY DEF ConvertToJulian, Quot
    <2>3. QED
        BY <1>2, <2>1, <2>2
<1>4. CASE d = 1 /\ m > 1
    <2> DEFINE k == m - 1
               b == DaysInMonth(y, k)
    <2>1. k \in 1 .. 11 /\ k \in 1 .. 12 /\ m = k + 1 /\ k \in Int
        BY <1>1, <1>4
    <2>2. b \in 28 .. 31
        BY <2>1, SameLengths
    <2> HIDE DEF k
    <2>3. IsDate(y, k, b)
        BY <1>1, <2>1, <2>2 DEF IsDate
    <2>4. j = ConvertToJulian(y, k, b) + 1
        BY <1>1, <1>4, <2>1, NextMonth
    <2>5. ConvertToJulian(y, k, b) \in Int
        <3>1. b \in Int
            BY <2>2
        <3> HIDE DEF b
        <3>2. QED
            BY <2>1, <3>1, InMonth
    <2>6. QED
        BY <1>2, <2>1, <2>2, <2>3, <2>4, <2>5
<1>5. CASE d = 1 /\ m = 1 /\ y > -4712
    <2> DEFINE z == y - 1
    <2>1. z \in Int /\ z >= -4712 /\ y = z + 1
        BY <1>5
    <2> HIDE DEF z
    <2>2. IsDate(z, 12, 31)
        BY <2>1 DEF IsDate, DaysInMonth
    <2>3. j = ConvertToJulian(z, 12, 31) + 1
        BY <1>5, <2>1, NextYear
    <2>4. ConvertToJulian(z, 12, 31) \in Int
        BY <2>1, InMonth
    <2>5. QED
        BY <1>2, <2>1, <2>2, <2>3, <2>4
<1>6. CASE d = 1 /\ m = 1 /\ y = -4712
    <2>1. j = 38
        BY <1>6 DEF ConvertToJulian, Quot
    <2>2. e = [year |-> -4713, month |-> 12, day |-> 31]
        <3>1. e = YMD(37)
            BY <2>1
        <3>2. Quot(4 * 37 + 274277, 146097) = 1 /\ Quot(1 * 3, 4) = 0
            BY DEF Quot
        <3>3. Rem(4 * 1400 + 3, 1461) = 1220 /\ Quot(1220, 4) = 305 /\ Quot(4 * 1400 + 3, 1461) = 3
            BY DEF Rem, Quot
        <3>4. Quot(5 * 305 + 2, 153) = 9 /\ Rem(9 + 2, 12) = 11 /\ Quot(14 - 12, 12) = 0
            BY DEF Rem, Quot
        <3>5. Rem(5 * 305 + 2, 153) = 150 /\ Quot(150, 5) = 30
            BY DEF Rem, Quot
        <3>6. QED
            BY <3>1, <3>2, <3>3, <3>4, <3>5 DEF YMD
    <2>3. ConvertToJulian(-4713, 12, 31) = 37
        BY DEF ConvertToJulian, Quot
    <2>4. QED
        BY <2>1, <2>2, <2>3
<1>7. QED
    BY <1>1, <1>3, <1>4, <1>5, <1>6

LEMMA TimePointsAreReadBack == IInv => TimePointsReadBack
<1> SUFFICES ASSUME IInv, NEW zone \in Zones
             PROVE  OfTimePoint(ConvertToTimePt(julian, zone))
                      = IF zone =< 0 THEN julian ELSE julian - 1
    BY DEF TimePointsReadBack
<1>1. zone \in -23 .. 23
    BY ZonesAssumption
<1>2. /\ YMD(julian) = civil /\ julian \in Int
      /\ julian = ConvertToJulian(civil.year, civil.month, civil.day)
    BY OnTheWall
<1>3. ConvertToTimePt(julian, zone) = 24 * julian - zone
    BY <1>2 DEF ConvertToTimePt
<1>4. (24 * julian - zone) \div 24 = IF zone =< 0 THEN julian ELSE julian - 1
    BY <1>1, <1>2
<1>5. CASE zone =< 0
    BY <1>2, <1>3, <1>4, <1>5 DEF OfTimePoint
<1>6. CASE zone > 0
    <2>1. /\ civil.year \in Int /\ civil.month \in Int /\ civil.day \in Int
          /\ IsDate(civil.year, civil.month, civil.day)
        BY OnADate
    <2>2. LET e == YMD(julian - 1) IN ConvertToJulian(e.year, e.month, e.day) = julian - 1
        BY <1>2, <2>1, Yesterday
    <2>3. (24 * julian - zone) \div 24 = julian - 1
        BY <1>1, <1>4, <1>6
    <2>4. QED
        BY <1>1, <1>3, <1>6, <2>2, <2>3 DEF OfTimePoint
<1>7. QED
    BY <1>1, <1>5, <1>6

\* On every day of every walk, whatever the date is turned into (its texts, a
\* tenor's text, a time point) says which day it is.
THEOREM ConversionsAreReadBack == Spec => []ConversionsReadBack
<1>1. IInv => ConversionsReadBack
    BY TextsAreReadBack, WrittenIsRead, TimePointsAreReadBack, TenorsAreReadBack,
       NegativeDaysCount DEF ConversionsReadBack
<1>2. QED
    BY <1>1, Invariance, PTL
=============================================================================
