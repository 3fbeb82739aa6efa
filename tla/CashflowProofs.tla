---------------------------- MODULE CashflowProofs ----------------------------
(***************************************************************************)
(* What cashflows are made of.  Day counts, for any dates from year -4712  *)
(* on: ACT/ACT counts every day once and in its own year, parts of a term  *)
(* add up, and months have thirty days where they should.  Schedules, for  *)
(* any term, tenor, direction and stub: the periods are in order, meet and *)
(* cover the term, rows are one per period and in order, and calls end.    *)
(***************************************************************************)
EXTENDS DayCount, CashflowSchedule, DatesProofs

\* A Date built from one of the dates that are asked about.
Asked(date) == \E d \in CivilDates : date = NewDate(d.year, d.month, d.day)

\* Such a Date converts back to what it was built from.
LEMMA AskedDates ==
    ASSUME NEW d \in CivilDates
    PROVE  LET date == NewDate(d.year, d.month, d.day)
           IN  /\ d.year \in Int /\ d.month \in Int /\ d.day \in Int
               /\ IsDate(d.year, d.month, d.day)
               /\ date = ConvertToJulian(d.year, d.month, d.day)
               /\ date \in Int
               /\ YMD(date) = [year |-> d.year, month |-> d.month, day |-> d.day]
<1>1. /\ d.year \in Int /\ d.year >= -4712 /\ d.month \in 1 .. 12 /\ d.day \in 1 .. 31
      /\ d.day =< DaysInMonth(d.year, d.month)
    BY CivilDatesAssumption DEF CivilDate
<1>0. d.year \in Int /\ d.month \in Int /\ d.day \in Int
    BY <1>1
<1>2. IsDate(d.year, d.month, d.day)
    BY <1>1 DEF IsDate
<1>3. ~(d.day > DaysInMonth(d.year, d.month))
    BY <1>1 DEF DaysInMonth
<1>4. NewDate(d.year, d.month, d.day) = ConvertToJulian(d.year, d.month, d.day)
    BY <1>1, <1>3 DEF NewDate
<1>5. ConvertToJulian(d.year, d.month, d.day) \in Int
    BY <1>0, InMonth
<1>6. YMD(ConvertToJulian(d.year, d.month, d.day)) = [year |-> d.year, month |-> d.month, day |-> d.day]
    BY <1>0, <1>2, RoundTrip
<1>7. QED
    BY <1>0, <1>2, <1>4, <1>5, <1>6

-----------------------------------------------------------------------------
(* Years *)

\* The year that ends before the next 1 January has 365 or 366 days, and a
\* date of it lies between the two.
LEMMA WithinYear ==
    ASSUME NEW y \in Int, y >= -4712, NEW m \in 1 .. 12, NEW d \in Int,
           d >= 1, d =< DaysInMonth(y, m)
    PROVE  /\ ConvertToJulian(y, 1, 1) \in Int
           /\ ConvertToJulian(y + 1, 1, 1) = ConvertToJulian(y, 1, 1) + DaysInYear(y)
           /\ ConvertToJulian(y, 1, 1) =< ConvertToJulian(y, m, d)
           /\ ConvertToJulian(y, m, d) < ConvertToJulian(y + 1, 1, 1)
<1> DEFINE First(k) == ConvertToJulian(y, k, 1)
           DaysOf(k) == DaysInMonth(y, k)
<1>1. \A k \in 1 .. 12 : First(k) \in Int /\ DaysOf(k) \in Int
    BY InMonth DEF DaysInMonth
<1>2. \A k \in 1 .. 11 : First(k + 1) = First(k) + DaysOf(k)
    <2> SUFFICES ASSUME NEW k \in 1 .. 11
                 PROVE  First(k + 1) = First(k) + DaysOf(k)
        OBVIOUS
    <2>1. ConvertToJulian(y, k + 1, 1) = ConvertToJulian(y, k, DaysInMonth(y, k)) + 1
        BY NextMonth
    <2>2. k \in Int /\ DaysInMonth(y, k) \in Int /\ First(k) \in Int
        BY <1>1
    <2>3. ConvertToJulian(y, k, DaysInMonth(y, k)) = ConvertToJulian(y, k, 1) + DaysInMonth(y, k) - 1
        BY <2>2, InMonth
    <2>4. QED
        BY <2>1, <2>2, <2>3
<1>3. ConvertToJulian(y + 1, 1, 1) = First(12) + 31
    <2>1. ConvertToJulian(y, 12, 31) = First(12) + 31 - 1
        BY InMonth
    <2>2. QED
        BY <1>1, <2>1, NextYear
<1>4. ConvertToJulian(y, m, d) = First(m) + d - 1
    BY InMonth
<1>5. /\ DaysOf(1) = 31 /\ DaysOf(3) = 31 /\ DaysOf(4) = 30 /\ DaysOf(5) = 31
      /\ DaysOf(6) = 30 /\ DaysOf(7) = 31 /\ DaysOf(8) = 31 /\ DaysOf(9) = 30
      /\ DaysOf(10) = 31 /\ DaysOf(11) = 30 /\ DaysOf(12) = 31
      /\ DaysOf(2) = DaysInYear(y) - 337
    BY DEF DaysInMonth, DaysInYear
<1>6. DaysInYear(y) \in 365 .. 366
    BY DEF DaysInYear
<1>7. d =< DaysOf(m)
    OBVIOUS
<1> HIDE DEF First, DaysOf
<1>8. /\ First(2) = First(1) + 31 /\ First(3) = First(1) + DaysInYear(y) - 306
      /\ First(4) = First(3) + 31 /\ First(5) = First(3) + 61 /\ First(6) = First(3) + 92
      /\ First(7) = First(3) + 122 /\ First(8) = First(3) + 153 /\ First(9) = First(3) + 184
      /\ First(10) = First(3) + 214 /\ First(11) = First(3) + 245 /\ First(12) = First(3) + 275
    BY <1>1, <1>2, <1>5, <1>6
<1>9. /\ First(1) =< First(m)
      /\ First(m) + DaysOf(m) =< First(1) + DaysInYear(y)
    BY <1>1, <1>5, <1>6, <1>8
<1>10. QED
    BY <1>1, <1>3, <1>4, <1>6, <1>7, <1>8, <1>9 DEF First

\* Years begin one after the other.
LEMMA YearsInOrder ==
    ASSUME NEW y \in Int, NEW z \in Int, y >= -4712, y =< z
    PROVE  ConvertToJulian(y, 1, 1) =< ConvertToJulian(z, 1, 1)
BY DEF ConvertToJulian, Quot

LEMMA NewYears ==
    ASSUME NEW y \in Int, y >= -4712
    PROVE  /\ NewYearsDay(y) = ConvertToJulian(y, 1, 1)
           /\ NewYearsDay(y) \in Int
           /\ NewYearsDay(y + 1) = NewYearsDay(y) + DaysInYear(y)
           /\ DaysInYear(y) \in Int
           /\ NewDate(y, 12, 31) = NewYearsDay(y + 1) - 1
<1>1. \A x \in Int : NewYearsDay(x) = ConvertToJulian(x, 1, 1)
    BY DEF NewYearsDay, NewDate, DaysInMonth
<1>2. NewDate(y, 12, 31) = ConvertToJulian(y, 12, 31)
    BY DEF NewDate, DaysInMonth
<1>3. ConvertToJulian(y, 12, 31) \in Int /\ y + 1 \in Int
    BY InMonth
<1>4. DaysInMonth(y, 1) = 31
    BY DEF DaysInMonth
<1>5. /\ ConvertToJulian(y, 1, 1) \in Int
      /\ ConvertToJulian(y + 1, 1, 1) = ConvertToJulian(y, 1, 1) + DaysInYear(y)
    BY <1>4, WithinYear
<1>6. QED
    BY <1>1, <1>2, <1>3, <1>5, NextYear DEF DaysInYear

\* A date lies between the first days of its year and of the next.
LEMMA AskedInYear ==
    ASSUME NEW date, Asked(date)
    PROVE  /\ date \in Int /\ Year(date) \in Int /\ Year(date) >= -4712
           /\ NewYearsDay(Year(date)) =< date
           /\ date < NewYearsDay(Year(date) + 1)
<1>1. PICK d \in CivilDates : date = NewDate(d.year, d.month, d.day)
    BY DEF Asked
<1>2. /\ d.year \in Int /\ d.month \in Int /\ d.day \in Int
      /\ IsDate(d.year, d.month, d.day)
      /\ date = ConvertToJulian(d.year, d.month, d.day)
      /\ date \in Int
      /\ Year(date) = d.year
    <2>1. YMD(date) = [year |-> d.year, month |-> d.month, day |-> d.day]
        BY <1>1, AskedDates
    <2>2. Year(date) = d.year
        BY <2>1 DEF Year
    <2>3. QED
        BY <1>1, <2>2, AskedDates
<1>3. /\ d.year >= -4712 /\ d.month \in 1 .. 12 /\ d.day >= 1
      /\ d.day =< DaysInMonth(d.year, d.month)
    BY <1>2 DEF IsDate
<1>4. /\ ConvertToJulian(d.year, 1, 1) =< date
      /\ date < ConvertToJulian(d.year + 1, 1, 1)
    BY <1>2, <1>3, WithinYear
<1>5. /\ NewYearsDay(d.year) = ConvertToJulian(d.year, 1, 1)
      /\ NewYearsDay(d.year + 1) = ConvertToJulian(d.year + 1, 1, 1)
    BY <1>2, <1>3, NewYears
<1>6. QED
    BY <1>2, <1>3, <1>4, <1>5

\* The later of two dates is of the same year or a later one.
LEMMA DatesAndYears ==
    ASSUME NEW a, NEW b, Asked(a), Asked(b)
    PROVE  /\ a =< b => Year(a) =< Year(b)
           /\ \A y \in Int : y > Year(a) => a < NewYearsDay(y)
           /\ \A y \in Int : y >= -4712 /\ y =< Year(b) => NewYearsDay(y) =< b
<1>1. /\ a \in Int /\ Year(a) \in Int /\ Year(a) >= -4712
      /\ NewYearsDay(Year(a)) =< a /\ a < NewYearsDay(Year(a) + 1)
      /\ b \in Int /\ Year(b) \in Int /\ Year(b) >= -4712
      /\ NewYearsDay(Year(b)) =< b /\ b < NewYearsDay(Year(b) + 1)
    BY AskedInYear
<1>2. ASSUME NEW y \in Int, NEW z \in Int, y >= -4712, y =< z
      PROVE  /\ NewYearsDay(y) \in Int /\ NewYearsDay(z) \in Int
             /\ NewYearsDay(y) =< NewYearsDay(z)
    <2>1. z >= -4712
        BY <1>2
    <2>2. /\ NewYearsDay(y) = ConvertToJulian(y, 1, 1) /\ NewYearsDay(y) \in Int
          /\ NewYearsDay(z) = ConvertToJulian(z, 1, 1) /\ NewYearsDay(z) \in Int
        BY <1>2, <2>1, NewYears
    <2>3. QED
        BY <1>2, <2>2, YearsInOrder
<1>3. \A y \in Int : y > Year(a) => a < NewYearsDay(y)
    <2> SUFFICES ASSUME NEW y \in Int, y > Year(a) PROVE a < NewYearsDay(y)
        OBVIOUS
    <2>1. Year(a) + 1 \in Int /\ Year(a) + 1 >= -4712 /\ Year(a) + 1 =< y
        BY <1>1
    <2>2. /\ NewYearsDay(Year(a) + 1) \in Int /\ NewYearsDay(y) \in Int
          /\ NewYearsDay(Year(a) + 1) =< NewYearsDay(y)
        BY <1>2, <2>1
    <2>3. QED
        BY <1>1, <2>2
<1>4. \A y \in Int : y >= -4712 /\ y =< Year(b) => NewYearsDay(y) =< b
    BY <1>1, <1>2
<1>5. a =< b => Year(a) =< Year(b)
    <2> SUFFICES ASSUME Year(a) > Year(b) PROVE b < a
        BY <1>1
    <2>1. Year(b) + 1 \in Int /\ Year(b) + 1 >= -4712 /\ Year(b) + 1 =< Year(a)
        BY <1>1
    <2>2. /\ NewYearsDay(Year(b) + 1) \in Int /\ NewYearsDay(Year(a)) \in Int
          /\ NewYearsDay(Year(b) + 1) =< NewYearsDay(Year(a))
        BY <1>1, <1>2, <2>1
    <2>3. QED
        BY <1>1, <2>2
<1>6. QED
    BY <1>3, <1>4, <1>5

-----------------------------------------------------------------------------
(* The loop of ACT/ACT *)

\* The term of a year: its days between the start and the end date.
Share(start, end, year) ==
    [days |-> Earlier(end, NewYearsDay(year + 1)) - Later(start, NewYearsDay(year)),
     length |-> NewYearsDay(year + 1) - NewYearsDay(year)]

Shares ==
    \A i \in 1 .. Len(terms) : terms[i] = Share(start_date, end_date, Year(start_date) + i - 1)

\* What the loop has counted: every year before curr_year, up to prior_date,
\* which is the last day of the year before or the day before the start.
Counting ==
    pc = "loop" =>
        /\ rule = "ACT_ACT"
        /\ start_date =< end_date /\ Year(start_date) < Year(end_date)
        /\ curr_year \in Year(start_date) .. Year(end_date)
        /\ prior_date = Later(start_date, NewYearsDay(curr_year)) - 1
        /\ Len(terms) = curr_year - Year(start_date)
        /\ Shares

Arguments == pc \in {"loop", "return"} => Asked(start_date) /\ Asked(end_date)

IInv ==
    /\ TypeOK
    /\ Arguments
    /\ pc = "idle" => terms = <<>>
    /\ Counting
    /\ EveryDayInItsYear

\* One year's term, from the day counted last to the year's last day or, in
\* the last year, from its first day to the end date.
LEMMA ShareOfYear ==
    ASSUME NEW start, NEW end, Asked(start), Asked(end), start =< end,
           NEW year \in Year(start) .. Year(end)
    PROVE  /\ year \in Int /\ year >= -4712
           /\ year < Year(end) =>
                /\ NewDate(year, 12, 31) \in Int
                /\ NewDate(year, 12, 31) < end
                /\ Term(Later(start, NewYearsDay(year)) - 1, NewDate(year, 12, 31), year)
                     = Share(start, end, year)
                /\ NewDate(year, 12, 31) = Later(start, NewYearsDay(year + 1)) - 1
           /\ year = Year(end) /\ Year(start) < Year(end) =>
                Term(NewDate(year, 1, 1), end, year) = Share(start, end, year)
           /\ Year(start) = Year(end) => Term(start, end, year) = Share(start, end, year)
<1>1. /\ start \in Int /\ end \in Int
      /\ Year(start) \in Int /\ Year(end) \in Int /\ Year(start) >= -4712
      /\ NewYearsDay(Year(start)) =< start
      /\ end < NewYearsDay(Year(end) + 1)
    BY AskedInYear
<1>2. year \in Int /\ year >= -4712 /\ year + 1 \in Int /\ year + 1 >= -4712
    BY <1>1
<1>3. /\ NewYearsDay(year) \in Int /\ NewYearsDay(year + 1) \in Int
      /\ DaysInYear(year) \in Int
      /\ NewYearsDay(year + 1) - NewYearsDay(year) = DaysInYear(year)
      /\ NewDate(year, 12, 31) = NewYearsDay(year + 1) - 1
    BY <1>2, NewYears
<1>4. start < NewYearsDay(year + 1)
    BY <1>1, <1>2, DatesAndYears
<1>5. year < Year(end) => NewYearsDay(year + 1) =< end
    BY <1>1, <1>2, DatesAndYears
<1>6. Year(start) < year => start < NewYearsDay(year)
    BY <1>1, <1>2, DatesAndYears
<1>7. CASE year < Year(end)
    BY <1>1, <1>2, <1>3, <1>4, <1>5, <1>7 DEF Term, Share, Earlier, Later
<1>8. CASE year = Year(end) /\ Year(start) < Year(end)
    BY <1>1, <1>2, <1>3, <1>6, <1>8 DEF Term, Share, Earlier, Later, NewYearsDay
<1>9. CASE Year(start) = Year(end)
    <2>1. year = Year(start) /\ year = Year(end)
        BY <1>1, <1>9
    <2>2. Share(start, end, year) = [days |-> end - start, length |-> DaysInYear(year)]
        BY <1>1, <1>3, <2>1 DEF Share, Earlier, Later
    <2>3. QED
        BY <1>2, <1>9, <2>1, <2>2 DEF Term
<1>10. QED
    BY <1>1, <1>7, <1>8, <1>9

-----------------------------------------------------------------------------
(* Whole days *)

LEMMA AskedYMD ==
    ASSUME NEW date, Asked(date)
    PROVE  /\ date \in Int
           /\ YMD(date).year \in Int
           /\ YMD(date).month \in 1 .. 12
           /\ YMD(date).day \in 1 .. 31
           /\ YMD(date).day =< DaysInMonth(YMD(date).year, YMD(date).month)
<1>1. PICK d \in CivilDates : date = NewDate(d.year, d.month, d.day)
    BY DEF Asked
<1>2. /\ d.year \in Int /\ IsDate(d.year, d.month, d.day) /\ date \in Int
      /\ YMD(date) = [year |-> d.year, month |-> d.month, day |-> d.day]
    BY <1>1, AskedDates
<1>3. /\ d.month \in 1 .. 12 /\ d.day \in 1 .. 31 /\ d.day =< DaysInMonth(d.year, d.month)
    BY <1>2 DEF IsDate
<1>4. QED
    BY <1>2, <1>3

LEMMA CountIsInt ==
    ASSUME NEW a, NEW b, Asked(a), Asked(b), NEW r \in Rules
    PROVE  Count(r, a, b) \in Int
<1>1. /\ a \in Int /\ b \in Int
      /\ YMD(a).year \in Int /\ YMD(a).month \in Int /\ YMD(a).day \in Int
      /\ YMD(b).year \in Int /\ YMD(b).month \in Int /\ YMD(b).day \in Int
    BY AskedYMD
<1>2. BondOfOrdered(a, b) \in Int /\ BondOfOrdered(b, a) \in Int
    BY <1>1 DEF BondOfOrdered, Thirty, BondDay, EuroBondDay
<1>3. /\ IsdaDay(YMD(a)) \in Int /\ IsdaDay(YMD(b)) \in Int
      /\ EuroBondDay(YMD(a)) \in Int /\ EuroBondDay(YMD(b)) \in Int
    BY <1>1 DEF IsdaDay, EuroBondDay
<1>4. /\ Thirty(YMD(a), YMD(b), IsdaDay(YMD(a)), IsdaDay(YMD(b))) \in Int
      /\ Thirty(YMD(a), YMD(b), EuroBondDay(YMD(a)), EuroBondDay(YMD(b))) \in Int
    BY <1>1, <1>3 DEF Thirty
<1>5. CASE r = "30_360_BOND_BASIS"
    BY <1>2, <1>5 DEF Count, ComputeDayCount30360
<1>6. CASE r = "30_E_360_ISDA"
    BY <1>4, <1>6 DEF Count
<1>7. CASE r = "30_360_E_EUROBOND"
    BY <1>4, <1>7 DEF Count
<1>8. CASE r \notin {"30_360_BOND_BASIS", "30_E_360_ISDA", "30_360_E_EUROBOND"}
    BY <1>1, <1>8 DEF Count
<1>9. QED
    BY <1>5, <1>6, <1>7, <1>8

-----------------------------------------------------------------------------
(* The invariant *)

LEMMA InitIInv == Init => IInv
<1> SUFFICES ASSUME Init PROVE IInv
    OBVIOUS
<1>1. TypeOK
    <2>1. <<>> \in Seq([days : Int, length : Int])
        OBVIOUS
    <2>2. QED
        BY <2>1 DEF Init, TypeOK, Rules
<1>2. QED
    BY <1>1 DEF Init, IInv, Arguments, Counting, EveryDayInItsYear

\* YearFraction of any rule.
LEMMA CallIInv ==
    ASSUME IInv, Call
    PROVE  IInv'
<1>1. PICK r \in Rules, d1 \in CivilDates, d2 \in CivilDates :
        YearFraction(r, NewDate(d1.year, d1.month, d1.day), NewDate(d2.year, d2.month, d2.day))
    BY DEF Call
<1> DEFINE date1 == NewDate(d1.year, d1.month, d1.day)
           date2 == NewDate(d2.year, d2.month, d2.day)
<1>2. Asked(date1) /\ Asked(date2)
    BY DEF Asked
<1>3. /\ date1 \in Int /\ date2 \in Int /\ Year(date1) \in Int /\ Year(date2) \in Int
      /\ Year(date1) >= -4712 /\ Year(date2) >= -4712
    BY <1>2, AskedInYear
<1> HIDE DEF date1, date2
<1>4. YearFraction(r, date1, date2) /\ pc = "idle" /\ rule' = r /\ TypeOK /\ terms = <<>>
    BY <1>1 DEF date1, date2, YearFraction, IInv
<1>5. CASE r = "ACT_ACT"
    <2>1. ActAct(date1, date2)
        BY <1>4, <1>5 DEF YearFraction
    <2>2. /\ sign' \in {-1, 1}
          /\ start_date' \in {date1, date2} /\ end_date' \in {date1, date2}
          /\ start_date' =< end_date'
          /\ Year(date1) = Year(date2) => Year(start_date') = Year(end_date')
          /\ Year(date1) # Year(date2) => Year(start_date') # Year(end_date')
        <3>1. CASE date2 < date1
            BY <1>3, <2>1, <3>1 DEF ActAct, Earlier, Later
        <3>2. CASE date1 =< date2
            BY <1>3, <2>1, <3>2 DEF ActAct, Earlier, Later
        <3>3. QED
            BY <1>3, <3>1, <3>2
    <2>3. /\ Asked(start_date') /\ Asked(end_date')
          /\ start_date' \in Int /\ end_date' \in Int
          /\ Year(start_date') \in Int /\ Year(start_date') >= -4712
          /\ Year(end_date') \in Int /\ Year(start_date') =< Year(end_date')
        BY <1>2, <1>3, <2>2, DatesAndYears
    <2>4. Arguments' /\ (pc = "idle" => terms = <<>>)'
        BY <1>4, <2>1, <2>3 DEF Arguments, ActAct
    <2>5. CASE Year(date1) = Year(date2)
        <3>1. /\ terms' = <<Term(start_date', end_date', Year(start_date'))>>
              /\ pc' = "return" /\ UNCHANGED <<curr_year, prior_date>>
              /\ Year(start_date') = Year(end_date')
            BY <2>1, <2>2, <2>5 DEF ActAct
        <3>2. Term(start_date', end_date', Year(start_date')) = Share(start_date', end_date', Year(start_date'))
            BY <2>2, <2>3, <3>1, ShareOfYear
        <3>3. /\ Len(terms') = 1 /\ terms'[1] = Share(start_date', end_date', Year(start_date'))
              /\ terms' \in Seq([days : Int, length : Int])
            <4>1. /\ Term(start_date', end_date', Year(start_date')) \in [days : Int, length : Int]
                BY <2>3 DEF Term, DaysInYear
            <4>2. QED
                BY <3>1, <3>2, <4>1
        <3>4. TypeOK'
            BY <1>4, <2>2, <2>3, <3>1, <3>3 DEF TypeOK
        <3>5. EveryDayInItsYear'
            <4>1. Year(end_date') - Year(start_date') + 1 = 1
                BY <2>3, <3>1
            <4>2. \A i \in 1 .. Len(terms') :
                    i = 1 /\ Year(start_date') + i - 1 = Year(start_date')
                BY <2>3, <3>3
            <4>3. QED
                BY <2>2, <3>3, <4>1, <4>2 DEF EveryDayInItsYear, Share
        <3>6. QED
            BY <2>4, <3>1, <3>4, <3>5 DEF IInv, Counting
    <2>6. CASE Year(date1) # Year(date2)
        <3>1. /\ curr_year' = Year(start_date') /\ prior_date' = start_date' - 1
              /\ pc' = "loop" /\ terms' = <<>>
            BY <1>4, <2>1, <2>6 DEF ActAct, DayBefore
        <3>2. TypeOK'
            BY <1>4, <2>2, <2>3, <3>1 DEF TypeOK
        <3>3. Later(start_date', NewYearsDay(curr_year')) = start_date'
            <4>1. /\ NewYearsDay(Year(start_date')) =< start_date'
                  /\ NewYearsDay(Year(start_date')) \in Int
                BY <2>3, AskedInYear, NewYears
            <4>2. QED
                BY <2>3, <3>1, <4>1 DEF Later
        <3>4. Counting'
            <4>1. /\ Year(start_date') < Year(end_date')
                  /\ curr_year' \in Year(start_date') .. Year(end_date')
                BY <2>2, <2>3, <2>6, <3>1
            <4>2. Len(terms') = curr_year' - Year(start_date') /\ Shares'
                BY <2>3, <3>1 DEF Shares
            <4>3. QED
                BY <1>4, <1>5, <2>2, <3>1, <3>3, <4>1, <4>2 DEF Counting
        <3>5. QED
            BY <2>4, <3>1, <3>2, <3>4 DEF IInv, EveryDayInItsYear
    <2>7. QED
        BY <2>5, <2>6
<1>6. CASE r \in DayCounters /\ r # "ACT_ACT"
    <2>1. OneTerm(r, date1, date2)
        BY <1>4, <1>6 DEF YearFraction
    <2>2. Count(r, date1, date2) \in Int /\ YearOf(r) \in Int
        BY <1>2, CountIsInt DEF YearOf
    <2>3. terms' \in Seq([days : Int, length : Int])
        BY <2>1, <2>2 DEF OneTerm
    <2>4. QED
        <3>1. TypeOK'
            BY <1>3, <1>4, <2>1, <2>3 DEF OneTerm, TypeOK
        <3>2. /\ Asked(start_date') /\ Asked(end_date') /\ pc' = "return" /\ rule' # "ACT_ACT"
            BY <1>2, <1>4, <1>6, <2>1 DEF OneTerm
        <3>3. QED
            BY <3>1, <3>2 DEF IInv, Arguments, Counting, EveryDayInItsYear
<1>7. CASE r \notin DayCounters
    BY <1>4, <1>7 DEF YearFraction, DayCounters, IInv, TypeOK, Arguments, Counting, EveryDayInItsYear
<1>8. QED
    BY <1>5, <1>6, <1>7
\* What the loop knows when it begins another turn.
LEMMA LoopFacts ==
    ASSUME IInv, pc = "loop"
    PROVE  /\ TypeOK /\ rule = "ACT_ACT"
           /\ Asked(start_date) /\ Asked(end_date)
           /\ start_date \in Int /\ end_date \in Int /\ start_date =< end_date
           /\ Year(start_date) \in Int /\ Year(end_date) \in Int
           /\ Year(start_date) < Year(end_date)
           /\ curr_year \in Year(start_date) .. Year(end_date) /\ curr_year \in Int
           /\ prior_date = Later(start_date, NewYearsDay(curr_year)) - 1 /\ prior_date \in Int
           /\ Len(terms) = curr_year - Year(start_date)
           /\ terms \in Seq([days : Int, length : Int])
           /\ Shares
<1>1. /\ TypeOK /\ Counting /\ Asked(start_date) /\ Asked(end_date)
    BY DEF IInv, Arguments
<1>2. Year(start_date) \in Int /\ Year(end_date) \in Int
    BY <1>1, AskedInYear
<1>3. QED
    BY <1>1, <1>2 DEF Counting, TypeOK

\* A term appended is the share of curr_year.
LEMMA NextShare ==
    ASSUME IInv, pc = "loop", NEW term,
           term \in [days : Int, length : Int],
           term = Share(start_date, end_date, curr_year),
           terms' = Append(terms, term), UNCHANGED <<start_date, end_date>>
    PROVE  /\ terms' \in Seq([days : Int, length : Int])
           /\ Len(terms') = curr_year + 1 - Year(start_date)
           /\ Shares'
<1>1. /\ Len(terms) = curr_year - Year(start_date)
      /\ terms \in Seq([days : Int, length : Int])
      /\ curr_year \in Int /\ Year(start_date) \in Int
      /\ Shares
    BY LoopFacts
<1>2. /\ terms' \in Seq([days : Int, length : Int])
      /\ Len(terms') = Len(terms) + 1
      /\ \A i \in 1 .. Len(terms) : terms'[i] = terms[i]
      /\ terms'[Len(terms) + 1] = term
    BY <1>1
<1>3. Year(start_date) + (Len(terms) + 1) - 1 = curr_year
    BY <1>1
<1>4. ASSUME NEW i \in 1 .. Len(terms')
      PROVE  terms'[i] = Share(start_date, end_date, Year(start_date) + i - 1)
    <2>1. CASE i \in 1 .. Len(terms)
        BY <1>1, <1>2, <2>1 DEF Shares
    <2>2. CASE i = Len(terms) + 1
        BY <1>2, <1>3, <2>2
    <2>3. QED
        BY <1>1, <1>2, <1>4, <2>1, <2>2
<1>5. QED
    BY <1>1, <1>2, <1>4 DEF Shares

\* A year passed.
LEMMA YearStepIInv ==
    ASSUME IInv, YearStep
    PROVE  IInv'
<1> DEFINE curr_date == NewDate(curr_year, 12, 31)
<1>1. /\ pc = "loop" /\ curr_year < Year(end_date)
      /\ curr_year' = curr_year + 1
      /\ UNCHANGED <<pc, rule, start_date, end_date, sign>>
    BY DEF YearStep, args
<1>2. /\ TypeOK /\ rule = "ACT_ACT"
      /\ Asked(start_date) /\ Asked(end_date)
      /\ start_date \in Int /\ end_date \in Int /\ start_date =< end_date
      /\ Year(start_date) \in Int /\ Year(end_date) \in Int
      /\ Year(start_date) < Year(end_date)
      /\ curr_year \in Year(start_date) .. Year(end_date) /\ curr_year \in Int
      /\ prior_date = Later(start_date, NewYearsDay(curr_year)) - 1 /\ prior_date \in Int
    BY <1>1, LoopFacts
<1>3. /\ curr_date \in Int /\ curr_date < end_date
      /\ Term(prior_date, curr_date, curr_year) = Share(start_date, end_date, curr_year)
      /\ curr_date = Later(start_date, NewYearsDay(curr_year + 1)) - 1
    BY <1>1, <1>2, ShareOfYear
<1>4. terms' = Append(terms, Term(prior_date, curr_date, curr_year)) /\ prior_date' = curr_date
    BY <1>3 DEF YearStep
<1> HIDE DEF curr_date
<1>5. Term(prior_date, curr_date, curr_year) \in [days : Int, length : Int]
    BY <1>2, <1>3 DEF Term, DaysInYear
<1>6. /\ terms' \in Seq([days : Int, length : Int])
      /\ Len(terms') = curr_year + 1 - Year(start_date)
      /\ Shares'
    BY <1>1, <1>3, <1>4, <1>5, NextShare
<1>7. TypeOK'
    BY <1>1, <1>2, <1>3, <1>4, <1>6 DEF TypeOK
<1>8. Counting'
    <2>1. curr_year' \in Year(start_date) .. Year(end_date)
        BY <1>1, <1>2
    <2>2. prior_date' = Later(start_date, NewYearsDay(curr_year')) - 1
        BY <1>1, <1>3, <1>4
    <2>3. QED
        BY <1>1, <1>2, <1>6, <2>1, <2>2 DEF Counting
<1>9. QED
    BY <1>1, <1>2, <1>7, <1>8 DEF IInv, Arguments, EveryDayInItsYear

\* The last year.
LEMMA LastYearIInv ==
    ASSUME IInv, LastYear
    PROVE  IInv'
<1> DEFINE term == Term(NewDate(Year(end_date), 1, 1), end_date, Year(end_date))
<1>1. /\ pc = "loop" /\ curr_year >= Year(end_date) /\ pc' = "return"
      /\ terms' = Append(terms, term)
      /\ UNCHANGED <<rule, start_date, end_date, sign, curr_year, prior_date>>
    BY DEF LastYear, args
<1>2. /\ TypeOK /\ rule = "ACT_ACT"
      /\ Asked(start_date) /\ Asked(end_date)
      /\ start_date \in Int /\ end_date \in Int /\ start_date =< end_date
      /\ Year(start_date) \in Int /\ Year(end_date) \in Int
      /\ Year(start_date) < Year(end_date)
      /\ curr_year \in Year(start_date) .. Year(end_date) /\ curr_year \in Int
    BY <1>1, LoopFacts
<1>3. curr_year = Year(end_date)
    BY <1>1, <1>2
<1>4. term = Share(start_date, end_date, curr_year)
    BY <1>2, <1>3, ShareOfYear
<1>5. term \in [days : Int, length : Int]
    <2>1. NewDate(Year(end_date), 1, 1) \in Int
        BY <1>2, AskedInYear, NewYears DEF NewYearsDay
    <2>2. QED
        BY <1>2, <2>1 DEF Term, DaysInYear
<1> HIDE DEF term
<1>6. /\ terms' \in Seq([days : Int, length : Int])
      /\ Len(terms') = curr_year + 1 - Year(start_date)
      /\ Shares'
    BY <1>1, <1>4, <1>5, NextShare
<1>7. TypeOK'
    BY <1>1, <1>2, <1>6 DEF TypeOK
<1>8. EveryDayInItsYear'
    <2>1. Len(terms') = Year(end_date) - Year(start_date) + 1
        BY <1>2, <1>3, <1>6
    <2>2. QED
        BY <1>1, <1>2, <1>6, <2>1 DEF EveryDayInItsYear, Shares, Share
<1>9. QED
    BY <1>1, <1>2, <1>7, <1>8 DEF IInv, Arguments, Counting

LEMMA StepIInv ==
    ASSUME IInv, [Next]_vars
    PROVE  IInv'
<1>1. CASE UNCHANGED vars
    BY <1>1 DEF IInv, TypeOK, Arguments, Counting, Shares, EveryDayInItsYear, vars, args
<1>2. CASE Return
    <2>1. terms' \in Seq([days : Int, length : Int])
        BY <1>2 DEF Return
    <2>2. TypeOK'
        BY <1>2, <2>1 DEF Return, TypeOK, Rules
    <2>3. QED
        BY <1>2, <2>2 DEF Return, IInv, Arguments, Counting, EveryDayInItsYear
<1>3. QED
    BY <1>1, <1>2, CallIInv, YearStepIInv, LastYearIInv DEF Next

THEOREM Invariance == Spec => []IInv
BY InitIInv, StepIInv, PTL DEF Spec

\* ACT/ACT (day_count_act_act.cpp:21-60) counts every day of a term once, in
\* the year it lies in and over that year's true length, for any two dates.
THEOREM YearsAreTrue == Spec => []EveryDayInItsYear
<1>1. IInv => EveryDayInItsYear
    BY DEF IInv
<1>2. QED
    BY <1>1, Invariance, PTL
-----------------------------------------------------------------------------
(* Sums and months *)

\* Splitting one term, under any rule.
LEMMA SplitTerm ==
    ASSUME NEW r \in Rules, NEW a, NEW b, NEW m, Asked(a), Asked(b), Asked(m)
    PROVE  AddsUp(r, a, m, b)
<1> DEFINE A == YMD(a)
           B == YMD(b)
           M == YMD(m)
<1>1. /\ a \in Int /\ A.year \in Int /\ A.month \in Int /\ A.day \in 1 .. 31
      /\ b \in Int /\ B.year \in Int /\ B.month \in Int /\ B.day \in 1 .. 31
      /\ m \in Int /\ M.year \in Int /\ M.month \in Int /\ M.day \in 1 .. 31
    BY AskedYMD
<1>2. CASE r = "30_360_BOND_BASIS"
    <2>1. /\ BondOfOrdered(a, b) = Thirty(A, B, EuroBondDay(A), BondDay(EuroBondDay(A), B.day))
          /\ BondOfOrdered(b, a) = Thirty(B, A, EuroBondDay(B), BondDay(EuroBondDay(B), A.day))
          /\ BondOfOrdered(a, m) = Thirty(A, M, EuroBondDay(A), BondDay(EuroBondDay(A), M.day))
          /\ BondOfOrdered(m, b) = Thirty(M, B, EuroBondDay(M), BondDay(EuroBondDay(M), B.day))
        BY DEF BondOfOrdered
    <2> HIDE DEF A, B, M
    <2>2. Count(r, b, a) = -Count(r, a, b)
        <3>1. /\ BondOfOrdered(a, b) \in Int /\ BondOfOrdered(b, a) \in Int
            BY <1>1, <2>1 DEF Thirty, EuroBondDay, BondDay
        <3>2. CASE a = b
            <4>1. BondOfOrdered(a, b) = 0 /\ BondOfOrdered(b, a) = 0
                BY <1>1, <2>1, <3>2 DEF Thirty, EuroBondDay, BondDay, A, B
            <4>2. QED
                BY <1>1, <1>2, <3>2, <4>1 DEF Count, ComputeDayCount30360
        <3>3. CASE a # b
            BY <1>1, <1>2, <3>1, <3>3 DEF Count, ComputeDayCount30360
        <3>4. QED
            BY <3>2, <3>3
    <2>3. a =< m /\ m =< b => Count(r, a, m) + Count(r, m, b) - Count(r, a, b) \in -1 .. 1
        <3> SUFFICES ASSUME a =< m, m =< b
                     PROVE  Count(r, a, m) + Count(r, m, b) - Count(r, a, b) \in -1 .. 1
            OBVIOUS
        <3>1. /\ Count(r, a, m) = BondOfOrdered(a, m)
              /\ Count(r, m, b) = BondOfOrdered(m, b)
              /\ Count(r, a, b) = BondOfOrdered(a, b)
            BY <1>1, <1>2 DEF Count, ComputeDayCount30360
        <3>2. /\ EuroBondDay(A) \in Int /\ EuroBondDay(M) \in Int
              /\ BondDay(EuroBondDay(A), M.day) \in Int
              /\ BondDay(EuroBondDay(M), B.day) \in Int
              /\ BondDay(EuroBondDay(A), B.day) \in Int
            BY <1>1 DEF EuroBondDay, BondDay
        <3>3. Count(r, a, m) + Count(r, m, b) - Count(r, a, b)
                = (BondDay(EuroBondDay(A), M.day) - EuroBondDay(M))
                  + (BondDay(EuroBondDay(M), B.day) - BondDay(EuroBondDay(A), B.day))
            BY <1>1, <2>1, <3>1, <3>2 DEF Thirty
        <3>4. (BondDay(EuroBondDay(A), M.day) - EuroBondDay(M))
              + (BondDay(EuroBondDay(M), B.day) - BondDay(EuroBondDay(A), B.day)) \in -1 .. 1
            BY <1>1 DEF EuroBondDay, BondDay
        <3>5. QED
            BY <3>3, <3>4
    <2>4. /\ Count(r, a, b) \in Int /\ Count(r, b, a) \in Int
          /\ Count(r, a, m) \in Int /\ Count(r, m, b) \in Int
        BY CountIsInt
    <2>5. QED
        BY <1>2, <2>2, <2>3, <2>4 DEF AddsUp
<1>3. CASE r \in {"30_E_360_ISDA", "30_360_E_EUROBOND"}
    <2>1. PICK day \in [{a, b, m} -> Int] :
            \A x, y \in {a, b, m} : Count(r, x, y) = Thirty(YMD(x), YMD(y), day[x], day[y])
        <3>1. CASE r = "30_E_360_ISDA"
            <4> DEFINE day == [x \in {a, b, m} |-> IsdaDay(YMD(x))]
            <4>1. day \in [{a, b, m} -> Int]
                BY <1>1 DEF IsdaDay
            <4>2. QED
                BY <3>1, <4>1 DEF Count
        <3>2. CASE r = "30_360_E_EUROBOND"
            <4> DEFINE day == [x \in {a, b, m} |-> EuroBondDay(YMD(x))]
            <4>1. day \in [{a, b, m} -> Int]
                BY <1>1 DEF EuroBondDay
            <4>2. QED
                BY <3>2, <4>1 DEF Count
        <3>3. QED
            BY <1>3, <3>1, <3>2
    <2>2. /\ Count(r, a, b) = Thirty(A, B, day[a], day[b])
          /\ Count(r, b, a) = Thirty(B, A, day[b], day[a])
          /\ Count(r, a, m) = Thirty(A, M, day[a], day[m])
          /\ Count(r, m, b) = Thirty(M, B, day[m], day[b])
          /\ day[a] \in Int /\ day[b] \in Int /\ day[m] \in Int
        BY <2>1
    <2> HIDE DEF A, B, M
    <2>3. QED
        BY <1>1, <2>2 DEF Thirty, AddsUp
<1>4. CASE r \notin {"30_360_BOND_BASIS", "30_E_360_ISDA", "30_360_E_EUROBOND"}
    BY <1>1, <1>4 DEF Count, AddsUp
<1>5. QED
    BY <1>2, <1>3, <1>4

\* The parts of a term add up to it under every rule, the bond basis within a day.
THEOREM TermsAddUp == Spec => []PartsAddUp
<1>1. IInv => PartsAddUp
    <2> SUFFICES ASSUME IInv, pc = "return", NEW d \in CivilDates
                 PROVE  AddsUp(rule, start_date, NewDate(d.year, d.month, d.day), end_date)
        BY DEF PartsAddUp
    <2>1. /\ Asked(start_date) /\ Asked(end_date) /\ rule \in Rules
        BY DEF IInv, Arguments, TypeOK
    <2>2. Asked(NewDate(d.year, d.month, d.day))
        BY DEF Asked
    <2>3. QED
        BY <2>1, <2>2, SplitTerm
<1>2. QED
    BY <1>1, Invariance, PTL

\* A month counts thirty days between equal days and, where the convention
\* promises it, between the ends of months.
THEOREM ThirtyDaysAMonth == Spec => []MonthsHaveThirtyDays
<1>1. IInv => MonthsHaveThirtyDays
    <2> DEFINE A == YMD(start_date)
               B == YMD(end_date)
               last == DaysInMonth(A.year, A.month)
               until == DaysInMonth(B.year, B.month)
    <2> SUFFICES ASSUME IInv, pc = "return",
                        rule \in {"30_360_BOND_BASIS", "30_E_360_ISDA", "30_360_E_EUROBOND"},
                        \/ A.day = B.day /\ (A.day = last <=> B.day = until)
                        \/ /\ A.day = last /\ B.day = until
                           /\ rule = "30_E_360_ISDA" \/ 2 \notin {A.month, B.month}
                 PROVE  Count(rule, start_date, end_date)
                          = 30 * (12 * (B.year - A.year) + B.month - A.month)
        BY DEF MonthsHaveThirtyDays
    <2>1. /\ start_date \in Int /\ A.year \in Int /\ A.month \in 1 .. 12
          /\ A.day \in 1 .. 31 /\ A.day =< last
          /\ end_date \in Int /\ B.year \in Int /\ B.month \in 1 .. 12
          /\ B.day \in 1 .. 31 /\ B.day =< until
        BY AskedYMD DEF IInv, Arguments
    <2>2. /\ A.month = 2 => last = DaysInMonth(A.year, 2) /\ last \in 28 .. 29
          /\ A.month # 2 => last \in 30 .. 31
          /\ B.month = 2 => until = DaysInMonth(B.year, 2) /\ until \in 28 .. 29
          /\ B.month # 2 => until \in 30 .. 31
        BY <2>1 DEF DaysInMonth
    <2>3. /\ BondOfOrdered(start_date, end_date)
               = Thirty(A, B, EuroBondDay(A), BondDay(EuroBondDay(A), B.day))
          /\ BondOfOrdered(end_date, start_date)
               = Thirty(B, A, EuroBondDay(B), BondDay(EuroBondDay(B), A.day))
        BY DEF BondOfOrdered
    <2>4. /\ rule = "30_360_BOND_BASIS" =>
                Count(rule, start_date, end_date) =
                    IF end_date < start_date THEN -BondOfOrdered(end_date, start_date)
                    ELSE BondOfOrdered(start_date, end_date)
          /\ rule = "30_E_360_ISDA" =>
                Count(rule, start_date, end_date) = Thirty(A, B, IsdaDay(A), IsdaDay(B))
          /\ rule = "30_360_E_EUROBOND" =>
                Count(rule, start_date, end_date) = Thirty(A, B, EuroBondDay(A), EuroBondDay(B))
        BY DEF Count, ComputeDayCount30360
    <2> HIDE DEF A, B, last, until
    <2>5. CASE rule = "30_E_360_ISDA"
        <3>1. IsdaDay(A) = IsdaDay(B) /\ IsdaDay(A) \in Int
            BY <2>1, <2>2, <2>5 DEF IsdaDay
        <3>2. QED
            BY <2>1, <2>4, <2>5, <3>1 DEF Thirty
    <2>6. CASE rule = "30_360_E_EUROBOND"
        <3>1. EuroBondDay(A) = EuroBondDay(B) /\ EuroBondDay(A) \in Int
            BY <2>1, <2>2, <2>6 DEF EuroBondDay
        <3>2. QED
            BY <2>1, <2>4, <2>6, <3>1 DEF Thirty
    <2>7. CASE rule = "30_360_BOND_BASIS"
        <3>1. /\ BondDay(EuroBondDay(A), B.day) = EuroBondDay(A) /\ EuroBondDay(A) \in Int
              /\ BondDay(EuroBondDay(B), A.day) = EuroBondDay(B) /\ EuroBondDay(B) \in Int
            BY <2>1, <2>2, <2>7 DEF EuroBondDay, BondDay
        <3>2. QED
            BY <2>1, <2>3, <2>4, <2>7, <3>1 DEF Thirty
    <2>8. QED
        BY <2>5, <2>6, <2>7
<1>2. QED
    BY <1>1, Invariance, PTL

-----------------------------------------------------------------------------
(* The dates of a schedule, as numbers of days or as months *)

Monthly == request.reset_freq.unit \in {"M", "Y"}

\* Days or months in one unit of the tenor, and the way to the next period.
Scale ==
    IF request.reset_freq.unit = "W" THEN 7
    ELSE IF request.reset_freq.unit = "Y" THEN 12 ELSE 1
Stride == IF Forward THEN Length ELSE -Length
Pace == Scale * Stride

\* The date that periods are counted from, and what they are counted in.
Origin == IF Forward THEN request.start_date ELSE request.mat_date
At(j) == IF Monthly THEN MonthIndex(j) ELSE j
FirstMonth == 12 * (-4712) + 1

\* A date that the conversions are defined for; one that lies a whole number of
\* periods from the origin, on its day of the month; one within the term.
Sane(j) == j \in Int /\ (Monthly => j >= FirstDay)
OnGrid(j) ==
    /\ Sane(j)
    /\ Monthly => YMD(j).day = ClipDay(YMD(j).year, YMD(j).month, YMD(Origin).day)
Inside(j) == IF Forward THEN j < request.mat_date ELSE j > request.start_date

\* Two dates for the end of a period: that of its own start, and the origin's.
Meets(to, from) == from - to \in 0 .. 3 /\ (Regular => from = to)

LEMMA RequestIsTyped ==
    ASSUME request \in Requests
    PROVE  /\ request \in Request
           /\ request.start_date \in Int /\ request.mat_date \in Int
           /\ request.front_stub_date \in Int /\ request.back_stub_date \in Int
           /\ Length \in Int /\ Length > 0
           /\ request.reset_freq.unit \in Units
           /\ Scale \in {1, 7, 12}
           /\ Stride \in Int /\ Pace \in Int
           /\ IF Forward THEN Pace > 0 ELSE Pace < 0
<1>1. request \in Request /\ request.reset_freq.count > 0
    BY RequestAssumption
<1>2. /\ request.start_date \in Int /\ request.mat_date \in Int
      /\ request.front_stub_date \in Int /\ request.back_stub_date \in Int
      /\ request.reset_freq \in Tenor
    BY <1>1 DEF Request
<1>3. Length \in Int /\ Length > 0 /\ request.reset_freq.unit \in Units
    BY <1>1, <1>2 DEF Tenor, Length
<1>4. Scale \in {1, 7, 12}
    BY DEF Scale
<1>5. Stride \in Int /\ (IF Forward THEN Stride > 0 ELSE Stride < 0)
    BY <1>3 DEF Stride
<1>6. Pace \in Int /\ (IF Forward THEN Pace > 0 ELSE Pace < 0)
    BY <1>4, <1>5 DEF Pace
<1>7. QED
    BY <1>1, <1>2, <1>3, <1>4, <1>5, <1>6

\* Dates are in the order of their months, and in that of their day numbers.
LEMMA AtIsOrdered ==
    ASSUME request \in Requests, NEW i, Sane(i), NEW j, Sane(j)
    PROVE  /\ At(i) \in Int /\ At(j) \in Int
           /\ At(i) < At(j) => i < j
           /\ i =< j => At(i) =< At(j)
           /\ Monthly => At(i) >= FirstMonth
<1>1. CASE Monthly
    <2>1. /\ i \in Int /\ j \in Int /\ i >= FirstDay /\ j >= FirstDay
          /\ At(i) = MonthIndex(i) /\ At(j) = MonthIndex(j)
        BY <1>1 DEF Sane, At
    <2>2. MonthIndex(i) >= FirstMonth
        <3>1. /\ YMD(i).year \in Int /\ YMD(i).month \in Int
              /\ IsDate(YMD(i).year, YMD(i).month, YMD(i).day)
            BY <2>1, EveryDayHasADate
        <3>2. YMD(i).year >= -4712 /\ YMD(i).month \in 1 .. 12
            BY <3>1 DEF IsDate
        <3>3. QED
            BY <3>1, <3>2 DEF MonthIndex, FirstMonth
    <2>3. QED
        BY <2>1, <2>2, MonthsFollow
<1>2. CASE ~Monthly
    BY <1>2 DEF Sane, At
<1>3. QED
    BY <1>1, <1>2

\* Adding a tenor leads so many days or months on, in a month to the same day.
LEMMA AwayLands ==
    ASSUME request \in Requests, NEW j, Sane(j), NEW n \in Int,
           Monthly => At(j) + Scale * n >= FirstMonth
    PROVE  /\ Sane(Away(j, n))
           /\ At(Away(j, n)) = At(j) + Scale * n
           /\ Monthly => YMD(Away(j, n)).day =
                  ClipDay(YMD(Away(j, n)).year, YMD(Away(j, n)).month, YMD(j).day)
<1> DEFINE tenor == [request.reset_freq EXCEPT !.count = n]
<1>1. /\ request.reset_freq \in Tenor
      /\ Away(j, n) = AddTenor(j, tenor)
      /\ tenor.count = n /\ tenor.unit = request.reset_freq.unit
    <2>1. request.reset_freq \in Tenor
        BY RequestAssumption DEF Request
    <2>2. QED
        BY <2>1 DEF Away, Tenor
<1> HIDE DEF tenor
<1>2. CASE Monthly
    <2>1. /\ j \in Int /\ j >= FirstDay /\ At(j) = MonthIndex(j)
          /\ MonthIndex(j) + Scale * n >= 12 * (-4712) + 1
        BY <1>2 DEF Sane, At, FirstMonth
    <2>2. Scale * n \in Int
        BY RequestIsTyped
    <2>3. Away(j, n) = AddMonths(j, Scale * n)
        <3>1. CASE request.reset_freq.unit = "M"
            BY <1>1, <3>1 DEF AddTenor, Scale
        <3>2. CASE request.reset_freq.unit = "Y"
            BY <1>1, <2>1, <3>2, YearsAway DEF AddTenor, Scale
        <3>3. QED
            BY <1>2, <3>1, <3>2 DEF Monthly
    <2>4. QED
        BY <1>2, <2>1, <2>2, <2>3, MonthsAway DEF Sane, At
<1>3. CASE ~Monthly
    <2>1. request.reset_freq.unit \in {"D", "W"}
        BY <1>1, <1>3 DEF Tenor, Units, Monthly
    <2>2. j \in Int
        BY DEF Sane
    <2>3. Away(j, n) = j + Scale * n
        BY <1>1, <2>1, <2>2 DEF AddTenor, AddDays, AddWeeks, Scale
    <2>4. QED
        BY <1>3, <2>2, <2>3, RequestIsTyped DEF Sane, At
<1>4. QED
    BY <1>2, <1>3

\* The origin is a date to count from, and every period begins far enough from
\* the first date for another one.
LEMMA OriginIsSane ==
    ASSUME request \in Requests, request.start_date =< request.mat_date
    PROVE  /\ Sane(request.start_date) /\ Sane(Origin) /\ OnGrid(Origin)
           /\ Monthly => At(request.start_date) + Scale * (-Length) >= FirstMonth
<1>1. request.start_date \in Int /\ request.mat_date \in Int
    BY RequestIsTyped
<1>2. Monthly => /\ request.start_date >= FirstDay
                 /\ At(request.start_date) + Scale * (-Length) >= FirstMonth
    <2>1. SUFFICES ASSUME Monthly
                   PROVE  /\ request.start_date >= FirstDay
                          /\ At(request.start_date) + Scale * (-Length) >= FirstMonth
        OBVIOUS
    <2>2. NewDate(-4712, 1, 1) = FirstDay
        BY DEF NewDate, FirstDay, DaysInMonth
    <2>3. /\ request.start_date >= FirstDay
          /\ 12 * (YMD(request.start_date).year + 4712) + YMD(request.start_date).month
               > MonthsOf(request.reset_freq)
        BY <2>1, <2>2, TermsAssumption DEF Monthly
    <2>4. /\ MonthsOf(request.reset_freq) = Scale * Length
          /\ Length \in Int /\ Scale \in Int
        BY <2>1, RequestIsTyped DEF MonthsOf, Scale, Length, Monthly
    <2>5. Scale * (-Length) = -MonthsOf(request.reset_freq) /\ MonthsOf(request.reset_freq) \in Int
        BY <2>4, RequestIsTyped
    <2>6. YMD(request.start_date).year \in Int /\ YMD(request.start_date).month \in Int
        BY <1>1, <2>3, EveryDayHasADate
    <2>7. At(request.start_date) = 12 * YMD(request.start_date).year + YMD(request.start_date).month
        BY <2>1 DEF At, MonthIndex
    <2>8. QED
        BY <2>3, <2>5, <2>6, <2>7 DEF FirstMonth
<1>3. Sane(request.start_date) /\ Sane(request.mat_date)
    <2>1. FirstDay \in Int
        BY DEF FirstDay, ConvertToJulian, Quot
    <2>2. QED
        BY <1>1, <1>2, <2>1 DEF Sane
<1>4. Sane(Origin)
    BY <1>3 DEF Origin
<1>5. OnGrid(Origin)
    <2>1. ASSUME Monthly
          PROVE  YMD(Origin).day = ClipDay(YMD(Origin).year, YMD(Origin).month, YMD(Origin).day)
        <3>1. /\ YMD(Origin).day \in Int /\ YMD(Origin).year \in Int /\ YMD(Origin).month \in Int
              /\ IsDate(YMD(Origin).year, YMD(Origin).month, YMD(Origin).day)
            BY <1>4, <2>1, EveryDayHasADate DEF Sane
        <3>2. /\ YMD(Origin).day =< DaysInMonth(YMD(Origin).year, YMD(Origin).month)
              /\ DaysInMonth(YMD(Origin).year, YMD(Origin).month) \in Int
            BY <3>1 DEF IsDate, DaysInMonth
        <3>3. QED
            BY <3>1, <3>2 DEF ClipDay
    <2>2. QED
        BY <1>4, <2>1 DEF OnGrid
<1>6. QED
    BY <1>2, <1>3, <1>4, <1>5

\* Two ways to one month, one of them over another month that may be shorter,
\* end three days apart at most, and together up to the 28th.
LEMMA TwoWays ==
    ASSUME request \in Requests, Sane(Origin), NEW via, OnGrid(via),
           NEW to, Sane(to), NEW from, OnGrid(from), At(to) = At(from),
           Monthly => YMD(to).day = ClipDay(YMD(to).year, YMD(to).month, YMD(via).day)
    PROVE  Meets(to, from)
<1>1. CASE Monthly
    <2> DEFINE D == YMD(Origin).day
               y == YMD(to).year
               m == YMD(to).month
    <2>1. /\ to \in Int /\ to >= FirstDay /\ from \in Int /\ from >= FirstDay
          /\ via \in Int /\ via >= FirstDay /\ Origin \in Int /\ Origin >= FirstDay
        BY <1>1 DEF OnGrid, Sane
    <2>2. /\ YMD(from).year = y /\ YMD(from).month = m
          /\ from - to = YMD(from).day - YMD(to).day
        BY <1>1, <2>1, MonthsFollow DEF At
    <2>3. /\ YMD(from).day = ClipDay(y, m, D)
          /\ YMD(via).day = ClipDay(YMD(via).year, YMD(via).month, D)
          /\ YMD(to).day = ClipDay(y, m, YMD(via).day)
        BY <1>1, <2>2 DEF OnGrid
    <2>4. D \in 1 .. 31
        <3>1. YMD(Origin).day \in Int /\ YMD(Origin).year \in Int /\ YMD(Origin).month \in Int
              /\ IsDate(YMD(Origin).year, YMD(Origin).month, YMD(Origin).day)
            BY <2>1, EveryDayHasADate
        <3>2. QED
            BY <3>1 DEF IsDate
    <2>5. /\ DaysInMonth(y, m) \in 28 .. 31
          /\ DaysInMonth(YMD(via).year, YMD(via).month) \in 28 .. 31
        BY DEF DaysInMonth
    <2>6. Regular => D =< 28
        BY <1>1 DEF Regular, Monthly, Anchor, Origin
    <2> HIDE DEF D, y, m
    <2>7. YMD(from).day - YMD(to).day \in 0 .. 3 /\ (D =< 28 => YMD(from).day = YMD(to).day)
          /\ YMD(from).day \in Int /\ YMD(to).day \in Int
        BY <2>3, <2>4, <2>5 DEF ClipDay
    <2>8. QED
        BY <2>1, <2>2, <2>6, <2>7 DEF Meets
<1>2. CASE ~Monthly
    BY <1>2 DEF At, OnGrid, Sane, Meets
<1>3. QED
    BY <1>1, <1>2

\* One more period: it ends on a date, near where the next one begins.
LEMMA NextPeriod ==
    ASSUME request \in Requests, request.start_date =< request.mat_date,
           NEW c, OnGrid(c), Inside(c),
           NEW n \in Int, At(Origin) + Scale * n = At(c) + Pace
    PROVE  LET to == Away(c, Stride)
               next == Away(Origin, n)
           IN  /\ Sane(to) /\ At(to) = At(c) + Pace
               /\ OnGrid(next) /\ At(next) = At(c) + Pace
               /\ Meets(to, next)
               /\ Thrown \notin {to, next}
<1> DEFINE to == Away(c, Stride)
           next == Away(Origin, n)
<1>1. /\ Sane(c) /\ Sane(Origin) /\ OnGrid(Origin) /\ Sane(request.start_date)
      /\ Pace = Scale * Stride /\ Stride \in Int
      /\ request.start_date \in Int /\ request.mat_date \in Int /\ c \in Int
    BY OriginIsSane, RequestIsTyped DEF OnGrid, Sane, Pace
<1>2. Monthly => At(c) + Pace >= FirstMonth
    <2>1. CASE Forward
        <3>1. Pace \in Int /\ Pace > 0
            BY <2>1, RequestIsTyped
        <3>2. At(c) \in Int /\ (Monthly => At(c) >= FirstMonth)
            BY <1>1, AtIsOrdered
        <3>3. QED
            BY <3>1, <3>2 DEF FirstMonth
    <2>2. CASE ~Forward
        <3>1. Stride = -Length /\ request.start_date =< c
            BY <1>1, <2>2 DEF Stride, Inside
        <3>2. /\ At(request.start_date) \in Int /\ At(c) \in Int
              /\ At(request.start_date) =< At(c)
            BY <1>1, <3>1, AtIsOrdered
        <3>3. Monthly => At(request.start_date) + Pace >= FirstMonth
            BY <1>1, <3>1, OriginIsSane
        <3>4. Pace \in Int
            BY RequestIsTyped
        <3>5. QED
            BY <3>2, <3>3, <3>4 DEF FirstMonth
    <2>3. QED
        BY <2>1, <2>2
<1>3. /\ Sane(to) /\ At(to) = At(c) + Pace
      /\ Monthly => YMD(to).day = ClipDay(YMD(to).year, YMD(to).month, YMD(c).day)
    BY <1>1, <1>2, AwayLands
<1>4. /\ Sane(next) /\ At(next) = At(c) + Pace /\ OnGrid(next)
    BY <1>1, <1>2, AwayLands DEF OnGrid
<1>5. Meets(to, next)
    BY <1>1, <1>3, <1>4, TwoWays
<1>6. Thrown \notin {to, next}
    BY <1>3, <1>4, ThrownAssumption DEF Sane
<1>7. QED
    BY <1>3, <1>4, <1>5, <1>6

-----------------------------------------------------------------------------
(* The periods *)

\* Where periods begin in the order they are made, and where they end; the
\* loop's date is where the next one begins.
From == IF Forward THEN starts ELSE ends
To == IF Forward THEN ends ELSE starts
Trail == Append(From, curr)

\* In the direction of the schedule.
Before(i, j) == IF Forward THEN i < j ELSE i > j

\* The loop invariant: the trail goes on at one pace from the origin, each
\* period ends near where the next one begins, and all but the loop's date lie
\* within the term.
Counted ==
    /\ request.start_date =< request.mat_date
    /\ curr \in Int /\ total_length \in Int
    /\ Trail[1] = Origin
    /\ OnGrid(curr)
    /\ \A i \in 1 .. Len(From) :
           /\ OnGrid(Trail[i]) /\ Inside(Trail[i])
           /\ At(Trail[i + 1]) = At(Trail[i]) + Pace
           /\ Sane(To[i]) /\ At(To[i]) = At(Trail[i]) + Pace
           /\ Meets(To[i], Trail[i + 1])
           /\ Before(Origin, Trail[i + 1])
    /\ At(Origin) + Scale * total_length = At(curr) + Pace

Lists == starts \in Seq(Int) /\ ends \in Seq(Int) /\ Len(starts) = Len(ends)

\* What only depends on the request stays with it.
LEMMA SameRequest ==
    ASSUME request' = request
    PROVE  /\ Forward' = Forward /\ Origin' = Origin
           /\ Scale' = Scale /\ Stride' = Stride /\ Pace' = Pace
           /\ \A j : At(j)' = At(j) /\ Sane(j)' = Sane(j) /\ OnGrid(j)' = OnGrid(j)
                     /\ Inside(j)' = Inside(j)
           /\ \A i, j : Meets(i, j)' = Meets(i, j) /\ Before(i, j)' = Before(i, j)
<1>1. Forward' = Forward /\ Monthly' = Monthly /\ Length' = Length
    BY DEF Forward, Monthly, Length
<1>2. Origin' = Origin /\ Scale' = Scale /\ Stride' = Stride /\ Pace' = Pace /\ Regular' = Regular
    BY <1>1 DEF Origin, Scale, Stride, Pace, Regular, Anchor
<1>3. \A j : At(j)' = At(j) /\ Sane(j)' = Sane(j) /\ Inside(j)' = Inside(j)
    BY <1>1 DEF At, Sane, Inside
<1>4. \A j : OnGrid(j)' = OnGrid(j)
    BY <1>1, <1>2, <1>3 DEF OnGrid
<1>5. \A i, j : Meets(i, j)' = Meets(i, j) /\ Before(i, j)' = Before(i, j)
    BY <1>1, <1>2 DEF Meets, Before
<1>6. QED
    BY <1>1, <1>2, <1>3, <1>4, <1>5

\* What a loop's step appends, in either direction.
LEMMA PeriodIsAdded ==
    ASSUME request \in Requests, Lists, Counted, ForwardPeriod \/ BackwardPeriod
    PROVE  LET to == Away(curr, Stride)
               next == Away(Origin, total_length)
           IN  /\ stage = "periods" /\ stage' = "periods" /\ request' = request
               /\ cashflows' = cashflows
               /\ Inside(curr)
               /\ From' = Append(From, curr) /\ To' = Append(To, to)
               /\ curr' = next /\ total_length' = total_length + Stride
               /\ Sane(to) /\ At(to) = At(curr) + Pace
               /\ OnGrid(next) /\ At(next) = At(curr) + Pace
               /\ Meets(to, next) /\ Before(Origin, next) /\ Before(curr, next)
<1> DEFINE to == Away(curr, Stride)
           next == Away(Origin, total_length)
<1>1. request' = request /\ cashflows' = cashflows /\ stage = "periods" /\ Inside(curr)
    BY DEF ForwardPeriod, BackwardPeriod, Inside
<1>2. /\ Sane(to) /\ At(to) = At(curr) + Pace
      /\ OnGrid(next) /\ At(next) = At(curr) + Pace
      /\ Meets(to, next) /\ Thrown \notin {to, next}
    BY <1>1, NextPeriod DEF Counted
<1>3. Before(Origin, next) /\ Before(curr, next)
    <2>1. Sane(curr) /\ Sane(next) /\ curr \in Int /\ next \in Int /\ Origin \in Int
        BY <1>2, OriginIsSane DEF OnGrid, Sane, Counted
    <2>2. At(curr) \in Int /\ Pace \in Int /\ (IF Forward THEN Pace > 0 ELSE Pace < 0)
        BY <2>1, AtIsOrdered, RequestIsTyped
    <2>3. Before(curr, next)
        <3>1. (IF Forward THEN At(curr) < At(next) ELSE At(next) < At(curr))
            BY <1>2, <2>2
        <3>2. QED
            BY <2>1, <3>1, AtIsOrdered DEF Before
    <2>4. curr = Origin \/ Before(Origin, curr)
        <3> DEFINE n == Len(From)
        <3>1. From \in Seq(Int) /\ n \in Nat /\ Trail[n + 1] = curr /\ (n = 0 \/ n \in 1 .. n)
            BY <2>1 DEF From, Trail, Lists
        <3>2. n = 0 => curr = Origin
            BY <3>1 DEF Counted
        <3>3. n \in 1 .. n => Before(Origin, Trail[n + 1])
            BY DEF Counted
        <3>4. QED
            BY <3>1, <3>2, <3>3
    <2> HIDE DEF next
    <2>5. QED
        BY <2>1, <2>3, <2>4 DEF Before
<1>4. CASE ForwardPeriod
    <2>1. Forward /\ to = Away(curr, Length) /\ next = Away(request.start_date, total_length)
          /\ Stride = Length
        BY <1>4 DEF ForwardPeriod, Stride, Origin
    <2> HIDE DEF to, next
    <2>2. AddPeriod(curr, to, next, total_length + Stride)
        BY <1>2, <1>4, <2>1 DEF ForwardPeriod
    <2>3. Forward'
        BY <1>1, <2>1, SameRequest
    <2>4. QED
        BY <1>1, <1>2, <1>3, <2>1, <2>2, <2>3 DEF AddPeriod, From, To, to, next
<1>5. CASE BackwardPeriod
    <2>1. ~Forward /\ to = Away(curr, -Length) /\ next = Away(request.mat_date, total_length)
          /\ Stride = -Length /\ Length \in Int /\ total_length \in Int
        BY <1>5, RequestIsTyped DEF BackwardPeriod, Stride, Origin, Counted
    <2> HIDE DEF to, next
    <2>2. AddPeriod(to, curr, next, total_length - Length)
        BY <1>2, <1>5, <2>1 DEF BackwardPeriod
    <2>3. ~Forward'
        BY <1>1, <2>1, SameRequest
    <2>4. total_length - Length = total_length + Stride
        BY <2>1
    <2>5. QED
        BY <1>1, <1>2, <1>3, <2>1, <2>2, <2>3, <2>4 DEF AddPeriod, From, To, to, next
<1>6. QED
    BY <1>4, <1>5

LEMMA PeriodKeepsCounted ==
    ASSUME request \in Requests, Lists, Counted, ForwardPeriod \/ BackwardPeriod
    PROVE  Lists' /\ Counted'
<1> DEFINE to == Away(curr, Stride)
           next == Away(Origin, total_length)
<1>1. /\ request' = request /\ Inside(curr)
      /\ From' = Append(From, curr) /\ To' = Append(To, to)
      /\ curr' = next /\ total_length' = total_length + Stride
      /\ Sane(to) /\ At(to) = At(curr) + Pace
      /\ OnGrid(next) /\ At(next) = At(curr) + Pace
      /\ Meets(to, next) /\ Before(Origin, next)
    BY PeriodIsAdded
<1>2. to \in Int /\ next \in Int /\ curr \in Int
    BY <1>1 DEF Sane, OnGrid, Counted
<1>3. /\ Forward' = Forward /\ Origin' = Origin
      /\ Scale' = Scale /\ Stride' = Stride /\ Pace' = Pace
      /\ \A j : At(j)' = At(j) /\ Sane(j)' = Sane(j) /\ OnGrid(j)' = OnGrid(j)
                /\ Inside(j)' = Inside(j)
      /\ \A i, j : Meets(i, j)' = Meets(i, j) /\ Before(i, j)' = Before(i, j)
    BY <1>1, SameRequest
<1> HIDE DEF to, next
<1>4. From \in Seq(Int) /\ To \in Seq(Int) /\ Len(From) = Len(To)
    BY DEF From, To, Lists
<1>5. From' \in Seq(Int) /\ To' \in Seq(Int) /\ Len(From') = Len(To')
    BY <1>1, <1>2, <1>4
<1>6. Lists'
    BY <1>3, <1>5 DEF From, To, Lists
<1>7. Trail' = Append(Trail, next)
    BY <1>1 DEF Trail
<1> DEFINE n == Len(From)
<1>8. /\ Trail \in Seq(Int) /\ Len(Trail) = n + 1 /\ n \in Nat
      /\ Trail[n + 1] = curr
      /\ Len(From') = n + 1
      /\ Trail'[n + 2] = next
      /\ \A i \in 1 .. n + 1 : Trail'[i] = Trail[i]
      /\ \A i \in 1 .. n : To'[i] = To[i]
      /\ To'[n + 1] = to
    BY <1>1, <1>2, <1>4, <1>7 DEF Trail
<1> HIDE DEF n
<1>9. (Trail[1] = Origin)'
    BY <1>3, <1>8 DEF Counted
<1>10. OnGrid(curr)'
    BY <1>1, <1>3
<1>11. (At(Origin) + Scale * total_length = At(curr) + Pace)'
    <2>1. /\ Scale \in Int /\ Stride \in Int /\ total_length \in Int
          /\ Pace = Scale * Stride
        BY RequestIsTyped DEF Counted, Pace
    <2>2. At(Origin) \in Int
        BY OriginIsSane, AtIsOrdered DEF Counted
    <2>3. At(Origin) + Scale * total_length = At(curr) + Pace
        BY DEF Counted
    <2>4. Scale * (total_length + Stride) = Scale * total_length + Pace
        BY <2>1
    <2>5. Scale * total_length \in Int /\ Pace \in Int
        BY <2>1
    <2>6. At(Origin) + (Scale * total_length + Pace) = At(curr) + Pace + Pace
        BY <2>2, <2>3, <2>5
    <2>7. QED
        BY <1>1, <1>3, <2>4, <2>6
<1>12. ASSUME NEW i \in 1 .. Len(From')
       PROVE  (/\ OnGrid(Trail[i]) /\ Inside(Trail[i])
               /\ At(Trail[i + 1]) = At(Trail[i]) + Pace
               /\ Sane(To[i]) /\ At(To[i]) = At(Trail[i]) + Pace
               /\ Meets(To[i], Trail[i + 1]) /\ Before(Origin, Trail[i + 1]))'
    <2>1. CASE i = n + 1
        <3>1. Trail'[i] = curr /\ Trail'[i + 1] = next /\ To'[i] = to
            BY <1>8, <2>1
        <3>2. OnGrid(curr)
            BY DEF Counted
        <3>3. QED
            BY <1>1, <1>3, <3>1, <3>2
    <2>2. CASE i # n + 1
        <3>1. i \in 1 .. n /\ i + 1 \in 1 .. n + 1
            BY <1>8, <2>2
        <3>2. Trail'[i] = Trail[i] /\ Trail'[i + 1] = Trail[i + 1] /\ To'[i] = To[i]
            BY <1>8, <3>1
        <3>3. /\ OnGrid(Trail[i]) /\ Inside(Trail[i])
              /\ At(Trail[i + 1]) = At(Trail[i]) + Pace
              /\ Sane(To[i]) /\ At(To[i]) = At(Trail[i]) + Pace
              /\ Meets(To[i], Trail[i + 1]) /\ Before(Origin, Trail[i + 1])
            BY <3>1 DEF Counted, n
        <3>4. QED
            BY <1>3, <3>2, <3>3
    <2>3. QED
        BY <2>1, <2>2
<1>13. curr' \in Int /\ total_length' \in Int /\ request'.start_date =< request'.mat_date
    BY <1>1, <1>2, RequestIsTyped DEF Counted
<1>14. QED
    BY <1>6, <1>9, <1>10, <1>11, <1>12, <1>13 DEF Counted

LEMMA TrailIsOrdered ==
    ASSUME request \in Requests, Lists, Counted,
           NEW i \in 1 .. Len(From)
    PROVE  /\ From[i] \in Int /\ To[i] \in Int
           /\ Before(From[i], To[i])
           /\ Inside(From[i])
           /\ i < Len(From) =>
                /\ Before(From[i], From[i + 1]) /\ Before(To[i], To[i + 1])
                /\ Meets(To[i], From[i + 1]) /\ Before(Origin, From[i + 1])
           /\ i + 1 < Len(From) => Before(To[i], From[i + 2])
           /\ i = Len(From) => Meets(To[i], curr)
           /\ i = 1 => From[i] = Origin
<1> DEFINE n == Len(From)
<1>1. /\ From \in Seq(Int) /\ To \in Seq(Int) /\ Len(To) = n /\ n \in Nat
      /\ curr \in Int
    BY DEF From, To, Lists, Counted
<1>2. /\ \A k \in 1 .. n : Trail[k] = From[k] /\ From[k] \in Int /\ To[k] \in Int
      /\ Trail[n + 1] = curr
    BY <1>1 DEF Trail
<1>3. \A k \in 1 .. n :
           /\ OnGrid(From[k]) /\ Inside(From[k])
           /\ Sane(To[k]) /\ At(To[k]) = At(From[k]) + Pace
           /\ Meets(To[k], Trail[k + 1]) /\ Before(Origin, Trail[k + 1])
           /\ At(Trail[k + 1]) = At(From[k]) + Pace
    BY <1>2 DEF Counted, n
<1>4. Pace \in Int /\ (IF Forward THEN Pace > 0 ELSE Pace < 0)
    BY RequestIsTyped
<1>5. ASSUME NEW j, Sane(j), NEW k, Sane(k),
             IF Forward THEN At(j) < At(k) ELSE At(j) > At(k)
      PROVE  Before(j, k)
    BY <1>5, AtIsOrdered DEF Before
<1>6. \A k \in 1 .. n : Sane(From[k]) /\ Sane(To[k]) /\ At(From[k]) \in Int /\ At(To[k]) \in Int
    BY <1>3, AtIsOrdered DEF OnGrid
<1>7. i \in 1 .. n
    BY DEF n
<1> HIDE DEF n
<1>8. Before(From[i], To[i])
    BY <1>3, <1>4, <1>5, <1>6, <1>7
<1>9. ASSUME i < n
      PROVE  /\ Before(From[i], From[i + 1]) /\ Before(To[i], To[i + 1])
             /\ Meets(To[i], From[i + 1]) /\ Before(Origin, From[i + 1])
    <2>1. i + 1 \in 1 .. n /\ Trail[i + 1] = From[i + 1]
        BY <1>1, <1>2, <1>7, <1>9
    <2>2. /\ At(From[i + 1]) = At(From[i]) + Pace
          /\ At(To[i]) = At(From[i]) + Pace
          /\ At(To[i + 1]) = At(From[i + 1]) + Pace
          /\ Meets(To[i], From[i + 1]) /\ Before(Origin, From[i + 1])
        BY <1>3, <1>7, <2>1
    <2>3. /\ Sane(From[i]) /\ Sane(To[i]) /\ At(From[i]) \in Int
          /\ Sane(From[i + 1]) /\ Sane(To[i + 1])
        BY <1>6, <1>7, <2>1
    <2>4. Before(From[i], From[i + 1])
        BY <1>4, <1>5, <2>2, <2>3
    <2>5. Before(To[i], To[i + 1])
        BY <1>4, <1>5, <2>2, <2>3
    <2>6. QED
        BY <2>2, <2>4, <2>5
<1>10. ASSUME i + 1 < n
       PROVE  Before(To[i], From[i + 2])
    <2>1. /\ i + 1 \in 1 .. n /\ Trail[i + 1] = From[i + 1]
          /\ i + 2 \in 1 .. n /\ Trail[i + 2] = From[i + 2]
          /\ (i + 1) + 1 = i + 2
        BY <1>1, <1>2, <1>7, <1>10
    <2>2. /\ At(From[i + 2]) = At(From[i + 1]) + Pace
          /\ At(To[i]) = At(From[i]) + Pace
          /\ At(From[i + 1]) = At(From[i]) + Pace
        BY <1>3, <1>7, <2>1
    <2>3. /\ Sane(To[i]) /\ At(From[i]) \in Int /\ Sane(From[i + 2])
        BY <1>6, <1>7, <2>1
    <2>4. QED
        BY <1>4, <1>5, <2>2, <2>3
<1>11. /\ i = n => Meets(To[i], curr)
       /\ i = 1 => From[i] = Origin
       /\ Inside(From[i])
    BY <1>2, <1>3, <1>7 DEF Counted
<1>12. QED
    BY <1>2, <1>7, <1>8, <1>9, <1>10, <1>11 DEF n

\* The lists once they are sorted: what StubDateAdjustments is given.
GapsOf(s, e) ==
    \A i \in 1 .. Len(s) - 1 :
        LET gap == s[i + 1] - e[i] IN
        /\ Forward => gap \in 0 .. 3
        /\ ~Forward => gap \in -3 .. 0
        /\ Regular => gap = 0
Sorted ==
    /\ request.start_date =< request.mat_date
    /\ \A i \in 1 .. Len(starts) : starts[i] < ends[i]
    /\ Increasing(starts) /\ Increasing(ends)
    /\ GapsOf(starts, ends)
    /\ \A i \in 1 .. Len(starts) - 2 : ends[i] < starts[i + 2]
    /\ \A i \in 1 .. Len(starts) :
           IF Forward THEN starts[i] < request.mat_date ELSE ends[i] > request.start_date
    /\ \A i \in 1 .. Len(starts) - 1 :
           IF Forward THEN starts[i + 1] > request.start_date ELSE ends[i] < request.mat_date
    /\ starts = <<>> => request.start_date = request.mat_date
    /\ starts # <<>> /\ Forward =>
           /\ starts[1] = request.start_date
           /\ ends[Len(ends)] >= request.mat_date - 3
           /\ Regular => ends[Len(ends)] >= request.mat_date
    /\ starts # <<>> /\ ~Forward =>
           /\ starts[1] =< request.start_date
           /\ ends[Len(ends)] = request.mat_date

LEMMA ForwardIsSorted ==
    ASSUME request \in Requests, Lists, Counted, PeriodsDone, Forward
    PROVE  Lists' /\ Sorted'
<1>1. /\ request' = request /\ starts' = starts /\ ends' = ends
      /\ From = starts /\ To = ends /\ curr >= request.mat_date
      /\ request.start_date \in Int /\ request.mat_date \in Int /\ curr \in Int
      /\ request.start_date =< request.mat_date
    BY RequestIsTyped DEF PeriodsDone, From, To, Counted
<1>2. Lists'
    BY <1>1 DEF Lists
<1>3. Forward' /\ Regular' = Regular
    <2>1. Forward' = Forward
        BY <1>1 DEF Forward
    <2>2. QED
        BY <1>1, <2>1 DEF Regular, Anchor
<1> DEFINE n == Len(starts)
<1>4. n \in Nat /\ Len(ends) = n
    BY DEF Lists
<1>5. \A i \in 1 .. n :
          /\ starts[i] \in Int /\ ends[i] \in Int
          /\ starts[i] < ends[i] /\ starts[i] < request.mat_date
          /\ i < n => /\ starts[i] < starts[i + 1] /\ ends[i] < ends[i + 1]
                      /\ Meets(ends[i], starts[i + 1])
                      /\ starts[i + 1] > request.start_date
          /\ i + 1 < n => ends[i] < starts[i + 2]
          /\ i = n => Meets(ends[i], curr)
          /\ i = 1 => starts[i] = request.start_date
    <2>1. TAKE i \in 1 .. n
    <2>2. i \in 1 .. Len(From)
        BY <1>1
    <2>3. QED
        BY <1>1, <2>2, TrailIsOrdered DEF Before, Inside, Origin
<1> HIDE DEF n
<1>6. /\ \A i \in 1 .. n : starts[i] < ends[i] /\ starts[i] < request.mat_date
      /\ \A i \in 1 .. n - 1 : starts[i] < starts[i + 1] /\ ends[i] < ends[i + 1]
                               /\ starts[i + 1] > request.start_date
      /\ \A i \in 1 .. n - 2 : ends[i] < starts[i + 2]
    BY <1>4, <1>5
<1>7. GapsOf(starts, ends)
    <2>1. ASSUME NEW i \in 1 .. n - 1
          PROVE  /\ starts[i + 1] - ends[i] \in 0 .. 3
                 /\ Regular => starts[i + 1] - ends[i] = 0
        <3>1. i \in 1 .. n /\ i + 1 \in 1 .. n /\ i < n
            BY <1>4
        <3>2. QED
            BY <1>5, <3>1 DEF Meets
    <2>2. QED
        BY <2>1 DEF GapsOf, n
<1>8. starts = <<>> => request.start_date = request.mat_date
    <2>1. starts = <<>> => curr = request.start_date
        BY <1>1 DEF Counted, Trail, Origin
    <2>2. QED
        BY <1>1, <2>1
<1>9. starts # <<>> =>
           /\ starts[1] = request.start_date
           /\ ends[n] >= request.mat_date - 3
           /\ Regular => ends[n] >= request.mat_date
    <2>1. SUFFICES ASSUME starts # <<>>
                   PROVE  /\ starts[1] = request.start_date
                          /\ ends[n] >= request.mat_date - 3
                          /\ Regular => ends[n] >= request.mat_date
        OBVIOUS
    <2>2. n > 0 /\ 1 \in 1 .. n /\ n \in 1 .. n
        BY <1>4, <2>1 DEF n, Lists
    <2>3. ends[n] \in Int /\ Meets(ends[n], curr) /\ starts[1] = request.start_date
        BY <1>5, <2>2
    <2>4. QED
        BY <1>1, <2>3 DEF Meets
<1>10. Sorted
    BY <1>1, <1>4, <1>6, <1>7, <1>8, <1>9 DEF Sorted, Increasing, n
<1>11. GapsOf(starts, ends)'
    BY <1>1, <1>3, <1>7 DEF GapsOf
<1>12. QED
    BY <1>1, <1>2, <1>3, <1>10, <1>11 DEF Sorted, Increasing

LEMMA BackwardIsSorted ==
    ASSUME request \in Requests, Lists, Counted, PeriodsDone, ~Forward
    PROVE  Lists' /\ Sorted'
<1> DEFINE s == Reverse(starts)
           e == Reverse(ends)
           n == Len(starts)
<1>1. /\ request' = request /\ starts' = s /\ ends' = e
      /\ From = ends /\ To = starts /\ curr =< request.start_date
      /\ request.start_date \in Int /\ request.mat_date \in Int /\ curr \in Int
      /\ request.start_date =< request.mat_date
    BY RequestIsTyped DEF PeriodsDone, From, To, Counted
<1>2. n \in Nat /\ Len(ends) = n
    BY DEF Lists
<1>3. /\ s \in Seq(Int) /\ e \in Seq(Int) /\ Len(s) = n /\ Len(e) = n
      /\ \A i \in 1 .. n : s[i] = starts[n + 1 - i] /\ e[i] = ends[n + 1 - i]
    <2>1. /\ s = [i \in 1 .. n |-> starts[(n - i) + 1]]
          /\ e = [i \in 1 .. n |-> ends[(n - i) + 1]]
        BY <1>2 DEF Reverse
    <2>2. \A i \in 1 .. n : /\ starts[(n - i) + 1] \in Int /\ ends[(n - i) + 1] \in Int
                            /\ (n - i) + 1 = n + 1 - i
        BY <1>2 DEF Lists
    <2> HIDE DEF s, e, n
    <2>3. QED
        BY <1>2, <2>1, <2>2
<1>4. ~Forward' /\ Regular' = Regular
    <2>1. Forward' = Forward
        BY <1>1 DEF Forward
    <2>2. QED
        BY <1>1, <2>1 DEF Regular, Anchor
<1>5. \A i \in 1 .. n :
          /\ starts[i] \in Int /\ ends[i] \in Int
          /\ starts[i] < ends[i] /\ ends[i] > request.start_date
          /\ i < n => /\ starts[i] > starts[i + 1] /\ ends[i] > ends[i + 1]
                      /\ Meets(starts[i], ends[i + 1])
                      /\ ends[i + 1] < request.mat_date
          /\ i + 1 < n => starts[i] > ends[i + 2]
          /\ i = n => Meets(starts[i], curr)
          /\ i = 1 => ends[i] = request.mat_date
    <2>1. TAKE i \in 1 .. n
    <2>2. i \in 1 .. Len(From)
        BY <1>1, <1>2
    <2>3. QED
        BY <1>1, <1>2, <2>2, TrailIsOrdered DEF Before, Inside, Origin
<1> HIDE DEF s, e, n
<1>6. \A i \in 1 .. n : /\ s[i] \in Int /\ e[i] \in Int
                        /\ s[i] < e[i] /\ e[i] > request.start_date
    <2>1. \A i \in 1 .. n : n + 1 - i \in 1 .. n
        BY <1>2
    <2>2. QED
        BY <1>3, <1>5, <2>1
<1>7. ASSUME NEW i \in 1 .. n - 1
      PROVE  /\ s[i] < s[i + 1] /\ e[i] < e[i + 1]
             /\ e[i] < request.mat_date
             /\ s[i + 1] - e[i] \in -3 .. 0
             /\ Regular => s[i + 1] - e[i] = 0
    <2>1. /\ i \in 1 .. n /\ i + 1 \in 1 .. n /\ n - i \in 1 .. n /\ n - i < n
          /\ n + 1 - i = (n - i) + 1 /\ n + 1 - (i + 1) = n - i
          /\ (n - i) + 1 \in 1 .. n
        BY <1>2
    <2>2. /\ s[i] = starts[(n - i) + 1] /\ s[i + 1] = starts[n - i]
          /\ e[i] = ends[(n - i) + 1] /\ e[i + 1] = ends[n - i]
        BY <1>3, <2>1
    <2>3. /\ starts[n - i] > starts[(n - i) + 1] /\ ends[n - i] > ends[(n - i) + 1]
          /\ Meets(starts[n - i], ends[(n - i) + 1])
          /\ ends[(n - i) + 1] < request.mat_date
          /\ starts[n - i] \in Int /\ ends[(n - i) + 1] \in Int
          /\ starts[(n - i) + 1] \in Int /\ ends[n - i] \in Int
        BY <1>5, <2>1
    <2>4. QED
        BY <2>2, <2>3 DEF Meets
<1>8. ASSUME NEW i \in 1 .. n - 2
      PROVE  e[i] < s[i + 2]
    <2>1. /\ i \in 1 .. n /\ i + 2 \in 1 .. n
          /\ n + 1 - (i + 2) \in 1 .. n /\ (n + 1 - (i + 2)) + 1 < n
          /\ n + 1 - i = (n + 1 - (i + 2)) + 2
          /\ (n + 1 - (i + 2)) + 2 \in 1 .. n
        BY <1>2
    <2>2. starts[n + 1 - (i + 2)] > ends[(n + 1 - (i + 2)) + 2]
        BY <1>5, <2>1
    <2>3. /\ e[i] = ends[(n + 1 - (i + 2)) + 2] /\ s[i + 2] = starts[n + 1 - (i + 2)]
          /\ e[i] \in Int /\ s[i + 2] \in Int
        BY <1>3, <1>6, <2>1
    <2>4. QED
        BY <2>2, <2>3
<1>9. GapsOf(starts, ends)'
    BY <1>1, <1>3, <1>4, <1>7 DEF GapsOf
<1>10. s = <<>> => request.start_date = request.mat_date
    <2>1. s = <<>> => n = 0
        BY <1>3
    <2>2. n = 0 => ends = <<>>
        BY <1>2 DEF Lists
    <2>3. ends = <<>> => curr = request.mat_date
        BY <1>1 DEF Counted, Trail, Origin
    <2>4. QED
        BY <1>1, <2>1, <2>2, <2>3
<1>11. s # <<>> => s[1] =< request.start_date /\ e[n] = request.mat_date
    <2>1. SUFFICES ASSUME s # <<>>
                   PROVE  s[1] =< request.start_date /\ e[n] = request.mat_date
        OBVIOUS
    <2>2. n > 0 /\ 1 \in 1 .. n /\ n \in 1 .. n
        BY <1>2, <1>3, <2>1
    <2>3. s[1] = starts[n] /\ e[n] = ends[1]
        BY <1>2, <1>3, <2>2
    <2>4. starts[n] \in Int /\ Meets(starts[n], curr) /\ ends[1] = request.mat_date
        BY <1>5, <2>2
    <2>5. QED
        BY <1>1, <2>3, <2>4 DEF Meets
<1>12. Lists'
    BY <1>1, <1>3 DEF Lists
<1>13. QED
    BY <1>1, <1>3, <1>4, <1>6, <1>7, <1>8, <1>9, <1>10, <1>11, <1>12 DEF Sorted, Increasing

-----------------------------------------------------------------------------
(* The stubs *)

InTheirOrder ==
    /\ \A i \in 1 .. Len(starts) : starts[i] < ends[i]
    /\ Increasing(ends)
    /\ Regular \/ ~FrontStub \/ LongStub => Increasing(starts)

\* What the rows are made from: the lists after StubDateAdjustments.
Arranged ==
    /\ starts = <<>> => request.start_date = request.mat_date
    /\ GapsOf(starts, ends)
    /\ SensibleStubs => InTheirOrder
    /\ SensibleStubs /\ starts # <<>> => CoveredTerm

\* Nor do the options change during a call.
LEMMA SameOptions ==
    ASSUME request' = request
    PROVE  /\ Forward' = Forward /\ Regular' = Regular
           /\ FrontStub' = FrontStub /\ BackStub' = BackStub
           /\ LongStub' = LongStub /\ Swallowed' = Swallowed
           /\ SensibleStubs' = SensibleStubs
           /\ HasDayCounter' = HasDayCounter
<1>1. Forward' = Forward /\ SensibleStubs' = SensibleStubs /\ HasDayCounter' = HasDayCounter
    BY DEF Forward, SensibleStubs, HasDayCounter
<1>2. Regular' = Regular /\ FrontStub' = FrontStub /\ BackStub' = BackStub
    BY <1>1 DEF Regular, Anchor, FrontStub, BackStub
<1>3. LongStub' = LongStub
    BY <1>1, <1>2 DEF LongStub
<1>4. Swallowed' = Swallowed
    BY <1>3 DEF Swallowed
<1>5. QED
    BY <1>1, <1>2, <1>3, <1>4

LEMMA NoStubArranges ==
    ASSUME request \in Requests, Lists, Sorted, NoStub
    PROVE  Lists' /\ Arranged'
<1>1. /\ request' = request /\ starts' = starts /\ ends' = ends
      /\ ~FrontStub /\ ~BackStub
      /\ request.start_date \in Int /\ request.mat_date \in Int
    BY RequestIsTyped DEF NoStub
<1>2. InTheirOrder
    BY DEF Sorted, InTheirOrder
<1>3. ASSUME starts # <<>>
      PROVE  CoveredTerm
    <2> DEFINE n == Len(starts)
    <2>1. /\ n \in Nat /\ n > 0 /\ Len(ends) = n /\ 1 \in 1 .. n /\ n \in 1 .. n
          /\ \A i \in 1 .. n : starts[i] \in Int /\ ends[i] \in Int
        BY <1>3 DEF Lists
    <2> HIDE DEF n
    <2>2. /\ starts[1] =< request.start_date
          /\ Forward => starts[1] = request.start_date
        BY <1>1, <1>3, <2>1 DEF Sorted
    <2>3. /\ ends[n] >= request.mat_date - (IF Regular THEN 0 ELSE 3)
          /\ ~Forward => ends[n] = request.mat_date
        BY <1>1, <1>3, <2>1 DEF Sorted, n
    <2>4. ASSUME NEW i \in 1 .. n - 1
          PROVE  /\ ends[i] < request.mat_date
                 /\ Regular => starts[i + 1] > request.start_date
        <3>1. /\ i \in 1 .. n /\ i + 1 \in 1 .. n
              /\ starts[i + 1] \in Int /\ ends[i] \in Int
            BY <2>1
        <3>2. CASE Forward
            <4>1. /\ starts[i + 1] < request.mat_date /\ starts[i + 1] > request.start_date
                  /\ starts[i + 1] - ends[i] \in 0 .. 3
                BY <3>1, <3>2 DEF Sorted, GapsOf, n
            <4>2. QED
                BY <1>1, <3>1, <4>1
        <3>3. CASE ~Forward
            <4>1. /\ ends[i] < request.mat_date /\ ends[i] > request.start_date
                  /\ Regular => starts[i + 1] - ends[i] = 0
                BY <3>1, <3>3 DEF Sorted, GapsOf, n
            <4>2. QED
                BY <1>1, <3>1, <4>1
        <3>4. QED
            BY <3>2, <3>3
    <2>5. Regular => \A i \in 2 .. n : starts[i] > request.start_date
        <3>1. SUFFICES ASSUME Regular, NEW i \in 2 .. n
                       PROVE  starts[i] > request.start_date
            OBVIOUS
        <3>2. i - 1 \in 1 .. n - 1 /\ (i - 1) + 1 = i
            BY <2>1
        <3>3. starts[(i - 1) + 1] > request.start_date
            BY <2>4, <3>1, <3>2
        <3>4. QED
            BY <3>2, <3>3
    <2>6. QED
        BY <1>1, <2>1, <2>2, <2>3, <2>4, <2>5 DEF CoveredTerm, n
<1>4. Arranged
    BY <1>2, <1>3 DEF Arranged, Sorted
<1>5. Lists'
    BY <1>1 DEF Lists
<1>6. QED
    BY <1>1, <1>4, <1>5, SameOptions DEF Arranged, GapsOf, InTheirOrder, CoveredTerm, Increasing

LEMMA FrontArranges ==
    ASSUME request \in Requests, Lists, Sorted, ShortenFront
    PROVE  Lists' /\ Arranged' /\ starts' # <<>>
<1> DEFINE k == Swallowed
           m == Len(starts) - Swallowed
           front == ValueOr(request.front_stub_date, request.start_date)
<1>1. /\ request' = request /\ FrontStub /\ ~Forward /\ ~BackStub
      /\ Len(starts) > k
      /\ starts' = <<front>> \o SubSeq(starts, 2 + k, Len(starts))
      /\ ends' = SubSeq(ends, 1 + k, Len(ends))
    BY DEF ShortenFront, FrontStub, BackStub
<1>2. /\ request.start_date \in Int /\ request.mat_date \in Int /\ front \in Int
      /\ request.start_date =< request.mat_date
    BY RequestIsTyped DEF ValueOr, Sorted
<1>3. /\ k \in {0, 1} /\ m \in Nat /\ m > 0 /\ Len(starts) = m + k /\ Len(ends) = m + k
      /\ k = 1 <=> LongStub
      /\ \A i \in 1 .. m + k : starts[i] \in Int /\ ends[i] \in Int
    BY <1>1 DEF Lists, Swallowed
<1> HIDE DEF k, m, front
<1>4. /\ starts' \in Seq(Int) /\ Len(starts') = m
      /\ starts'[1] = front
      /\ \A i \in 1 .. m - 1 : starts'[i + 1] = starts[i + 1 + k]
    <2> DEFINE rest == SubSeq(starts, 2 + k, m + k)
    <2>1. starts \in Seq(Int) /\ 2 + k \in 1 .. m + k + 1
        BY <1>3 DEF Lists
    <2>2. /\ rest \in Seq(Int) /\ Len(rest) = m - 1
          /\ \A i \in 1 .. m - 1 : rest[i] = starts[i + 1 + k]
        BY <1>3, <2>1
    <2> HIDE DEF rest
    <2>3. starts' = <<front>> \o rest
        BY <1>1, <1>3 DEF rest
    <2>4. starts' \in Seq(Int) /\ Len(starts') = m /\ starts'[1] = front
        BY <1>2, <1>3, <2>2, <2>3
    <2>5. ASSUME NEW i \in 1 .. m - 1
          PROVE  starts'[i + 1] = starts[i + 1 + k]
        <3>1. i + 1 \in 1 .. m /\ (i + 1) - 1 = i /\ i \in Int
            BY <1>3
        <3>2. starts'[i + 1] = rest[(i + 1) - 1]
            BY <1>2, <2>2, <2>3, <3>1
        <3>3. QED
            BY <2>2, <3>1, <3>2
    <2>6. QED
        BY <2>4, <2>5
<1>5. /\ ends' \in Seq(Int) /\ Len(ends') = m
      /\ \A i \in 1 .. m : ends'[i] = ends[i + k]
    <2>1. ends \in Seq(Int) /\ 1 + k \in 1 .. m + k
        BY <1>3 DEF Lists
    <2>2. QED
        BY <1>1, <1>3, <2>1
<1>6. \A i \in 1 .. m + k : /\ starts[i] < ends[i]
                            /\ ends[i] > request.start_date
    BY <1>1, <1>3 DEF Sorted
<1>7. \A i \in 1 .. m + k - 1 :
          /\ starts[i] < starts[i + 1] /\ ends[i] < ends[i + 1]
          /\ ends[i] < request.mat_date
          /\ starts[i + 1] - ends[i] \in -3 .. 0
          /\ Regular => starts[i + 1] - ends[i] = 0
    <2> TAKE i \in 1 .. m + k - 1
    <2>1. i \in 1 .. Len(starts) - 1 /\ i \in 1 .. Len(ends) - 1
        BY <1>3
    <2>2. starts[i] < starts[i + 1] /\ ends[i] < ends[i + 1] /\ ends[i] < request.mat_date
        BY <1>1, <2>1 DEF Sorted, Increasing
    <2>3. /\ starts[i + 1] - ends[i] \in -3 .. 0
          /\ Regular => starts[i + 1] - ends[i] = 0
        BY <1>1, <2>1 DEF Sorted, GapsOf
    <2>4. QED
        BY <2>2, <2>3
<1>8. \A i \in 1 .. m + k - 2 : ends[i] < starts[i + 2]
    BY <1>3 DEF Sorted
<1>9. ends[m + k] = request.mat_date
    BY <1>1, <1>3 DEF Sorted
<1>10. \A i \in 1 .. m - 1 : /\ starts'[i + 1] - ends'[i] \in -3 .. 0
                             /\ Regular => starts'[i + 1] - ends'[i] = 0
    <2>1. TAKE i \in 1 .. m - 1
    <2>2. i + k \in 1 .. m + k - 1 /\ i \in 1 .. m /\ i + 1 + k = (i + k) + 1
        BY <1>3
    <2>3. starts'[i + 1] = starts[(i + k) + 1] /\ ends'[i] = ends[i + k]
        BY <1>4, <1>5, <2>2
    <2>4. QED
        BY <1>7, <2>2, <2>3
<1>11. \A i \in 1 .. m - 1 : Regular => starts'[i + 1] > request.start_date
    <2>1. SUFFICES ASSUME NEW i \in 1 .. m - 1, Regular
                   PROVE  starts'[i + 1] > request.start_date
        OBVIOUS
    <2>2. /\ i + k \in 1 .. m + k - 1 /\ i + k \in 1 .. m + k /\ (i + k) + 1 \in 1 .. m + k
          /\ starts'[i + 1] = starts[(i + k) + 1]
        BY <1>3, <1>4
    <2>3. /\ starts[(i + k) + 1] - ends[i + k] = 0 /\ ends[i + k] > request.start_date
          /\ starts[(i + k) + 1] \in Int /\ ends[i + k] \in Int
        BY <1>3, <1>6, <1>7, <2>1, <2>2
    <2>4. QED
        BY <1>2, <2>2, <2>3
<1>12. ASSUME SensibleStubs
       PROVE  front =< request.start_date
    BY <1>12 DEF SensibleStubs, front
<1>13. ASSUME SensibleStubs
       PROVE  \A i \in 1 .. m : starts'[i] < ends'[i]
    <2>1. SUFFICES ASSUME NEW i \in 1 .. m
                   PROVE  starts'[i] < ends'[i]
        OBVIOUS
    <2>2. i + k \in 1 .. m + k /\ ends'[i] = ends[i + k] /\ ends[i + k] \in Int
        BY <1>3, <1>5
    <2>3. CASE i = 1
        BY <1>2, <1>4, <1>6, <1>12, <1>13, <2>2, <2>3
    <2>4. CASE i # 1
        <3>1. i - 1 \in 1 .. m - 1 /\ (i - 1) + 1 = i /\ (i - 1) + 1 + k = i + k
            BY <1>3, <2>4
        <3>2. starts'[(i - 1) + 1] = starts[(i - 1) + 1 + k]
            BY <1>4, <3>1
        <3>3. QED
            BY <1>6, <2>2, <3>1, <3>2
    <2>5. QED
        BY <2>3, <2>4
<1>14. \A i \in 1 .. m - 1 : ends'[i] < ends'[i + 1] /\ ends'[i] < request.mat_date
    <2>1. TAKE i \in 1 .. m - 1
    <2>2. /\ i + k \in 1 .. m + k - 1 /\ i \in 1 .. m /\ i + 1 \in 1 .. m
          /\ (i + 1) + k = (i + k) + 1
        BY <1>3
    <2>3. ends'[i] = ends[i + k] /\ ends'[i + 1] = ends[(i + k) + 1]
        BY <1>5, <2>2
    <2>4. QED
        BY <1>7, <2>2, <2>3
<1>15. ASSUME SensibleStubs, Regular \/ LongStub
       PROVE  \A i \in 1 .. m - 1 : starts'[i] < starts'[i + 1]
    <2>1. SUFFICES ASSUME NEW i \in 1 .. m - 1
                   PROVE  starts'[i] < starts'[i + 1]
        OBVIOUS
    <2>2. CASE i # 1
        <3>1. /\ i - 1 \in 1 .. m - 1 /\ (i - 1) + 1 = i /\ (i - 1) + 1 + k = i + k
              /\ i + k \in 1 .. m + k - 1 /\ i + 1 + k = (i + k) + 1
            BY <1>3, <2>2
        <3>2. starts'[i] = starts[i + k] /\ starts'[i + 1] = starts[(i + k) + 1]
            BY <1>4, <3>1
        <3>3. QED
            BY <1>7, <3>1, <3>2
    <2>3. CASE i = 1 /\ Regular
        <3>1. starts'[1 + 1] > request.start_date
            BY <1>11, <2>3
        <3>2. 1 \in 1 .. m - 1 /\ 1 + 1 + k \in 1 .. m + k
            BY <1>3, <2>3
        <3>3. starts'[1 + 1] = starts[1 + 1 + k] /\ starts[1 + 1 + k] \in Int
            BY <1>3, <1>4, <3>2
        <3>4. QED
            BY <1>2, <1>4, <1>12, <1>15, <2>3, <3>1, <3>3
    <2>4. CASE i = 1 /\ LongStub
        <3>1. k = 1 /\ 1 \in 1 .. m + k /\ 3 \in 1 .. m + k /\ 1 \in 1 .. m + k - 2
            BY <1>3, <2>4
        <3>2. starts'[1 + 1] = starts[3]
            BY <1>4, <2>4, <3>1
        <3>3. /\ ends[1] < starts[1 + 2] /\ ends[1] > request.start_date
              /\ ends[1] \in Int /\ starts[3] \in Int
            BY <1>3, <1>6, <1>8, <3>1
        <3>4. QED
            BY <1>2, <1>4, <1>12, <1>15, <2>4, <3>2, <3>3
    <2>5. QED
        BY <1>15, <2>2, <2>3, <2>4
<1>16. ends'[m] = request.mat_date
    BY <1>3, <1>5, <1>9
<1>17. /\ Forward' = Forward /\ Regular' = Regular /\ FrontStub' = FrontStub
       /\ BackStub' = BackStub /\ LongStub' = LongStub /\ SensibleStubs' = SensibleStubs
    BY <1>1, SameOptions
<1>18. Lists' /\ starts' # <<>>
    BY <1>3, <1>4, <1>5 DEF Lists
<1>19. GapsOf(starts, ends)'
    BY <1>1, <1>4, <1>10, <1>17 DEF GapsOf
<1>20. SensibleStubs => InTheirOrder'
    BY <1>1, <1>4, <1>5, <1>13, <1>14, <1>15, <1>17 DEF InTheirOrder, Increasing
<1>21. SensibleStubs => CoveredTerm'
    <2>1. SUFFICES ASSUME SensibleStubs PROVE CoveredTerm'
        OBVIOUS
    <2>2. /\ starts'[1] = front /\ ends'[Len(ends')] = request.mat_date
          /\ front =< request.start_date
        BY <1>4, <1>5, <1>12, <1>16, <2>1
    <2>3. Regular => \A i \in 2 .. Len(starts') : starts'[i] > request.start_date
        <3>1. SUFFICES ASSUME Regular, NEW i \in 2 .. m
                       PROVE  starts'[i] > request.start_date
            BY <1>4
        <3>2. i - 1 \in 1 .. m - 1 /\ (i - 1) + 1 = i
            BY <1>3
        <3>3. starts'[(i - 1) + 1] > request.start_date
            BY <1>11, <3>1, <3>2
        <3>4. QED
            BY <3>2, <3>3
    <2>4. \A i \in 1 .. Len(ends') - 1 : ends'[i] < request.mat_date
        BY <1>5, <1>14
    <2>5. request.mat_date >= request.mat_date - (IF Regular THEN 0 ELSE 3)
        BY <1>2
    <2>6. QED
        BY <1>1, <1>17, <2>2, <2>3, <2>4, <2>5 DEF CoveredTerm, front
<1>22. QED
    BY <1>17, <1>18, <1>19, <1>20, <1>21 DEF Arranged

LEMMA BackArranges ==
    ASSUME request \in Requests, Lists, Sorted, ShortenBack
    PROVE  Lists' /\ Arranged' /\ starts' # <<>>
<1> DEFINE k == Swallowed
           m == Len(starts) - Swallowed
           back == ValueOr(request.back_stub_date, request.mat_date)
<1>1. /\ request' = request /\ BackStub /\ Forward /\ ~FrontStub
      /\ Len(starts) > k
      /\ starts' = SubSeq(starts, 1, m)
      /\ ends' = SubSeq(ends, 1, Len(ends) - k - 1) \o <<back>>
    BY DEF ShortenBack, FrontStub, BackStub
<1>2. /\ request.start_date \in Int /\ request.mat_date \in Int /\ back \in Int
      /\ request.start_date =< request.mat_date
    BY RequestIsTyped DEF ValueOr, Sorted
<1>3. /\ k \in {0, 1} /\ m \in Nat /\ m > 0 /\ Len(starts) = m + k /\ Len(ends) = m + k
      /\ \A i \in 1 .. m : starts[i] \in Int /\ ends[i] \in Int
    BY <1>1 DEF Lists, Swallowed
<1> HIDE DEF k, m, back
<1>4. /\ starts' \in Seq(Int) /\ Len(starts') = m
      /\ \A i \in 1 .. m : starts'[i] = starts[i]
    <2>1. starts \in Seq(Int)
        BY DEF Lists
    <2>2. QED
        BY <1>1, <1>3, <2>1
<1>5. /\ ends' \in Seq(Int) /\ Len(ends') = m /\ ends'[m] = back
      /\ \A i \in 1 .. m - 1 : ends'[i] = ends[i]
    <2> DEFINE rest == SubSeq(ends, 1, m - 1)
    <2>1. ends \in Seq(Int) /\ Len(ends) - k - 1 = m - 1
        BY <1>3 DEF Lists
    <2>2. /\ rest \in Seq(Int) /\ Len(rest) = m - 1
          /\ \A i \in 1 .. m - 1 : rest[i] = ends[i]
        BY <1>3, <2>1
    <2> HIDE DEF rest
    <2>3. ends' = rest \o <<back>>
        BY <1>1, <2>1 DEF rest
    <2>4. ends' \in Seq(Int) /\ Len(ends') = m
        BY <1>2, <1>3, <2>2, <2>3
    <2>5. ends'[m] = back
        <3>1. (m - 1) + 1 = m /\ m \in 1 .. m /\ m > Len(rest)
            BY <1>3, <2>2
        <3>2. QED
            BY <1>2, <1>3, <2>2, <2>3, <3>1
    <2>6. ASSUME NEW i \in 1 .. m - 1
          PROVE  ends'[i] = ends[i]
        <3>1. i \in 1 .. m /\ i =< Len(rest)
            BY <1>3, <2>2
        <3>2. QED
            BY <1>2, <1>3, <2>2, <2>3, <3>1
    <2>7. QED
        BY <2>4, <2>5, <2>6
<1>6. \A i \in 1 .. m : starts[i] < ends[i] /\ starts[i] < request.mat_date
    BY <1>1, <1>3 DEF Sorted
<1>7. \A i \in 1 .. m - 1 :
          /\ starts[i] < starts[i + 1] /\ ends[i] < ends[i + 1]
          /\ starts[i + 1] > request.start_date
          /\ starts[i + 1] - ends[i] \in 0 .. 3
          /\ Regular => starts[i + 1] - ends[i] = 0
    <2> TAKE i \in 1 .. m - 1
    <2>1. i \in 1 .. Len(starts) - 1 /\ i \in 1 .. Len(ends) - 1
        BY <1>3
    <2>2. /\ starts[i] < starts[i + 1] /\ ends[i] < ends[i + 1]
          /\ starts[i + 1] > request.start_date
        BY <1>1, <2>1 DEF Sorted, Increasing
    <2>3. /\ starts[i + 1] - ends[i] \in 0 .. 3
          /\ Regular => starts[i + 1] - ends[i] = 0
        BY <1>1, <2>1 DEF Sorted, GapsOf
    <2>4. QED
        BY <2>2, <2>3
<1>8. starts[1] = request.start_date
    <2>1. starts # <<>>
        BY <1>3
    <2>2. QED
        BY <1>1, <2>1 DEF Sorted
<1>9. ASSUME NEW i \in 1 .. m - 1
      PROVE  /\ starts'[i] = starts[i] /\ starts'[i + 1] = starts[i + 1] /\ ends'[i] = ends[i]
             /\ starts[i + 1] < request.mat_date /\ ends[i] < request.mat_date
             /\ ends[i] \in Int
    <2>1. i \in 1 .. m /\ i + 1 \in 1 .. m
        BY <1>3
    <2>2. /\ starts'[i] = starts[i] /\ starts'[i + 1] = starts[i + 1] /\ ends'[i] = ends[i]
          /\ starts[i + 1] < request.mat_date
        BY <1>4, <1>5, <1>6, <2>1
    <2>3. starts[i + 1] - ends[i] \in 0 .. 3 /\ starts[i + 1] \in Int /\ ends[i] \in Int
        BY <1>3, <1>7, <2>1
    <2>4. QED
        BY <1>2, <2>2, <2>3
<1>10. ASSUME SensibleStubs
       PROVE  request.mat_date =< back
    BY <1>2, <1>10 DEF SensibleStubs, back
<1>11. ASSUME SensibleStubs
       PROVE  \A i \in 1 .. m : starts'[i] < ends'[i]
    <2>1. SUFFICES ASSUME NEW i \in 1 .. m
                   PROVE  starts'[i] < ends'[i]
        OBVIOUS
    <2>2. starts'[i] = starts[i] /\ starts[i] < ends[i] /\ starts[i] < request.mat_date
          /\ starts[i] \in Int
        BY <1>3, <1>4, <1>6
    <2>3. CASE i = m
        BY <1>2, <1>5, <1>10, <1>11, <2>2, <2>3
    <2>4. CASE i # m
        <3>1. i \in 1 .. m - 1
            BY <1>3, <2>4
        <3>2. QED
            BY <1>9, <2>2, <3>1
    <2>5. QED
        BY <2>3, <2>4
<1>12. ASSUME SensibleStubs
       PROVE  \A i \in 1 .. m - 1 : ends'[i] < ends'[i + 1]
    <2>1. SUFFICES ASSUME NEW i \in 1 .. m - 1
                   PROVE  ends'[i] < ends'[i + 1]
        OBVIOUS
    <2>2. ends'[i] = ends[i] /\ ends[i] < request.mat_date /\ ends[i] \in Int
        BY <1>9
    <2>3. CASE i + 1 = m
        BY <1>2, <1>5, <1>10, <1>12, <2>2, <2>3
    <2>4. CASE i + 1 # m
        <3>1. i + 1 \in 1 .. m - 1
            BY <1>3, <2>4
        <3>2. ends'[i + 1] = ends[i + 1]
            BY <1>9, <3>1
        <3>3. QED
            BY <1>7, <2>2, <3>2
    <2>5. QED
        BY <2>3, <2>4
<1>13. /\ Forward' = Forward /\ Regular' = Regular /\ FrontStub' = FrontStub
       /\ BackStub' = BackStub /\ LongStub' = LongStub /\ SensibleStubs' = SensibleStubs
    BY <1>1, SameOptions
<1>14. Lists' /\ starts' # <<>>
    BY <1>3, <1>4, <1>5 DEF Lists
<1>15. GapsOf(starts, ends)'
    <2>1. \A i \in 1 .. m - 1 : /\ starts'[i + 1] - ends'[i] \in 0 .. 3
                                /\ Regular => starts'[i + 1] - ends'[i] = 0
        BY <1>7, <1>9
    <2>2. QED
        BY <1>1, <1>4, <1>13, <2>1 DEF GapsOf
<1>16. SensibleStubs => InTheirOrder'
    <2>1. \A i \in 1 .. m - 1 : starts'[i] < starts'[i + 1]
        BY <1>7, <1>9
    <2>2. QED
        BY <1>4, <1>5, <1>11, <1>12, <1>13, <2>1 DEF InTheirOrder, Increasing
<1>17. SensibleStubs => CoveredTerm'
    <2>1. SUFFICES ASSUME SensibleStubs PROVE CoveredTerm'
        OBVIOUS
    <2>2. /\ starts'[1] = request.start_date /\ ends'[Len(ends')] = back
          /\ back >= request.mat_date
        BY <1>2, <1>3, <1>4, <1>5, <1>8, <1>10, <2>1
    <2>3. \A i \in 2 .. Len(starts') : starts'[i] > request.start_date
        <3>1. SUFFICES ASSUME NEW i \in 2 .. m
                       PROVE  starts'[i] > request.start_date
            BY <1>4
        <3>2. i - 1 \in 1 .. m - 1 /\ (i - 1) + 1 = i
            BY <1>3
        <3>3. starts'[(i - 1) + 1] > request.start_date
            BY <1>7, <1>9, <3>2
        <3>4. QED
            BY <3>2, <3>3
    <2>4. \A i \in 1 .. Len(ends') - 1 : ends'[i] < request.mat_date
        BY <1>5, <1>9
    <2>5. back >= request.mat_date - (IF Regular THEN 0 ELSE 3)
        BY <1>2, <2>2
    <2>6. /\ starts'[1] =< request'.start_date /\ starts'[1] = request'.start_date
          /\ Forward' /\ ~FrontStub'
        <3>1. request.start_date =< request.start_date
            BY <1>2
        <3>2. QED
            BY <1>1, <1>13, <2>2, <3>1
    <2>7. ends'[Len(ends')] >= request'.mat_date - (IF Regular' THEN 0 ELSE 3)
        BY <1>1, <1>13, <2>2, <2>5
    <2>8. ends'[Len(ends')] = ValueOr(request'.back_stub_date, request'.mat_date)
        BY <1>1, <2>2 DEF back
    <2>9. QED
        BY <1>1, <2>3, <2>4, <2>6, <2>7, <2>8 DEF CoveredTerm
<1>18. QED
    BY <1>13, <1>14, <1>15, <1>16, <1>17 DEF Arranged

-----------------------------------------------------------------------------
(* The schedule *)

\* A row made of one of the periods.
Rows == {Adjusted(i) : i \in 1 .. Len(starts)}

\* What holds at each stage of a call.
ScheduleInv ==
    /\ request \in Requests
    /\ Lists
    /\ stage \in {"idle", "periods", "stubs", "rows", "done", "thrown", "undefined"}
    /\ stage \in {"idle", "periods", "stubs"} => cashflows = <<>>
    /\ stage = "idle" => starts = <<>> /\ ends = <<>>
    /\ stage = "periods" => Counted
    /\ stage = "stubs" => Sorted
    /\ stage \in {"rows", "done"} => Arranged
    /\ stage = "rows" => cashflows \in Seq(Rows) /\ Len(cashflows) =< Len(starts)
    /\ UndefinedOnlyThen

LEMMA CallStarts ==
    ASSUME ScheduleInv, CreateFixedCashflows
    PROVE  ScheduleInv'
<1>1. /\ request' = request /\ starts' = <<>> /\ ends' = <<>> /\ cashflows' = <<>>
      /\ request \in Requests
      /\ request.start_date \in Int /\ request.mat_date \in Int
    BY RequestIsTyped DEF ScheduleInv, CreateFixedCashflows
<1>2. Lists'
    BY <1>1 DEF Lists
<1>3. CASE request.start_date > request.mat_date
    <2>1. stage' = "thrown"
        BY <1>3 DEF CreateFixedCashflows
    <2>2. QED
        BY <1>1, <1>2, <2>1 DEF ScheduleInv, UndefinedOnlyThen
<1>4. CASE ~(request.start_date > request.mat_date)
    <2>1. /\ stage' = "periods" /\ curr' = Origin /\ total_length' = Stride
          /\ request.start_date =< request.mat_date
        BY <1>1, <1>4 DEF CreateFixedCashflows, Origin, Stride
    <2>2. /\ Sane(Origin) /\ OnGrid(Origin) /\ Origin \in Int /\ Stride \in Int
        BY <1>1, <2>1, OriginIsSane, RequestIsTyped DEF Sane
    <2>3. /\ Forward' = Forward /\ Origin' = Origin
          /\ Scale' = Scale /\ Stride' = Stride /\ Pace' = Pace
          /\ \A j : At(j)' = At(j) /\ OnGrid(j)' = OnGrid(j)
        BY <1>1, SameRequest
    <2>4. From' = <<>>
        BY <1>1 DEF From
    <2>5. Trail' = <<Origin>>
        BY <2>1, <2>4 DEF Trail
    <2>6. OnGrid(curr)' /\ (Trail[1] = Origin)'
        BY <2>1, <2>2, <2>3, <2>5
    <2>7. (At(Origin) + Scale * total_length = At(curr) + Pace)'
        BY <2>1, <2>3 DEF Pace
    <2>8. Len(From') = 0
        BY <2>4
    <2>9. curr' \in Int /\ total_length' \in Int /\ request'.start_date =< request'.mat_date
        BY <1>1, <2>1, <2>2
    <2>10. Counted'
        BY <2>6, <2>7, <2>8, <2>9 DEF Counted
    <2>11. QED
        BY <1>1, <1>2, <2>1, <2>10 DEF ScheduleInv, UndefinedOnlyThen
<1>5. QED
    BY <1>3, <1>4

LEMMA PeriodsAreMade ==
    ASSUME ScheduleInv, ForwardPeriod \/ BackwardPeriod
    PROVE  ScheduleInv'
<1>1. /\ request \in Requests /\ Lists /\ Counted
      /\ cashflows = <<>>
    BY DEF ScheduleInv, ForwardPeriod, BackwardPeriod
<1>2. /\ request' = request /\ stage' = "periods" /\ cashflows' = cashflows
    BY <1>1, PeriodIsAdded
<1>3. Lists' /\ Counted'
    BY <1>1, PeriodKeepsCounted
<1>4. QED
    BY <1>1, <1>2, <1>3 DEF ScheduleInv, UndefinedOnlyThen

LEMMA PeriodsAreSorted ==
    ASSUME ScheduleInv, PeriodsDone
    PROVE  ScheduleInv'
<1>1. /\ request \in Requests /\ Lists /\ Counted /\ cashflows = <<>>
      /\ request' = request /\ stage' = "stubs" /\ cashflows' = cashflows
    BY DEF ScheduleInv, PeriodsDone
<1>2. Lists' /\ Sorted'
    BY <1>1, ForwardIsSorted, BackwardIsSorted
<1>3. QED
    BY <1>1, <1>2 DEF ScheduleInv, UndefinedOnlyThen

LEMMA StubsAreMade ==
    ASSUME ScheduleInv, NoPeriodLeft \/ ShortenFront \/ ShortenBack \/ NoStub
    PROVE  ScheduleInv'
<1>1. /\ request \in Requests /\ Lists /\ Sorted /\ cashflows = <<>>
      /\ request' = request /\ cashflows' = cashflows
    BY DEF ScheduleInv, NoPeriodLeft, ShortenFront, ShortenBack, NoStub
<1>2. CASE NoPeriodLeft
    <2>1. /\ stage' = "undefined" /\ starts' = starts /\ ends' = ends
          /\ Len(starts) =< Swallowed /\ (Swallowed = 0 \/ Swallowed = 1) /\ Len(starts) \in Nat
        BY <1>1, <1>2 DEF NoPeriodLeft, Swallowed, Lists
    <2>2. request.start_date = request.mat_date \/ (Swallowed = 1 /\ Len(starts) = 1)
        <3>1. CASE Len(starts) = 0
            <4>1. starts = <<>>
                BY <1>1, <3>1 DEF Lists
            <4>2. QED
                BY <1>1, <4>1 DEF Sorted
        <3>2. CASE Len(starts) # 0
            <4> DEFINE n == Len(starts)
            <4>1. n \in Nat /\ n # 0 /\ n =< Swallowed /\ (Swallowed = 0 \/ Swallowed = 1)
                BY <2>1, <3>2
            <4> HIDE DEF n
            <4>2. Swallowed = 1 /\ n = 1
                BY <4>1
            <4>3. QED
                BY <4>2 DEF n
        <3>3. QED
            BY <3>1, <3>2
    <2>3. UndefinedOnlyThen'
        BY <1>1, <2>1, <2>2, SameOptions DEF UndefinedOnlyThen
    <2>4. QED
        BY <1>1, <2>1, <2>3 DEF ScheduleInv, Lists
<1>3. CASE ShortenFront \/ ShortenBack \/ NoStub
    <2>1. Lists' /\ Arranged'
        BY <1>1, <1>3, FrontArranges, BackArranges, NoStubArranges
    <2>2. stage' = "rows"
        BY <1>3 DEF ShortenFront, ShortenBack, NoStub
    <2>3. cashflows' \in Seq(Rows') /\ Len(cashflows') =< Len(starts')
        BY <1>1, <2>1 DEF Lists
    <2>4. QED
        BY <1>1, <2>1, <2>2, <2>3 DEF ScheduleInv, UndefinedOnlyThen
<1>4. QED
    BY <1>2, <1>3

LEMMA RowsAreMade ==
    ASSUME ScheduleInv, AddRow \/ AddPrincipal
    PROVE  ScheduleInv'
<1>1. /\ request \in Requests /\ Lists /\ Arranged
      /\ cashflows \in Seq(Rows) /\ Len(cashflows) \in Nat /\ Len(starts) \in Nat
      /\ Len(cashflows) =< Len(starts)
      /\ request' = request /\ starts' = starts /\ ends' = ends
    BY DEF ScheduleInv, AddRow, AddPrincipal, Lists
<1>2. Lists' /\ HasDayCounter' = HasDayCounter
    BY <1>1, SameOptions DEF Lists
<1>3. Arranged'
    BY <1>1, SameOptions DEF Arranged, GapsOf, InTheirOrder, CoveredTerm, Increasing
<1>4. Rows' = Rows
    BY <1>1 DEF Rows, Adjusted, Adjust
<1>5. CASE AddRow
    <2>1. CASE ~HasDayCounter
        <3>1. stage' = "undefined"
            BY <1>5, <2>1 DEF AddRow
        <3>2. UndefinedOnlyThen'
            BY <1>2, <2>1, <3>1 DEF UndefinedOnlyThen
        <3>3. QED
            BY <1>1, <1>2, <3>1, <3>2 DEF ScheduleInv
    <2>2. CASE HasDayCounter /\ request.calc_type = "kCompounding"
        <3>1. stage' = "thrown"
            BY <1>5, <2>2 DEF AddRow
        <3>2. QED
            BY <1>1, <1>2, <3>1 DEF ScheduleInv, UndefinedOnlyThen
    <2>3. CASE HasDayCounter /\ request.calc_type # "kCompounding"
        <3>1. /\ stage' = "rows" /\ Len(cashflows) < Len(starts)
              /\ cashflows' = Append(cashflows, Adjusted(Len(cashflows) + 1))
            BY <1>5, <2>3 DEF AddRow
        <3>2. Adjusted(Len(cashflows) + 1) \in Rows
            <4>1. Len(cashflows) + 1 \in 1 .. Len(starts)
                BY <1>1, <3>1
            <4>2. QED
                BY <4>1 DEF Rows
        <3>3. cashflows' \in Seq(Rows) /\ Len(cashflows') = Len(cashflows) + 1
            BY <1>1, <3>1, <3>2
        <3>4. cashflows' \in Seq(Rows') /\ Len(cashflows') =< Len(starts')
            BY <1>1, <1>4, <3>1, <3>3
        <3>5. QED
            BY <1>1, <1>2, <1>3, <3>1, <3>4 DEF ScheduleInv, UndefinedOnlyThen
    <2>4. QED
        BY <2>1, <2>2, <2>3
<1>6. CASE AddPrincipal
    <2> DEFINE n == Len(cashflows)
               principal == [cashflows[n] EXCEPT !.cf_type = "kPrincipal"]
    <2>1. n = Len(starts)
        BY <1>6 DEF AddPrincipal
    <2>2. CASE cashflows = <<>>
        <3>1. stage' = "undefined"
            BY <1>6, <2>2 DEF AddPrincipal
        <3>2. starts = <<>>
            <4>1. Len(starts) = 0
                BY <2>1, <2>2
            <4>2. QED
                BY <1>1, <4>1 DEF Lists
        <3>3. request.start_date = request.mat_date
            BY <1>1, <3>2 DEF Arranged
        <3>4. UndefinedOnlyThen'
            BY <1>1, <3>1, <3>3 DEF UndefinedOnlyThen
        <3>5. QED
            BY <1>1, <1>2, <3>1, <3>4 DEF ScheduleInv
    <2>3. CASE cashflows # <<>>
        <3>1. stage' = "done" /\ cashflows' = Append(cashflows, principal)
            BY <1>6, <2>3 DEF AddPrincipal
        <3>2. n > 0 /\ n \in 1 .. n /\ cashflows[n] \in Rows
            BY <1>1, <2>3
        <3>3. principal.payment_date = cashflows[n].payment_date
            <4>1. PICK i \in 1 .. Len(starts) : cashflows[n] = Adjusted(i)
                BY <3>2 DEF Rows
            <4>2. QED
                BY <4>1 DEF Adjusted
        <3> HIDE DEF principal
        <3>4. /\ Len(cashflows') = n + 1
              /\ cashflows'[n + 1] = principal /\ cashflows'[n] = cashflows[n]
            BY <1>1, <3>1, <3>2
        <3>5. UndefinedOnlyThen'
            BY <1>1, <2>1, <3>1, <3>2, <3>3, <3>4 DEF UndefinedOnlyThen
        <3>6. QED
            BY <1>1, <1>2, <1>3, <3>1, <3>5 DEF ScheduleInv
    <2>4. QED
        BY <2>2, <2>3
<1>7. QED
    BY <1>5, <1>6

\* The stages of a call follow from each other: from the loop invariant over the
\* sorted lists and the stubs to the rows.
THEOREM ScheduleInvariance == ScheduleSpec => []ScheduleInv
<1>1. ScheduleInit => ScheduleInv
    BY DEF ScheduleInit, ScheduleInv, Lists, UndefinedOnlyThen
<1>2. ASSUME ScheduleInv, [ScheduleNext]_scheduleVars
      PROVE  ScheduleInv'
    <2>1. CASE CreateFixedCashflows
        BY <1>2, <2>1, CallStarts
    <2>2. CASE ForwardPeriod \/ BackwardPeriod
        BY <1>2, <2>2, PeriodsAreMade
    <2>3. CASE PeriodsDone
        BY <1>2, <2>3, PeriodsAreSorted
    <2>4. CASE NoPeriodLeft \/ ShortenFront \/ ShortenBack \/ NoStub
        BY <1>2, <2>4, StubsAreMade
    <2>5. CASE AddRow \/ AddPrincipal
        BY <1>2, <2>5, RowsAreMade
    <2>6. CASE UNCHANGED scheduleVars
        <3>1. /\ request' = request /\ stage' = stage /\ curr' = curr
              /\ total_length' = total_length /\ starts' = starts /\ ends' = ends
              /\ cashflows' = cashflows
            BY <2>6 DEF scheduleVars
        <3>2. /\ Lists' = Lists /\ Sorted' = Sorted /\ Arranged' = Arranged
              /\ UndefinedOnlyThen' = UndefinedOnlyThen
            BY <3>1, SameOptions
               DEF Lists, Sorted, Arranged, GapsOf, InTheirOrder, CoveredTerm, Increasing,
                   UndefinedOnlyThen
        <3>3. Counted' = Counted
            <4>1. From' = From /\ To' = To
                BY <3>1, SameOptions DEF From, To
            <4>2. Trail' = Trail
                BY <3>1, <4>1 DEF Trail
            <4>3. QED
                BY <3>1, <4>1, <4>2, SameRequest DEF Counted
        <3>4. Rows' = Rows
            BY <3>1 DEF Rows, Adjusted, Adjust
        <3>5. QED
            BY <1>2, <3>1, <3>2, <3>3, <3>4 DEF ScheduleInv
    <2>7. QED
        BY <1>2, <2>1, <2>2, <2>3, <2>4, <2>5, <2>6 DEF ScheduleNext, Returned
<1>3. QED
    BY <1>1, <1>2, PTL DEF ScheduleSpec

\* The order of the periods (cashflow_gen.cpp:224-256), for every term of dates.
THEOREM PeriodsInOrder == ScheduleSpec => []Chronological
<1>1. ScheduleInv => Chronological
    <2>1. Sorted => InTheirOrder
        BY DEF Sorted, InTheirOrder
    <2>2. QED
        BY <2>1 DEF ScheduleInv, Arranged, InTheirOrder, Chronological
<1>2. QED
    BY <1>1, ScheduleInvariance, PTL

\* Where a schedule begins and ends (cashflow_gen.cpp:299-358 with its callers).
THEOREM TermIsCovered == ScheduleSpec => []CoversTheTerm
<1>1. ScheduleInv => CoversTheTerm
    <2>1. ASSUME ScheduleInv, stage = "done"
          PROVE  starts # <<>>
        BY <2>1 DEF ScheduleInv, UndefinedOnlyThen
    <2>2. QED
        BY <2>1 DEF ScheduleInv, Arranged, CoversTheTerm
<1>2. QED
    BY <1>1, ScheduleInvariance, PTL

\* How the end of a period and the start of the next differ.
THEOREM PeriodsDoMeet == ScheduleSpec => []PeriodsMeet
<1>1. ScheduleInv => PeriodsMeet
    BY DEF ScheduleInv, Sorted, Arranged, GapsOf, PeriodsMeet
<1>2. QED
    BY <1>1, ScheduleInvariance, PTL

\* When the calls on empty containers and the null pointer are reached.
THEOREM UndefinedIsBounded == ScheduleSpec => []UndefinedOnlyThen
<1>1. ScheduleInv => UndefinedOnlyThen
    BY DEF ScheduleInv
<1>2. QED
    BY <1>1, ScheduleInvariance, PTL

\* Both loops make progress, whatever the tenor and the dates; the second
\* conjunct of EveryStepCloser.
THEOREM StepsAreCloser == ScheduleSpec => [][Closer]_scheduleVars
<1>1. ASSUME ScheduleInv, [ScheduleNext]_scheduleVars
      PROVE  [Closer]_scheduleVars
    <2>1. CASE ForwardPeriod \/ BackwardPeriod
        <3>1. request \in Requests /\ Lists /\ Counted
            BY <1>1, <2>1 DEF ScheduleInv, ForwardPeriod, BackwardPeriod
        <3>2. /\ stage = "periods" /\ stage' = "periods" /\ request' = request
              /\ curr' = Away(Origin, total_length) /\ Sane(Away(Origin, total_length))
              /\ Before(curr, Away(Origin, total_length))
            BY <2>1, <3>1, PeriodIsAdded DEF OnGrid
        <3>3. /\ curr' \in Int /\ curr \in Int /\ Before(curr, curr')
              /\ request.start_date \in Int /\ request.mat_date \in Int
            BY <3>1, <3>2, RequestIsTyped DEF Sane, Counted
        <3>4. Forward' = Forward
            BY <3>2, SameOptions
        <3>5. Remaining' < Remaining
            BY <3>2, <3>3, <3>4 DEF Remaining, Before
        <3>6. QED
            BY <3>2, <3>5 DEF Closer
    <2>2. CASE AddRow
        <3>1. cashflows \in Seq(Rows)
            BY <1>1, <2>2 DEF ScheduleInv, AddRow
        <3>2. stage = "rows" /\ (stage' = "rows" => Len(cashflows') > Len(cashflows))
            <4>1. SUFFICES ASSUME stage' = "rows"
                           PROVE  Len(cashflows') > Len(cashflows)
                BY <2>2 DEF AddRow
            <4>2. cashflows' = Append(cashflows, Adjusted(Len(cashflows) + 1))
                BY <2>2, <4>1 DEF AddRow
            <4>3. QED
                BY <3>1, <4>2
        <3>3. QED
            BY <3>2 DEF Closer
    <2>3. CASE AddPrincipal \/ NoPeriodLeft \/ ShortenFront \/ ShortenBack \/ NoStub
               \/ PeriodsDone \/ CreateFixedCashflows
        BY <2>3 DEF AddPrincipal, NoPeriodLeft, ShortenFront, ShortenBack, NoStub,
                    PeriodsDone, CreateFixedCashflows, Closer
    <2>4. CASE UNCHANGED scheduleVars
        BY <2>4
    <2>5. QED
        BY <1>1, <2>1, <2>2, <2>3, <2>4 DEF ScheduleNext, Returned
<1>2. QED
    BY <1>1, ScheduleInvariance, PTL DEF ScheduleSpec

-----------------------------------------------------------------------------
(* The rows *)

\* A calendar's business days go on, so its walks end.
LEMMA CalendarsGoOn ==
    ASSUME NEW calendar \in Calendars
    PROVE  GoesOn(calendar)
BY RequestAssumption, OpensEitherWay

\* What BusinessDateFormula::Adjust does to a date: a number of days that is not
\* negative leads no further back, and the order of dates is kept.
LEMMA AdjustsDates ==
    ASSUME NEW formula \in Formula, NEW date \in Int
    PROVE  /\ Adjust(date, formula) \in Int
           /\ formula.days >= 0 => Adjust(date, formula) >= date
           /\ \A later \in Int : date =< later =>
                  Adjust(date, formula) =< Adjust(later, formula)
<1> DEFINE cal == formula.calendar
           days == formula.days
<1>1. days \in Int /\ cal \in Calendars \cup {NoCalendar}
    BY DEF Formula
<1>2. CASE cal = NoCalendar
    <2>1. \A d \in Int : Adjust(d, formula) = d + days
        BY <1>2 DEF Adjust, AddDays
    <2> HIDE DEF cal, days
    <2>2. QED
        BY <1>1, <2>1 DEF days
<1>3. CASE cal # NoCalendar /\ days >= 0
    <2>1. days \in Nat /\ 1 \in {-1, 1} /\ GoesOn(cal)
        BY <1>1, <1>3, CalendarsGoOn
    <2>2. \A d \in Int : Adjust(d, formula) = Walk(cal, 1)[<<d, days>>]
        BY <1>1, <1>3 DEF Adjust, AddBusinessDays
    <2> HIDE DEF cal
    <2>3. Walk(cal, 1)[<<date, days>>] \in Int /\ Walk(cal, 1)[<<date, days>>] >= date
        BY <2>1, WalkType
    <2>4. ASSUME NEW later \in Int, date =< later
          PROVE  Walk(cal, 1)[<<date, days>>] =< Walk(cal, 1)[<<later, days>>]
        BY <2>1, <2>4, WalkKeepsOrder
    <2>5. QED
        BY <2>2, <2>3, <2>4
<1>4. CASE cal # NoCalendar /\ days < 0
    <2>1. -days \in Nat /\ -1 \in {-1, 1} /\ GoesOn(cal)
        BY <1>1, <1>4, CalendarsGoOn
    <2>2. \A d \in Int : Adjust(d, formula) = Walk(cal, -1)[<<d, -days>>]
        BY <1>1, <1>4 DEF Adjust, AddBusinessDays
    <2> HIDE DEF cal
    <2>3. Walk(cal, -1)[<<date, -days>>] \in Int
        BY <2>1, WalkType
    <2>4. ASSUME NEW later \in Int, date =< later
          PROVE  Walk(cal, -1)[<<date, -days>>] =< Walk(cal, -1)[<<later, -days>>]
        BY <2>1, <2>4, WalkKeepsOrder
    <2>5. ~(days >= 0)
        BY <1>1, <1>4
    <2> HIDE DEF days
    <2>6. QED
        BY <2>2, <2>3, <2>4, <2>5 DEF days
<1>5. QED
    BY <1>1, <1>2, <1>3, <1>4

\* A period's row has dates, and its accrual lies as the period does.
LEMMA RowOfPeriod ==
    ASSUME request \in Requests, Lists, NEW i \in 1 .. Len(starts)
    PROVE  /\ Adjusted(i) \in Row
           /\ Adjusted(i).start_date = Adjust(starts[i], request.start_adjustment)
           /\ Adjusted(i).end_date = Adjust(ends[i], request.end_adjustment)
           /\ Adjusted(i).payment_date
                  = Adjust(Adjusted(i).end_date, request.pay_adjustment)
<1>1. /\ request.start_adjustment \in Formula /\ request.end_adjustment \in Formula
      /\ request.pay_adjustment \in Formula /\ request.fix_adjustment \in Formula
    BY RequestIsTyped DEF Request
<1>2. starts[i] \in Int /\ ends[i] \in Int
    BY DEF Lists
<1> DEFINE start == Adjust(starts[i], request.start_adjustment)
           end == Adjust(ends[i], request.end_adjustment)
           pay == Adjust(end, request.pay_adjustment)
           fixed(from) == Adjust(from, request.fix_adjustment)
<1>3. /\ start \in Int /\ end \in Int
    BY <1>1, <1>2, AdjustsDates
<1> HIDE DEF start, end
<1>4. pay \in Int /\ fixed(start) \in Int /\ fixed(end) \in Int
    BY <1>1, <1>3, AdjustsDates
<1> HIDE DEF pay, fixed
<1>5. Adjusted(i) =
          [unadj_start |-> starts[i], unadj_end |-> ends[i],
           start_date |-> start, end_date |-> end,
           fixing_date |-> IF request.fix_adjustment.days = 0 THEN start
                           ELSE fixed(IF request.reset_direction = "kAdvance" THEN start ELSE end),
           payment_date |-> pay, cf_type |-> "kFixed"]
    BY DEF Adjusted, start, end, pay, fixed
<1>6. Adjusted(i) \in Row
    BY <1>2, <1>3, <1>4, <1>5 DEF Row
<1>7. QED
    BY <1>5, <1>6 DEF start, end, pay

\* The rows there will be: one for each period, and the principal after them.
RowAt(i) == IF i =< Len(starts) THEN Adjusted(i)
            ELSE [Adjusted(Len(starts)) EXCEPT !.cf_type = "kPrincipal"]

\* The invariant of what is recorded: a row for every period that had its turn,
\* and then the principal; once there is one the periods stay as they are.
Recorded ==
    /\ curr \in Int /\ total_length \in Int
    /\ cashflows \in Seq(Row)
    /\ cashflows # <<>> => Arranged /\ Len(starts) > 0
    /\ Len(cashflows) =< Len(starts) + 1
    /\ \A i \in 1 .. Len(cashflows) : cashflows[i] = RowAt(i)

LEMMA SameRows ==
    ASSUME request' = request, starts' = starts, ends' = ends
    PROVE  /\ Arranged' = Arranged
           /\ \A i : RowAt(i)' = RowAt(i)
<1>1. Arranged' = Arranged
    BY SameOptions DEF Arranged, GapsOf, InTheirOrder, CoveredTerm, Increasing
<1>2. \A i : RowAt(i)' = RowAt(i)
    BY DEF RowAt, Adjusted, Adjust
<1>3. QED
    BY <1>1, <1>2

LEMMA RowsAreRecorded ==
    ASSUME ScheduleInv, Recorded, AddRow \/ AddPrincipal
    PROVE  Recorded'
<1> DEFINE n == Len(starts)
           m == Len(cashflows)
<1>1. /\ request \in Requests /\ Lists /\ Arranged /\ stage = "rows"
      /\ request' = request /\ starts' = starts /\ ends' = ends
      /\ curr' = curr /\ total_length' = total_length
    BY DEF ScheduleInv, AddRow, AddPrincipal
<1>2. n \in Nat /\ m \in Nat /\ cashflows \in Seq(Row)
    BY <1>1 DEF Lists, Recorded
<1>3. Arranged' /\ \A i : RowAt(i)' = RowAt(i)
    BY <1>1, SameRows
<1>4. CASE cashflows' = cashflows
    BY <1>1, <1>3, <1>4 DEF Recorded
<1>5. ASSUME NEW row \in Row, cashflows' = Append(cashflows, row), m =< n, n > 0,
             row = RowAt(m + 1)
      PROVE  Recorded'
    <2>1. /\ cashflows' \in Seq(Row) /\ Len(cashflows') = m + 1
          /\ cashflows'[m + 1] = row
          /\ \A i \in 1 .. m : cashflows'[i] = cashflows[i]
        BY <1>2, <1>5
    <2>2. \A i \in 1 .. m : cashflows[i] = RowAt(i)
        BY DEF Recorded
    <2> HIDE DEF n, m
    <2>3. \A i \in 1 .. m + 1 : cashflows'[i] = RowAt(i)
        <3>1. \A i \in 1 .. m + 1 : i \in 1 .. m \/ i = m + 1
            BY <1>2
        <3>2. QED
            BY <1>5, <2>1, <2>2, <3>1
    <2>4. Len(starts') = n /\ n > 0 /\ m + 1 =< n + 1
        BY <1>1, <1>2, <1>5 DEF n
    <2>5. curr' \in Int /\ total_length' \in Int
        BY <1>1 DEF Recorded
    <2>6. \A i \in 1 .. Len(cashflows') : cashflows'[i] = RowAt(i)'
        BY <1>3, <2>1, <2>3
    <2>7. QED
        BY <1>3, <2>1, <2>4, <2>5, <2>6 DEF Recorded
<1>6. CASE AddRow /\ cashflows' # cashflows
    <2>1. m < n /\ cashflows' = Append(cashflows, Adjusted(m + 1))
        BY <1>6 DEF AddRow
    <2>2. m + 1 \in 1 .. n /\ n > 0
        BY <1>2, <2>1
    <2>3. Adjusted(m + 1) \in Row
        BY <1>1, <2>2, RowOfPeriod
    <2>4. Adjusted(m + 1) = RowAt(m + 1)
        BY <2>2 DEF RowAt
    <2>5. QED
        BY <1>2, <1>5, <2>1, <2>2, <2>3, <2>4
<1>7. CASE AddPrincipal /\ cashflows' # cashflows
    <2>1. /\ m = n /\ cashflows # <<>>
          /\ cashflows' = Append(cashflows, [cashflows[m] EXCEPT !.cf_type = "kPrincipal"])
        BY <1>7 DEF AddPrincipal
    <2>2. m \in 1 .. n /\ n > 0 /\ m \in 1 .. m
        BY <1>2, <2>1
    <2>3. cashflows[m] = Adjusted(n) /\ Adjusted(n) \in Row
        BY <1>1, <2>1, <2>2, RowOfPeriod DEF Recorded, RowAt
    <2>4. [Adjusted(n) EXCEPT !.cf_type = "kPrincipal"] \in Row
        BY <2>3 DEF Row
    <2>5. [Adjusted(n) EXCEPT !.cf_type = "kPrincipal"] = RowAt(m + 1)
        BY <1>2, <2>1 DEF RowAt
    <2>6. QED
        BY <1>2, <1>5, <2>1, <2>2, <2>3, <2>4, <2>5
<1>8. QED
    BY <1>4, <1>6, <1>7

\* Rows are made of the periods, in their order (cashflow_gen.cpp:258-297).
THEOREM RowPerPeriod == ScheduleSpec => []Recorded
<1>1. ScheduleInit => Recorded
    BY DEF ScheduleInit, Recorded
<1>2. ASSUME ScheduleInv, Recorded, [ScheduleNext]_scheduleVars, ScheduleInv'
      PROVE  Recorded'
    <2>1. ASSUME cashflows = <<>>, cashflows' = <<>>, curr' \in Int, total_length' \in Int,
                 Lists'
          PROVE  Recorded'
        <3>1. Len(starts') \in Nat
            BY <2>1 DEF Lists
        <3>2. QED
            BY <2>1, <3>1 DEF Recorded
    <2>2. Lists' /\ curr \in Int /\ total_length \in Int
        BY <1>2 DEF ScheduleInv, Recorded
    <2>3. CASE CreateFixedCashflows \/ ForwardPeriod \/ BackwardPeriod
        <3>1. /\ cashflows = <<>> /\ cashflows' = <<>>
              /\ stage' # "periods" => curr' = curr /\ total_length' = total_length
            BY <1>2, <2>3
               DEF ScheduleInv, CreateFixedCashflows, ForwardPeriod, BackwardPeriod,
                   PeriodThrows, AddPeriod
        <3>2. stage' = "periods" => curr' \in Int /\ total_length' \in Int
            BY <1>2 DEF ScheduleInv, Counted
        <3>3. QED
            BY <2>1, <2>2, <3>1, <3>2
    <2>4. CASE PeriodsDone \/ NoPeriodLeft \/ ShortenFront \/ ShortenBack \/ NoStub
        <3>1. /\ cashflows = <<>> /\ cashflows' = <<>>
              /\ curr' = curr /\ total_length' = total_length
            BY <1>2, <2>4
               DEF ScheduleInv, PeriodsDone, NoPeriodLeft, ShortenFront, ShortenBack, NoStub
        <3>2. QED
            BY <2>1, <2>2, <3>1
    <2>5. CASE AddRow \/ AddPrincipal
        BY <1>2, <2>5, RowsAreRecorded
    <2>6. CASE UNCHANGED scheduleVars
        BY <1>2, <2>6, SameRows DEF scheduleVars, Recorded
    <2>7. QED
        BY <1>2, <2>3, <2>4, <2>5, <2>6 DEF ScheduleNext, Returned
<1>3. QED
    BY <1>1, <1>2, ScheduleInvariance, PTL DEF ScheduleSpec

\* Dates are numbers at every stage of a call, and what is returned has its rows.
THEOREM ScheduleTypes == ScheduleSpec => []ScheduleTypeOK
<1>1. ScheduleInv /\ Recorded => ScheduleTypeOK
    <2>1. ScheduleInv => request \in Request
        BY RequestAssumption DEF ScheduleInv
    <2>2. QED
        BY <2>1 DEF ScheduleInv, Lists, Recorded, ScheduleTypeOK
<1>2. QED
    BY <1>1, ScheduleInvariance, RowPerPeriod, PTL

\* A row takes its dates from a period, and the principal from the last one.
LEMMA RowsFollowPeriods ==
    ASSUME request \in Requests, Lists, Recorded, NEW i \in 1 .. Len(cashflows)
    PROVE  LET n == Len(starts)
               k == IF i =< n THEN i ELSE n
           IN  /\ n \in Nat /\ k \in 1 .. n /\ starts[k] \in Int /\ ends[k] \in Int
               /\ i \in Int /\ (i =< n \/ i = n + 1)
               /\ cashflows[i].start_date = Adjust(starts[k], request.start_adjustment)
               /\ cashflows[i].end_date = Adjust(ends[k], request.end_adjustment)
               /\ cashflows[i].payment_date
                      = Adjust(cashflows[i].end_date, request.pay_adjustment)
<1> DEFINE n == Len(starts)
           k == IF i =< n THEN i ELSE n
           m == Len(cashflows)
<1>1. n \in Nat /\ m \in Nat /\ m =< n + 1 /\ cashflows # <<>> /\ n > 0
    <2>1. n \in Nat /\ m \in Nat /\ m =< n + 1
        BY DEF Lists, Recorded
    <2>2. cashflows # <<>>
        OBVIOUS
    <2>3. QED
        BY <2>1, <2>2 DEF Recorded
<1>2. cashflows[i] = RowAt(i)
    BY DEF Recorded
<1>3. i \in 1 .. m
    OBVIOUS
<1> HIDE DEF m
<1>4. k \in 1 .. n /\ i \in Int /\ (i =< n \/ i = n + 1)
    BY <1>1, <1>3
<1>5. starts[k] \in Int /\ ends[k] \in Int
    <2> HIDE DEF k
    <2>1. QED
        BY <1>4 DEF Lists
<1>6. /\ Adjusted(k).start_date = Adjust(starts[k], request.start_adjustment)
      /\ Adjusted(k).end_date = Adjust(ends[k], request.end_adjustment)
      /\ Adjusted(k).payment_date = Adjust(Adjusted(k).end_date, request.pay_adjustment)
      /\ Adjusted(k) \in Row
    <2> HIDE DEF k
    <2>1. QED
        BY <1>4, RowOfPeriod
<1>7. /\ cashflows[i].start_date = Adjusted(k).start_date
      /\ cashflows[i].end_date = Adjusted(k).end_date
      /\ cashflows[i].payment_date = Adjusted(k).payment_date
    BY <1>2, <1>6 DEF RowAt, Row
<1>8. QED
    BY <1>1, <1>4, <1>5, <1>6, <1>7

\* Adjustment keeps accruals in order (business_date_formula.cpp:25-33 through
\* cashflow_gen.cpp:258-297), for every calendar whose business days go on.
THEOREM AccrualsKeepOrder == ScheduleSpec => []AccrualsInOrder
<1>1. ASSUME ScheduleInv, Recorded, SensibleStubs,
             request.start_adjustment = request.end_adjustment
      PROVE  /\ \A i \in 1 .. Len(cashflows) :
                    /\ cashflows[i].start_date =< cashflows[i].end_date
                    /\ request.pay_adjustment.days >= 0 =>
                           cashflows[i].payment_date >= cashflows[i].end_date
             /\ \A i \in 1 .. Len(cashflows) - 1 :
                    cashflows[i].end_date =< cashflows[i + 1].end_date
    <2> DEFINE n == Len(starts)
               f == request.end_adjustment
               pay == request.pay_adjustment
               k(i) == IF i =< n THEN i ELSE n
    <2>1. request \in Requests /\ Lists /\ f \in Formula /\ pay \in Formula
        BY <1>1, RequestIsTyped DEF ScheduleInv, Request
    <2>2. ASSUME NEW i \in 1 .. Len(cashflows)
          PROVE  /\ k(i) \in 1 .. n /\ n \in Nat /\ i \in Int /\ (i =< n \/ i = n + 1)
                 /\ starts[k(i)] \in Int /\ ends[k(i)] \in Int
                 /\ cashflows[i].start_date = Adjust(starts[k(i)], f)
                 /\ cashflows[i].end_date = Adjust(ends[k(i)], f)
                 /\ cashflows[i].payment_date = Adjust(cashflows[i].end_date, pay)
        BY <1>1, <2>1, RowsFollowPeriods
    <2>3. cashflows # <<>> => InTheirOrder
        BY <1>1 DEF Recorded, Arranged
    <2> HIDE DEF f, pay
    <2>4. ASSUME NEW i \in 1 .. Len(cashflows)
          PROVE  /\ cashflows[i].start_date =< cashflows[i].end_date
                 /\ pay.days >= 0 => cashflows[i].payment_date >= cashflows[i].end_date
        <3>1. cashflows # <<>>
            OBVIOUS
        <3>2. starts[k(i)] < ends[k(i)] /\ starts[k(i)] \in Int /\ ends[k(i)] \in Int
            BY <2>2, <2>3, <3>1 DEF InTheirOrder
        <3> HIDE DEF k
        <3>3. starts[k(i)] =< ends[k(i)]
            BY <3>2
        <3>4. Adjust(starts[k(i)], f) =< Adjust(ends[k(i)], f) /\ Adjust(ends[k(i)], f) \in Int
            BY <2>1, <3>2, <3>3, AdjustsDates
        <3>5. pay.days >= 0 => Adjust(cashflows[i].end_date, pay) >= cashflows[i].end_date
            BY <2>1, <2>2, <3>4, AdjustsDates
        <3>6. QED
            BY <2>2, <3>4, <3>5
    <2>5. ASSUME NEW i \in 1 .. Len(cashflows) - 1
          PROVE  cashflows[i].end_date =< cashflows[i + 1].end_date
        <3>1. /\ i \in 1 .. Len(cashflows) /\ i + 1 \in 1 .. Len(cashflows)
              /\ cashflows # <<>> /\ Len(ends) = n
            BY <1>1, <2>1 DEF Recorded, Lists
        <3>2. /\ i \in Int /\ n \in Nat /\ (i + 1 =< n \/ i + 1 = n + 1)
              /\ ends[k(i)] \in Int /\ ends[k(i + 1)] \in Int
            BY <2>2, <3>1
        <3>3. ends[k(i)] =< ends[k(i + 1)]
            <4>1. CASE i + 1 =< n
                <5>1. i \in 1 .. n - 1 /\ k(i) = i /\ k(i + 1) = i + 1
                    BY <3>1, <3>2, <4>1
                <5>2. ends[i] < ends[i + 1]
                    BY <2>3, <3>1, <5>1 DEF InTheirOrder, Increasing
                <5> HIDE DEF k
                <5>3. QED
                    BY <3>2, <5>1, <5>2
            <4>2. CASE i + 1 = n + 1
                <5>1. k(i) = n /\ k(i + 1) = n
                    BY <3>2, <4>2
                <5> HIDE DEF k
                <5>2. QED
                    BY <3>2, <5>1
            <4>3. QED
                BY <3>2, <4>1, <4>2
        <3> HIDE DEF k
        <3>4. Adjust(ends[k(i)], f) =< Adjust(ends[k(i + 1)], f)
            BY <2>1, <3>2, <3>3, AdjustsDates
        <3>5. QED
            BY <2>2, <3>1, <3>4
    <2>6. QED
        BY <2>4, <2>5 DEF pay
<1>2. ScheduleInv /\ Recorded => AccrualsInOrder
    BY <1>1 DEF AccrualsInOrder
<1>3. QED
    BY <1>2, ScheduleInvariance, RowPerPeriod, PTL

\* Both loops make progress and no date is an exception (cashflow_gen.cpp:223-247
\* and 258-287): calls end, whatever the tenor and the dates.
THEOREM CallsComeToAnEnd == ScheduleSpec => EveryStepCloser
BY ScheduleTypes, StepsAreCloser, PTL DEF EveryStepCloser
=============================================================================
