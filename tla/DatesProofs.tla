----------------------------- MODULE DatesProofs -----------------------------
(***************************************************************************)
(* What date.cpp computes, for every date after the start of year -4712:   *)
(* the day number counts days (InMonth, NextMonth, NextYear), YMD inverts  *)
(* ConvertToJulian (RoundTrip) on every day there is (EveryDayHasADate),   *)
(* AddMonths lands on the right month for every count (AddMonthsLands,     *)
(* MonthsAway), and a year is twelve months.  And where the walk of        *)
(* AddBusinessDays leads (calendar.cpp), on every calendar on which        *)
(* business days go on: it ends (WalkStops), and keeps the order of days.  *)
(***************************************************************************)
EXTENDS BusinessDays, FiniteSetTheorems, TLAPS

\* A date of the wall calendar for which the conversions are documented.
IsDate(y, m, d) ==
    /\ y \in Int /\ y >= -4712
    /\ m \in 1 .. 12
    /\ d \in 1 .. 31 /\ d =< DaysInMonth(y, m)

-----------------------------------------------------------------------------
(* Day numbers count days *)

\* Within a month.
LEMMA InMonth ==
    ASSUME NEW y \in Int, NEW m \in Int, NEW d \in Int
    PROVE  /\ ConvertToJulian(y, m, d) \in Int
           /\ ConvertToJulian(y, m, d) = ConvertToJulian(y, m, 1) + d - 1
BY DEF ConvertToJulian, Quot

\* Over the end of a month.
LEMMA NextMonth ==
    ASSUME NEW y \in Int, y >= -4712, NEW m \in 1 .. 11
    PROVE  ConvertToJulian(y, m + 1, 1) = ConvertToJulian(y, m, DaysInMonth(y, m)) + 1
BY SMTT(60) DEF ConvertToJulian, Quot, Rem, DaysInMonth, IsLeap

\* Over the end of a year.
LEMMA NextYear ==
    ASSUME NEW y \in Int, y >= -4712
    PROVE  ConvertToJulian(y + 1, 1, 1) = ConvertToJulian(y, 12, 31) + 1
BY DEF ConvertToJulian, Quot

\* Any date of a month has a smaller number than any date of the next.
LEMMA MonthsInOrder ==
    ASSUME NEW y \in Int, NEW m \in Int, NEW d \in Int, IsDate(y, m, d),
           NEW z \in Int, NEW k \in Int, NEW e \in Int, IsDate(z, k, e),
           12 * z + k = 12 * y + m + 1
    PROVE  ConvertToJulian(y, m, d) < ConvertToJulian(z, k, e)
<1>1. /\ m \in 1 .. 12 /\ k \in 1 .. 12 /\ d =< DaysInMonth(y, m) /\ e >= 1
      /\ DaysInMonth(y, m) \in Int
    BY DEF IsDate, DaysInMonth
<1>2. /\ ConvertToJulian(y, m, d) = ConvertToJulian(y, m, 1) + d - 1
      /\ ConvertToJulian(y, m, DaysInMonth(y, m)) = ConvertToJulian(y, m, 1) + DaysInMonth(y, m) - 1
      /\ ConvertToJulian(z, k, e) = ConvertToJulian(z, k, 1) + e - 1
      /\ ConvertToJulian(y, m, 1) \in Int /\ ConvertToJulian(z, k, 1) \in Int
    BY <1>1, InMonth
<1>3. ConvertToJulian(z, k, 1) = ConvertToJulian(y, m, DaysInMonth(y, m)) + 1
    <2>1. CASE m \in 1 .. 11
        <3>1. z = y /\ k = m + 1
            BY <1>1, <2>1
        <3>2. QED
            BY <2>1, <3>1, NextMonth DEF IsDate
    <2>2. CASE m = 12
        <3>1. z = y + 1 /\ k = 1 /\ DaysInMonth(y, 12) = 31
            BY <1>1, <2>2 DEF DaysInMonth
        <3>2. QED
            BY <2>2, <3>1, NextYear DEF IsDate
    <2>3. QED
        BY <1>1, <2>1, <2>2
<1>4. QED
    BY <1>1, <1>2, <1>3

-----------------------------------------------------------------------------
(* YMD inverts ConvertToJulian *)

\* A date's place in years that begin in March: Late is -1 in January and
\* February, March numbers the year (from -4800), Offset the day in it, and
\* DayNumber is the day number of an offset in a year.
Late(m) == Quot(m - 14, 12)
March(y, m) == y + 4800 + Late(m)
Offset(m, d) == Quot(367 * (m - 2 - 12 * Late(m)), 12) + d - 31
DayNumber(a, o) == (1461 * a) \div 4 - (3 * ((a + 100) \div 100)) \div 4 + o - 32044

\* The last day of a March year exists only before a leap year's March.
Place(a, o) ==
    /\ a \in Int /\ a >= 87
    /\ o \in 0 .. 365
    /\ o = 365 => a % 4 = 3 /\ (a % 100 = 99 => a % 400 = 399)

LEMMA MarchYear ==
    ASSUME NEW y \in Int, NEW m \in Int, NEW d \in Int, IsDate(y, m, d)
    PROVE  /\ Late(m) = IF m =< 2 THEN -1 ELSE 0
           /\ Place(March(y, m), Offset(m, d))
           /\ ConvertToJulian(y, m, d) = DayNumber(March(y, m), Offset(m, d))
<1>1. Late(m) = IF m =< 2 THEN -1 ELSE 0
    BY DEF IsDate, Quot, Late
<1>2. Offset(m, d) = 365 => m = 2 /\ IsLeap(y)
    BY <1>1 DEF IsDate, DaysInMonth, Quot, Offset
<1>3. Offset(m, d) \in 0 .. 365
    BY <1>1 DEF IsDate, DaysInMonth, Quot, Offset
<1>4. March(y, m) \in Int /\ March(y, m) >= 87
    BY <1>1 DEF IsDate, March
<1>5. IsLeap(y) /\ m = 2 =>
        March(y, m) % 4 = 3 /\ (March(y, m) % 100 = 99 => March(y, m) % 400 = 399)
    BY <1>1 DEF IsDate, IsLeap, Rem, Quot, March
<1>6. ConvertToJulian(y, m, d) = DayNumber(March(y, m), Offset(m, d))
    BY <1>1, <1>4 DEF ConvertToJulian, Quot, IsDate, DayNumber, March, Offset, Late
<1>7. QED
    BY <1>1, <1>2, <1>3, <1>4, <1>5, <1>6 DEF Place

\* Richards' century is that of the March year, but for a 29 February that
\* ends a century; three quarters of it are the same either way.
LEMMA Century ==
    ASSUME NEW a, NEW o, Place(a, o)
    PROVE  /\ DayNumber(a, o) \in Int
           /\ 4 * DayNumber(a, o) + 274277 >= 0
           /\ (3 * ((4 * DayNumber(a, o) + 274277) \div 146097)) \div 4
                = (3 * ((a + 100) \div 100)) \div 4
<1> DEFINE b == (a + 100) \div 100
           r == (a + 100) % 100
           j == DayNumber(a, o)
<1> USE DEF Place
<1>1. b \in Int /\ b >= 1 /\ r \in 0 .. 99 /\ a = 100 * b - 100 + r
    OBVIOUS
<1>2. 4 * j + 274277 = 146097 * b + 1461 * r + 4 * o + 1 - (r % 4) + ((3 * b) % 4)
      /\ j \in Int
    BY <1>1 DEF DayNumber
<1>3. 146097 * b =< 4 * j + 274277
    BY <1>1, <1>2
<1>4. CASE o = 365 /\ r = 99
    <2>1. b % 4 = 0
        BY <1>1, <1>4
    <2>2. 4 * j + 274277 = 146097 * (b + 1)
        BY <1>1, <1>2, <1>4, <2>1
    <2>3. QED
        BY <1>1, <1>2, <2>1, <2>2
<1>5. CASE ~(o = 365 /\ r = 99)
    <2>1. 4 * j + 274277 < 146097 * (b + 1)
        BY <1>1, <1>2, <1>5
    <2>2. (4 * j + 274277) \div 146097 = b
        BY <1>1, <1>2, <1>3, <2>1
    <2>3. QED
        BY <1>1, <1>2, <1>3, <2>2
<1>6. QED
    BY <1>4, <1>5

\* In a March year, the fifths of the offset give month and day.
LEMMA MonthOfOffset ==
    ASSUME NEW y \in Int, NEW m \in Int, NEW d \in Int, IsDate(y, m, d)
    PROVE  /\ (5 * Offset(m, d) + 2) \div 153 = m - 3 - 12 * Late(m)
           /\ ((5 * Offset(m, d) + 2) % 153) \div 5 = d - 1
<1> USE DEF IsDate, DaysInMonth, Quot, Offset
<1>1. m \in 1 .. 12 /\ Late(m) = IF m =< 2 THEN -1 ELSE 0
    BY MarchYear
<1>2. CASE m \in {1, 2}
    BY <1>1, <1>2
<1>3. CASE m \in {3, 4, 5}
    BY <1>1, <1>3
<1>4. CASE m \in {6, 7, 8}
    BY <1>1, <1>4
<1>5. CASE m \in {9, 10}
    BY <1>1, <1>5
<1>6. CASE m \in {11, 12}
    BY <1>1, <1>6
<1>7. QED
    BY <1>1, <1>2, <1>3, <1>4, <1>5, <1>6

\* YMD (date.cpp:135-151) returns the date that ConvertToJulian (153-160)
\* was given, for every date of every year from -4712 on.
THEOREM RoundTrip ==
    ASSUME NEW y \in Int, NEW m \in Int, NEW d \in Int, IsDate(y, m, d)
    PROVE  YMD(ConvertToJulian(y, m, d)) = [year |-> y, month |-> m, day |-> d]
<1> DEFINE a == March(y, m)
           o == Offset(m, d)
           j == DayNumber(a, o)
           c == Quot(4 * j + 274277, 146097)
           f == j + 1401 + Quot(c * 3, 4) - 38
           e == 4 * f + 3
           h == 5 * Quot(Rem(e, 1461), 4) + 2
           month == Rem(Quot(h, 153) + 2, 12) + 1
<1>1. /\ m \in 1 .. 12
      /\ Late(m) = IF m =< 2 THEN -1 ELSE 0
      /\ Place(a, o)
      /\ ConvertToJulian(y, m, d) = j
    BY MarchYear DEF IsDate
<1>2. /\ j \in Int
      /\ 4 * j + 274277 >= 0
      /\ (3 * ((4 * j + 274277) \div 146097)) \div 4 = (3 * ((a + 100) \div 100)) \div 4
    BY <1>1, Century
<1>3. j = (1461 * a) \div 4 - (3 * ((a + 100) \div 100)) \div 4 + o - 32044
    BY DEF DayNumber
<1>4. a \in Int /\ a >= 87 /\ o \in 0 .. 365 /\ (o = 365 => a % 4 = 3)
    BY <1>1 DEF Place
<1>5. (5 * o + 2) \div 153 = m - 3 - 12 * Late(m) /\ ((5 * o + 2) % 153) \div 5 = d - 1
    BY MonthOfOffset
<1>6. a = y + 4800 + Late(m)
    BY DEF March
<1> HIDE DEF a, o, j
<1>7. Quot(c * 3, 4) = (3 * ((a + 100) \div 100)) \div 4
    BY <1>2 DEF Quot
<1> HIDE DEF c
<1>8. f = (1461 * a) \div 4 + o - 30681
    BY <1>2, <1>3, <1>4, <1>7
<1> HIDE DEF f
<1>9. e = 1461 * (a - 84) + 4 * o + 3 - (a % 4)
    BY <1>4, <1>8
<1> HIDE DEF e
<1>10. Quot(e, 1461) = a - 84 /\ Rem(e, 1461) = 4 * o + 3 - (a % 4)
    BY <1>4, <1>9 DEF Quot, Rem
<1>11. h = 5 * o + 2
    BY <1>4, <1>10 DEF Quot
<1> HIDE DEF h
<1>12. Quot(h, 153) = m - 3 - 12 * Late(m) /\ Quot(Rem(h, 153), 5) = d - 1
    <2>1. h \in Int /\ h >= 0
        BY <1>4, <1>11
    <2>2. Quot(h, 153) = h \div 153 /\ Rem(h, 153) = h % 153 /\ h % 153 >= 0
        BY <2>1 DEF Quot, Rem
    <2>3. Quot(Rem(h, 153), 5) = (h % 153) \div 5
        BY <2>1, <2>2 DEF Quot
    <2>4. QED
        BY <1>5, <1>11, <2>2, <2>3
<1>13. month = m
    BY <1>1, <1>12 DEF Rem, Quot
<1> HIDE DEF month
<1>14. Quot(e, 1461) - 4716 + Quot(14 - month, 12) = y
    BY <1>1, <1>6, <1>10, <1>13 DEF Quot
<1>15. Quot(Rem(h, 153), 5) + 1 = d
    BY <1>12
<1>16. YMD(j) = [year |-> Quot(e, 1461) - 4716 + Quot(14 - month, 12),
                 month |-> month,
                 day |-> Quot(Rem(h, 153), 5) + 1]
    BY DEF YMD, c, f, e, h, month
<1>17. QED
    BY <1>1, <1>13, <1>14, <1>15, <1>16

-----------------------------------------------------------------------------
(* AddMonths *)

\* The date n months away, on the same day of the month or its last.
Landed(y, m, d, n) ==
    LET yy == NewYear(y, m, n)
        mm == NewMonth(m, n)
    IN  [year |-> yy, month |-> mm,
         day |-> IF d =< DaysInMonth(yy, mm) THEN d ELSE DaysInMonth(yy, mm)]

\* AddMonths (date.cpp:269-313), from a date whose day number YMD inverts:
\* it does not throw, and yields the day number of the date n months away.
THEOREM AddMonthsLands ==
    ASSUME NEW y \in Int, NEW m \in Int, NEW d \in Int, IsDate(y, m, d),
           NEW n \in Int, 12 * y + m + n >= 12 * (-4712) + 1
    PROVE  LET to == Landed(y, m, d, n)
           IN  /\ IsDate(to.year, to.month, to.day)
               /\ to \in CivilDate
               /\ 12 * to.year + to.month = 12 * y + m + n
               /\ AddMonths(ConvertToJulian(y, m, d), n)
                    = ConvertToJulian(to.year, to.month, to.day)
               /\ YMD(AddMonths(ConvertToJulian(y, m, d), n)) = to
<1> DEFINE yy == NewYear(y, m, n)
           mm == NewMonth(m, n)
           dd == IF d =< DaysInMonth(yy, mm) THEN d ELSE DaysInMonth(yy, mm)
<1>0. Landed(y, m, d, n) = [year |-> yy, month |-> mm, day |-> dd]
    BY DEF Landed
<1>1. /\ mm \in 1 .. 12 /\ yy \in Int
      /\ 12 * yy + mm = 12 * y + m + n
    <2>1. m \in 1 .. 12
        BY DEF IsDate
    <2>2. QED
        BY <2>1 DEF NewMonth, NewYear, Rem, Quot
<1>2. DaysInMonth(yy, mm) \in 28 .. 31
    BY <1>1 DEF DaysInMonth
<1>3. d \in 1 .. 31
    BY DEF IsDate
<1>4. dd \in 1 .. 31 /\ dd =< DaysInMonth(yy, mm) /\ ClipDay(yy, mm, d) = dd
    BY <1>2, <1>3 DEF ClipDay
<1>5. yy >= -4712
    BY <1>1
<1>6. IsDate(yy, mm, dd)
    BY <1>1, <1>4, <1>5 DEF IsDate
<1>7. YMD(ConvertToJulian(y, m, d)) = [year |-> y, month |-> m, day |-> d]
    BY RoundTrip
<1>8. AddMonths(ConvertToJulian(y, m, d), n) = NewDate(yy, mm, dd)
    BY <1>4, <1>7 DEF AddMonths
<1> HIDE DEF yy, mm, dd
<1>9. NewDate(yy, mm, dd) = ConvertToJulian(yy, mm, dd)
    BY <1>1, <1>2, <1>4 DEF NewDate
<1>10. YMD(ConvertToJulian(yy, mm, dd)) = [year |-> yy, month |-> mm, day |-> dd]
    BY <1>1, <1>4, <1>6, RoundTrip
<1>11. QED
    BY <1>0, <1>1, <1>4, <1>6, <1>8, <1>9, <1>10 DEF CivilDate

-----------------------------------------------------------------------------
(* AddYears *)

\* The special case of AddYears (date.cpp:315-330) computes what AddMonths
\* does for twelve times as many months, 29 February included.
LEMMA TwelveMonths ==
    ASSUME NEW y \in Int, NEW m \in Int, NEW d \in Int, IsDate(y, m, d), NEW n \in Int
    PROVE  AddYears(ConvertToJulian(y, m, d), n) = AddMonths(ConvertToJulian(y, m, d), 12 * n)
<1>1. m \in 1 .. 12 /\ d \in 1 .. 31 /\ d =< DaysInMonth(y, m)
    BY DEF IsDate
<1>2. NewYear(y, m, 12 * n) = y + n /\ NewMonth(m, 12 * n) = m
    BY <1>1 DEF NewYear, NewMonth, Rem, Quot
<1>3. YMD(ConvertToJulian(y, m, d)) = [year |-> y, month |-> m, day |-> d]
    BY RoundTrip
<1>4. ClipDay(y + n, m, d) = IF ~IsLeap(y + n) /\ m = 2 THEN ClipDay(y + n, m, d) ELSE d
    <2>1. CASE m = 2 /\ IsLeap(y + n)
        BY <1>1, <2>1 DEF ClipDay, DaysInMonth
    <2>2. CASE m # 2
        BY <1>1, <2>2 DEF ClipDay, DaysInMonth
    <2>3. QED
        BY <2>1, <2>2
<1>5. AddMonths(ConvertToJulian(y, m, d), 12 * n) = NewDate(y + n, m, ClipDay(y + n, m, d))
    BY <1>2, <1>3 DEF AddMonths
<1>6. AddYears(ConvertToJulian(y, m, d), n)
        = NewDate(y + n, m, IF ~IsLeap(y + n) /\ m = 2 THEN ClipDay(y + n, m, d) ELSE d)
    BY <1>3 DEF AddYears
<1>7. QED
    BY <1>4, <1>5, <1>6

-----------------------------------------------------------------------------
(* Order *)

\* The same number of months from two days of one month, the earlier first.
LEMMA ClipKeepsOrder ==
    ASSUME NEW y \in Int, NEW m \in Int, NEW d \in Int, NEW e \in Int, NEW n \in Int,
           d =< e, m \in 1 .. 12
    PROVE  LET to == Landed(y, m, d, n)
               up == Landed(y, m, e, n)
           IN  ConvertToJulian(to.year, to.month, to.day)
                 =< ConvertToJulian(up.year, up.month, up.day)
<1> DEFINE yy == NewYear(y, m, n)
           mm == NewMonth(m, n)
           last == DaysInMonth(yy, mm)
           dd == IF d =< last THEN d ELSE last
           ee == IF e =< last THEN e ELSE last
<1>1. yy \in Int /\ mm \in Int /\ last \in Int
    BY DEF NewMonth, NewYear, Rem, Quot, DaysInMonth
<1>2. /\ Landed(y, m, d, n) = [year |-> yy, month |-> mm, day |-> dd]
      /\ Landed(y, m, e, n) = [year |-> yy, month |-> mm, day |-> ee]
    BY DEF Landed
<1> HIDE DEF yy, mm, last
<1>3. dd \in Int /\ ee \in Int /\ dd =< ee
    BY <1>1
<1> HIDE DEF dd, ee
<1>4. /\ ConvertToJulian(yy, mm, dd) = ConvertToJulian(yy, mm, 1) + dd - 1
      /\ ConvertToJulian(yy, mm, ee) = ConvertToJulian(yy, mm, 1) + ee - 1
      /\ ConvertToJulian(yy, mm, 1) \in Int
    BY <1>1, <1>3, InMonth
<1>5. QED
    BY <1>2, <1>3, <1>4
-----------------------------------------------------------------------------
(* Every day has a date, and later months have later days *)

\* A March year's days come after those of the years before.
LEMMA MarchYearsInOrder ==
    ASSUME NEW a, NEW o, Place(a, o), NEW b, NEW p, Place(b, p), a < b
    PROVE  DayNumber(a, o) < DayNumber(b, p)
<1> DEFINE C(x) == (3 * ((x + 100) \div 100)) \div 4
           D(x) == (1461 * x) \div 4
<1>1. /\ a \in Int /\ a >= 87 /\ o \in 0 .. 365 /\ b \in Int /\ p \in 0 .. 365
      /\ o = 365 => a % 4 = 3 /\ (a % 100 = 99 => a % 400 = 399)
    BY DEF Place
<1>2. D(a + 1) - C(a + 1) > D(a) - C(a) + o
    BY <1>1
<1>3. D(b) - C(b) >= D(a + 1) - C(a + 1)
    BY <1>1
<1>4. D(a) \in Int /\ C(a) \in Int /\ D(b) \in Int /\ C(b) \in Int
      /\ D(a + 1) \in Int /\ C(a + 1) \in Int
    BY <1>1
<1>5. DayNumber(a, o) = D(a) - C(a) + o - 32044 /\ DayNumber(b, p) = D(b) - C(b) + p - 32044
    BY DEF DayNumber
<1> HIDE DEF C, D
<1>6. QED
    BY <1>1, <1>2, <1>3, <1>4, <1>5

\* A date of a later month has a larger number.
LEMMA LaterMonth ==
    ASSUME NEW y \in Int, NEW m \in Int, NEW d \in Int, IsDate(y, m, d),
           NEW z \in Int, NEW k \in Int, NEW e \in Int, IsDate(z, k, e),
           12 * y + m < 12 * z + k
    PROVE  ConvertToJulian(y, m, d) < ConvertToJulian(z, k, e)
<1>1. /\ m \in 1 .. 12 /\ k \in 1 .. 12
      /\ d \in 1 .. 31 /\ e \in 1 .. 31 /\ d =< DaysInMonth(y, m)
    BY DEF IsDate
<1>2. /\ Late(m) = (IF m =< 2 THEN -1 ELSE 0) /\ Late(k) = (IF k =< 2 THEN -1 ELSE 0)
      /\ Place(March(y, m), Offset(m, d)) /\ Place(March(z, k), Offset(k, e))
      /\ ConvertToJulian(y, m, d) = DayNumber(March(y, m), Offset(m, d))
      /\ ConvertToJulian(z, k, e) = DayNumber(March(z, k), Offset(k, e))
    BY MarchYear
<1>3. March(y, m) \in Int /\ March(z, k) \in Int /\ March(y, m) =< March(z, k)
    BY <1>1, <1>2 DEF March
<1>4. CASE March(y, m) < March(z, k)
    BY <1>2, <1>4, MarchYearsInOrder
<1>5. CASE March(y, m) = March(z, k)
    <2>1. m - 12 * Late(m) < k - 12 * Late(k)
        BY <1>1, <1>2, <1>5 DEF March
    <2>2. Offset(m, d) < Offset(k, e)
        <3>1. m \in 3 .. 12 \/ m = 1
            BY <1>1, <1>2, <2>1
        <3>2. DaysInMonth(y, m) = IF m \in {4, 6, 9, 11} THEN 30 ELSE 31
            BY <3>1 DEF DaysInMonth
        <3>3. QED
            BY <1>1, <1>2, <2>1, <3>1, <3>2 DEF Offset, Quot
    <2>3. Offset(m, d) \in Int /\ Offset(k, e) \in Int
        BY <1>2 DEF Place
    <2>4. QED
        BY <1>2, <1>3, <1>5, <2>2, <2>3 DEF DayNumber
<1>6. QED
    BY <1>3, <1>4, <1>5

\* The first of the days the conversions are meant for: 1 January -4712.
FirstDay == ConvertToJulian(-4712, 1, 1)

\* The leap days in z years, and the days in them, from a leap year on.
LeapDays(z) == z \div 4 - (3 * ((z + 100) \div 100)) \div 4
DaysTo(z) == 365 * z + LeapDays(z)

LEMMA DaysOfYears ==
    ASSUME NEW z \in Int, z >= 0
    PROVE  /\ LeapDays(z) \in Int /\ DaysTo(z) \in Int
           /\ LeapDays(z + 1) >= LeapDays(z)
           /\ DaysTo(z + 1) = 365 * z + 365 + LeapDays(z + 1)
           /\ z =< 400 => LeapDays(z) >= 0 /\ LeapDays(z) =< 97
           /\ z < 87 => DaysTo(z + 1) =< 31776
           /\ \A c \in Int : c >= 0 => DaysTo(400 * c + z) = 146097 * c + DaysTo(z)
<1>1. LeapDays(z) \in Int /\ LeapDays(z + 1) \in Int
    BY DEF LeapDays
<1>2. LeapDays(z + 1) >= LeapDays(z)
    BY DEF LeapDays
<1>3. z =< 400 => LeapDays(z) >= 0 /\ LeapDays(z) =< 97
    BY DEF LeapDays
<1>4. z < 87 => DaysTo(z + 1) =< 31776
    BY DEF DaysTo, LeapDays
<1>5. \A c \in Int : c >= 0 => LeapDays(400 * c + z) = 97 * c + LeapDays(z)
    BY DEF LeapDays
<1>6. \A c \in Int : c >= 0 => DaysTo(400 * c + z) = 146097 * c + DaysTo(z)
    <2> SUFFICES ASSUME NEW c \in Int, c >= 0
                 PROVE  DaysTo(400 * c + z) = 146097 * c + DaysTo(z)
        OBVIOUS
    <2>1. LeapDays(400 * c + z) = 97 * c + LeapDays(z)
        BY <1>5
    <2>2. QED
        BY <1>1, <2>1 DEF DaysTo
<1>7. DaysTo(z) \in Int /\ DaysTo(z + 1) = 365 * z + 365 + LeapDays(z + 1)
    BY <1>1 DEF DaysTo
<1>8. QED
    BY <1>1, <1>2, <1>3, <1>4, <1>6, <1>7

\* Every number of days ends within a year: of its cycle of four centuries the
\* year is the one that 365 days a year give, or the one before.
LEMMA YearOfDays ==
    ASSUME NEW t \in Int, t >= 31776
    PROVE  \E x \in Int : x >= 87 /\ DaysTo(x) =< t /\ t < DaysTo(x + 1)
<1>1. PICK c \in Int, r \in Int : c >= 0 /\ r >= 0 /\ r < 146097 /\ t = 146097 * c + r
    <2>1. /\ t \div 146097 \in Int /\ t \div 146097 >= 0
          /\ t % 146097 \in Int /\ t % 146097 >= 0 /\ t % 146097 < 146097
          /\ t = 146097 * (t \div 146097) + (t % 146097)
        OBVIOUS
    <2>2. QED
        BY <2>1
<1>2. PICK q \in Int, s \in Int : /\ q >= 0 /\ q =< 400 /\ s >= 0 /\ s =< 364
                                  /\ r = 365 * q + s
    <2>1. /\ r \div 365 \in Int /\ r \div 365 >= 0 /\ r \div 365 =< 400
          /\ r % 365 \in Int /\ r % 365 >= 0 /\ r % 365 =< 364
          /\ r = 365 * (r \div 365) + (r % 365)
        BY <1>1
    <2>2. QED
        BY <2>1
<1>3. \E z \in Int : z >= 0 /\ DaysTo(z) =< r /\ r < DaysTo(z + 1)
    <2>1. /\ LeapDays(q) \in Int /\ LeapDays(q + 1) \in Int /\ LeapDays(q + 1) >= LeapDays(q)
          /\ LeapDays(q) >= 0 /\ LeapDays(q) =< 97
          /\ DaysTo(q) = 365 * q + LeapDays(q)
          /\ DaysTo(q + 1) = 365 * q + 365 + LeapDays(q + 1)
        <3>1. q + 1 \in Int /\ q + 1 >= 0
            BY <1>2
        <3>2. QED
            BY <1>2, <3>1, DaysOfYears DEF DaysTo
    <2>2. CASE s >= LeapDays(q)
        <3>1. DaysTo(q) =< r /\ r < DaysTo(q + 1)
            BY <1>2, <2>1, <2>2
        <3>2. QED
            BY <1>2, <3>1
    <2>3. CASE s < LeapDays(q)
        <3>1. LeapDays(0) = 0
            BY DEF LeapDays
        <3>2. q >= 1
            BY <1>2, <2>3, <3>1
        <3>3. q - 1 \in Int /\ q - 1 >= 0 /\ q - 1 =< 400 /\ q - 1 + 1 = q
            BY <1>2, <3>2
        <3>4. LeapDays(q - 1) \in Int /\ LeapDays(q - 1) >= 0 /\ LeapDays(q - 1) =< 97
            BY <3>3, DaysOfYears
        <3>5. DaysTo(q - 1) = 365 * (q - 1) + LeapDays(q - 1)
            BY DEF DaysTo
        <3>6. DaysTo(q - 1) =< r /\ r < DaysTo(q - 1 + 1)
            BY <1>2, <2>1, <2>3, <3>3, <3>4, <3>5
        <3>7. QED
            BY <3>3, <3>6
    <2>4. QED
        BY <1>2, <2>1, <2>2, <2>3
<1>4. PICK z \in Int : z >= 0 /\ DaysTo(z) =< r /\ r < DaysTo(z + 1)
    BY <1>3
<1>5. PICK x \in Int : x = 400 * c + z
    BY <1>1, <1>4
<1>6. /\ DaysTo(x) = 146097 * c + DaysTo(z)
      /\ DaysTo(x + 1) = 146097 * c + DaysTo(z + 1)
      /\ DaysTo(z) \in Int /\ DaysTo(z + 1) \in Int
    <2>1. z + 1 \in Int /\ z + 1 >= 0 /\ x + 1 = 400 * c + (z + 1)
        BY <1>1, <1>4, <1>5
    <2>2. QED
        BY <1>1, <1>4, <1>5, <2>1, DaysOfYears
<1>7. DaysTo(x) =< t /\ t < DaysTo(x + 1)
    BY <1>1, <1>4, <1>6
<1>8. x >= 87
    <2>1. x >= 0 /\ DaysTo(x + 1) \in Int
        BY <1>1, <1>4, <1>5, <1>6
    <2>2. QED
        BY <1>7, <2>1, DaysOfYears
<1>9. QED
    BY <1>7, <1>8

LEMMA YearOfADay ==
    ASSUME NEW j \in Int, j >= FirstDay
    PROVE  \E y \in Int : /\ y >= -4712
                          /\ ConvertToJulian(y, 1, 1) =< j
                          /\ j < ConvertToJulian(y + 1, 1, 1)
<1>1. \A y \in Int : y >= -4712 => ConvertToJulian(y, 1, 1) = DaysTo(y + 4799) - 31738
    BY DEF ConvertToJulian, Quot, DaysTo, LeapDays
<1>2. FirstDay = 38
    BY DEF FirstDay, ConvertToJulian, Quot
<1>3. j + 31738 \in Int /\ j + 31738 >= 31776
    BY <1>2
<1>4. PICK x \in Int : x >= 87 /\ DaysTo(x) =< j + 31738 /\ j + 31738 < DaysTo(x + 1)
    BY <1>3, YearOfDays
<1>5. PICK y \in Int : x = y + 4799
    <2>1. x - 4799 \in Int /\ x = x - 4799 + 4799
        BY <1>4
    <2>2. QED
        BY <2>1
<1>6. y >= -4712 /\ y + 1 \in Int /\ y + 1 >= -4712 /\ x + 1 = y + 1 + 4799
    BY <1>4, <1>5
<1>7. /\ ConvertToJulian(y, 1, 1) = DaysTo(x) - 31738
      /\ ConvertToJulian(y + 1, 1, 1) = DaysTo(x + 1) - 31738
    BY <1>1, <1>5, <1>6
<1>8. DaysTo(x) \in Int /\ DaysTo(x + 1) \in Int
    BY <1>4, DaysOfYears
<1>9. QED
    BY <1>4, <1>6, <1>7, <1>8

LEMMA DateOfADay ==
    ASSUME NEW j \in Int, j >= FirstDay
    PROVE  \E y, m, d \in Int : IsDate(y, m, d) /\ ConvertToJulian(y, m, d) = j
<1>1. PICK y \in Int : /\ y >= -4712
                       /\ ConvertToJulian(y, 1, 1) =< j
                       /\ j < ConvertToJulian(y + 1, 1, 1)
    BY YearOfADay
<1> DEFINE First(k) == ConvertToJulian(y, k, 1)
           Length(k) == DaysInMonth(y, k)
<1>2. \A k \in 1 .. 12 : First(k) \in Int /\ Length(k) \in 28 .. 31
    BY InMonth DEF DaysInMonth
<1>3. \A k \in 1 .. 11 : First(k + 1) = First(k) + Length(k)
    <2> SUFFICES ASSUME NEW k \in 1 .. 11
                 PROVE  First(k + 1) = First(k) + Length(k)
        OBVIOUS
    <2>1. ConvertToJulian(y, k + 1, 1) = ConvertToJulian(y, k, DaysInMonth(y, k)) + 1
        BY <1>1, NextMonth
    <2>2. k \in Int /\ DaysInMonth(y, k) \in Int /\ First(k) \in Int
        BY <1>2
    <2>3. ConvertToJulian(y, k, DaysInMonth(y, k)) = ConvertToJulian(y, k, 1) + DaysInMonth(y, k) - 1
        BY <2>2, InMonth
    <2>4. QED
        BY <2>1, <2>2, <2>3
<1>4. ConvertToJulian(y + 1, 1, 1) = First(12) + Length(12)
    <2>1. ConvertToJulian(y, 12, 31) = First(12) + 31 - 1 /\ Length(12) = 31
        BY InMonth DEF DaysInMonth
    <2>2. QED
        BY <1>1, <1>2, <2>1, NextYear
<1>5. First(1) =< j /\ j < First(12) + Length(12)
    BY <1>1, <1>4
<1> HIDE DEF First, Length
<1>6. \E m \in 1 .. 12 : First(m) =< j /\ j < First(m) + Length(m)
    BY <1>2, <1>3, <1>5
<1>7. PICK m \in 1 .. 12 : First(m) =< j /\ j < First(m) + Length(m)
    BY <1>6
<1>8. PICK d \in Int : d = j - First(m) + 1
    BY <1>2
<1>9. d \in 1 .. 31 /\ d =< DaysInMonth(y, m)
    BY <1>2, <1>7, <1>8 DEF Length
<1>10. ConvertToJulian(y, m, d) = j
    <2>1. ConvertToJulian(y, m, d) = ConvertToJulian(y, m, 1) + d - 1
        BY InMonth
    <2>2. QED
        BY <1>2, <1>8, <2>1 DEF First
<1>11. IsDate(y, m, d)
    BY <1>1, <1>9 DEF IsDate
<1>12. QED
    BY <1>10, <1>11

\* How many months a date's own is from the year 0.
MonthIndex(j) == 12 * YMD(j).year + YMD(j).month

\* The conversions are inverse to each other, from either side.
THEOREM EveryDayHasADate ==
    ASSUME NEW j \in Int, j >= FirstDay
    PROVE  LET date == YMD(j)
           IN  /\ date = [year |-> date.year, month |-> date.month, day |-> date.day]
               /\ date.year \in Int /\ date.month \in Int /\ date.day \in Int
               /\ IsDate(date.year, date.month, date.day)
               /\ ConvertToJulian(date.year, date.month, date.day) = j
               /\ MonthIndex(j) \in Int
<1>1. PICK y \in Int, m \in Int, d \in Int : IsDate(y, m, d) /\ ConvertToJulian(y, m, d) = j
    BY DateOfADay
<1>2. YMD(j) = [year |-> y, month |-> m, day |-> d]
    BY <1>1, RoundTrip
<1>3. QED
    BY <1>1, <1>2 DEF MonthIndex

\* Later days are of later months, or of the same.
LEMMA MonthsFollow ==
    ASSUME NEW i \in Int, i >= FirstDay, NEW j \in Int, j >= FirstDay
    PROVE  /\ MonthIndex(i) \in Int /\ MonthIndex(j) \in Int
           /\ i =< j => MonthIndex(i) =< MonthIndex(j)
           /\ MonthIndex(i) < MonthIndex(j) => i < j
           /\ MonthIndex(i) = MonthIndex(j) =>
                YMD(i).year = YMD(j).year /\ YMD(i).month = YMD(j).month
                /\ j - i = YMD(j).day - YMD(i).day
<1> DEFINE y == YMD(i).year
           m == YMD(i).month
           d == YMD(i).day
           z == YMD(j).year
           k == YMD(j).month
           e == YMD(j).day
<1>1. /\ y \in Int /\ m \in Int /\ d \in Int /\ IsDate(y, m, d)
      /\ ConvertToJulian(y, m, d) = i
      /\ MonthIndex(i) = 12 * y + m
    BY EveryDayHasADate DEF MonthIndex
<1>2. /\ z \in Int /\ k \in Int /\ e \in Int /\ IsDate(z, k, e)
      /\ ConvertToJulian(z, k, e) = j
      /\ MonthIndex(j) = 12 * z + k
    BY EveryDayHasADate DEF MonthIndex
<1> HIDE DEF y, m, d, z, k, e
<1>3. m \in 1 .. 12 /\ k \in 1 .. 12
    BY <1>1, <1>2 DEF IsDate
<1>4. 12 * y + m < 12 * z + k => i < j
    BY <1>1, <1>2, LaterMonth
<1>5. 12 * z + k < 12 * y + m => j < i
    BY <1>1, <1>2, LaterMonth
<1>6. 12 * y + m = 12 * z + k => y = z /\ m = k
    BY <1>1, <1>2, <1>3
<1>7. y = z /\ m = k => j - i = e - d
    <2>1. /\ ConvertToJulian(y, m, d) = ConvertToJulian(y, m, 1) + d - 1
          /\ ConvertToJulian(z, k, e) = ConvertToJulian(z, k, 1) + e - 1
          /\ ConvertToJulian(y, m, 1) \in Int
        BY <1>1, <1>2, InMonth
    <2>2. QED
        BY <1>1, <1>2, <2>1
<1>8. /\ MonthIndex(i) \in Int /\ MonthIndex(j) \in Int
      /\ i =< j => MonthIndex(i) =< MonthIndex(j)
      /\ MonthIndex(i) < MonthIndex(j) => i < j
      /\ MonthIndex(i) = MonthIndex(j) => y = z /\ m = k /\ j - i = e - d
    BY <1>1, <1>2, <1>4, <1>5, <1>6, <1>7
<1>9. QED
    BY <1>8 DEF y, m, d, z, k, e

\* No date has a smaller number than the first one.
LEMMA NoneBeforeFirst ==
    ASSUME NEW y \in Int, NEW m \in Int, NEW d \in Int, IsDate(y, m, d)
    PROVE  ConvertToJulian(y, m, d) \in Int /\ ConvertToJulian(y, m, d) >= FirstDay
<1>1. /\ y >= -4712 /\ m \in 1 .. 12 /\ d \in 1 .. 31
      /\ ConvertToJulian(y, m, d) = ConvertToJulian(y, m, 1) + d - 1
      /\ ConvertToJulian(y, m, 1) \in Int
      /\ ConvertToJulian(y, m, d) \in Int
    BY InMonth DEF IsDate
<1>2. CASE y = -4712 /\ m = 1
    BY <1>1, <1>2 DEF FirstDay
<1>3. CASE 12 * (-4712) + 1 < 12 * y + m
    <2>1. IsDate(-4712, 1, 1)
        BY DEF IsDate, DaysInMonth
    <2>2. ConvertToJulian(-4712, 1, 1) < ConvertToJulian(y, m, d)
        BY <1>3, <2>1, LaterMonth
    <2>3. ConvertToJulian(-4712, 1, 1) \in Int
        BY InMonth
    <2>4. QED
        BY <1>1, <2>2, <2>3 DEF FirstDay
<1>4. QED
    BY <1>1, <1>2, <1>3

\* AddMonths from any day on: so many months on, the same day or the last one.
LEMMA MonthsAway ==
    ASSUME NEW j \in Int, j >= FirstDay, NEW n \in Int,
           MonthIndex(j) + n >= 12 * (-4712) + 1
    PROVE  LET k == AddMonths(j, n)
           IN  /\ k \in Int /\ k >= FirstDay
               /\ MonthIndex(k) = MonthIndex(j) + n
               /\ YMD(k).day = ClipDay(YMD(k).year, YMD(k).month, YMD(j).day)
<1> DEFINE y == YMD(j).year
           m == YMD(j).month
           d == YMD(j).day
           to == Landed(y, m, d, n)
<1>1. /\ y \in Int /\ m \in Int /\ d \in Int /\ IsDate(y, m, d)
      /\ ConvertToJulian(y, m, d) = j
      /\ MonthIndex(j) = 12 * y + m
    BY EveryDayHasADate DEF MonthIndex
<1> HIDE DEF y, m, d
<1>2. /\ IsDate(to.year, to.month, to.day)
      /\ to \in CivilDate
      /\ 12 * to.year + to.month = 12 * y + m + n
      /\ AddMonths(j, n) = ConvertToJulian(to.year, to.month, to.day)
      /\ YMD(AddMonths(j, n)) = to
    BY <1>1, AddMonthsLands
<1>3. to.day = ClipDay(to.year, to.month, d)
    <2>1. DaysInMonth(NewYear(y, m, n), NewMonth(m, n)) \in Int
        BY DEF DaysInMonth
    <2>2. QED
        BY <1>1, <2>1 DEF Landed, ClipDay
<1> HIDE DEF to
<1>4. AddMonths(j, n) \in Int /\ AddMonths(j, n) >= FirstDay
    <2>1. to.year \in Int /\ to.month \in Int /\ to.day \in Int
        BY <1>2 DEF CivilDate
    <2>2. QED
        BY <1>2, <2>1, NoneBeforeFirst
<1>5. YMD(AddMonths(j, n)).day = ClipDay(to.year, to.month, d) /\ MonthIndex(AddMonths(j, n)) = MonthIndex(j) + n
    BY <1>1, <1>2, <1>3 DEF MonthIndex
<1>6. QED
    BY <1>2, <1>4, <1>5 DEF d

\* AddYears is AddMonths, twelve at a time.
LEMMA YearsAway ==
    ASSUME NEW j \in Int, j >= FirstDay, NEW n \in Int
    PROVE  AddYears(j, n) = AddMonths(j, 12 * n)
BY EveryDayHasADate, TwelveMonths

-----------------------------------------------------------------------------
(* Induction and bounds *)

\* A set of numbers has a least one: of the intervals up to its members, which
\* are finite sets, one contains no other.
LEMMA LeastNumber ==
    ASSUME NEW T, T \subseteq Nat, T # {}
    PROVE  \E x \in T : \A y \in T : x =< y
<1> DEFINE Up == {0 .. x : x \in T}
<1>1. Up \subseteq FiniteSubsetsOf(Nat) /\ Up # {}
    <2>1. \A x \in T : IsFiniteSet(0 .. x) /\ 0 .. x \subseteq Nat
        BY FS_Interval
    <2>2. QED
        BY <2>1, Zenon DEF FiniteSubsetsOf
<1>2. IsWellFoundedOn(StrictSubsetOrdering(Nat), FiniteSubsetsOf(Nat))
    BY FS_StrictSubsetOrderingWellFounded
<1>3. PICK s \in Up : \A t \in Up : <<t, s>> \notin StrictSubsetOrdering(Nat)
    <2> HIDE DEF Up
    <2>1. QED
        BY <1>1, <1>2, WFMin
<1>4. PICK x \in T : s = 0 .. x
    BY <1>3
<1>5. \A y \in T : x =< y
    <2>1. SUFFICES ASSUME NEW y \in T, y < x PROVE FALSE
        OBVIOUS
    <2>2. 0 .. y \in Up /\ 0 .. y \subseteq 0 .. x /\ x \in 0 .. x /\ x \notin 0 .. y
        BY <2>1
    <2>3. <<0 .. y, 0 .. x>> \in StrictSubsetOrdering(Nat)
        BY <2>2 DEF StrictSubsetOrdering
    <2>4. QED
        BY <1>3, <1>4, <2>2, <2>3
<1>6. QED
    BY <1>5

\* What holds of 0, and of n + 1 when it holds of n, holds of every number: the
\* set that has them has all.
LEMMA Induction ==
    ASSUME NEW S, 0 \in S, \A n \in Nat : n \in S => n + 1 \in S
    PROVE  \A n \in Nat : n \in S
<1> DEFINE T == {n \in Nat : n \notin S}
<1>1. SUFFICES ASSUME T # {} PROVE FALSE
    OBVIOUS
<1>2. PICK x \in T : \A y \in T : x =< y
    BY <1>1, LeastNumber
<1>3. x # 0 /\ x - 1 \in Nat
    OBVIOUS
<1>4. x - 1 \in S
    BY <1>2, <1>3
<1>5. QED
    BY <1>3, <1>4

LEMMA FiniteIsBounded ==
    ASSUME NEW S, S \subseteq Int, IsFiniteSet(S)
    PROVE  \E b \in Nat : \A x \in S : -b < x /\ x < b
<1> DEFINE Bounded(s) == \E b \in Nat : \A x \in s : -b < x /\ x < b
           T == {s \in FiniteSubsetsOf(Int) : ~Bounded(s)}
<1>1. SUFFICES ASSUME T # {} PROVE FALSE
    BY Zenon DEF FiniteSubsetsOf
<1>2. IsWellFoundedOn(StrictSubsetOrdering(Int), FiniteSubsetsOf(Int))
    BY FS_StrictSubsetOrderingWellFounded
<1>3. PICK s \in T : \A t \in T : <<t, s>> \notin StrictSubsetOrdering(Int)
    <2>1. T \subseteq FiniteSubsetsOf(Int)
        OBVIOUS
    <2> HIDE DEF T
    <2>2. QED
        BY <1>1, <1>2, <2>1, WFMin
<1>4. s \in SUBSET Int /\ IsFiniteSet(s) /\ ~Bounded(s)
    BY DEF FiniteSubsetsOf
<1>5. s # {}
    BY <1>4
<1>6. PICK x \in s : TRUE
    BY <1>5
<1>7. s \ {x} \in FiniteSubsetsOf(Int)
    BY <1>4, FS_RemoveElement DEF FiniteSubsetsOf
<1>8. <<s \ {x}, s>> \in StrictSubsetOrdering(Int)
    BY <1>4, <1>6 DEF StrictSubsetOrdering
<1>9. Bounded(s \ {x})
    BY <1>3, <1>7, <1>8
<1>10. PICK b \in Nat : \A y \in s \ {x} : -b < y /\ y < b
    BY <1>9
<1>11. x \in Int
    BY <1>4, <1>6
<1>12. \E c \in Nat : c >= b /\ -c < x /\ x < c
    <2>1. CASE x >= 0
        <3>1. b + x + 1 \in Nat /\ b + x + 1 >= b /\ -(b + x + 1) < x /\ x < b + x + 1
            BY <1>11, <2>1
        <3>2. QED
            BY <3>1
    <2>2. CASE x < 0
        <3>1. b - x + 1 \in Nat /\ b - x + 1 >= b /\ -(b - x + 1) < x /\ x < b - x + 1
            BY <1>11, <2>2
        <3>2. QED
            BY <3>1
    <2>3. QED
        BY <1>11, <2>1, <2>2
<1>13. PICK c \in Nat : c >= b /\ -c < x /\ x < c
    BY <1>12
<1>14. \A y \in s : -c < y /\ y < c
    BY <1>4, <1>10, <1>13
<1>15. QED
    BY <1>4, <1>14

-----------------------------------------------------------------------------
(* Walks over business days *)

\* The day some days away, and how far the business days of that side are.
Landing(sign, j, p) == IF sign = 1 THEN j + p ELSE j - p
Opens(cal, sign, j) == {p \in Nat \ {0} : ~IsHoliday(cal, Landing(sign, j, p))}
OpensWithin(cal, sign, j, p) == Cardinality(Opens(cal, sign, j) \cap 1 .. p)

\* A walk from j over so many business days stops p days away.
Stops(cal, sign, j, days, p) ==
    /\ p \in Nat
    /\ OpensWithin(cal, sign, j, p) = days
    /\ IF days = 0 THEN p = 0 ELSE p \in Opens(cal, sign, j)

\* Business days go on in either direction.
GoesOn(cal) ==
    \A sign \in {-1, 1}, j \in Int, p \in Nat :
        \E q \in Opens(cal, sign, j) : q > p

LEMMA OneMoreDay ==
    ASSUME NEW cal, NEW sign, NEW j, NEW p \in Nat
    PROVE  /\ OpensWithin(cal, sign, j, p) \in Nat
           /\ OpensWithin(cal, sign, j, 0) = 0
           /\ OpensWithin(cal, sign, j, p + 1) =
                  OpensWithin(cal, sign, j, p)
                  + (IF p + 1 \in Opens(cal, sign, j) THEN 1 ELSE 0)
<1> DEFINE O == Opens(cal, sign, j)
<1>1. IsFiniteSet(O \cap 1 .. p) /\ Cardinality(O \cap 1 .. p) \in Nat
    <2>1. IsFiniteSet(1 .. p)
        BY FS_Interval
    <2>2. IsFiniteSet(O \cap 1 .. p)
        BY <2>1, FS_Intersection
    <2>3. QED
        BY <2>2, FS_CardinalityType
<1>2. Cardinality(O \cap 1 .. 0) = 0
    <2>1. O \cap 1 .. 0 = {}
        OBVIOUS
    <2>2. QED
        BY <2>1, FS_EmptySet
<1>3. CASE p + 1 \in O
    <2>1. O \cap 1 .. p + 1 = (O \cap 1 .. p) \cup {p + 1} /\ p + 1 \notin O \cap 1 .. p
        BY <1>3
    <2>2. QED
        BY <1>1, <1>2, <1>3, <2>1, FS_AddElement DEF OpensWithin
<1>4. CASE p + 1 \notin O
    <2>1. O \cap 1 .. p + 1 = O \cap 1 .. p
        BY <1>4
    <2>2. QED
        BY <1>1, <1>2, <1>4, <2>1 DEF OpensWithin
<1>5. QED
    BY <1>3, <1>4

\* Further away there are no fewer.
LEMMA MoreFurther ==
    ASSUME NEW cal, NEW sign, NEW j, NEW p \in Nat, NEW q \in Nat, p =< q
    PROVE  OpensWithin(cal, sign, j, p) =< OpensWithin(cal, sign, j, q)
<1> DEFINE O == Opens(cal, sign, j)
<1>1. IsFiniteSet(1 .. q)
    BY FS_Interval
<1>2. IsFiniteSet(O \cap 1 .. q)
    BY <1>1, FS_Intersection
<1>3. O \cap 1 .. p \in SUBSET (O \cap 1 .. q)
    OBVIOUS
<1>4. QED
    BY <1>2, <1>3, FS_Subset DEF OpensWithin

LEMMA OneStop ==
    ASSUME NEW cal, NEW sign, NEW j, NEW days \in Nat, NEW p, NEW q,
           Stops(cal, sign, j, days, p), Stops(cal, sign, j, days, q)
    PROVE  p = q
<1>1. ASSUME NEW a, NEW b, Stops(cal, sign, j, days, a), Stops(cal, sign, j, days, b), a < b
      PROVE  FALSE
    <2>1. a \in Nat /\ b \in Nat /\ days # 0 /\ b \in Opens(cal, sign, j)
        BY <1>1 DEF Stops
    <2>2. b - 1 \in Nat /\ a =< b - 1 /\ (b - 1) + 1 = b
        BY <1>1, <2>1
    <2>3. OpensWithin(cal, sign, j, b) = OpensWithin(cal, sign, j, b - 1) + 1
        BY <2>1, <2>2, OneMoreDay
    <2>4. OpensWithin(cal, sign, j, a) =< OpensWithin(cal, sign, j, b - 1)
        BY <2>1, <2>2, MoreFurther
    <2>5. OpensWithin(cal, sign, j, a) = days /\ OpensWithin(cal, sign, j, b) = days
        BY <1>1 DEF Stops
    <2>6. QED
        BY <2>2, <2>3, <2>4, <2>5, OneMoreDay
<1>2. p \in Nat /\ q \in Nat
    BY DEF Stops
<1>3. QED
    BY <1>1, <1>2

\* The next stop is the least open day beyond the last.
LEMMA StopsFollow ==
    ASSUME NEW cal, GoesOn(cal), NEW sign \in {-1, 1}, NEW j \in Int,
           NEW days \in Nat, NEW p, Stops(cal, sign, j, days, p)
    PROVE  \E q \in Nat : q > p /\ Stops(cal, sign, j, days + 1, q)
<1> DEFINE T == {q \in Opens(cal, sign, j) : q > p}
<1>1. p \in Nat /\ OpensWithin(cal, sign, j, p) = days
    BY DEF Stops
<1>2. T \subseteq Nat /\ T # {}
    BY <1>1 DEF GoesOn, Opens
<1>3. PICK q \in T : \A r \in T : q =< r
    BY <1>2, LeastNumber
<1>4. q \in Nat /\ q > p /\ q \in Opens(cal, sign, j)
    BY <1>2, <1>3
<1>5. q - 1 \in Nat /\ (q - 1) + 1 = q
    BY <1>1, <1>4
<1>6. OpensWithin(cal, sign, j, q - 1) = days
    <2>1. Opens(cal, sign, j) \cap 1 .. q - 1 = Opens(cal, sign, j) \cap 1 .. p
        <3>1. \A r \in Opens(cal, sign, j) : r \in Nat /\ (r > p => q =< r)
            BY <1>3 DEF Opens
        <3>2. QED
            BY <1>1, <1>4, <3>1
    <2>2. QED
        BY <1>1, <2>1 DEF OpensWithin
<1>7. OpensWithin(cal, sign, j, q) = days + 1
    BY <1>4, <1>5, <1>6, OneMoreDay
<1>8. QED
    BY <1>4, <1>7 DEF Stops

LEMMA SomeStop ==
    ASSUME NEW cal, GoesOn(cal), NEW sign \in {-1, 1}, NEW j \in Int
    PROVE  \A days \in Nat : \E p \in Nat : Stops(cal, sign, j, days, p)
<1> DEFINE S == {days \in Nat : \E p \in Nat : Stops(cal, sign, j, days, p)}
<1>1. 0 \in S
    BY OneMoreDay DEF Stops
<1>2. \A n \in Nat : n \in S => n + 1 \in S
    BY StopsFollow
<1>3. \A n \in Nat : n \in S
    <2> HIDE DEF S
    <2>1. QED
        BY <1>1, <1>2, Induction
<1>4. QED
    BY <1>3

\* A day further on, the first day is no longer counted.
LEMMA OpensShift ==
    ASSUME NEW cal, NEW sign \in {-1, 1}, NEW j \in Int
    PROVE  \A p \in Nat :
               OpensWithin(cal, sign, j, p + 1) =
                   (IF IsHoliday(cal, j + sign) THEN 0 ELSE 1)
                   + OpensWithin(cal, sign, j + sign, p)
<1> DEFINE first == IF IsHoliday(cal, j + sign) THEN 0 ELSE 1
           S == {p \in Nat : OpensWithin(cal, sign, j, p + 1)
                                 = first + OpensWithin(cal, sign, j + sign, p)}
<1>1. \A p \in Nat \ {0} : p + 1 \in Opens(cal, sign, j) <=> p \in Opens(cal, sign, j + sign)
    <2>1. \A p \in Nat : Landing(sign, j, p + 1) = Landing(sign, j + sign, p)
        BY DEF Landing
    <2>2. QED
        BY <2>1 DEF Opens
<1>2. 1 \in Opens(cal, sign, j) <=> ~IsHoliday(cal, j + sign)
    <2>1. Landing(sign, j, 1) = j + sign
        BY DEF Landing
    <2>2. QED
        BY <2>1 DEF Opens
<1>3. 0 \in S
    <2>1. OpensWithin(cal, sign, j, 0 + 1) = first
        BY <1>2, OneMoreDay
    <2>2. OpensWithin(cal, sign, j + sign, 0) = 0
        BY OneMoreDay
    <2>3. QED
        BY <2>1, <2>2
<1>4. ASSUME NEW p \in Nat, p \in S PROVE p + 1 \in S
    <2>1. OpensWithin(cal, sign, j, (p + 1) + 1) =
              OpensWithin(cal, sign, j, p + 1)
              + (IF (p + 1) + 1 \in Opens(cal, sign, j) THEN 1 ELSE 0)
        BY OneMoreDay
    <2>2. /\ OpensWithin(cal, sign, j + sign, p) \in Nat
          /\ OpensWithin(cal, sign, j + sign, p + 1) =
              OpensWithin(cal, sign, j + sign, p)
              + (IF p + 1 \in Opens(cal, sign, j + sign) THEN 1 ELSE 0)
        BY OneMoreDay
    <2>3. (p + 1) + 1 \in Opens(cal, sign, j) <=> p + 1 \in Opens(cal, sign, j + sign)
        BY <1>1
    <2> HIDE DEF first
    <2>4. OpensWithin(cal, sign, j, p + 1) = first + OpensWithin(cal, sign, j + sign, p)
        BY <1>4
    <2>5. first \in Nat
        BY DEF first
    <2>6. QED
        BY <2>1, <2>2, <2>3, <2>4, <2>5
<1>5. \A p \in Nat : p \in S
    <2> HIDE DEF S
    <2>1. QED
        BY <1>3, <1>4, Induction
<1>6. QED
    BY <1>5

\* One step of the walk.
WalkStep(cal, sign, w) ==
    [at \in Int \X Nat |->
        LET next == at[1] + sign IN
        IF at[2] = 0 THEN at[1]
        ELSE w[<<next, IF IsHoliday(cal, next) THEN at[2] ELSE at[2] - 1>>]]

LEMMA WalkIsFixed ==
    ASSUME NEW cal, NEW sign, NEW f, f = WalkStep(cal, sign, f)
    PROVE  Walk(cal, sign) = WalkStep(cal, sign, Walk(cal, sign))
BY DEF Walk, WalkStep

\* What is left to pass after the next day.
Left(cal, day, days) == IF IsHoliday(cal, day) THEN days ELSE days - 1

LEMMA StopsShift ==
    ASSUME NEW cal, NEW sign \in {-1, 1}, NEW j \in Int, NEW days \in Nat, days # 0,
           NEW p, Stops(cal, sign, j + sign, Left(cal, j + sign, days), p)
    PROVE  /\ Stops(cal, sign, j, days, p + 1)
           /\ Landing(sign, j + sign, p) = Landing(sign, j, p + 1)
<1> DEFINE next == j + sign
           left == Left(cal, next, days)
<1>1. p \in Nat /\ left \in Nat
    BY DEF Stops, Left
<1>2. OpensWithin(cal, sign, j, p + 1) = (IF IsHoliday(cal, next) THEN 0 ELSE 1) + left
    <2>1. OpensWithin(cal, sign, next, p) = left
        BY DEF Stops
    <2> HIDE DEF left
    <2>2. OpensWithin(cal, sign, j, p + 1) =
              (IF IsHoliday(cal, next) THEN 0 ELSE 1) + OpensWithin(cal, sign, next, p)
        BY <1>1, OpensShift
    <2>3. QED
        BY <2>1, <2>2
<1>3. OpensWithin(cal, sign, j, p + 1) = days
    BY <1>2 DEF Left
<1>4. Landing(sign, j, p + 1) = Landing(sign, next, p)
    BY <1>1 DEF Landing
<1>5. ~IsHoliday(cal, Landing(sign, next, p))
    <2>1. CASE left = 0
        <3>1. p = 0 /\ ~IsHoliday(cal, next)
            BY <2>1 DEF Stops, Left
        <3>2. Landing(sign, next, 0) = next
            BY DEF Landing
        <3>3. QED
            BY <3>1, <3>2
    <2>2. CASE left # 0
        BY <2>2 DEF Stops, Opens
    <2>3. QED
        BY <2>1, <2>2
<1>6. p + 1 \in Opens(cal, sign, j)
    BY <1>1, <1>4, <1>5 DEF Opens
<1>7. QED
    BY <1>1, <1>3, <1>4, <1>6 DEF Stops

\* There is such a walk.
LEMMA WalkExists ==
    ASSUME NEW cal, GoesOn(cal), NEW sign \in {-1, 1}
    PROVE  Walk(cal, sign) = WalkStep(cal, sign, Walk(cal, sign))
<1> DEFINE stop(j, days) == CHOOSE p : Stops(cal, sign, j, days, p)
           f == [at \in Int \X Nat |-> Landing(sign, at[1], stop(at[1], at[2]))]
<1>1. ASSUME NEW j \in Int, NEW days \in Nat
      PROVE  Stops(cal, sign, j, days, stop(j, days))
    BY SomeStop
<1>2. ASSUME NEW j \in Int, NEW days \in Nat
      PROVE  f[<<j, days>>] = Landing(sign, j, stop(j, days))
    OBVIOUS
<1> HIDE DEF stop
<1>3. ASSUME NEW j \in Int, NEW days \in Nat
      PROVE  f[<<j, days>>] =
                 IF days = 0 THEN j ELSE f[<<j + sign, Left(cal, j + sign, days)>>]
    <2>1. CASE days = 0
        <3>1. stop(j, days) = 0
            BY <1>1, <2>1 DEF Stops
        <3>2. QED
            BY <1>2, <2>1, <3>1 DEF Landing
    <2>2. CASE days # 0
        <3> DEFINE left == Left(cal, j + sign, days)
        <3>1. left \in Nat /\ j + sign \in Int
            BY <2>2 DEF Left
        <3>2. Stops(cal, sign, j + sign, left, stop(j + sign, left))
            BY <1>1, <3>1
        <3>3. /\ Stops(cal, sign, j, days, stop(j + sign, left) + 1)
              /\ Landing(sign, j + sign, stop(j + sign, left))
                     = Landing(sign, j, stop(j + sign, left) + 1)
            BY <2>2, <3>2, StopsShift
        <3>4. stop(j, days) = stop(j + sign, left) + 1
            BY <1>1, <3>3, OneStop
        <3>5. f[<<j + sign, left>>] = Landing(sign, j + sign, stop(j + sign, left))
            BY <1>2, <3>1
        <3>6. QED
            BY <1>2, <2>2, <3>3, <3>4, <3>5
    <2>3. QED
        BY <2>1, <2>2
<1>4. f = WalkStep(cal, sign, f)
    <2>1. f = [at \in Int \X Nat |-> f[at]]
        OBVIOUS
    <2>2. \A at \in Int \X Nat :
              f[at] = IF at[2] = 0 THEN at[1]
                      ELSE f[<<at[1] + sign, Left(cal, at[1] + sign, at[2])>>]
        <3> HIDE DEF f
        <3>1. QED
            BY <1>3
    <2> HIDE DEF f
    <2>3. QED
        BY <2>1, <2>2 DEF WalkStep, Left
<1> HIDE DEF f
<1>5. QED
    BY <1>4, WalkIsFixed

\* What the walk does (calendar.cpp:140-151): no more days, the next day.
LEMMA WalkEnds ==
    ASSUME NEW cal, GoesOn(cal), NEW sign \in {-1, 1}, NEW j \in Int
    PROVE  Walk(cal, sign)[<<j, 0>>] = j
<1> DEFINE w == Walk(cal, sign)
<1>1. w = WalkStep(cal, sign, w)
    BY WalkExists
<1> HIDE DEF w
<1>2. w[<<j, 0>>] = j
    BY <1>1, 0 \in Nat DEF WalkStep
<1>3. QED
    BY <1>2 DEF w

LEMMA WalkMoves ==
    ASSUME NEW cal, GoesOn(cal), NEW sign \in {-1, 1}, NEW j \in Int, NEW days \in Nat, days # 0
    PROVE  Walk(cal, sign)[<<j, days>>] = Walk(cal, sign)[<<j + sign, Left(cal, j + sign, days)>>]
<1> DEFINE w == Walk(cal, sign)
<1>1. w = WalkStep(cal, sign, w)
    BY WalkExists
<1> HIDE DEF w
<1>2. w[<<j, days>>] = w[<<j + sign, Left(cal, j + sign, days)>>]
    BY <1>1 DEF WalkStep, Left
<1>3. QED
    BY <1>2 DEF w

\* The walk ends where so many business days are passed.
THEOREM WalkStops ==
    ASSUME NEW cal, GoesOn(cal), NEW sign \in {-1, 1}, NEW j \in Int, NEW days \in Nat
    PROVE  \E p \in Nat :
               /\ Stops(cal, sign, j, days, p)
               /\ Walk(cal, sign)[<<j, days>>] = Landing(sign, j, p)
<1> DEFINE w == Walk(cal, sign)
           Ends(p) == \A i \in Int, n \in Nat :
                          Stops(cal, sign, i, n, p) => w[<<i, n>>] = Landing(sign, i, p)
           S == {p \in Nat : Ends(p)}
<1>1. ASSUME NEW i \in Int
      PROVE  w[<<i, 0>>] = i
    BY WalkEnds
<1>2. ASSUME NEW i \in Int, NEW n \in Nat, n # 0
      PROVE  w[<<i, n>>] = w[<<i + sign, Left(cal, i + sign, n)>>]
    BY <1>2, WalkMoves, Zenon
<1> HIDE DEF w
<1>3. Ends(0)
    <2>1. SUFFICES ASSUME NEW i \in Int, NEW n \in Nat, Stops(cal, sign, i, n, 0)
                   PROVE  w[<<i, n>>] = Landing(sign, i, 0)
        OBVIOUS
    <2>2. n = 0
        BY <2>1 DEF Stops, Opens
    <2>3. Landing(sign, i, 0) = i
        BY DEF Landing
    <2>4. QED
        BY <1>1, <2>2, <2>3
<1>4. ASSUME NEW p \in Nat, Ends(p)
      PROVE  Ends(p + 1)
    <2>1. SUFFICES ASSUME NEW i \in Int, NEW n \in Nat, Stops(cal, sign, i, n, p + 1)
                   PROVE  w[<<i, n>>] = Landing(sign, i, p + 1)
        OBVIOUS
    <2> DEFINE left == Left(cal, i + sign, n)
    <2>2. n # 0 /\ left \in Nat /\ i + sign \in Int
        BY <2>1 DEF Stops, Left
    <2>3. PICK q \in Nat : Stops(cal, sign, i + sign, left, q)
        BY <2>2, SomeStop
    <2>4. /\ Stops(cal, sign, i, n, q + 1)
          /\ Landing(sign, i + sign, q) = Landing(sign, i, q + 1)
        BY <2>2, <2>3, StopsShift
    <2>5. q + 1 = p + 1
        BY <2>1, <2>4, OneStop
    <2>6. q = p
        BY <2>5
    <2>7. w[<<i + sign, left>>] = Landing(sign, i + sign, p)
        BY <1>4, <2>2, <2>3, <2>6
    <2>8. QED
        BY <1>2, <2>2, <2>4, <2>6, <2>7
<1>5. \A p \in Nat : p \in S
    <2>1. 0 \in S /\ \A p \in Nat : p \in S => p + 1 \in S
        BY <1>3, <1>4
    <2> HIDE DEF S
    <2>2. QED
        BY <2>1, Induction
<1>6. PICK p \in Nat : Stops(cal, sign, j, days, p)
    BY SomeStop
<1>7. w[<<j, days>>] = Landing(sign, j, p)
    BY <1>5, <1>6
<1>8. QED
    BY <1>6, <1>7 DEF w

LEMMA WalkType ==
    ASSUME NEW cal, GoesOn(cal), NEW sign \in {-1, 1}, NEW j \in Int, NEW days \in Nat
    PROVE  /\ Walk(cal, sign)[<<j, days>>] \in Int
           /\ IF sign = 1 THEN Walk(cal, sign)[<<j, days>>] >= j
              ELSE Walk(cal, sign)[<<j, days>>] =< j
<1>1. PICK p \in Nat : Walk(cal, sign)[<<j, days>>] = Landing(sign, j, p)
    BY WalkStops
<1>2. QED
    BY <1>1 DEF Landing

\* A walk over one business day more goes further.
LEMMA WalkFurther ==
    ASSUME NEW cal, GoesOn(cal), NEW sign \in {-1, 1}, NEW j \in Int, NEW days \in Nat
    PROVE  IF sign = 1 THEN Walk(cal, sign)[<<j, days + 1>>] > Walk(cal, sign)[<<j, days>>]
           ELSE Walk(cal, sign)[<<j, days + 1>>] < Walk(cal, sign)[<<j, days>>]
<1>1. PICK p \in Nat : /\ Stops(cal, sign, j, days, p)
                       /\ Walk(cal, sign)[<<j, days>>] = Landing(sign, j, p)
    BY WalkStops
<1>2. PICK q \in Nat : q > p /\ Stops(cal, sign, j, days + 1, q)
    BY <1>1, StopsFollow
<1>3. PICK r \in Nat : /\ Stops(cal, sign, j, days + 1, r)
                       /\ Walk(cal, sign)[<<j, days + 1>>] = Landing(sign, j, r)
    BY WalkStops
<1>4. q = r
    BY <1>2, <1>3, OneStop
<1>5. QED
    BY <1>1, <1>2, <1>3, <1>4 DEF Landing

\* Walks from later days end no earlier.
LEMMA WalkKeepsOrder ==
    ASSUME NEW cal, GoesOn(cal), NEW sign \in {-1, 1}, NEW days \in Nat,
           NEW i \in Int, NEW j \in Int, i =< j
    PROVE  Walk(cal, sign)[<<i, days>>] =< Walk(cal, sign)[<<j, days>>]
<1> DEFINE w == Walk(cal, sign)
           S == {d \in Nat : w[<<i, days>>] =< w[<<i + d, days>>]}
<1>1. ASSUME NEW k \in Int
      PROVE  w[<<k, 0>>] = k
    BY WalkEnds
<1>2. ASSUME NEW k \in Int, NEW n \in Nat, n # 0
      PROVE  w[<<k, n>>] = w[<<k + sign, Left(cal, k + sign, n)>>]
    BY <1>2, WalkMoves, Zenon
<1>3. ASSUME NEW k \in Int
      PROVE  w[<<k, days>>] =< w[<<k + 1, days>>]
    <2>1. CASE days = 0
        <3>1. w[<<k, 0>>] = k /\ w[<<k + 1, 0>>] = k + 1
            BY <1>1
        <3> HIDE DEF w
        <3>2. QED
            BY <2>1, <3>1
    <2>2. CASE days # 0 /\ sign = 1
        <3>1. days - 1 \in Nat /\ (days - 1) + 1 = days /\ k + 1 \in Int
            BY <2>2
        <3>2. w[<<k + 1, days>>] > w[<<k + 1, days - 1>>]
            BY <2>2, <3>1, WalkFurther
        <3>3. w[<<k, days>>] \in {w[<<k + 1, days>>], w[<<k + 1, days - 1>>]}
            BY <1>2, <2>2 DEF Left
        <3>4. w[<<k + 1, days>>] \in Int /\ w[<<k + 1, days - 1>>] \in Int
            BY <3>1, WalkType
        <3> HIDE DEF w
        <3>5. QED
            BY <3>2, <3>3, <3>4
    <2>3. CASE days # 0 /\ sign = -1
        <3>1. days - 1 \in Nat /\ (days - 1) + 1 = days /\ k + 1 \in Int
            BY <2>3
        <3>2. w[<<k, days>>] < w[<<k, days - 1>>]
            BY <2>3, <3>1, WalkFurther
        <3>3. w[<<k + 1, days>>] \in {w[<<k, days>>], w[<<k, days - 1>>]}
            <4>1. (k + 1) + sign = k
                BY <2>3
            <4>2. QED
                BY <1>2, <2>3, <3>1, <4>1 DEF Left
        <3>4. w[<<k, days>>] \in Int /\ w[<<k, days - 1>>] \in Int
            BY <3>1, WalkType
        <3> HIDE DEF w
        <3>5. QED
            BY <3>2, <3>3, <3>4
    <2>4. QED
        BY <2>1, <2>2, <2>3
<1>4. \A k \in Int : w[<<k, days>>] \in Int
    BY WalkType
<1> HIDE DEF w
<1>5. 0 \in S /\ \A d \in Nat : d \in S => d + 1 \in S
    <2>1. 0 \in S
        BY <1>4
    <2>2. ASSUME NEW d \in Nat, d \in S PROVE d + 1 \in S
        <3>1. w[<<i + d, days>>] =< w[<<(i + d) + 1, days>>] /\ (i + d) + 1 = i + (d + 1)
            BY <1>3
        <3>2. w[<<i, days>>] \in Int /\ w[<<i + d, days>>] \in Int /\ w[<<i + (d + 1), days>>] \in Int
            BY <1>4
        <3>3. QED
            BY <2>2, <3>1, <3>2
    <2>3. QED
        BY <2>1, <2>2
<1>6. \A d \in Nat : d \in S
    <2> HIDE DEF S
    <2>1. QED
        BY <1>5, Induction
<1>7. j - i \in Nat /\ i + (j - i) = j
    OBVIOUS
<1>8. QED
    BY <1>6, <1>7 DEF w

\* The days that are never off: beyond the last holiday a weekday that is not a
\* weekend, before the first one a day whose index is negative.
LEMMA OpensEitherWay ==
    ASSUME NEW cal \in RegionData, cal.weekends # Weekdays, IsFiniteSet(cal.holidays)
    PROVE  GoesOn(cal)
<1>1. cal.holidays \subseteq Int /\ cal.weekends \subseteq 0 .. 6
    BY DEF RegionData, Weekdays
<1>2. PICK b \in Nat : \A x \in cal.holidays : -b < x /\ x < b
    BY <1>1, FiniteIsBounded
<1>3. PICK w \in 0 .. 6 : w \notin cal.weekends
    BY <1>1 DEF Weekdays
<1>4. SUFFICES ASSUME NEW sign \in {-1, 1}, NEW j \in Int, NEW p \in Nat
               PROVE  \E q \in Opens(cal, sign, j) : q > p
    BY DEF GoesOn
<1>5. ASSUME NEW k \in Int, sign = 1, k > j + p, k >= b, k % 7 = w
      PROVE  k - j \in Opens(cal, sign, j)
    <2>1. GetDOWInt(k) = w
        BY <1>5 DEF GetDOWInt, Rem, Quot
    <2>2. k \notin cal.holidays
        BY <1>2, <1>5
    <2>3. ~IsHoliday(cal, k)
        BY <1>3, <2>1, <2>2 DEF IsHoliday
    <2>4. k - j \in Nat \ {0} /\ Landing(sign, j, k - j) = k
        BY <1>5 DEF Landing
    <2>5. QED
        BY <2>3, <2>4 DEF Opens
<1>6. ASSUME NEW k \in Nat, sign = -1, -k < j - p, k >= b, k % 7 # 0
      PROVE  j + k \in Opens(cal, sign, j)
    <2>1. GetDOWInt(-k) < 0
        <3>1. k > 0 /\ -(-k) = k
            BY <1>6
        <3>2. GetDOWInt(-k) = -(k % 7)
            BY <3>1 DEF GetDOWInt, Rem, Quot
        <3>3. QED
            BY <1>6, <3>2
    <2>2. -k \notin cal.holidays
        BY <1>2, <1>6
    <2>3. ~IsHoliday(cal, -k)
        BY <1>1, <2>1, <2>2 DEF IsHoliday
    <2>4. j + k \in Nat \ {0} /\ Landing(sign, j, j + k) = -k
        BY <1>6 DEF Landing
    <2>5. QED
        BY <2>3, <2>4 DEF Opens
<1>7. CASE sign = 1
    <2>1. PICK from \in Nat : from > j + p /\ from >= b
        <3>1. j + p >= b => j + p + 1 \in Nat
            OBVIOUS
        <3>2. j + p < b => b \in Nat /\ b > j + p
            OBVIOUS
        <3>3. QED
            BY <3>1, <3>2
    <2>2. PICK k \in from .. from + 6 : k % 7 = w
        <3>1. w >= from % 7 => /\ from + (w - (from % 7)) \in from .. from + 6
                               /\ (from + (w - (from % 7))) % 7 = w
            BY <1>3
        <3>2. w < from % 7 => /\ from + (w + 7 - (from % 7)) \in from .. from + 6
                              /\ (from + (w + 7 - (from % 7))) % 7 = w
            BY <1>3
        <3>3. w >= from % 7 \/ w < from % 7
            BY <1>3
        <3>4. QED
            BY <3>1, <3>2, <3>3, Zenon
    <2>3. k - j \in Opens(cal, sign, j) /\ k - j > p
        BY <1>5, <1>7, <2>1, <2>2
    <2>4. QED
        BY <2>3
<1>8. CASE sign = -1
    <2>1. PICK from \in Nat : from > p - j /\ from >= b
        <3>1. p - j >= b => p - j + 1 \in Nat /\ p - j + 1 > p - j /\ p - j + 1 >= b
            OBVIOUS
        <3>2. ~(p - j >= b) => b \in Nat /\ b > p - j /\ b >= b
            OBVIOUS
        <3>3. QED
            BY <3>1, <3>2
    <2>2. PICK k \in {from, from + 1} : k % 7 # 0
        <3>1. from % 7 = 0 => (from + 1) % 7 # 0
            OBVIOUS
        <3>2. QED
            BY <3>1, Zenon
    <2>3. j + k \in Opens(cal, sign, j) /\ j + k > p
        <3>1. k \in Nat /\ -k < j - p /\ k >= b /\ j + k > p
            BY <2>1, <2>2
        <3>2. QED
            BY <1>6, <1>8, <2>2, <3>1
    <2>4. QED
        BY <2>3
<1>9. QED
    BY <1>7, <1>8
=============================================================================
