------------------------ MODULE BusinessCalendarProofs ------------------------
(***************************************************************************)
(* The searches for business days are right for every calendar, date and   *)
(* count.  Each loop keeps what it has seen of the days between the given  *)
(* date and its own; that is the inductive invariant.  The answers are     *)
(* those of the walks BusinessDays has as functions (CallsAnswerAsWalked), *)
(* and every loop comes to its end (LoopsComeToAnEnd).                     *)
(***************************************************************************)
EXTENDS BusinessCalendar, DatesProofs, FiniteSetTheorems

-----------------------------------------------------------------------------
(* Types *)

LEMMA QuotIsInt ==
    ASSUME NEW a \in Int, NEW b \in Int, b > 0
    PROVE  Quot(a, b) \in Int /\ Rem(a, b) \in Int
<1>1. Quot(a, b) \in Int
    BY DEF Quot
<1>2. QED
    BY <1>1 DEF Rem

\* YMD yields integers for every day number.
LEMMA YMDIsInt ==
    ASSUME NEW j \in Int
    PROVE  YMD(j).year \in Int /\ YMD(j).month \in Int /\ YMD(j).day \in Int
<1> DEFINE c == Quot(4 * j + 274277, 146097)
           f == j + 1401 + Quot(c * 3, 4) - 38
           e == 4 * f + 3
           g == Quot(Rem(e, 1461), 4)
           h == 5 * g + 2
           s == Quot(h, 153)
           month == Rem(s + 2, 12) + 1
<1>1. c \in Int
    BY QuotIsInt
<1> HIDE DEF c
<1>2. Quot(c * 3, 4) \in Int
    BY <1>1, QuotIsInt
<1>3. e \in Int
    BY <1>2
<1> HIDE DEF e
<1>4. Quot(e, 1461) \in Int /\ Rem(e, 1461) \in Int
    BY <1>3, QuotIsInt
<1>5. g \in Int
    BY <1>4, QuotIsInt
<1> HIDE DEF g
<1>6. h \in Int
    BY <1>5
<1> HIDE DEF h
<1>7. s \in Int /\ Rem(h, 153) \in Int
    BY <1>6, QuotIsInt
<1>8. Quot(Rem(h, 153), 5) \in Int
    BY <1>7, QuotIsInt
<1> HIDE DEF s
<1>9. month \in Int
    BY <1>7, QuotIsInt
<1> HIDE DEF month
<1>10. Quot(14 - month, 12) \in Int
    BY <1>9, QuotIsInt
<1>11. YMD(j) = [year |-> Quot(e, 1461) - 4716 + Quot(14 - month, 12),
                 month |-> month,
                 day |-> Quot(Rem(h, 153), 5) + 1]
    BY DEF YMD, c, f, e, g, h, s, month
<1>12. QED
    BY <1>4, <1>8, <1>9, <1>10, <1>11

LEMMA NewDateIsInt ==
    ASSUME NEW y \in Int, NEW m \in Int, NEW d \in Int
    PROVE  NewDate(y, m, d) \in Int \cup {Thrown}
BY DEF NewDate, ConvertToJulian, Quot

\* Adding a tenor yields a day number or throws.
LEMMA AddTenorType ==
    ASSUME NEW j \in Int, NEW t \in Tenor
    PROVE  AddTenor(j, t) \in Int \cup {Thrown}
<1>1. t.count \in Int
    BY DEF Tenor
<1>2. AddDays(j, t.count) \in Int /\ AddWeeks(j, t.count) \in Int
    BY <1>1 DEF AddDays, AddWeeks
<1>3. AddMonths(j, t.count) \in Int \cup {Thrown}
    <2> DEFINE from == YMD(j)
               year == NewYear(from.year, from.month, t.count)
               month == NewMonth(from.month, t.count)
               day == ClipDay(year, month, from.day)
    <2>1. from.year \in Int /\ from.month \in Int /\ from.day \in Int
        BY YMDIsInt
    <2> HIDE DEF from
    <2>2. year \in Int /\ month \in Int
        BY <1>1, <2>1 DEF NewYear, NewMonth, Quot, Rem
    <2> HIDE DEF year, month
    <2>3. day \in Int
        BY <2>1, <2>2 DEF ClipDay, DaysInMonth
    <2> HIDE DEF day
    <2>4. NewDate(year, month, day) \in Int \cup {Thrown}
        BY <2>2, <2>3, NewDateIsInt
    <2>5. QED
        BY <2>4 DEF AddMonths, from, year, month, day
<1>4. AddYears(j, t.count) \in Int \cup {Thrown}
    <2> DEFINE from == YMD(j)
               year == from.year + t.count
               day == IF ~IsLeap(year) /\ from.month = 2
                      THEN ClipDay(year, from.month, from.day)
                      ELSE from.day
    <2>1. from.year \in Int /\ from.month \in Int /\ from.day \in Int
        BY YMDIsInt
    <2> HIDE DEF from
    <2>2. year \in Int
        BY <1>1, <2>1
    <2> HIDE DEF year
    <2>3. day \in Int
        BY <2>1, <2>2 DEF ClipDay, DaysInMonth
    <2> HIDE DEF day
    <2>4. NewDate(year, from.month, day) \in Int \cup {Thrown}
        BY <2>1, <2>2, <2>3, NewDateIsInt
    <2>5. QED
        BY <2>4 DEF AddYears, from, year, day
<1>5. QED
    BY <1>2, <1>3, <1>4 DEF AddTenor

\* Unless it throws.
LEMMA AddTenorIsInt ==
    ASSUME NEW j \in Int, NEW t \in Tenor, AddTenor(j, t) # Thrown
    PROVE  AddTenor(j, t) \in Int
BY AddTenorType

LEMMA CalendarIsRegionData ==
    ASSUME NEW regions \in Data
    PROVE  Calendar(regions) \in RegionData
<1>1. \A i \in DOMAIN regions :
        regions[i].weekends \subseteq Weekdays /\ regions[i].holidays \subseteq Int
    BY DataAssumption DEF RegionData
<1>2. UNION {regions[i].weekends : i \in DOMAIN regions} \subseteq Weekdays
    BY <1>1
<1>3. UNION {regions[i].holidays : i \in DOMAIN regions} \subseteq Int
    BY <1>1
<1>4. QED
    BY <1>2, <1>3 DEF Calendar, RegionData

\* In every state the variables have their types, whatever the calendar, the
\* dates, the counts and the tenors.
THEOREM TypeCorrect == Spec => []TypeOK
<1>1. Init => TypeOK
    BY CalendarIsRegionData DEF Init, TypeOK, Calls, Rules
<1>2. ASSUME TypeOK, [Next]_vars
      PROVE  TypeOK'
    <2> USE <1>2 DEF TypeOK
    <2>1. ASSUME NEW date \in Bases, NEW number \in Counts, AddBusinessDays(number, date)
          PROVE  TypeOK'
        BY <2>1, CallAssumption DEF AddBusinessDays, Abs, Calls
    <2>2. ASSUME NEW date \in Bases, GetNextBusinessDay(date) \/ GetPrevBusinessDay(date)
          PROVE  TypeOK'
        BY <2>2, CallAssumption
        DEF GetNextBusinessDay, GetPrevBusinessDay, StartForward, StartBack, Calls
    <2>3. ASSUME NEW date \in Bases, NEW tenor \in Tenors, NEW rule \in Rules,
                 Adjust(tenor, rule, date)
          PROVE  TypeOK'
        <3>1. AddTenor(date, tenor) \in Int \cup {Thrown}
            BY AddTenorType, CallAssumption
        <3>2. CASE AddTenor(date, tenor) = Thrown
            BY <2>3, <3>2 DEF Adjust
        <3>3. CASE AddTenor(date, tenor) # Thrown
            BY <2>3, <3>1, <3>3
            DEF Adjust, AdjustDate, Return, StartForward, StartBack, Calls
        <3>4. QED
            BY <3>2, <3>3
    <2>4. CASE AddStep \/ AddDone
        BY <2>4 DEF AddStep, AddDone, Return
    <2>5. CASE ForwardStep \/ ForwardDone
        BY <2>5 DEF ForwardStep, ForwardDone, Return, StartBack
    <2>6. CASE BackStep \/ BackDone
        BY <2>6 DEF BackStep, BackDone, Return
    <2>7. CASE Leave
        BY <2>7 DEF Leave, Calls, Rules
    <2>8. CASE UNCHANGED vars
        BY <2>8 DEF vars
    <2>9. QED
        BY <2>1, <2>2, <2>3, <2>4, <2>5, <2>6, <2>7, <2>8 DEF Next, Start, Step
<1>3. QED
    BY <1>1, <1>2, PTL DEF Spec

-----------------------------------------------------------------------------
(* Counting business days *)

\* One more day, forward.
LEMMA OneMoreForward ==
    ASSUME NEW cal, NEW b \in Int, NEW c \in Int, c >= b
    PROVE  /\ Cardinality(BusinessDaysIn(cal, b + 1 .. c)) \in Nat
           /\ Cardinality(BusinessDaysIn(cal, b + 1 .. c + 1))
                = Cardinality(BusinessDaysIn(cal, b + 1 .. c))
                  + (IF IsHoliday(cal, c + 1) THEN 0 ELSE 1)
<1> DEFINE S == BusinessDaysIn(cal, b + 1 .. c)
           T == BusinessDaysIn(cal, b + 1 .. c + 1)
<1>1. IsFiniteSet(S) /\ Cardinality(S) \in Nat
    <2>1. IsFiniteSet(b + 1 .. c)
        BY FS_Interval
    <2>2. S \in SUBSET (b + 1 .. c)
        BY DEF BusinessDaysIn
    <2>3. IsFiniteSet(S)
        BY <2>1, <2>2, FS_Subset
    <2>4. QED
        BY <2>3, FS_CardinalityType
<1>2. CASE IsHoliday(cal, c + 1)
    <2>1. T = S
        BY <1>2 DEF BusinessDaysIn, IsBusinessDay
    <2>2. QED
        BY <1>1, <1>2, <2>1
<1>3. CASE ~IsHoliday(cal, c + 1)
    <2>1. T = S \cup {c + 1} /\ c + 1 \notin S
        BY <1>3 DEF BusinessDaysIn, IsBusinessDay
    <2>2. Cardinality(T) = Cardinality(S) + 1
        BY <1>1, <2>1, FS_AddElement
    <2>3. QED
        BY <1>1, <1>3, <2>2
<1>4. QED
    BY <1>2, <1>3

\* One more day, back.
LEMMA OneMoreBack ==
    ASSUME NEW cal, NEW b \in Int, NEW c \in Int, c =< b
    PROVE  /\ Cardinality(BusinessDaysIn(cal, c .. b - 1)) \in Nat
           /\ Cardinality(BusinessDaysIn(cal, c - 1 .. b - 1))
                = Cardinality(BusinessDaysIn(cal, c .. b - 1))
                  + (IF IsHoliday(cal, c - 1) THEN 0 ELSE 1)
<1> DEFINE S == BusinessDaysIn(cal, c .. b - 1)
           T == BusinessDaysIn(cal, c - 1 .. b - 1)
<1>1. IsFiniteSet(S) /\ Cardinality(S) \in Nat
    <2>1. IsFiniteSet(c .. b - 1)
        BY FS_Interval
    <2>2. S \in SUBSET (c .. b - 1)
        BY DEF BusinessDaysIn
    <2>3. IsFiniteSet(S)
        BY <2>1, <2>2, FS_Subset
    <2>4. QED
        BY <2>3, FS_CardinalityType
<1>2. CASE IsHoliday(cal, c - 1)
    <2>1. T = S
        BY <1>2 DEF BusinessDaysIn, IsBusinessDay
    <2>2. QED
        BY <1>1, <1>2, <2>1
<1>3. CASE ~IsHoliday(cal, c - 1)
    <2>1. T = S \cup {c - 1} /\ c - 1 \notin S
        BY <1>3 DEF BusinessDaysIn, IsBusinessDay
    <2>2. Cardinality(T) = Cardinality(S) + 1
        BY <1>1, <2>1, FS_AddElement
    <2>3. QED
        BY <1>1, <1>3, <2>2
<1>4. QED
    BY <1>2, <1>3

\* No day has been passed where a call starts.
LEMMA NonePassed ==
    ASSUME NEW cal, NEW b \in Int
    PROVE  Cardinality(BusinessDaysIn(cal, b + 1 .. b)) = 0
<1>1. BusinessDaysIn(cal, b + 1 .. b) = {}
    BY DEF BusinessDaysIn
<1>2. QED
    BY <1>1, FS_EmptySet

-----------------------------------------------------------------------------
(* The inductive invariant *)

\* What AddBusinessDays has counted so far, on its side of the base.
Adding ==
    /\ call = "AddBusinessDays"
    /\ number_of_days >= 0 => curr >= base
    /\ number_of_days =< 0 => curr =< base
    /\ Cardinality(BusinessDaysIn(calendar, Passed)) + days = Abs(number_of_days)
    /\ days = 0 /\ number_of_days # 0 => curr # base /\ ~Holiday(curr)

\* A search has seen nothing but holidays, and is made for one of its callers.
Forward ==
    /\ call \in {"GetNextBusinessDay", "kFollowing", "kModifiedFollowing"}
    /\ curr > base
    /\ \A j \in base + 1 .. curr - 1 : Holiday(j)
    /\ call \in Rules => Holiday(base)
Back ==
    /\ call \in {"GetPrevBusinessDay", "kPreceding", "kModifiedFollowing"}
    /\ curr < base
    /\ \A j \in curr + 1 .. base - 1 : Holiday(j)
    /\ call \in Rules => Holiday(base)

IInv ==
    /\ TypeOK
    /\ pc = "adding" => Adding
    /\ pc = "forward" => Forward
    /\ pc = "back" => Back
    /\ AddedExactly
    /\ NearestDay

\* AddStep counts the day it moves to.
LEMMA AddStepIInv ==
    ASSUME IInv, AddStep, TypeOK'
    PROVE  IInv'
<1>1. /\ pc = "adding" /\ pc' = "adding" /\ days # 0
      /\ calendar' = calendar /\ call' = call /\ base' = base
      /\ number_of_days' = number_of_days
      /\ curr' = curr + (IF number_of_days < 0 THEN -1 ELSE 1)
      /\ days' = IF IsHoliday(calendar, curr') THEN days ELSE days - 1
    BY DEF AddStep, Holiday
<1>2. curr \in Int /\ base \in Int /\ number_of_days \in Int /\ days \in Nat
    BY DEF IInv, TypeOK
<1>3. Adding
    BY <1>1 DEF IInv
<1>4. number_of_days # 0
    <2>1. CASE number_of_days = 0
        <3>1. curr = base /\ Abs(number_of_days) = 0
            BY <1>2, <1>3, <2>1 DEF Adding, Abs
        <3>2. Passed = base + 1 .. base
            BY <1>2, <3>1 DEF Passed
        <3>3. QED
            BY <1>1, <1>2, <1>3, <3>1, <3>2, NonePassed DEF Adding
    <2>2. QED
        BY <2>1
<1>5. CASE number_of_days > 0
    <2>1. curr >= base /\ curr' = curr + 1
        BY <1>1, <1>2, <1>3, <1>5 DEF Adding
    <2>2. Passed = base + 1 .. curr /\ Passed' = base + 1 .. curr + 1
        BY <1>1, <1>2, <2>1 DEF Passed
    <2>3. /\ Cardinality(BusinessDaysIn(calendar, base + 1 .. curr)) \in Nat
          /\ Cardinality(BusinessDaysIn(calendar, base + 1 .. curr + 1))
               = Cardinality(BusinessDaysIn(calendar, base + 1 .. curr))
                 + (IF IsHoliday(calendar, curr + 1) THEN 0 ELSE 1)
        BY <1>2, <2>1, OneMoreForward
    <2>4. Cardinality(BusinessDaysIn(calendar, base + 1 .. curr)) + days = Abs(number_of_days)
        BY <1>3, <2>2 DEF Adding
    <2>5. Cardinality(BusinessDaysIn(calendar, base + 1 .. curr + 1)) + days' = Abs(number_of_days)
        BY <1>1, <1>2, <2>1, <2>3, <2>4
    <2>6. days' = 0 => ~IsHoliday(calendar, curr')
        BY <1>1, <1>2
    <2>7. Adding'
        BY <1>1, <1>2, <1>3, <1>5, <2>1, <2>2, <2>5, <2>6 DEF Adding, Holiday
    <2>8. QED
        BY <1>1, <2>7 DEF IInv, AddedExactly, NearestDay
<1>6. CASE number_of_days < 0
    <2>1. curr =< base /\ curr' = curr - 1
        BY <1>1, <1>2, <1>3, <1>6 DEF Adding
    <2>2. Passed' = curr - 1 .. base - 1
        BY <1>1, <1>2, <2>1 DEF Passed
    <2>3. BusinessDaysIn(calendar, Passed) = BusinessDaysIn(calendar, curr .. base - 1)
        <3>1. CASE curr < base
            BY <1>2, <3>1 DEF Passed
        <3>2. CASE curr = base
            BY <1>2, <3>2 DEF Passed, BusinessDaysIn
        <3>3. QED
            BY <1>2, <2>1, <3>1, <3>2
    <2>4. /\ Cardinality(BusinessDaysIn(calendar, curr .. base - 1)) \in Nat
          /\ Cardinality(BusinessDaysIn(calendar, curr - 1 .. base - 1))
               = Cardinality(BusinessDaysIn(calendar, curr .. base - 1))
                 + (IF IsHoliday(calendar, curr - 1) THEN 0 ELSE 1)
        BY <1>2, <2>1, OneMoreBack
    <2>5. Cardinality(BusinessDaysIn(calendar, curr .. base - 1)) + days = Abs(number_of_days)
        BY <1>3, <2>3 DEF Adding
    <2>6. Cardinality(BusinessDaysIn(calendar, curr - 1 .. base - 1)) + days' = Abs(number_of_days)
        BY <1>1, <1>2, <2>1, <2>4, <2>5
    <2>7. days' = 0 => ~IsHoliday(calendar, curr')
        BY <1>1, <1>2
    <2>8. Adding'
        BY <1>1, <1>2, <1>3, <1>6, <2>1, <2>2, <2>6, <2>7 DEF Adding, Holiday
    <2>9. QED
        BY <1>1, <2>8 DEF IInv, AddedExactly, NearestDay
<1>7. QED
    BY <1>2, <1>4, <1>5, <1>6

\* AddBusinessDays returns once nothing is left to count.
LEMMA AddDoneIInv ==
    ASSUME IInv, AddDone, TypeOK'
    PROVE  IInv'
<1>1. /\ pc = "adding" /\ days = 0 /\ pc' = "done" /\ curr' = curr
      /\ calendar' = calendar /\ call' = call /\ base' = base
      /\ number_of_days' = number_of_days
    BY DEF AddDone, Return
<1>2. Adding /\ curr \in Int /\ base \in Int /\ number_of_days \in Int
    BY <1>1 DEF IInv, TypeOK
<1>3. Cardinality(BusinessDaysIn(calendar, Passed)) + 0 = Abs(number_of_days)
    BY <1>1, <1>2 DEF Adding
<1>4. Cardinality(BusinessDaysIn(calendar, Passed)) = Abs(number_of_days)
    <2>1. curr >= base => Cardinality(BusinessDaysIn(calendar, base + 1 .. curr)) \in Nat
        BY <1>2, OneMoreForward
    <2>2. curr =< base => Cardinality(BusinessDaysIn(calendar, curr .. base - 1)) \in Nat
        BY <1>2, OneMoreBack
    <2>3. Cardinality(BusinessDaysIn(calendar, Passed)) \in Nat
        BY <1>2, <2>1, <2>2 DEF Passed
    <2>4. QED
        BY <1>3, <2>3
<1>5. Passed' = Passed
    BY <1>1 DEF Passed
<1>6. AddedExactly'
    <2>1. /\ number_of_days = 0 => curr = base
          /\ number_of_days > 0 => curr > base /\ ~Holiday(curr)
          /\ number_of_days < 0 => curr < base /\ ~Holiday(curr)
        BY <1>1, <1>2 DEF Adding
    <2>2. QED
        BY <1>1, <1>4, <1>5, <2>1 DEF AddedExactly, Holiday
<1>7. QED
    BY <1>1, <1>2, <1>6 DEF IInv, NearestDay, Adding

\* Calls start with nothing counted or seen.
LEMMA StartIInv ==
    ASSUME IInv, Start, TypeOK'
    PROVE  IInv'
<1> USE DEF Holiday
<1>1. ASSUME NEW date \in Bases, NEW number \in Counts, AddBusinessDays(number, date)
      PROVE  IInv'
    <2>1. /\ call' = "AddBusinessDays" /\ pc' = "adding" /\ days' = Abs(number)
          /\ base' = date /\ curr' = date /\ date \in Int
          /\ number_of_days' = number /\ number \in Int
        BY <1>1, CallAssumption DEF AddBusinessDays
    <2>2. Passed' = date + 1 .. date
        BY <2>1 DEF Passed
    <2>3. Cardinality(BusinessDaysIn(calendar', date + 1 .. date)) = 0
        BY <2>1, NonePassed
    <2>4. Abs(number) \in Nat /\ (Abs(number) = 0 => number = 0)
        BY <2>1 DEF Abs
    <2>5. Adding'
        BY <2>1, <2>2, <2>3, <2>4 DEF Adding
    <2>6. QED
        BY <2>1, <2>5 DEF IInv, AddedExactly, NearestDay
<1>2. ASSUME NEW date \in Bases, GetNextBusinessDay(date)
      PROVE  IInv'
    <2>1. /\ call' = "GetNextBusinessDay" /\ pc' = "forward"
          /\ base' = date /\ curr' = date + 1 /\ date \in Int
        BY <1>2, CallAssumption DEF GetNextBusinessDay, StartForward
    <2>2. Forward'
        BY <2>1 DEF Forward, Rules
    <2>3. QED
        BY <2>1, <2>2 DEF IInv, AddedExactly, NearestDay
<1>3. ASSUME NEW date \in Bases, GetPrevBusinessDay(date)
      PROVE  IInv'
    <2>1. /\ call' = "GetPrevBusinessDay" /\ pc' = "back"
          /\ base' = date /\ curr' = date - 1 /\ date \in Int
        BY <1>3, CallAssumption DEF GetPrevBusinessDay, StartBack
    <2>2. Back'
        BY <2>1 DEF Back, Rules
    <2>3. QED
        BY <2>1, <2>2 DEF IInv, AddedExactly, NearestDay
<1>4. ASSUME NEW date \in Bases, NEW tenor \in Tenors, NEW rule \in Rules,
             Adjust(tenor, rule, date)
      PROVE  IInv'
    <2> DEFINE sum == AddTenor(date, tenor)
    <2>1. CASE sum = Thrown
        BY <1>4, <2>1 DEF Adjust, IInv, AddedExactly, NearestDay
    <2>2. CASE sum # Thrown
        <3>1. /\ call' = rule /\ base' = sum /\ AdjustDate(rule, sum)
              /\ calendar' = calendar /\ sum \in Int
            BY <1>4, <2>2, AddTenorIsInt, CallAssumption DEF Adjust
        <3> HIDE DEF sum
        <3>2. rule # "AddBusinessDays" /\ rule # "GetNextBusinessDay" /\ rule # "GetPrevBusinessDay"
            BY DEF Rules
        <3>3. CASE rule = "kPlainAdjustment" \/ ~IsHoliday(calendar, sum)
            <4>1. pc' = "done" /\ curr' = sum
                BY <3>1, <3>3 DEF AdjustDate, Return
            <4>2. Passed' \ {curr'} = {}
                BY <3>1, <4>1 DEF Passed
            <4>3. QED
                BY <3>1, <3>2, <3>3, <4>1, <4>2 DEF IInv, AddedExactly, NearestDay
        <3>4. CASE rule = "kPreceding" /\ IsHoliday(calendar, sum)
            <4>1. pc' = "back" /\ curr' = sum - 1
                BY <3>1, <3>4 DEF AdjustDate, StartBack
            <4>2. Back'
                BY <3>1, <3>4, <4>1 DEF Back
            <4>3. QED
                BY <4>1, <4>2 DEF IInv, AddedExactly, NearestDay
        <3>5. CASE rule \in {"kFollowing", "kModifiedFollowing"} /\ IsHoliday(calendar, sum)
            <4>1. pc' = "forward" /\ curr' = sum + 1
                BY <3>1, <3>5 DEF AdjustDate, StartForward
            <4>2. Forward'
                BY <3>1, <3>5, <4>1 DEF Forward
            <4>3. QED
                BY <4>1, <4>2 DEF IInv, AddedExactly, NearestDay
        <3>6. QED
            BY <3>3, <3>4, <3>5 DEF Rules
    <2>3. QED
        BY <2>1, <2>2
<1>5. QED
    BY <1>1, <1>2, <1>3, <1>4 DEF Start

\* The search forward moves on, ends, or turns round.
LEMMA ForwardIInv ==
    ASSUME IInv, ForwardStep \/ ForwardDone, TypeOK'
    PROVE  IInv'
<1> USE DEF Holiday
<1>1. /\ pc = "forward" /\ Forward /\ curr \in Int /\ base \in Int
      /\ calendar' = calendar /\ call' = call /\ base' = base
    BY DEF ForwardStep, ForwardDone, IInv, TypeOK
<1>2. CASE ForwardStep
    <2>1. pc' = "forward" /\ curr' = curr + 1 /\ IsHoliday(calendar, curr)
        BY <1>2 DEF ForwardStep
    <2>2. \A j \in base + 1 .. curr : IsHoliday(calendar, j)
        BY <1>1, <2>1 DEF Forward
    <2>3. Forward'
        BY <1>1, <2>1, <2>2 DEF Forward
    <2>4. QED
        BY <2>1, <2>3 DEF IInv, AddedExactly, NearestDay
<1>3. CASE ForwardDone /\ pc' = "done"
    <2>1. curr' = curr /\ ~IsHoliday(calendar, curr)
        BY <1>3 DEF ForwardDone, StartBack, Return
    <2>2. Passed' = base + 1 .. curr
        BY <1>1, <2>1 DEF Passed, Forward
    <2>3. \A j \in Passed' \ {curr'} : IsHoliday(calendar, j)
        BY <1>1, <2>1, <2>2 DEF Forward
    <2>4. NearestDay'
        BY <1>1, <2>1, <2>3 DEF NearestDay, Forward, Rules
    <2>5. QED
        BY <1>1, <1>3, <2>4 DEF IInv, AddedExactly, Forward
<1>4. CASE ForwardDone /\ pc' = "back"
    <2>1. curr' = base - 1 /\ call = "kModifiedFollowing"
        BY <1>4 DEF ForwardDone, StartBack, Return
    <2>2. Back'
        BY <1>1, <2>1 DEF Back, Forward, Rules
    <2>3. QED
        BY <1>4, <2>2 DEF IInv, AddedExactly, NearestDay
<1>5. QED
    BY <1>2, <1>3, <1>4 DEF ForwardDone, StartBack, Return

\* The search back moves on or ends.
LEMMA BackIInv ==
    ASSUME IInv, BackStep \/ BackDone, TypeOK'
    PROVE  IInv'
<1> USE DEF Holiday
<1>1. /\ pc = "back" /\ Back /\ curr \in Int /\ base \in Int
      /\ calendar' = calendar /\ call' = call /\ base' = base
    BY DEF BackStep, BackDone, IInv, TypeOK
<1>2. CASE BackStep
    <2>1. pc' = "back" /\ curr' = curr - 1 /\ IsHoliday(calendar, curr)
        BY <1>2 DEF BackStep
    <2>2. \A j \in curr .. base - 1 : IsHoliday(calendar, j)
        BY <1>1, <2>1 DEF Back
    <2>3. Back'
        BY <1>1, <2>1, <2>2 DEF Back
    <2>4. QED
        BY <2>1, <2>3 DEF IInv, AddedExactly, NearestDay
<1>3. CASE BackDone
    <2>1. pc' = "done" /\ curr' = curr /\ ~IsHoliday(calendar, curr)
        BY <1>3 DEF BackDone, Return
    <2>2. Passed' = curr .. base - 1
        BY <1>1, <2>1 DEF Passed, Back
    <2>3. \A j \in Passed' \ {curr'} : IsHoliday(calendar, j)
        BY <1>1, <2>1, <2>2 DEF Back
    <2>4. NearestDay'
        BY <1>1, <2>1, <2>3 DEF NearestDay, Back, Rules
    <2>5. QED
        BY <1>1, <2>1, <2>4 DEF IInv, AddedExactly, Back
<1>4. QED
    BY <1>2, <1>3

THEOREM Invariance == Spec => []IInv
<1>1. Init => IInv
    <2>1. Init => TypeOK
        BY CalendarIsRegionData DEF Init, TypeOK, Calls, Rules
    <2>2. QED
        BY <2>1 DEF Init, IInv, AddedExactly, NearestDay
<1>2. ASSUME IInv, [Next]_vars, TypeOK'
      PROVE  IInv'
    <2>1. CASE Start
        BY <1>2, <2>1, StartIInv
    <2>2. CASE AddStep
        BY <1>2, <2>2, AddStepIInv
    <2>3. CASE AddDone
        BY <1>2, <2>3, AddDoneIInv
    <2>4. CASE ForwardStep \/ ForwardDone
        BY <1>2, <2>4, ForwardIInv
    <2>5. CASE BackStep \/ BackDone
        BY <1>2, <2>5, BackIInv
    <2>6. CASE Leave
        BY <1>2, <2>6 DEF Leave, IInv, AddedExactly, NearestDay
    <2>7. CASE UNCHANGED vars
        BY <1>2, <2>7
        DEF vars, IInv, Adding, Forward, Back, AddedExactly, NearestDay, Passed, Holiday
    <2>8. QED
        BY <1>2, <2>1, <2>2, <2>3, <2>4, <2>5, <2>6, <2>7 DEF Next, Step
<1>3. QED
    BY <1>1, <1>2, TypeCorrect, PTL DEF Spec

\* AddBusinessDays passes exactly the number of business days it was asked to.
THEOREM BusinessDaysAreCounted == Spec => []AddedExactly
BY Invariance, PTL DEF IInv

\* A search or a rule ends on the nearest business day on its side.
THEOREM NearestDayIsFound == Spec => []NearestDay
BY Invariance, PTL DEF IInv

-----------------------------------------------------------------------------
(* Modified following *)

\* The month of a date, within the days that are looked at.
LEMMA DaysOfTheMonth ==
    ASSUME NEW b \in Int, b >= FirstDay + 30, NEW j \in Int
    PROVE  /\ j \in MonthOf(b) => j >= FirstDay /\ MonthIndex(j) = MonthIndex(b)
           /\ j >= FirstDay /\ MonthIndex(j) = MonthIndex(b) => j \in MonthOf(b)
           /\ b \in MonthOf(b)
<1>1. FirstDay = 38
    BY DEF FirstDay, ConvertToJulian, Quot
<1>2. j \in MonthOf(b) => j >= FirstDay /\ MonthIndex(j) = MonthIndex(b)
    BY <1>1 DEF MonthOf, MonthIndex
<1>3. ASSUME j >= FirstDay, MonthIndex(j) = MonthIndex(b) PROVE j \in MonthOf(b)
    <2>1. /\ YMD(b).year = YMD(j).year /\ YMD(b).month = YMD(j).month
          /\ j - b = YMD(j).day - YMD(b).day
        BY <1>1, <1>3, MonthsFollow
    <2>2. YMD(j).day \in 1 .. 31 /\ YMD(b).day \in 1 .. 31
        BY <1>1, <1>3, EveryDayHasADate DEF IsDate
    <2>3. QED
        BY <2>1, <2>2 DEF MonthOf
<1>4. b \in MonthOf(b)
    BY DEF MonthOf
<1>5. QED
    BY <1>2, <1>3, <1>4

\* The month of the same name a year later is eleven months off.
LEMMA SameNameNextYear ==
    ASSUME NEW i \in Int, i >= FirstDay, NEW j \in Int, i =< j, j =< i + 330,
           YMD(i).month = YMD(j).month
    PROVE  MonthIndex(i) = MonthIndex(j)
<1> DEFINE y == YMD(i).year
           m == YMD(i).month
           d == YMD(i).day
           z == YMD(j).year
           e == YMD(j).day
<1>1. FirstDay = 38
    BY DEF FirstDay, ConvertToJulian, Quot
<1>2. /\ y \in Int /\ m \in Int /\ d \in Int /\ IsDate(y, m, d)
      /\ ConvertToJulian(y, m, d) = i
      /\ MonthIndex(i) = 12 * y + m
    BY EveryDayHasADate DEF MonthIndex
<1>3. /\ z \in Int /\ e \in Int /\ IsDate(z, m, e)
      /\ ConvertToJulian(z, m, e) = j
      /\ MonthIndex(j) = 12 * z + m
    BY <1>1, EveryDayHasADate DEF MonthIndex
<1>4. MonthIndex(i) =< MonthIndex(j)
    BY <1>1, MonthsFollow
<1> HIDE DEF y, m, d, z, e
<1>5. y =< z
    BY <1>2, <1>3, <1>4
<1>6. ASSUME y < z PROVE FALSE
    <2>1. m \in 1 .. 12 /\ d \in 1 .. 31 /\ e \in 1 .. 31 /\ y >= -4712
        BY <1>2, <1>3 DEF IsDate
    <2>2. ConvertToJulian(z, m, 1) >= ConvertToJulian(y, m, 1) + 365
        BY <1>2, <1>3, <1>6, <2>1 DEF ConvertToJulian, Quot
    <2>3. /\ ConvertToJulian(y, m, d) = ConvertToJulian(y, m, 1) + d - 1
          /\ ConvertToJulian(z, m, e) = ConvertToJulian(z, m, 1) + e - 1
          /\ ConvertToJulian(y, m, 1) \in Int /\ ConvertToJulian(z, m, 1) \in Int
        BY <1>2, <1>3, InMonth
    <2>4. QED
        BY <1>2, <1>3, <2>1, <2>2, <2>3
<1>7. QED
    BY <1>2, <1>3, <1>5, <1>6

\* There is no run of 300 days without a business day.
LEMMA OpensAgain ==
    ASSUME NEW regions \in Data, NEW j \in Int, j >= 0
    PROVE  \E k \in j .. j + 300 : ~IsHoliday(Calendar(regions), k)
<1> DEFINE open == Calendar(regions)
<1>1. open \in RegionData /\ open.weekends # Weekdays
    BY CalendarIsRegionData, OpenAssumption
<1>2. \A i \in open.holidays : \E k \in i .. i + 290 : ~IsHoliday(open, k)
    BY OpenAssumption DEF IsBusinessDay
<1> HIDE DEF open
<1>3. PICK w \in 0 .. 6 : w \notin open.weekends
    BY <1>1 DEF RegionData, Weekdays
<1>4. \E k \in j .. j + 6 : k % 7 = w
    <2>1. w >= j % 7 => j + (w - (j % 7)) \in j .. j + 6 /\ (j + (w - (j % 7))) % 7 = w
        BY <1>3
    <2>2. w < j % 7 => j + (w + 7 - (j % 7)) \in j .. j + 6 /\ (j + (w + 7 - (j % 7))) % 7 = w
        BY <1>3
    <2>3. w >= j % 7 \/ w < j % 7
        BY <1>3
    <2>4. QED
        BY <2>1, <2>2, <2>3
<1>5. PICK k \in j .. j + 6 : k % 7 = w
    BY <1>4
<1>6. GetDOWInt(k) = w
    BY <1>5 DEF GetDOWInt, Rem, Quot
<1>7. CASE k \in open.holidays
    <2>1. PICK l \in k .. k + 290 : ~IsHoliday(open, l)
        BY <1>2, <1>7
    <2>2. l \in j .. j + 300
        BY <1>5
    <2>3. QED
        BY <2>1, <2>2 DEF open
<1>8. CASE k \notin open.holidays
    <2>1. ~IsHoliday(open, k) /\ k \in j .. j + 300
        BY <1>3, <1>5, <1>6, <1>8 DEF IsHoliday
    <2>2. QED
        BY <2>1 DEF open
<1>9. QED
    BY <1>7, <1>8

\* What the searches of modified following know: the one forward has not gone
\* a year, and the one back was begun because the month has no day left.
Modified ==
    call = "kModifiedFollowing" =>
        /\ pc \in {"forward", "back", "done"} => base >= NewDate(-4711, 1, 1)
        /\ pc = "forward" => curr =< base + 301
        /\ pc = "back" => \A j \in MonthOf(base) : j >= base => Holiday(j)

MonthInv ==
    /\ calendar \in {Calendar(regions) : regions \in Data}
    /\ Modified
    /\ StaysInMonth

LEMMA FirstFormula == NewDate(-4711, 1, 1) = 404 /\ FirstDay = 38
BY DEF NewDate, FirstDay, ConvertToJulian, DaysInMonth, Quot

LEMMA StartMonth ==
    ASSUME IInv, MonthInv, Start
    PROVE  MonthInv'
<1> USE DEF Holiday
<1>1. calendar' = calendar
    BY DEF Start, AddBusinessDays, GetNextBusinessDay, GetPrevBusinessDay, Adjust
<1>2. ASSUME NEW date \in Bases, NEW tenor \in Tenors, NEW rule \in Rules,
             Adjust(tenor, rule, date)
      PROVE  MonthInv'
    <2> DEFINE sum == AddTenor(date, tenor)
    <2>1. CASE sum = Thrown
        BY <1>1, <1>2, <2>1 DEF Adjust, MonthInv, Modified, StaysInMonth
    <2>2. CASE sum # Thrown
        <3>1. /\ call' = rule /\ base' = sum /\ AdjustDate(rule, sum)
              /\ sum \in Int /\ sum >= NewDate(-4711, 1, 1)
            BY <1>2, <2>2, AddTenorIsInt, CallAssumption, FormulaAssumption DEF Adjust
        <3>2. sum \in MonthOf(sum)
            BY <3>1, DaysOfTheMonth, FirstFormula
        <3> HIDE DEF sum
        <3>3. CASE rule # "kModifiedFollowing"
            BY <1>1, <3>1, <3>3 DEF MonthInv, Modified, StaysInMonth
        <3>4. CASE rule = "kModifiedFollowing" /\ ~IsHoliday(calendar, sum)
            <4>1. pc' = "done" /\ curr' = sum
                BY <3>1, <3>4 DEF AdjustDate, Return
            <4>2. Modified' /\ StaysInMonth'
                BY <3>1, <3>2, <4>1 DEF Modified, StaysInMonth
            <4>3. QED
                BY <1>1, <4>2 DEF MonthInv
        <3>5. CASE rule = "kModifiedFollowing" /\ IsHoliday(calendar, sum)
            <4>1. pc' = "forward" /\ curr' = sum + 1
                BY <3>1, <3>5 DEF AdjustDate, StartForward
            <4>2. Modified' /\ StaysInMonth'
                BY <3>1, <4>1 DEF Modified, StaysInMonth
            <4>3. QED
                BY <1>1, <4>2 DEF MonthInv
        <3>6. QED
            BY <3>3, <3>4, <3>5
    <2>3. QED
        BY <2>1, <2>2
<1>3. ASSUME call' \in {"AddBusinessDays", "GetNextBusinessDay", "GetPrevBusinessDay"}
      PROVE  MonthInv'
    BY <1>1, <1>3 DEF MonthInv, Modified, StaysInMonth
<1>4. QED
    BY <1>2, <1>3 DEF Start, AddBusinessDays, GetNextBusinessDay, GetPrevBusinessDay

\* The search forward ends in the month, or has seen the rest of it.
LEMMA ForwardMonth ==
    ASSUME IInv, MonthInv, ForwardStep \/ ForwardDone
    PROVE  MonthInv'
<1> USE DEF Holiday
<1>1. /\ pc = "forward" /\ curr \in Int /\ base \in Int
      /\ calendar' = calendar /\ call' = call /\ base' = base
      /\ Forward
    BY DEF ForwardStep, ForwardDone, IInv, TypeOK
<1>2. CASE call # "kModifiedFollowing"
    BY <1>1, <1>2 DEF MonthInv, Modified, StaysInMonth
<1>3. CASE call = "kModifiedFollowing"
    <2>1. /\ base >= 404 /\ curr =< base + 301
          /\ base < curr /\ \A j \in base .. curr - 1 : IsHoliday(calendar, j)
        BY <1>1, <1>3, FirstFormula DEF MonthInv, Modified, Forward, Rules
    <2>2. CASE ForwardStep
        <3>1. pc' = "forward" /\ curr' = curr + 1 /\ IsHoliday(calendar, curr)
            BY <2>2 DEF ForwardStep
        <3>2. PICK k \in base .. base + 300 : ~IsHoliday(calendar, k)
            BY <1>1, <2>1, OpensAgain DEF MonthInv
        <3>3. curr =< base + 300
            <4>1. k \in Int /\ base =< k /\ k =< base + 300 /\ k # curr
                BY <1>1, <3>1, <3>2
            <4>2. ~(k =< curr - 1)
                BY <1>1, <2>1, <3>2, <4>1
            <4>3. QED
                BY <1>1, <4>1, <4>2
        <3>4. Modified' /\ StaysInMonth'
            BY <1>1, <1>3, <2>1, <3>1, <3>3, FirstFormula DEF Modified, StaysInMonth
        <3>5. QED
            BY <1>1, <3>4 DEF MonthInv
    <2>3. CASE ForwardDone /\ Month(base) = Month(curr)
        <3>1. pc' = "done" /\ curr' = curr
            BY <2>3 DEF ForwardDone, Return
        <3>2. YMD(base).month = YMD(curr).month
            BY <2>3 DEF Month
        <3>3. MonthIndex(base) = MonthIndex(curr)
            BY <1>1, <2>1, <3>2, SameNameNextYear, FirstFormula
        <3>4. curr \in MonthOf(base)
            BY <1>1, <2>1, <3>3, DaysOfTheMonth, FirstFormula
        <3>5. Modified' /\ StaysInMonth'
            BY <1>1, <1>3, <2>1, <3>1, <3>4, FirstFormula DEF Modified, StaysInMonth
        <3>6. QED
            BY <1>1, <3>5 DEF MonthInv
    <2>4. CASE ForwardDone /\ Month(base) # Month(curr)
        <3>1. pc' = "back" /\ curr' = base - 1
            BY <1>3, <2>4 DEF ForwardDone, StartBack
        <3>2. MonthIndex(base) < MonthIndex(curr)
            <4>1. /\ MonthIndex(base) \in Int /\ MonthIndex(curr) \in Int
                  /\ MonthIndex(base) =< MonthIndex(curr)
                  /\ MonthIndex(base) = MonthIndex(curr) => YMD(base).month = YMD(curr).month
                BY <1>1, <2>1, MonthsFollow, FirstFormula
            <4>2. QED
                BY <2>4, <4>1 DEF Month
        <3>3. ASSUME NEW j \in MonthOf(base), j >= base PROVE IsHoliday(calendar, j)
            <4>1. j \in Int
                BY <1>1 DEF MonthOf
            <4>2. j >= FirstDay /\ MonthIndex(j) = MonthIndex(base)
                BY <1>1, <2>1, <4>1, <3>3, DaysOfTheMonth, FirstFormula
            <4>3. j < curr
                BY <1>1, <2>1, <3>2, <4>1, <4>2, MonthsFollow, FirstFormula
            <4>4. QED
                BY <1>1, <2>1, <3>3, <4>1, <4>3
        <3>4. Modified' /\ StaysInMonth'
            BY <1>1, <1>3, <2>1, <3>1, <3>3, FirstFormula DEF Modified, StaysInMonth
        <3>5. QED
            BY <1>1, <3>4 DEF MonthInv
    <2>5. QED
        BY <2>2, <2>3, <2>4
<1>4. QED
    BY <1>2, <1>3

\* The search back ends in the month if there is a business day in it, since
\* none comes after the date.
LEMMA BackMonth ==
    ASSUME IInv, MonthInv, BackStep \/ BackDone
    PROVE  MonthInv'
<1> USE DEF Holiday
<1>1. /\ pc = "back" /\ curr \in Int /\ base \in Int
      /\ calendar' = calendar /\ call' = call /\ base' = base
      /\ Back
    BY DEF BackStep, BackDone, IInv, TypeOK
<1>2. CASE call # "kModifiedFollowing"
    BY <1>1, <1>2 DEF MonthInv, Modified, StaysInMonth
<1>3. CASE call = "kModifiedFollowing" /\ BackStep
    BY <1>1, <1>3 DEF MonthInv, Modified, StaysInMonth, BackStep
<1>4. CASE call = "kModifiedFollowing" /\ BackDone
    <2>1. /\ pc' = "done" /\ curr' = curr /\ curr < base /\ base >= 404
          /\ \A j \in MonthOf(base) : j >= base => IsHoliday(calendar, j)
          /\ \A j \in curr + 1 .. base - 1 : IsHoliday(calendar, j)
        BY <1>1, <1>4, FirstFormula DEF BackDone, Return, MonthInv, Modified, Back
    <2>2. ASSUME BusinessDaysIn(calendar, MonthOf(base)) # {} PROVE curr \in MonthOf(base)
        <3>1. PICK j \in MonthOf(base) : ~IsHoliday(calendar, j)
            BY <2>2 DEF BusinessDaysIn, IsBusinessDay
        <3>2. j \in Int
            BY <1>1 DEF MonthOf
        <3>3. j =< curr
            <4>1. j < base
                BY <1>1, <2>1, <3>1, <3>2
            <4>2. j \notin curr + 1 .. base - 1
                BY <1>1, <2>1, <3>1, <3>2
            <4>3. QED
                BY <1>1, <3>2, <4>1, <4>2
        <3>4. j >= FirstDay /\ MonthIndex(j) = MonthIndex(base)
            BY <1>1, <2>1, <3>1, <3>2, DaysOfTheMonth, FirstFormula
        <3>5. /\ MonthIndex(j) =< MonthIndex(curr) /\ MonthIndex(curr) =< MonthIndex(base)
              /\ MonthIndex(curr) \in Int /\ MonthIndex(base) \in Int /\ curr >= FirstDay
            <4>1. curr >= FirstDay
                BY <1>1, <3>2, <3>3, <3>4, FirstFormula
            <4>2. MonthIndex(j) =< MonthIndex(curr)
                BY <1>1, <3>2, <3>3, <3>4, <4>1, MonthsFollow
            <4>3. /\ MonthIndex(curr) =< MonthIndex(base)
                  /\ MonthIndex(curr) \in Int /\ MonthIndex(base) \in Int
                BY <1>1, <2>1, <4>1, MonthsFollow, FirstFormula
            <4>4. QED
                BY <4>1, <4>2, <4>3
        <3>6. MonthIndex(curr) = MonthIndex(base)
            BY <3>4, <3>5
        <3>7. QED
            BY <1>1, <2>1, <3>5, <3>6, DaysOfTheMonth, FirstFormula
    <2>3. Modified' /\ StaysInMonth'
        BY <1>1, <1>4, <2>1, <2>2, FirstFormula DEF Modified, StaysInMonth
    <2>4. QED
        BY <1>1, <2>3 DEF MonthInv
<1>5. QED
    BY <1>2, <1>3, <1>4

\* Modified following stays in the month if that has a business day, and goes
\* back only if it has none left.
THEOREM MonthIsKept == Spec => []StaysInMonth
<1>1. Init => MonthInv
    BY DEF Init, MonthInv, Modified, StaysInMonth
<1>2. ASSUME IInv, MonthInv, [Next]_vars
      PROVE  MonthInv'
    <2>1. CASE Start
        BY <1>2, <2>1, StartMonth
    <2>2. CASE AddStep \/ AddDone
        <3>1. calendar' = calendar /\ call = "AddBusinessDays" /\ call' = call
            BY <1>2, <2>2 DEF AddStep, AddDone, IInv, Adding
        <3>2. QED
            BY <1>2, <3>1 DEF MonthInv, Modified, StaysInMonth
    <2>3. CASE ForwardStep \/ ForwardDone
        BY <1>2, <2>3, ForwardMonth
    <2>4. CASE BackStep \/ BackDone
        BY <1>2, <2>4, BackMonth
    <2>5. CASE Leave
        BY <1>2, <2>5 DEF Leave, MonthInv, Modified, StaysInMonth
    <2>6. CASE UNCHANGED vars
        BY <1>2, <2>6 DEF vars, MonthInv, Modified, StaysInMonth, Holiday
    <2>7. QED
        BY <1>2, <2>1, <2>2, <2>3, <2>4, <2>5, <2>6 DEF Next, Step
<1>3. MonthInv => StaysInMonth
    BY DEF MonthInv
<1>4. QED
    BY <1>1, <1>2, <1>3, Invariance, PTL DEF Spec

-----------------------------------------------------------------------------
(* What calls answer, and when *)

\* The direction of AddBusinessDays, and where it ends from a day on.
Sign == IF number_of_days < 0 THEN -1 ELSE 1
Added(date, left) == Walk(calendar, Sign)[<<date, left>>]

\* The business day after or before a day: one business day added.
Following(date) == Walk(calendar, 1)[<<date, 1>>]
Preceding(date) == Walk(calendar, -1)[<<date, 1>>]

\* What a call answers.
Answer ==
    IF call = "AddBusinessDays" THEN Added(base, Abs(number_of_days))
    ELSE IF call = "GetNextBusinessDay" THEN Following(base)
    ELSE IF call = "GetPrevBusinessDay" THEN Preceding(base)
    ELSE IF call = "kPlainAdjustment" \/ ~Holiday(base) THEN base
    ELSE IF call = "kPreceding" THEN Preceding(base)
    ELSE IF call = "kFollowing" \/ Month(base) = Month(Following(base)) THEN Following(base)
    ELSE Preceding(base)

AnswersAsWalked == pc = "done" => curr = Answer

\* The loop invariants: where the rest of a loop leads is where it led all along.
Leading ==
    /\ pc = "adding" => Added(curr, days) = Added(base, Abs(number_of_days))
    /\ pc = "forward" => Following(curr - 1) = Following(base)
    /\ pc = "back" =>
           /\ Preceding(curr + 1) = Preceding(base)
           /\ call = "kModifiedFollowing" => Month(base) # Month(Following(base))

WalkInv ==
    /\ calendar \in {Calendar(regions) : regions \in Data}
    /\ Leading
    /\ AnswersAsWalked

LEMMA DaysGoOn ==
    ASSUME NEW regions \in Data
    PROVE  GoesOn(Calendar(regions))
<1>1. /\ Calendar(regions) \in RegionData
      /\ Calendar(regions).weekends # Weekdays
      /\ IsFiniteSet(Calendar(regions).holidays)
    BY CalendarIsRegionData, DataAssumption, OpenAssumption
<1>2. QED
    BY <1>1, OpensEitherWay

\* The next business day is the next day, if that is open, and beyond otherwise.
LEMMA NextDay ==
    ASSUME NEW cal, GoesOn(cal), NEW sign \in {-1, 1}, NEW j \in Int
    PROVE  Walk(cal, sign)[<<j, 1>>] =
               IF IsHoliday(cal, j + sign) THEN Walk(cal, sign)[<<j + sign, 1>>] ELSE j + sign
<1>1. j + sign \in Int
    OBVIOUS
<1>2. Walk(cal, sign)[<<j, 1>>] = Walk(cal, sign)[<<j + sign, Left(cal, j + sign, 1)>>]
    <2>1. \A n \in Nat : n # 0 =>
              Walk(cal, sign)[<<j, n>>] = Walk(cal, sign)[<<j + sign, Left(cal, j + sign, n)>>]
        BY WalkMoves, Zenon
    <2>2. QED
        BY <2>1
<1>3. Walk(cal, sign)[<<j + sign, 0>>] = j + sign
    BY <1>1, WalkEnds, Zenon
<1>4. Left(cal, j + sign, 1) = IF IsHoliday(cal, j + sign) THEN 1 ELSE 0
    BY DEF Left
<1>5. QED
    BY <1>2, <1>3, <1>4

LEMMA AddStepLeads ==
    ASSUME IInv, WalkInv, AddStep
    PROVE  WalkInv'
<1>1. /\ pc = "adding" /\ pc' = "adding" /\ days # 0
      /\ calendar' = calendar /\ call' = call /\ base' = base
      /\ number_of_days' = number_of_days
      /\ curr' = curr + (IF number_of_days < 0 THEN -1 ELSE 1)
      /\ days' = IF IsHoliday(calendar, curr') THEN days ELSE days - 1
    BY DEF AddStep, Holiday
<1>2. curr \in Int /\ days \in Nat /\ Sign \in {-1, 1} /\ GoesOn(calendar)
    BY DaysGoOn DEF IInv, TypeOK, WalkInv, Sign
<1>3. Walk(calendar, Sign)[<<curr, days>>]
          = Walk(calendar, Sign)[<<curr + Sign, Left(calendar, curr + Sign, days)>>]
    BY <1>1, <1>2, WalkMoves, Zenon
<1>4. curr' = curr + Sign /\ days' = Left(calendar, curr + Sign, days)
    BY <1>1 DEF Sign, Left
<1>5. Added(curr, days) = Added(curr', days')
    BY <1>3, <1>4 DEF Added
<1>6. /\ Added(curr', days') = Added(curr, days)'
      /\ Added(base, Abs(number_of_days))' = Added(base, Abs(number_of_days))
    BY <1>1 DEF Added, Sign
<1>7. QED
    BY <1>1, <1>5, <1>6 DEF WalkInv, Leading, AnswersAsWalked

LEMMA AddDoneLeads ==
    ASSUME IInv, WalkInv, AddDone
    PROVE  WalkInv'
<1>1. /\ pc = "adding" /\ pc' = "done" /\ days = 0 /\ call = "AddBusinessDays"
      /\ calendar' = calendar /\ call' = call /\ base' = base
      /\ number_of_days' = number_of_days /\ curr' = curr
    BY DEF AddDone, Return, IInv, Adding
<1>2. curr \in Int /\ Sign \in {-1, 1} /\ GoesOn(calendar)
    BY DaysGoOn DEF IInv, TypeOK, WalkInv, Sign
<1>3. Added(curr, 0) = curr
    BY <1>2, WalkEnds DEF Added
<1>4. curr = Added(base, Abs(number_of_days))
    BY <1>1, <1>3 DEF WalkInv, Leading
<1>5. Added(base, Abs(number_of_days))' = Added(base, Abs(number_of_days))
    BY <1>1 DEF Added, Sign
<1>6. QED
    BY <1>1, <1>4, <1>5 DEF WalkInv, Leading, AnswersAsWalked, Answer

LEMMA ForwardLeads ==
    ASSUME IInv, WalkInv, ForwardStep \/ ForwardDone
    PROVE  WalkInv'
<1>1. /\ pc = "forward" /\ Forward /\ curr \in Int /\ base \in Int
      /\ calendar' = calendar /\ call' = call /\ base' = base
      /\ Following(curr - 1) = Following(base) /\ GoesOn(calendar)
    BY DaysGoOn DEF ForwardStep, ForwardDone, IInv, TypeOK, WalkInv, Leading
<1>2. Following(curr - 1) = IF Holiday(curr) THEN Following(curr) ELSE curr
    <2>1. curr - 1 \in Int /\ (curr - 1) + 1 = curr
        BY <1>1
    <2>2. QED
        BY <1>1, <2>1, NextDay DEF Following, Holiday
<1>3. /\ \A j : Following(j)' = Following(j) /\ Preceding(j)' = Preceding(j)
      /\ Holiday(base)' = Holiday(base) /\ Month(base)' = Month(base)
    BY <1>1 DEF Following, Preceding, Holiday, Month
<1>4. CASE ForwardStep
    <2>1. pc' = "forward" /\ curr' = curr + 1 /\ Holiday(curr)
        BY <1>4 DEF ForwardStep
    <2>2. Following(curr' - 1) = Following(base)
        BY <1>1, <1>2, <2>1
    <2>3. QED
        BY <1>1, <1>3, <2>1, <2>2 DEF WalkInv, Leading, AnswersAsWalked, Following
<1>5. CASE ForwardDone
    <2>1. ~Holiday(curr) /\ Following(base) = curr
        BY <1>1, <1>2, <1>5 DEF ForwardDone
    <2>2. CASE call = "kModifiedFollowing" /\ Month(base) # Month(curr)
        <3>1. pc' = "back" /\ curr' = base - 1
            BY <1>5, <2>2 DEF ForwardDone, StartBack
        <3>2. curr' + 1 = base
            BY <1>1, <3>1
        <3>3. Preceding(curr + 1)' = Preceding(base)
            BY <1>1, <3>2 DEF Preceding
        <3>4. Month(base)' # Month(Following(base))'
            BY <1>1, <2>1, <2>2 DEF Month, Following
        <3>5. Preceding(base)' = Preceding(base)
            BY <1>1 DEF Preceding
        <3>6. QED
            BY <1>1, <3>1, <3>3, <3>4, <3>5 DEF WalkInv, Leading, AnswersAsWalked
    <2>3. CASE ~(call = "kModifiedFollowing" /\ Month(base) # Month(curr))
        <3>1. pc' = "done" /\ curr' = curr
            BY <1>5, <2>3 DEF ForwardDone, Return
        <3>2. /\ call \in {"GetNextBusinessDay", "kFollowing", "kModifiedFollowing"}
              /\ call \in Rules => Holiday(base)
            BY <1>1 DEF Forward
        <3>3. curr = Answer
            BY <2>1, <2>3, <3>2 DEF Answer, Rules
        <3>4. Answer' = Answer
            BY <1>1, <3>2 DEF Answer, Following, Preceding, Holiday, Month
        <3>5. QED
            BY <1>1, <3>1, <3>3, <3>4 DEF WalkInv, Leading, AnswersAsWalked
    <2>4. QED
        BY <2>2, <2>3
<1>6. QED
    BY <1>4, <1>5

LEMMA BackLeads ==
    ASSUME IInv, WalkInv, BackStep \/ BackDone
    PROVE  WalkInv'
<1>1. /\ pc = "back" /\ Back /\ curr \in Int /\ base \in Int
      /\ calendar' = calendar /\ call' = call /\ base' = base
      /\ Preceding(curr + 1) = Preceding(base) /\ GoesOn(calendar)
      /\ call = "kModifiedFollowing" => Month(base) # Month(Following(base))
    BY DaysGoOn DEF BackStep, BackDone, IInv, TypeOK, WalkInv, Leading
<1>2. Preceding(curr + 1) = IF Holiday(curr) THEN Preceding(curr) ELSE curr
    <2>1. curr + 1 \in Int /\ (curr + 1) + (-1) = curr
        BY <1>1
    <2>2. QED
        BY <1>1, <2>1, NextDay DEF Preceding, Holiday
<1>3. CASE BackStep
    <2>1. pc' = "back" /\ curr' = curr - 1 /\ Holiday(curr) /\ curr' + 1 = curr
        BY <1>1, <1>3 DEF BackStep
    <2>2. Preceding(curr + 1)' = Preceding(base)
        BY <1>1, <1>2, <2>1 DEF Preceding
    <2>3. /\ Preceding(base)' = Preceding(base)
          /\ Month(base)' = Month(base) /\ Month(Following(base))' = Month(Following(base))
        BY <1>1 DEF Preceding, Following, Month
    <2>4. QED
        BY <1>1, <2>1, <2>2, <2>3 DEF WalkInv, Leading, AnswersAsWalked
<1>4. CASE BackDone
    <2>1. pc' = "done" /\ curr' = curr /\ Preceding(base) = curr
        BY <1>1, <1>2, <1>4 DEF BackDone, Return
    <2>2. /\ call \in {"GetPrevBusinessDay", "kPreceding", "kModifiedFollowing"}
          /\ call \in Rules => Holiday(base)
        BY <1>1 DEF Back
    <2>3. curr = Answer
        BY <1>1, <2>1, <2>2 DEF Answer, Rules
    <2>4. Answer' = Answer
        BY <1>1, <2>2 DEF Answer, Following, Preceding, Holiday, Month
    <2>5. QED
        BY <1>1, <2>1, <2>3, <2>4 DEF WalkInv, Leading, AnswersAsWalked
<1>5. QED
    BY <1>3, <1>4

LEMMA StartLeads ==
    ASSUME IInv, WalkInv, Start
    PROVE  WalkInv'
<1> USE DEF Holiday
<1>1. calendar' = calendar /\ pc = "idle"
    BY DEF Start, AddBusinessDays, GetNextBusinessDay, GetPrevBusinessDay, Adjust
<1>2. ASSUME NEW date \in Bases, NEW number \in Counts, AddBusinessDays(number, date)
      PROVE  WalkInv'
    BY <1>1, <1>2 DEF AddBusinessDays, WalkInv, Leading, AnswersAsWalked, Added, Sign, Abs
<1>3. ASSUME NEW date \in Bases, GetNextBusinessDay(date)
      PROVE  WalkInv'
    <2>1. pc' = "forward" /\ base' = date /\ curr' = date + 1 /\ curr' - 1 = date
        BY <1>3, CallAssumption DEF GetNextBusinessDay, StartForward
    <2>2. QED
        BY <1>1, <2>1 DEF WalkInv, Leading, AnswersAsWalked, Following
<1>4. ASSUME NEW date \in Bases, GetPrevBusinessDay(date)
      PROVE  WalkInv'
    <2>1. /\ pc' = "back" /\ base' = date /\ curr' = date - 1 /\ curr' + 1 = date
          /\ call' = "GetPrevBusinessDay"
        BY <1>4, CallAssumption DEF GetPrevBusinessDay, StartBack
    <2>2. QED
        BY <1>1, <2>1 DEF WalkInv, Leading, AnswersAsWalked, Preceding
<1>5. ASSUME NEW date \in Bases, NEW tenor \in Tenors, NEW rule \in Rules,
             Adjust(tenor, rule, date)
      PROVE  WalkInv'
    <2> DEFINE sum == AddTenor(date, tenor)
    <2>1. CASE sum = Thrown
        BY <1>1, <1>5, <2>1 DEF Adjust, WalkInv, Leading, AnswersAsWalked
    <2>2. CASE sum # Thrown
        <3>1. /\ call' = rule /\ base' = sum /\ AdjustDate(rule, sum) /\ sum \in Int
            BY <1>5, <2>2, AddTenorIsInt, CallAssumption DEF Adjust
        <3>2. /\ rule # "AddBusinessDays" /\ rule # "GetNextBusinessDay"
              /\ rule # "GetPrevBusinessDay"
            BY DEF Rules
        <3> HIDE DEF sum
        <3>3. CASE rule = "kPlainAdjustment" \/ ~IsHoliday(calendar, sum)
            <4>1. pc' = "done" /\ curr' = sum
                BY <3>1, <3>3 DEF AdjustDate, Return
            <4>2. Answer' = sum
                BY <1>1, <3>1, <3>2, <3>3 DEF Answer
            <4>3. QED
                BY <1>1, <4>1, <4>2 DEF WalkInv, Leading, AnswersAsWalked
        <3>4. CASE rule = "kPreceding" /\ IsHoliday(calendar, sum)
            <4>1. pc' = "back" /\ curr' = sum - 1 /\ curr' + 1 = sum
                BY <3>1, <3>4 DEF AdjustDate, StartBack
            <4>2. QED
                BY <1>1, <3>1, <3>4, <4>1 DEF WalkInv, Leading, AnswersAsWalked, Preceding
        <3>5. CASE rule \in {"kFollowing", "kModifiedFollowing"} /\ IsHoliday(calendar, sum)
            <4>1. pc' = "forward" /\ curr' = sum + 1 /\ curr' - 1 = sum
                BY <3>1, <3>5 DEF AdjustDate, StartForward
            <4>2. QED
                BY <1>1, <3>1, <3>5, <4>1 DEF WalkInv, Leading, AnswersAsWalked, Following
        <3>6. QED
            BY <3>3, <3>4, <3>5 DEF Rules
    <2>3. QED
        BY <2>1, <2>2
<1>6. QED
    BY <1>2, <1>3, <1>4, <1>5 DEF Start

THEOREM WalkInvariance == Spec => []WalkInv
<1>1. Init => WalkInv
    BY DEF Init, WalkInv, Leading, AnswersAsWalked
<1>2. ASSUME IInv, WalkInv, [Next]_vars
      PROVE  WalkInv'
    <2>1. CASE Start
        BY <1>2, <2>1, StartLeads
    <2>2. CASE AddStep \/ AddDone
        BY <1>2, <2>2, AddStepLeads, AddDoneLeads
    <2>3. CASE ForwardStep \/ ForwardDone
        BY <1>2, <2>3, ForwardLeads
    <2>4. CASE BackStep \/ BackDone
        BY <1>2, <2>4, BackLeads
    <2>5. CASE Leave
        BY <1>2, <2>5 DEF Leave, WalkInv, Leading, AnswersAsWalked
    <2>6. CASE UNCHANGED vars
        BY <1>2, <2>6
        DEF vars, WalkInv, Leading, AnswersAsWalked, Answer, Added, Following, Preceding,
            Sign, Holiday, Month
    <2>7. QED
        BY <1>2, <2>1, <2>2, <2>3, <2>4, <2>5, <2>6 DEF Next, Step
<1>3. QED
    BY <1>1, <1>2, Invariance, PTL DEF Spec

\* Calls, one iteration of a loop at a time (calendar.cpp:106-154 and date_adjust/),
\* answer what the walks over business days say, which schedules are made with.
THEOREM CallsAnswerAsWalked == Spec => []AnswersAsWalked
<1>1. WalkInv => AnswersAsWalked
    BY DEF WalkInv
<1>2. QED
    BY <1>1, WalkInvariance, PTL

\* How many days a loop has yet to look at.
DaysAhead ==
    IF pc = "adding"
    THEN IF number_of_days < 0 THEN curr - Added(base, Abs(number_of_days))
         ELSE Added(base, Abs(number_of_days)) - curr
    ELSE IF pc = "forward" THEN Following(base) - curr
    ELSE curr - Preceding(base)

Loops == {"adding", "forward", "back"}
DaysAreAhead == pc \in Loops => DaysAhead \in Nat

\* Every step of a loop brings its end one day closer, and the loops follow each
\* other in one direction.
Nearer ==
    pc \in Loops =>
        \/ pc' = pc /\ DaysAhead' = DaysAhead - 1
        \/ pc' = "done"
        \/ pc = "forward" /\ pc' = "back"

LEMMA SomeAhead == IInv /\ WalkInv => DaysAreAhead
<1>1. SUFFICES ASSUME IInv, WalkInv, pc \in Loops
               PROVE  DaysAhead \in Nat
    BY DEF DaysAreAhead
<1>2. curr \in Int /\ days \in Nat /\ base \in Int /\ GoesOn(calendar) /\ number_of_days \in Int
    BY <1>1, DaysGoOn DEF IInv, TypeOK, WalkInv
<1>3. CASE pc = "adding" /\ number_of_days < 0
    <2>1. Sign = -1 /\ Added(base, Abs(number_of_days)) = Walk(calendar, -1)[<<curr, days>>]
        BY <1>1, <1>3 DEF WalkInv, Leading, Added, Sign
    <2>2. /\ Walk(calendar, -1)[<<curr, days>>] \in Int
          /\ Walk(calendar, -1)[<<curr, days>>] =< curr
        BY <1>2, WalkType
    <2>3. QED
        BY <1>2, <1>3, <2>1, <2>2 DEF DaysAhead
<1>4. CASE pc = "adding" /\ ~(number_of_days < 0)
    <2>1. Sign = 1 /\ Added(base, Abs(number_of_days)) = Walk(calendar, 1)[<<curr, days>>]
        BY <1>1, <1>4 DEF WalkInv, Leading, Added, Sign
    <2>2. /\ Walk(calendar, 1)[<<curr, days>>] \in Int
          /\ Walk(calendar, 1)[<<curr, days>>] >= curr
        BY <1>2, WalkType
    <2>3. QED
        BY <1>2, <1>4, <2>1, <2>2 DEF DaysAhead
<1>5. CASE pc = "forward"
    <2>1. curr - 1 \in Int /\ (curr - 1) + 1 = curr
        BY <1>2
    <2>2. Following(base) = IF IsHoliday(calendar, curr) THEN Following(curr) ELSE curr
        BY <1>1, <1>2, <1>5, <2>1, NextDay DEF WalkInv, Leading, Following
    <2>3. Following(curr) \in Int /\ Following(curr) >= curr
        BY <1>2, WalkType DEF Following
    <2>4. QED
        BY <1>2, <1>5, <2>2, <2>3 DEF DaysAhead
<1>6. CASE pc = "back"
    <2>1. curr + 1 \in Int /\ (curr + 1) + (-1) = curr
        BY <1>2
    <2>2. Preceding(base) = IF IsHoliday(calendar, curr) THEN Preceding(curr) ELSE curr
        BY <1>1, <1>2, <1>6, <2>1, NextDay DEF WalkInv, Leading, Preceding
    <2>3. Preceding(curr) \in Int /\ Preceding(curr) =< curr
        BY <1>2, WalkType DEF Preceding
    <2>4. QED
        BY <1>2, <1>6, <2>2, <2>3 DEF DaysAhead
<1>7. QED
    BY <1>1, <1>3, <1>4, <1>5, <1>6 DEF Loops

\* No loop goes on for ever (calendar.cpp:106-154): the days ahead of it are a
\* number, and fewer with every step.
THEOREM LoopsComeToAnEnd == Spec => []DaysAreAhead /\ [][Nearer]_vars
<1>1. ASSUME IInv, WalkInv, [Next]_vars
      PROVE  [Nearer]_vars
    <2>1. DaysAreAhead /\ curr \in Int /\ number_of_days \in Int
        BY <1>1, SomeAhead DEF IInv, TypeOK
    <2>2. CASE AddStep
        <3>1. /\ pc = "adding" /\ pc' = "adding" /\ number_of_days' = number_of_days
              /\ curr' = curr + (IF number_of_days < 0 THEN -1 ELSE 1)
              /\ Added(base, Abs(number_of_days))' = Added(base, Abs(number_of_days))
            BY <2>2 DEF AddStep, Added, Sign
        <3>2. DaysAhead \in Nat /\ DaysAhead' = DaysAhead - 1
            <4>1. Added(base, Abs(number_of_days)) \in Int
                BY <1>1, WalkType, DaysGoOn, <3>1 DEF WalkInv, Leading, IInv, TypeOK, Added, Sign
            <4>2. QED
                BY <2>1, <3>1, <4>1 DEF DaysAreAhead, DaysAhead, Loops
        <3>3. QED
            BY <3>1, <3>2 DEF Nearer
    <2>3. CASE ForwardStep
        <3>1. /\ pc = "forward" /\ pc' = "forward" /\ curr' = curr + 1
              /\ Following(base)' = Following(base)
            BY <2>3 DEF ForwardStep, Following
        <3>2. Following(base) \in Int
            BY <1>1, WalkType, DaysGoOn DEF WalkInv, IInv, TypeOK, Following
        <3>3. DaysAhead' = DaysAhead - 1
            BY <2>1, <3>1, <3>2 DEF DaysAhead
        <3>4. QED
            BY <3>1, <3>3 DEF Nearer
    <2>4. CASE BackStep
        <3>1. /\ pc = "back" /\ pc' = "back" /\ curr' = curr - 1
              /\ Preceding(base)' = Preceding(base)
            BY <2>4 DEF BackStep, Preceding
        <3>2. Preceding(base) \in Int
            BY <1>1, WalkType, DaysGoOn DEF WalkInv, IInv, TypeOK, Preceding
        <3>3. DaysAhead' = DaysAhead - 1
            BY <2>1, <3>1, <3>2 DEF DaysAhead
        <3>4. QED
            BY <3>1, <3>3 DEF Nearer
    <2>5. CASE AddDone \/ ForwardDone \/ BackDone
        BY <2>5 DEF AddDone, ForwardDone, BackDone, Return, StartBack, Nearer
    <2>6. CASE Start \/ Leave
        <3>1. pc \notin Loops
            BY <2>6 DEF Start, Leave, AddBusinessDays, GetNextBusinessDay, GetPrevBusinessDay,
                        Adjust, Loops
        <3>2. QED
            BY <3>1 DEF Nearer
    <2>7. QED
        BY <1>1, <2>2, <2>3, <2>4, <2>5, <2>6 DEF Next, Step
<1>2. QED
    BY <1>1, SomeAhead, Invariance, WalkInvariance, PTL DEF Spec
===============================================================================
