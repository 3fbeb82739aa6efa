--------------------------- MODULE DateConversions ---------------------------
(***************************************************************************)
(* What a Date is made from and turned into (date.cpp): a text, a tenor's  *)
(* text (tenor.cpp) and a std::chrono time point.                          *)
(*                                                                         *)
(* A text is the sequence of its pieces: a group of digits is the record   *)
(* of its width and value, any other character stands for itself.          *)
(***************************************************************************)
EXTENDS DateWalk, Sequences

CONSTANT Zones      \* hours by which local time is ahead of UTC

ASSUME ZonesAssumption == Zones \subseteq -23 .. 23

Digits(width, value) == [width |-> width, value |-> value]
Char(c) == [char |-> c]
Dash == Char("-")
Delimiters == {Char("/"), Char("-"), Char(":")}

\* Number of decimal digits of n >= 0.
WidthOf(n) == IF n < 10 THEN 1 ELSE IF n < 100 THEN 2 ELSE IF n < 1000 THEN 3
              ELSE IF n < 10000 THEN 4 ELSE 5

\* An integer as a stream writes it: of its own width, after its sign ...
Plain(n) == IF n < 0 THEN <<Dash, Digits(WidthOf(-n), -n)>> ELSE <<Digits(WidthOf(n), n)>>

\* ... or under setw(width) with the fill "0", which comes before a sign.
Filled(n, width) ==
    IF n >= 0
    THEN <<Digits(IF WidthOf(n) < width THEN width ELSE WidthOf(n), n)>>
    ELSE IF WidthOf(-n) + 1 < width
    THEN <<Digits(width - WidthOf(-n) - 1, 0)>> \o Plain(n)
    ELSE Plain(n)

-----------------------------------------------------------------------------
(* Texts of dates *)

\* YMD(std::string_view), with the checks in their order: all of them throw.
\* The one delimiter may be any of three.
Shaped(text) ==
    /\ Len(text) = 5
    /\ \A i \in {1, 3, 5} : text[i] \notin Delimiters
    /\ text[2] \in Delimiters /\ text[4] = text[2]
    /\ text[1].width = 4 /\ text[3].width =< 2 /\ text[5].width =< 2

ReadText(text) ==
    IF ~Shaped(text) THEN Thrown
    ELSE NewDate(text[1].value, text[3].value, text[5].value)

\* operator<<(std::ostream&, const Date&) without the fill.
PrintUnfilled(date) ==
    LET d == YMD(date) IN
    Plain(d.year) \o <<Dash>> \o Plain(d.month) \o <<Dash>> \o Plain(d.day)

\* operator<<(std::ostream&, const Date&).
PrintDate(date) ==
    LET d == YMD(date) IN
    Filled(d.year, 4) \o <<Dash>> \o Filled(d.month, 2) \o <<Dash>> \o Filled(d.day, 2)

\* ToString(), up to the Julian number that follows.
ToString(date) ==
    LET d == YMD(date) IN
    Plain(d.year) \o <<Dash>> \o Plain(d.month) \o <<Dash>> \o Plain(d.day)

-----------------------------------------------------------------------------
(* Texts of tenors *)

\* CheckTenorStr, then stoi and toupper: a sign, digits and the letter of a
\* unit in either case.  Anything else throws a std::string.
Letters == [D |-> "D", d |-> "D", W |-> "W", w |-> "W",
            M |-> "M", m |-> "M", Y |-> "Y", y |-> "Y"]

ReadTenor(text) ==
    LET digits == IF text[1] = Dash THEN Tail(text) ELSE text
        count == digits[1].value
    IN  IF Len(digits) = 2 /\ digits[2].char \in DOMAIN Letters
        THEN [count |-> IF text[1] = Dash THEN -count ELSE count,
              unit |-> Letters[digits[2].char]]
        ELSE Thrown

\* operator<<(std::ostream&, const Tenor&): the unit's letter in lower case.
PrintTenor(tenor) ==
    Plain(tenor.count)
        \o <<Char(CHOOSE l \in {"d", "w", "m", "y"} : Letters[l] = tenor.unit)>>

-----------------------------------------------------------------------------
(* Time points: hours of UTC since the first hour of day 0 *)

\* mktime reads the civil date as midnight of local time.
ConvertToTimePt(date, zone) == 24 * ConvertToJulian(YMD(date).year, YMD(date).month, YMD(date).day) - zone

\* YMD(const time_point&): gmtime gives the civil date of UTC.
OfTimePoint(hours) == LET d == YMD(hours \div 24) IN ConvertToJulian(d.year, d.month, d.day)

-----------------------------------------------------------------------------
(* What must hold *)

\* Of a year that has four digits, what is printed is read as the same day, as
\* is a text without the filling zeros where only the year needs its width;
\* any other year is printed as a text that the library refuses.
TextsReadBack ==
    LET four == civil.year \in 0 .. 9999 IN
    /\ ReadText(PrintDate(julian)) = IF four THEN julian ELSE Thrown
    /\ ReadText(ToString(julian)) = IF civil.year \in 1000 .. 9999 THEN julian ELSE Thrown

\* A text of three numbers is read as the day it names, or refused if the
\* month has no such day (asked once a month, on its first).
ReadsWhatIsWritten ==
    civil.day = 1 /\ civil.year \in 0 .. 9999 =>
        \A day \in 0 .. 40, delimiter \in Delimiters :
            LET text == <<Digits(4, civil.year), delimiter,
                          Digits(WidthOf(civil.month), civil.month), delimiter, Digits(2, day)>>
            IN  ReadText(text) = IF day \in 1 .. MonthLength(civil.year, civil.month)
                                 THEN julian + day - 1 ELSE Thrown

\* A time point is read as the day it was made from exactly where local time is
\* not ahead of UTC: it is written with mktime and read with gmtime (66, 192).
\* East of Greenwich it is the day before.
TimePointsReadBack ==
    \A zone \in Zones :
        OfTimePoint(ConvertToTimePt(julian, zone)) = IF zone =< 0 THEN julian ELSE julian - 1

\* A tenor that is printed is read as the same tenor.
TenorsReadBack ==
    \A n \in Shifts, unit \in Units :
        LET tenor == [count |-> n, unit |-> unit] IN ReadTenor(PrintTenor(tenor)) = tenor

\* The check of Date(int, int, int) lets every negative day of the month pass
\* (date.cpp:34); it counts back from the last day of the month before.
NegativeDaysCountBack ==
    \A day \in -31 .. 0 :
        NewDate(civil.year, civil.month, day) =
            IF day = 0 THEN Thrown ELSE julian - civil.day + day

\* All of them: whatever a date is turned into says which day it is.
ConversionsReadBack ==
    /\ TextsReadBack /\ ReadsWhatIsWritten
    /\ TimePointsReadBack /\ TenorsReadBack
    /\ NegativeDaysCountBack
=============================================================================
