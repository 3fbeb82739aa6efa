--------------------------- MODULE MCExcelFunctions ---------------------------
(* One cell that makes objects and one that calls; every way to give arguments. *)
EXTENDS ExcelFunctions

CONSTANTS p1, p2

NYB == Word("NYB")
CalendarsDef == {NYB, Word("LNB")}

Num(n) == <<"Num", n>>
Str(text) == <<"Str", text>>
KeyText(w) == Str(Word(w))
HandleArg(kind, place) == Str(<<"handle", [kind |-> kind, place |-> place], 0>>)
Rule(place) == <<"string", <<"handle", [kind |-> "Dictionary", place |-> place], 0>>>>
Missing == <<"Missing">>

Dated(base, tenor, rule, calendar, days) ==
    (Word("Base_Date") :> <<"double", base>>) @@ (Word("Tenor") :> <<"string", tenor>>)
      @@ (Word("Adjustment_Rule") :> <<"string", rule>>)
      @@ (Word("Calendar") :> <<"string", calendar>>) @@ (Word("Days") :> <<"double", days>>)

M3 == <<"tenor", "3M">>

\* The objects made, in this order: two full dictionaries, one without a calendar.
ContentsDef ==
    [id \in Ids |->
        CASE id = 0 -> Dated(90000, M3, Word("MF"), NYB, 4)
          [] id = 1 -> Dated(90003, M3, <<"small", "P">>, Word("LNB"), -5)
          [] id = 2 -> (Word("Days") :> <<"double", 2>>)]

\* A dictionary as a column of pairs, with its keys in the given order.
Xloper(v) == IF v[1] = "double" THEN Num(v[2]) ELSE IF v[1] = "string" THEN Str(v[2]) ELSE <<"Bool", v[2]>>
Pairs(d, keys) == [i \in DOMAIN keys |-> <<KeyText(keys[i]), Xloper(d[Word(keys[i])])>>]
Multi(array) == <<"Multi", array>>
Column(pairs, j) == Multi([i \in DOMAIN pairs |-> <<pairs[i][j]>>])
Row(pairs, j) == Multi(<<[i \in DOMAIN pairs |-> pairs[i][j]]>>)

Request(fn, args, means) == [fn |-> fn, args |-> args, means |-> means]

PlainRequests ==
    {Request(fn, <<date, Str(center)>>, kXlJulianOffSet + 45000) :
        fn \in {"oxlIsBusinessDay", "oxlIsHolidayDay"},
        date \in {Num(90000), Num(90001), Missing},
        center \in {NYB, Word("none")}}
    \cup {Request(fn, <<Num(90000), Str(<<"date", kXlJulianOffSet + 46000>>), Str(c)>>, <<>>) :
        fn \in {"oxlComputeDayCount", "oxlComputeYearFraction"},
        c \in {Word(w) : w \in UNION {TimeEnumMap[e] : e \in DOMAIN TimeEnumMap}}
                \cup {<<"small", "ACT/365">>, Word("ACTB/ACTB")}}

TextRequests ==
    {Request("oxlIsBusinessDay", <<Str(<<"date", kXlJulianOffSet + 45000>>), Str(NYB)>>,
             kXlJulianOffSet + 45000)}

Keys4 == <<"Base_Date", "Tenor", "Adjustment_Rule", "Calendar">>

DateRequests ==
    LET D(base, rule) == Restrict(Dated(base, M3, rule, NYB, 0), {Word(w) : w \in Range(Keys4)})
        d == D(90000, Word("F"))
        P == Pairs(d, Keys4)
        R(args, means) == Request("oxlComputeDate", args, means)
    IN  {R(<<Num(base), Str(M3), Str(rule), Str(NYB)>>, D(base, rule)) :
            base \in {90000, 90001, -3},
            rule \in {Word(w) : w \in UNION {DateAdjustMap[e] : e \in DOMAIN DateAdjustMap}}}
        \cup {R(<<range, Missing, Missing, Missing>>, d) :
                range \in {Multi(P), Multi(Transposed(P)),
                           Multi(<<<<KeyText("Tenor"), Str(<<"tenor", "1Y">>)>>>> \o P)}}
        \cup {R(<<keys, values, Missing, Missing>>, d) :
                keys \in {Column(P, 1), Row(P, 1)}, values \in {Column(P, 2), Row(P, 2)}}
        \cup {R(<<Multi(P \o <<<<k, Num(0)>>>>), Missing, Missing, Missing>>, <<>>) :
                k \in {<<"Nil">>, Str(<<"padded", "Days">>), Num(1), <<"Err">>}}
        \cup {R(<<x, Str(M3), Str(Word("F")), Str(NYB)>>, <<>>) :
                x \in {HandleArg("Dictionary", p1), HandleArg("Array", p1),
                       Str(<<"date", kXlJulianOffSet + 45000>>), Missing}}

AddRequests ==
    {Request("oxlAddBusinessDays", <<Num(90000), Num(-3), Str(NYB)>>,
             Restrict(Dated(90000, M3, NYB, NYB, -3),
                      {Word("Base_Date"), Word("Days"), Word("Calendar")})),
     Request("oxlAddBusinessDays", <<Num(90000), Str(NYB), Str(NYB)>>, <<>>),
     Request("oxlAddBusinessDays", <<HandleArg("Dictionary", p1), Missing, Missing>>, <<>>)}

Schedule ==
    (Word("Start_Date") :> <<"double", 90000>>) @@ (Word("Mat_Date") :> <<"string", <<"tenor", "1Y">>>>)
      @@ (Word("Notional") :> <<"double", 200>>) @@ (Word("Rate") :> <<"double", 1>>)
      @@ (Word("Day_Count_Frac") :> <<"string", Word("ACT/ACT")>>)
      @@ (Word("Frequency") :> <<"string", <<"small", "QUARTERLY">>>>)
      @@ (Word("Date_Dir") :> <<"string", Word("BACKWARD")>>)
      @@ (Word("Front_Stub_Type") :> <<"string", Word("SF")>>)

ScheduleKeys ==
    <<"Start_Date", "Mat_Date", "Notional", "Rate", "Day_Count_Frac", "Frequency", "Date_Dir",
      "Front_Stub_Type", "Back_Stub_Type", "Fixing_Date_Rule", "Payment_Date_Rule",
      "Acc_Adj_Rule", "Start_Adj_Rule", "End_Adj_Rule", "Calc_Type">>

ScheduleRequests ==
    LET Asked(d) ==
            Request("oxlGenerateCashFlows",
                    <<Multi(Pairs(d, SelectSeq(ScheduleKeys, LAMBDA w : Has(d, w)))), Missing>>, d)
    IN  {Asked(d) : d \in
            {Schedule,
             (Word("Acc_Adj_Rule") :> Rule(p1)) @@ Schedule,
             (Word("Start_Adj_Rule") :> Rule(p1)) @@ (Word("End_Adj_Rule") :> Rule(p2)) @@ Schedule,
             (Word("Fixing_Date_Rule") :> Rule(p2)) @@ (Word("Payment_Date_Rule") :> Rule(p2)) @@ Schedule,
             (Word("Payment_Date_Rule") :> <<"double", 2>>) @@ Schedule,
             (Word("Fixing_Date_Rule") :> <<"string", NYB>>) @@ Schedule,
             (Word("Calc_Type") :> <<"string", Word("BBG1")>>) @@
                 (Word("Mat_Date") :> <<"double", 91000>>) @@
                 (Word("Back_Stub_Type") :> <<"string", Word("LL")>>) @@ Schedule,
             (Word("Calc_Type") :> <<"string", Word("FLAT2")>>) @@ Schedule,
             (Word("Frequency") :> <<"string", Word("ONCE")>>) @@ Schedule,
             (Word("Frequency") :> <<"string", M3>>) @@ Schedule,
             [k \in DOMAIN Schedule \ {Word("Front_Stub_Type")} |-> Schedule[k]]}}

RequestsDef ==
    PlainRequests \cup DateRequests \cup AddRequests \cup ScheduleRequests
===============================================================================
