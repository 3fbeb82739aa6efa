---------------------------- MODULE ExcelFunctions ----------------------------
(***************************************************************************)
(* The date functions of oxl (time_xl.cpp) behind their generated wrappers *)
(* (auto_gen_time.cpp), composed with the store of cached objects: a       *)
(* wrapper makes a dictionary of its arguments, or of the handle of one,   *)
(* and a schedule looks up the handles of its rules, while other threads   *)
(* store new objects (HandleCache).  What a function computes from its     *)
(* arguments is the subject of DateWalk, BusinessCalendar, DayCount and    *)
(* CashflowSchedule; here an answer is the arguments computed with.        *)
(*                                                                         *)
(* The state of HandleCache is part of the state here, and its steps that  *)
(* create an object are steps here; Callers take the place of its readers. *)
(***************************************************************************)
EXTENDS HandleCache, EnumMappers

CONSTANTS
    Callers,        \* threads in a function of this module
    Requests,       \* calls: fn, args, and what the caller means by them
    Calendars,      \* names that CalendarCache has a calendar for
    Contents        \* the dictionaries that are created, by the object's id

VARIABLES
    content,        \* what the objects of the cache hold, by their id
    past,           \* history: the ids of the objects stored under a key
    call            \* a caller's request, where it is, and its answer

excelVars == <<vars, content, past, call>>

\* A handle names the key of a cell, whether or not something is under it;
\* a dictionary is a function, whatever it maps to its keys.
GoodText(text) == text[1] = "handle" => text[2] \in Keys
GoodDictionary(dictionary) ==
    /\ dictionary = [k \in DOMAIN dictionary |-> dictionary[k]]
    /\ \A k \in DOMAIN dictionary : \A s \in GetString(dictionary[k]) : GoodText(s)

Ids == 0 .. MaxObjects - 1

ASSUME ContentsAssumption ==
    /\ Contents = [id \in Ids |-> Contents[id]]
    /\ \A id \in Ids : GoodDictionary(Contents[id])

Error == <<"error">>
Crash == <<"crash">>

\* dictionary: dictionary_input; todo: the rules still to be looked up;
\* options: those found, with the version they were found under; held: the
\* entry that GetVariant returned; since (history): what was in the cache
\* when the call began, by the number of objects stored.
Nothing ==
    [at |-> "idle", request |-> Absent, dictionary |-> <<>>, todo |-> <<>>,
     options |-> <<>>, held |-> Absent, since |-> <<>>, answer |-> <<>>]

ExcelInit ==
    /\ Init
    /\ content = Contents
    /\ past = [k \in Keys |-> <<>>]
    /\ call = [c \in Callers |-> Nothing]

\* oxlArray and oxlDictionary of other cells.
CreateObjects ==
    /\ \E t \in Threads : Create(t) \/ Store(t) \/ CacheName(t)
    /\ past' = [k \in Keys |->
                  IF cache'[k] = cache[k] THEN past[k]
                  ELSE Append(past[k], cache'[k].object.id)]
    /\ UNCHANGED <<content, call>>

-----------------------------------------------------------------------------
(* Arguments *)

kXlJulianOffSet == 2415019

\* static_cast<int>: the time of the day is dropped.
Int32(halves) == IF halves < 0 THEN -((-halves) \div 2) ELSE halves \div 2

\* Date(string_view): any other text throws.
DateOf(text) == IF text[1] = "date" THEN {text[2]} ELSE {}
TenorOf(text) == IF text[1] = "tenor" THEN {text[2]} ELSE {}
GetCalendar(text) == {text} \cap Calendars

\* ToDateObj of an XLOPER12 and of an XlVariant.
ToDateObj(x) ==
    CASE x[1] \in {"Num", "double"} -> {Int32(x[2]) + kXlJulianOffSet}
      [] x[1] = "Str"               -> UNION {DateOf(s) : s \in LPXloperToStr(x)}
      [] x[1] = "string"            -> DateOf(x[2])
      [] OTHER                      -> {}

\* Excel's offset is added to the Julian number of a text, too.
XloperToJulianInt(x) ==
    CASE xltype(x) = "Num" -> {kXlJulianOffSet + Int32(x[2])}
      [] IsStr(x)          -> {kXlJulianOffSet + d :
                                  d \in UNION {DateOf(s) : s \in LPXloperToStr(x)}}
      [] OTHER             -> {}

DateAt(dictionary, w) == UNION {ToDateObj(v) : v \in At(dictionary, w)}

-----------------------------------------------------------------------------
(* Functions of plain arguments *)

OxlIsBizDay(date, centers) ==
    {<<"business day", day, calendar>> :
        day \in XloperToJulianInt(date),
        calendar \in UNION {GetCalendar(s) : s \in LPXloperToStr(centers)}}

OxlIsHolDay(date, centers) ==
    {<<"holiday", day, calendar>> :
        day \in XloperToJulianInt(date),
        calendar \in UNION {GetCalendar(s) : s \in LPXloperToStr(centers)}}

OxlComputeDayCount(start_date, end_date, convention) ==
    {IF GenerateDayCounter(rule) THEN <<"days", start, end, rule>> ELSE Crash :
        start \in ToDateObj(start_date), end \in ToDateObj(end_date),
        rule \in UNION {MapInputToDayCountEnum(s) : s \in LPXloperToStr(convention)}}

OxlComputeYearFraction(start_date, end_date, convention) ==
    {IF GenerateDayCounter(rule) THEN <<"years", start, end, rule>> ELSE Crash :
        start \in ToDateObj(start_date), end \in ToDateObj(end_date),
        rule \in UNION {MapInputToDayCountEnum(s) : s \in LPXloperToStr(convention)}}

Plain == {"oxlIsBusinessDay", "oxlIsHolidayDay", "oxlComputeDayCount", "oxlComputeYearFraction"}

PlainAnswers(fn, args) ==
    CASE fn = "oxlIsBusinessDay"       -> OxlIsBizDay(args[1], args[2])
      [] fn = "oxlIsHolidayDay"        -> OxlIsHolDay(args[1], args[2])
      [] fn = "oxlComputeDayCount"     -> OxlComputeDayCount(args[1], args[2], args[3])
      [] fn = "oxlComputeYearFraction" -> OxlComputeYearFraction(args[1], args[2], args[3])

\* What the wrapper returns: a text when an exception got out.
Answered(answers) == IF answers = {} THEN Error ELSE The(answers)

Answers(c, answer) ==
    call' = [call EXCEPT ![c].at = IF answer = Crash THEN "crashed" ELSE "answered",
                         ![c].answer = answer]

-----------------------------------------------------------------------------
(* Functions of a dictionary *)

OxlComputeDate(dictionary) ==
    {IF CreateDateAdjust(rule) THEN <<"date", base, tenor, rule, calendar>> ELSE Crash :
        base \in DateAt(dictionary, "Base_Date"),
        tenor \in UNION {TenorOf(s) : s \in StringAt(dictionary, "Tenor")},
        rule \in UNION {MapInputToDayAdjustEnum(s) : s \in StringAt(dictionary, "Adjustment_Rule")},
        calendar \in UNION {GetCalendar(s) : s \in StringAt(dictionary, "Calendar")}}

BusinessDateFormula(dictionary) ==
    {[days |-> Int32(days), calendar |-> calendar] :
        days \in DoubleAt(dictionary, "Days"),
        calendar \in UNION {GetCalendar(s) : s \in StringAt(dictionary, "Calendar")}}

OxlAddBusinessDays(dictionary) ==
    {<<"added", base, formula>> :
        base \in DateAt(dictionary, "Base_Date"), formula \in BusinessDateFormula(dictionary)}

\* The dictionary of plain arguments; the first one must be a number.
ByArguments(fn, args) ==
    CASE fn = "oxlComputeDate" ->
            {(Word("Base_Date") :> <<"double", base>>) @@ (Word("Tenor") :> <<"string", tenor>>)
               @@ (Word("Adjustment_Rule") :> <<"string", rule>>)
               @@ (Word("Calendar") :> <<"string", calendar>>) :
                base \in LPXloperToDouble(args[1]), tenor \in LPXloperToStr(args[2]),
                rule \in LPXloperToStr(args[3]), calendar \in LPXloperToStr(args[4])}
      [] fn = "oxlAddBusinessDays" ->
            {(Word("Base_Date") :> <<"double", base>>) @@ (Word("Days") :> <<"double", days>>)
               @@ (Word("Calendar") :> <<"string", calendar>>) :
                base \in LPXloperToDouble(args[1]), days \in LPXloperToDouble(args[2]),
                calendar \in LPXloperToStr(args[3])}
      [] fn = "oxlGenerateCashFlows" -> {<<>>}

\* dictionary_input, when the first argument is no text.
Arguments(fn, args) ==
    CASE IsMulti(args[1]) /\ IsMulti(args[2]) -> LPXloperToDictionary2(args[1], args[2])
      [] IsMulti(args[1]) /\ ~IsMulti(args[2]) -> LPXloperToDictionary(args[1])
      [] OTHER -> ByArguments(fn, args)

\* What a request is: a registered function and arguments in which handles are
\* handles.  By arguments that are no handle is meant what they convert to,
\* and nothing when they convert to nothing.
DictionaryFns == {"oxlComputeDate", "oxlAddBusinessDays", "oxlGenerateCashFlows"}

ASSUME RequestsAssumption ==
    \A q \in Requests :
        /\ q.fn \in Plain \cup DictionaryFns
        /\ IsStr(q.args[1]) => GoodText(Counted(q.args[1][2]))
        /\ q.fn \in DictionaryFns /\ ~IsStr(q.args[1]) =>
              /\ Arguments(q.fn, q.args) = {q.means} \/ (Arguments(q.fn, q.args) = {} /\ q.means = <<>>)
              /\ GoodDictionary(q.means)

Begun(q, at, dictionary, answer) ==
    [Nothing EXCEPT !.at = at, !.request = q, !.dictionary = dictionary, !.answer = answer,
                    !.since = [k \in Keys |-> Len(past[k])]]

Start(c) ==
    /\ call[c].at = "idle"
    /\ \E q \in Requests :
          LET arguments == Arguments(q.fn, q.args)
              answer == Answered(PlainAnswers(q.fn, q.args))
          IN  call' = [call EXCEPT ![c] =
                IF q.fn \in Plain
                THEN Begun(q, IF answer = Crash THEN "crashed" ELSE "answered", <<>>, answer)
                ELSE IF IsStr(q.args[1]) THEN Begun(q, "isHandle", <<>>, <<>>)
                ELSE IF arguments = {} THEN Begun(q, "answered", <<>>, Error)
                ELSE Begun(q, "evaluate", The(arguments), <<>>)]
    /\ UNCHANGED <<vars, content, past>>

-----------------------------------------------------------------------------
(* Looking up a handle: of the arguments, or of the next rule *)

HandleText(c) ==
    IF call[c].todo = <<>> THEN Counted(call[c].request.args[1][2])
    ELSE The(StringAt(call[c].dictionary, call[c].todo[1][2]))

\* GetKeyFromHandle; a text that is no handle is the key of nothing.
Found(c) == IF HandleText(c)[1] = "handle" THEN cache[HandleText(c)[2]] ELSE Absent

\* The wrapper goes on with an empty dictionary, RetrieveXLDict throws.
NoDictionary(c) ==
    IF call[c].todo = <<>>
    THEN call' = [call EXCEPT ![c].at = "evaluate"]
    ELSE Answers(c, Error)

CallIsHandle(c) ==
    /\ call[c].at = "isHandle"
    /\ IF Found(c) = Absent THEN NoDictionary(c)
       ELSE call' = [call EXCEPT ![c].at = "holds"]
    /\ UNCHANGED <<vars, content, past>>

CallIsDictionary(c) ==
    /\ call[c].at = "holds"
    /\ IF Found(c).object.kind # "Dictionary" THEN NoDictionary(c)
       ELSE call' = [call EXCEPT ![c].at = "get"]
    /\ UNCHANGED <<vars, content, past>>

\* As GetVariant, had the cache kept the first object of each key.
CallGetVariantOldest(c) ==
    /\ call[c].at = "get"
    /\ call' = [call EXCEPT ![c].at = "use",
                            ![c].held = [id |-> past[HandleText(c)[2]][1], version |-> 0]]
    /\ UNCHANGED <<vars, content, past>>

CallGetVariant(c) ==
    /\ call[c].at = "get"
    /\ call' = [call EXCEPT ![c].at = "use",
                            ![c].held = [id |-> Found(c).object.id, version |-> Found(c).version]]
    /\ UNCHANGED <<vars, content, past>>

\* The wrapper copies the dictionary, without the lock.
Copy(c) ==
    /\ call[c].at = "use" /\ call[c].todo = <<>>
    /\ call' = [call EXCEPT ![c].at = "evaluate", ![c].dictionary = content[call[c].held.id]]
    /\ UNCHANGED <<vars, content, past>>

-----------------------------------------------------------------------------
(* OxlGenerateCashflow *)

\* As ValidBusinessDateDictionary, with one key forgotten.
ValidBusinessDateDictionaryDays(dictionary) == Has(dictionary, "Days")
ValidBusinessDateDictionary(dictionary) ==
    Has(dictionary, "Days") /\ Has(dictionary, "Calendar")

ValidCashflowGenDictionary(dictionary) ==
    /\ \A w \in {"Start_Date", "Mat_Date", "Notional", "Rate", "Day_Count_Frac",
                 "Frequency", "Date_Dir"} : Has(dictionary, w)
    /\ Has(dictionary, "Front_Stub_Type") \/ Has(dictionary, "Back_Stub_Type")

\* A text in place of the maturity is a tenor from the start.
HandleMatDate(dictionary) ==
    LET mat_date == dictionary[Word("Mat_Date")] IN
    IF GetString(mat_date) # {}
    THEN {<<start, tenor>> : start \in DateAt(dictionary, "Start_Date"),
                             tenor \in UNION {TenorOf(s) : s \in GetString(mat_date)}}
    ELSE {<<day>> : day \in ToDateObj(mat_date)}

Frequency(text) ==
    IF TenorOf(text) # {} THEN TenorOf(text)
    ELSE UNION {MapResetFreqEnumToTenor(f) : f \in MapInputToFreq(text)}

StubAt(dictionary, w) ==
    IF Has(dictionary, w) THEN UNION {MapInputToStub(s) : s \in StringAt(dictionary, w)}
    ELSE {"kNone"}

CalcTypeAt(dictionary) ==
    IF Has(dictionary, "Calc_Type")
    THEN UNION {MapInputToCalcType(s) : s \in StringAt(dictionary, "Calc_Type")}
    ELSE {"kFlat"}

\* The arguments of CreateFixedCashflows and the Options that are not rules.
Terms(d) ==
    {[start_date |-> start, mat_date |-> mat, notional |-> notional, rate |-> rate,
      day_count_rule |-> rule, reset_freq |-> freq, date_direction |-> direction,
      front_stub_type |-> front, back_stub_type |-> back, currency |-> "kUSD",
      cashflow_type |-> "kFixed", reset_direction |-> "kAdvance"] :
        start \in DateAt(d, "Start_Date"), mat \in HandleMatDate(d),
        notional \in DoubleAt(d, "Notional"), rate \in DoubleAt(d, "Rate"),
        rule \in UNION {MapInputToDayCountEnum(s) : s \in StringAt(d, "Day_Count_Frac")},
        freq \in UNION {Frequency(s) : s \in StringAt(d, "Frequency")},
        direction \in UNION {MapInputToDateDir(s) : s \in StringAt(d, "Date_Dir")},
        front \in StubAt(d, "Front_Stub_Type"), back \in StubAt(d, "Back_Stub_Type")}

\* The rule of one option, if it was given.
Given(d, option, w) == IF Has(d, w) THEN <<<<option, w>>>> ELSE <<>>

\* As AccrualRules, the ends before the starts.
AccrualRulesSwapped(d) ==
    IF Has(d, "Acc_Adj_Rule")
    THEN <<<<"end_adjustment", "Acc_Adj_Rule">>, <<"start_adjustment", "Acc_Adj_Rule">>>>
    ELSE Given(d, "end_adjustment", "End_Adj_Rule") \o Given(d, "start_adjustment", "Start_Adj_Rule")

\* One rule for both is looked up twice.
AccrualRules(d) ==
    IF Has(d, "Acc_Adj_Rule")
    THEN <<<<"start_adjustment", "Acc_Adj_Rule">>, <<"end_adjustment", "Acc_Adj_Rule">>>>
    ELSE Given(d, "end_adjustment", "End_Adj_Rule") \o Given(d, "start_adjustment", "Start_Adj_Rule")

RuleLookups(d) ==
    Given(d, "fix_adjustment", "Fixing_Date_Rule")
      \o Given(d, "pay_adjustment", "Payment_Date_Rule") \o AccrualRules(d)

Evaluate(c) ==
    LET d == call[c].dictionary  fn == call[c].request.fn IN
    /\ call[c].at = "evaluate"
    /\ CASE fn = "oxlComputeDate"     -> Answers(c, Answered(OxlComputeDate(d)))
         [] fn = "oxlAddBusinessDays" -> Answers(c, Answered(OxlAddBusinessDays(d)))
         [] fn = "oxlGenerateCashFlows" /\ ~ValidCashflowGenDictionary(d) ->
                Answers(c, <<"invalid dictionary">>)
         [] fn = "oxlGenerateCashFlows" /\ ValidCashflowGenDictionary(d) ->
                IF Terms(d) = {} THEN Answers(c, Error)
                ELSE call' = [call EXCEPT ![c].at = "rules", ![c].todo = RuleLookups(d)]
    /\ UNCHANGED <<vars, content, past>>

\* GetBusinessDateFormulaFromDict begins.
LookUpRule(c) ==
    /\ call[c].at = "rules" /\ call[c].todo # <<>>
    /\ IF StringAt(call[c].dictionary, call[c].todo[1][2]) = {} THEN Answers(c, Error)
       ELSE call' = [call EXCEPT ![c].at = "isHandle"]
    /\ UNCHANGED <<vars, content, past>>

\* It ends: the keys are checked, then read with the operator[] that inserts.
UseRule(c) ==
    LET held == call[c].held
        rule == content[held.id]
        read == Inserted(Inserted(rule, "Days"), "Calendar")
    IN
    /\ call[c].at = "use" /\ call[c].todo # <<>>
    /\ IF ~ValidBusinessDateDictionary(rule)
       THEN /\ Answers(c, Error)
            /\ UNCHANGED content
       ELSE /\ content' = [content EXCEPT ![held.id] = read]
            /\ IF BusinessDateFormula(read) = {} THEN Answers(c, Error)
               ELSE call' = [call EXCEPT
                      ![c].at = "rules",
                      ![c].options = Stored(call[c].options, call[c].todo[1][1],
                          [formula |-> The(BusinessDateFormula(read)), version |-> held.version]),
                      ![c].todo = Tail(call[c].todo)]
    /\ UNCHANGED <<vars, past>>

\* CreateFixedCashflows and ConvertCFStructToXlArray: rows of that schedule.
Generate(c) ==
    LET d == call[c].dictionary IN
    /\ call[c].at = "rules" /\ call[c].todo = <<>>
    /\ Answers(c, Answered({<<"schedule", terms, call[c].options, calc_type>> :
                               terms \in Terms(d), calc_type \in CalcTypeAt(d)}))
    /\ UNCHANGED <<vars, content, past>>

\* The result is in the cell; the thread is Excel's again.
Return(c) ==
    /\ call[c].at = "answered"
    /\ call' = [call EXCEPT ![c] = Nothing]
    /\ UNCHANGED <<vars, content, past>>

Work(c) ==
    \/ CallIsHandle(c) \/ CallIsDictionary(c) \/ CallGetVariant(c) \/ Copy(c)
    \/ Evaluate(c) \/ LookUpRule(c) \/ UseRule(c) \/ Generate(c)

ExcelNext ==
    \/ CreateObjects
    \/ \E c \in Callers : Start(c) \/ Work(c) \/ Return(c)

ExcelSpec == ExcelInit /\ [][ExcelNext]_excelVars /\ \A c \in Callers : WF_excelVars(Work(c))

-----------------------------------------------------------------------------
(* What must hold *)

\* The dictionaries a handle can stand for while the call runs: those that
\* were under its key when the call began or came there since, and nothing
\* when there was none.
Meant(c) ==
    LET q == call[c].request  x == q.args[1] IN
    IF ~IsStr(x) THEN {q.means}
    ELSE IF x[2][1] # "handle" \/ x[2][2].kind # "Dictionary" THEN {<<>>}
    ELSE LET k == x[2][2]  n == call[c].since[k] IN
         {content[past[k][i]] : i \in {j \in DOMAIN past[k] : j >= n}}
           \cup (IF n = 0 THEN {<<>>} ELSE {})

\* However its arguments are given, as a row or a column of pairs, as keys
\* and values, one by one or by a handle, a function answers from exactly
\* the dictionary they mean (auto_gen_time.cpp:128-157); by a handle it is
\* one dictionary as it was stored, current during the call, never a mixture
\* of two, although other threads store in between.
AnswersTheQuestion ==
    \A c \in Callers : call[c].at = "answered" =>
        LET answer == call[c].answer  fn == call[c].request.fn IN
        /\ fn = "oxlComputeDate" =>
              \E d \in Meant(c) : answer = Answered(OxlComputeDate(d))
        /\ fn = "oxlAddBusinessDays" =>
              \E d \in Meant(c) : answer = Answered(OxlAddBusinessDays(d))
        /\ fn = "oxlGenerateCashFlows" /\ answer[1] = "schedule" =>
              \E d \in Meant(c) : Terms(d) = {answer[2]}

\* The rule for the ends of the accruals is never older than the one for
\* their starts, which the same handle was looked up for first
\* (time_xl.cpp:162-163): no period starts by a rule and ends by the one
\* that rule replaced.
RulesInOrder ==
    \A c \in Callers :
        /\ call[c].at = "answered" /\ call[c].answer[1] = "schedule"
        /\ Has(call[c].dictionary, "Acc_Adj_Rule")
        => LET options == call[c].answer[3] IN
           options.start_adjustment.version =< options.end_adjustment.version

\* Calls only read what is in the cache: a dictionary shared by every cell
\* that knows its handle is never changed, although GetBusinessDateFormulaFromDict
\* reads it with an operator[] that inserts what is missing
\* (excel_base.cpp:92-97), outside of the mutex.
CachedStayAsMade == [][content' = content]_excelVars

\* Every call returns to Excel, with a value or with the text of an error:
\* no convention that the tables know leads to a null object of a factory
\* (adjustment_factory.cpp:40, day_counter_factory.cpp:31), and no look-up
\* waits for another thread.
EveryCallReturns ==
    \A c \in Callers : call[c].at # "idle" ~> call[c].at = "answered"

\* What xl_utils.h:125 says of XloperToJulianInt, "takes in and excel date
\* and converts it to julian integer date representation": a date given as a
\* text is the day it names, as one given as a serial is.
TextDatesAgree ==
    \A c \in Callers :
        /\ call[c].at = "answered" /\ call[c].answer # Error
        /\ call[c].request.fn \in {"oxlIsBusinessDay", "oxlIsHolidayDay"}
        => call[c].answer[2] = call[c].request.means
===============================================================================
