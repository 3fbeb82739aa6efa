----------------------------- MODULE EnumMappers ------------------------------
(***************************************************************************)
(* The words for the conventions of schedules and dates (time_enum_mappers *)
(* and derived_time_enum_mappers), and what the library has for each of    *)
(* them.  A table maps an enumerator to its words.                         *)
(***************************************************************************)
EXTENDS XlData

DateDirectionMap ==
    [kForward |-> {"FWD", "FORWARD"}, kBackward |-> {"BCKWD", "BACKWARD", "BACKWARDS"}]

FreqMap ==
    [kOnce |-> {"ONCE", "O"}, kAnnual |-> {"A", "ANNUAL"},
     kSemiAnnual |-> {"SA", "SEMIANNUAL"}, kQuarterly |-> {"Q", "QUARTERLY"},
     kMonthly |-> {"M", "MONTHLY"}, kWeekly |-> {"W", "WEEKLY"}, kDaily |-> {"D", "DAILY"}]

CFStubMap ==
    [kNone |-> {"NONE", "N"}, kShortFirst |-> {"SF", "SHORTFIRST"},
     kLongFirst |-> {"LF", "LONGFIRST"}, kShortLast |-> {"SL", "SHORTLAST"},
     kLongLast |-> {"LL", "LONGLAST"}]

CalcTypeMap ==
    [kFlat |-> {"FLAT"}, kBBGCalcType1 |-> {"BBG1"}, kBBGCalcType2 |-> {"BBG2"},
     kUSTStreetConv |-> {"USTSTREETCONV"}]

\* The entries in small letters are never found: see Upper.
TimeEnumMap ==
    [kACT_360 |-> {"ACT/360", "ACT:360", "ACT_360", "ACT360"},
     k30_E_360_ISDA |-> {"30E/360", "30E:360", "30E_360", "30E360"},
     k30_360_BOND_BASIS |-> {"30/360", "30:360", "30_360", "30360"},
     k30_360_E_EUROBOND |-> {"30E/360EURO", "30E:360EURO", "30E_360EURO", "30E360EURO"},
     kACT_365_FIXED |-> {"ACT/365", "ACT:365", "ACT_365", "ACT365"},
     kACT_ACT |-> {"ACT:ACT", "ACT_ACT", "ACT/ACT", "ACTACT"}]

DateAdjustMap ==
    [kModifiedFollowing |->
        {"MF", "MODIFIEDFOLLOWING", "MODIFIED_FOLLOWING", "MODF", "MFOL"},
     kPreceding |-> {"P", "PRECEDING", "PRE"},
     kFollowing |-> {"F", "FOLLOWING", "FOL"},
     kPlainAdjustment |-> {"NOADJ", "NO_ADJ", "NONE"}]

\* The input is put into capitals before it is looked up.
Upper(text) == IF text[1] = "small" THEN Word(text[2]) ELSE text

Enumerator(table, text) ==
    {e \in DOMAIN table : \E w \in table[e] : Upper(text) = Word(w)}

MapInputToDateDir(text) == Enumerator(DateDirectionMap, text)
MapInputToFreq(text) == Enumerator(FreqMap, text)
MapInputToStub(text) == Enumerator(CFStubMap, text)
MapInputToCalcType(text) == Enumerator(CalcTypeMap, text)
MapInputToDayCountEnum(text) == Enumerator(TimeEnumMap, text)
MapInputToDayAdjustEnum(text) == Enumerator(DateAdjustMap, text)

-----------------------------------------------------------------------------
\* As CreateDateAdjust, had it forgotten the rule without a calendar.
CreateDateAdjustWithCalendar(rule) == rule \in {"kFollowing", "kPreceding", "kModifiedFollowing"}

\* The factories have an object for these, and null for every other value.
CreateDateAdjust(rule) ==
    rule \in {"kFollowing", "kPreceding", "kModifiedFollowing", "kPlainAdjustment"}

GenerateDayCounter(rule) ==
    rule \in {"kACT_360", "kACT_365_FIXED", "kACT_ACT", "k30_360_E_EUROBOND",
              "k30_E_360_ISDA", "k30_360_BOND_BASIS"}

\* at() throws for kOnce.
MapResetFreqEnumToTenor(freq) ==
    LET tenors == [kAnnual |-> "1Y", kSemiAnnual |-> "6M", kQuarterly |-> "3M",
                   kMonthly |-> "1M", kWeekly |-> "1W", kDaily |-> "1D"]
    IN {tenors[f] : f \in {freq} \cap DOMAIN tenors}
===============================================================================
