-------------------------------- MODULE XlData --------------------------------
(***************************************************************************)
(* What Excel hands to a function of oxl (XLOPER12) and what the functions *)
(* make of it: XlVariant, XlArray and XlDictionary.                        *)
(*                                                                         *)
(* A conversion is an operator whose value is the set of what it returns:  *)
(* one element (The), or none when the code throws.                        *)
(***************************************************************************)
EXTENDS Integers, Sequences, Functions, SequencesExt

The(results) == CHOOSE r \in results : TRUE

(* Texts, told apart by what the code reads in them: <<"word", w>>, a word in
   the letters the tables of the code spell it with; <<"small", w>>, the same
   word in other letters; <<"date", julian>>; <<"tenor", t>>;
   <<"handle", key, version>>; <<"blank">>, the empty text; <<"padded", w>>,
   w between spaces; <<"wide", w, rest>>, with letters beyond ASCII, and
   <<"cut", w>>, what is left of it.                                        *)
Word(w) == <<"word", w>>

(* XLOPER12, by its xltype: <<"Num", halves>> (a serial is a day, its fraction
   the time of the day: two halves make one day), <<"Bool", b>>,
   <<"Str", text>>, <<"Nil">>, <<"Missing">>, <<"Err">> and <<"Multi", rows>>. *)
xltype(x) == x[1]
IsMulti(x) == xltype(x) = "Multi"
IsStr(x) == xltype(x) = "Str"

\* As many bytes of the text's UTF-8 form are kept as it has wide characters.
Counted(text) == IF text[1] = "wide" THEN <<"cut", text[2]>> ELSE text

LPXloperToStr(x) == IF IsStr(x) THEN {Counted(x[2])} ELSE {}
LPXloperToDouble(x) == IF xltype(x) = "Num" THEN {x[2]} ELSE {}

\* XlVariant: <<"double", halves>>, <<"string", text>> or <<"bool", b>>.
\* An empty cell is an empty text; an error in a cell throws.
Variant(x) ==
    CASE xltype(x) = "Num"  -> {<<"double", x[2]>>}
      [] xltype(x) = "Bool" -> {<<"bool", x[2]>>}
      [] xltype(x) = "Nil"  -> {<<"string", <<"blank">>>>}
      [] OTHER              -> {<<"string", s>> : s \in LPXloperToStr(x)}

\* std::get<std::string>, std::get<double>.
GetString(v) == IF v[1] = "string" THEN {v[2]} ELSE {}
GetDouble(v) == IF v[1] = "double" THEN {v[2]} ELSE {}

-----------------------------------------------------------------------------
\* XlArray: its rows, all of one length.
rows(array) == Len(array)
cols(array) == Len(array[1])
Transposed(array) == [j \in 1 .. cols(array) |-> [i \in 1 .. rows(array) |-> array[i][j]]]

LPXloperToXlArray(x) ==
    IF \/ ~IsMulti(x)
       \/ \E i \in DOMAIN x[2] : \E j \in DOMAIN x[2][i] : Variant(x[2][i][j]) = {}
    THEN {}
    ELSE {[i \in DOMAIN x[2] |->
              [j \in DOMAIN x[2][i] |-> The(Variant(x[2][i][j]))]]}

ToVector(array) ==
    IF cols(array) = 1 THEN {Transposed(array)[1]}
    ELSE IF rows(array) = 1 THEN {array[1]}
    ELSE {}

-----------------------------------------------------------------------------
\* check_key: not empty, no spaces around it.
check_key(key) == key[1] \notin {"blank", "padded"}

\* XlDictionary: a function from its keys, made pair by pair; of equal keys
\* the last one counts.
MadeOf(pairs) ==
    IF \E p \in Range(pairs) : ~\E k \in GetString(p[1]) : check_key(k) THEN {}
    ELSE LET key(i) == pairs[i][1][2] IN
         {[k \in {key(i) : i \in DOMAIN pairs} |->
              pairs[CHOOSE i \in DOMAIN pairs :
                        /\ key(i) = k
                        /\ \A j \in DOMAIN pairs : key(j) = k => j =< i][2]]}

\* XlDictionary(ValueSpan, ValueSpan), with check_sizes.
XlDictionary(keys, values) ==
    IF Len(keys) # Len(values) THEN {} ELSE MadeOf(Zip(keys, values))

\* Two columns, the keys in the first, or else two rows.
XlArrayToXlDictionary(array) ==
    IF cols(array) = 2 THEN MadeOf(array)
    ELSE IF rows(array) = 2 THEN MadeOf(Transposed(array))
    ELSE {}

\* LPXloperToDictionary of one range, and of a range of keys and one of values.
LPXloperToDictionary(x) ==
    UNION {XlArrayToXlDictionary(array) : array \in LPXloperToXlArray(x)}

LPXloperToDictionary2(x, y) ==
    UNION {XlDictionary(keys, values) :
              keys \in UNION {ToVector(a) : a \in LPXloperToXlArray(x)},
              values \in UNION {ToVector(a) : a \in LPXloperToXlArray(y)}}

\* Reading: Contains(); at(), which throws for a key that is not there; and the
\* operator[] of a dictionary that is not const, which inserts a value for it.
Has(dictionary, w) == Word(w) \in DOMAIN dictionary
At(dictionary, w) == IF Has(dictionary, w) THEN {dictionary[Word(w)]} ELSE {}
StringAt(dictionary, w) == UNION {GetString(v) : v \in At(dictionary, w)}
DoubleAt(dictionary, w) == UNION {GetDouble(v) : v \in At(dictionary, w)}
Stored(f, key, value) == [k \in DOMAIN f \cup {key} |-> IF k = key THEN value ELSE f[k]]
Inserted(dictionary, w) ==
    IF Has(dictionary, w) THEN dictionary ELSE Stored(dictionary, Word(w), <<"double", 0>>)
===============================================================================
