----------------------------- MODULE XloperMemory -----------------------------
(***************************************************************************)
(* The memory of results that the Excel functions return (autogen_excel,   *)
(* auto_gen_time, xloper_converter).  Every call allocates an XLOPER12 and *)
(* converts its result into it, with a block of characters for a text, or  *)
(* a block of cells that may hold texts of their own.  Excel copies the    *)
(* result and hands it back to xlAutoFree12 if it carries xlbitDLLFree,    *)
(* otherwise never.  The functions are registered without the $ that lets  *)
(* Excel run them in parallel: one runs at a time, but the result of an    *)
(* earlier one may still be to come back, and a freed address is used      *)
(* again.                                                                  *)
(***************************************************************************)
EXTENDS Naturals, Sequences, FiniteSets

CONSTANTS
    Calls,          \* calls whose results may exist at the same time
    Blocks,         \* the addresses that malloc and calloc give out
    Offered(_),     \* those of a set of free addresses that they may choose
    Texts,          \* texts: their length in UTF-8 bytes and in wide characters
    MaxCells,       \* bound: cells of an array
    MaxCalls,       \* bound: calls in a behaviour
    None            \* no address

ASSUME ConstantsAssumption ==
    /\ Texts \subseteq [bytes : Nat, wide : Nat]
    /\ MaxCells \in Nat /\ MaxCalls \in Nat
    /\ None \notin Blocks
    /\ \A free \in SUBSET Blocks : Offered(free) \subseteq free

VARIABLES
    heap,           \* what is in each allocated block: its XLOPER12s, or no more
    pc, result,     \* where each call is, and its xloper_result
    cells,          \* how many cells of the array are converted
    calls,          \* how many calls there were
    undefined,      \* why the behaviour is undefined from here on
    kept,           \* results Excel has no reason to hand back
    abandoned       \* blocks of an array whose conversion threw
vars == <<heap, pc, result, cells, calls, undefined, kept, abandoned>>

Types == {"None", "Num", "Bool", "Err", "Str", "Multi", "Garbage"}
Xloper == [xltype : Types, xlbitDLLFree : BOOLEAN, val : Blocks \cup {None}]
Value(type) == [xltype |-> type, xlbitDLLFree |-> FALSE, val |-> None]
Pointer(type, block) == [xltype |-> type, xlbitDLLFree |-> TRUE, val |-> block]

\* What a new block holds: calloc's zeros, malloc's garbage, or characters.
Zeros == <<Value("None")>>
Garbage(n) == [i \in 1 .. n |-> Value("Garbage")]
Characters == <<>>

Stored(block, content, memory) ==
    [b \in DOMAIN memory \cup {block} |-> IF b = block THEN content ELSE memory[b]]

Free == Offered(Blocks \ DOMAIN heap)

\* The blocks of a result: its own, and those it points to.
ResultOf(c) == heap[result[c]][1]
CellsOf(c) == IF ResultOf(c).xltype = "Multi" THEN heap[ResultOf(c).val] ELSE <<>>
CellTexts(c) == {CellsOf(c)[i].val : i \in {j \in DOMAIN CellsOf(c) : CellsOf(c)[j].xltype = "Str"}}
PointedTo(c) == ({ResultOf(c).val} \ {None}) \cup CellTexts(c)
Owned(c) == {result[c]} \cup PointedTo(c)

TypeOK ==
    /\ DOMAIN heap \subseteq Blocks
    /\ \A b \in DOMAIN heap : heap[b] \in Seq(Xloper)
    /\ pc \in [Calls -> {"idle", "body", "cells", "catch", "returned", "free"}]
    /\ result \in [Calls -> Blocks \cup {None}]
    /\ cells \in [Calls -> 0 .. MaxCells]
    /\ calls \in 0 .. MaxCalls
    /\ undefined \in {"no", "null", "terminator", "escaped"}
    /\ kept \subseteq Blocks /\ abandoned \subseteq Blocks

Init ==
    /\ heap = [b \in {} |-> <<>>]
    /\ pc = [c \in Calls |-> "idle"]
    /\ result = [c \in Calls |-> None]
    /\ cells = [c \in Calls |-> 0]
    /\ calls = 0
    /\ undefined = "no"
    /\ kept = {} /\ abandoned = {}

-----------------------------------------------------------------------------
(* A call *)

Goto(c, label) == pc' = [pc EXCEPT ![c] = label]

CanCall(c) ==
    /\ pc[c] = "idle" /\ calls < MaxCalls
    /\ \A d \in Calls : pc[d] \notin {"body", "cells", "catch"}

\* The result is allocated, filled with zeros.
Call(c) ==
    /\ CanCall(c)
    /\ \E b \in Free :
        /\ heap' = Stored(b, Zeros, heap)
        /\ result' = [result EXCEPT ![c] = b]
    /\ calls' = calls + 1
    /\ Goto(c, "body")
    /\ UNCHANGED <<cells, undefined, kept, abandoned>>

\* ConvertToLPXloper of a double, an int or a bool; and an exception that is
\* not a std::exception, for which the result is an error value.
ConvertValue(c) ==
    /\ pc[c] = "body"
    /\ \E type \in {"Num", "Bool", "Err"} :
        heap' = [heap EXCEPT ![result[c]] = <<Value(type)>>]
    /\ Goto(c, "returned")
    /\ UNCHANGED <<result, cells, calls, undefined, kept, abandoned>>

\* A text is terminated where its UTF-8 form ends, in room for two more than
\* its wide form.
TerminatorFits(text) == text.bytes + 1 < text.wide + 2

\* ConvertToLPXloper of a string, into an XLOPER12 of the heap.
ConvertText(c, block, i, memory) ==
    \E text \in Texts, b \in Free :
        /\ heap' = Stored(b, Characters, [memory EXCEPT ![block][i] = Pointer("Str", b)])
        /\ undefined' = IF TerminatorFits(text) THEN undefined ELSE "terminator"

ConvertResult(c) ==
    /\ pc[c] = "body"
    /\ ConvertText(c, result[c], 1, heap)
    /\ Goto(c, "returned")
    /\ UNCHANGED <<result, cells, calls, kept, abandoned>>

\* ConvertToLPXloper of an array: its cells are allocated first.
ConvertArray(c) ==
    /\ pc[c] = "body"
    /\ \E n \in 0 .. MaxCells, b \in Free :
        heap' = Stored(b, Garbage(n), [heap EXCEPT ![result[c]] = <<Pointer("Multi", b)>>])
    /\ cells' = [cells EXCEPT ![c] = 0]
    /\ Goto(c, "cells")
    /\ UNCHANGED <<result, calls, undefined, kept, abandoned>>

ConvertCell(c) ==
    /\ pc[c] = "cells" /\ cells[c] < Len(CellsOf(c))
    /\ \/ /\ heap' = [heap EXCEPT ![ResultOf(c).val][cells[c] + 1] = Value("Num")]
          /\ UNCHANGED undefined
       \/ ConvertText(c, ResultOf(c).val, cells[c] + 1, heap)
    /\ cells' = [cells EXCEPT ![c] = cells[c] + 1]
    /\ UNCHANGED <<pc, result, calls, kept, abandoned>>

ArrayDone(c) ==
    /\ pc[c] = "cells" /\ cells[c] = Len(CellsOf(c))
    /\ Goto(c, "returned")
    /\ UNCHANGED <<heap, result, cells, calls, undefined, kept, abandoned>>

\* A std::exception, from the function that is wrapped or, for want of memory,
\* out of a conversion: ToWString allocates before anything is changed.
Throw(c) ==
    /\ \/ pc[c] = "body"
       \/ pc[c] = "cells" /\ cells[c] < Len(CellsOf(c))
    /\ Goto(c, "catch")
    /\ UNCHANGED <<heap, result, cells, calls, undefined, kept, abandoned>>

\* A handler that returns what there is.
CatchAsItIs(c) ==
    /\ pc[c] = "catch"
    /\ Goto(c, "returned")
    /\ UNCHANGED <<heap, result, cells, calls, undefined, kept, abandoned>>

\* The message becomes the result, over whatever was converted so far.
Catch(c) ==
    /\ pc[c] = "catch"
    /\ abandoned' = abandoned \cup PointedTo(c)
    /\ ConvertText(c, result[c], 1, heap)
    /\ Goto(c, "returned")
    /\ UNCHANGED <<result, cells, calls, kept>>

\* The message cannot be converted, and the exception leaves a C function.
CatchThrows(c) ==
    /\ pc[c] = "catch"
    /\ undefined' = "escaped"
    /\ UNCHANGED <<heap, pc, result, cells, calls, kept, abandoned>>

\* calloc or malloc returns null, and is written to all the same.
OutOfMemory(c) ==
    /\ \/ CanCall(c)
       \/ pc[c] \in {"body", "catch"}
       \/ pc[c] = "cells" /\ cells[c] < Len(CellsOf(c))
    /\ undefined' = "null"
    /\ UNCHANGED <<heap, pc, result, cells, calls, kept, abandoned>>

-----------------------------------------------------------------------------
(* Excel *)

\* Excel has copied the result; it is handed back or forgotten.
Take(c) ==
    /\ pc[c] = "returned"
    /\ IF ResultOf(c).xlbitDLLFree
       THEN Goto(c, "free") /\ UNCHANGED <<result, kept>>
       ELSE /\ Goto(c, "idle")
            /\ kept' = kept \cup {result[c]}
            /\ result' = [result EXCEPT ![c] = None]
    /\ UNCHANGED <<heap, cells, calls, undefined, abandoned>>

\* The addresses xlAutoFree12 frees, by their place in its order: the texts of
\* cells in the loop over the cells, then what the result points to, then it.
PlacesOf(c) ==
    LET n == Len(CellsOf(c)) IN
    {n + 2} \cup (IF ResultOf(c).xltype \in {"Str", "Multi"} THEN {n + 1} ELSE {})
Freed(c, places) ==
    LET n == Len(CellsOf(c)) IN
    [i \in places |-> IF i = n + 2 THEN result[c]
                     ELSE IF i = n + 1 THEN ResultOf(c).val ELSE CellsOf(c)[i].val]
ToFreeArrayOnly(c) == Freed(c, PlacesOf(c))
ToFree(c) ==
    LET IsText(xloper) == xloper = Pointer("Str", xloper.val) IN
    Freed(c, {i \in DOMAIN CellsOf(c) : IsText(CellsOf(c)[i])} \cup PlacesOf(c))

Elements(s) == {s[i] : i \in DOMAIN s}

xlAutoFree12(c) ==
    /\ pc[c] = "free"
    /\ heap' = [b \in DOMAIN heap \ Elements(ToFree(c)) |-> heap[b]]
    /\ result' = [result EXCEPT ![c] = None]
    /\ Goto(c, "idle")
    /\ UNCHANGED <<cells, calls, undefined, kept, abandoned>>

Step(c) ==
    \/ Call(c) \/ ConvertValue(c) \/ ConvertResult(c)
    \/ ConvertArray(c) \/ ConvertCell(c) \/ ArrayDone(c)
    \/ Throw(c) \/ Catch(c) \/ CatchThrows(c) \/ OutOfMemory(c)
    \/ Take(c) \/ xlAutoFree12(c)

Next == undefined = "no" /\ \E c \in Calls : Step(c)

Spec == Init /\ [][Next]_vars

-----------------------------------------------------------------------------
(* What must hold *)

\* xlAutoFree12 (excel_functions.cpp:44-72) frees each block once, only blocks
\* that are allocated and that no other result needs, and never looks at a
\* cell that was not converted, whatever results are still to come back, errors
\* in the middle of conversions and freed addresses that are used again.
SafeToFree ==
    undefined = "no" =>
        \A c \in Calls : pc[c] = "free" =>
            LET freed == ToFree(c) IN
            /\ \A i, j \in DOMAIN freed : freed[i] = freed[j] => i = j
            /\ Elements(freed) \subseteq DOMAIN heap
            /\ \A i \in DOMAIN CellsOf(c) : CellsOf(c)[i].xltype # "Garbage"
            /\ \A d \in Calls \ {c} : pc[d] # "idle" => Elements(freed) \cap Owned(d) = {}

\* The only blocks that are never freed are the results of numbers, Booleans
\* and error values, which do not carry xlbitDLLFree (xloper_converter.cpp:97-
\* 116), and what was allocated for an array whose conversion threw, which the
\* message overwrites (auto_gen_time.cpp:29-33).
NothingElseLost ==
    undefined = "no" =>
        /\ DOMAIN heap = kept \cup abandoned \cup UNION {Owned(c) : c \in {d \in Calls : pc[d] # "idle"}}
        /\ \A b \in kept : Len(heap[b]) = 1 /\ heap[b][1].xltype \in {"Num", "Bool", "Err"}

\* What the comment at xloper_converter.cpp:125-127 says of a text's memory,
\* that it has the size of the wide text and not of the normal one: everything
\* that is written of a text lies inside it.
TextsFit == undefined # "terminator"
=============================================================================
