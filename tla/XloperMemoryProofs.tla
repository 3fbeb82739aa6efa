-------------------------- MODULE XloperMemoryProofs --------------------------
(***************************************************************************)
(* What xlAutoFree12 frees is safe to free and nothing else is lost but    *)
(* what NothingElseLost names, for any addresses, texts, numbers of calls  *)
(* and of cells: every allocated block is in use by exactly one result,    *)
(* kept, or abandoned.                                                     *)
(***************************************************************************)
EXTENDS XloperMemory, TLAPS

Live(c) == pc[c] # "idle"

\* An array: of its cells those that are converted are numbers, or texts in
\* blocks of their own; the others are still as malloc left them.
ArrayShape(c) ==
    /\ ResultOf(c) = Pointer("Multi", ResultOf(c).val)
    /\ ResultOf(c).val \in Blocks \ {result[c]}
    /\ cells[c] =< Len(CellsOf(c)) /\ Len(CellsOf(c)) =< MaxCells
    /\ \A i \in DOMAIN CellsOf(c) :
          IF i > cells[c] THEN CellsOf(c)[i] = Value("Garbage")
          ELSE \/ CellsOf(c)[i] = Value("Num")
               \/ /\ CellsOf(c)[i] = Pointer("Str", CellsOf(c)[i].val)
                  /\ CellsOf(c)[i].val \in Blocks \ {result[c], ResultOf(c).val}
    /\ \A i, j \in DOMAIN CellsOf(c) :
          CellsOf(c)[i].xltype = "Str" /\ CellsOf(c)[i] = CellsOf(c)[j] => i = j

TextShape(c) ==
    /\ ResultOf(c) = Pointer("Str", ResultOf(c).val)
    /\ ResultOf(c).val \in Blocks \ {result[c]}

ValueShape(c) == \E type \in {"Num", "Bool", "Err"} : ResultOf(c) = Value(type)

\* A result at each point of its call.
ResultShape(c) ==
    /\ result[c] \in Blocks /\ Len(heap[result[c]]) = 1
    /\ \/ pc[c] \in {"body", "catch"} /\ ResultOf(c) = Value("None")
       \/ pc[c] = "returned" /\ ValueShape(c)
       \/ pc[c] \in {"returned", "free"} /\ TextShape(c)
       \/ pc[c] \in {"cells", "catch"} /\ ArrayShape(c)
       \/ pc[c] \in {"returned", "free"} /\ ArrayShape(c) /\ cells[c] = Len(CellsOf(c))

InUse(c) == IF Live(c) THEN Owned(c) ELSE {}
Shapes == \A c \in Calls : Live(c) => ResultShape(c)

\* Every allocated block is somebody's, and nobody else's.
Accounted ==
    /\ DOMAIN heap = kept \cup abandoned \cup UNION {InUse(c) : c \in Calls}
    /\ kept \cap abandoned = {}
    /\ \A c \in Calls : InUse(c) \cap (kept \cup abandoned) = {}
    /\ \A c, d \in Calls : c # d => InUse(c) \cap InUse(d) = {}

KeptAreValues ==
    \A b \in kept : Len(heap[b]) = 1 /\ heap[b][1].xltype \in {"Num", "Bool", "Err"}

IInv == TypeOK /\ Shapes /\ Accounted /\ KeptAreValues

-----------------------------------------------------------------------------
(* What a result owns *)

\* A result owns its own block and, by its type, the block it points to and
\* those its cells point to.
LEMMA OwnedByType ==
    ASSUME NEW c \in Calls, ResultShape(c)
    PROVE  /\ result[c] \in Owned(c) /\ result[c] \notin PointedTo(c)
           /\ ResultOf(c).val = None => Owned(c) = {result[c]} /\ PointedTo(c) = {}
           /\ TextShape(c) => Owned(c) = {result[c], ResultOf(c).val}
           /\ ArrayShape(c) => /\ Owned(c) = {result[c], ResultOf(c).val} \cup CellTexts(c)
                               /\ CellsOf(c) = heap[ResultOf(c).val]
           /\ ~ArrayShape(c) => CellsOf(c) = <<>> /\ ResultOf(c).xltype # "Multi"
<1> USE DEF Owned, PointedTo
<1>1. None \notin Blocks
    BY ConstantsAssumption
<1>2. CASE ResultOf(c) = Value("None") \/ ValueShape(c)
    <2>1. ResultOf(c).val = None /\ ResultOf(c).xltype \notin {"Multi", "Str"}
        BY <1>2 DEF Value, ValueShape
    <2>2. CellsOf(c) = <<>> /\ CellTexts(c) = {}
        BY <2>1 DEF CellsOf, CellTexts
    <2>3. ~TextShape(c) /\ ~ArrayShape(c)
        BY <2>1, <1>1 DEF TextShape, ArrayShape
    <2>4. QED
        BY <2>1, <2>2, <2>3
<1>3. CASE TextShape(c)
    <2>1. ResultOf(c).xltype = "Str" /\ ResultOf(c).val \in Blocks \ {result[c]}
        BY <1>3 DEF TextShape, Pointer
    <2>2. CellsOf(c) = <<>> /\ CellTexts(c) = {}
        BY <2>1 DEF CellsOf, CellTexts
    <2>3. ~ArrayShape(c)
        BY <2>1 DEF ArrayShape, Pointer
    <2>4. QED
        BY <1>1, <2>1, <2>2, <2>3
<1>4. CASE ArrayShape(c)
    <2>1. ResultOf(c).xltype = "Multi" /\ ResultOf(c).val \in Blocks \ {result[c]}
        BY <1>4 DEF ArrayShape, Pointer
    <2>2. CellsOf(c) = heap[ResultOf(c).val]
        BY <2>1 DEF CellsOf
    <2>3. result[c] \notin CellTexts(c)
        BY <1>4, <2>1 DEF ArrayShape, CellTexts, Value
    <2>4. ~TextShape(c)
        BY <2>1 DEF TextShape, Pointer
    <2>5. QED
        BY <1>1, <1>4, <2>1, <2>2, <2>3, <2>4
<1>5. QED
    BY <1>2, <1>3, <1>4 DEF ResultShape

\* A result whose blocks are left alone stays what it is.
LEMMA Untouched ==
    ASSUME NEW d \in Calls, Live(d) => ResultShape(d),
           pc'[d] = pc[d], result'[d] = result[d], cells'[d] = cells[d],
           \A b \in InUse(d) : heap'[b] = heap[b]
    PROVE  InUse(d)' = InUse(d) /\ (Live(d) => ResultShape(d))'
<1>1. CASE ~Live(d)
    BY <1>1 DEF Live, InUse
<1>2. CASE Live(d)
    <2>1. ResultShape(d) /\ InUse(d) = Owned(d)
        BY <1>2 DEF InUse
    <2>2. heap'[result[d]] = heap[result[d]]
        BY <2>1, OwnedByType
    <2>3. ResultOf(d)' = ResultOf(d)
        BY <2>2 DEF ResultOf
    <2>4. CellsOf(d)' = CellsOf(d)
        <3>1. CASE ArrayShape(d)
            <4>1. heap'[ResultOf(d).val] = heap[ResultOf(d).val]
                BY <2>1, <3>1, OwnedByType
            <4>2. QED
                BY <2>3, <4>1 DEF CellsOf
        <3>2. CASE ~ArrayShape(d)
            <4>1. ResultOf(d).xltype # "Multi"
                BY <2>1, <3>2, OwnedByType
            <4>2. QED
                BY <2>3, <4>1 DEF CellsOf
        <3>3. QED
            BY <3>1, <3>2
    <2>5. InUse(d)' = InUse(d)
        BY <1>2, <2>3, <2>4 DEF InUse, Live, Owned, PointedTo, CellTexts
    <2>6. ArrayShape(d)' = ArrayShape(d)
        BY <2>3, <2>4 DEF ArrayShape
    <2>7. TextShape(d)' = TextShape(d) /\ ValueShape(d)' = ValueShape(d)
        BY <2>3 DEF TextShape, ValueShape
    <2>8. ResultShape(d)'
        BY <2>1, <2>2, <2>3, <2>4, <2>6, <2>7 DEF ResultShape
    <2>9. QED
        BY <2>5, <2>8
<1>3. QED
    BY <1>1, <1>2

\* What an operation on one result must do to its blocks: of those it had and
\* those that were free, some become kept, some abandoned and some its own,
\* and what is left of its old ones is freed.
LEMMA AccountKept ==
    ASSUME IInv, TypeOK', NEW c \in Calls,
           \A d \in Calls \ {c} : /\ pc'[d] = pc[d] /\ result'[d] = result[d]
                                  /\ cells'[d] = cells[d],
           \A b \in DOMAIN heap \ InUse(c) : heap'[b] = heap[b],
           NEW K, NEW A, NEW N,
           kept' = kept \cup K, abandoned' = abandoned \cup A, InUse(c)' = N,
           K \cap A = {}, K \cap N = {}, A \cap N = {},
           K \cup A \cup N \subseteq InUse(c) \cup (Blocks \ DOMAIN heap),
           DOMAIN heap' = (DOMAIN heap \ InUse(c)) \cup K \cup A \cup N,
           (Live(c) => ResultShape(c))',
           \A b \in K : Len(heap'[b]) = 1 /\ heap'[b][1].xltype \in {"Num", "Bool", "Err"}
    PROVE  IInv'
<1>1. Accounted /\ Shapes /\ KeptAreValues
    BY DEF IInv
<1>2. \A d \in Calls \ {c} : InUse(d) \subseteq DOMAIN heap \ InUse(c)
    BY <1>1 DEF Accounted
<1>3. \A d \in Calls \ {c} : InUse(d)' = InUse(d) /\ (Live(d) => ResultShape(d))'
    <2> SUFFICES ASSUME NEW d \in Calls \ {c}
                 PROVE  InUse(d)' = InUse(d) /\ (Live(d) => ResultShape(d))'
        OBVIOUS
    <2>1. Live(d) => ResultShape(d)
        BY <1>1 DEF Shapes
    <2>2. \A b \in InUse(d) : heap'[b] = heap[b]
        BY <1>2
    <2>3. QED
        BY <2>1, <2>2, Untouched
<1>4. Shapes'
    BY <1>3 DEF Shapes
<1> DEFINE rest == UNION {InUse(d) : d \in Calls \ {c}}
<1>5. UNION {InUse(d) : d \in Calls} = rest \cup InUse(c)
    OBVIOUS
<1>6. (UNION {InUse(d) : d \in Calls})' = rest \cup N
    <2>1. \A x : x \in (UNION {InUse(d) : d \in Calls})' <=> \E d \in Calls : x \in InUse(d)'
        OBVIOUS
    <2>2. \A x : x \in rest <=> \E d \in Calls \ {c} : x \in InUse(d)
        OBVIOUS
    <2> HIDE DEF rest
    <2>3. QED
        BY <1>3, <2>1, <2>2
<1>7. rest \cap InUse(c) = {} /\ rest \cap (kept \cup abandoned) = {}
    BY <1>1 DEF Accounted
<1>8. /\ DOMAIN heap = kept \cup abandoned \cup rest \cup InUse(c)
      /\ kept \cap abandoned = {} /\ InUse(c) \cap (kept \cup abandoned) = {}
    BY <1>1, <1>5 DEF Accounted
<1>9. \A d \in Calls \ {c} : InUse(d) \subseteq rest
    OBVIOUS
<1> HIDE DEF rest
<1>10. DOMAIN heap' = kept' \cup abandoned' \cup (rest \cup N)
    BY <1>7, <1>8
<1>11. kept' \cap abandoned' = {}
    BY <1>8
<1>12. N \cap (kept' \cup abandoned') = {} /\ N \cap rest = {}
    BY <1>7, <1>8
<1>13. rest \cap (kept' \cup abandoned') = {}
    BY <1>7, <1>8
<1>14. Accounted'
    <2>1. \A d \in Calls : InUse(d)' \cap (kept' \cup abandoned') = {}
        BY <1>3, <1>9, <1>12, <1>13
    <2>2. \A d, e \in Calls : d # e => InUse(d)' \cap InUse(e)' = {}
        <3> SUFFICES ASSUME NEW d \in Calls, NEW e \in Calls, d # e
                     PROVE  InUse(d)' \cap InUse(e)' = {}
            OBVIOUS
        <3>1. CASE d # c /\ e # c
            BY <1>1, <1>3, <3>1 DEF Accounted
        <3>2. CASE d = c \/ e = c
            BY <1>3, <1>9, <1>12, <3>2
        <3>3. QED
            BY <3>1, <3>2
    <2>3. QED
        BY <1>6, <1>10, <1>11, <2>1, <2>2 DEF Accounted
<1>15. KeptAreValues'
    <2> SUFFICES ASSUME NEW b \in kept'
                 PROVE  Len(heap'[b]) = 1 /\ heap'[b][1].xltype \in {"Num", "Bool", "Err"}
        BY DEF KeptAreValues
    <2>1. CASE b \in K
        BY <2>1
    <2>2. CASE b \in kept
        <3>1. heap'[b] = heap[b]
            BY <1>8, <2>2
        <3>2. QED
            BY <1>1, <2>2, <3>1 DEF KeptAreValues
    <2>3. QED
        BY <2>1, <2>2
<1>16. QED
    BY <1>4, <1>14, <1>15 DEF IInv

-----------------------------------------------------------------------------
(* The operations *)

LEMMA XlopersTyped ==
    /\ \A type \in Types : Value(type) \in Xloper /\ <<Value(type)>> \in Seq(Xloper)
    /\ \A type \in Types, b \in Blocks : Pointer(type, b) \in Xloper
                                         /\ <<Pointer(type, b)>> \in Seq(Xloper)
    /\ Types = {"None", "Num", "Bool", "Err", "Str", "Multi", "Garbage"}
<1>1. \A type \in Types : Value(type) \in Xloper
    BY DEF Value, Xloper
<1>2. \A type \in Types, b \in Blocks : Pointer(type, b) \in Xloper
    BY DEF Pointer, Xloper
<1>3. \A x \in Xloper : <<x>> \in Seq(Xloper)
    OBVIOUS
<1>4. QED
    BY <1>1, <1>2, <1>3 DEF Types

\* A free address is not in use.
LEMMA FreeIsFree == Free \subseteq Blocks \ DOMAIN heap
BY ConstantsAssumption DEF Free

\* The blocks of a result that exists.
LEMMA LiveResult ==
    ASSUME IInv, NEW c \in Calls, Live(c)
    PROVE  /\ ResultShape(c) /\ InUse(c) = Owned(c)
           /\ Owned(c) \subseteq DOMAIN heap /\ DOMAIN heap \subseteq Blocks
           /\ result[c] \in DOMAIN heap /\ result[c] \in Owned(c)
           /\ heap[result[c]] \in Seq(Xloper) /\ Len(heap[result[c]]) = 1
           /\ heap[result[c]] = <<ResultOf(c)>>
<1>1. ResultShape(c) /\ InUse(c) = Owned(c)
    BY DEF IInv, Shapes, InUse
<1>2. Owned(c) \subseteq DOMAIN heap
    BY <1>1 DEF IInv, Accounted
<1>3. result[c] \in Owned(c)
    BY <1>1, OwnedByType
<1>4. heap[result[c]] \in Seq(Xloper) /\ DOMAIN heap \subseteq Blocks
    BY <1>2, <1>3 DEF IInv, TypeOK
<1>5. Len(heap[result[c]]) = 1
    BY <1>1 DEF ResultShape
<1>6. heap[result[c]] = <<ResultOf(c)>>
    BY <1>4, <1>5 DEF ResultOf
<1>7. QED
    BY <1>1, <1>2, <1>3, <1>4, <1>5, <1>6

LEMMA CallKeeps ==
    ASSUME IInv, NEW c \in Calls, Call(c)
    PROVE  IInv'
<1>1. PICK b \in Free : heap' = Stored(b, Zeros, heap) /\ result' = [result EXCEPT ![c] = b]
    BY DEF Call
<1>2. b \in Blocks \ DOMAIN heap
    BY FreeIsFree
<1>3. /\ pc' = [pc EXCEPT ![c] = "body"] /\ pc[c] = "idle" /\ calls' = calls + 1 /\ calls < MaxCalls
      /\ cells' = cells /\ undefined' = undefined /\ kept' = kept /\ abandoned' = abandoned
    BY DEF Call, CanCall, Goto
<1>4. TypeOK
    BY DEF IInv
<1>5. /\ DOMAIN heap' = DOMAIN heap \cup {b} /\ heap'[b] = <<Value("None")>>
      /\ \A x \in DOMAIN heap : heap'[x] = heap[x]
    BY <1>1, <1>2 DEF Stored, Zeros
<1>6. TypeOK'
    <2>1. \A x \in DOMAIN heap' : heap'[x] \in Seq(Xloper)
        BY <1>4, <1>5, XlopersTyped DEF TypeOK
    <2>2. result' \in [Calls -> Blocks \cup {None}]
        BY <1>1, <1>2, <1>4 DEF TypeOK
    <2>3. pc' \in [Calls -> {"idle", "body", "cells", "catch", "returned", "free"}]
        BY <1>3, <1>4 DEF TypeOK
    <2>4. calls' \in 0 .. MaxCalls
        BY <1>3, <1>4, ConstantsAssumption DEF TypeOK
    <2>5. QED
        BY <1>2, <1>3, <1>4, <1>5, <2>1, <2>2, <2>3, <2>4 DEF TypeOK
<1>7. result'[c] = b /\ pc'[c] = "body"
    BY <1>1, <1>3, <1>4 DEF TypeOK
<1>8. ResultOf(c)' = Value("None") /\ Live(c)'
    BY <1>5, <1>7 DEF ResultOf, Live
<1>9. ResultShape(c)'
    BY <1>2, <1>5, <1>7, <1>8 DEF ResultShape
<1>10. InUse(c)' = {b}
    <2>1. CellsOf(c)' = <<>> /\ ResultOf(c)'.val = None
        BY <1>8 DEF CellsOf, Value
    <2>2. PointedTo(c)' = {}
        BY <2>1 DEF PointedTo, CellTexts
    <2>3. QED
        BY <1>7, <1>8, <2>2 DEF InUse, Owned
<1>11. InUse(c) = {}
    BY <1>3 DEF InUse, Live
<1>12. \A d \in Calls \ {c} : pc'[d] = pc[d] /\ result'[d] = result[d] /\ cells'[d] = cells[d]
    BY <1>1, <1>3, <1>4 DEF TypeOK
<1> DEFINE K == {}
           A == {}
<1>13. /\ kept' = kept \cup K /\ abandoned' = abandoned \cup A
       /\ K \cap A = {} /\ K \cap {b} = {} /\ A \cap {b} = {}
       /\ K \cup A \cup {b} \subseteq InUse(c) \cup (Blocks \ DOMAIN heap)
       /\ DOMAIN heap' = (DOMAIN heap \ InUse(c)) \cup K \cup A \cup {b}
       /\ \A x \in K : Len(heap'[x]) = 1 /\ heap'[x][1].xltype \in {"Num", "Bool", "Err"}
    BY <1>2, <1>3, <1>5, <1>11
<1> HIDE DEF K, A
<1>14. QED
    BY <1>5, <1>6, <1>9, <1>10, <1>12, <1>13, AccountKept

\* An operation that leaves every block where it is.
LEMMA SameBlocks ==
    ASSUME IInv, TypeOK', NEW c \in Calls, Live(c), ResultShape(c)', Live(c)',
           \A d \in Calls \ {c} : /\ pc'[d] = pc[d] /\ result'[d] = result[d]
                                  /\ cells'[d] = cells[d],
           \A b \in DOMAIN heap \ InUse(c) : heap'[b] = heap[b],
           kept' = kept, abandoned' = abandoned, DOMAIN heap' = DOMAIN heap,
           Owned(c)' = Owned(c)
    PROVE  IInv'
<1> DEFINE K == {}
           A == {}
           N == Owned(c)
<1>1. InUse(c)' = N /\ InUse(c) = N /\ N \subseteq DOMAIN heap
    BY LiveResult DEF InUse
<1>2. /\ kept' = kept \cup K /\ abandoned' = abandoned \cup A
      /\ K \cap A = {} /\ K \cap N = {} /\ A \cap N = {}
      /\ K \cup A \cup N \subseteq InUse(c) \cup (Blocks \ DOMAIN heap)
      /\ DOMAIN heap' = (DOMAIN heap \ InUse(c)) \cup K \cup A \cup N
      /\ \A x \in K : Len(heap'[x]) = 1 /\ heap'[x][1].xltype \in {"Num", "Bool", "Err"}
    BY <1>1
<1> HIDE DEF K, A, N
<1>3. QED
    BY <1>1, <1>2, AccountKept

\* An operation that takes one new block for its result, which then owns that
\* and some of the blocks it owned; the others it owned are abandoned.
LEMMA OneNewBlock ==
    ASSUME IInv, TypeOK', NEW c \in Calls, Live(c), ResultShape(c)', Live(c)',
           \A d \in Calls \ {c} : /\ pc'[d] = pc[d] /\ result'[d] = result[d]
                                  /\ cells'[d] = cells[d],
           \A b \in DOMAIN heap \ InUse(c) : heap'[b] = heap[b],
           NEW A, A \subseteq Owned(c),
           kept' = kept, abandoned' = abandoned \cup A,
           NEW b \in Blocks \ DOMAIN heap, DOMAIN heap' = DOMAIN heap \cup {b},
           Owned(c)' = (Owned(c) \ A) \cup {b}
    PROVE  IInv'
<1> DEFINE K == {}
           N == (Owned(c) \ A) \cup {b}
<1>1. InUse(c)' = N /\ InUse(c) = Owned(c) /\ Owned(c) \subseteq DOMAIN heap
    BY LiveResult DEF InUse
<1>2. /\ kept' = kept \cup K /\ abandoned' = abandoned \cup A
      /\ K \cap A = {} /\ K \cap N = {} /\ A \cap N = {}
      /\ K \cup A \cup N \subseteq InUse(c) \cup (Blocks \ DOMAIN heap)
      /\ DOMAIN heap' = (DOMAIN heap \ InUse(c)) \cup K \cup A \cup N
      /\ \A x \in K : Len(heap'[x]) = 1 /\ heap'[x][1].xltype \in {"Num", "Bool", "Err"}
    BY <1>1
<1> HIDE DEF K, N
<1>3. QED
    BY <1>1, <1>2, AccountKept

LEMMA ConvertValueKeeps ==
    ASSUME IInv, NEW c \in Calls, ConvertValue(c)
    PROVE  IInv'
<1>1. PICK type \in {"Num", "Bool", "Err"} : heap' = [heap EXCEPT ![result[c]] = <<Value(type)>>]
    BY DEF ConvertValue
<1>2. /\ pc[c] = "body" /\ pc' = [pc EXCEPT ![c] = "returned"]
      /\ result' = result /\ cells' = cells /\ calls' = calls /\ undefined' = undefined
      /\ kept' = kept /\ abandoned' = abandoned
    BY DEF ConvertValue, Goto
<1>3. TypeOK /\ Live(c)
    BY <1>2 DEF IInv, Live
<1>4. /\ ResultShape(c) /\ InUse(c) = Owned(c) /\ result[c] \in DOMAIN heap
      /\ result[c] \in Owned(c) /\ result[c] \in Blocks
    BY <1>3, LiveResult
<1>5. /\ DOMAIN heap' = DOMAIN heap /\ heap'[result[c]] = <<Value(type)>>
      /\ \A x \in DOMAIN heap \ {result[c]} : heap'[x] = heap[x]
    BY <1>1, <1>4
<1>6. TypeOK'
    <2>1. \A x \in DOMAIN heap' : heap'[x] \in Seq(Xloper)
        BY <1>3, <1>5, XlopersTyped DEF TypeOK
    <2>2. QED
        BY <1>2, <1>3, <1>5, <2>1 DEF TypeOK
<1>7. pc'[c] = "returned" /\ result'[c] = result[c]
    BY <1>2, <1>3 DEF TypeOK
<1>8. ResultOf(c)' = Value(type) /\ Live(c)'
    BY <1>5, <1>7 DEF ResultOf, Live
<1>9. ResultShape(c)'
    <2>1. ValueShape(c)' /\ Len(heap'[result'[c]]) = 1
        BY <1>5, <1>7, <1>8 DEF ValueShape
    <2>2. QED
        BY <1>4, <1>7, <2>1 DEF ResultShape
<1>10. Owned(c) = {result[c]}
    BY <1>2, <1>4, OwnedByType DEF ResultShape, Value
<1>11. Owned(c)' = {result[c]}
    <2>1. CellsOf(c)' = <<>> /\ ResultOf(c)'.val = None
        BY <1>8 DEF CellsOf, Value
    <2>2. PointedTo(c)' = {}
        BY <2>1 DEF PointedTo, CellTexts
    <2>3. QED
        BY <1>7, <2>2 DEF Owned
<1>12. /\ \A d \in Calls \ {c} : pc'[d] = pc[d] /\ result'[d] = result[d] /\ cells'[d] = cells[d]
       /\ \A b \in DOMAIN heap \ InUse(c) : heap'[b] = heap[b]
    BY <1>2, <1>3, <1>4, <1>5 DEF TypeOK
<1>13. QED
    BY <1>2, <1>3, <1>5, <1>6, <1>8, <1>9, <1>10, <1>11, <1>12, SameBlocks

\* A text takes a new block for its characters and points to it.
LEMMA TextConverted ==
    ASSUME TypeOK, NEW c, NEW block \in DOMAIN heap, NEW i \in DOMAIN heap[block],
           ConvertText(c, block, i, heap)
    PROVE  /\ \E b \in Blocks \ DOMAIN heap :
                /\ DOMAIN heap' = DOMAIN heap \cup {b}
                /\ heap'[block] = [heap[block] EXCEPT ![i] = Pointer("Str", b)]
                /\ heap'[b] = <<>>
                /\ \A x \in DOMAIN heap \ {block} : heap'[x] = heap[x]
           /\ DOMAIN heap' \subseteq Blocks
           /\ \A x \in DOMAIN heap' : heap'[x] \in Seq(Xloper)
           /\ undefined' \in {"no", "null", "terminator", "escaped"}
<1>1. PICK text \in Texts, b \in Free :
        /\ heap' = Stored(b, Characters, [heap EXCEPT ![block][i] = Pointer("Str", b)])
        /\ undefined' = IF TerminatorFits(text) THEN undefined ELSE "terminator"
    BY DEF ConvertText
<1>2. b \in Blocks \ DOMAIN heap
    BY FreeIsFree
<1> DEFINE memory == [heap EXCEPT ![block][i] = Pointer("Str", b)]
           changed == [heap[block] EXCEPT ![i] = Pointer("Str", b)]
<1>3. /\ DOMAIN memory = DOMAIN heap /\ memory[block] = changed
      /\ \A x \in DOMAIN heap \ {block} : memory[x] = heap[x]
    OBVIOUS
<1>4. heap' = Stored(b, Characters, memory)
    BY <1>1
<1>5. changed \in Seq(Xloper)
    <2>1. heap[block] \in Seq(Xloper) /\ i \in 1 .. Len(heap[block])
        BY DEF TypeOK
    <2>2. Pointer("Str", b) \in Xloper
        BY <1>2, XlopersTyped
    <2>3. QED
        BY <2>1, <2>2
<1> HIDE DEF memory, changed
<1>6. /\ DOMAIN heap' = DOMAIN heap \cup {b} /\ heap'[block] = changed /\ heap'[b] = <<>>
      /\ \A x \in DOMAIN heap \ {block} : heap'[x] = heap[x]
    BY <1>2, <1>3, <1>4 DEF Stored, Characters
<1>7. <<>> \in Seq(Xloper)
    OBVIOUS
<1>8. \A x \in DOMAIN heap' : heap'[x] \in Seq(Xloper)
    BY <1>5, <1>6, <1>7 DEF TypeOK
<1>9. undefined' \in {"no", "null", "terminator", "escaped"}
    BY <1>1 DEF TypeOK
<1>10. QED
    BY <1>2, <1>6, <1>8, <1>9 DEF changed, TypeOK

\* The result becomes a text: of what it pointed to nothing is left.
LEMMA BecomesText ==
    ASSUME IInv, NEW c \in Calls, Live(c), ConvertText(c, result[c], 1, heap),
           Goto(c, "returned"), UNCHANGED <<result, cells, calls, kept>>,
           abandoned' = abandoned \cup PointedTo(c)
    PROVE  IInv'
<1>1. /\ ResultShape(c) /\ InUse(c) = Owned(c) /\ Owned(c) \subseteq DOMAIN heap
      /\ result[c] \in DOMAIN heap /\ result[c] \in Owned(c) /\ result[c] \in Blocks
      /\ heap[result[c]] = <<ResultOf(c)>> /\ DOMAIN heap \subseteq Blocks
    BY LiveResult
<1>2. TypeOK /\ 1 \in DOMAIN heap[result[c]]
    BY <1>1 DEF IInv
<1>3. PICK b \in Blocks \ DOMAIN heap :
                /\ DOMAIN heap' = DOMAIN heap \cup {b}
                /\ heap'[result[c]] = [heap[result[c]] EXCEPT ![1] = Pointer("Str", b)]
                /\ heap'[b] = <<>>
                /\ \A x \in DOMAIN heap \ {result[c]} : heap'[x] = heap[x]
    BY <1>1, <1>2, TextConverted
<1>4. /\ DOMAIN heap' \subseteq Blocks
      /\ \A x \in DOMAIN heap' : heap'[x] \in Seq(Xloper)
      /\ undefined' \in {"no", "null", "terminator", "escaped"}
    BY <1>1, <1>2, TextConverted
<1>5. heap'[result[c]] = <<Pointer("Str", b)>>
    BY <1>1, <1>3
<1>6. pc' = [pc EXCEPT ![c] = "returned"] /\ result' = result /\ cells' = cells
    BY DEF Goto
<1>7. Owned(c) = {result[c]} \cup PointedTo(c) /\ result[c] \notin PointedTo(c)
    BY <1>1, OwnedByType DEF Owned
<1>8. TypeOK'
    BY <1>1, <1>2, <1>4, <1>6, <1>7 DEF TypeOK
<1>9. pc'[c] = "returned" /\ result'[c] = result[c] /\ Live(c)'
    BY <1>2, <1>6 DEF TypeOK, Live
<1>10. ResultOf(c)' = Pointer("Str", b)
    BY <1>5, <1>9 DEF ResultOf
<1>11. TextShape(c)' /\ ResultOf(c)'.val = b
    BY <1>1, <1>3, <1>9, <1>10 DEF TextShape, Pointer
<1>12. ResultShape(c)'
    <2>1. Len(heap'[result'[c]]) = 1
        BY <1>5, <1>9
    <2>2. QED
        BY <1>1, <1>9, <1>11, <2>1 DEF ResultShape
<1>13. Owned(c)' = {result[c], b}
    <2>1. CellsOf(c)' = <<>> /\ ResultOf(c)'.val = b /\ b # None
        BY <1>3, <1>10, ConstantsAssumption DEF CellsOf, Pointer
    <2>2. PointedTo(c)' = {b}
        BY <2>1 DEF PointedTo, CellTexts
    <2>3. QED
        BY <1>9, <2>2 DEF Owned
<1>14. Owned(c)' = (Owned(c) \ PointedTo(c)) \cup {b}
    BY <1>7, <1>13
<1>15. /\ \A d \in Calls \ {c} : pc'[d] = pc[d] /\ result'[d] = result[d] /\ cells'[d] = cells[d]
       /\ \A x \in DOMAIN heap \ InUse(c) : heap'[x] = heap[x]
    BY <1>1, <1>2, <1>3, <1>6 DEF TypeOK
<1> DEFINE A == PointedTo(c)
<1>16. A \subseteq Owned(c) /\ abandoned' = abandoned \cup A /\ Owned(c)' = (Owned(c) \ A) \cup {b}
    BY <1>7, <1>14
<1> HIDE DEF A
<1>17. QED
    BY <1>3, <1>8, <1>9, <1>12, <1>15, <1>16, OneNewBlock

LEMMA ConvertResultKeeps ==
    ASSUME IInv, NEW c \in Calls, ConvertResult(c)
    PROVE  IInv'
<1>1. Live(c) /\ pc[c] = "body"
    BY DEF ConvertResult, Live
<1>2. ResultShape(c)
    BY <1>1, LiveResult
<1>3. PointedTo(c) = {}
    BY <1>1, <1>2, OwnedByType DEF ResultShape, Value
<1>4. QED
    BY <1>1, <1>3, BecomesText DEF ConvertResult

LEMMA CatchKeeps ==
    ASSUME IInv, NEW c \in Calls, Catch(c)
    PROVE  IInv'
BY BecomesText DEF Catch, Live

LEMMA ConvertArrayKeeps ==
    ASSUME IInv, NEW c \in Calls, ConvertArray(c)
    PROVE  IInv'
<1>1. PICK n \in 0 .. MaxCells, b \in Free :
        heap' = Stored(b, Garbage(n), [heap EXCEPT ![result[c]] = <<Pointer("Multi", b)>>])
    BY DEF ConvertArray
<1>2. b \in Blocks \ DOMAIN heap /\ n \in Nat
    BY FreeIsFree, ConstantsAssumption
<1>3. /\ pc[c] = "body" /\ pc' = [pc EXCEPT ![c] = "cells"] /\ cells' = [cells EXCEPT ![c] = 0]
      /\ result' = result /\ calls' = calls /\ undefined' = undefined
      /\ kept' = kept /\ abandoned' = abandoned
    BY DEF ConvertArray, Goto
<1>4. TypeOK /\ Live(c)
    BY <1>3 DEF IInv, Live
<1>5. /\ ResultShape(c) /\ InUse(c) = Owned(c) /\ Owned(c) \subseteq DOMAIN heap
      /\ result[c] \in DOMAIN heap /\ result[c] \in Owned(c) /\ result[c] \in Blocks
    BY <1>4, LiveResult
<1> DEFINE memory == [heap EXCEPT ![result[c]] = <<Pointer("Multi", b)>>]
<1>6. /\ DOMAIN memory = DOMAIN heap /\ memory[result[c]] = <<Pointer("Multi", b)>>
      /\ \A x \in DOMAIN heap \ {result[c]} : memory[x] = heap[x]
    BY <1>5
<1>7. heap' = Stored(b, Garbage(n), memory)
    BY <1>1
<1> HIDE DEF memory
<1>8. /\ DOMAIN heap' = DOMAIN heap \cup {b} /\ heap'[b] = Garbage(n)
      /\ heap'[result[c]] = <<Pointer("Multi", b)>>
      /\ \A x \in DOMAIN heap \ {result[c]} : heap'[x] = heap[x]
    BY <1>2, <1>5, <1>6, <1>7 DEF Stored
<1>9. /\ Garbage(n) \in Seq(Xloper) /\ Len(Garbage(n)) = n /\ DOMAIN Garbage(n) = 1 .. n
      /\ \A i \in 1 .. n : Garbage(n)[i] = Value("Garbage")
    <2>1. Value("Garbage") \in Xloper
        BY XlopersTyped
    <2>2. QED
        BY <1>2, <2>1 DEF Garbage
<1>10. TypeOK'
    <2>1. \A x \in DOMAIN heap' : heap'[x] \in Seq(Xloper)
        <3>1. <<Pointer("Multi", b)>> \in Seq(Xloper)
            BY <1>2, XlopersTyped
        <3>2. QED
            BY <1>4, <1>8, <1>9, <3>1 DEF TypeOK
    <2>2. pc' \in [Calls -> {"idle", "body", "cells", "catch", "returned", "free"}]
        BY <1>3, <1>4 DEF TypeOK
    <2>3. cells' \in [Calls -> 0 .. MaxCells]
        BY <1>3, <1>4, ConstantsAssumption DEF TypeOK
    <2>4. QED
        BY <1>2, <1>3, <1>4, <1>8, <2>1, <2>2, <2>3 DEF TypeOK
<1>11. pc'[c] = "cells" /\ result'[c] = result[c] /\ cells'[c] = 0 /\ Live(c)'
    BY <1>3, <1>4 DEF TypeOK, Live
<1>12. ResultOf(c)' = Pointer("Multi", b) /\ Len(heap'[result'[c]]) = 1
    BY <1>8, <1>11 DEF ResultOf
<1>13. ResultOf(c)'.xltype = "Multi" /\ ResultOf(c)'.val = b
    BY <1>12 DEF Pointer
<1>14. CellsOf(c)' = Garbage(n)
    BY <1>8, <1>13 DEF CellsOf
<1>15. CellTexts(c)' = {}
    BY <1>9, <1>14 DEF CellTexts, Value
<1>16. Owned(c)' = {result[c], b}
    <2>1. b # None
        BY <1>2, ConstantsAssumption
    <2>2. PointedTo(c)' = {b}
        BY <1>13, <1>15, <2>1 DEF PointedTo
    <2>3. QED
        BY <1>11, <2>2 DEF Owned
<1>17. ResultShape(c)'
    <2>1. ArrayShape(c)'
        <3>1. b # result[c]
            BY <1>2, <1>5
        <3>2. \A i \in 1 .. n : i > 0 /\ Value("Garbage").xltype # "Str"
            BY DEF Value
        <3>3. QED
            BY <1>2, <1>9, <1>11, <1>12, <1>13, <1>14, <3>1, <3>2 DEF ArrayShape
    <2>2. QED
        BY <1>5, <1>11, <1>12, <2>1 DEF ResultShape
<1>18. Owned(c) = {result[c]}
    BY <1>3, <1>5, OwnedByType DEF ResultShape, Value
<1> DEFINE A == {}
<1>19. /\ A \subseteq Owned(c) /\ abandoned' = abandoned \cup A
       /\ Owned(c)' = (Owned(c) \ A) \cup {b}
    BY <1>3, <1>16, <1>18
<1> HIDE DEF A
<1>20. /\ \A d \in Calls \ {c} : pc'[d] = pc[d] /\ result'[d] = result[d] /\ cells'[d] = cells[d]
       /\ \A x \in DOMAIN heap \ InUse(c) : heap'[x] = heap[x]
    BY <1>3, <1>4, <1>5, <1>8 DEF TypeOK
<1>21. QED
    BY <1>2, <1>3, <1>4, <1>8, <1>10, <1>11, <1>17, <1>19, <1>20, OneNewBlock

\* One more cell of an array is converted.
LEMMA OneMoreCell ==
    ASSUME NEW c \in Calls, ArrayShape(c), cells[c] < Len(CellsOf(c)), cells[c] \in Nat,
           CellsOf(c) \in Seq(Xloper), NEW x,
           result'[c] = result[c], ResultOf(c)' = ResultOf(c), cells'[c] = cells[c] + 1,
           CellsOf(c)' = [CellsOf(c) EXCEPT ![cells[c] + 1] = x],
           \/ x = Value("Num")
           \/ /\ x = Pointer("Str", x.val)
              /\ x.val \in Blocks \ ({result[c], ResultOf(c).val} \cup CellTexts(c))
    PROVE  /\ ArrayShape(c)'
           /\ CellTexts(c)' = CellTexts(c) \cup (IF x.xltype = "Str" THEN {x.val} ELSE {})
<1> DEFINE s == CellsOf(c)
           t == CellsOf(c)'
           n == cells[c] + 1
<1>1. /\ DOMAIN t = DOMAIN s /\ Len(t) = Len(s) /\ n \in DOMAIN s /\ n \in Nat
      /\ t[n] = x /\ \A i \in DOMAIN s \ {n} : t[i] = s[i]
      /\ DOMAIN s = 1 .. Len(s) /\ Len(s) \in Nat
    OBVIOUS
<1>2. /\ s[n] = Value("Garbage") /\ s[n].xltype # "Str"
      /\ \A i \in DOMAIN s : IF i > cells[c] THEN s[i] = Value("Garbage")
                             ELSE \/ s[i] = Value("Num")
                                  \/ /\ s[i] = Pointer("Str", s[i].val)
                                     /\ s[i].val \in Blocks \ {result[c], ResultOf(c).val}
      /\ \A i, j \in DOMAIN s : s[i].xltype = "Str" /\ s[i] = s[j] => i = j
      /\ ResultOf(c) = Pointer("Multi", ResultOf(c).val)
      /\ ResultOf(c).val \in Blocks \ {result[c]} /\ Len(s) =< MaxCells
    <2>1. ~(cells[c] >= n) /\ n > cells[c]
        BY <1>1
    <2>2. s[n] = Value("Garbage")
        BY <1>1, <2>1 DEF ArrayShape
    <2>3. s[n].xltype # "Str"
        BY <2>2 DEF Value
    <2>4. QED
        BY <2>2, <2>3 DEF ArrayShape
<1>3. /\ CellTexts(c) = {s[i].val : i \in {j \in DOMAIN s : s[j].xltype = "Str"}}
      /\ CellTexts(c)' = {t[i].val : i \in {j \in DOMAIN t : t[j].xltype = "Str"}}
    BY DEF CellTexts
<1> HIDE DEF s, t
<1>4. CellTexts(c)' = CellTexts(c) \cup (IF x.xltype = "Str" THEN {x.val} ELSE {})
    BY <1>1, <1>2, <1>3
<1>5. \A i \in DOMAIN t : IF i > n THEN t[i] = Value("Garbage")
                          ELSE \/ t[i] = Value("Num")
                               \/ /\ t[i] = Pointer("Str", t[i].val)
                                  /\ t[i].val \in Blocks \ {result[c], ResultOf(c).val}
    <2> SUFFICES ASSUME NEW i \in DOMAIN t
                 PROVE  IF i > n THEN t[i] = Value("Garbage")
                        ELSE \/ t[i] = Value("Num")
                             \/ /\ t[i] = Pointer("Str", t[i].val)
                                /\ t[i].val \in Blocks \ {result[c], ResultOf(c).val}
        OBVIOUS
    <2>1. CASE i = n
        BY <1>1, <2>1
    <2>2. CASE i # n
        <3>1. t[i] = s[i] /\ i \in DOMAIN s /\ (i > n <=> i > cells[c])
            BY <1>1, <2>2
        <3>2. QED
            BY <1>2, <3>1
    <2>3. QED
        BY <2>1, <2>2
<1>6. \A i, j \in DOMAIN t : t[i].xltype = "Str" /\ t[i] = t[j] => i = j
    <2> SUFFICES ASSUME NEW i \in DOMAIN t, NEW j \in DOMAIN t, i # j,
                        t[i].xltype = "Str", t[i] = t[j]
                 PROVE  FALSE
        OBVIOUS
    <2>1. CASE i # n /\ j # n
        BY <1>1, <1>2, <2>1
    <2>2. CASE i = n \/ j = n
        <3>1. PICK k \in DOMAIN s \ {n} : s[k] = x
            BY <1>1, <2>2
        <3>2. x.xltype = "Str" /\ x = Pointer("Str", x.val) /\ x.val \notin CellTexts(c)
            BY <1>1, <2>2 DEF Value
        <3>3. x.val \in CellTexts(c)
            BY <1>3, <3>1, <3>2
        <3>4. QED
            BY <3>2, <3>3
    <2>3. QED
        BY <2>1, <2>2
<1>7. n =< Len(t)
    BY <1>1
<1>8. ArrayShape(c)'
    BY <1>2, <1>5, <1>6, <1>7 DEF ArrayShape, t, n
<1>9. QED
    BY <1>4, <1>8

LEMMA ConvertCellKeeps ==
    ASSUME IInv, NEW c \in Calls, ConvertCell(c)
    PROVE  IInv'
<1>1. /\ pc[c] = "cells" /\ cells[c] < Len(CellsOf(c)) /\ cells' = [cells EXCEPT ![c] = cells[c] + 1]
      /\ pc' = pc /\ result' = result /\ calls' = calls /\ kept' = kept /\ abandoned' = abandoned
    BY DEF ConvertCell
<1>2. TypeOK /\ Live(c)
    BY <1>1 DEF IInv, Live
<1>3. /\ ResultShape(c) /\ InUse(c) = Owned(c) /\ Owned(c) \subseteq DOMAIN heap
      /\ result[c] \in DOMAIN heap /\ result[c] \in Owned(c) /\ result[c] \in Blocks
      /\ heap[result[c]] = <<ResultOf(c)>>
    BY <1>2, LiveResult
<1>4. ArrayShape(c) /\ Len(heap[result[c]]) = 1
    BY <1>1, <1>3 DEF ResultShape
<1> DEFINE v == ResultOf(c).val
           n == cells[c] + 1
<1>5. /\ Owned(c) = {result[c], v} \cup CellTexts(c) /\ CellsOf(c) = heap[v]
      /\ v \in Blocks \ {result[c]} /\ v \in DOMAIN heap
    BY <1>3, <1>4, OwnedByType DEF ArrayShape
<1>6. heap[v] \in Seq(Xloper) /\ cells[c] \in 0 .. MaxCells /\ cells[c] \in Nat
    BY <1>2, <1>5, ConstantsAssumption DEF TypeOK
<1>7. n \in DOMAIN heap[v] /\ ResultOf(c).xltype = "Multi"
    BY <1>1, <1>4, <1>5, <1>6 DEF ArrayShape, Pointer
\* What both kinds of cell have in common.
<1>8. ASSUME NEW x, NEW new \in SUBSET (Blocks \ DOMAIN heap),
             DOMAIN heap' = DOMAIN heap \cup new, heap'[v] = [heap[v] EXCEPT ![n] = x],
             \A y \in DOMAIN heap \ {v} : heap'[y] = heap[y],
             \/ x = Value("Num") /\ new = {}
             \/ x = Pointer("Str", x.val) /\ new = {x.val}
      PROVE  /\ ResultShape(c)' /\ Live(c)' /\ Owned(c)' = Owned(c) \cup new
             /\ cells' \in [Calls -> 0 .. MaxCells]
             /\ \A d \in Calls \ {c} : pc'[d] = pc[d] /\ result'[d] = result[d] /\ cells'[d] = cells[d]
             /\ \A y \in DOMAIN heap \ InUse(c) : heap'[y] = heap[y]
    <2>1. heap'[result[c]] = heap[result[c]] /\ result'[c] = result[c]
        BY <1>1, <1>3, <1>5, <1>8
    <2>2. ResultOf(c)' = ResultOf(c)
        BY <2>1 DEF ResultOf
    <2>3. CellsOf(c)' = [CellsOf(c) EXCEPT ![n] = x]
        BY <1>5, <1>7, <1>8, <2>2 DEF CellsOf
    <2>4. cells'[c] = cells[c] + 1
        BY <1>1, <1>2 DEF TypeOK
    <2>5. \/ x = Value("Num")
          \/ /\ x = Pointer("Str", x.val)
             /\ x.val \in Blocks \ ({result[c], ResultOf(c).val} \cup CellTexts(c))
        BY <1>3, <1>5, <1>8
    <2>6. /\ ArrayShape(c)'
          /\ CellTexts(c)' = CellTexts(c) \cup (IF x.xltype = "Str" THEN {x.val} ELSE {})
        BY <1>1, <1>4, <1>5, <1>6, <2>1, <2>2, <2>3, <2>4, <2>5, OneMoreCell
    <2>7. pc'[c] = "cells" /\ Live(c)' /\ Len(heap'[result'[c]]) = 1
        BY <1>1, <1>4, <2>1 DEF Live
    <2>8. ResultShape(c)'
        BY <1>3, <2>1, <2>6, <2>7 DEF ResultShape
    <2>9. Owned(c)' = {result[c], v} \cup CellTexts(c)'
        <3>1. (ResultShape(c) => (ArrayShape(c) =>
                   Owned(c) = {result[c], ResultOf(c).val} \cup CellTexts(c)))'
            <4>1. v # None
                BY <1>5, ConstantsAssumption
            <4>2. PointedTo(c)' = {v} \cup CellTexts(c)'
                BY <2>2, <4>1 DEF PointedTo
            <4>3. QED
                BY <2>1, <2>2, <4>2 DEF Owned
        <3>2. QED
            BY <2>1, <2>2, <2>6, <2>8, <3>1
    <2>10. (IF x.xltype = "Str" THEN {x.val} ELSE {}) = new
        BY <1>8 DEF Value, Pointer
    <2>11. Owned(c)' = Owned(c) \cup new
        BY <1>5, <2>6, <2>9, <2>10
    <2>12. cells' \in [Calls -> 0 .. MaxCells]
        <3>1. Len(CellsOf(c)) \in Nat
            BY <1>5, <1>6
        <3>2. cells[c] + 1 \in 0 .. MaxCells
            BY <1>1, <1>4, <1>6, <3>1, ConstantsAssumption DEF ArrayShape
        <3>3. QED
            BY <1>1, <1>2, <3>2 DEF TypeOK
    <2>13. /\ \A d \in Calls \ {c} : pc'[d] = pc[d] /\ result'[d] = result[d] /\ cells'[d] = cells[d]
           /\ \A y \in DOMAIN heap \ InUse(c) : heap'[y] = heap[y]
        BY <1>1, <1>2, <1>3, <1>5, <1>8 DEF TypeOK
    <2>14. QED
        BY <2>7, <2>8, <2>11, <2>12, <2>13
<1>9. CASE \E b \in Blocks \ DOMAIN heap :
              /\ DOMAIN heap' = DOMAIN heap \cup {b}
              /\ heap'[v] = [heap[v] EXCEPT ![n] = Pointer("Str", b)]
              /\ \A y \in DOMAIN heap \ {v} : heap'[y] = heap[y]
              /\ DOMAIN heap' \subseteq Blocks
              /\ \A y \in DOMAIN heap' : heap'[y] \in Seq(Xloper)
              /\ undefined' \in {"no", "null", "terminator", "escaped"}
    <2>1. PICK b \in Blocks \ DOMAIN heap :
              /\ DOMAIN heap' = DOMAIN heap \cup {b}
              /\ heap'[v] = [heap[v] EXCEPT ![n] = Pointer("Str", b)]
              /\ \A y \in DOMAIN heap \ {v} : heap'[y] = heap[y]
              /\ DOMAIN heap' \subseteq Blocks
              /\ \A y \in DOMAIN heap' : heap'[y] \in Seq(Xloper)
              /\ undefined' \in {"no", "null", "terminator", "escaped"}
        BY <1>9
    <2> DEFINE x == Pointer("Str", b)
               A == {}
    <2>2. x.val = b
        BY DEF Pointer
    <2>3. heap'[v] = [heap[v] EXCEPT ![n] = x] /\ x = Pointer("Str", x.val)
        BY <2>1, <2>2
    <2> HIDE DEF x, v, n
    <2>4. /\ ResultShape(c)' /\ Live(c)' /\ Owned(c)' = Owned(c) \cup {b}
          /\ cells' \in [Calls -> 0 .. MaxCells]
          /\ \A d \in Calls \ {c} : pc'[d] = pc[d] /\ result'[d] = result[d] /\ cells'[d] = cells[d]
          /\ \A y \in DOMAIN heap \ InUse(c) : heap'[y] = heap[y]
        BY <1>8, <2>1, <2>2, <2>3
    <2>5. TypeOK'
        BY <1>1, <1>2, <2>1, <2>4 DEF TypeOK
    <2>6. /\ A \subseteq Owned(c) /\ abandoned' = abandoned \cup A
          /\ Owned(c)' = (Owned(c) \ A) \cup {b}
        BY <1>1, <2>4
    <2> HIDE DEF A
    <2>7. kept' = kept /\ b \in Blocks \ DOMAIN heap /\ DOMAIN heap' = DOMAIN heap \cup {b}
        BY <1>1, <2>1
    <2>8. QED
        BY <1>2, <2>4, <2>5, <2>6, <2>7, OneNewBlock
<1>10. CASE heap' = [heap EXCEPT ![v][n] = Value("Num")] /\ undefined' = undefined
    <2> DEFINE x == Value("Num")
               new == {}
    <2>1. /\ DOMAIN heap' = DOMAIN heap /\ heap'[v] = [heap[v] EXCEPT ![n] = x]
          /\ \A y \in DOMAIN heap \ {v} : heap'[y] = heap[y]
        BY <1>5, <1>10
    <2>2. heap'[v] \in Seq(Xloper)
        <3>1. x \in Xloper
            BY XlopersTyped
        <3>2. n \in 1 .. Len(heap[v])
            BY <1>6, <1>7
        <3>3. QED
            BY <1>6, <2>1, <3>1, <3>2
    <2>3. \A y \in DOMAIN heap' : heap'[y] \in Seq(Xloper)
        BY <1>2, <2>1, <2>2 DEF TypeOK
    <2>4. new \in SUBSET (Blocks \ DOMAIN heap) /\ DOMAIN heap' = DOMAIN heap \cup new
        BY <2>1
    <2> HIDE DEF v, n
    <2>5. /\ ResultShape(c)' /\ Live(c)' /\ Owned(c)' = Owned(c) \cup new
          /\ cells' \in [Calls -> 0 .. MaxCells]
          /\ \A d \in Calls \ {c} : pc'[d] = pc[d] /\ result'[d] = result[d] /\ cells'[d] = cells[d]
          /\ \A y \in DOMAIN heap \ InUse(c) : heap'[y] = heap[y]
        BY <1>8, <2>1, <2>4
    <2>6. TypeOK'
        BY <1>1, <1>2, <1>10, <2>1, <2>3, <2>5 DEF TypeOK
    <2>7. Owned(c)' = Owned(c)
        BY <2>5
    <2>8. QED
        BY <1>1, <1>2, <2>1, <2>5, <2>6, <2>7, SameBlocks
<1>11. CASE ConvertText(c, v, n, heap)
    <2> HIDE DEF v, n
    <2>1. /\ \E b \in Blocks \ DOMAIN heap :
                /\ DOMAIN heap' = DOMAIN heap \cup {b}
                /\ heap'[v] = [heap[v] EXCEPT ![n] = Pointer("Str", b)]
                /\ heap'[b] = <<>>
                /\ \A x \in DOMAIN heap \ {v} : heap'[x] = heap[x]
          /\ DOMAIN heap' \subseteq Blocks
          /\ \A x \in DOMAIN heap' : heap'[x] \in Seq(Xloper)
          /\ undefined' \in {"no", "null", "terminator", "escaped"}
        BY <1>2, <1>5, <1>7, <1>11, TextConverted
    <2>2. QED
        BY <1>9, <2>1
<1>12. QED
    BY <1>10, <1>11 DEF ConvertCell

\* The call goes on, or fails, with its result as it is.
LEMMA AsItIs ==
    ASSUME IInv, NEW c \in Calls, NEW label \in {"catch", "returned", "free"},
           Live(c), Goto(c, label),
           UNCHANGED <<heap, result, cells, calls, undefined, kept, abandoned>>,
           ResultShape(c) => \/ label = "catch" /\ ResultOf(c) = Value("None")
                             \/ label = "catch" /\ ArrayShape(c)
                             \/ label # "catch" /\ TextShape(c)
                             \/ label # "catch" /\ ArrayShape(c) /\ cells[c] = Len(CellsOf(c))
    PROVE  IInv'
<1>1. /\ pc' = [pc EXCEPT ![c] = label] /\ heap' = heap /\ result' = result /\ cells' = cells
      /\ calls' = calls /\ undefined' = undefined /\ kept' = kept /\ abandoned' = abandoned
    BY DEF Goto
<1>2. TypeOK /\ ResultShape(c) /\ result[c] \in Blocks
    BY LiveResult DEF IInv, ResultShape
<1>3. TypeOK'
    BY <1>1, <1>2 DEF TypeOK
<1>4. pc'[c] = label /\ Live(c)'
    BY <1>1, <1>2 DEF TypeOK, Live
<1>5. /\ ResultOf(c)' = ResultOf(c) /\ CellsOf(c)' = CellsOf(c) /\ Owned(c)' = Owned(c)
      /\ TextShape(c)' = TextShape(c) /\ ArrayShape(c)' = ArrayShape(c)
    BY <1>1 DEF ResultOf, CellsOf, Owned, PointedTo, CellTexts, TextShape, ArrayShape
<1>6. Len(heap'[result'[c]]) = 1 /\ result'[c] \in Blocks
    BY <1>1, <1>2 DEF ResultShape
<1>7. ResultShape(c)'
    BY <1>1, <1>2, <1>4, <1>5, <1>6 DEF ResultShape
<1>8. /\ \A d \in Calls \ {c} : pc'[d] = pc[d] /\ result'[d] = result[d] /\ cells'[d] = cells[d]
      /\ \A y \in DOMAIN heap \ InUse(c) : heap'[y] = heap[y]
    BY <1>1, <1>2 DEF TypeOK
<1>9. QED
    BY <1>1, <1>3, <1>4, <1>5, <1>7, <1>8, SameBlocks

LEMMA ArrayDoneKeeps ==
    ASSUME IInv, NEW c \in Calls, ArrayDone(c)
    PROVE  IInv'
<1>1. pc[c] = "cells" /\ cells[c] = Len(CellsOf(c)) /\ Live(c)
    BY DEF ArrayDone, Live
<1>2. ResultShape(c) => ArrayShape(c)
    BY <1>1 DEF ResultShape
<1>3. QED
    BY <1>1, <1>2, AsItIs DEF ArrayDone

LEMMA ThrowKeeps ==
    ASSUME IInv, NEW c \in Calls, Throw(c)
    PROVE  IInv'
<1>1. pc[c] \in {"body", "cells"} /\ Live(c)
    BY DEF Throw, Live
<1>2. ResultShape(c) => ResultOf(c) = Value("None") \/ ArrayShape(c)
    BY <1>1 DEF ResultShape
<1>3. QED
    BY <1>1, <1>2, AsItIs DEF Throw

\* Nothing but the reason why the behaviour is undefined.
LEMMA NothingMoves ==
    ASSUME IInv, UNCHANGED <<heap, pc, result, cells, calls, kept, abandoned>>,
           undefined' \in {"no", "null", "terminator", "escaped"}
    PROVE  IInv'
<1>1. /\ heap' = heap /\ pc' = pc /\ result' = result /\ cells' = cells
      /\ calls' = calls /\ kept' = kept /\ abandoned' = abandoned
    OBVIOUS
<1>2. TypeOK'
    BY <1>1 DEF IInv, TypeOK
<1>3. \A c \in Calls : InUse(c)' = InUse(c) /\ (Live(c) => ResultShape(c))'
    BY <1>1, Untouched DEF IInv, Shapes
<1>4. Shapes'
    BY <1>3 DEF Shapes
<1>5. (UNION {InUse(c) : c \in Calls})' = UNION {InUse(c) : c \in Calls}
    BY <1>3
<1>6. Accounted'
    BY <1>1, <1>3, <1>5 DEF IInv, Accounted
<1>7. KeptAreValues'
    BY <1>1 DEF IInv, KeptAreValues
<1>8. QED
    BY <1>2, <1>4, <1>6, <1>7 DEF IInv

LEMMA TakeKeeps ==
    ASSUME IInv, NEW c \in Calls, Take(c)
    PROVE  IInv'
<1>1. /\ pc[c] = "returned" /\ Live(c)
      /\ heap' = heap /\ cells' = cells /\ calls' = calls /\ undefined' = undefined
      /\ abandoned' = abandoned
    BY DEF Take, Live
<1>2. /\ TypeOK /\ ResultShape(c) /\ InUse(c) = Owned(c)
      /\ result[c] \in DOMAIN heap /\ result[c] \in Owned(c) /\ result[c] \in Blocks
      /\ Len(heap[result[c]]) = 1 /\ DOMAIN heap \subseteq Blocks /\ Owned(c) \subseteq DOMAIN heap
    BY <1>1, LiveResult DEF IInv
<1>3. CASE ResultOf(c).xlbitDLLFree
    <2>1. ~ValueShape(c)
        BY <1>3 DEF ValueShape, Value
    <2>2. TextShape(c) \/ (ArrayShape(c) /\ cells[c] = Len(CellsOf(c)))
        BY <1>1, <1>2, <2>1 DEF ResultShape
    <2>3. Goto(c, "free") /\ UNCHANGED <<heap, result, cells, calls, undefined, kept, abandoned>>
        BY <1>1, <1>3 DEF Take
    <2>4. QED
        BY <1>1, <2>2, <2>3, AsItIs
<1>4. CASE ~ResultOf(c).xlbitDLLFree
    <2>1. ValueShape(c)
        BY <1>1, <1>2, <1>4 DEF ResultShape, TextShape, ArrayShape, Pointer
    <2>2. /\ pc' = [pc EXCEPT ![c] = "idle"] /\ kept' = kept \cup {result[c]}
          /\ result' = [result EXCEPT ![c] = None]
        BY <1>4 DEF Take, Goto
    <2>3. Owned(c) = {result[c]}
        BY <1>2, <2>1, OwnedByType DEF ValueShape, Value
    <2>4. TypeOK'
        <3>1. result' \in [Calls -> Blocks \cup {None}]
            BY <1>2, <2>2 DEF TypeOK
        <3>2. pc' \in [Calls -> {"idle", "body", "cells", "catch", "returned", "free"}]
            BY <1>2, <2>2 DEF TypeOK
        <3>3. QED
            BY <1>1, <1>2, <2>2, <3>1, <3>2 DEF TypeOK
    <2> DEFINE K == {result[c]}
               A == {}
               N == {}
    <2>5. ~Live(c)' /\ InUse(c)' = N
        BY <1>2, <2>2 DEF TypeOK, Live, InUse
    <2>6. /\ kept' = kept \cup K /\ abandoned' = abandoned \cup A
          /\ K \cap A = {} /\ K \cap N = {} /\ A \cap N = {}
          /\ K \cup A \cup N \subseteq InUse(c) \cup (Blocks \ DOMAIN heap)
          /\ DOMAIN heap' = (DOMAIN heap \ InUse(c)) \cup K \cup A \cup N
        BY <1>1, <1>2, <2>2, <2>3
    <2>7. \A b \in K : Len(heap'[b]) = 1 /\ heap'[b][1].xltype \in {"Num", "Bool", "Err"}
        BY <1>1, <1>2, <2>1 DEF ValueShape, Value, ResultOf
    <2>8. /\ \A d \in Calls \ {c} : pc'[d] = pc[d] /\ result'[d] = result[d] /\ cells'[d] = cells[d]
          /\ \A b \in DOMAIN heap \ InUse(c) : heap'[b] = heap[b]
        BY <1>1, <1>2, <2>2 DEF TypeOK
    <2> HIDE DEF K, A, N
    <2>9. QED
        BY <2>4, <2>5, <2>6, <2>7, <2>8, AccountKept
<1>5. QED
    BY <1>3, <1>4

\* What xlAutoFree12 frees is what the result owns, each block once.
LEMMA FreedIsOwned ==
    ASSUME IInv, NEW c \in Calls, pc[c] = "free"
    PROVE  /\ Elements(ToFree(c)) = Owned(c)
           /\ \A i, j \in DOMAIN ToFree(c) : ToFree(c)[i] = ToFree(c)[j] => i = j
           /\ \A i \in DOMAIN CellsOf(c) : CellsOf(c)[i].xltype # "Garbage"
<1>1. Live(c) /\ ResultShape(c) /\ Owned(c) \subseteq DOMAIN heap /\ TypeOK
    BY LiveResult DEF Live, IInv
<1>2. TextShape(c) \/ (ArrayShape(c) /\ cells[c] = Len(CellsOf(c)))
    BY <1>1 DEF ResultShape
<1> DEFINE s == CellsOf(c)
           n == Len(s)
           v == ResultOf(c).val
           texts == {i \in DOMAIN s : s[i] = Pointer("Str", s[i].val)}
<1>3. s \in Seq(Xloper)
    <2>1. CASE ArrayShape(c)
        BY <1>1, <2>1, OwnedByType DEF TypeOK
    <2>2. CASE ~ArrayShape(c)
        <3>1. s = <<>>
            BY <1>1, <2>2, OwnedByType
        <3>2. QED
            BY <3>1
    <2>3. QED
        BY <2>1, <2>2
<1>4. n \in Nat /\ DOMAIN s = 1 .. n
    BY <1>3
<1>5. ResultOf(c).xltype \in {"Str", "Multi"} /\ v \in Blocks \ {result[c]}
    BY <1>2 DEF TextShape, ArrayShape, Pointer
<1>6. ToFree(c) = [i \in texts \cup {n + 1, n + 2} |->
                      IF i = n + 2 THEN result[c] ELSE IF i = n + 1 THEN v ELSE s[i].val]
    BY <1>5 DEF ToFree, Freed, PlacesOf
<1>7. Owned(c) = {result[c], v} \cup {s[i].val : i \in texts}
    <2>1. CASE TextShape(c)
        <3>1. s = <<>>
            BY <1>1, <2>1, OwnedByType DEF TextShape, ArrayShape, Pointer
        <3>2. QED
            BY <1>1, <2>1, <3>1, OwnedByType
    <2>2. CASE ArrayShape(c)
        <3>1. \A i \in DOMAIN s : s[i].xltype = "Str" <=> s[i] = Pointer("Str", s[i].val)
            <4>1. \A i \in DOMAIN s : \/ s[i] = Value("Garbage") \/ s[i] = Value("Num")
                                       \/ s[i] = Pointer("Str", s[i].val)
                BY <2>2 DEF ArrayShape
            <4>2. Value("Garbage").xltype # "Str" /\ Value("Num").xltype # "Str"
                BY DEF Value
            <4>3. \A b : Pointer("Str", b).xltype = "Str"
                BY DEF Pointer
            <4>4. QED
                BY <4>1, <4>2, <4>3
        <3>2. CellTexts(c) = {s[i].val : i \in texts}
            BY <3>1 DEF CellTexts
        <3>3. QED
            BY <1>1, <2>2, <3>2, OwnedByType
    <2>3. QED
        BY <1>2, <2>1, <2>2
<1>8. \A i \in texts : /\ s[i].val \in Blocks \ {result[c], v}
                       /\ \A j \in texts : s[i].val = s[j].val => i = j
    <2>1. CASE TextShape(c)
        <3>1. s = <<>>
            BY <1>1, <2>1, OwnedByType DEF TextShape, ArrayShape, Pointer
        <3>2. QED
            BY <3>1
    <2>2. CASE ArrayShape(c)
        <3>1. \A i \in texts : s[i] # Value("Garbage") /\ s[i] # Value("Num") /\ s[i].xltype = "Str"
            BY DEF Value, Pointer
        <3>2. QED
            BY <2>2, <3>1 DEF ArrayShape
    <2>3. QED
        BY <1>2, <2>1, <2>2
<1>9. \A i \in DOMAIN s : s[i].xltype # "Garbage"
    <2>1. CASE TextShape(c)
        BY <1>1, <2>1, OwnedByType DEF TextShape, ArrayShape, Pointer
    <2>2. CASE ArrayShape(c) /\ cells[c] = n
        <3>1. \A i \in DOMAIN s : ~(i > cells[c])
            BY <1>4, <2>2
        <3>2. \A i \in DOMAIN s : s[i] = Value("Num") \/ s[i] = Pointer("Str", s[i].val)
            BY <2>2, <3>1 DEF ArrayShape
        <3>3. QED
            BY <3>2 DEF Value, Pointer
    <2>3. QED
        BY <1>2, <2>1, <2>2
<1>10. \A i \in texts : i # n + 1 /\ i # n + 2 /\ n + 1 # n + 2
    BY <1>4
<1> HIDE DEF s, n, v, texts
<1>11. Elements(ToFree(c)) = Owned(c)
    <2> DEFINE places == texts \cup {n + 1, n + 2}
    <2>1. \A x : x \in Elements(ToFree(c)) <=> \E i \in places : ToFree(c)[i] = x
        BY <1>6 DEF Elements
    <2>2. /\ ToFree(c)[n + 2] = result[c] /\ ToFree(c)[n + 1] = v
          /\ \A i \in texts : ToFree(c)[i] = s[i].val
        <3>1. n + 1 # n + 2
            BY <1>4
        <3>2. QED
            BY <1>6, <1>10, <3>1
    <2>3. \A x : x \in Elements(ToFree(c)) <=>
                  x = result[c] \/ x = v \/ \E i \in texts : s[i].val = x
        BY <2>1, <2>2
    <2>4. QED
        BY <1>7, <2>3
<1>12. \A i, j \in DOMAIN ToFree(c) : ToFree(c)[i] = ToFree(c)[j] => i = j
    BY <1>4, <1>5, <1>6, <1>8, <1>10
<1>13. QED
    BY <1>9, <1>11, <1>12 DEF s

LEMMA xlAutoFree12Keeps ==
    ASSUME IInv, NEW c \in Calls, xlAutoFree12(c)
    PROVE  IInv'
<1>1. /\ pc[c] = "free" /\ Live(c) /\ pc' = [pc EXCEPT ![c] = "idle"]
      /\ heap' = [b \in DOMAIN heap \ Elements(ToFree(c)) |-> heap[b]]
      /\ result' = [result EXCEPT ![c] = None] /\ cells' = cells /\ calls' = calls
      /\ undefined' = undefined /\ kept' = kept /\ abandoned' = abandoned
    BY DEF xlAutoFree12, Live, Goto
<1>2. TypeOK /\ InUse(c) = Owned(c) /\ Owned(c) \subseteq DOMAIN heap
    BY <1>1, LiveResult DEF IInv
<1>3. Elements(ToFree(c)) = Owned(c)
    BY <1>1, FreedIsOwned
<1>4. DOMAIN heap' = DOMAIN heap \ InUse(c) /\ \A b \in DOMAIN heap \ InUse(c) : heap'[b] = heap[b]
    BY <1>1, <1>2, <1>3
<1>5. TypeOK'
    <2>1. \A b \in DOMAIN heap' : heap'[b] \in Seq(Xloper)
        BY <1>2, <1>4 DEF TypeOK
    <2>2. result' \in [Calls -> Blocks \cup {None}]
        BY <1>1, <1>2 DEF TypeOK
    <2>3. pc' \in [Calls -> {"idle", "body", "cells", "catch", "returned", "free"}]
        BY <1>1, <1>2 DEF TypeOK
    <2>4. QED
        BY <1>1, <1>2, <1>4, <2>1, <2>2, <2>3 DEF TypeOK
<1> DEFINE K == {}
           A == {}
           N == {}
<1>6. ~Live(c)' /\ InUse(c)' = N
    BY <1>1, <1>2 DEF TypeOK, Live, InUse
<1>7. /\ kept' = kept \cup K /\ abandoned' = abandoned \cup A
      /\ K \cap A = {} /\ K \cap N = {} /\ A \cap N = {}
      /\ K \cup A \cup N \subseteq InUse(c) \cup (Blocks \ DOMAIN heap)
      /\ DOMAIN heap' = (DOMAIN heap \ InUse(c)) \cup K \cup A \cup N
      /\ \A b \in K : Len(heap'[b]) = 1 /\ heap'[b][1].xltype \in {"Num", "Bool", "Err"}
    BY <1>1, <1>4
<1>8. /\ \A d \in Calls \ {c} : pc'[d] = pc[d] /\ result'[d] = result[d] /\ cells'[d] = cells[d]
      /\ \A b \in DOMAIN heap \ InUse(c) : heap'[b] = heap[b]
    BY <1>1, <1>2, <1>4 DEF TypeOK
<1> HIDE DEF K, A, N
<1>9. (Live(c) => ResultShape(c))'
    BY <1>6
<1>10. QED
    BY <1>5, <1>6, <1>7, <1>8, <1>9, AccountKept

-----------------------------------------------------------------------------
(* The theorems *)

LEMMA InitIInv == Init => IInv
<1> SUFFICES ASSUME Init PROVE IInv
    OBVIOUS
<1>1. DOMAIN heap = {} /\ kept = {} /\ abandoned = {} /\ \A c \in Calls : pc[c] = "idle"
    BY DEF Init
<1>2. TypeOK
    BY <1>1, ConstantsAssumption DEF Init, TypeOK
<1>3. \A c \in Calls : ~Live(c) /\ InUse(c) = {}
    BY <1>1 DEF Live, InUse
<1>4. UNION {InUse(c) : c \in Calls} = {}
    BY <1>3
<1>5. QED
    BY <1>1, <1>2, <1>3, <1>4 DEF IInv, Shapes, Accounted, KeptAreValues

LEMMA StepIInv ==
    ASSUME IInv, [Next]_vars
    PROVE  IInv'
<1>1. CASE UNCHANGED vars
    BY <1>1, NothingMoves DEF vars, IInv, TypeOK
<1>2. ASSUME NEW c \in Calls, Step(c)
      PROVE  IInv'
    <2>1. CASE Call(c)
        BY <2>1, CallKeeps
    <2>2. CASE ConvertValue(c)
        BY <2>2, ConvertValueKeeps
    <2>3. CASE ConvertResult(c)
        BY <2>3, ConvertResultKeeps
    <2>4. CASE ConvertArray(c)
        BY <2>4, ConvertArrayKeeps
    <2>5. CASE ConvertCell(c)
        BY <2>5, ConvertCellKeeps
    <2>6. CASE ArrayDone(c)
        BY <2>6, ArrayDoneKeeps
    <2>7. CASE Throw(c)
        BY <2>7, ThrowKeeps
    <2>8. CASE Catch(c)
        BY <2>8, CatchKeeps
    <2>9. CASE CatchThrows(c) \/ OutOfMemory(c)
        BY <2>9, NothingMoves DEF CatchThrows, OutOfMemory
    <2>10. CASE Take(c)
        BY <2>10, TakeKeeps
    <2>11. CASE xlAutoFree12(c)
        BY <2>11, xlAutoFree12Keeps
    <2>12. QED
        BY <1>2, <2>1, <2>2, <2>3, <2>4, <2>5, <2>6, <2>7, <2>8, <2>9, <2>10, <2>11 DEF Step
<1>3. QED
    BY <1>1, <1>2 DEF Next

THEOREM Invariance == Spec => []IInv
BY InitIInv, StepIInv, PTL DEF Spec

\* In every behaviour the memory is of its type.
THEOREM TypeCorrect == Spec => []TypeOK
<1>1. IInv => TypeOK
    BY DEF IInv
<1>2. QED
    BY <1>1, Invariance, PTL

\* xlAutoFree12 frees each block once, only allocated ones that no other result
\* needs, and never looks at a cell that was not converted.
THEOREM FreeingIsSafe == Spec => []SafeToFree
<1>1. IInv => SafeToFree
    <2> SUFFICES ASSUME IInv, NEW c \in Calls, pc[c] = "free"
                 PROVE  LET freed == ToFree(c) IN
                        /\ \A i, j \in DOMAIN freed : freed[i] = freed[j] => i = j
                        /\ Elements(freed) \subseteq DOMAIN heap
                        /\ \A i \in DOMAIN CellsOf(c) : CellsOf(c)[i].xltype # "Garbage"
                        /\ \A d \in Calls \ {c} : pc[d] # "idle" => Elements(freed) \cap Owned(d) = {}
        BY DEF SafeToFree
    <2>1. Live(c) /\ InUse(c) = Owned(c) /\ Owned(c) \subseteq DOMAIN heap
        BY LiveResult DEF Live
    <2>2. \A d \in Calls \ {c} : pc[d] # "idle" => Owned(c) \cap Owned(d) = {}
        BY <2>1 DEF IInv, Accounted, InUse, Live
    <2>3. QED
        BY <2>1, <2>2, FreedIsOwned
<1>2. QED
    BY <1>1, Invariance, PTL

\* What is never freed are results of numbers, Booleans and error values, and
\* the arrays that an exception left behind: everything else that is allocated
\* belongs to a result that is still to be handed back.
THEOREM NothingElseIsLost == Spec => []NothingElseLost
<1>1. IInv => NothingElseLost
    <2> SUFFICES ASSUME IInv PROVE NothingElseLost
        OBVIOUS
    <2>1. UNION {InUse(c) : c \in Calls} = UNION {Owned(c) : c \in {d \in Calls : pc[d] # "idle"}}
        BY DEF InUse, Live
    <2>2. QED
        BY <2>1 DEF IInv, Accounted, KeptAreValues, NothingElseLost
<1>2. QED
    BY <1>1, Invariance, PTL
=============================================================================
