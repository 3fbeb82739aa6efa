---------------------------- MODULE OwnershipProofs ---------------------------
(***************************************************************************)
(* Ownership by hand, for any number of objects, handles, values, sexps,   *)
(* guards and files.  Each machine has an inductive invariant:             *)
(*   IInv      objects of Python are counted once per holder;              *)
(*   SexpInv   the holders of R's values have places of their own in R's   *)
(*             stack, in the order they were made in;                      *)
(*   ScopeInv  what a guard's members are in each of its phases;           *)
(*   InfoInv   what is under construction has no other owner;              *)
(*   SaysInv   what was read so far is what the whole file holds, or no    *)
(*             version number will be found;                               *)
(*   DumpInv   what is printed is what the program's own object says.      *)
(***************************************************************************)
EXTENDS Bindings, Dumpver, SequenceTheorems, FiniteSetTheorems, TLAPS

(* Python: py_object *)

IInv == TypeOK /\ CountsAreHolders

\* One more and one less in a finite set.
LEMMA GainOne ==
    ASSUME NEW S, IsFiniteSet(S), NEW x, x \notin S
    PROVE  Cardinality(S \cup {x}) = Cardinality(S) + 1
BY FS_AddElement

LEMMA LoseOne ==
    ASSUME NEW S, IsFiniteSet(S), NEW x \in S
    PROVE  Cardinality(S \ {x}) = Cardinality(S) - 1
BY FS_RemoveElement

LEMMA HoldersFinite ==
    ASSUME TypeOK, NEW o
    PROVE  IsFiniteSet(Holders(o)) /\ Cardinality(Holders(o)) \in Nat
<1>1. Holders(o) \subseteq Handles
    BY DEF Holders, TypeOK
<1> QED BY <1>1, PyObjectAssumption, FS_Subset, FS_CardinalityType

\* What a handle holds is counted and not freed.
LEMMA HeldIsCounted ==
    ASSUME IInv, NEW h \in Living, obj[h] # NULL, obj[h] \notin wild
    PROVE  /\ obj[h] \in DOMAIN refs /\ obj[h] \notin freed
           /\ refs[obj[h]] >= 1 + inside[obj[h]]
<1>1. obj[h] \in DOMAIN refs
    BY DEF IInv, TypeOK
<1>2. h \in Holders(obj[h])
    BY DEF Holders
<1>3. Cardinality(Holders(obj[h])) # 0
    BY <1>2, HoldersFinite, FS_EmptySet DEF IInv
<1>4. Cardinality(Holders(obj[h])) >= 1
    BY <1>3, HoldersFinite DEF IInv
<1> QED BY <1>1, <1>4, HoldersFinite, PyObjectAssumption DEF IInv, TypeOK, CountsAreHolders

LEMMA InitIInv == Init => IInv
BY DEF Init, IInv, TypeOK, CountsAreHolders, Living

-----------------------------------------------------------------------------
(* Steps without a change of count *)

LEMMA NullKeeps ==
    ASSUME IInv, NEW h \in Handles, Null(h)
    PROVE  IInv'
<1>1. TypeOK'
    BY DEF IInv, TypeOK, Null, With, Living
<1>2. \A o \in DOMAIN refs : Holders(o)' = Holders(o)
    BY PyObjectAssumption DEF IInv, TypeOK, Null, With, Living, Holders
<1>3. CountsAreHolders'
    BY <1>2 DEF IInv, CountsAreHolders, Null
<1> QED BY <1>1, <1>3 DEF IInv

LEMMA MoveKeeps ==
    ASSUME IInv, NEW h \in Handles, NEW g \in Handles, Move(h, g)
    PROVE  IInv'
<1>1. TypeOK'
    BY DEF IInv, TypeOK, Move, With, Living
<1>2. ASSUME NEW o \in DOMAIN refs
      PROVE  Cardinality(Holders(o)') = Cardinality(Holders(o))
    <2>1. CASE obj[g] = o
        <3>1. g \in Holders(o) /\ h \notin Holders(o)
            BY <2>1 DEF Move, Holders
        <3>2. Holders(o)' = (Holders(o) \ {g}) \cup {h}
            BY <1>2, <2>1, PyObjectAssumption DEF IInv, TypeOK, Move, With, Living, Holders
        <3>3. IsFiniteSet(Holders(o) \ {g}) /\ Cardinality(Holders(o) \ {g}) = Cardinality(Holders(o)) - 1
            BY <3>1, HoldersFinite, FS_RemoveElement DEF IInv
        <3> QED BY <3>1, <3>2, <3>3, GainOne, HoldersFinite DEF IInv
    <2>2. CASE obj[g] # o
        <3>1. Holders(o)' = Holders(o)
            BY <1>2, <2>2, PyObjectAssumption DEF IInv, TypeOK, Move, With, Living, Holders
        <3> QED BY <3>1
    <2> QED BY <2>1, <2>2
<1>3. CountsAreHolders'
    BY <1>2 DEF IInv, CountsAreHolders, Move
<1> QED BY <1>1, <1>3 DEF IInv

-----------------------------------------------------------------------------
(* Steps that count a new reference *)

LEMMA OwnNewKeeps ==
    ASSUME IInv, NEW h \in Handles, NEW p \in Objects, OwnNew(h, p)
    PROVE  IInv'
<1>1. TypeOK'
    BY PyObjectAssumption DEF IInv, TypeOK, OwnNew, With, Living, Unmade
<1>2. Holders(p)' = {h}
    BY PyObjectAssumption DEF IInv, TypeOK, OwnNew, With, Living, Unmade, Holders
<1>3. \A o \in DOMAIN refs : Holders(o)' = Holders(o)
    BY PyObjectAssumption DEF IInv, TypeOK, OwnNew, With, Living, Unmade, Holders
<1>4. CountsAreHolders'
    <2> SUFFICES ASSUME NEW o \in DOMAIN refs \cup {p}, o \notin wild
                 PROVE  /\ refs'[o] = Cardinality(Holders(o)') + inside'[o]
                        /\ o \in freed' <=> refs'[o] = 0
        BY DEF CountsAreHolders, OwnNew
    <2>1. CASE o = p
        <3>1. Cardinality(Holders(o)') = 1
            BY <1>2, <2>1, FS_Singleton
        <3> QED BY <2>1, <3>1 DEF IInv, TypeOK, OwnNew, Unmade
    <2>2. CASE o # p
        BY <1>3, <2>2 DEF IInv, CountsAreHolders, OwnNew
    <2> QED BY <2>1, <2>2
<1> QED BY <1>1, <1>4 DEF IInv

LEMMA OwnKeeps ==
    ASSUME IInv, NEW h \in Handles, NEW p \in Objects, Own(h, p)
    PROVE  IInv'
<1>0. p # NULL
    BY PyObjectAssumption
<1>1. TypeOK'
    BY <1>0 DEF IInv, TypeOK, Own, With, Living, Py_XINCREF
<1>2. Holders(p)' = Holders(p) \cup {h} /\ h \notin Holders(p)
    BY DEF IInv, TypeOK, Own, With, Living, Holders
<1>3. Cardinality(Holders(p)') = Cardinality(Holders(p)) + 1
    BY <1>2, HoldersFinite, GainOne DEF IInv
<1>4. \A o \in DOMAIN refs \ {p} : Holders(o)' = Holders(o)
    BY DEF IInv, TypeOK, Own, With, Living, Holders
<1>5. CountsAreHolders'
    <2> SUFFICES ASSUME NEW o \in DOMAIN refs, o \notin wild
                 PROVE  /\ refs'[o] = Cardinality(Holders(o)') + inside'[o]
                        /\ o \in freed' <=> refs'[o] = 0
        BY <1>0 DEF CountsAreHolders, Own, Py_XINCREF
    <2>1. CASE o = p
        BY <1>0, <1>3, <2>1, HoldersFinite, PyObjectAssumption
           DEF IInv, TypeOK, CountsAreHolders, Own, Py_XINCREF
    <2>2. CASE o # p
        BY <1>0, <1>4, <2>2 DEF IInv, CountsAreHolders, Own, Py_XINCREF
    <2> QED BY <2>1, <2>2
<1> QED BY <1>1, <1>5 DEF IInv

LEMMA CopyKeeps ==
    ASSUME IInv, NEW h \in Handles, NEW g \in Handles, Copy(h, g)
    PROVE  IInv'
<1>1. TypeOK'
    BY DEF IInv, TypeOK, Copy, With, Living, Py_XINCREF, Touch
<1>2. CountsAreHolders'
    <2> SUFFICES ASSUME NEW o \in DOMAIN refs, o \notin wild'
                 PROVE  /\ refs'[o] = Cardinality(Holders(o)') + inside'[o]
                        /\ o \in freed' <=> refs'[o] = 0
        BY DEF CountsAreHolders, Copy, Py_XINCREF
    <2>0. o \notin wild /\ o # NULL
        BY PyObjectAssumption DEF Copy, Touch, IInv, TypeOK
    <2>1. CASE obj[g] = o
        <3>1. Holders(o)' = Holders(o) \cup {h} /\ h \notin Holders(o)
            BY <2>1 DEF IInv, TypeOK, Copy, With, Living, Holders
        <3>2. Cardinality(Holders(o)') = Cardinality(Holders(o)) + 1
            BY <3>1, HoldersFinite, GainOne DEF IInv
        <3>3. o \notin freed /\ refs[o] >= 1 + inside[o]
            BY <2>0, <2>1, HeldIsCounted DEF Copy
        <3>4. refs[o] \in Int /\ inside[o] \in Nat
            BY PyObjectAssumption DEF IInv, TypeOK
        <3> QED BY <2>0, <2>1, <3>2, <3>3, <3>4, HoldersFinite DEF IInv, CountsAreHolders, Copy, Py_XINCREF
    <2>2. CASE obj[g] # o
        <3>1. Holders(o)' = Holders(o)
            BY <2>2 DEF IInv, TypeOK, Copy, With, Living, Holders
        <3> QED BY <2>0, <2>2, <3>1 DEF IInv, CountsAreHolders, Copy, Py_XINCREF
    <2> QED BY <2>1, <2>2
<1> QED BY <1>1, <1>2 DEF IInv

-----------------------------------------------------------------------------
(* Steps that give a reference up *)

LEMMA DestroyKeeps ==
    ASSUME IInv, NEW h \in Handles, Destroy(h)
    PROVE  IInv'
<1>1. TypeOK'
    BY DEF IInv, TypeOK, Destroy, Without, Living, Py_XDECREF, Touch, Zero
<1>2. CountsAreHolders'
    <2> SUFFICES ASSUME NEW o \in DOMAIN refs, o \notin wild'
                 PROVE  /\ refs'[o] = Cardinality(Holders(o)') + inside'[o]
                        /\ o \in freed' <=> refs'[o] = 0
        BY DEF CountsAreHolders, Destroy, Py_XDECREF
    <2>0. o \notin wild /\ o # NULL /\ refs[o] \in Int /\ inside[o] \in Nat
        BY PyObjectAssumption DEF Destroy, Touch, IInv, TypeOK
    <2>1. CASE obj[h] = o
        <3>1. Holders(o)' = Holders(o) \ {h} /\ h \in Holders(o)
            BY <2>1 DEF Destroy, Without, Living, Holders
        <3>2. Cardinality(Holders(o)') = Cardinality(Holders(o)) - 1
            BY <3>1, HoldersFinite, LoseOne DEF IInv
        <3>3. refs'[o] = refs[o] - 1 /\ o \notin freed /\ (o \in freed' <=> refs'[o] = 0)
            BY <2>0, <2>1 DEF IInv, TypeOK, Destroy, Py_XDECREF, Touch, Zero
        <3> QED BY <2>0, <3>2, <3>3, HoldersFinite DEF IInv, CountsAreHolders, Destroy
    <2>2. CASE obj[h] # o
        <3>1. Holders(o)' = Holders(o)
            BY <2>2 DEF Destroy, Without, Living, Holders
        <3>2. refs'[o] = refs[o] /\ (o \in freed' <=> o \in freed \/ refs[o] = 0)
            BY <2>0, <2>2 DEF IInv, TypeOK, Destroy, Py_XDECREF, Zero
        <3> QED BY <2>0, <3>1, <3>2 DEF IInv, CountsAreHolders, Destroy
    <2> QED BY <2>1, <2>2
<1> QED BY <1>1, <1>2 DEF IInv

LEMMA MoveAssignKeeps ==
    ASSUME IInv, NEW h \in Handles, NEW g \in Handles, MoveAssign(h, g)
    PROVE  IInv'
<1>1. TypeOK'
    BY DEF IInv, TypeOK, MoveAssign, Living, Py_XDECREF, Touch, Zero
<1>2. CountsAreHolders'
    <2> SUFFICES ASSUME NEW o \in DOMAIN refs, o \notin wild'
                 PROVE  /\ refs'[o] = Cardinality(Holders(o)') + inside'[o]
                        /\ o \in freed' <=> refs'[o] = 0
        BY DEF CountsAreHolders, MoveAssign, Py_XDECREF
    <2>0. o \notin wild /\ o # NULL /\ refs[o] \in Int /\ inside[o] \in Nat
        BY PyObjectAssumption DEF MoveAssign, Touch, IInv, TypeOK
    <2>1. CASE obj[h] = o
        <3> DEFINE lost == IF obj[g] = o THEN g ELSE h
        <3>1. Holders(o)' = Holders(o) \ {lost} /\ lost \in Holders(o)
            BY <2>0, <2>1 DEF MoveAssign, Living, Holders
        <3>2. Cardinality(Holders(o)') = Cardinality(Holders(o)) - 1
            BY <3>1, HoldersFinite, LoseOne DEF IInv
        <3>3. refs'[o] = refs[o] - 1 /\ o \notin freed /\ (o \in freed' <=> refs'[o] = 0)
            BY <2>0, <2>1 DEF IInv, TypeOK, MoveAssign, Py_XDECREF, Touch, Zero
        <3> QED BY <2>0, <3>2, <3>3, HoldersFinite DEF IInv, CountsAreHolders, MoveAssign
    <2>2. CASE obj[h] # o
        <3>1. Cardinality(Holders(o)') = Cardinality(Holders(o))
            <4>1. CASE obj[g] = o
                <5>1. /\ g \in Holders(o) /\ h \notin Holders(o)
                      /\ Holders(o)' = (Holders(o) \ {g}) \cup {h}
                    BY <2>0, <2>2, <4>1 DEF MoveAssign, Living, Holders
                <5>2. IsFiniteSet(Holders(o) \ {g}) /\ Cardinality(Holders(o) \ {g}) = Cardinality(Holders(o)) - 1
                    BY <5>1, HoldersFinite, FS_RemoveElement DEF IInv
                <5>3. h \notin Holders(o) \ {g}
                    BY <5>1
                <5>4. Cardinality((Holders(o) \ {g}) \cup {h}) = Cardinality(Holders(o) \ {g}) + 1
                    BY <5>2, <5>3, GainOne
                <5> QED BY <5>1, <5>2, <5>4, HoldersFinite DEF IInv
            <4>2. CASE obj[g] # o
                <5>1. Holders(o)' = Holders(o)
                    BY <2>0, <2>2, <4>2 DEF MoveAssign, Living, Holders
                <5> QED BY <5>1
            <4> QED BY <4>1, <4>2
        <3>2. refs'[o] = refs[o] /\ (o \in freed' <=> o \in freed \/ refs[o] = 0)
            BY <2>0, <2>2 DEF IInv, TypeOK, MoveAssign, Py_XDECREF, Zero
        <3> QED BY <2>0, <3>1, <3>2 DEF IInv, CountsAreHolders, MoveAssign
    <2> QED BY <2>1, <2>2
<1> QED BY <1>1, <1>2 DEF IInv

\* The reference given up and the one taken may be of one object.
LEMMA CopyAssignIInv ==
    ASSUME IInv, NEW h \in Handles, NEW g \in Handles, CopyAssign(h, g)
    PROVE  IInv'
<1> DEFINE down == Py_XDECREF(refs, obj[h])
           gone == freed \cup Zero(down)
<1>0. /\ {h, g} \subseteq Living
      /\ obj' = [obj EXCEPT ![h] = obj[g]]
      /\ refs' = Py_XINCREF(down, obj[g])
      /\ freed' = gone
      /\ wild' = wild \cup ({obj[h]} \cap freed) \cup ({obj[g]} \cap gone)
      /\ inside' = inside
    BY DEF CopyAssign
<1>1. TypeOK'
    BY <1>0 DEF IInv, TypeOK, Living, Py_XINCREF, Py_XDECREF, Zero
<1>2. CountsAreHolders'
    <2> SUFFICES ASSUME NEW o \in DOMAIN refs, o \notin wild'
                 PROVE  /\ refs'[o] = Cardinality(Holders(o)') + inside[o]
                        /\ o \in freed' <=> refs'[o] = 0
        BY <1>0 DEF CountsAreHolders, Py_XINCREF, Py_XDECREF
    <2>0. /\ o \notin wild /\ o # NULL /\ refs[o] \in Int /\ inside[o] \in Nat
          /\ obj[h] = o => o \notin freed
          /\ obj[g] = o => o \notin gone
        BY <1>0, PyObjectAssumption DEF IInv, TypeOK
    <2>a. /\ down[o] = IF obj[h] = o THEN refs[o] - 1 ELSE refs[o]
          /\ o \in gone <=> o \in freed \/ down[o] = 0
        BY <2>0 DEF IInv, TypeOK, Py_XDECREF, Zero
    <2>b. refs'[o] = IF obj[g] = o THEN down[o] + 1 ELSE down[o]
        BY <1>0, <2>0 DEF IInv, TypeOK, Py_XINCREF, Py_XDECREF
    <2>c. refs[o] = Cardinality(Holders(o)) + inside[o] /\ (o \in freed <=> refs[o] = 0)
        BY <2>0 DEF IInv, CountsAreHolders
    <2> HIDE DEF down, gone
    <2>1. CASE obj[h] = o /\ obj[g] = o
        <3>1. Holders(o)' = Holders(o)
            BY <1>0, <2>1 DEF Living, Holders
        <3> QED BY <1>0, <2>0, <2>a, <2>b, <2>c, <2>1, <3>1
    <2>2. CASE obj[h] = o /\ obj[g] # o
        <3>1. Holders(o)' = Holders(o) \ {h} /\ h \in Holders(o)
            BY <1>0, <2>2 DEF Living, Holders
        <3>2. Cardinality(Holders(o)') = Cardinality(Holders(o)) - 1
            BY <3>1, HoldersFinite, LoseOne DEF IInv
        <3> QED BY <1>0, <2>0, <2>a, <2>b, <2>c, <2>2, <3>2, HoldersFinite DEF IInv
    <2>3. CASE obj[h] # o /\ obj[g] = o
        <3>1. Holders(o)' = Holders(o) \cup {h} /\ h \notin Holders(o)
            BY <1>0, <2>3 DEF Living, Holders
        <3>2. Cardinality(Holders(o)') = Cardinality(Holders(o)) + 1
            BY <3>1, HoldersFinite, GainOne DEF IInv
        <3>3. refs[o] >= 1
            BY <1>0, <2>0, <2>3, HeldIsCounted
        <3> QED BY <1>0, <2>0, <2>a, <2>b, <2>c, <2>3, <3>2, <3>3, HoldersFinite DEF IInv
    <2>4. CASE obj[h] # o /\ obj[g] # o
        <3>1. Holders(o)' = Holders(o)
            BY <1>0, <2>4 DEF Living, Holders
        <3> QED BY <1>0, <2>0, <2>a, <2>b, <2>c, <2>4, <3>1
    <2> QED BY <2>1, <2>2, <2>3, <2>4
<1> QED BY <1>1, <1>2 DEF IInv

-----------------------------------------------------------------------------
(* Python's steps *)

LEMMA PyNewKeeps ==
    ASSUME IInv, NEW p \in Objects, PyNew(p)
    PROVE  IInv'
<1>1. TypeOK'
    BY PyObjectAssumption DEF IInv, TypeOK, PyNew, Living, Unmade
<1>2. Holders(p) = {}
    BY PyObjectAssumption DEF IInv, TypeOK, PyNew, Living, Unmade, Holders
<1>3. \A o \in Objects : Holders(o)' = Holders(o)
    BY DEF PyNew, Living, Holders
<1>4. CountsAreHolders'
    <2> SUFFICES ASSUME NEW o \in DOMAIN refs \cup {p}, o \notin wild
                 PROVE  /\ refs'[o] = Cardinality(Holders(o)') + inside'[o]
                        /\ o \in freed' <=> refs'[o] = 0
        BY DEF CountsAreHolders, PyNew
    <2>0. Holders(o)' = Holders(o)
        BY <1>3 DEF IInv, TypeOK
    <2>1. CASE o = p
        <3>1. Cardinality(Holders(o)') = 0
            BY <1>2, <2>0, <2>1, FS_EmptySet
        <3> QED BY <2>1, <3>1 DEF IInv, TypeOK, PyNew, Unmade
    <2>2. CASE o # p
        BY <2>0, <2>2 DEF IInv, CountsAreHolders, PyNew
    <2> QED BY <2>1, <2>2
<1> QED BY <1>1, <1>4 DEF IInv

LEMMA PyKeepKeeps ==
    ASSUME IInv, NEW h \in Handles, PyKeep(h)
    PROVE  IInv'
<1>1. TypeOK'
    BY PyObjectAssumption DEF IInv, TypeOK, PyKeep, Living, Py_XINCREF
<1>2. CountsAreHolders'
    <2> SUFFICES ASSUME NEW o \in DOMAIN refs, o \notin wild
                 PROVE  /\ refs'[o] = Cardinality(Holders(o)') + inside'[o]
                        /\ o \in freed <=> refs'[o] = 0
        BY DEF CountsAreHolders, PyKeep, Py_XINCREF
    <2>0. o # NULL /\ refs[o] \in Int /\ inside[o] \in Nat /\ Holders(o)' = Holders(o)
        BY PyObjectAssumption DEF IInv, TypeOK, PyKeep, Living, Holders
    <2>1. CASE o = obj[h]
        <3>1. refs[o] >= 1 /\ o \notin freed
            BY <2>0, <2>1, HeldIsCounted DEF PyKeep
        <3>2. refs'[o] = refs[o] + 1 /\ inside'[o] = inside[o] + 1
            BY <2>0, <2>1 DEF IInv, TypeOK, PyKeep, Py_XINCREF
        <3> QED BY <2>0, <3>1, <3>2, HoldersFinite DEF IInv, CountsAreHolders
    <2>2. CASE o # obj[h]
        BY <2>0, <2>2 DEF IInv, TypeOK, CountsAreHolders, PyKeep, Py_XINCREF
    <2> QED BY <2>1, <2>2
<1> QED BY <1>1, <1>2 DEF IInv

LEMMA PyDropKeeps ==
    ASSUME IInv, NEW p \in Objects, PyDrop(p)
    PROVE  IInv'
<1>1. TypeOK'
    BY PyObjectAssumption DEF IInv, TypeOK, PyDrop, Living, Py_XDECREF, Touch, Zero
<1>2. CountsAreHolders'
    <2> SUFFICES ASSUME NEW o \in DOMAIN refs, o \notin wild'
                 PROVE  /\ refs'[o] = Cardinality(Holders(o)') + inside'[o]
                        /\ o \in freed' <=> refs'[o] = 0
        BY DEF CountsAreHolders, PyDrop, Py_XDECREF
    <2>0. /\ o \notin wild /\ o # NULL /\ p # NULL /\ refs[o] \in Int /\ inside[o] \in Nat
          /\ Holders(o)' = Holders(o)
        BY PyObjectAssumption DEF IInv, TypeOK, PyDrop, Living, Holders, Touch
    <2>1. CASE o = p
        <3>1. /\ refs'[o] = refs[o] - 1 /\ inside'[o] = inside[o] - 1
              /\ o \notin freed /\ (o \in freed' <=> refs'[o] = 0)
            BY <2>0, <2>1 DEF IInv, TypeOK, PyDrop, Py_XDECREF, Touch, Zero
        <3> QED BY <2>0, <3>1, HoldersFinite DEF IInv, CountsAreHolders
    <2>2. CASE o # p
        <3>1. /\ refs'[o] = refs[o] /\ inside'[o] = inside[o]
              /\ o \in freed' <=> o \in freed \/ refs[o] = 0
            BY <2>0, <2>2 DEF IInv, TypeOK, PyDrop, Py_XDECREF, Zero
        <3> QED BY <2>0, <3>1 DEF IInv, CountsAreHolders
    <2> QED BY <2>1, <2>2
<1> QED BY <1>1, <1>2 DEF IInv

-----------------------------------------------------------------------------

LEMMA NextIInv == IInv /\ [Next]_vars => IInv'
<1> SUFFICES ASSUME IInv, [Next]_vars
             PROVE  IInv'
    OBVIOUS
<1>1. CASE \E h \in Handles : Null(h) \/ Destroy(h) \/ PyKeep(h)
    BY <1>1, NullKeeps, DestroyKeeps, PyKeepKeeps
<1>2. CASE \E h \in Handles, o \in Objects : OwnNew(h, o) \/ Own(h, o)
    BY <1>2, OwnNewKeeps, OwnKeeps
<1>3. CASE \E h, g \in Handles :
              Copy(h, g) \/ Move(h, g) \/ CopyAssign(h, g) \/ MoveAssign(h, g)
    BY <1>3, CopyKeeps, MoveKeeps, CopyAssignIInv, MoveAssignKeeps
<1>4. CASE \E o \in Objects : PyNew(o) \/ PyDrop(o)
    BY <1>4, PyNewKeeps, PyDropKeeps
<1>5. CASE UNCHANGED vars
    BY <1>5 DEF vars, IInv, TypeOK, CountsAreHolders, Living, Holders
<1> QED BY <1>1, <1>2, <1>3, <1>4, <1>5 DEF Next

-----------------------------------------------------------------------------
(* The one way to count freed memory *)

LEMMA StepIsSelfCopy ==
    ASSUME IInv, [Next]_vars, NEW o \in wild' \ wild
    PROVE  /\ refs[o] = 1 /\ o \notin freed
           /\ \E h \in Living \cap Living' : obj[h] = o /\ obj'[h] = o
<1>0. wild' # wild
    OBVIOUS
<1>1. ASSUME NEW h \in Living, obj[h] # NULL, obj[h] \notin wild
      PROVE  obj[h] \notin freed
    BY <1>1, HeldIsCounted
<1>2. CASE \E h \in Handles : Null(h) \/ Destroy(h) \/ PyKeep(h)
    BY <1>0, <1>1, <1>2, PyObjectAssumption DEF Null, Destroy, PyKeep, Touch, IInv, TypeOK
<1>3. CASE \E h \in Handles, p \in Objects : OwnNew(h, p) \/ Own(h, p)
    BY <1>0, <1>3 DEF OwnNew, Own
<1>4. CASE \E p \in Objects : PyNew(p) \/ PyDrop(p)
    <2>1. PICK p \in Objects : PyDrop(p)
        BY <1>0, <1>4 DEF PyNew
    <2>2. o = p /\ o \in freed /\ inside[o] > 0 /\ o \in DOMAIN refs
        BY <2>1 DEF PyDrop, Touch
    <2>3. refs[o] = Cardinality(Holders(o)) + inside[o] /\ refs[o] = 0
        BY <2>2 DEF IInv, CountsAreHolders
    <2>4. inside[o] \in Nat
        BY <2>2, PyObjectAssumption DEF IInv, TypeOK
    <2> QED BY <2>2, <2>3, <2>4, HoldersFinite DEF IInv
<1>5. CASE \E h, g \in Handles :
              Copy(h, g) \/ Move(h, g) \/ CopyAssign(h, g) \/ MoveAssign(h, g)
    <2>1. PICK h \in Handles, g \in Handles :
              Copy(h, g) \/ Move(h, g) \/ CopyAssign(h, g) \/ MoveAssign(h, g)
        BY <1>5
    <2>2. CASE Copy(h, g) \/ Move(h, g) \/ MoveAssign(h, g)
        BY <1>0, <1>1, <2>2, PyObjectAssumption DEF Copy, Move, MoveAssign, Touch, IInv, TypeOK
    <2>3. CASE CopyAssign(h, g)
        <3> DEFINE down == Py_XDECREF(refs, obj[h])
                   gone == freed \cup Zero(down)
        <3>1. /\ {h, g} \subseteq Living /\ obj' = [obj EXCEPT ![h] = obj[g]]
              /\ wild' = wild \cup ({obj[h]} \cap freed) \cup ({obj[g]} \cap gone)
            BY <2>3 DEF CopyAssign
        <3>2. o \in DOMAIN refs /\ o # NULL
            BY <3>1, PyObjectAssumption DEF IInv, TypeOK, Zero, Py_XDECREF
        <3>3. o \notin freed /\ obj[g] = o /\ o \in Zero(down)
            BY <1>1, <3>1, <3>2
        <3>4. refs[o] \in Int /\ inside[o] \in Nat /\ refs[o] # 0
            BY <3>2, <3>3, PyObjectAssumption DEF IInv, TypeOK, CountsAreHolders
        <3>5. obj[h] = o /\ refs[o] = 1
            BY <3>2, <3>3, <3>4 DEF Zero, Py_XDECREF, IInv, TypeOK
        <3>6. obj'[h] = o /\ h \in Living'
            BY <3>1, <3>3 DEF Living
        <3> QED BY <3>1, <3>3, <3>5, <3>6
    <2> QED BY <2>1, <2>2, <2>3
<1>6. CASE UNCHANGED vars
    BY <1>0, <1>6 DEF vars
<1> QED BY <1>2, <1>3, <1>4, <1>5, <1>6 DEF Next

-----------------------------------------------------------------------------
(* R: sexp *)

\* A set has one cardinality, in whichever module it is taken.
LEMMA SameCardinality == \A S : R!Cardinality(S) = Cardinality(S)
BY DEF R!Cardinality, Cardinality

\* A sexp that was destroyed holds nothing, and is not in the order twice.
Distinct ==
    /\ \A i, j \in DOMAIN order : order[i] = order[j] => i = j
    /\ \A s \in Locals \ R!Living : sexps[s] = NULL

\* Each holder has a place of its own in R's stack, where its value is, and
\* holders that were made later have higher places.
Placed(f) ==
    /\ f \in [R!Holding -> DOMAIN protected]
    /\ \A s \in R!Holding : protected[f[s]] = sexps[s]
    /\ \A s, t \in R!Holding : R!Before(s, t) => f[s] < f[t]
HoldersPlaced == ~crossed => \E f \in [R!Holding -> DOMAIN protected] : Placed(f)

SexpInv == R!TypeOK /\ Distinct /\ R!Balanced /\ HoldersPlaced

LEMMA SexpsFinite ==
    ASSUME R!TypeOK
    PROVE  /\ R!Living \subseteq Locals
           /\ IsFiniteSet(R!Holding) /\ Cardinality(R!Holding) \in Nat
           /\ Len(order) \in Nat /\ DOMAIN order = 1 .. Len(order)
           /\ \A i \in DOMAIN order : order[i] \in Locals
<1>1. Len(order) \in Nat /\ DOMAIN order = 1 .. Len(order) /\ order \in [1 .. Len(order) -> Locals]
    BY LenProperties DEF R!TypeOK
<1>2. order \in Surjection(1 .. Len(order), R!Living)
    BY <1>1 DEF Surjection, R!Living
<1>3. IsFiniteSet(R!Living)
    BY <1>1, <1>2, FS_Interval, FS_Surjection
<1>4. R!Holding \in SUBSET R!Living
    BY DEF R!Holding
<1>5. IsFiniteSet(R!Holding)
    BY <1>3, <1>4, FS_Subset
<1> QED BY <1>1, <1>5, FS_CardinalityType DEF R!Living

\* Of two living sexps one is made before the other.
LEMMA OneIsBefore ==
    ASSUME R!TypeOK, Distinct, NEW s \in R!Living, NEW t \in R!Living, s # t
    PROVE  R!Before(s, t) \/ R!Before(t, s)
BY SexpsFinite DEF R!Living, R!Before

LEMMA LastMade ==
    ASSUME R!TypeOK, Distinct, order # <<>>
    PROVE  /\ Len(order) \in DOMAIN order /\ order[Len(order)] \in R!Living
           /\ \A t \in R!Living : ~R!Before(order[Len(order)], t)
<1>1. Len(order) \in DOMAIN order
    BY SexpsFinite, EmptySeq DEF R!TypeOK
<1> QED BY <1>1, SexpsFinite DEF R!Living, R!Before, Distinct

\* A new sexp comes after all others.
LEMMA NewIsLast ==
    ASSUME R!TypeOK, Distinct, NEW s \in Locals \ R!Living, order' = Append(order, s)
    PROVE  /\ order' \in Seq(Locals) /\ R!Living' = R!Living \cup {s}
           /\ \A i, j \in DOMAIN order' : order'[i] = order'[j] => i = j
           /\ \A t, u \in R!Living : R!Before(t, u)' => R!Before(t, u)
           /\ \A t \in R!Living' : ~R!Before(s, t)'
<1>1. /\ order' \in Seq(Locals) /\ Len(order') = Len(order) + 1
      /\ DOMAIN order' = 1 .. Len(order) + 1
      /\ \A i \in 1 .. Len(order) : order'[i] = order[i]
      /\ order'[Len(order) + 1] = s
    BY AppendProperties, LenProperties DEF R!TypeOK
<1>2. DOMAIN order = 1 .. Len(order) /\ Len(order) \in Nat
    BY SexpsFinite
<1>3. R!Living' = R!Living \cup {s}
    BY <1>1, <1>2 DEF R!Living
<1>4. \A i \in DOMAIN order : order[i] # s
    BY DEF R!Living
<1>5. \A i, j \in DOMAIN order' : order'[i] = order'[j] => i = j
    BY <1>1, <1>2, <1>4 DEF Distinct
<1>6. \A t, u \in R!Living : R!Before(t, u)' => R!Before(t, u)
    <2> SUFFICES ASSUME NEW t \in R!Living, NEW u \in R!Living,
                        NEW i \in DOMAIN order', NEW j \in DOMAIN order',
                        i < j, order'[i] = t, order'[j] = u
                 PROVE  R!Before(t, u)
        BY DEF R!Before
    <2>1. t # s /\ u # s
        OBVIOUS
    <2>2. i \in DOMAIN order /\ j \in DOMAIN order /\ order[i] = t /\ order[j] = u
        BY <1>1, <1>2, <2>1
    <2> QED BY <2>2 DEF R!Before
<1>7. \A t \in R!Living' : ~R!Before(s, t)'
    <2> SUFFICES ASSUME NEW i \in DOMAIN order', NEW j \in DOMAIN order',
                        i < j, order'[i] = s
                 PROVE  FALSE
        BY DEF R!Before
    <2> QED BY <1>1, <1>2, <1>4
<1> QED BY <1>1, <1>3, <1>5, <1>6, <1>7

\* What is popped of R's stack.
LEMMA WhatIsPopped ==
    ASSUME R!TypeOK, Len(protected) > 0
    PROVE  /\ R!Rf_unprotect(protected) \in Seq(Values)
           /\ Len(R!Rf_unprotect(protected)) = Len(protected) - 1
           /\ DOMAIN R!Rf_unprotect(protected) = 1 .. Len(protected) - 1
           /\ \A i \in 1 .. Len(protected) - 1 : R!Rf_unprotect(protected)[i] = protected[i]
<1> DEFINE n == Len(protected) - 1
           popped == SubSeq(protected, 1, n)
<1>1. Len(protected) \in Nat /\ protected \in [1 .. Len(protected) -> Values]
    BY LenProperties DEF R!TypeOK
<1>2. n \in Nat /\ \A i \in 1 .. n : protected[i] \in Values
    BY <1>1
<1> HIDE DEF n
<1>3. /\ popped \in Seq(Values)
      /\ Len(popped) = IF 1 <= n THEN n - 1 + 1 ELSE 0
      /\ \A i \in 1 .. n - 1 + 1 : popped[i] = protected[1 + i - 1]
    BY <1>2, SubSeqProperties
<1> HIDE DEF popped
<1>4. Len(popped) = n
    BY <1>2, <1>3
<1>5. DOMAIN popped = 1 .. n
    BY <1>3, <1>4, LenProperties
<1>6. \A i \in 1 .. n : popped[i] = protected[i]
    BY <1>2, <1>3
<1> QED BY <1>3, <1>4, <1>5, <1>6 DEF R!Rf_unprotect, popped, n

\* While a sexp holds a value there is something to pop.
LEMMA SomethingToPop ==
    ASSUME R!TypeOK, R!Balanced
    PROVE  /\ Len(protected) \in Nat /\ DOMAIN protected = 1 .. Len(protected)
           /\ R!Holding # {} \/ released > 0 => Len(protected) > 0
<1>1. Len(protected) \in Nat /\ DOMAIN protected = 1 .. Len(protected)
    BY LenProperties DEF R!TypeOK
<1>2. R!Holding # {} => Cardinality(R!Holding) # 0
    BY SexpsFinite, FS_EmptySet
<1> QED BY <1>1, <1>2, SexpsFinite, BindingsAssumption, SameCardinality DEF R!TypeOK, R!Balanced

LEMMA InitSexpInv == R!Init => SexpInv
<1> SUFFICES ASSUME R!Init PROVE SexpInv
    OBVIOUS
<1>1. R!TypeOK
    <2>1. <<>> \in Seq(Locals) /\ <<>> \in Seq(Values)
        BY EmptySeq
    <2>2. 0 \in 0 .. MaxReleased
        BY BindingsAssumption
    <2> QED BY <2>1, <2>2 DEF R!Init, R!TypeOK
<1>2. R!Living = {} /\ R!Holding = {} /\ Distinct
    BY DEF R!Init, R!Living, R!Holding, Distinct
<1>3. Len(protected) = 0
    BY EmptySeq DEF R!Init
<1>4. R!Balanced
    BY <1>2, <1>3, FS_EmptySet, SameCardinality DEF R!Init, R!Balanced
<1>5. HoldersPlaced
    <2> DEFINE f == [s \in R!Holding |-> 0]
    <2>1. f \in [R!Holding -> DOMAIN protected] /\ Placed(f)
        BY <1>2 DEF Placed
    <2> QED BY <2>1 DEF HoldersPlaced
<1> QED BY <1>1, <1>2, <1>4, <1>5 DEF SexpInv

-----------------------------------------------------------------------------
\* Enough of SexpInv' for the steps: the rest is what they leave alone.
LEMMA SexpMade ==
    ASSUME SexpInv, NEW s \in Locals \ R!Living, NEW v \in Values \cup {NULL}, R!Made(s, v)
    PROVE  /\ order' \in Seq(Locals) /\ sexps' \in [Locals -> Values \cup {NULL}]
           /\ Distinct'
           /\ R!Holding' = IF v = NULL THEN R!Holding ELSE R!Holding \cup {s}
           /\ s \notin R!Holding
           /\ \A t \in R!Holding : sexps'[t] = sexps[t]
<1>1. /\ order' \in Seq(Locals) /\ R!Living' = R!Living \cup {s}
      /\ \A i, j \in DOMAIN order' : order'[i] = order'[j] => i = j
    BY NewIsLast DEF SexpInv, R!Made
<1>2. sexps' \in [Locals -> Values \cup {NULL}]
    BY DEF SexpInv, R!TypeOK, R!Made
<1>3. s \notin R!Holding /\ R!Holding \subseteq Locals
    BY SexpsFinite DEF R!Holding, SexpInv
<1>4. \A t \in Locals : sexps'[t] = IF t = s THEN v ELSE sexps[t]
    BY DEF R!Made, SexpInv, R!TypeOK
<1>5. \A t \in Locals \ R!Living' : sexps'[t] = NULL
    BY <1>1, <1>4 DEF SexpInv, Distinct
<1>6. R!Holding' = IF v = NULL THEN R!Holding ELSE R!Holding \cup {s}
    BY <1>1, <1>3, <1>4, SexpsFinite DEF R!Holding, SexpInv
<1>7. \A t \in R!Holding : sexps'[t] = sexps[t]
    BY <1>3, <1>4
<1> QED BY <1>1, <1>2, <1>3, <1>5, <1>6, <1>7 DEF Distinct

LEMMA DefaultKeeps ==
    ASSUME SexpInv, NEW s \in Locals, R!Default(s)
    PROVE  SexpInv'
<1>0. s \in Locals \ R!Living /\ R!Made(s, NULL) /\ NULL \in Values \cup {NULL}
    BY DEF R!Default, R!Made
<1>1. /\ order' \in Seq(Locals) /\ sexps' \in [Locals -> Values \cup {NULL}] /\ Distinct'
      /\ R!Holding' = R!Holding /\ \A t \in R!Holding : sexps'[t] = sexps[t]
    BY <1>0, SexpMade
<1>2. R!TypeOK'
    BY <1>1 DEF R!Default, SexpInv, R!TypeOK
<1>3. R!Balanced'
    BY <1>1, SameCardinality DEF R!Default, SexpInv, R!Balanced
<1>4. HoldersPlaced'
    <2> SUFFICES ASSUME ~crossed
                 PROVE  \E f \in [R!Holding -> DOMAIN protected] : Placed(f)'
        BY <1>1 DEF HoldersPlaced, R!Default
    <2>1. PICK f \in [R!Holding -> DOMAIN protected] : Placed(f)
        BY DEF SexpInv, HoldersPlaced
    <2>2. \A t, u \in R!Holding : R!Before(t, u)' => R!Before(t, u)
        BY <1>0, NewIsLast DEF SexpInv, R!Made, R!Holding
    <2>3. Placed(f)'
        BY <1>1, <2>1, <2>2 DEF Placed, R!Default
    <2> QED BY <2>3
<1> QED BY <1>1, <1>2, <1>3, <1>4 DEF SexpInv

LEMMA ProtectKeeps ==
    ASSUME SexpInv, NEW s \in Locals, NEW v \in Values, R!Protect(s, v)
    PROVE  SexpInv'
<1>0. s \in Locals \ R!Living /\ R!Made(s, v) /\ v # NULL /\ v \in Values \cup {NULL}
    BY BindingsAssumption DEF R!Protect, R!Made
<1>1. /\ order' \in Seq(Locals) /\ sexps' \in [Locals -> Values \cup {NULL}] /\ Distinct'
      /\ R!Holding' = R!Holding \cup {s} /\ s \notin R!Holding
      /\ \A t \in R!Holding : sexps'[t] = sexps[t]
    BY <1>0, SexpMade
<1>2. /\ protected' \in Seq(Values) /\ Len(protected') = Len(protected) + 1
      /\ DOMAIN protected' = 1 .. Len(protected) + 1
      /\ \A i \in 1 .. Len(protected) : protected'[i] = protected[i]
      /\ protected'[Len(protected) + 1] = v
    BY AppendProperties, LenProperties DEF R!Protect, R!Rf_protect, SexpInv, R!TypeOK
<1>3. Len(protected) \in Nat /\ DOMAIN protected = 1 .. Len(protected)
    BY SomethingToPop DEF SexpInv
<1>4. R!TypeOK'
    BY <1>1, <1>2 DEF R!Protect, SexpInv, R!TypeOK
<1>5. R!Balanced'
    <2>1. Cardinality(R!Holding') = Cardinality(R!Holding) + 1
        BY <1>1, SexpsFinite, FS_AddElement DEF SexpInv
    <2>2. released \in Nat /\ released' = released
        BY BindingsAssumption DEF SexpInv, R!TypeOK, R!Protect
    <2> QED BY <1>2, <1>3, <2>1, <2>2, SexpsFinite, SameCardinality DEF SexpInv, R!Balanced
<1>6. HoldersPlaced'
    <2> SUFFICES ASSUME ~crossed
                 PROVE  \E f \in [R!Holding' -> DOMAIN protected'] : Placed(f)'
        BY DEF HoldersPlaced, R!Protect
    <2>1. PICK f \in [R!Holding -> DOMAIN protected] : Placed(f)
        BY DEF SexpInv, HoldersPlaced
    <2>2. /\ \A t, u \in R!Holding : R!Before(t, u)' => R!Before(t, u)
          /\ \A t \in R!Holding' : ~R!Before(s, t)'
        BY <1>0, NewIsLast DEF SexpInv, R!Made, R!Holding
    <2> DEFINE g == [t \in R!Holding' |-> IF t = s THEN Len(protected) + 1 ELSE f[t]]
    <2>3. \A t \in R!Holding : g[t] = f[t] /\ f[t] \in 1 .. Len(protected)
        BY <1>1, <1>3, <2>1
    <2>4. g[s] = Len(protected) + 1
        BY <1>1
    <2>5. g \in [R!Holding' -> DOMAIN protected']
        BY <1>1, <1>2, <1>3, <2>3
    <2>6. sexps'[s] = v
        BY <1>0 DEF R!Made, SexpInv, R!TypeOK
    <2>7. \A t \in R!Holding' : protected'[g[t]] = sexps'[t]
        BY <1>1, <1>2, <2>1, <2>3, <2>4, <2>6 DEF Placed
    <2>8. ASSUME NEW t \in R!Holding', NEW u \in R!Holding', R!Before(t, u)'
          PROVE  g[t] < g[u]
        <3>1. t \in R!Holding
            BY <1>1, <2>2, <2>8
        <3>2. CASE u = s
            BY <1>1, <1>3, <2>3, <2>4, <3>1, <3>2
        <3>3. CASE u # s
            BY <1>1, <2>1, <2>2, <2>3, <2>8, <3>1, <3>3 DEF Placed
        <3> QED BY <3>2, <3>3
    <2> HIDE DEF g
    <2> QED BY <2>5, <2>7, <2>8 DEF Placed
<1> QED BY <1>1, <1>4, <1>5, <1>6 DEF SexpInv

-----------------------------------------------------------------------------
\* Holders that stay keep their places.
LEMMA StayersKeepPlaces ==
    ASSUME SexpInv, NEW f \in [R!Holding -> DOMAIN protected], Placed(f),
           R!Holding' \subseteq R!Holding,
           \A t \in R!Holding' : sexps'[t] = sexps[t],
           \A t, u \in R!Holding' : R!Before(t, u)' => R!Before(t, u),
           \A t \in R!Holding' : f[t] \in DOMAIN protected' /\ protected'[f[t]] = protected[f[t]]
    PROVE  HoldersPlaced'
<1> DEFINE g == [t \in R!Holding' |-> f[t]]
<1>1. g \in [R!Holding' -> DOMAIN protected'] /\ \A t \in R!Holding' : g[t] = f[t]
    OBVIOUS
<1> HIDE DEF g
<1>2. /\ \A t \in R!Holding' : protected'[g[t]] = sexps'[t]
      /\ \A t, u \in R!Holding' : R!Before(t, u)' => g[t] < g[u]
    BY <1>1 DEF Placed
<1> QED BY <1>1, <1>2 DEF HoldersPlaced, Placed

\* A holder that takes the value of the last one takes its place.
LEMMA MovedKeepsPlace ==
    ASSUME SexpInv, NEW f \in [R!Holding -> DOMAIN protected], Placed(f),
           NEW t \in R!Holding, NEW s \in Locals \ R!Holding,
           R!Holding' = (R!Holding \ {t}) \cup {s},
           sexps'[s] = sexps[t], \A u \in R!Holding \ {t} : sexps'[u] = sexps[u],
           \A u, w \in R!Holding : R!Before(u, w)' => R!Before(u, w),
           \A u \in R!Holding \ {t} : ~R!Before(t, u) /\ ~R!Before(s, u)',
           ~R!Before(s, s)',
           protected' = protected
    PROVE  HoldersPlaced'
<1> DEFINE g == [u \in R!Holding' |-> IF u = s THEN f[t] ELSE f[u]]
<1>1. /\ g \in [R!Holding' -> DOMAIN protected'] /\ g[s] = f[t]
      /\ \A u \in R!Holding \ {t} : g[u] = f[u]
    OBVIOUS
<1> HIDE DEF g
<1>2. \A u \in R!Holding' : protected'[g[u]] = sexps'[u]
    BY <1>1 DEF Placed
<1>3. ASSUME NEW u \in R!Holding', NEW w \in R!Holding', R!Before(u, w)'
      PROVE  g[u] < g[w]
    <2>1. u # s /\ u \in R!Holding \ {t}
        BY <1>3
    <2>2. CASE w = s
        <3>1. R!Before(u, t)
            BY <2>1, OneIsBefore DEF SexpInv, R!Holding
        <3> QED BY <1>1, <2>1, <2>2, <3>1 DEF Placed
    <2>3. CASE w # s
        BY <1>1, <1>3, <2>1, <2>3 DEF Placed
    <2> QED BY <2>2, <2>3
<1> QED BY <1>1, <1>2, <1>3 DEF HoldersPlaced, Placed

\* Below the place of the last holder are those of all others.
LEMMA LastIsHighest ==
    ASSUME SexpInv, NEW f \in [R!Holding -> DOMAIN protected], Placed(f),
           NEW s \in R!Holding, \A u \in R!Holding \ {s} : ~R!Before(s, u)
    PROVE  \A u \in R!Holding \ {s} : f[u] \in 1 .. Len(protected) - 1
<1> SUFFICES ASSUME NEW u \in R!Holding \ {s}
             PROVE  f[u] \in 1 .. Len(protected) - 1
    OBVIOUS
<1>1. R!Before(u, s)
    BY OneIsBefore DEF SexpInv, R!Holding
<1>2. f[u] < f[s]
    BY <1>1 DEF Placed
<1>3. Len(protected) \in Nat /\ f[u] \in 1 .. Len(protected) /\ f[s] \in 1 .. Len(protected)
    BY SomethingToPop DEF SexpInv
<1> QED BY <1>2, <1>3

LEMMA MoveConstructKeeps ==
    ASSUME SexpInv, NEW s \in Locals, NEW t \in Locals, R!MoveConstruct(s, t)
    PROVE  SexpInv'
<1>0. /\ s \in Locals \ R!Living /\ t \in R!Living /\ s # t /\ s \notin R!Holding
      /\ order' = Append(order, s)
      /\ protected' = protected /\ released' = released
    BY DEF R!MoveConstruct, R!Holding
<1>1. \A u \in Locals : sexps'[u] = IF u = t THEN NULL ELSE IF u = s THEN sexps[t] ELSE sexps[u]
    BY <1>0 DEF R!MoveConstruct, SexpInv, R!TypeOK
<1>2. /\ order' \in Seq(Locals) /\ R!Living' = R!Living \cup {s}
      /\ \A i, j \in DOMAIN order' : order'[i] = order'[j] => i = j
      /\ \A u, w \in R!Living : R!Before(u, w)' => R!Before(u, w)
      /\ \A u \in R!Living' : ~R!Before(s, u)'
    BY <1>0, NewIsLast DEF SexpInv
<1>3. R!TypeOK'
    BY <1>0, <1>2 DEF R!MoveConstruct, R!Passes, SexpInv, R!TypeOK
<1>4. Distinct'
    BY <1>0, <1>1, <1>2 DEF SexpInv, Distinct
<1>5. R!Holding' = IF t \in R!Holding THEN (R!Holding \ {t}) \cup {s} ELSE R!Holding
    BY <1>0, <1>1, <1>2, SexpsFinite DEF SexpInv, R!Holding
<1>6. Cardinality(R!Holding') = Cardinality(R!Holding)
    <2>1. CASE t \in R!Holding
        <3>1. IsFiniteSet(R!Holding \ {t}) /\ Cardinality(R!Holding \ {t}) = Cardinality(R!Holding) - 1
            BY <2>1, SexpsFinite, FS_RemoveElement DEF SexpInv
        <3>2. Cardinality((R!Holding \ {t}) \cup {s}) = Cardinality(R!Holding \ {t}) + 1
            BY <1>0, <3>1, FS_AddElement
        <3> QED BY <1>5, <2>1, <3>1, <3>2, SexpsFinite DEF SexpInv
    <2>2. CASE t \notin R!Holding
        BY <1>5, <2>2
    <2> QED BY <2>1, <2>2
<1>7. R!Balanced'
    BY <1>0, <1>6, SameCardinality DEF SexpInv, R!Balanced
<1>8. HoldersPlaced'
    <2> SUFFICES ASSUME ~crossed'
                 PROVE  HoldersPlaced'
        BY DEF HoldersPlaced
    <2>1. /\ ~crossed
          /\ t \in R!Holding => \A u \in R!Holding \ {s, t} : ~R!Before(t, u)
        BY DEF R!MoveConstruct, R!Passes
    <2>2. PICK f \in [R!Holding -> DOMAIN protected] : Placed(f)
        BY <2>1 DEF SexpInv, HoldersPlaced
    <2>3. \A u, w \in R!Holding : R!Before(u, w)' => R!Before(u, w)
        BY <1>2 DEF R!Holding
    <2>4. R!Holding \subseteq Locals /\ R!Holding \subseteq R!Living
        BY SexpsFinite DEF SexpInv, R!Holding
    <2>5. CASE t \in R!Holding
        <3>1. sexps'[s] = sexps[t] /\ \A u \in R!Holding \ {t} : sexps'[u] = sexps[u]
            BY <1>0, <1>1, <2>4
        <3>2. \A u \in R!Holding \ {t} : ~R!Before(t, u) /\ ~R!Before(s, u)'
            BY <1>0, <1>2, <2>1, <2>4, <2>5
        <3> QED BY <1>0, <1>2, <1>5, <2>2, <2>3, <2>5, <3>1, <3>2, MovedKeepsPlace
    <2>6. CASE t \notin R!Holding
        <3>1. R!Holding' = R!Holding /\ \A u \in R!Holding : sexps'[u] = sexps[u]
            BY <1>0, <1>1, <1>5, <2>4, <2>6
        <3> QED BY <1>0, <2>2, <2>3, <3>1, StayersKeepPlaces
    <2> QED BY <2>5, <2>6
<1> QED BY <1>3, <1>4, <1>7, <1>8 DEF SexpInv

\* Of a value that the other one passes and one that is let go.
LEMMA SexpMoveAssignKeeps ==
    ASSUME SexpInv, NEW s \in Locals, NEW t \in Locals, R!MoveAssign(s, t)
    PROVE  SexpInv'
<1>0. /\ s \in R!Living /\ t \in R!Living /\ order' = order /\ released' = released
      /\ protected' = IF s \in R!Holding THEN R!Rf_unprotect(protected) ELSE protected
      /\ R!Living' = R!Living
      /\ \A u, w : R!Before(u, w)' <=> R!Before(u, w)
    BY DEF R!MoveAssign, R!Unprotect, R!Holding, R!Living, R!Before
<1>1. \A u \in Locals : sexps'[u] = IF u = t THEN NULL ELSE IF u = s THEN sexps[t] ELSE sexps[u]
    BY DEF R!MoveAssign, SexpInv, R!TypeOK
<1>2. R!Holding' = IF t \in R!Holding /\ s # t THEN (R!Holding \ {t}) \cup {s} ELSE R!Holding \ {s}
    BY <1>0, <1>1, SexpsFinite DEF SexpInv, R!Holding
<1>3. s \in R!Holding =>
          /\ protected' \in Seq(Values) /\ Len(protected') = Len(protected) - 1
          /\ DOMAIN protected' = 1 .. Len(protected) - 1
          /\ \A i \in 1 .. Len(protected) - 1 : protected'[i] = protected[i]
    BY <1>0, SomethingToPop, WhatIsPopped DEF SexpInv
<1>4. R!TypeOK'
    BY <1>0, <1>3 DEF R!MoveAssign, R!Passes, SexpInv, R!TypeOK
<1>5. Distinct'
    BY <1>0, <1>1 DEF SexpInv, Distinct
<1>6. R!Balanced'
    <2>0. IsFiniteSet(R!Holding) /\ Cardinality(R!Holding) \in Nat /\ Len(protected) \in Nat
        BY SexpsFinite, SomethingToPop DEF SexpInv
    <2>1. /\ IsFiniteSet(R!Holding \ {t})
          /\ t \in R!Holding => Cardinality(R!Holding \ {t}) = Cardinality(R!Holding) - 1
        BY <2>0, FS_RemoveElement
    <2>2. Cardinality(R!Holding') = IF s \in R!Holding THEN Cardinality(R!Holding) - 1 ELSE Cardinality(R!Holding)
        <3>1. CASE t \in R!Holding /\ s # t /\ s \notin R!Holding
            <4>1. Cardinality((R!Holding \ {t}) \cup {s}) = Cardinality(R!Holding \ {t}) + 1
                BY <2>1, <3>1, FS_AddElement
            <4> QED BY <1>2, <2>0, <2>1, <3>1, <4>1
        <3>2. CASE t \in R!Holding /\ s # t /\ s \in R!Holding
            <4>1. R!Holding' = R!Holding \ {t}
                BY <1>2, <3>2
            <4> QED BY <2>1, <3>2, <4>1
        <3>3. CASE ~(t \in R!Holding /\ s # t) /\ s \in R!Holding
            BY <1>2, <2>0, <3>3, FS_RemoveElement
        <3>4. CASE ~(t \in R!Holding /\ s # t) /\ s \notin R!Holding
            <4>1. R!Holding' = R!Holding
                BY <1>2, <3>4
            <4> QED BY <3>4, <4>1
        <3> QED BY <3>1, <3>2, <3>3, <3>4
    <2>3. Len(protected') = IF s \in R!Holding THEN Len(protected) - 1 ELSE Len(protected)
        BY <1>0, <1>3
    <2>4. released \in Nat
        BY BindingsAssumption DEF SexpInv, R!TypeOK
    <2> QED BY <1>0, <2>0, <2>2, <2>3, <2>4, SameCardinality DEF SexpInv, R!Balanced
<1>7. HoldersPlaced'
    <2> SUFFICES ASSUME ~crossed'
                 PROVE  HoldersPlaced'
        BY DEF HoldersPlaced
    <2>1. /\ ~crossed
          /\ ~(s # t /\ {s, t} \subseteq R!Holding)
          /\ {s, t} \cap R!Holding # {} =>
                \A u \in R!Holding \ {s, t} : ~R!Before(s, u) /\ ~R!Before(t, u)
        BY DEF R!MoveAssign, R!Passes
    <2>2. PICK f \in [R!Holding -> DOMAIN protected] : Placed(f)
        BY <2>1 DEF SexpInv, HoldersPlaced
    <2>3. R!Holding \subseteq Locals
        BY SexpsFinite DEF SexpInv, R!Holding
    <2>4. CASE s \in R!Holding
        <3>1. R!Holding' = R!Holding \ {s} /\ \A u \in R!Holding' : sexps'[u] = sexps[u]
            BY <1>1, <1>2, <2>1, <2>3, <2>4
        <3>2. \A u \in R!Holding \ {s} : f[u] \in 1 .. Len(protected) - 1
            BY <2>1, <2>2, <2>4, LastIsHighest
        <3>3. \A u \in R!Holding' : f[u] \in DOMAIN protected' /\ protected'[f[u]] = protected[f[u]]
            BY <1>3, <2>4, <3>1, <3>2
        <3> QED BY <1>0, <2>2, <3>1, <3>3, StayersKeepPlaces
    <2>5. CASE s \notin R!Holding /\ t \in R!Holding
        <3>1. R!Holding' = (R!Holding \ {t}) \cup {s} /\ sexps'[s] = sexps[t]
            BY <1>1, <1>2, <2>5
        <3>2. \A u \in R!Holding \ {t} : sexps'[u] = sexps[u]
            BY <1>1, <2>3, <2>5
        <3>3. \A u \in R!Holding \ {t} : ~R!Before(t, u) /\ ~R!Before(s, u)'
            BY <1>0, <2>1, <2>5
        <3>4. ~R!Before(s, s)'
            BY <1>0, SexpsFinite DEF SexpInv, Distinct, R!Before
        <3> QED BY <1>0, <2>2, <2>5, <3>1, <3>2, <3>3, <3>4, MovedKeepsPlace
    <2>6. CASE s \notin R!Holding /\ t \notin R!Holding
        <3>1. R!Holding' = R!Holding /\ \A u \in R!Holding : sexps'[u] = sexps[u]
            BY <1>1, <1>2, <2>3, <2>6
        <3> QED BY <1>0, <2>2, <2>6, <3>1, StayersKeepPlaces
    <2> QED BY <2>4, <2>5, <2>6
<1> QED BY <1>4, <1>5, <1>6, <1>7 DEF SexpInv

LEMMA SexpDestroyKeeps ==
    ASSUME SexpInv, R!Destroy
    PROVE  SexpInv'
<1> DEFINE s == order[Len(order)]
<1>1. s \in R!Living /\ Len(order) \in DOMAIN order /\ \A t \in R!Living : ~R!Before(s, t)
    BY LastMade DEF SexpInv, R!Destroy
<1>2. Len(order) \in Nat /\ DOMAIN order = 1 .. Len(order) /\ R!Living \subseteq Locals
    BY SexpsFinite DEF SexpInv
<1>3. /\ order' \in Seq(Locals) /\ DOMAIN order' = 1 .. Len(order) - 1
      /\ \A i \in 1 .. Len(order) - 1 : order'[i] = order[i]
    <2> DEFINE n == Len(order) - 1
    <2>1. n \in Nat /\ \A i \in 1 .. n : order[i] \in Locals
        BY <1>1, <1>2, SexpsFinite DEF SexpInv
    <2>2. order' = SubSeq(order, 1, n)
        BY DEF R!Destroy
    <2> HIDE DEF n
    <2>3. /\ order' \in Seq(Locals)
          /\ Len(order') = IF 1 <= n THEN n - 1 + 1 ELSE 0
          /\ \A i \in 1 .. n - 1 + 1 : order'[i] = order[1 + i - 1]
        BY <2>1, <2>2, SubSeqProperties
    <2>4. Len(order') = n
        BY <2>1, <2>3
    <2>5. DOMAIN order' = 1 .. n
        BY <2>3, <2>4, LenProperties
    <2>6. \A i \in 1 .. n : order'[i] = order[i]
        BY <2>1, <2>3
    <2> QED BY <2>3, <2>5, <2>6 DEF n
<1>4. /\ protected' = IF s \in R!Holding THEN R!Rf_unprotect(protected) ELSE protected
      /\ released' = released /\ crossed' = crossed
    BY <1>1 DEF R!Destroy, R!Unprotect, R!Holding
<1>5. \A u \in Locals : sexps'[u] = IF u = s THEN NULL ELSE sexps[u]
    BY DEF R!Destroy, SexpInv, R!TypeOK
<1> HIDE DEF s
<1>6. R!Living' = R!Living \ {s}
    <2>1. \A i \in DOMAIN order : order[i] = s <=> i = Len(order)
        BY <1>1 DEF s, SexpInv, Distinct
    <2> QED BY <1>1, <1>2, <1>3, <2>1 DEF R!Living
<1>7. \A u, w : R!Before(u, w)' => R!Before(u, w)
    BY <1>2, <1>3 DEF R!Before
<1>8. R!Holding' = R!Holding \ {s}
    BY <1>1, <1>2, <1>5, <1>6 DEF R!Holding
<1>9. s \in R!Holding =>
          /\ protected' \in Seq(Values) /\ Len(protected') = Len(protected) - 1
          /\ DOMAIN protected' = 1 .. Len(protected) - 1
          /\ \A i \in 1 .. Len(protected) - 1 : protected'[i] = protected[i]
    BY <1>4, SomethingToPop, WhatIsPopped DEF SexpInv
<1>10. R!TypeOK'
    <2>1. sexps' \in [Locals -> Values \cup {NULL}]
        BY DEF R!Destroy, SexpInv, R!TypeOK
    <2> QED BY <1>3, <1>4, <1>9, <2>1 DEF SexpInv, R!TypeOK
<1>11. Distinct'
    <2>1. \A i, j \in DOMAIN order' : order'[i] = order'[j] => i = j
        BY <1>2, <1>3 DEF SexpInv, Distinct
    <2>2. \A u \in Locals \ R!Living' : sexps'[u] = NULL
        BY <1>5, <1>6 DEF SexpInv, Distinct
    <2> QED BY <2>1, <2>2 DEF Distinct
<1>12. R!Balanced'
    <2>1. IsFiniteSet(R!Holding) /\ Cardinality(R!Holding) \in Nat /\ Len(protected) \in Nat
        BY SexpsFinite, SomethingToPop DEF SexpInv
    <2>2. Cardinality(R!Holding') = IF s \in R!Holding THEN Cardinality(R!Holding) - 1 ELSE Cardinality(R!Holding)
        BY <1>8, <2>1, FS_RemoveElement
    <2>3. Len(protected') = IF s \in R!Holding THEN Len(protected) - 1 ELSE Len(protected)
        BY <1>4, <1>9
    <2>4. released \in Nat
        BY BindingsAssumption DEF SexpInv, R!TypeOK
    <2> QED BY <1>4, <2>1, <2>2, <2>3, <2>4, SameCardinality DEF SexpInv, R!Balanced
<1>13. HoldersPlaced'
    <2> SUFFICES ASSUME ~crossed
                 PROVE  HoldersPlaced'
        BY <1>4 DEF HoldersPlaced
    <2>1. PICK f \in [R!Holding -> DOMAIN protected] : Placed(f)
        BY DEF SexpInv, HoldersPlaced
    <2>2. \A u \in R!Holding' : sexps'[u] = sexps[u]
        BY <1>2, <1>5, <1>8 DEF R!Holding
    <2>3. \A u \in R!Holding' : f[u] \in DOMAIN protected' /\ protected'[f[u]] = protected[f[u]]
        <3>1. CASE s \in R!Holding
            <4>1. \A u \in R!Holding \ {s} : f[u] \in 1 .. Len(protected) - 1
                BY <1>1, <2>1, <3>1, LastIsHighest DEF R!Holding
            <4> QED BY <1>8, <1>9, <3>1, <4>1
        <3>2. CASE s \notin R!Holding
            BY <1>4, <1>8, <2>1, <3>2
        <3> QED BY <3>1, <3>2
    <2> QED BY <1>7, <1>8, <2>1, <2>2, <2>3, StayersKeepPlaces
<1> QED BY <1>10, <1>11, <1>12, <1>13 DEF SexpInv

LEMMA SexpReleaseKeeps ==
    ASSUME SexpInv, NEW s \in Locals, R!Release(s)
    PROVE  SexpInv'
<1>0. /\ s \in R!Holding /\ released' = released + 1 /\ released < MaxReleased
      /\ order' = order /\ protected' = protected /\ crossed' = crossed
      /\ R!Living' = R!Living /\ \A u, w : R!Before(u, w)' <=> R!Before(u, w)
    BY DEF R!Release, R!Living, R!Before
<1>1. \A u \in Locals : sexps'[u] = IF u = s THEN NULL ELSE sexps[u]
    BY DEF R!Release, SexpInv, R!TypeOK
<1>2. R!Holding' = R!Holding \ {s} /\ R!Holding \subseteq Locals
    BY <1>0, <1>1, SexpsFinite DEF SexpInv, R!Holding
<1>3. R!TypeOK'
    <2>1. sexps' \in [Locals -> Values \cup {NULL}]
        BY DEF R!Release, SexpInv, R!TypeOK
    <2>2. released' \in 0 .. MaxReleased
        BY <1>0, BindingsAssumption DEF SexpInv, R!TypeOK
    <2> QED BY <1>0, <2>1, <2>2 DEF SexpInv, R!TypeOK
<1>4. Distinct'
    BY <1>0, <1>1 DEF SexpInv, Distinct
<1>5. R!Balanced'
    <2>1. IsFiniteSet(R!Holding) /\ Cardinality(R!Holding) \in Nat /\ released \in Nat
        BY SexpsFinite, BindingsAssumption DEF SexpInv, R!TypeOK
    <2>2. Cardinality(R!Holding') = Cardinality(R!Holding) - 1
        BY <1>0, <1>2, <2>1, FS_RemoveElement
    <2> QED BY <1>0, <2>1, <2>2, SameCardinality DEF SexpInv, R!Balanced
<1>6. HoldersPlaced'
    <2> SUFFICES ASSUME ~crossed
                 PROVE  HoldersPlaced'
        BY <1>0 DEF HoldersPlaced
    <2>1. PICK f \in [R!Holding -> DOMAIN protected] : Placed(f)
        BY DEF SexpInv, HoldersPlaced
    <2>2. \A u \in R!Holding' : sexps'[u] = sexps[u]
        BY <1>1, <1>2
    <2> QED BY <1>0, <1>2, <2>1, <2>2, StayersKeepPlaces
<1> QED BY <1>3, <1>4, <1>5, <1>6 DEF SexpInv

\* A caller unprotects what may be a holder's: the order is left unless
\* there is none.
LEMMA CallerUnprotectsKeeps ==
    ASSUME SexpInv, R!CallerUnprotects
    PROVE  SexpInv'
<1>0. /\ released > 0 /\ released' = released - 1 /\ protected' = R!Rf_unprotect(protected)
      /\ order' = order /\ sexps' = sexps /\ R!Holding' = R!Holding /\ R!Living' = R!Living
      /\ \A u, w : R!Before(u, w)' <=> R!Before(u, w)
      /\ crossed' = (crossed \/ R!Holding # {})
    BY DEF R!CallerUnprotects, R!Holding, R!Living, R!Before
<1>1. /\ protected' \in Seq(Values) /\ Len(protected') = Len(protected) - 1
      /\ Len(protected) \in Nat
    BY <1>0, SomethingToPop, WhatIsPopped DEF SexpInv
<1>2. released \in 0 .. MaxReleased
    BY DEF SexpInv, R!TypeOK
<1>3. R!TypeOK'
    <2>1. released' \in 0 .. MaxReleased
        BY <1>0, <1>2, BindingsAssumption
    <2> QED BY <1>0, <1>1, <2>1 DEF SexpInv, R!TypeOK
<1>4. Distinct'
    BY <1>0 DEF SexpInv, Distinct
<1>5. R!Balanced'
    BY <1>0, <1>1, <1>2, SexpsFinite, BindingsAssumption, SameCardinality DEF SexpInv, R!Balanced
<1>6. HoldersPlaced'
    <2> SUFFICES ASSUME ~crossed, R!Holding = {}
                 PROVE  HoldersPlaced'
        BY <1>0 DEF HoldersPlaced
    <2>1. PICK f \in [R!Holding -> DOMAIN protected] : Placed(f)
        BY DEF SexpInv, HoldersPlaced
    <2> QED BY <1>0, <2>1, StayersKeepPlaces
<1> QED BY <1>3, <1>4, <1>5, <1>6 DEF SexpInv

LEMMA NextSexpInv == SexpInv /\ [R!Next]_(R!vars) => SexpInv'
<1> SUFFICES ASSUME SexpInv, [R!Next]_(R!vars) PROVE SexpInv'
    OBVIOUS
<1>1. CASE \E s \in Locals : R!Default(s) \/ R!Release(s)
    BY <1>1, DefaultKeeps, SexpReleaseKeeps
<1>2. CASE \E s \in Locals, v \in Values : R!Protect(s, v)
    BY <1>2, ProtectKeeps
<1>3. CASE \E s, t \in Locals : R!MoveConstruct(s, t) \/ R!MoveAssign(s, t)
    BY <1>3, MoveConstructKeeps, SexpMoveAssignKeeps
<1>4. CASE R!Destroy \/ R!CallerUnprotects
    BY <1>4, SexpDestroyKeeps, CallerUnprotectsKeeps
<1>5. CASE UNCHANGED R!vars
    <2>1. /\ order' = order /\ sexps' = sexps /\ protected' = protected
          /\ released' = released /\ crossed' = crossed
        BY <1>5 DEF R!vars
    <2>2. R!Living' = R!Living /\ R!Holding' = R!Holding /\ \A u, w : R!Before(u, w)' <=> R!Before(u, w)
        BY <2>1 DEF R!Living, R!Holding, R!Before
    <2>3. R!TypeOK' /\ Distinct' /\ R!Balanced'
        BY <2>1, <2>2 DEF SexpInv, R!TypeOK, Distinct, R!Balanced
    <2>4. HoldersPlaced'
        BY <2>1, <2>2 DEF SexpInv, HoldersPlaced, Placed
    <2> QED BY <2>3, <2>4 DEF SexpInv
<1> QED BY <1>1, <1>2, <1>3, <1>4, <1>5 DEF R!Next

\* Places of a stack that differ for different holders are at least as many
\* as there are holders.
LEMMA PlacedAreProtected == SexpInv => R!Protection
<1> SUFFICES ASSUME SexpInv, ~crossed, NEW v \in Values
             PROVE  Cardinality({s \in R!Holding : sexps[s] = v})
                       =< Cardinality({i \in DOMAIN protected : protected[i] = v})
    BY SameCardinality DEF SexpInv, R!Protection, R!HeldAreProtected
<1>1. PICK f \in [R!Holding -> DOMAIN protected] : Placed(f)
    BY DEF SexpInv, HoldersPlaced
<1> DEFINE S == {s \in R!Holding : sexps[s] = v}
           T == {i \in DOMAIN protected : protected[i] = v}
           g == [s \in S |-> f[s]]
<1>2. g \in [S -> T]
    BY <1>1 DEF Placed
<1>3. ASSUME NEW s \in S, NEW t \in S, s # t
      PROVE  g[s] # g[t]
    <2>1. s \in R!Living /\ t \in R!Living /\ s \in R!Holding /\ t \in R!Holding
        BY DEF R!Holding
    <2>2. R!Before(s, t) \/ R!Before(t, s)
        BY <1>3, <2>1, OneIsBefore DEF SexpInv
    <2>3. f[s] < f[t] \/ f[t] < f[s]
        BY <1>1, <2>1, <2>2 DEF Placed
    <2>4. f[s] \in Nat /\ f[t] \in Nat
        BY <1>1, <2>1, SomethingToPop DEF SexpInv
    <2> QED BY <2>3, <2>4
<1>4. g \in Injection(S, T)
    BY <1>2, <1>3 DEF Injection, IsInjective
<1>5. IsFiniteSet(T)
    <2>1. IsFiniteSet(DOMAIN protected) /\ T \in SUBSET DOMAIN protected
        BY SomethingToPop, FS_Interval DEF SexpInv
    <2> QED BY <2>1, FS_Subset
<1> QED BY <1>4, <1>5, FS_Injection

-----------------------------------------------------------------------------
(* Streams: scope_exit and the printing of dates *)


Owns(g) == kind[g] # "lvalue"

\* The two function pointers are set exactly while there is something to do.
Armed(g) == phase[g] \in {"live", "gone"} /\ g \notin letGo

MembersFit ==
    \A g \in Guards :
        /\ phase[g] \in {"none", "failed"} => ~call[g] /\ ~del[g] /\ g \notin letGo
        /\ Armed(g) => call[g] /\ (del[g] <=> Owns(g))
        /\ g \in letGo => ~call[g] /\ ~del[g]

StreamFits ==
    /\ printing # "no" =>
          /\ phase[guard] = "live" /\ guard \notin letGo
          /\ saved = users
    /\ printing # "filled" => fill = users

ScopeInv ==
    /\ X!TypeOK /\ MembersFit /\ StreamFits
    /\ X!InvokedOnce /\ X!DestroyedOnce /\ X!OnlyBlocksAreLost

LEMMA ScopeInit == X!Init => ScopeInv
BY DEF X!Init, ScopeInv, X!TypeOK, MembersFit, StreamFits, X!InvokedOnce, X!DestroyedOnce,
       X!OnlyBlocksAreLost, Armed, Owns, X!Kinds

\* What the steps of a guard keep, whoever makes them.
GuardInv == MembersFit /\ X!InvokedOnce /\ X!DestroyedOnce /\ X!OnlyBlocksAreLost

GuardTypes ==
    /\ phase \in [Guards -> {"none", "live", "gone", "failed"}]
    /\ kind \in [Guards -> X!Kinds]
    /\ call \in [Guards -> BOOLEAN] /\ del \in [Guards -> BOOLEAN]
    /\ calls \in [Guards -> Nat] /\ ends \in [Guards -> Nat]
    /\ blocks \subseteq Guards /\ letGo \subseteq Guards

LEMMA GuardConstructKeeps ==
    ASSUME GuardTypes, GuardInv, NEW g \in Guards, X!Construct(g)
    PROVE  GuardTypes' /\ GuardInv'
<1>1. GuardTypes'
    BY DEF GuardTypes, X!Construct
<1>2. MembersFit'
    BY DEF GuardTypes, GuardInv, X!Construct, MembersFit, Armed, Owns
<1>3. X!InvokedOnce' /\ X!DestroyedOnce'
    BY DEF GuardTypes, GuardInv, X!Construct, X!InvokedOnce, X!DestroyedOnce
<1>4. X!OnlyBlocksAreLost'
    BY DEF GuardTypes, GuardInv, X!Construct, X!OnlyBlocksAreLost
<1> QED BY <1>1, <1>2, <1>3, <1>4 DEF GuardInv

LEMMA GuardThrowsKeeps ==
    ASSUME GuardTypes, GuardInv, NEW g \in Guards, X!ConstructThrows(g)
    PROVE  GuardTypes' /\ GuardInv'
<1>1. GuardTypes'
    BY DEF GuardTypes, X!ConstructThrows
<1>2. MembersFit'
    BY DEF GuardTypes, GuardInv, X!ConstructThrows, MembersFit, Armed, Owns
<1>3. X!InvokedOnce' /\ X!DestroyedOnce'
    BY DEF GuardTypes, GuardInv, X!ConstructThrows, X!InvokedOnce, X!DestroyedOnce
<1>4. X!OnlyBlocksAreLost'
    BY DEF GuardTypes, GuardInv, X!ConstructThrows, X!OnlyBlocksAreLost
<1> QED BY <1>1, <1>2, <1>3, <1>4 DEF GuardInv

LEMMA GuardDestroyKeeps ==
    ASSUME GuardTypes, GuardInv, NEW g \in Guards, X!Destroy(g)
    PROVE  GuardTypes' /\ GuardInv'
<1>1. GuardTypes'
    BY DEF GuardTypes, X!Destroy, X!Deleted
<1>2. MembersFit'
    BY DEF GuardTypes, GuardInv, X!Destroy, MembersFit, Armed, Owns
<1>3. X!InvokedOnce'
    BY DEF GuardTypes, GuardInv, X!Destroy, X!InvokedOnce, MembersFit, Armed
<1>4. X!DestroyedOnce'
    BY DEF GuardTypes, GuardInv, X!Destroy, X!Deleted, X!DestroyedOnce, MembersFit, Armed, Owns
<1>5. X!OnlyBlocksAreLost'
    BY DEF GuardTypes, GuardInv, X!Destroy, X!OnlyBlocksAreLost
<1> QED BY <1>1, <1>2, <1>3, <1>4, <1>5 DEF GuardInv

LEMMA GuardReleaseKeeps ==
    ASSUME GuardTypes, GuardInv, NEW g \in Guards, X!Release(g)
    PROVE  GuardTypes' /\ GuardInv'
<1>1. GuardTypes'
    BY DEF GuardTypes, X!Release, X!Deleted
<1>2. MembersFit'
    BY DEF GuardTypes, GuardInv, X!Release, MembersFit, Armed, Owns
<1>3. X!InvokedOnce'
    BY DEF GuardTypes, GuardInv, X!Release, X!InvokedOnce
<1>4. X!DestroyedOnce'
    BY DEF GuardTypes, GuardInv, X!Release, X!Deleted, X!DestroyedOnce, MembersFit, Armed, Owns
<1>5. X!OnlyBlocksAreLost'
    BY DEF GuardTypes, GuardInv, X!Release, X!OnlyBlocksAreLost
<1> QED BY <1>1, <1>2, <1>3, <1>4, <1>5 DEF GuardInv

\* And the stream's variables.
StreamTypes ==
    /\ printing \in {"no", "guarded", "filled"} /\ guard \in Guards
    /\ {fill, saved, users} \subseteq Fills \cup {"0"}

LEMMA ScopeStep == ScopeInv /\ [X!Next]_(X!vars) => ScopeInv'
<1> SUFFICES ASSUME ScopeInv, [X!Next]_(X!vars) PROVE ScopeInv'
    OBVIOUS
<1>0. /\ GuardTypes /\ GuardInv /\ StreamTypes /\ StreamFits
      /\ GuardTypes' /\ GuardInv' /\ StreamTypes' /\ StreamFits' => ScopeInv'
    BY DEF ScopeInv, X!TypeOK, GuardTypes, GuardInv, StreamTypes
<1>1. ASSUME NEW g \in Guards, X!Guard(g) PROVE ScopeInv'
    <2>1. GuardTypes' /\ GuardInv'
        BY <1>0, <1>1, GuardConstructKeeps DEF X!Guard
    <2>2. StreamTypes'
        BY <1>0, <1>1 DEF X!Guard, StreamTypes
    <2>3. g \notin letGo /\ phase'[g] = "live" /\ letGo' = letGo
        BY <1>0, <1>1 DEF X!Guard, X!Construct, GuardTypes, GuardInv, MembersFit
    <2>4. StreamFits'
        BY <1>0, <1>1, <2>3 DEF X!Guard, StreamTypes, StreamFits
    <2> QED BY <1>0, <2>1, <2>2, <2>4
<1>2. ASSUME NEW g \in Guards, X!GuardThrows(g) PROVE ScopeInv'
    <2>1. GuardTypes' /\ GuardInv'
        BY <1>0, <1>2, GuardThrowsKeeps DEF X!GuardThrows
    <2>2. StreamTypes' /\ StreamFits'
        BY <1>0, <1>2 DEF X!GuardThrows, X!stream, StreamTypes, StreamFits
    <2> QED BY <1>0, <2>1, <2>2
<1>3. CASE X!SetFill
    <2>1. GuardTypes' /\ GuardInv'
        BY <1>0, <1>3 DEF X!SetFill, X!guards, GuardTypes, GuardInv, MembersFit, Armed, Owns,
                          X!InvokedOnce, X!DestroyedOnce, X!OnlyBlocksAreLost
    <2>2. StreamTypes' /\ StreamFits'
        BY <1>0, <1>3 DEF X!SetFill, X!guards, StreamTypes, StreamFits
    <2> QED BY <1>0, <2>1, <2>2
<1>4. CASE X!Leave
    <2>1. guard \in Guards /\ X!Destroy(guard)
        BY <1>0, <1>4 DEF X!Leave, StreamTypes
    <2>2. GuardTypes' /\ GuardInv'
        BY <1>0, <2>1, GuardDestroyKeeps
    <2>3. call[guard] /\ fill' = users
        BY <1>0, <1>4, <2>1 DEF X!Leave, GuardInv, MembersFit, Armed, StreamFits
    <2>4. StreamTypes' /\ StreamFits'
        BY <1>0, <1>4, <2>3 DEF X!Leave, StreamTypes, StreamFits
    <2> QED BY <1>0, <2>2, <2>4
<1>5. CASE X!UserSetsFill
    <2>1. GuardTypes' /\ GuardInv'
        BY <1>0, <1>5 DEF X!UserSetsFill, X!guards, GuardTypes, GuardInv, MembersFit, Armed, Owns,
                          X!InvokedOnce, X!DestroyedOnce, X!OnlyBlocksAreLost
    <2>2. StreamTypes' /\ StreamFits'
        BY <1>0, <1>5 DEF X!UserSetsFill, StreamTypes, StreamFits
    <2> QED BY <1>0, <2>1, <2>2
<1>6. ASSUME NEW g \in Guards, X!Other(g), UNCHANGED X!stream,
             X!Construct(g) \/ X!ConstructThrows(g) \/ X!Destroy(g) \/ X!Release(g)
      PROVE  ScopeInv'
    <2>1. GuardTypes' /\ GuardInv'
        BY <1>0, <1>6, GuardConstructKeeps, GuardThrowsKeeps, GuardDestroyKeeps, GuardReleaseKeeps
    <2>2. StreamTypes'
        BY <1>0, <1>6 DEF X!stream, StreamTypes
    <2>3. printing # "no" => phase'[guard] = phase[guard] /\ (guard \in letGo' <=> guard \in letGo)
        BY <1>0, <1>6 DEF X!Other, X!Construct, X!ConstructThrows, X!Destroy, X!Release, GuardTypes, StreamTypes
    <2>4. StreamFits'
        BY <1>0, <1>6, <2>3 DEF X!stream, StreamFits
    <2> QED BY <1>0, <2>1, <2>2, <2>4
<1>7. CASE UNCHANGED X!vars
    BY <1>0, <1>7 DEF X!vars, X!guards, X!stream, GuardTypes, GuardInv, StreamTypes, StreamFits, MembersFit,
                      Armed, Owns, X!InvokedOnce, X!DestroyedOnce, X!OnlyBlocksAreLost
<1> QED BY <1>1, <1>2, <1>3, <1>4, <1>5, <1>6, <1>7 DEF X!Next

-----------------------------------------------------------------------------
(* The three side by side *)

LEMMA StepsOfEach ==
    [BindingsNext]_bindings => [Next]_vars /\ [R!Next]_(R!vars) /\ [X!Next]_(X!vars)
BY DEF BindingsNext, bindings, vars, r, stream, R!vars, X!vars, X!guards, X!stream

LEMMA InitOfEach == BindingsInit => Init /\ R!Init /\ X!Init
BY DEF BindingsInit

\* Handles, counts and Python's own references stay of their types, for any
\* number of handles and objects (python.h:108-190).
THEOREM TypeCorrect == BindingsSpec => []TypeOK
<1>1. IInv => TypeOK
    BY DEF IInv
<1> QED BY InitOfEach, StepsOfEach, InitIInv, NextIInv, <1>1, PTL DEF BindingsSpec

\* Through any sequence of constructions, copies, moves, assignments and
\* destructions an object is counted once per holder, and is freed exactly when
\* it has none, unless it was counted again after it was freed
\* (python.h:126-183).
THEOREM CountsRight == BindingsSpec => []CountsAreHolders
<1>1. IInv => CountsAreHolders
    BY DEF IInv
<1> QED BY InitOfEach, StepsOfEach, InitIInv, NextIInv, <1>1, PTL DEF BindingsSpec

\* Freed memory is counted again by no step but the assignment of a sole handle
\* to one of its own object, that is to itself; otherwise objects live exactly
\* as long as they are held (python.h:126-183).
THEOREM LivesAreRight == BindingsSpec => ObjectsLiveWhileHeld
<1>1. IInv => TypeOK /\ CountsAreHolders
    BY DEF IInv
<1>2. IInv /\ [Next]_vars =>
        [\A o \in wild' \ wild :
            /\ refs[o] = 1 /\ o \notin freed
            /\ \E h \in Living \cap Living' : obj[h] = o /\ obj'[h] = o]_vars
    BY StepIsSelfCopy
<1> QED BY InitOfEach, StepsOfEach, InitIInv, NextIInv, <1>1, <1>2, PTL
        DEF BindingsSpec, ObjectsLiveWhileHeld, WildOnlyBySelfCopy

\* Whatever sexps are made, moved, assigned, released and destroyed, R's stack
\* holds one value for each holder and each value that was released, and as
\* long as no value has left the order of its holders every pop of the top
\* leaves what the others hold on the stack (r.h:50-134).
THEOREM ValuesAreProtected == BindingsSpec => []Protection
<1>1. SexpInv => Protection
    BY PlacedAreProtected DEF SexpInv, Protection
<1> QED BY InitOfEach, StepsOfEach, InitSexpInv, NextSexpInv, <1>1, PTL DEF BindingsSpec

\* Every callable runs exactly once unless it was released, is destroyed
\* exactly once and restores what it has captured: for any number of guards,
\* with exceptions at every point (scope_exit.h:56-138, date.cpp:403-419).
THEOREM ScopesAreUndone == BindingsSpec => []UndoneOnce
<1>1. ScopeInv => X!FillIsRestored
    BY DEF ScopeInv, StreamFits, X!FillIsRestored
<1>2. ScopeInv => UndoneOnce
    BY <1>1 DEF ScopeInv, UndoneOnce, X!UndoneOnce
<1> QED BY InitOfEach, StepsOfEach, ScopeInit, ScopeStep, <1>2, PTL DEF BindingsSpec

-----------------------------------------------------------------------------
(* Version information: who frees what new gave out *)

\* The constructor has an impl_type that nothing else points to, and data only
\* from where it was allocated to where it is handed over or freed.
UnderConstruction ==
    /\ pc = "idle" => new = None
    /\ pc # "idle" => new \in Addresses /\ target \in InfoObjects
    /\ pc \notin {"info", "root", "throw"} => data = None

InfoInv ==
    /\ InfoTypeOK
    /\ UnderConstruction
    /\ \A i \in DOMAIN info : info[i].data \in Addresses \cup {None}
    /\ OwnedOnce

LEMMA CellsAreCounted ==
    ASSUME NEW f \in Files
    PROVE  Len(f.cells) \in Nat /\ Lengths(Len(f.cells)) \subseteq 0 .. Len(f.cells)
<1>1. f.cells \in Seq(Nat)
    BY ConstantsAssumption
<1> QED BY <1>1, ConstantsAssumption

LEMMA SectionsAreSix == Len(Sections) = 6
BY DEF Sections

LEMMA InitInfoInv == InfoInit => InfoInv
<1> SUFFICES ASSUME InfoInit PROVE InfoInv
    OBVIOUS
<1>1. file \in Files /\ Len(file.cells) \in Nat
    BY CellsAreCounted DEF InfoInit
<1>2. written \in -1 .. Len(file.cells)
    BY <1>1 DEF InfoInit
<1>3. /\ moves \in 0 .. MaxMoves /\ platform \in Platforms
      /\ next \in 1 .. Len(Sections) + 1
    BY SectionsAreSix, ConstantsAssumption DEF InfoInit
<1>4. DOMAIN info \subseteq Addresses /\ impl \in [InfoObjects -> Addresses \cup {None}]
    BY DEF InfoInit
<1>5. InfoTypeOK
    BY <1>1, <1>2, <1>3, <1>4 DEF InfoInit, InfoTypeOK
<1>6. UnderConstruction
    BY DEF InfoInit, UnderConstruction
<1>7. \A o \in InfoObjects : impl[o] = None /\ Freed(o) = {}
    BY DEF InfoInit, Freed
<1>8. OwnedOnce
    BY <1>7 DEF InfoInit, OwnedOnce, Has
<1>9. \A i \in DOMAIN info : info[i].data \in Addresses \cup {None}
    BY DEF InfoInit
<1> QED BY <1>5, <1>6, <1>8, <1>9 DEF InfoInv

\* What an object frees: nothing, or its impl_type and what that points to.
LEMMA WhatIsFreed ==
    ASSUME InfoInv, NEW o \in InfoObjects
    PROVE  /\ Freed(o) \subseteq Addresses
           /\ impl[o] = None => Freed(o) = {}
           /\ impl[o] # None => /\ impl[o] \in Freed(o) /\ impl[o] \in DOMAIN info
                                /\ Freed(o) = {impl[o], info[impl[o]].data} \ {None}
BY ConstantsAssumption DEF InfoInv, InfoTypeOK, OwnedOnce, Has, Freed

\* Two objects do not have the same impl_type.
LEMMA ImplsDiffer ==
    ASSUME InfoInv, NEW o \in InfoObjects, NEW p \in InfoObjects, o # p, impl[o] # None
    PROVE  impl[o] # impl[p] /\ impl[o] # new
<1>1. impl[o] # new
    BY WhatIsFreed DEF InfoInv, OwnedOnce
<1>2. impl[o] # impl[p]
    BY WhatIsFreed DEF InfoInv, OwnedOnce, Has
<1> QED BY <1>1, <1>2

\* Where no pointer changes, the owners stay.
LEMMA PointersStay ==
    ASSUME InfoInv, UNCHANGED <<heap, impl, info, new, data>>
    PROVE  OwnedOnce' /\ \A i \in DOMAIN info' : info'[i].data \in Addresses \cup {None}
<1>1. \A o : Freed(o)' = Freed(o) /\ Has(o)' = Has(o)
    BY DEF Freed, Has
<1> QED BY <1>1 DEF InfoInv, OwnedOnce

\* What is allocated, by its owners.
LEMMA WhatIsAllocated ==
    ASSUME InfoInv, NEW x
    PROVE  x \in heap <=> \/ \E o \in InfoObjects : x \in Freed(o)
                          \/ x \in {new, data} \ {None}
<1>1. heap = (UNION {Freed(o) : o \in InfoObjects}) \cup ({new, data} \ {None})
    BY DEF InfoInv, OwnedOnce
<1> QED BY <1>1

\* An object takes over another's impl_type, or its own is freed.
LEMMA MoveIntoOwned ==
    ASSUME InfoInv, NEW a \in InfoObjects, NEW b \in InfoObjects, MoveInto(a, b)
    PROVE  InfoInv'
<1>1. impl' \in [InfoObjects -> Addresses \cup {None}]
    BY DEF MoveInto, InfoInv, InfoTypeOK
<1>2. \A o \in InfoObjects :
        impl'[o] = IF o = b THEN None ELSE IF o = a THEN impl[b] ELSE impl[o]
    BY DEF MoveInto, InfoInv, InfoTypeOK
<1>3. /\ DOMAIN info' = DOMAIN info \ {impl[a]}
      /\ \A j \in DOMAIN info' : info'[j] = info[j]
    BY DEF MoveInto, Erased
<1>4. ASSUME NEW o \in InfoObjects, impl'[o] # None
      PROVE  impl'[o] \in DOMAIN info' /\ info'[impl'[o]] = info[impl'[o]]
    <2>1. CASE o = a
        BY <2>1, <1>2, <1>3, <1>4, WhatIsFreed, ImplsDiffer
    <2>2. CASE o # a
        BY <2>2, <1>2, <1>3, <1>4, WhatIsFreed, ImplsDiffer
    <2> QED BY <2>1, <2>2
<1>5. \A o \in InfoObjects :
        Freed(o)' = IF o = b THEN {} ELSE IF o = a THEN Freed(b) ELSE Freed(o)
    BY <1>2, <1>4 DEF Freed
<1>6. new = None /\ data = None /\ new' = None /\ data' = None /\ pc' = "idle"
    BY DEF MoveInto, InfoInv, UnderConstruction, pointers
<1>7. \A x : x \in heap' <=> \E o \in InfoObjects : x \in Freed(o)'
    <2>1. \A x : x \in heap' <=> x \in heap /\ x \notin Freed(a)
        BY DEF MoveInto
    <2>2. \A x : x \in heap <=> \E o \in InfoObjects : x \in Freed(o)
        BY <1>6, WhatIsAllocated
    <2>3. \A o, p \in InfoObjects : o # p => Freed(o) \cap Freed(p) = {}
        BY WhatIsFreed DEF InfoInv, OwnedOnce, Has
    <2>4. ASSUME NEW x \in heap, x \notin Freed(a)
          PROVE  \E o \in InfoObjects : x \in Freed(o)'
        <3>1. PICK o \in InfoObjects : x \in Freed(o)
            BY <2>2, <2>4
        <3>2. CASE o = b
            BY <3>1, <3>2, <2>4, <1>5
        <3>3. CASE o # b
            BY <3>1, <3>3, <2>4, <1>5
        <3> QED BY <3>2, <3>3
    <2>5. ASSUME NEW o \in InfoObjects, NEW x \in Freed(o)'
          PROVE  x \in heap /\ x \notin Freed(a)
        <3>1. CASE o = b
            BY <3>1, <2>5, <1>5
        <3>2. CASE o = a /\ o # b
            BY <3>2, <2>5, <1>5, <2>2, <2>3
        <3>3. CASE o # a /\ o # b
            BY <3>3, <2>5, <1>5, <2>2, <2>3
        <3> QED BY <3>1, <3>2, <3>3
    <2> QED BY <2>1, <2>4, <2>5
<1>8. OwnedOnce'
    <2>1. \A o, p \in InfoObjects : o # p => Freed(o)' \cap Freed(p)' = {}
        BY <1>5, WhatIsFreed DEF InfoInv, OwnedOnce, Has
    <2>2. heap' = UNION {Freed(o)' : o \in InfoObjects}
        BY <1>7
    <2>3. \A o \in InfoObjects : {None} \cap Freed(o)' = {}
        BY <1>5, WhatIsFreed, ConstantsAssumption
    <2> QED BY <2>1, <2>2, <2>3, <1>4, <1>6 DEF OwnedOnce, Has
<1>9. InfoTypeOK'
    <2>1. moves' \in 0 .. MaxMoves
        BY ConstantsAssumption DEF MoveInto, InfoInv, InfoTypeOK
    <2>2. heap' \subseteq Addresses /\ DOMAIN info' \subseteq Addresses
        BY <1>3 DEF MoveInto, InfoInv, InfoTypeOK
    <2> QED BY <1>1, <2>1, <2>2
            DEF MoveInto, InfoInv, InfoTypeOK, files, pointers, reading
<1>10. UnderConstruction'
    BY <1>6 DEF UnderConstruction
<1>11. \A i \in DOMAIN info' : info'[i].data \in Addresses \cup {None}
    BY <1>3 DEF InfoInv
<1> QED BY <1>8, <1>9, <1>10, <1>11 DEF InfoInv

LEMMA DestroyOwned ==
    ASSUME InfoInv, NEW a \in InfoObjects, destroy(a)
    PROVE  InfoInv'
<1>1. impl' \in [InfoObjects -> Addresses \cup {None}]
    BY DEF destroy, InfoInv, InfoTypeOK
<1>2. \A o \in InfoObjects : impl'[o] = IF o = a THEN None ELSE impl[o]
    BY DEF destroy, InfoInv, InfoTypeOK
<1>3. /\ DOMAIN info' = DOMAIN info \ {impl[a]}
      /\ \A j \in DOMAIN info' : info'[j] = info[j]
    BY DEF destroy, Erased
<1>4. ASSUME NEW o \in InfoObjects, impl'[o] # None
      PROVE  impl'[o] \in DOMAIN info' /\ info'[impl'[o]] = info[impl'[o]]
    BY <1>2, <1>3, <1>4, WhatIsFreed, ImplsDiffer
<1>5. \A o \in InfoObjects : Freed(o)' = IF o = a THEN {} ELSE Freed(o)
    BY <1>2, <1>4 DEF Freed
<1>6. new = None /\ data = None /\ new' = None /\ data' = None /\ pc' = "idle"
    BY DEF destroy, InfoInv, UnderConstruction, pointers
<1>7. \A x : x \in heap' <=> \E o \in InfoObjects : x \in Freed(o)'
    <2>1. \A x : x \in heap' <=> x \in heap /\ x \notin Freed(a)
        BY DEF destroy
    <2>2. \A x : x \in heap <=> \E o \in InfoObjects : x \in Freed(o)
        BY <1>6, WhatIsAllocated
    <2>3. \A o, p \in InfoObjects : o # p => Freed(o) \cap Freed(p) = {}
        BY WhatIsFreed DEF InfoInv, OwnedOnce, Has
    <2> QED BY <2>1, <2>2, <2>3, <1>5
<1>8. OwnedOnce'
    <2>1. \A o, p \in InfoObjects : o # p => Freed(o)' \cap Freed(p)' = {}
        BY <1>5, WhatIsFreed DEF InfoInv, OwnedOnce, Has
    <2>2. heap' = UNION {Freed(o)' : o \in InfoObjects}
        BY <1>7
    <2>3. \A o \in InfoObjects : {None} \cap Freed(o)' = {}
        BY <1>5, WhatIsFreed, ConstantsAssumption
    <2> QED BY <2>1, <2>2, <2>3, <1>4, <1>6 DEF OwnedOnce, Has
<1>9. InfoTypeOK'
    <2>1. heap' \subseteq Addresses /\ DOMAIN info' \subseteq Addresses
        BY <1>3 DEF destroy, InfoInv, InfoTypeOK
    <2> QED BY <1>1, <2>1 DEF destroy, InfoInv, InfoTypeOK, files, pointers, reading
<1>10. UnderConstruction'
    BY <1>6 DEF UnderConstruction
<1>11. \A i \in DOMAIN info' : info'[i].data \in Addresses \cup {None}
    BY <1>3 DEF InfoInv
<1> QED BY <1>8, <1>9, <1>10, <1>11 DEF InfoInv

\* The objects stay what they are while something is built or given up.
LEMMA ObjectsStay ==
    ASSUME InfoInv, UNCHANGED <<impl, info>>,
           \A o \in InfoObjects : {new', data'} \cap Freed(o) = {},
           \A x : x \in heap' <=> \/ \E o \in InfoObjects : x \in Freed(o)
                                  \/ x \in {new', data'} \ {None}
    PROVE  OwnedOnce' /\ \A i \in DOMAIN info' : info'[i].data \in Addresses \cup {None}
<1>1. \A o : Freed(o)' = Freed(o) /\ Has(o)' = Has(o)
    BY DEF Freed, Has
<1>2. heap' = (UNION {Freed(o)' : o \in InfoObjects}) \cup ({new', data'} \ {None})
    BY <1>1
<1>3. \A o, p \in InfoObjects : o # p /\ Has(o)' => Freed(o)' \cap Freed(p)' = {}
    BY <1>1 DEF InfoInv, OwnedOnce
<1>4. \A o \in InfoObjects : {new', data'} \cap Freed(o)' = {}
    BY <1>1
<1>5. \A o \in InfoObjects : Has(o)' => impl'[o] \in DOMAIN info'
    BY <1>1 DEF InfoInv, OwnedOnce
<1> QED BY <1>2, <1>3, <1>4, <1>5 DEF InfoInv, OwnedOnce

LEMMA ConstructOwned ==
    ASSUME InfoInv, NEW o \in InfoObjects, Construct(o)
    PROVE  InfoInv'
<1>1. PICK a \in Addresses \ heap : heap' = heap \cup {a} /\ new' = a
    BY DEF Construct
<1>2. new = None /\ data = None /\ data' = None
    BY DEF Construct, InfoInv, UnderConstruction
<1>3. \A p \in InfoObjects : {new', data'} \cap Freed(p) = {}
    BY <1>1, <1>2, WhatIsFreed, WhatIsAllocated, ConstantsAssumption
<1>4. \A x : x \in heap' <=> \/ \E p \in InfoObjects : x \in Freed(p)
                             \/ x \in {new', data'} \ {None}
    BY <1>1, <1>2, WhatIsAllocated, ConstantsAssumption
<1>5. OwnedOnce' /\ \A i \in DOMAIN info' : info'[i].data \in Addresses \cup {None}
    BY <1>3, <1>4, ObjectsStay DEF Construct
<1>6. InfoTypeOK'
    <2>1. moves' \in 0 .. MaxMoves /\ next' \in 1 .. Len(Sections) + 1
        BY SectionsAreSix, ConstantsAssumption DEF Construct, InfoInv, InfoTypeOK
    <2> QED BY <2>1, <1>1, <1>2 DEF Construct, InfoInv, InfoTypeOK, files
<1>7. UnderConstruction'
    BY <1>1, <1>2 DEF Construct, UnderConstruction
<1> QED BY <1>5, <1>6, <1>7 DEF InfoInv

LEMMA ThrowOwned == InfoInv /\ Throw => InfoInv'
<1> SUFFICES ASSUME InfoInv, Throw PROVE InfoInv'
    OBVIOUS
<1>1. new' = None /\ data' = None /\ heap' = heap \ {new, data} /\ UNCHANGED <<impl, info>>
    BY DEF Throw, objects
<1>2. \A o \in InfoObjects : {new', data'} \cap Freed(o) = {}
    BY <1>1, WhatIsFreed, ConstantsAssumption
<1>3. \A o \in InfoObjects : {new, data} \cap Freed(o) = {}
    BY DEF InfoInv, OwnedOnce
<1>4. \A x : x \in heap' <=> \/ \E o \in InfoObjects : x \in Freed(o)
                             \/ x \in {new', data'} \ {None}
    BY <1>1, <1>3, WhatIsAllocated
<1>5. OwnedOnce' /\ \A i \in DOMAIN info' : info'[i].data \in Addresses \cup {None}
    BY <1>1, <1>2, <1>4, ObjectsStay
<1>6. InfoTypeOK'
    BY DEF Throw, InfoInv, InfoTypeOK, files, objects, reading
<1>7. UnderConstruction'
    BY DEF Throw, UnderConstruction
<1> QED BY <1>5, <1>6, <1>7 DEF InfoInv

LEMMA SizeOwned == InfoInv /\ GetFileVersionInfoSizeW => InfoInv'
<1> SUFFICES ASSUME InfoInv, GetFileVersionInfoSizeW PROVE InfoInv'
    OBVIOUS
<1>1. /\ new' = new /\ data = None /\ UNCHANGED <<impl, info>>
      /\ new \in Addresses /\ target \in InfoObjects
    BY DEF GetFileVersionInfoSizeW, InfoInv, UnderConstruction, objects
<1>2. CASE UNCHANGED <<data, heap>> /\ pc' = "throw"
    <2>1. OwnedOnce' /\ \A i \in DOMAIN info' : info'[i].data \in Addresses \cup {None}
        BY <1>1, <1>2, PointersStay
    <2>2. InfoTypeOK' /\ UnderConstruction'
        BY <1>1, <1>2 DEF GetFileVersionInfoSizeW, InfoInv, InfoTypeOK, UnderConstruction,
                          files, objects, reading
    <2> QED BY <2>1, <2>2 DEF InfoInv
<1>3. CASE /\ \E a \in Addresses \ heap : heap' = heap \cup {a} /\ data' = a
           /\ pc' = "info"
    <2>1. PICK a \in Addresses \ heap : heap' = heap \cup {a} /\ data' = a
        BY <1>3
    <2>2. \A o \in InfoObjects : {new', data'} \cap Freed(o) = {}
        BY <1>1, <2>1, WhatIsAllocated DEF InfoInv, OwnedOnce
    <2>3. \A x : x \in heap' <=> \/ \E o \in InfoObjects : x \in Freed(o)
                                 \/ x \in {new', data'} \ {None}
        BY <1>1, <2>1, WhatIsAllocated, ConstantsAssumption
    <2>4. OwnedOnce' /\ \A i \in DOMAIN info' : info'[i].data \in Addresses \cup {None}
        BY <1>1, <2>2, <2>3, ObjectsStay
    <2>5. InfoTypeOK' /\ UnderConstruction'
        BY <1>1, <1>3, <2>1 DEF GetFileVersionInfoSizeW, InfoInv, InfoTypeOK,
                                UnderConstruction, files, objects, reading
    <2> QED BY <2>4, <2>5 DEF InfoInv
<1> QED BY <1>2, <1>3 DEF GetFileVersionInfoSizeW

\* What was under construction becomes its object's, which frees what it had.
LEMMA ConstructedOwned ==
    ASSUME InfoInv, pc # "idle", NEW result, result.data = data, Constructed(result)
    PROVE  /\ OwnedOnce' /\ UnderConstruction'
           /\ \A i \in DOMAIN info' : info'[i].data \in Addresses \cup {None}
           /\ heap' \subseteq Addresses /\ DOMAIN info' \subseteq Addresses
           /\ impl' \in [InfoObjects -> Addresses \cup {None}]
<1>1. new \in Addresses /\ target \in InfoObjects /\ data \in Addresses \cup {None}
    BY DEF InfoInv, UnderConstruction, InfoTypeOK
<1>2. impl' \in [InfoObjects -> Addresses \cup {None}]
    BY <1>1 DEF Constructed, InfoInv, InfoTypeOK
<1>3. \A o \in InfoObjects : impl'[o] = IF o = target THEN new ELSE impl[o]
    BY DEF Constructed, InfoInv, InfoTypeOK
<1>4. /\ DOMAIN info' = (DOMAIN info \cup {new}) \ {impl[target]}
      /\ \A j \in DOMAIN info' : info'[j] = IF j = new THEN result ELSE info[j]
    BY DEF Constructed
<1>5. \A o \in InfoObjects : {new, data} \cap Freed(o) = {}
    BY DEF InfoInv, OwnedOnce
<1>6. impl[target] # new
    BY <1>1, <1>5, WhatIsFreed, ConstantsAssumption
<1>7. new \in DOMAIN info' /\ info'[new].data = data
    BY <1>4, <1>6
<1>8. ASSUME NEW o \in InfoObjects, o # target, impl[o] # None
      PROVE  impl[o] \in DOMAIN info' /\ info'[impl[o]] = info[impl[o]]
    BY <1>1, <1>4, <1>8, WhatIsFreed, ImplsDiffer
<1>9. \A o \in InfoObjects :
        Freed(o)' = IF o = target THEN {new, data} \ {None} ELSE Freed(o)
    BY <1>1, <1>3, <1>7, <1>8, ConstantsAssumption DEF Freed
<1>10. new' = None /\ data' = None /\ pc' = "idle"
    BY DEF Constructed
<1>11. \A x : x \in heap' <=> \E o \in InfoObjects : x \in Freed(o)'
    <2>1. \A x : x \in heap' <=> x \in heap /\ x \notin Freed(target)
        BY DEF Constructed
    <2>2. \A o, p \in InfoObjects : o # p => Freed(o) \cap Freed(p) = {}
        BY WhatIsFreed DEF InfoInv, OwnedOnce, Has
    <2>3. ASSUME NEW x \in heap, x \notin Freed(target)
          PROVE  \E o \in InfoObjects : x \in Freed(o)'
        <3>1. CASE x \in {new, data} \ {None}
            BY <3>1, <1>1, <1>9
        <3>2. CASE x \notin {new, data} \ {None}
            BY <3>2, <2>3, <1>9, WhatIsAllocated
        <3> QED BY <3>1, <3>2
    <2>4. ASSUME NEW o \in InfoObjects, NEW x \in Freed(o)'
          PROVE  x \in heap /\ x \notin Freed(target)
        <3>1. CASE o = target
            BY <3>1, <2>4, <1>1, <1>5, <1>9, WhatIsAllocated
        <3>2. CASE o # target
            BY <3>2, <2>4, <2>2, <1>1, <1>9, WhatIsAllocated
        <3> QED BY <3>1, <3>2
    <2> QED BY <2>1, <2>3, <2>4
<1>12. OwnedOnce'
    <2>1. \A o, p \in InfoObjects : o # p => Freed(o)' \cap Freed(p)' = {}
        BY <1>1, <1>5, <1>9, WhatIsFreed DEF InfoInv, OwnedOnce, Has
    <2>2. heap' = UNION {Freed(o)' : o \in InfoObjects}
        BY <1>11
    <2>3. \A o \in InfoObjects : {None} \cap Freed(o)' = {}
        BY <1>9, WhatIsFreed, ConstantsAssumption
    <2>4. \A o \in InfoObjects : impl'[o] # None => impl'[o] \in DOMAIN info'
        BY <1>3, <1>7, <1>8
    <2> QED BY <2>1, <2>2, <2>3, <2>4, <1>10 DEF OwnedOnce, Has
<1>13. \A i \in DOMAIN info' : info'[i].data \in Addresses \cup {None}
    BY <1>1, <1>4, <1>7 DEF InfoInv
<1>14. heap' \subseteq Addresses /\ DOMAIN info' \subseteq Addresses
    BY <1>1, <1>4 DEF Constructed, InfoInv, InfoTypeOK
<1>15. UnderConstruction'
    BY <1>10 DEF UnderConstruction
<1> QED BY <1>2, <1>12, <1>13, <1>14, <1>15

\* The steps of a constructor that only read.
LEMMA FailsOrNot ==
    ASSUME NEW failed, NEW offset, NEW n
    PROVE  Fails(failed, offset, n) \in BOOLEAN
BY DEF Fails

LEMMA ReadingOwned ==
    InfoInv /\ (\/ Exists \/ elf_header \/ elf_section_name_header \/ elf_section_header
                \/ RequireVersionNum \/ ReadString \/ GetFileVersionInfoW)
    => InfoInv'
<1> SUFFICES ASSUME InfoInv,
                    \/ Exists \/ elf_header \/ elf_section_name_header
                    \/ elf_section_header \/ RequireVersionNum \/ ReadString
                    \/ GetFileVersionInfoW
             PROVE  InfoInv'
    OBVIOUS
<1> DEFINE Reads == /\ UNCHANGED <<files, objects, pointers, heap>>
                    /\ pc \notin {"idle", "root", "throw"}
                    /\ pc = "info" => pc' \in {"throw", "root"}
                    /\ pc' \in {"throw", "header", "names", "lookup", "strings", "size", "root"}
                    /\ fail' \in BOOLEAN
                    /\ next' \in 1 .. Len(Sections) + 1
                    /\ undefined' \in {"no", "names"}
<1> USE DEF InfoInv, InfoTypeOK
<1>1. ASSUME Exists PROVE Reads
    BY <1>1 DEF Exists, reading
<1>2. ASSUME elf_header PROVE Reads
    BY <1>2, FailsOrNot DEF elf_header
<1>3. ASSUME elf_section_name_header PROVE Reads
    BY <1>3, FailsOrNot DEF elf_section_name_header
<1>4. ASSUME elf_section_header PROVE Reads
    <2>1. /\ UNCHANGED <<files, objects, pointers, heap, pc>> /\ pc = "lookup"
          /\ next =< Len(Sections) /\ next' = next + 1
        BY <1>4, Zenon DEF elf_section_header
    <2>2. next' \in 1 .. Len(Sections) + 1
        BY <2>1, SectionsAreSix
    <2>3. fail' \in BOOLEAN
        BY <1>4, FailsOrNot, Zenon DEF elf_section_header
    <2>4. undefined' \in {"no", "names"}
        <3>1. undefined' = "names" \/ undefined' = undefined
            BY <1>4, Zenon DEF elf_section_header
        <3> QED BY <3>1
    <2> QED BY <2>1, <2>2, <2>3, <2>4
<1>5. ASSUME RequireVersionNum PROVE Reads
    BY <1>5, SectionsAreSix DEF RequireVersionNum
<1>6. ASSUME ReadString PROVE Reads
    BY <1>6, SectionsAreSix, FailsOrNot DEF ReadString, VersionNum
<1>7. ASSUME GetFileVersionInfoW PROVE Reads
    BY <1>7 DEF GetFileVersionInfoW, reading
<1>8. Reads
    BY <1>1, <1>2, <1>3, <1>4, <1>5, <1>6, <1>7
<1> HIDE DEF InfoInv, InfoTypeOK
<1>9. OwnedOnce' /\ \A i \in DOMAIN info' : info'[i].data \in Addresses \cup {None}
    BY <1>8, PointersStay DEF objects, pointers
<1>10. UnderConstruction'
    BY <1>8 DEF pointers, InfoInv, UnderConstruction
<1>11. InfoTypeOK'
    BY <1>8 DEF files, objects, pointers, InfoInv, InfoTypeOK
<1> QED BY <1>9, <1>10, <1>11 DEF InfoInv

LEMMA NumberOwned == InfoInv /\ ReadVersionNum => InfoInv'
<1> SUFFICES ASSUME InfoInv, ReadVersionNum PROVE InfoInv'
    OBVIOUS
<1>1. data = None /\ pc = "strings"
    BY DEF ReadVersionNum, InfoInv, UnderConstruction
<1>2. fail' \in BOOLEAN
    BY FailsOrNot DEF ReadVersionNum
<1>3. CASE pc' = "throw" /\ UNCHANGED <<objects, pointers, heap, undefined>>
    <2>1. OwnedOnce' /\ \A i \in DOMAIN info' : info'[i].data \in Addresses \cup {None}
        BY <1>3, PointersStay DEF objects, pointers
    <2>2. InfoTypeOK'
        BY <1>2, <1>3 DEF ReadVersionNum, InfoInv, InfoTypeOK, files, objects, pointers
    <2>3. UnderConstruction'
        BY <1>1, <1>3 DEF InfoInv, UnderConstruction, pointers
    <2> QED BY <2>1, <2>2, <2>3 DEF InfoInv
<1>4. CASE Constructed([strings |-> strings', data |-> None])
    <2>1. /\ OwnedOnce' /\ UnderConstruction'
          /\ \A i \in DOMAIN info' : info'[i].data \in Addresses \cup {None}
          /\ heap' \subseteq Addresses /\ DOMAIN info' \subseteq Addresses
          /\ impl' \in [InfoObjects -> Addresses \cup {None}]
        <3>1. [strings |-> strings', data |-> None].data = data
            BY <1>1
        <3> QED BY <1>1, <1>4, <3>1, ConstructedOwned
    <2>2. InfoTypeOK'
        BY <1>2, <1>4, <2>1
            DEF ReadVersionNum, Constructed, InfoInv, InfoTypeOK, files
    <2> QED BY <2>1, <2>2 DEF InfoInv
<1> QED BY <1>3, <1>4 DEF ReadVersionNum

LEMMA ResourceOwned == InfoInv /\ VerQueryValueA => InfoInv'
<1> SUFFICES ASSUME InfoInv, VerQueryValueA PROVE InfoInv'
    OBVIOUS
<1>1. CASE pc' = "throw" /\ UNCHANGED <<files, objects, pointers, heap, undefined>>
    <2>1. OwnedOnce' /\ \A i \in DOMAIN info' : info'[i].data \in Addresses \cup {None}
        BY <1>1, PointersStay DEF objects, pointers
    <2>2. InfoTypeOK'
        BY <1>1 DEF VerQueryValueA, InfoInv, InfoTypeOK, files, objects, pointers, reading
    <2>3. UnderConstruction'
        BY <1>1 DEF VerQueryValueA, InfoInv, UnderConstruction, pointers
    <2> QED BY <2>1, <2>2, <2>3 DEF InfoInv
<1>2. CASE Constructed([strings |-> file.says, data |-> data])
    <2>1. /\ OwnedOnce' /\ UnderConstruction'
          /\ \A i \in DOMAIN info' : info'[i].data \in Addresses \cup {None}
          /\ heap' \subseteq Addresses /\ DOMAIN info' \subseteq Addresses
          /\ impl' \in [InfoObjects -> Addresses \cup {None}]
        <3>1. [strings |-> file.says, data |-> data].data = data /\ pc # "idle"
            BY DEF VerQueryValueA
        <3> QED BY <1>2, <3>1, ConstructedOwned
    <2>2. InfoTypeOK'
        BY <1>2, <2>1 DEF VerQueryValueA, Constructed, InfoInv, InfoTypeOK, files, reading
    <2> QED BY <2>1, <2>2 DEF InfoInv
<1> QED BY <1>1, <1>2 DEF VerQueryValueA

LEMMA WriteOwned == InfoInv /\ Write => InfoInv'
<1> SUFFICES ASSUME InfoInv, Write PROVE InfoInv'
    OBVIOUS
<1>1. file \in Files
    BY DEF InfoInv, InfoTypeOK
<1>2. written' \in -1 .. Len(file.cells)
    BY <1>1, CellsAreCounted DEF Write
<1>3. OwnedOnce' /\ \A i \in DOMAIN info' : info'[i].data \in Addresses \cup {None}
    BY PointersStay DEF Write, objects, pointers
<1>4. InfoTypeOK' /\ UnderConstruction'
    BY <1>2 DEF Write, InfoInv, InfoTypeOK, UnderConstruction, objects, pointers, reading
<1> QED BY <1>3, <1>4 DEF InfoInv

LEMMA StutterOwned == InfoInv /\ UNCHANGED infoVars => InfoInv'
<1> SUFFICES ASSUME InfoInv, UNCHANGED infoVars PROVE InfoInv'
    OBVIOUS
<1>1. OwnedOnce' /\ \A i \in DOMAIN info' : info'[i].data \in Addresses \cup {None}
    BY PointersStay DEF infoVars, objects, pointers
<1>2. InfoTypeOK' /\ UnderConstruction'
    BY DEF infoVars, InfoInv, InfoTypeOK, UnderConstruction, files, objects, pointers, reading
<1> QED BY <1>1, <1>2 DEF InfoInv

\* Every step of dumpver, of another program, and of who writes the file.
LEMMA NextInfoInv == InfoInv /\ [DumpverNext]_all => InfoInv'
<1> SUFFICES ASSUME InfoInv, [DumpverNext]_all PROVE InfoInv'
    OBVIOUS
<1>1. CASE Write
    BY <1>1, WriteOwned
<1>2. CASE ParseArgs \/ PrintInfo
    BY <1>2, StutterOwned DEF ParseArgs, PrintInfo
<1>3. CASE Load
    BY <1>3, StutterOwned, ConstructOwned, ClientsAssumption DEF Load
<1>4. CASE Loading
    <2>1. Reading
        BY <1>4 DEF Loading
    <2> QED BY <2>1, ReadingOwned, ThrowOwned, NumberOwned, SizeOwned, ResourceOwned
            DEF Reading
<1>5. CASE Return
    BY <1>5, DestroyOwned, ClientsAssumption DEF Return
<1>6. CASE Client
    BY <1>6, ConstructOwned, DestroyOwned, MoveIntoOwned, ClientsAssumption DEF Client
<1>7. CASE UNCHANGED all
    BY <1>7, StutterOwned DEF all
<1> QED BY <1>1, <1>2, <1>3, <1>4, <1>5, <1>6, <1>7 DEF DumpverNext

\* The constructor, its objects and the heap keep their types, for any number
\* of objects and addresses and any files (version_info.cpp:386-642).
THEOREM InfoTypes == DumpverSpec => []InfoTypeOK
<1>1. DumpverInit => InfoInv
    BY InitInfoInv, Zenon DEF DumpverInit
<1>2. InfoInv => InfoTypeOK
    BY DEF InfoInv
<1> QED BY <1>1, <1>2, NextInfoInv, PTL DEF DumpverSpec

\* Through exceptions in the middle of a construction, assignments over objects
\* that hold something and moves of an object to itself, everything allocated
\* has one owner and no object points to what is freed, for any number of
\* objects and whatever the file holds (version_info.cpp:386-424, 474-541,
\* 627-639).
THEOREM InfoOwnedOnce == DumpverSpec => []OwnedOnce
<1>1. DumpverInit => InfoInv
    BY InitInfoInv, Zenon DEF DumpverInit
<1>2. InfoInv => OwnedOnce
    BY DEF InfoInv
<1> QED BY <1>1, <1>2, NextInfoInv, PTL DEF DumpverSpec

-----------------------------------------------------------------------------
(* Version information: what is read from a file that is still being written *)

\* A set of numbers has a least one: of the intervals up to its members, which
\* are finite sets, one contains no other.
LEMMA LeastIsLeast ==
    ASSUME NEW T, T \subseteq Nat \ {0}, T # {}
    PROVE  Min(T) \in T /\ \A y \in T : Min(T) =< y
<1> DEFINE Up == {1 .. x : x \in T}
<1>1. Up \subseteq FiniteSubsetsOf(Nat) /\ Up # {}
    <2>1. \A x \in T : IsFiniteSet(1 .. x) /\ 1 .. x \subseteq Nat
        BY FS_Interval
    <2> QED BY <2>1, Zenon DEF FiniteSubsetsOf
<1>2. IsWellFoundedOn(StrictSubsetOrdering(Nat), FiniteSubsetsOf(Nat))
    BY FS_StrictSubsetOrderingWellFounded
<1>3. PICK s \in Up : \A t \in Up : <<t, s>> \notin StrictSubsetOrdering(Nat)
    <2> HIDE DEF Up
    <2> QED BY <1>1, <1>2, WFMin
<1>4. PICK x \in T : s = 1 .. x
    BY <1>3
<1>5. \A y \in T : x =< y
    <2> SUFFICES ASSUME NEW y \in T, y < x PROVE FALSE
        OBVIOUS
    <2>1. 1 .. y \in Up /\ 1 .. y \subseteq 1 .. x /\ x \in 1 .. x /\ x \notin 1 .. y
        OBVIOUS
    <2>2. <<1 .. y, 1 .. x>> \in StrictSubsetOrdering(Nat)
        BY <2>1 DEF StrictSubsetOrdering
    <2> QED BY <1>3, <1>4, <2>1, <2>2
<1> QED BY <1>5 DEF Min

LEMMA LengthOfCells ==
    ASSUME NEW n \in Nat, NEW c \in [1 .. n -> Nat]
    PROVE  Len(c) = n
<1>1. c \in Seq(Nat)
    BY SeqDef
<1>2. Len(c) \in Nat /\ \A i \in Nat : i \in 1 .. n <=> i \in 1 .. Len(c)
    BY <1>1, LenProperties
<1>3. n =< Len(c)
    BY <1>2
<1>4. Len(c) =< n
    BY <1>2
<1> QED BY <1>2, <1>3, <1>4

\* What is read are numbers.
LEMMA CellsAreNumbers ==
    ASSUME NEW f \in Files, NEW seen \in Int, seen =< Len(f.cells),
           NEW offset \in Nat, NEW n \in Nat
    PROVE  /\ Cells(f, seen, offset, n) \in [1 .. n -> Nat]
           /\ Len(Cells(f, seen, offset, n)) = n
           /\ \A i \in 1 .. n : Cells(f, seen, offset, n)[i] \in Nat
<1>1. f.cells \in Seq(Nat)
    BY ConstantsAssumption
<1>2. \A i \in 1 .. Len(f.cells) : f.cells[i] \in Nat
    BY <1>1, ElementOfSeq
<1>3. \A i \in 1 .. n : offset + i =< seen => f.cells[offset + i] \in Nat
    BY <1>2, CellsAreCounted
<1>4. Cells(f, seen, offset, n) \in [1 .. n -> Nat]
    BY <1>3 DEF Cells
<1> QED BY <1>4, LengthOfCells

\* What was there to read is as in the whole file.
LEMMA CellsStay ==
    ASSUME NEW f \in Files, NEW seen \in Int, seen =< Len(f.cells),
           NEW offset \in Nat, NEW n \in Nat, offset + n =< seen \/ n = 0
    PROVE  Cells(f, seen, offset, n) = Cells(f, Len(f.cells), offset, n)
<1>1. Len(f.cells) \in Nat
    BY CellsAreCounted
<1>2. \A i \in 1 .. n : offset + i =< seen /\ offset + i =< Len(f.cells)
    BY <1>1
<1> QED BY <1>2 DEF Cells

\* Nothing is there to read.
LEMMA CellsAreZero ==
    ASSUME NEW f, NEW offset \in Nat, NEW n \in Nat, NEW i \in 1 .. n
    PROVE  Cells(f, 0, offset, n)[i] = 0
BY DEF Cells

\* The fields of headers are cells of theirs.
LEMMA ShdrIsCells ==
    ASSUME NEW field \in {"sh_name", "sh_type", "sh_offset", "sh_size", "sh_entsize"}
    PROVE  \E i \in 1 .. 5 : \A cells : Fields(Shdr, cells)[field] = cells[i]
<1>1. DOMAIN Shdr = 1 .. 5 /\ field \in {Shdr[i] : i \in DOMAIN Shdr}
    BY DEF Shdr
<1>2. PICK i \in DOMAIN Shdr : i = CHOOSE j \in DOMAIN Shdr : Shdr[j] = field
    BY <1>1
<1>3. \A cells : Fields(Shdr, cells)[field] = cells[i]
    BY <1>1, <1>2 DEF Fields
<1> QED BY <1>1, <1>3

LEMMA EhdrIsCells ==
    ASSUME NEW field \in {"e_shoff", "e_shnum", "e_shstrndx"}
    PROVE  \E i \in 1 .. 12 : \A cells : Fields(Ehdr, cells)[field] = cells[i]
<1>1. DOMAIN Ehdr = 1 .. 12 /\ field \in {Ehdr[i] : i \in DOMAIN Ehdr}
    BY DEF Ehdr
<1>2. PICK i \in DOMAIN Ehdr : i = CHOOSE j \in DOMAIN Ehdr : Ehdr[j] = field
    BY <1>1
<1>3. \A cells : Fields(Ehdr, cells)[field] = cells[i]
    BY <1>1, <1>2 DEF Fields
<1> QED BY <1>1, <1>3

LEMMA HeadersAreLong == Len(Ehdr) = 12 /\ Len(Shdr) = 5
BY DEF Ehdr, Shdr

\* A look-up sees the names' indices alone: two tables with the same up to where
\* the look-up in one ends give the same answer.
LEMMA SameLookUp ==
    ASSUME NEW names, NEW k, NEW n \in Nat, NEW T, NEW W,
           DOMAIN T = 1 .. n, DOMAIN W = 1 .. n, Stops(names, T, k) # {},
           NEW i, i = Min(Stops(names, T, k)),
           \A j \in 1 .. n : j =< i => T[j].sh_name = W[j].sh_name
    PROVE  /\ Stops(names, W, k) # {} /\ Min(Stops(names, W, k)) = i
           /\ Finds(names, T, k) => Finds(names, W, k)
           /\ Finds(names, W, k) => Finds(names, T, k)
<1> DEFINE j == Min(Stops(names, W, k))
<1>1. Stops(names, T, k) \subseteq 1 .. n /\ Stops(names, W, k) \subseteq 1 .. n
    BY DEF Stops
<1>2. i \in Stops(names, T, k) /\ \A m \in Stops(names, T, k) : i =< m
    BY <1>1, LeastIsLeast
<1>3. i \in 1 .. n
    BY <1>1, <1>2
<1>4. \A m \in 1 .. n : m =< i => (m \in Stops(names, T, k) <=> m \in Stops(names, W, k))
    BY DEF Stops, Outside
<1>5. i \in Stops(names, W, k)
    BY <1>2, <1>3, <1>4
<1>6. j \in Stops(names, W, k) /\ \A m \in Stops(names, W, k) : j =< m
    BY <1>1, <1>5, LeastIsLeast
<1> HIDE DEF j
<1>7. j = i
    BY <1>1, <1>2, <1>3, <1>4, <1>5, <1>6
<1>8. Outside(names, T[i]) <=> Outside(names, W[i])
    BY <1>3 DEF Outside
<1> QED BY <1>5, <1>7, <1>8 DEF Finds, j

\* What a look-up in the whole file finds, and what its sections say.
FoundIn(f, k) == IF Holds(f, k) THEN <<HeaderOf(f, k)>> ELSE <<>>
SaidBy(f, k) ==
    IF ~Holds(f, k) THEN <<>>
    ELSE IF k = VersionNum THEN ContentOf(f, k) ELSE TrimNulls(ContentOf(f, k))

\* While no read has failed, the headers, what was found and what was read are
\* those of the whole file, and enough of it is there for all that follows up to
\* the table.  Once a read has failed there will be no version number.
ReadSoFar ==
    /\ pc \in {"exists", "header", "names"} =>
          next = 1 /\ found = Nothing /\ strings = Nothing
    /\ pc \in {"exists", "header"} => ~fail
    /\ pc \in {"names", "lookup", "strings"} =>
          /\ ehdr.e_shoff \in Nat /\ ehdr.e_shnum \in Nat /\ ehdr.e_shstrndx \in Nat
          /\ ehdr.e_shentsize = 5
          /\ ~fail => ehdr = EhdrOf(file) /\ Accepted(EhdrOf(file))
    /\ pc \in {"lookup", "strings"} =>
          /\ nhdr.sh_offset \in Nat /\ nhdr.sh_size \in Nat
          /\ ~fail => /\ nhdr = NhdrOf(file) /\ NhdrOf(file).sh_type = Elf.STRTAB
                      /\ NamesAt(ehdr) + 5 =< written
    /\ pc = "lookup" =>
          /\ strings = Nothing /\ DOMAIN found = 1 .. 6
          /\ fail => found[6] = <<>>
          /\ ~fail => \A k \in 1 .. 6 : found[k] = IF k < next THEN FoundIn(file, k) ELSE <<>>
    /\ pc = "strings" =>
          /\ ~fail /\ next =< 6 /\ Holds(file, 6)
          /\ \A k \in 1 .. 6 : found[k] = FoundIn(file, k)
          /\ DOMAIN strings = 1 .. 6
          /\ \A k \in 1 .. 6 : strings[k] = IF k < next THEN SaidBy(file, k) ELSE <<>>

SaysInv ==
    /\ InfoInv
    /\ ReadSoFar
    /\ \A i \in DOMAIN info : info[i].strings = file.says /\ file.says[6] # <<>>

LEMMA CellsOfWhole ==
    ASSUME NEW f \in Files, NEW offset \in Nat, NEW n \in Nat
    PROVE  /\ Len(Cells(f, Len(f.cells), offset, n)) = n
           /\ \A i \in 1 .. n : Cells(f, Len(f.cells), offset, n)[i] \in Nat
<1>1. Len(f.cells) \in Int /\ Len(f.cells) =< Len(f.cells)
    BY CellsAreCounted
<1> QED BY <1>1, CellsAreNumbers

LEMMA ShdrTypes ==
    ASSUME NEW cells, \A i \in 1 .. 5 : cells[i] \in Nat
    PROVE  /\ Fields(Shdr, cells).sh_name \in Nat
           /\ Fields(Shdr, cells).sh_offset \in Nat
           /\ Fields(Shdr, cells).sh_size \in Nat
BY ShdrIsCells

LEMMA EhdrTypes ==
    ASSUME NEW cells, \A i \in 1 .. 12 : cells[i] \in Nat
    PROVE  /\ Fields(Ehdr, cells).e_shoff \in Nat
           /\ Fields(Ehdr, cells).e_shnum \in Nat
           /\ Fields(Ehdr, cells).e_shstrndx \in Nat
BY EhdrIsCells

\* The headers of a whole file.
LEMMA WholeHeaders ==
    ASSUME NEW f \in Files, Accepted(EhdrOf(f))
    PROVE  /\ EhdrOf(f).e_shoff \in Nat /\ EhdrOf(f).e_shnum \in Nat
           /\ EhdrOf(f).e_shstrndx \in Nat /\ EhdrOf(f).e_shentsize = 5
           /\ NamesAt(EhdrOf(f)) \in Nat
           /\ NhdrOf(f).sh_offset \in Nat /\ NhdrOf(f).sh_size \in Nat
           /\ Len(NamesOf(f)) = NhdrOf(f).sh_size
           /\ DOMAIN TableOf(f) = 1 .. EhdrOf(f).e_shnum
           /\ \A i \in DOMAIN TableOf(f) : /\ TableOf(f)[i].sh_name \in Nat
                                           /\ TableOf(f)[i].sh_offset \in Nat
                                           /\ TableOf(f)[i].sh_size \in Nat
<1>1. /\ EhdrOf(f).e_shoff \in Nat /\ EhdrOf(f).e_shnum \in Nat
      /\ EhdrOf(f).e_shstrndx \in Nat
    <2>1. \A i \in 1 .. 12 : Cells(f, Len(f.cells), 0, 12)[i] \in Nat
        BY CellsOfWhole
    <2> QED BY <2>1, EhdrTypes, HeadersAreLong DEF EhdrOf
<1>2. EhdrOf(f).e_shentsize = 5
    BY HeadersAreLong DEF Accepted
<1>3. NamesAt(EhdrOf(f)) \in Nat
    BY <1>1, <1>2 DEF NamesAt
<1>4. NhdrOf(f).sh_offset \in Nat /\ NhdrOf(f).sh_size \in Nat
    <2>1. \A i \in 1 .. 5 : Cells(f, Len(f.cells), NamesAt(EhdrOf(f)), 5)[i] \in Nat
        BY <1>3, CellsOfWhole
    <2> QED BY <2>1, ShdrTypes, HeadersAreLong DEF NhdrOf
<1>5. Len(NamesOf(f)) = NhdrOf(f).sh_size
    BY <1>4, CellsOfWhole DEF NamesOf
<1>6. DOMAIN TableOf(f) = 1 .. EhdrOf(f).e_shnum
    BY DEF TableOf
<1>7. ASSUME NEW i \in DOMAIN TableOf(f)
      PROVE  /\ TableOf(f)[i].sh_name \in Nat
             /\ TableOf(f)[i].sh_offset \in Nat
             /\ TableOf(f)[i].sh_size \in Nat
    <2>1. i \in 1 .. EhdrOf(f).e_shnum
        BY <1>6, <1>7
    <2> DEFINE at == EhdrOf(f).e_shoff + (i - 1) * 5
    <2>2. at \in Nat
        BY <2>1, <1>1
    <2>3. TableOf(f)[i] = Fields(Shdr, Cells(f, Len(f.cells), at, 5))
        BY <2>1, HeadersAreLong DEF TableOf
    <2> HIDE DEF at
    <2>4. \A j \in 1 .. 5 : Cells(f, Len(f.cells), at, 5)[j] \in Nat
        BY <2>2, CellsOfWhole
    <2> QED BY <2>3, <2>4, ShdrTypes
<1> QED BY <1>1, <1>2, <1>3, <1>4, <1>5, <1>6, <1>7

LEMMA OurHeaders ==
    ASSUME NEW f \in Files, Accepted(EhdrOf(f)), NEW k, Holds(f, k)
    PROVE  /\ IndexOf(f, k) \in DOMAIN TableOf(f)
           /\ HeaderOf(f, k).sh_offset \in Nat /\ HeaderOf(f, k).sh_size \in Nat
<1>1. Stops(NamesOf(f), TableOf(f), k) \subseteq DOMAIN TableOf(f)
    BY DEF Stops
<1>2. Stops(NamesOf(f), TableOf(f), k) \subseteq Nat \ {0}
    BY <1>1, WholeHeaders
<1>3. Stops(NamesOf(f), TableOf(f), k) # {}
    BY DEF Holds, Finds
<1>4. IndexOf(f, k) \in DOMAIN TableOf(f)
    BY <1>1, <1>2, <1>3, LeastIsLeast DEF IndexOf
<1> QED BY <1>4, WholeHeaders DEF HeaderOf

\* The file and how much of it is there.
LEMMA WhatIsThere ==
    ASSUME SaysInv
    PROVE  /\ file \in Files /\ Len(file.cells) \in Nat
           /\ written \in Int /\ written =< Len(file.cells) /\ fail \in BOOLEAN
           /\ pc \in {"lookup", "strings"} /\ ~fail => LaidOut(file)
<1>1. file \in Files /\ written \in -1 .. Len(file.cells) /\ fail \in BOOLEAN
    BY DEF SaysInv, InfoInv, InfoTypeOK
<1>2. Len(file.cells) \in Nat
    BY <1>1, CellsAreCounted
<1>3. pc \in {"lookup", "strings"} /\ ~fail => LaidOut(file)
    BY <1>1, LayoutAssumption DEF SaysInv, ReadSoFar
<1> QED BY <1>1, <1>2, <1>3

\* After a read has failed nothing is found.
LEMMA NothingIsFound ==
    ASSUME SaysInv, pc = "lookup", NEW k \in 1 .. 6
    PROVE  ~Finds(Read(TRUE, nhdr.sh_offset, nhdr.sh_size), Table(TRUE), k)
<1> SUFFICES ASSUME Finds(Read(TRUE, nhdr.sh_offset, nhdr.sh_size), Table(TRUE), k)
             PROVE  FALSE
    OBVIOUS
<1> DEFINE names == Read(TRUE, nhdr.sh_offset, nhdr.sh_size)
           stops == Stops(names, Table(TRUE), k)
           i == Min(stops)
<1>1. /\ ehdr.e_shoff \in Nat /\ ehdr.e_shnum \in Nat
      /\ nhdr.sh_offset \in Nat /\ nhdr.sh_size \in Nat
    BY DEF SaysInv, ReadSoFar
<1>2. file \in Files /\ Len(file.cells) \in Nat
    BY WhatIsThere
<1>3. names = Cells(file, 0, nhdr.sh_offset, nhdr.sh_size)
    BY DEF Read
<1>4. Len(names) = nhdr.sh_size
    <2>1. 0 \in Int /\ 0 =< Len(file.cells)
        BY <1>2
    <2>2. Len(Cells(file, 0, nhdr.sh_offset, nhdr.sh_size)) = nhdr.sh_size
        BY <1>1, <1>2, <2>1, CellsAreNumbers
    <2> QED BY <1>3, <2>2
<1>5. stops # {} /\ ~Outside(names, Table(TRUE)[i])
    BY DEF Finds
<1>6. stops \subseteq 1 .. ehdr.e_shnum
    BY DEF Stops, Table
<1>7. i \in stops /\ i \in 1 .. ehdr.e_shnum
    <2> HIDE DEF stops
    <2>1. stops \subseteq Nat \ {0}
        BY <1>1, <1>6
    <2> QED BY <1>5, <1>6, <2>1, LeastIsLeast
<1> HIDE DEF i
<1> DEFINE at == ehdr.e_shoff + (i - 1) * 5
<1>8. at \in Nat
    BY <1>1, <1>7
<1>9. Table(TRUE)[i] = Fields(Shdr, Cells(file, 0, at, 5))
    BY <1>7, HeadersAreLong DEF Table, Read
<1>10. names[Table(TRUE)[i].sh_name + 1] = k
    BY <1>5, <1>7 DEF Stops, i
<1> HIDE DEF names, stops, at
<1>11. Table(TRUE)[i].sh_name = 0
    <2>1. PICK j \in 1 .. 5 : \A cells : Fields(Shdr, cells).sh_name = cells[j]
        BY ShdrIsCells
    <2>2. Cells(file, 0, at, 5)[j] = 0
        BY <1>8, CellsAreZero
    <2> QED BY <1>9, <2>1, <2>2
<1>12. names[1] = k /\ 1 \in 1 .. nhdr.sh_size
    <2>1. ~(0 >= Len(names))
        BY <1>5, <1>11 DEF Outside
    <2>2. names[0 + 1] = k
        BY <1>5, <1>10, <1>11
    <2> QED BY <1>1, <1>4, <2>1, <2>2
<1>13. names[1] = 0
    BY <1>1, <1>3, <1>12, CellsAreZero
<1> QED BY <1>12, <1>13

\* As long as no read fails the names are those of the whole file, and so are
\* the headers of the table that are there.
LEMMA NamesAreWhole ==
    ASSUME SaysInv, pc = "lookup", ~fail
    PROVE  /\ Read(fail, nhdr.sh_offset, nhdr.sh_size) = NamesOf(file)
           /\ ~Fails(fail, nhdr.sh_offset, nhdr.sh_size)
<1>1. /\ nhdr = NhdrOf(file) /\ ehdr = EhdrOf(file) /\ NamesAt(ehdr) + 5 =< written
      /\ nhdr.sh_offset \in Nat /\ nhdr.sh_size \in Nat
      /\ ehdr.e_shoff \in Nat /\ ehdr.e_shstrndx \in Nat /\ ehdr.e_shentsize = 5
    BY DEF SaysInv, ReadSoFar
<1>2. EndOf(NhdrOf(file)) =< NamesAt(EhdrOf(file)) + 5
    BY WhatIsThere, HeadersAreLong DEF LaidOut
<1>3. NamesAt(ehdr) \in Nat
    BY <1>1 DEF NamesAt
<1>4. nhdr.sh_offset + nhdr.sh_size =< written
    BY <1>1, <1>2, <1>3, WhatIsThere DEF EndOf
<1>5. Cells(file, written, nhdr.sh_offset, nhdr.sh_size) = NamesOf(file)
    <2>1. Cells(file, written, nhdr.sh_offset, nhdr.sh_size)
            = Cells(file, Len(file.cells), nhdr.sh_offset, nhdr.sh_size)
        BY <1>1, <1>4, WhatIsThere, CellsStay
    <2> QED BY <1>1, <2>1 DEF NamesOf
<1>6. ~Fails(fail, nhdr.sh_offset, nhdr.sh_size)
    BY <1>1, <1>4, WhatIsThere DEF Fails
<1> QED BY <1>5, <1>6 DEF Read

LEMMA RowsAreWhole ==
    ASSUME SaysInv, pc = "lookup", ~fail, NEW i \in 1 .. ehdr.e_shnum,
           ehdr.e_shoff + i * 5 =< written
    PROVE  Table(FALSE)[i] = TableOf(file)[i]
<1> DEFINE at == ehdr.e_shoff + (i - 1) * 5
<1>1. ehdr = EhdrOf(file) /\ ehdr.e_shoff \in Nat /\ ehdr.e_shnum \in Nat
    BY DEF SaysInv, ReadSoFar
<1>2. at \in Nat /\ at + 5 =< written
    BY <1>1, WhatIsThere
<1>3. Table(FALSE)[i] = Fields(Shdr, Cells(file, written, at, 5))
    BY HeadersAreLong DEF Table, Read
<1>4. TableOf(file)[i] = Fields(Shdr, Cells(file, Len(file.cells), at, 5))
    BY <1>1, HeadersAreLong DEF TableOf
<1> HIDE DEF at
<1> QED BY <1>2, <1>3, <1>4, WhatIsThere, CellsStay

LEMMA TableIsLong ==
    ASSUME NEW failed, ehdr.e_shnum \in Nat
    PROVE  Len(Table(failed)) = ehdr.e_shnum
BY DEF Table

\* The name of a header is there, or no number but zero.
LEMMA NamesAreWholeOrZero ==
    ASSUME SaysInv, pc = "lookup", ~fail, NEW i \in 1 .. ehdr.e_shnum
    PROVE  \/ Table(FALSE)[i].sh_name = 0
           \/ /\ Table(FALSE)[i].sh_name = TableOf(file)[i].sh_name
              /\ ehdr.e_shoff + (i - 1) * 5 =< written
<1> DEFINE at == ehdr.e_shoff + (i - 1) * 5
<1>1. ehdr = EhdrOf(file) /\ ehdr.e_shoff \in Nat /\ ehdr.e_shnum \in Nat
    BY DEF SaysInv, ReadSoFar
<1>2. at \in Nat
    BY <1>1
<1>3. Table(FALSE)[i] = Fields(Shdr, Cells(file, written, at, 5))
    BY HeadersAreLong DEF Table, Read
<1>4. TableOf(file)[i] = Fields(Shdr, Cells(file, Len(file.cells), at, 5))
    BY <1>1, HeadersAreLong DEF TableOf
<1>5. PICK j \in 1 .. 5 : \A cells : Fields(Shdr, cells).sh_name = cells[j]
    BY ShdrIsCells
<1> HIDE DEF at
<1>6. CASE at + j =< written
    <2>1. Cells(file, written, at, 5)[j] = Cells(file, Len(file.cells), at, 5)[j]
        <3>1. at + j =< Len(file.cells)
            BY <1>2, <1>6, WhatIsThere
        <3> QED BY <1>6, <3>1 DEF Cells
    <2>2. at =< written
        BY <1>2, <1>6, WhatIsThere
    <2> QED BY <1>3, <1>4, <1>5, <2>1, <2>2 DEF at
<1>7. CASE ~(at + j =< written)
    <2>1. Cells(file, written, at, 5)[j] = 0
        BY <1>7 DEF Cells
    <2> QED BY <1>3, <1>5, <2>1
<1> QED BY <1>6, <1>7

LEMMA RowsAreThere ==
    ASSUME SaysInv, NEW offset \in Nat, NEW m \in Nat, ~Fails(FALSE, offset, m * 5)
    PROVE  \A j \in 1 .. m : offset + j * 5 =< written
<1>1. m = 0 \/ offset + m * 5 =< written
    BY WhatIsThere DEF Fails
<1> QED BY <1>1, WhatIsThere

\* Where a look-up ends.
LastOf(k) ==
    IF Stops(NamesOf(file), Table(FALSE), k) = {} THEN Len(Table(FALSE))
    ELSE Min(Stops(NamesOf(file), Table(FALSE), k))

\* A look-up that does not fail has the outcome it has in the whole file.
LEMMA LookUpIsWhole ==
    ASSUME SaysInv, pc = "lookup", ~fail, NEW k \in 1 .. 6,
           ~Fails(FALSE, ehdr.e_shoff, LastOf(k) * 5)
    PROVE  /\ Finds(NamesOf(file), Table(FALSE), k) <=> Holds(file, k)
           /\ Holds(file, k) => Table(FALSE)[LastOf(k)] = HeaderOf(file, k)
<1> DEFINE names == NamesOf(file)
           T == Table(FALSE)
           W == TableOf(file)
           n == ehdr.e_shnum
<1>1. ehdr = EhdrOf(file) /\ ehdr.e_shoff \in Nat /\ n \in Nat
    BY DEF SaysInv, ReadSoFar
<1>2. DOMAIN T = 1 .. n /\ DOMAIN W = 1 .. n
    BY <1>1 DEF Table, TableOf
<1>3. CASE Stops(names, T, k) = {}
    <2>1. Len(T) = n
        BY <1>1, TableIsLong
    <2>2. \A i \in 1 .. n : ehdr.e_shoff + i * 5 =< written
        <3>1. LastOf(k) = n
            BY <1>3, <2>1 DEF LastOf
        <3> QED BY <1>1, <3>1, RowsAreThere
    <2>3. \A i \in 1 .. n : T[i] = W[i]
        BY <2>2, RowsAreWhole
    <2>4. Stops(names, W, k) = {}
        <3> HIDE DEF T, W, names, n
        <3> QED BY <1>2, <1>3, <2>3 DEF Stops
    <2> QED BY <1>3, <2>4 DEF Finds, Holds
<1>4. CASE Stops(names, T, k) # {}
    <2> DEFINE i == Min(Stops(names, T, k))
    <2>1. i \in 1 .. n /\ LastOf(k) = i
        <3>1. Stops(names, T, k) \subseteq 1 .. n
            BY <1>2 DEF Stops
        <3>2. i \in Stops(names, T, k)
            <4>1. Stops(names, T, k) \subseteq Nat \ {0}
                <5> HIDE DEF names, T, n
                <5> QED BY <1>1, <3>1
            <4> QED BY <1>4, <4>1, LeastIsLeast
        <3> QED BY <1>4, <3>1, <3>2 DEF LastOf
    <2> HIDE DEF i
    <2>3. \A j \in 1 .. n : j =< i => ehdr.e_shoff + j * 5 =< written
        <3> HIDE DEF n, T, W, names
        <3>1. ~Fails(FALSE, ehdr.e_shoff, i * 5)
            BY <2>1, Zenon
        <3>2. i \in Nat
            BY <1>1, <2>1
        <3>3. \A j \in 1 .. i : ehdr.e_shoff + j * 5 =< written
            BY <1>1, <3>1, <3>2, RowsAreThere
        <3> QED BY <1>1, <3>2, <3>3
    <2>4. \A j \in 1 .. n : j =< i => T[j] = W[j]
        BY <2>3, RowsAreWhole
    <2>5. /\ Min(Stops(names, W, k)) = i
          /\ Finds(names, W, k) => Finds(names, T, k)
          /\ Finds(names, T, k) => Finds(names, W, k)
        <3> HIDE DEF T, W, names, n
        <3>1. \A j \in 1 .. n : j =< i => T[j].sh_name = W[j].sh_name
            BY <2>4
        <3>2. i = Min(Stops(names, T, k))
            BY DEF i
        <3> QED BY <1>1, <1>2, <1>4, <3>1, <3>2, SameLookUp
    <2>6. T[LastOf(k)] = W[i]
        <3> HIDE DEF T, W, n
        <3>1. i =< i
            BY <1>1, <2>1
        <3> QED BY <2>1, <2>4, <3>1
    <2> QED BY <2>5, <2>6, Zenon DEF Holds, HeaderOf, IndexOf
<1> QED BY <1>3, <1>4

\* What the look-up of the version number finds was all there.
LEMMA NumberIsThere ==
    ASSUME SaysInv, pc = "lookup", ~fail, Finds(NamesOf(file), Table(FALSE), 6)
    PROVE  ~Fails(FALSE, ehdr.e_shoff, LastOf(6) * 5)
<1> DEFINE names == NamesOf(file)
           T == Table(FALSE)
           W == TableOf(file)
           n == ehdr.e_shnum
           i == Min(Stops(names, T, 6))
<1>1. /\ ehdr = EhdrOf(file) /\ ehdr.e_shoff \in Nat /\ n \in Nat
      /\ NamesAt(ehdr) + 5 =< written /\ Accepted(EhdrOf(file))
    BY DEF SaysInv, ReadSoFar
<1>2. DOMAIN T = 1 .. n /\ DOMAIN W = 1 .. n
    BY <1>1 DEF Table, TableOf
<1>3. Stops(names, T, 6) # {} /\ ~Outside(names, T[i])
    BY DEF Finds
<1>4. i \in 1 .. n /\ i \in Stops(names, T, 6)
    <2>1. Stops(names, T, 6) \subseteq 1 .. n
        BY <1>2 DEF Stops
    <2>2. Stops(names, T, 6) \subseteq Nat \ {0}
        <3> HIDE DEF names, T, n
        <3> QED BY <1>1, <2>1
    <2> QED BY <1>3, <2>1, <2>2, LeastIsLeast
<1>5. names[T[i].sh_name + 1] = 6
    BY <1>3, <1>4 DEF Stops
<1>6. LastOf(6) = i
    BY <1>3 DEF LastOf
<1> HIDE DEF i
<1>7. LaidOut(file) /\ Len(names) \in Nat
    BY <1>1, WhatIsThere, WholeHeaders
<1>8. T[i].sh_name # 0
    <2> SUFFICES ASSUME T[i].sh_name = 0 PROVE FALSE
        OBVIOUS
    <2>1. ~(0 >= Len(names)) /\ names[0 + 1] = 6
        BY <1>3, <1>5 DEF Outside
    <2>2. names # <<>>
        BY <1>7, <2>1, EmptySeq
    <2>3. names[1] = 0
        BY <1>7, <2>2 DEF LaidOut
    <2> QED BY <2>1, <2>3
<1>9. T[i].sh_name = W[i].sh_name /\ ehdr.e_shoff + (i - 1) * 5 =< written
    BY <1>4, <1>8, NamesAreWholeOrZero
<1>10. \A j \in 1 .. n : j =< i => T[j].sh_name = W[j].sh_name
    <2> SUFFICES ASSUME NEW j \in 1 .. n, j < i
                 PROVE  T[j].sh_name = W[j].sh_name
        <3> HIDE DEF T, W, n
        <3> QED BY <1>1, <1>4, <1>9
    <2>1. ehdr.e_shoff + j * 5 =< written
        BY <1>1, <1>4, <1>9, WhatIsThere
    <2> QED BY <2>1, RowsAreWhole
<1>11. Holds(file, 6) /\ IndexOf(file, 6) = i
    <2>1. Finds(names, W, 6) /\ Min(Stops(names, W, 6)) = i
        <3> HIDE DEF T, W, names, n
        <3>1. Finds(names, T, 6)
            BY DEF T, names
        <3>2. i = Min(Stops(names, T, 6))
            BY DEF i
        <3> QED BY <1>1, <1>2, <1>3, <1>10, <3>1, <3>2, SameLookUp
    <2> QED BY <2>1 DEF Holds, IndexOf
<1>12. ehdr.e_shoff + i * 5 =< NamesAt(ehdr) + 5
    BY <1>1, <1>7, <1>11, SectionsAreSix, HeadersAreLong DEF LaidOut, VersionNum, Sections
<1>13. NamesAt(ehdr) \in Nat
    BY <1>1, WhatIsThere, WholeHeaders
<1> QED BY <1>1, <1>4, <1>6, <1>12, <1>13, WhatIsThere DEF Fails

LEMMA SectionsAreNumbered == DOMAIN Sections = 1 .. 6 /\ VersionNum = 6
BY DEF VersionNum, Sections

LEMMA ReadIsThere ==
    ASSUME SaysInv, NEW failed, NEW offset \in Nat, NEW n \in Nat, ~Fails(failed, offset, n)
    PROVE  n = 0 \/ offset + n =< written
BY WhatIsThere DEF Fails

LEMMA InitSaysInv == InfoInit => SaysInv
<1> SUFFICES ASSUME InfoInit PROVE SaysInv
    OBVIOUS
<1>1. ReadSoFar
    BY DEF InfoInit, ReadSoFar
<1>2. DOMAIN info = {}
    BY DEF InfoInit
<1> QED BY <1>1, <1>2, InitInfoInv DEF SaysInv

\* What is read stays so while the file grows, and while nothing is read.
LEMMA NothingIsRead ==
    ASSUME SaysInv, InfoInv', UNCHANGED <<file, reading, info>>, written' >= written,
           pc' = pc \/ pc' \in {"idle", "throw", "size", "info", "root"}
    PROVE  SaysInv'
<1>1. \A k : FoundIn(file', k) = FoundIn(file, k) /\ SaidBy(file', k) = SaidBy(file, k)
    OBVIOUS
<1>2. written \in Int /\ written' \in Int
    BY WhatIsThere DEF InfoInv, InfoTypeOK
<1>3. ReadSoFar'
    <2>1. CASE pc' = pc
        <3>1. pc \in {"lookup", "strings"} => NamesAt(ehdr) \in Nat
            BY DEF SaysInv, ReadSoFar, NamesAt
        <3> QED BY <1>2, <2>1, <3>1 DEF SaysInv, ReadSoFar, reading
    <2>2. CASE pc' \in {"idle", "throw", "size", "info", "root"}
        BY <2>2 DEF ReadSoFar
    <2> QED BY <2>1, <2>2
<1> QED BY <1>3 DEF SaysInv

LEMMA GivenUpSays ==
    ASSUME SaysInv, InfoInv', file' = file, pc' = "idle" \/ pc' = "exists",
           pc' = "exists" => /\ ~fail' /\ next' = 1 /\ found' = Nothing
                             /\ strings' = Nothing,
           \A i \in DOMAIN info' : i \in DOMAIN info /\ info'[i] = info[i]
    PROVE  SaysInv'
<1>1. ReadSoFar'
    BY DEF ReadSoFar
<1> QED BY <1>1 DEF SaysInv

LEMMA ClientSays ==
    ASSUME SaysInv, NEW o \in InfoObjects, NEW p \in InfoObjects,
           Construct(o) \/ destroy(o) \/ MoveInto(o, p)
    PROVE  SaysInv'
<1>1. InfoInv'
    BY ConstructOwned, DestroyOwned, MoveIntoOwned DEF SaysInv
<1>2. CASE Construct(o)
    BY <1>1, <1>2, GivenUpSays DEF Construct, files
<1>3. CASE destroy(o)
    <2>1. pc' = "idle" /\ file' = file
        BY <1>3 DEF destroy, files
    <2>2. \A i \in DOMAIN info' : i \in DOMAIN info /\ info'[i] = info[i]
        BY <1>3 DEF destroy, Erased
    <2> QED BY <1>1, <2>1, <2>2, GivenUpSays
<1>4. CASE MoveInto(o, p)
    <2>1. pc' = "idle" /\ file' = file
        BY <1>4 DEF MoveInto, files
    <2>2. \A i \in DOMAIN info' : i \in DOMAIN info /\ info'[i] = info[i]
        BY <1>4 DEF MoveInto, Erased
    <2> QED BY <1>1, <2>1, <2>2, GivenUpSays
<1> QED BY <1>2, <1>3, <1>4

LEMMA ExistsSays == SaysInv /\ Exists => SaysInv'
<1> SUFFICES ASSUME SaysInv, Exists PROVE SaysInv'
    OBVIOUS
<1>1. InfoInv'
    BY ReadingOwned DEF SaysInv
<1>2. ReadSoFar'
    BY DEF Exists, SaysInv, ReadSoFar, files, reading
<1> QED BY <1>1, <1>2 DEF SaysInv, Exists, files, objects

LEMMA HeaderSays == SaysInv /\ elf_header => SaysInv'
<1> SUFFICES ASSUME SaysInv, elf_header PROVE SaysInv'
    OBVIOUS
<1>1. InfoInv' /\ file' = file /\ written' = written /\ info' = info
    BY ReadingOwned DEF SaysInv, elf_header, files, objects
<1>2. ~fail /\ next = 1 /\ found = Nothing /\ strings = Nothing
    BY DEF SaysInv, ReadSoFar, elf_header
<1>3. ehdr' = Fields(Ehdr, Cells(file, written, 0, 12))
    BY <1>2, HeadersAreLong DEF elf_header, Read
<1>4. ehdr'.e_shoff \in Nat /\ ehdr'.e_shnum \in Nat /\ ehdr'.e_shstrndx \in Nat
    <2>1. \A i \in 1 .. 12 : Cells(file, written, 0, 12)[i] \in Nat
        BY WhatIsThere, CellsAreNumbers
    <2> QED BY <1>3, <2>1, EhdrTypes
<1>5. ~fail' => ehdr' = EhdrOf(file)
    <2>1. ~fail' => 0 + 12 =< written
        <3>1. fail' = Fails(fail, 0, 12)
            BY HeadersAreLong DEF elf_header
        <3> QED BY <3>1, ReadIsThere
    <2>2. 0 + 12 =< written =>
            Cells(file, written, 0, 12) = Cells(file, Len(file.cells), 0, 12)
        BY WhatIsThere, CellsStay
    <2> QED BY <1>3, <2>1, <2>2, HeadersAreLong DEF EhdrOf
<1>6. pc' \in {"names", "throw"} /\ (pc' = "names" => Accepted(ehdr'))
    BY DEF elf_header
<1>7. pc' = "names" => ehdr'.e_shentsize = 5
    BY <1>6, HeadersAreLong DEF Accepted
<1>8. ReadSoFar'
    <2>1. next' = 1 /\ found' = Nothing /\ strings' = Nothing
        BY <1>2 DEF elf_header
    <2> QED BY <1>1, <1>4, <1>5, <1>6, <1>7, <2>1 DEF ReadSoFar
<1> QED BY <1>1, <1>8 DEF SaysInv

LEMMA NamesSays == SaysInv /\ elf_section_name_header => SaysInv'
<1> SUFFICES ASSUME SaysInv, elf_section_name_header PROVE SaysInv'
    OBVIOUS
<1>1. /\ InfoInv' /\ file' = file /\ written' = written /\ info' = info
      /\ ehdr' = ehdr /\ next' = next /\ found' = found /\ strings' = strings
      /\ pc' \in {"lookup", "throw"}
    BY ReadingOwned DEF SaysInv, elf_section_name_header, files, objects
<1>2. CASE pc' = "throw"
    BY <1>1, <1>2 DEF SaysInv, ReadSoFar
<1>3. CASE pc' = "lookup"
    <2>1. ~fail /\ next = 1 /\ found = Nothing /\ strings = Nothing
        BY <1>3 DEF SaysInv, ReadSoFar, elf_section_name_header
    <2>2. /\ ehdr.e_shoff \in Nat /\ ehdr.e_shnum \in Nat /\ ehdr.e_shstrndx \in Nat
          /\ ehdr.e_shentsize = 5 /\ ehdr = EhdrOf(file) /\ Accepted(EhdrOf(file))
        BY <2>1 DEF SaysInv, ReadSoFar, elf_section_name_header
    <2>3. NamesAt(ehdr) \in Nat
        BY <2>2 DEF NamesAt
    <2>4. /\ nhdr' = Fields(Shdr, Cells(file, written, NamesAt(ehdr), 5))
          /\ fail' = Fails(fail, NamesAt(ehdr), 5)
          /\ nhdr'.sh_type = Elf.STRTAB
        BY <1>3, <2>1, HeadersAreLong DEF elf_section_name_header, Read
    <2>5. nhdr'.sh_offset \in Nat /\ nhdr'.sh_size \in Nat
        <3>1. \A i \in 1 .. 5 : Cells(file, written, NamesAt(ehdr), 5)[i] \in Nat
            BY <2>3, WhatIsThere, CellsAreNumbers
        <3> QED BY <2>4, <3>1, ShdrTypes
    <2>6. ~fail' => NamesAt(ehdr) + 5 =< written
        BY <2>3, <2>4, ReadIsThere
    <2>7. ~fail' => nhdr' = NhdrOf(file)
        <3>1. NamesAt(ehdr) + 5 =< written =>
                Cells(file, written, NamesAt(ehdr), 5)
                    = Cells(file, Len(file.cells), NamesAt(ehdr), 5)
            BY <2>3, WhatIsThere, CellsStay
        <3> QED BY <2>2, <2>4, <2>6, <3>1, HeadersAreLong DEF NhdrOf
    <2>8. DOMAIN found = 1 .. 6 /\ \A k \in 1 .. 6 : found[k] = <<>>
        BY <2>1, SectionsAreNumbered DEF Nothing
    <2>9. \A k \in 1 .. 6 : ~(k < next)
        BY <2>1
    <2>10. ReadSoFar'
        BY <1>1, <1>3, <2>1, <2>2, <2>4, <2>5, <2>6, <2>7, <2>8, <2>9 DEF ReadSoFar
    <2> QED BY <1>1, <2>10 DEF SaysInv
<1> QED BY <1>1, <1>2, <1>3

\* A look-up, by what it reads.
LEMMA LookUpStep ==
    ASSUME elf_section_header, NEW names, NEW failed, NEW last,
           names = Read(fail, nhdr.sh_offset, nhdr.sh_size),
           failed = Fails(fail, nhdr.sh_offset, nhdr.sh_size),
           last = IF Stops(names, Table(failed), next) = {} THEN Len(Table(failed))
                  ELSE Min(Stops(names, Table(failed), next))
    PROVE  /\ fail' = Fails(failed, ehdr.e_shoff, last * 5)
           /\ found' = IF Finds(names, Table(failed), next)
                       THEN [found EXCEPT ![next] = <<Table(failed)[last]>>] ELSE found
<1>1. fail' = Fails(failed, ehdr.e_shoff, last * Len(Shdr))
    BY Zenon DEF elf_section_header
<1>2. found' = IF Finds(names, Table(failed), next)
               THEN [found EXCEPT ![next] = <<Table(failed)[last]>>] ELSE found
    BY Zenon DEF elf_section_header
<1> QED BY <1>1, <1>2, HeadersAreLong

LEMMA LookUpSays == SaysInv /\ elf_section_header => SaysInv'
<1> SUFFICES ASSUME SaysInv, elf_section_header PROVE SaysInv'
    OBVIOUS
<1>1. /\ InfoInv' /\ file' = file /\ written' = written /\ info' = info
      /\ ehdr' = ehdr /\ nhdr' = nhdr /\ strings' = strings /\ next' = next + 1
      /\ pc = "lookup" /\ pc' = "lookup" /\ next =< Len(Sections)
    <2>1. InfoInv'
        BY ReadingOwned DEF SaysInv
    <2> QED BY <2>1, Zenon DEF elf_section_header, files, objects
<1>2. next \in 1 .. 6
    BY <1>1, SectionsAreSix DEF SaysInv, InfoInv, InfoTypeOK
<1>3. DOMAIN found = 1 .. 6 /\ strings = Nothing
    BY <1>1 DEF SaysInv, ReadSoFar
<1>4. SUFFICES /\ DOMAIN found' = 1 .. 6
               /\ fail' => found'[6] = <<>>
               /\ ~fail' => /\ ~fail
                            /\ \A k \in 1 .. 6 :
                                 found'[k] = IF k < next + 1 THEN FoundIn(file, k) ELSE <<>>
    <2>1. ReadSoFar'
        BY <1>1, <1>3, <1>4 DEF SaysInv, ReadSoFar
    <2> QED BY <1>1, <2>1 DEF SaysInv
<1>5. CASE fail
    <2> DEFINE names == Read(TRUE, nhdr.sh_offset, nhdr.sh_size)
    <2>1. fail = TRUE
        BY <1>5, WhatIsThere
    <2>2. Fails(fail, nhdr.sh_offset, nhdr.sh_size) = TRUE
        BY <1>5, FailsOrNot DEF Fails
    <2>3. \E last : /\ fail' = Fails(TRUE, ehdr.e_shoff, last * 5)
                    /\ found' = IF Finds(names, Table(TRUE), next)
                                THEN [found EXCEPT ![next] = <<Table(TRUE)[last]>>] ELSE found
        BY <2>1, <2>2, LookUpStep
    <2>4. found' = found
        BY <1>1, <1>2, <1>5, <2>3, NothingIsFound
    <2>5. fail'
        BY <2>3 DEF Fails
    <2>6. found[6] = <<>>
        BY <1>1, <1>5 DEF SaysInv, ReadSoFar
    <2> QED BY <1>3, <2>4, <2>5, <2>6
<1>6. CASE ~fail
    <2> DEFINE names == NamesOf(file)
               T == Table(FALSE)
               last == LastOf(next)
    <2>1. /\ Read(fail, nhdr.sh_offset, nhdr.sh_size) = names
          /\ Fails(fail, nhdr.sh_offset, nhdr.sh_size) = FALSE
        BY <1>1, <1>6, NamesAreWhole, FailsOrNot
    <2>2. /\ fail' = Fails(FALSE, ehdr.e_shoff, last * 5)
          /\ found' = IF Finds(names, T, next)
                      THEN [found EXCEPT ![next] = <<T[last]>>] ELSE found
        <3>1. last = IF Stops(names, T, next) = {} THEN Len(T) ELSE Min(Stops(names, T, next))
            BY DEF LastOf
        <3> HIDE DEF last
        <3> QED BY <2>1, <3>1, LookUpStep
    <2>3. \A k \in 1 .. 6 : found[k] = IF k < next THEN FoundIn(file, k) ELSE <<>>
        BY <1>1, <1>6 DEF SaysInv, ReadSoFar
    <2> HIDE DEF names, T, last
    <2>4. DOMAIN found' = 1 .. 6 /\ \A k \in 1 .. 6 : k # next => found'[k] = found[k]
        BY <1>2, <1>3, <2>2
    <2>5. ASSUME fail' PROVE found'[6] = <<>>
        <3>1. next = 6 => ~Finds(names, T, next)
            BY <1>1, <1>6, <2>2, <2>5, NumberIsThere DEF names, T, last
        <3>2. found'[6] = found[6]
            BY <1>2, <2>2, <2>4, <3>1
        <3> QED BY <1>2, <2>3, <3>2
    <2>6. ASSUME ~fail'
          PROVE  \A k \in 1 .. 6 :
                    found'[k] = IF k < next + 1 THEN FoundIn(file, k) ELSE <<>>
        <3>1. /\ Finds(names, T, next) <=> Holds(file, next)
              /\ Holds(file, next) => T[last] = HeaderOf(file, next)
            BY <1>1, <1>2, <1>6, <2>2, <2>6, LookUpIsWhole DEF names, T, last
        <3>2. found[next] = <<>>
            BY <1>2, <2>3
        <3>3. found'[next] = FoundIn(file, next)
            BY <1>2, <1>3, <2>2, <3>1, <3>2 DEF FoundIn
        <3> QED BY <1>2, <2>3, <2>4, <3>3
    <2> QED BY <1>6, <2>4, <2>5, <2>6
<1> QED BY <1>5, <1>6

LEMMA RequireSays == SaysInv /\ RequireVersionNum => SaysInv'
<1> SUFFICES ASSUME SaysInv, RequireVersionNum PROVE SaysInv'
    OBVIOUS
<1>1. /\ InfoInv' /\ file' = file /\ written' = written /\ info' = info
      /\ UNCHANGED <<fail, ehdr, nhdr, found, strings>>
      /\ pc = "lookup" /\ next > 6 /\ next' = 1
      /\ pc' = IF found[6] = <<>> THEN "throw" ELSE "strings"
    BY ReadingOwned, SectionsAreSix, SectionsAreNumbered
        DEF SaysInv, RequireVersionNum, files, objects
<1>2. CASE pc' = "throw"
    BY <1>1, <1>2 DEF SaysInv, ReadSoFar
<1>3. CASE pc' = "strings"
    <2>1. found[6] # <<>> /\ ~fail
        BY <1>1, <1>3 DEF SaysInv, ReadSoFar
    <2>2. \A k \in 1 .. 6 : found[k] = FoundIn(file, k)
        <3>1. next \in Int
            BY DEF SaysInv, InfoInv, InfoTypeOK
        <3> QED BY <1>1, <2>1, <3>1 DEF SaysInv, ReadSoFar
    <2>3. Holds(file, 6)
        BY <2>1, <2>2 DEF FoundIn
    <2>4. DOMAIN strings = 1 .. 6 /\ \A k \in 1 .. 6 : strings[k] = <<>>
        BY <1>1, SectionsAreNumbered DEF SaysInv, ReadSoFar, Nothing
    <2>5. \A k \in 1 .. 6 : ~(k < 1)
        OBVIOUS
    <2>6. ReadSoFar'
        BY <1>1, <1>3, <2>1, <2>2, <2>3, <2>4, <2>5 DEF SaysInv, ReadSoFar
    <2> QED BY <1>1, <2>6 DEF SaysInv
<1> QED BY <1>1, <1>2, <1>3

\* The data of our sections is there.
LEMMA DataIsThere ==
    ASSUME SaysInv, pc = "strings", NEW k \in 1 .. 6, Holds(file, k)
    PROVE  /\ found[k] # <<>> /\ found[k][1] = HeaderOf(file, k)
           /\ Section(HeaderOf(file, k)) = ContentOf(file, k)
           /\ Fails(fail, HeaderOf(file, k).sh_offset, HeaderOf(file, k).sh_size) = FALSE
<1> DEFINE hdr == HeaderOf(file, k)
<1>1. /\ ~fail /\ NamesAt(ehdr) + 5 =< written /\ ehdr = EhdrOf(file)
      /\ Accepted(EhdrOf(file)) /\ found[k] = FoundIn(file, k)
    BY DEF SaysInv, ReadSoFar
<1>2. hdr.sh_offset \in Nat /\ hdr.sh_size \in Nat /\ NamesAt(ehdr) \in Nat
    BY <1>1, WhatIsThere, OurHeaders, WholeHeaders
<1>3. EndOf(hdr) =< NamesAt(ehdr) + 5
    BY <1>1, WhatIsThere, SectionsAreNumbered, HeadersAreLong DEF LaidOut
<1> HIDE DEF hdr
<1>4. hdr.sh_offset + hdr.sh_size =< written
    BY <1>1, <1>2, <1>3, WhatIsThere DEF EndOf
<1>5. Section(hdr) = Cells(file, Len(file.cells), hdr.sh_offset, hdr.sh_size)
    <2>1. Section(hdr) = Cells(file, written, hdr.sh_offset, hdr.sh_size)
        BY <1>1 DEF Section, Read
    <2> QED BY <1>2, <1>4, <2>1, WhatIsThere, CellsStay
<1>6. ~Fails(fail, hdr.sh_offset, hdr.sh_size)
    BY <1>1, <1>2, <1>4, WhatIsThere DEF Fails
<1> QED BY <1>1, <1>5, <1>6, FailsOrNot DEF FoundIn, ContentOf, hdr

LEMMA StringSays == SaysInv /\ ReadString => SaysInv'
<1> SUFFICES ASSUME SaysInv, ReadString PROVE SaysInv'
    OBVIOUS
<1>1. /\ InfoInv' /\ file' = file /\ written' = written /\ info' = info
      /\ UNCHANGED <<ehdr, nhdr, found>>
      /\ pc = "strings" /\ pc' = "strings" /\ next < 6 /\ next' = next + 1
    BY ReadingOwned, SectionsAreNumbered DEF SaysInv, ReadString, files, objects
<1>2. next \in 1 .. 5
    BY <1>1 DEF SaysInv, InfoInv, InfoTypeOK
<1>3. /\ ~fail /\ found[next] = FoundIn(file, next) /\ DOMAIN strings = 1 .. 6
      /\ \A k \in 1 .. 6 : strings[k] = IF k < next THEN SaidBy(file, k) ELSE <<>>
    BY <1>1, <1>2 DEF SaysInv, ReadSoFar
<1>4. SUFFICES /\ ~fail' /\ DOMAIN strings' = 1 .. 6
               /\ strings'[next] = SaidBy(file, next)
               /\ \A k \in 1 .. 6 : k # next => strings'[k] = strings[k]
    <2>1. \A k \in 1 .. 6 :
            strings'[k] = IF k < next + 1 THEN SaidBy(file, k) ELSE <<>>
        BY <1>2, <1>3, <1>4
    <2>2. next' =< 6
        BY <1>1, <1>2
    <2>3. ReadSoFar'
        BY <1>1, <1>3, <1>4, <2>1, <2>2 DEF SaysInv, ReadSoFar
    <2> QED BY <1>1, <2>3 DEF SaysInv
<1>5. CASE ~Holds(file, next)
    <2>1. found[next] = <<>> /\ SaidBy(file, next) = <<>>
        BY <1>3, <1>5 DEF FoundIn, SaidBy
    <2>2. strings' = strings /\ fail' = fail
        BY <2>1 DEF ReadString
    <2>3. strings[next] = <<>>
        BY <1>2, <1>3
    <2> QED BY <1>3, <2>1, <2>2, <2>3
<1>6. CASE Holds(file, next)
    <2>1. /\ found[next] # <<>> /\ found[next][1] = HeaderOf(file, next)
          /\ Section(HeaderOf(file, next)) = ContentOf(file, next)
          /\ Fails(fail, HeaderOf(file, next).sh_offset, HeaderOf(file, next).sh_size) = FALSE
        <3>1. next \in 1 .. 6
            BY <1>2
        <3> QED BY <1>1, <1>6, <3>1, DataIsThere
    <2>2. /\ strings' = [strings EXCEPT ![next] = TrimNulls(Section(found[next][1]))]
          /\ fail' = Fails(fail, found[next][1].sh_offset, found[next][1].sh_size)
        BY <2>1 DEF ReadString
    <2>3. SaidBy(file, next) = TrimNulls(ContentOf(file, next))
        BY <1>2, <1>6, SectionsAreNumbered DEF SaidBy
    <2> QED BY <1>2, <1>3, <2>1, <2>2, <2>3
<1> QED BY <1>5, <1>6

LEMMA NumberSays == SaysInv /\ ReadVersionNum => SaysInv'
<1> SUFFICES ASSUME SaysInv, ReadVersionNum PROVE SaysInv'
    OBVIOUS
<1> DEFINE hdr == HeaderOf(file, 6)
<1>1. InfoInv' /\ file' = file /\ pc = "strings" /\ next = 6
    BY NumberOwned, SectionsAreNumbered DEF SaysInv, ReadVersionNum, files
<1>2. /\ ~fail /\ Holds(file, 6) /\ DOMAIN strings = 1 .. 6
      /\ \A k \in 1 .. 6 : strings[k] = IF k < next THEN SaidBy(file, k) ELSE <<>>
    BY <1>1 DEF SaysInv, ReadSoFar
<1>3. /\ found[6][1] = hdr /\ Section(hdr) = ContentOf(file, 6)
    BY <1>1, <1>2, DataIsThere
<1> HIDE DEF hdr
<1>4. CASE hdr.sh_size # NumSize
    <2>1. pc' = "throw" /\ info' = info
        BY <1>3, <1>4, SectionsAreNumbered DEF ReadVersionNum, objects
    <2>2. ReadSoFar'
        BY <2>1 DEF ReadSoFar
    <2> QED BY <1>1, <2>1, <2>2 DEF SaysInv
<1>5. CASE hdr.sh_size = NumSize
    <2>1. /\ strings' = [strings EXCEPT ![6] = ContentOf(file, 6)]
          /\ Constructed([strings |-> strings', data |-> None])
        BY <1>3, <1>5, SectionsAreNumbered DEF ReadVersionNum
    <2>2. \A k \in 1 .. 6 : strings'[k] = SaidBy(file, k)
        <3>1. strings'[6] = SaidBy(file, 6)
            BY <1>2, <2>1, SectionsAreNumbered DEF SaidBy
        <3>2. \A k \in 1 .. 6 : k # 6 => strings'[k] = strings[k] /\ k < next
            BY <1>1, <1>2, <2>1
        <3> QED BY <1>2, <3>1, <3>2
    <2>3. strings' = [k \in 1 .. 6 |-> SaidBy(file, k)]
        BY <1>2, <2>1, <2>2
    <2>4. file.says = [k \in 1 .. 6 |-> SaidBy(file, k)]
        <3>1. LaidOut(file)
            BY <1>1, <1>2, WhatIsThere
        <3>2. file.says =
                [k \in DOMAIN Sections |->
                    IF k \notin {j \in DOMAIN Sections : Holds(file, j)} THEN <<>>
                    ELSE IF k = VersionNum THEN ContentOf(file, k)
                    ELSE TrimNulls(ContentOf(file, k))]
            BY <1>2, <1>5, <3>1, SectionsAreNumbered DEF LaidOut, hdr
        <3> QED BY <3>2, SectionsAreNumbered DEF SaidBy
    <2>5. \A i \in DOMAIN info' : info'[i].strings = file.says /\ file.says[6] # <<>>
        <3>1. \A i \in DOMAIN info' :
                IF i = new THEN info'[i].strings = strings'
                ELSE i \in DOMAIN info /\ info'[i] = info[i]
            BY <2>1 DEF Constructed
        <3>2. Len(file.says[6]) = 8
            <4>1. file.says[6] = Cells(file, Len(file.cells), hdr.sh_offset, 8)
                BY <1>2, <1>5, <2>4, SectionsAreNumbered
                    DEF SaidBy, ContentOf, hdr, NumSize
            <4>2. hdr.sh_offset \in Nat
                <5>1. Accepted(EhdrOf(file))
                    BY <1>1, <1>2 DEF SaysInv, ReadSoFar
                <5> QED BY <1>2, <5>1, WhatIsThere, OurHeaders DEF hdr
            <4>3. Len(Cells(file, Len(file.cells), hdr.sh_offset, 8)) = 8
                BY <4>2, WhatIsThere, CellsOfWhole
            <4> QED BY <4>1, <4>3
        <3>3. file.says[6] # <<>>
            BY <3>2, EmptySeq
        <3> QED BY <2>3, <2>4, <3>1, <3>3 DEF SaysInv
    <2>6. ReadSoFar'
        BY <2>1 DEF Constructed, ReadSoFar
    <2> QED BY <1>1, <2>5, <2>6 DEF SaysInv
<1> QED BY <1>4, <1>5

LEMMA ResourceSays == SaysInv /\ VerQueryValueA => SaysInv'
<1> SUFFICES ASSUME SaysInv, VerQueryValueA PROVE SaysInv'
    OBVIOUS
<1>1. InfoInv'
    BY ResourceOwned DEF SaysInv
<1>2. CASE pc' = "throw" /\ UNCHANGED <<files, objects, pointers, heap, undefined>>
    <2>1. ReadSoFar'
        BY <1>2 DEF ReadSoFar
    <2> QED BY <1>1, <1>2, <2>1 DEF SaysInv, files, objects
<1>3. CASE Constructed([strings |-> file.says, data |-> data])
    <2>1. file' = file /\ pc' = "idle"
        BY <1>3 DEF Constructed, files
    <2>2. \A i \in DOMAIN info' :
            info'[i].strings = file.says \/ (i \in DOMAIN info /\ info'[i] = info[i])
        BY <1>3 DEF Constructed
    <2>4. pc' = "idle" => file.says[6] # <<>>
        BY SectionsAreNumbered DEF VerQueryValueA
    <2>3. ReadSoFar'
        BY <2>1 DEF ReadSoFar
    <2> QED BY <1>1, <2>1, <2>2, <2>3, <2>4 DEF SaysInv
<1> QED BY <1>2, <1>3 DEF VerQueryValueA

\* Exceptions, Windows' calls, and the file as it grows.
LEMMA OtherSays ==
    SaysInv /\ (\/ Throw \/ GetFileVersionInfoSizeW \/ GetFileVersionInfoW \/ Write
                \/ UNCHANGED infoVars)
    => SaysInv'
<1> SUFFICES ASSUME SaysInv,
                    \/ Throw \/ GetFileVersionInfoSizeW \/ GetFileVersionInfoW \/ Write
                    \/ UNCHANGED infoVars
             PROVE  SaysInv'
    OBVIOUS
<1>1. InfoInv'
    BY ThrowOwned, SizeOwned, ReadingOwned, WriteOwned, StutterOwned DEF SaysInv
<1>2. /\ UNCHANGED <<file, reading, info>>
      /\ pc' = pc \/ pc' \in {"idle", "throw", "size", "info", "root"}
      /\ written' = written \/ written' > written
    BY DEF Throw, GetFileVersionInfoSizeW, GetFileVersionInfoW, Write, infoVars,
           files, objects
<1>3. written' >= written
    BY <1>1, <1>2, WhatIsThere DEF InfoInv, InfoTypeOK
<1> QED BY <1>1, <1>2, <1>3, NothingIsRead

LEMMA ReadingSays == SaysInv /\ Reading => SaysInv'
BY ExistsSays, HeaderSays, NamesSays, LookUpSays, RequireSays, StringSays, NumberSays,
   ResourceSays, OtherSays DEF Reading

LEMMA NextSaysInv == SaysInv /\ [DumpverNext]_all => SaysInv'
<1> SUFFICES ASSUME SaysInv, [DumpverNext]_all PROVE SaysInv'
    OBVIOUS
<1>1. CASE Write
    BY <1>1, OtherSays
<1>2. CASE ParseArgs \/ PrintInfo
    BY <1>2, OtherSays DEF ParseArgs, PrintInfo
<1>3. CASE Load
    BY <1>3, OtherSays, ClientSays, ClientsAssumption DEF Load
<1>4. CASE Loading
    BY <1>4, ReadingSays DEF Loading
<1>5. CASE Return
    BY <1>5, ClientSays, ClientsAssumption DEF Return
<1>6. CASE Client
    BY <1>6, ClientSays, ClientsAssumption DEF Client
<1>7. CASE UNCHANGED all
    BY <1>7, OtherSays DEF all
<1> QED BY <1>1, <1>2, <1>3, <1>4, <1>5, <1>6, <1>7 DEF DumpverNext

\* However the file grows between the reads, and at whatever length it is seen,
\* an object says what was embedded in the whole of it: a read that comes up
\* short ends in an exception, not in a version of zeros or a missing name, for
\* any files that are laid out as linkers do (version_info.cpp:222-332, 426-512).
THEOREM InfoSaysWhatWasEmbedded == DumpverSpec => []SaysWhatWasEmbedded
<1>1. DumpverInit => SaysInv
    BY InitSaysInv, Zenon DEF DumpverInit
<1>2. SaysInv => SaysWhatWasEmbedded
    BY DEF SaysInv, InfoInv, OwnedOnce, SaysWhatWasEmbedded
<1> QED BY <1>1, <1>2, NextSaysInv, PTL DEF DumpverSpec

-----------------------------------------------------------------------------
(* oa-dumpver: what is printed *)

\* While the constructor runs for info it has a file to read; then info is
\* there; then what was embedded is printed.
DumpInv ==
    /\ SaysInv
    /\ status = "loading" => pc # "idle" /\ target = "info" /\ opts.path = "FILE"
    /\ status = "print" => Has("info") /\ opts.path = "FILE"
    /\ DumpsWhatWasEmbedded

\* The constructor goes on, throws, or gives its object what it has read.
LEMMA HowReadingEnds ==
    ASSUME SaysInv, Reading
    PROVE  \/ pc' # "idle" /\ target' = target
           \/ pc = "throw" /\ pc' = "idle"
           \/ pc' = "idle" /\ impl'[target] # None
<1>1. CASE Exists \/ RequireVersionNum \/ ReadString \/ GetFileVersionInfoW
           \/ GetFileVersionInfoSizeW
    BY <1>1 DEF Exists, RequireVersionNum, ReadString, GetFileVersionInfoW,
                GetFileVersionInfoSizeW, pointers
<1>2. CASE elf_header \/ elf_section_name_header
    BY <1>2 DEF elf_header, elf_section_name_header, pointers
<1>3. CASE elf_section_header
    <2>1. UNCHANGED <<pointers, pc>> /\ pc = "lookup"
        BY <1>3, Zenon DEF elf_section_header
    <2> QED BY <2>1 DEF pointers
<1>4. CASE Throw
    BY <1>4 DEF Throw
<1>5. CASE ReadVersionNum \/ VerQueryValueA
    <2>1. /\ new # None /\ target \in InfoObjects
          /\ impl \in [InfoObjects -> Addresses \cup {None}]
        <3>1. pc # "idle"
            BY <1>5 DEF ReadVersionNum, VerQueryValueA
        <3> QED BY <3>1, ConstantsAssumption
                DEF SaysInv, InfoInv, InfoTypeOK, UnderConstruction
    <2>2. \/ pc' = "throw" /\ UNCHANGED pointers
          \/ \E result : Constructed(result)
        BY <1>5 DEF ReadVersionNum, VerQueryValueA
    <2> QED BY <2>1, <2>2 DEF Constructed, pointers
<1> QED BY <1>1, <1>2, <1>3, <1>4, <1>5 DEF Reading

LEMMA MembersAre ==
    ASSUME NEW o
    PROVE  /\ company(o) = info[impl[o]].strings[1]
           /\ description(o) = info[impl[o]].strings[2]
           /\ filename(o) = info[impl[o]].strings[3]
           /\ product(o) = info[impl[o]].strings[4]
           /\ version(o) = info[impl[o]].strings[5]
           /\ version_num(o) = info[impl[o]].strings[6]
<1>1. /\ (CHOOSE k \in DOMAIN Sections : Sections[k] = "company") = 1
      /\ (CHOOSE k \in DOMAIN Sections : Sections[k] = "description") = 2
      /\ (CHOOSE k \in DOMAIN Sections : Sections[k] = "filename") = 3
    BY DEF Sections
<1>2. /\ (CHOOSE k \in DOMAIN Sections : Sections[k] = "product") = 4
      /\ (CHOOSE k \in DOMAIN Sections : Sections[k] = "version") = 5
      /\ (CHOOSE k \in DOMAIN Sections : Sections[k] = "version_num") = 6
    BY DEF Sections
<1> QED BY <1>1, <1>2
        DEF Member, company, description, filename, product, version, version_num

\* Two digits are a byte.
LEMMA DigitsAreBytes ==
    ASSUME NEW o, version_num(o) \in Seq(Nat), Len(version_num(o)) = 8, NEW k \in 1 .. 8
    PROVE  version_hex(o)[2 * k - 1] * 16 + version_hex(o)[2 * k] = version_num(o)[9 - k]
<1> DEFINE byte == version_num(o)[9 - k]
<1>1. byte \in Nat
    <2>1. 9 - k \in 1 .. Len(version_num(o))
        OBVIOUS
    <2> QED BY <2>1, ElementOfSeq
<1>2. /\ 2 * k - 1 \in 1 .. 16 /\ (2 * k - 1) % 2 = 1 /\ 8 - ((2 * k - 1 - 1) \div 2) = 9 - k
      /\ 2 * k \in 1 .. 16 /\ (2 * k) % 2 # 1 /\ 8 - ((2 * k - 1) \div 2) = 9 - k
    OBVIOUS
<1>3. version_hex(o)[2 * k - 1] = byte \div 16
    BY <1>2 DEF version_hex, NumSize
<1>4. version_hex(o)[2 * k] = byte % 16
    BY <1>2 DEF version_hex, NumSize
<1> HIDE DEF byte
<1>5. (byte \div 16) * 16 + (byte % 16) = byte
    BY <1>1
<1> QED BY <1>3, <1>4, <1>5 DEF byte

LEMMA InitDumpInv == DumpverInit => DumpInv
<1> SUFFICES ASSUME DumpverInit PROVE DumpInv
    OBVIOUS
<1>1. status \in {"client", "parse"}
    BY DEF DumpverInit
<1>2. SaysInv
    BY InitSaysInv, Zenon DEF DumpverInit
<1> QED BY <1>1, <1>2 DEF DumpInv, DumpsWhatWasEmbedded

LEMMA PrintDumps == DumpInv /\ PrintInfo => DumpInv'
<1> SUFFICES ASSUME DumpInv, PrintInfo PROVE DumpInv'
    OBVIOUS
<1>1. /\ status = "print" /\ status' = "success" /\ UNCHANGED <<infoVars, opts>>
      /\ printed' = <<product("info"), company("info"), description("info"),
                      version_hex("info"), version("info"), filename("info")>>
    BY DEF PrintInfo
<1>2. file' = file
    BY <1>1 DEF infoVars, files
<1>3. opts.path = "FILE" /\ impl["info"] \in DOMAIN info
    BY <1>1, ClientsAssumption DEF DumpInv, SaysInv, InfoInv, OwnedOnce, Has
<1>4. info[impl["info"]].strings = file.says /\ file.says[6] # <<>>
    BY <1>3 DEF DumpInv, SaysInv
<1>5. file.says[6] \in Seq(Nat) /\ Len(file.says[6]) = 8
    <2>1. file \in Files
        BY DEF DumpInv, SaysInv, InfoInv, InfoTypeOK
    <2>2. file.says \in [1 .. 6 -> Seq(Nat)] /\ Len(file.says[6]) \in {0, 8}
        BY <2>1, ConstantsAssumption, SectionsAreNumbered DEF NumSize
    <2>3. file.says[6] \in Seq(Nat) /\ Len(file.says[6]) # 0
        BY <1>4, <2>2, EmptySeq
    <2> QED BY <2>2, <2>3
<1>6. \A k \in 1 .. 8 :
        version_hex("info")[2 * k - 1] * 16 + version_hex("info")[2 * k] = file.says[6][9 - k]
    <2> DEFINE num == version_num("info")
    <2>1. num = file.says[6]
        BY <1>4, MembersAre
    <2>2. num \in Seq(Nat) /\ Len(num) = 8
        BY <1>5, <2>1
    <2>3. ASSUME NEW k \in 1 .. 8
          PROVE  version_hex("info")[2 * k - 1] * 16 + version_hex("info")[2 * k] = num[9 - k]
        BY <2>2, DigitsAreBytes
    <2> HIDE DEF num
    <2> QED BY <2>1, <2>3
<1>7. /\ printed'[1] = file.says[4] /\ printed'[2] = file.says[1]
      /\ printed'[3] = file.says[2] /\ printed'[4] = version_hex("info")
      /\ printed'[5] = file.says[5] /\ printed'[6] = file.says[3]
    BY <1>1, <1>4, MembersAre
<1>8. \A k \in {1, 2, 3} : printed'[k] = file.says[<<4, 1, 2>>[k]]
    BY <1>7
<1>9. DumpsWhatWasEmbedded'
    BY <1>1, <1>2, <1>3, <1>6, <1>7, <1>8 DEF DumpsWhatWasEmbedded, NumSize
<1>10. SaysInv'
    BY <1>1, OtherSays DEF DumpInv
<1> QED BY <1>1, <1>9, <1>10 DEF DumpInv

\* What dumpver printed stays what was embedded.
LEMMA DumpStays ==
    ASSUME DumpInv, SaysInv', UNCHANGED <<main_vars, file>>,
           status \in {"loading", "print"} => UNCHANGED <<pc, target, impl>>
    PROVE  DumpInv'
<1>1. DumpsWhatWasEmbedded'
    BY DEF DumpInv, DumpsWhatWasEmbedded, main_vars
<1>2. status' = "loading" => pc' # "idle" /\ target' = "info" /\ opts'.path = "FILE"
    BY DEF DumpInv, main_vars
<1>3. status' = "print" => Has("info")' /\ opts'.path = "FILE"
    BY DEF DumpInv, main_vars, Has
<1> QED BY <1>1, <1>2, <1>3 DEF DumpInv

LEMMA NextDumpInv == DumpInv /\ [DumpverNext]_all => DumpInv'
<1> SUFFICES ASSUME DumpInv, [DumpverNext]_all PROVE DumpInv'
    OBVIOUS
<1>1. SaysInv'
    BY NextSaysInv DEF DumpInv
<1>2. CASE Write /\ UNCHANGED main_vars
    BY <1>1, <1>2, DumpStays DEF Write, objects, pointers
<1>3. CASE ParseArgs
    <2>1. status' \in {"failure", "success", "load"}
          /\ (status' = "success" => opts'.help \/ opts'.version)
        BY <1>3 DEF ParseArgs
    <2> QED BY <1>1, <2>1 DEF DumpInv, DumpsWhatWasEmbedded
<1>4. CASE Load
    <2>1. \/ /\ status' = "loading" /\ opts' = opts /\ opts.path = "FILE"
             /\ pc' = "exists" /\ target' = "info"
          \/ status' = "failure"
        BY <1>4 DEF Load, Construct
    <2> QED BY <1>1, <2>1 DEF DumpInv, DumpsWhatWasEmbedded
<1>5. CASE Loading
    <2>1. CASE status = "client"
        BY <1>1, <1>5, <2>1 DEF Loading, DumpInv, DumpsWhatWasEmbedded
    <2>2. CASE status = "loading"
        <3>1. /\ Reading /\ opts' = opts /\ target = "info" /\ opts.path = "FILE"
              /\ status' = IF pc' = "idle" THEN IF pc = "throw" THEN "failure" ELSE "print"
                           ELSE "loading"
            BY <1>5, <2>2 DEF Loading, DumpInv
        <3>2. \/ pc' # "idle" /\ target' = "info"
              \/ pc = "throw" /\ pc' = "idle"
              \/ pc' = "idle" /\ impl'["info"] # None
            BY <3>1, HowReadingEnds DEF DumpInv
        <3> QED BY <1>1, <3>1, <3>2 DEF DumpInv, DumpsWhatWasEmbedded, Has
    <2> QED BY <1>5, <2>1, <2>2 DEF Loading
<1>6. CASE PrintInfo
    BY <1>6, PrintDumps
<1>7. CASE Return
    BY <1>1, <1>7, DumpStays DEF Return, destroy, files
<1>8. CASE Client
    <2>1. status = "client" /\ status' = "client"
        BY <1>8 DEF Client, main_vars
    <2> QED BY <1>1, <2>1 DEF DumpInv, DumpsWhatWasEmbedded
<1>9. CASE UNCHANGED all
    BY <1>1, <1>9, DumpStays DEF all, main_vars, infoVars, files, objects, pointers
<1> QED BY <1>2, <1>3, <1>4, <1>5, <1>6, <1>7, <1>8, <1>9 DEF DumpverNext

\* A dump that ends well printed what was embedded in the file, digit by digit,
\* or had no file to print, for any files that are laid out as linkers do and
\* however they grow while they are read (dumpver.cpp:106-141).
THEOREM DumpsAreRight == DumpverSpec => []DumpsWhatWasEmbedded
<1>1. DumpInv => DumpsWhatWasEmbedded
    BY DEF DumpInv
<1> QED BY <1>1, InitDumpInv, NextDumpInv, PTL DEF DumpverSpec

-----------------------------------------------------------------------------
(* Version information: a dump comes to an end.  The safety half of          *)
(* EveryDumpEnds: however the file is and grows, every step of a constructor *)
(* is one less of at most 17, and of a dump one less of at most 20.          *)

\* How many steps the constructor still takes at most, and main.
Places == {"idle", "exists", "throw", "header", "names", "lookup", "strings",
           "size", "info", "root"}
LeftAt(place, k) ==
    CASE place = "exists"  -> 17
      [] place = "header"  -> 16
      [] place = "names"   -> 15
      [] place = "lookup"  -> 15 - k
      [] place = "strings" -> 8 - k
      [] place = "size"    -> 4
      [] place = "info"    -> 3
      [] place = "root"    -> 2
      [] place = "throw"   -> 1
      [] place = "idle"    -> 0
ReadingLeft == LeftAt(pc, next)
DumpLeft ==
    CASE status = "parse"   -> 20
      [] status = "load"    -> 19
      [] status = "loading" -> ReadingLeft + 1
      [] status = "print"   -> 1
      [] OTHER              -> 0

\* A step of the constructor or of main brings its end nearer, the growth of
\* the file does not put it off.
EndIsNearer ==
    /\ Reading => ReadingLeft' < ReadingLeft
    /\ ParseArgs \/ Load \/ PrintInfo \/ (Loading /\ status = "loading") => DumpLeft' < DumpLeft
    /\ Write /\ UNCHANGED main_vars => DumpLeft' = DumpLeft /\ ReadingLeft' = ReadingLeft

\* While main waits for the constructor, that is at a place where an action of
\* it comes next: of the strings, none is left behind the version number.
GoesOnReading ==
    /\ status = "loading" => pc # "idle"
    /\ pc = "strings" => next =< VersionNum

LEMMA LeftIsNatural ==
    ASSUME NEW place \in Places, NEW k \in 1 .. 7
    PROVE  LeftAt(place, k) \in 0 .. 17 /\ (place # "idle" => LeftAt(place, k) >= 1)
BY DEF LeftAt, Places

\* What an action of the constructor does to its place and to next.
LEMMA PlacesOfReading ==
    ASSUME InfoTypeOK, Reading
    PROVE  \/ pc = "exists" /\ pc' \in {"throw", "header", "size"}
           \/ pc = "header" /\ pc' \in {"names", "throw"} /\ next' = next
           \/ pc = "names" /\ pc' \in {"lookup", "throw"} /\ next' = next
           \/ pc = "lookup" /\ pc' = "lookup" /\ next =< 6 /\ next' = next + 1
           \/ pc = "lookup" /\ pc' \in {"strings", "throw"} /\ next = 7 /\ next' = 1
           \/ pc = "strings" /\ pc' = "strings" /\ next < 6 /\ next' = next + 1
           \/ pc = "strings" /\ pc' \in {"throw", "idle"} /\ next =< 6
           \/ pc = "size" /\ pc' \in {"throw", "info"}
           \/ pc = "info" /\ pc' \in {"throw", "root"}
           \/ pc = "root" /\ pc' \in {"throw", "idle"}
           \/ pc = "throw" /\ pc' = "idle"
<1>1. VersionNum = 6 /\ Len(Sections) = 6 /\ next \in 1 .. 7
    BY SectionsAreSix DEF VersionNum, InfoTypeOK
<1>2. CASE Exists \/ Throw
    BY <1>2 DEF Exists, Throw
<1>3. CASE elf_header
    BY <1>3, Zenon DEF elf_header
<1>4. CASE elf_section_name_header
    BY <1>4, Zenon DEF elf_section_name_header
<1>5. CASE elf_section_header
    <2>1. pc = "lookup" /\ next =< Len(Sections) /\ next' = next + 1 /\ pc' = pc
        BY <1>5, Zenon DEF elf_section_header
    <2> QED BY <1>1, <2>1
<1>6. CASE RequireVersionNum
    BY <1>1, <1>6 DEF RequireVersionNum
<1>7. CASE ReadString
    <2>1. pc = "strings" /\ next < VersionNum /\ next' = next + 1 /\ pc' = pc
        BY <1>7, Zenon DEF ReadString
    <2> QED BY <1>1, <2>1
<1>8. CASE ReadVersionNum
    <2>1. pc = "strings" /\ next = VersionNum /\ pc' \in {"throw", "idle"}
        BY <1>8, Zenon DEF ReadVersionNum, Constructed
    <2> QED BY <1>1, <2>1
<1>9. CASE GetFileVersionInfoSizeW \/ GetFileVersionInfoW
    BY <1>9 DEF GetFileVersionInfoSizeW, GetFileVersionInfoW
<1>10. CASE VerQueryValueA
    BY <1>10 DEF VerQueryValueA, Constructed
<1> QED BY <1>2, <1>3, <1>4, <1>5, <1>6, <1>7, <1>8, <1>9, <1>10 DEF Reading

LEMMA ReadingIsNearer ==
    ASSUME InfoTypeOK, Reading
    PROVE  ReadingLeft' < ReadingLeft
<1>1. next \in 1 .. 7
    BY SectionsAreSix DEF InfoTypeOK
<1>2. \/ pc = "exists" /\ pc' \in {"throw", "header", "size"}
      \/ pc = "header" /\ pc' \in {"names", "throw"} /\ next' = next
      \/ pc = "names" /\ pc' \in {"lookup", "throw"} /\ next' = next
      \/ pc = "lookup" /\ pc' = "lookup" /\ next =< 6 /\ next' = next + 1
      \/ pc = "lookup" /\ pc' \in {"strings", "throw"} /\ next = 7 /\ next' = 1
      \/ pc = "strings" /\ pc' = "strings" /\ next < 6 /\ next' = next + 1
      \/ pc = "strings" /\ pc' \in {"throw", "idle"} /\ next =< 6
      \/ pc = "size" /\ pc' \in {"throw", "info"}
      \/ pc = "info" /\ pc' \in {"throw", "root"}
      \/ pc = "root" /\ pc' \in {"throw", "idle"}
      \/ pc = "throw" /\ pc' = "idle"
    BY PlacesOfReading
<1> QED BY <1>1, <1>2 DEF ReadingLeft, LeftAt

LEMMA OneMoreOnBoth == ASSUME NEW m \in Int, NEW n \in Int, n < m PROVE n + 1 < m + 1
OBVIOUS

LEMMA DumpIsNearer ==
    ASSUME InfoInv, InfoInv', [DumpverNext]_all
    PROVE  [EndIsNearer]_all
<1>1. /\ InfoTypeOK
      /\ pc \in Places /\ next \in 1 .. 7 /\ pc' \in Places /\ next' \in 1 .. 7
    BY SectionsAreSix DEF InfoInv, InfoTypeOK, Places
<1>2. ReadingLeft \in 0 .. 17 /\ ReadingLeft' \in 0 .. 17
    BY <1>1, LeftIsNatural DEF ReadingLeft
<1>3. Reading => ReadingLeft' < ReadingLeft
    BY <1>1, ReadingIsNearer
<1>4. ParseArgs => DumpLeft' < DumpLeft
    <2> SUFFICES ASSUME ParseArgs PROVE DumpLeft' < DumpLeft
        OBVIOUS
    <2>1. status = "parse" /\ status' \in {"failure", "success", "load"}
        BY DEF ParseArgs
    <2> QED BY <2>1 DEF DumpLeft
<1>5. Load => DumpLeft' < DumpLeft
    <2> SUFFICES ASSUME Load PROVE DumpLeft' < DumpLeft
        OBVIOUS
    <2>1. status = "load" /\ (status' = "failure" \/ (status' = "loading" /\ pc' = "exists"))
        BY DEF Load, Construct
    <2> QED BY <2>1 DEF DumpLeft, ReadingLeft, LeftAt
<1>6. PrintInfo => DumpLeft' < DumpLeft
    BY DEF PrintInfo, DumpLeft
<1>7. Loading /\ status = "loading" => DumpLeft' < DumpLeft
    <2> SUFFICES ASSUME Loading, status = "loading" PROVE DumpLeft' < DumpLeft
        OBVIOUS
    <2>1. Reading /\ (status' = "loading" \/ status' \in {"failure", "print"})
        BY DEF Loading
    <2>2. ReadingLeft' < ReadingLeft
        BY <1>3, <2>1
    <2> HIDE DEF ReadingLeft
    <2>3. DumpLeft = ReadingLeft + 1
        BY DEF DumpLeft
    <2>4. CASE status' = "loading"
        <3>1. DumpLeft' = ReadingLeft' + 1
            BY <2>4 DEF DumpLeft
        <3>2. ReadingLeft \in Int /\ ReadingLeft' \in Int
            BY <1>2
        <3>3. ReadingLeft' + 1 < ReadingLeft + 1
            BY <2>2, <3>2, OneMoreOnBoth, Zenon
        <3> QED BY <2>3, <3>1, <3>3
    <2>5. CASE status' \in {"failure", "print"}
        <3>1. pc # "idle"
            BY <2>1, PlacesOfReading, <1>1
        <3>2. ReadingLeft >= 1
            BY <1>1, <3>1, LeftIsNatural DEF ReadingLeft
        <3>3. DumpLeft' \in {0, 1}
            BY <2>5 DEF DumpLeft
        <3> QED BY <1>2, <2>3, <3>2, <3>3
    <2> QED BY <2>1, <2>4, <2>5
<1>8. Write /\ UNCHANGED main_vars => DumpLeft' = DumpLeft /\ ReadingLeft' = ReadingLeft
    <2> SUFFICES ASSUME Write, UNCHANGED main_vars
                 PROVE  DumpLeft' = DumpLeft /\ ReadingLeft' = ReadingLeft
        OBVIOUS
    <2>1. pc' = pc /\ next' = next /\ status' = status
        BY DEF Write, reading, main_vars
    <2> QED BY <2>1 DEF DumpLeft, ReadingLeft
<1> QED BY <1>3, <1>4, <1>5, <1>6, <1>7, <1>8 DEF EndIsNearer

LEMMA StringsAreLeft ==
    ASSUME InfoInv, pc = "strings" => next =< VersionNum, [DumpverNext]_all
    PROVE  pc' = "strings" => next' =< VersionNum
<1>1. VersionNum = 6 /\ next \in 1 .. 7
    BY SectionsAreSix DEF VersionNum, InfoInv, InfoTypeOK
<1>2. CASE Reading
    BY <1>1, <1>2, PlacesOfReading DEF InfoInv
<1>3. CASE ~Reading
    <2>1. (pc' = pc /\ next' = next) \/ pc' \in {"idle", "exists"}
        BY <1>3 DEF DumpverNext, Write, ParseArgs, Load, Loading, PrintInfo, Return, Client,
                    Construct, destroy, MoveInto, all, infoVars, reading
    <2> QED BY <2>1
<1> QED BY <1>2, <1>3

\* A dump comes to an end in at most 20 steps of its own, whatever the file is
\* like and however it grows (dumpver.cpp:106-141, version_info.cpp:306-331):
\* every step brings it nearer, and the constructor it waits for always has a
\* next one.
THEOREM DumpsComeToAnEnd ==
    DumpverSpec => [](GoesOnReading /\ DumpLeft \in 0 .. 20) /\ [][EndIsNearer]_all
<1> DEFINE StringsLeft == pc = "strings" => next =< VersionNum
<1>1. DumpverInit => StringsLeft
    BY DEF DumpverInit, InfoInit
<1>2. DumpInv /\ StringsLeft /\ [DumpverNext]_all => StringsLeft'
    BY StringsAreLeft DEF DumpInv, SaysInv
<1>3. DumpInv /\ StringsLeft => GoesOnReading /\ DumpLeft \in 0 .. 20
    <2> SUFFICES ASSUME DumpInv, StringsLeft PROVE GoesOnReading /\ DumpLeft \in 0 .. 20
        OBVIOUS
    <2>1. pc \in Places /\ next \in 1 .. 7
        BY SectionsAreSix DEF DumpInv, SaysInv, InfoInv, InfoTypeOK, Places
    <2>2. ReadingLeft \in 0 .. 17
        BY <2>1, LeftIsNatural DEF ReadingLeft
    <2>3. DumpLeft \in 0 .. 20
        BY <2>2 DEF DumpLeft
    <2> QED BY <2>3 DEF GoesOnReading, DumpInv
<1>4. DumpInv /\ DumpInv' /\ [DumpverNext]_all => [EndIsNearer]_all
    BY DumpIsNearer DEF DumpInv, SaysInv
<1> HIDE DEF StringsLeft
<1> QED BY <1>1, <1>2, <1>3, <1>4, InitDumpInv, NextDumpInv, PTL DEF DumpverSpec
===============================================================================
