------------------------------- MODULE PyObject -------------------------------
(***************************************************************************)
(* py_object of include/oa/python.h: C++ handles that own references to    *)
(* Python's counted objects.  An action is one constructor, assignment or  *)
(* destructor; Python itself is external and holds references of its own.  *)
(* An object that was freed is never made again, so that a pointer to it   *)
(* stays known as dangling.                                                *)
(***************************************************************************)
EXTENDS Integers, FiniteSets

CONSTANTS
    Handles,        \* py_objects: locals, temporaries and members
    Objects,        \* Python objects that can be made
    NULL,           \* nullptr: no object, or the error of a Python call
    MaxInside       \* bound: Python's own references to one object

ASSUME PyObjectAssumption ==
    /\ IsFiniteSet(Handles)
    /\ NULL \notin Objects
    /\ MaxInside \in Nat

VARIABLES
    obj,        \* the obj_ of each living py_object
    refs,       \* ob_refcnt of each object ever made
    inside,     \* how many of the references are Python's own
    freed,      \* objects whose count has reached zero
    wild        \* freed objects whose count was written again
vars == <<obj, refs, inside, freed, wild>>

Living == DOMAIN obj
Unmade == Objects \ DOMAIN refs

\* Py_XINCREF and Py_XDECREF: nothing for nullptr.  A freed object has a count
\* too, of whatever its memory holds.
Py_XINCREF(counts, p) == IF p = NULL THEN counts ELSE [counts EXCEPT ![p] = @ + 1]
Py_XDECREF(counts, p) == IF p = NULL THEN counts ELSE [counts EXCEPT ![p] = @ - 1]
Zero(counts) == {o \in DOMAIN counts : counts[o] = 0}

\* Writing the counts of a set of pointers when the objects in gone are freed.
Touch(pointers, gone) == wild' = wild \cup (pointers \cap gone)

Without(h) == [g \in Living \ {h} |-> obj[g]]
With(h, p) == [g \in Living \cup {h} |-> IF g = h THEN p ELSE obj[g]]

TypeOK ==
    /\ Living \subseteq Handles
    /\ DOMAIN refs \subseteq Objects
    /\ \A h \in Living : obj[h] \in DOMAIN refs \cup {NULL}
    /\ \A o \in DOMAIN refs : refs[o] \in Int
    /\ inside \in [DOMAIN refs -> 0 .. MaxInside]
    /\ wild \subseteq freed /\ freed \subseteq DOMAIN refs

Init ==
    /\ obj = [h \in {} |-> NULL]
    /\ refs = [o \in {} |-> 0]
    /\ inside = [o \in {} |-> 0]
    /\ freed = {} /\ wild = {}

-----------------------------------------------------------------------------
(* Constructors, assignments and the destructor *)

\* py_object() and py_object(nullptr), and every constructor from a call into
\* Python that reported an error.
Null(h) ==
    /\ h \notin Living
    /\ obj' = With(h, NULL)
    /\ UNCHANGED <<refs, inside, freed, wild>>

\* py_object(PyObject*) and the constructors from text: the handle takes the
\* reference that the call made, to a new object ...
OwnNew(h, o) ==
    /\ h \notin Living /\ o \in Unmade
    /\ obj' = With(h, o)
    /\ refs' = [p \in DOMAIN refs \cup {o} |-> IF p = o THEN 1 ELSE refs[p]]
    /\ inside' = [p \in DOMAIN refs \cup {o} |-> IF p = o THEN 0 ELSE inside[p]]
    /\ UNCHANGED <<freed, wild>>

\* ... or to one that Python keeps: a module, a class, a string's own str().
\* py_object(inc, o) makes the reference itself, of one that Python lends.
Own(h, o) ==
    /\ h \notin Living
    /\ o \in DOMAIN refs /\ inside[o] > 0
    /\ obj' = With(h, o)
    /\ refs' = Py_XINCREF(refs, o)
    /\ UNCHANGED <<inside, freed, wild>>

Copy(h, g) ==
    /\ h \notin Living /\ g \in Living
    /\ obj' = With(h, obj[g])
    /\ refs' = Py_XINCREF(refs, obj[g])
    /\ Touch({obj[g]}, freed)
    /\ UNCHANGED <<inside, freed>>

Move(h, g) ==
    /\ h \notin Living /\ g \in Living
    /\ obj' = [With(h, obj[g]) EXCEPT ![g] = NULL]
    /\ UNCHANGED <<refs, inside, freed, wild>>

\* CopyAssign without Py_XDECREF.
CopyAssignKeeps(h, g) ==
    /\ {h, g} \subseteq Living
    /\ obj' = [obj EXCEPT ![h] = obj[g]]
    /\ refs' = Py_XINCREF(refs, obj[g])
    /\ Touch({obj[g]}, freed)
    /\ UNCHANGED <<inside, freed>>

\* operator=(const py_object&): the old reference is given up first, whichever
\* handle is assigned.  The copy then counts again what may just have been freed.
CopyAssign(h, g) ==
    LET down == Py_XDECREF(refs, obj[h])
        gone == freed \cup Zero(down)
    IN  /\ {h, g} \subseteq Living
        /\ obj' = [obj EXCEPT ![h] = obj[g]]
        /\ refs' = Py_XINCREF(down, obj[g])
        /\ freed' = gone
        /\ wild' = wild \cup ({obj[h]} \cap freed) \cup ({obj[g]} \cap gone)
        /\ UNCHANGED inside

\* operator=(py_object&&): a handle moved to itself gives its object up.
MoveAssign(h, g) ==
    LET down == Py_XDECREF(refs, obj[h])
    IN  /\ {h, g} \subseteq Living
        /\ obj' = [obj EXCEPT ![h] = obj[g], ![g] = NULL]
        /\ refs' = down
        /\ freed' = freed \cup Zero(down)
        /\ Touch({obj[h]}, freed)
        /\ UNCHANGED inside

\* ~py_object().
Destroy(h) ==
    LET down == Py_XDECREF(refs, obj[h])
    IN  /\ h \in Living
        /\ obj' = Without(h)
        /\ refs' = down
        /\ freed' = freed \cup Zero(down)
        /\ Touch({obj[h]}, freed)
        /\ UNCHANGED inside

-----------------------------------------------------------------------------
(* Python *)

\* Python makes an object for itself: an argument of a call.
PyNew(o) ==
    /\ o \in Unmade /\ MaxInside > 0
    /\ refs' = [p \in DOMAIN refs \cup {o} |-> IF p = o THEN 1 ELSE refs[p]]
    /\ inside' = [p \in DOMAIN refs \cup {o} |-> IF p = o THEN 1 ELSE inside[p]]
    /\ UNCHANGED <<obj, freed, wild>>

\* A function of Python's is passed a handle, through operator PyObject*, and
\* keeps the object: in a tuple, in the Path made of a string.
PyKeep(h) ==
    /\ h \in Living /\ obj[h] # NULL /\ obj[h] \notin freed
    /\ inside[obj[h]] < MaxInside
    /\ refs' = Py_XINCREF(refs, obj[h])
    /\ inside' = [inside EXCEPT ![obj[h]] = @ + 1]
    /\ UNCHANGED <<obj, freed, wild>>

PyDrop(o) ==
    LET down == Py_XDECREF(refs, o)
    IN  /\ o \in DOMAIN refs /\ inside[o] > 0
        /\ inside' = [inside EXCEPT ![o] = @ - 1]
        /\ refs' = down
        /\ freed' = freed \cup Zero(down)
        /\ Touch({o}, freed)
        /\ UNCHANGED obj

Next ==
    \/ \E h \in Handles : Null(h) \/ Destroy(h) \/ PyKeep(h)
    \/ \E h \in Handles, o \in Objects : OwnNew(h, o) \/ Own(h, o)
    \/ \E h, g \in Handles :
          Copy(h, g) \/ Move(h, g) \/ CopyAssign(h, g) \/ MoveAssign(h, g)
    \/ \E o \in Objects : PyNew(o) \/ PyDrop(o)
Spec == Init /\ [][Next]_vars

-----------------------------------------------------------------------------
(* What must hold *)

Holders(o) == {h \in Living : obj[h] = o}

\* An object's count is the number of its handles and of Python's own
\* references, through every copy, move, assignment and destruction in any
\* order (python.h:126-183), so it lives exactly as long as somebody holds it.
\* An object that was counted again after it was freed is excused.
CountsAreHolders ==
    \A o \in DOMAIN refs \ wild :
        /\ refs[o] = Cardinality(Holders(o)) + inside[o]
        /\ o \in freed <=> refs[o] = 0

\* Freed memory is counted again by nothing but a handle copied to itself while
\* it is the only holder: Py_XDECREF comes before the copy (python.h:148-149).
WildOnlyBySelfCopy ==
    [][\A o \in wild' \ wild :
          /\ refs[o] = 1 /\ o \notin freed
          /\ \E h \in Living \cap Living' : obj[h] = o /\ obj'[h] = o]_vars

\* Objects live exactly as long as somebody holds them, and their memory is not
\* written later, except through a handle copied to itself (python.h:126-183).
ObjectsLiveWhileHeld == [](TypeOK /\ CountsAreHolders) /\ WildOnlyBySelfCopy
=============================================================================
