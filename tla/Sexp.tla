--------------------------------- MODULE Sexp ---------------------------------
(***************************************************************************)
(* sexp of include/oa/r.h: C++ locals that protect R's values from its     *)
(* garbage collector.  R keeps a stack of protected values and can only    *)
(* unprotect its top, whichever value a sexp holds.  Locals are destroyed  *)
(* in the reverse of the order they were made in.                          *)
(***************************************************************************)
EXTENDS Integers, Sequences, FiniteSets

CONSTANTS
    Locals,         \* sexps
    Values,         \* R's values
    NULL,           \* nullptr
    MaxReleased     \* bound: released values a caller has yet to unprotect

VARIABLES
    order,          \* the living sexps, in the order they were made
    obj,            \* what each of them holds
    protected,      \* R's stack of protected values, the top last
    released,       \* released values that are still protected
    crossed         \* whether a value has left the order of its holders
vars == <<order, obj, protected, released, crossed>>

Living == {order[i] : i \in DOMAIN order}
Holding == {s \in Living : obj[s] # NULL}

Rf_protect(stack, v) == Append(stack, v)
Rf_unprotect(stack) == SubSeq(stack, 1, Len(stack) - 1)

\* sexp::unprotect: the top is unprotected for a sexp that holds anything.
Unprotect(s) == IF obj[s] = NULL THEN protected ELSE Rf_unprotect(protected)

Made(s, v) ==
    /\ s \notin Living
    /\ order' = Append(order, s)
    /\ obj' = [obj EXCEPT ![s] = v]

\* s is made before t.
Before(s, t) ==
    \E i, j \in DOMAIN order : i < j /\ order[i] = s /\ order[j] = t

TypeOK ==
    /\ order \in Seq(Locals)
    /\ obj \in [Locals -> Values \cup {NULL}]
    /\ protected \in Seq(Values)
    /\ released \in 0 .. MaxReleased
    /\ crossed \in BOOLEAN

Init ==
    /\ order = <<>> /\ obj = [s \in Locals |-> NULL]
    /\ protected = <<>> /\ released = 0 /\ crossed = FALSE

\* sexp().
Default(s) == Made(s, NULL) /\ UNCHANGED <<protected, released, crossed>>

\* sexp(SEXP).
Protect(s, v) ==
    /\ Made(s, v)
    /\ protected' = Rf_protect(protected, v)
    /\ UNCHANGED <<released, crossed>>

\* The value of t passes to s.  It leaves the order of its holders when another
\* value was protected after the one of t, or s, or when s held one already.
Passes(s, t) ==
    crossed' = (\/ crossed
                \/ s # t /\ {s, t} \subseteq Holding
                \/ /\ {s, t} \cap Holding # {}
                   /\ \E u \in Holding \ {s, t} : Before(s, u) \/ Before(t, u))

\* sexp(sexp&&).
MoveConstruct(s, t) ==
    /\ t \in Living /\ s \notin Living
    /\ order' = Append(order, s)
    /\ obj' = [obj EXCEPT ![s] = obj[t], ![t] = NULL]
    /\ Passes(s, t)
    /\ UNCHANGED <<protected, released>>

\* MoveAssign without unprotect().
MoveAssignKeeps(s, t) ==
    /\ {s, t} \subseteq Living
    /\ obj' = [obj EXCEPT ![s] = obj[t], ![t] = NULL]
    /\ Passes(s, t)
    /\ UNCHANGED <<order, protected, released>>

\* operator=(sexp&&): it is the top that is unprotected for what s held.
MoveAssign(s, t) ==
    /\ {s, t} \subseteq Living
    /\ protected' = Unprotect(s)
    /\ obj' = [obj EXCEPT ![s] = obj[t], ![t] = NULL]
    /\ Passes(s, t)
    /\ UNCHANGED <<order, released>>

\* ~sexp() of the local made last.
Destroy ==
    /\ order # <<>>
    /\ LET s == order[Len(order)] IN
       /\ protected' = Unprotect(s)
       /\ obj' = [obj EXCEPT ![s] = NULL]
    /\ order' = SubSeq(order, 1, Len(order) - 1)
    /\ UNCHANGED <<released, crossed>>

\* release(): the value stays protected, and the caller has to unprotect it.
Release(s) ==
    /\ s \in Holding /\ released < MaxReleased
    /\ obj' = [obj EXCEPT ![s] = NULL]
    /\ released' = released + 1
    /\ UNCHANGED <<order, protected, crossed>>

\* The caller does so while some sexp may hold what was protected later.
CallerUnprotects ==
    /\ released > 0
    /\ released' = released - 1
    /\ protected' = Rf_unprotect(protected)
    /\ crossed' = (crossed \/ Holding # {})
    /\ UNCHANGED <<order, obj>>

Next ==
    \/ \E s \in Locals : Default(s) \/ Release(s)
    \/ \E s \in Locals, v \in Values : Protect(s, v)
    \/ \E s, t \in Locals : MoveConstruct(s, t) \/ MoveAssign(s, t)
    \/ Destroy \/ CallerUnprotects
Spec == Init /\ [][Next]_vars

-----------------------------------------------------------------------------
(* What must hold *)

\* As many values are protected as sexps hold one, or were released and not
\* unprotected since: a wrapper that returns leaves R's stack as it found it.
Balanced == Len(protected) = Cardinality(Holding) + released

\* Until a value leaves the order of its holders, what a sexp holds is safe
\* from the collector, although every unprotect pops the top of the stack and
\* not the sexp's own value (r.h:130-134).
HeldAreProtected ==
    ~crossed =>
        \A v \in Values :
            Cardinality({s \in Holding : obj[s] = v})
                =< Cardinality({i \in DOMAIN protected : protected[i] = v})

\* Both: R's stack is balanced, and protects what is held.
Protection == Balanced /\ HeldAreProtected
=============================================================================
