------------------------------- MODULE Bindings -------------------------------
(***************************************************************************)
(* The owners of what is not the library's: Python's objects, R's values   *)
(* and a stream's fill.  A process embeds one of the languages or none,    *)
(* so a behaviour uses one of the three.                                   *)
(***************************************************************************)
EXTENDS PyObject, Sequences

CONSTANTS
    Locals, Values, MaxReleased,    \* of Sexp
    Guards, Fills                   \* of ScopeExit

ASSUME BindingsAssumption ==
    /\ NULL \notin Values
    /\ MaxReleased \in Nat

VARIABLES
    user,       \* who runs: "python", "r" or "stream"
    order, sexps, protected, released, crossed,
    phase, kind, call, del, calls, ends, letGo, blocks,
    printing, guard, fill, saved, users

R == INSTANCE Sexp WITH obj <- sexps
X == INSTANCE ScopeExit WITH released <- letGo

r == <<order, sexps, protected, released, crossed>>
stream == <<phase, kind, call, del, calls, ends, letGo, blocks,
            printing, guard, fill, saved, users>>
bindings == <<user, vars, r, stream>>

\* The initial values of the guards that are not used are of no interest.
BindingsInit ==
    /\ user \in {"python", "r", "stream"}
    /\ Init /\ R!Init /\ X!Init
    /\ user # "stream" =>
          /\ fill = "0" /\ kind = [g \in Guards |-> "large"]
          /\ guard = CHOOSE g \in Guards : TRUE

BindingsNext ==
    \/ user = "python" /\ Next /\ UNCHANGED <<user, r, stream>>
    \/ user = "r"      /\ R!Next /\ UNCHANGED <<user, vars, stream>>
    \/ user = "stream" /\ X!Next /\ UNCHANGED <<user, vars, r>>
BindingsSpec == BindingsInit /\ [][BindingsNext]_bindings

\* R's stack is balanced, and protects what the sexps hold as long as every
\* value stays in the order of its holders (r.h:50-134).
Protection == R!TypeOK /\ R!Protection

\* What a scope has changed is undone once when it is left, whatever throws
\* (scope_exit.h:56-138, date.cpp:403-419).
UndoneOnce == X!TypeOK /\ X!UndoneOnce
===============================================================================
