------------------------------ MODULE ScopeExit ------------------------------
(***************************************************************************)
(* scope_exit of include/oa/scope_exit.h, a callable that is invoked when  *)
(* a scope is left, and its one user: operator<< of Date (date.cpp), which *)
(* sets a stream's fill character and has a scope_exit put it back.        *)
(*                                                                         *)
(* A callable is an lvalue that the guard only points to, or an rvalue:    *)
(* small enough for the guard's own buffer, or copied to the heap.         *)
(***************************************************************************)
EXTENDS Integers, FiniteSets

CONSTANTS
    Guards,         \* scope_exits, each used once
    Fills           \* fill characters that a stream's user sets

Kinds == {"lvalue", "small", "large"}

VARIABLES
    phase,      \* of a guard: "none" yet, "live", "gone", or "failed" to be made
    kind,       \* of its callable
    call, del,  \* whether call_ and del_ are set
    calls,      \* how often the callable was invoked
    ends,       \* how often the guard's callable was destroyed
    released,   \* guards that were released
    blocks,     \* guards for whose callable the heap holds a block
    printing,   \* where operator<< is: "no", "guarded" or "filled"
    guard,      \* its scope_exit
    fill,       \* the stream's fill character
    saved,      \* the one the callable has captured
    users       \* the one the stream's user has set last
guards == <<phase, kind, call, del, calls, ends, released, blocks>>
stream == <<printing, guard, fill, saved, users>>
vars == <<guards, stream>>

TypeOK ==
    /\ phase \in [Guards -> {"none", "live", "gone", "failed"}]
    /\ kind \in [Guards -> Kinds]
    /\ call \in [Guards -> BOOLEAN] /\ del \in [Guards -> BOOLEAN]
    /\ calls \in [Guards -> Nat] /\ ends \in [Guards -> Nat]
    /\ blocks \subseteq Guards /\ released \subseteq Guards
    /\ printing \in {"no", "guarded", "filled"} /\ guard \in Guards
    /\ {fill, saved, users} \subseteq Fills \cup {"0"}

Init ==
    /\ phase = [g \in Guards |-> "none"]
    /\ kind \in [Guards -> Kinds]
    /\ call = [g \in Guards |-> FALSE] /\ del = [g \in Guards |-> FALSE]
    /\ calls = [g \in Guards |-> 0] /\ ends = [g \in Guards |-> 0]
    /\ blocks = {} /\ released = {}
    /\ printing = "no" /\ guard \in Guards
    /\ fill \in Fills /\ saved = fill /\ users = fill

-----------------------------------------------------------------------------
(* scope_exit *)

\* Both constructors: only an rvalue needs a deleter, only a large one a block.
Construct(g) ==
    /\ phase[g] = "none"
    /\ phase' = [phase EXCEPT ![g] = "live"]
    /\ call' = [call EXCEPT ![g] = TRUE]
    /\ del' = [del EXCEPT ![g] = kind[g] # "lvalue"]
    /\ blocks' = IF kind[g] = "large" THEN blocks \cup {g} ELSE blocks
    /\ UNCHANGED <<kind, calls, ends, released>>

\* new throws bad_alloc: there is no guard, and nothing will be invoked.
ConstructThrows(g) ==
    /\ phase[g] = "none" /\ kind[g] = "large"
    /\ phase' = [phase EXCEPT ![g] = "failed"]
    /\ UNCHANGED <<kind, call, del, calls, ends, released, blocks>>

\* del_: the callable's destructor, in the buffer or in the block.  The block
\* itself is not given back.
Deleted(g) == [ends EXCEPT ![g] = @ + (IF del[g] THEN 1 ELSE 0)]

\* ~scope_exit(): the callable may throw, which is swallowed, so that it is
\* deleted in any case.
Destroy(g) ==
    /\ phase[g] = "live"
    /\ phase' = [phase EXCEPT ![g] = "gone"]
    /\ calls' = [calls EXCEPT ![g] = @ + (IF call[g] THEN 1 ELSE 0)]
    /\ ends' = Deleted(g)
    /\ UNCHANGED <<kind, call, del, released, blocks>>

\* Release without resetting del_.
ReleaseKeepsDeleter(g) ==
    /\ phase[g] = "live"
    /\ call' = [call EXCEPT ![g] = FALSE]
    /\ ends' = Deleted(g)
    /\ released' = released \cup {g}
    /\ UNCHANGED <<phase, kind, del, calls, blocks>>

Release(g) ==
    /\ phase[g] = "live"
    /\ call' = [call EXCEPT ![g] = FALSE]
    /\ ends' = Deleted(g)
    /\ del' = [del EXCEPT ![g] = FALSE]
    /\ released' = released \cup {g}
    /\ UNCHANGED <<phase, kind, calls, blocks>>

-----------------------------------------------------------------------------
(* operator<< of Date *)

\* scope_exit _{[&out, c = out.fill()] {...}}: a reference and a character do
\* not fit into a pointer.
Guard(g) ==
    /\ printing = "no" /\ kind[g] = "large"
    /\ Construct(g)
    /\ guard' = g /\ saved' = fill
    /\ printing' = "guarded"
    /\ UNCHANGED <<fill, users>>

\* The guard cannot be made and operator<< throws, with the fill untouched.
GuardThrows(g) == printing = "no" /\ ConstructThrows(g) /\ UNCHANGED stream

SetFill ==
    /\ printing = "guarded"
    /\ fill' = "0"
    /\ printing' = "filled"
    /\ UNCHANGED <<guard, saved, users, guards>>

\* The fields are written, or one of them makes the stream throw: the scope is
\* left either way, and the callable sets the fill it has captured.
Leave ==
    /\ printing = "filled"
    /\ Destroy(guard)
    /\ fill' = IF call[guard] THEN saved ELSE fill
    /\ printing' = "no"
    /\ UNCHANGED <<guard, saved, users>>

\* The stream's user.
UserSetsFill ==
    /\ printing = "no"
    /\ fill' \in Fills /\ users' = fill'
    /\ UNCHANGED <<printing, guard, saved, guards>>

\* A guard of another scope, which operator<< knows nothing of.
Other(g) == printing # "no" => g # guard

Next ==
    \/ \E g \in Guards : Guard(g) \/ GuardThrows(g)
    \/ SetFill \/ Leave \/ UserSetsFill
    \/ \E g \in Guards :
          /\ Other(g) /\ UNCHANGED stream
          /\ Construct(g) \/ ConstructThrows(g) \/ Destroy(g) \/ Release(g)
Spec == Init /\ [][Next]_vars

-----------------------------------------------------------------------------
(* What must hold *)

\* Once its scope is left a callable was invoked exactly once, or never if its
\* guard was released or could not be made; whatever it throws (110-138).
InvokedOnce ==
    \A g \in Guards :
        calls[g] = IF phase[g] = "gone" /\ g \notin released THEN 1 ELSE 0

\* A copy of a callable is destroyed exactly once, at the release or with the
\* guard; one that belongs to the caller never.
DestroyedOnce ==
    \A g \in Guards :
        ends[g] = IF kind[g] # "lvalue" /\ (phase[g] = "gone" \/ g \in released)
                  THEN 1 ELSE 0

\* Whenever no date is being printed the stream has the fill its user has set,
\* however operator<< was left (date.cpp:403-419).
FillIsRestored == printing = "no" => fill = users

\* The memory of a large callable is never given back, although its destructor
\* runs in it (83-92): a block is lost for each date that is printed, and
\* nothing else is.
OnlyBlocksAreLost ==
    \A g \in Guards : g \in blocks <=> kind[g] = "large" /\ phase[g] \in {"live", "gone"}

\* All of it: what was changed in a scope is undone when it is left, once.
UndoneOnce == InvokedOnce /\ DestroyedOnce /\ FillIsRestored /\ OnlyBlocksAreLost
=============================================================================
