--------------------------- MODULE CalendarLookup ---------------------------
(***************************************************************************)
(* What CalendarCache::GetCalendar promises its callers, with no lock, no  *)
(* file and no loading in sight: a registry that binds each calendar key   *)
(* at most once, and answers every successful call with the one object     *)
(* bound to its key.  A call that fails binds nothing.                     *)
(***************************************************************************)
CONSTANTS
    Callers,    \* the threads of the process
    Keys,       \* the sorted, joined lists of calendar names
    Nothing,    \* no calendar (yet)
    Failed      \* the call ended in an exception

VARIABLES
    registry,   \* registry[k]: the calendar bound to k, or Nothing
    query,      \* query[t]: the key of t's call in progress, or Nothing
    reply       \* reply[t]: what t's last call is to return or returned

vars == <<registry, query, reply>>

Init ==
    /\ registry = [k \in Keys |-> Nothing]
    /\ query = [t \in Callers |-> Nothing]
    /\ reply = [t \in Callers |-> Nothing]

Ask(t) ==
    /\ query[t] = Nothing
    /\ \E k \in Keys : query' = [query EXCEPT ![t] = k]
    /\ reply' = [reply EXCEPT ![t] = Nothing]
    /\ UNCHANGED registry

\* The key is bound already: its object is the answer.
Find(t) ==
    /\ query[t] # Nothing
    /\ reply[t] = Nothing
    /\ registry[query[t]] # Nothing
    /\ reply' = [reply EXCEPT ![t] = registry[query[t]]]
    /\ UNCHANGED <<registry, query>>

\* The key is bound to a new object, which is the answer.
Bind(t) ==
    /\ query[t] # Nothing
    /\ reply[t] = Nothing
    /\ registry[query[t]] = Nothing
    /\ registry' = [registry EXCEPT ![query[t]] = reply'[t]]
    /\ reply' = [reply EXCEPT ![t] = reply'[t]]
    /\ reply'[t] \notin {Nothing, Failed}
    /\ UNCHANGED query

Fail(t) ==
    /\ query[t] # Nothing
    /\ reply[t] = Nothing
    /\ reply' = [reply EXCEPT ![t] = Failed]
    /\ query' = [query EXCEPT ![t] = Nothing]
    /\ UNCHANGED registry

Return(t) ==
    /\ query[t] # Nothing
    /\ reply[t] # Nothing
    /\ query' = [query EXCEPT ![t] = Nothing]
    /\ UNCHANGED <<registry, reply>>

Next == \E t \in Callers : Ask(t) \/ Find(t) \/ Bind(t) \/ Fail(t) \/ Return(t)

Spec == Init /\ [][Next]_vars
=============================================================================
