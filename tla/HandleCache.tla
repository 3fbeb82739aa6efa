----------------------------- MODULE HandleCache -----------------------------
(***************************************************************************)
(* oxl::xl_api::XlCacheObj, the store of arrays and dictionaries behind    *)
(* the handles that oxlArray and oxlDictionary put in cells, and the       *)
(* functions that read it: OxlDisplay and RetrieveXLDict.                  *)
(*                                                                         *)
(* Each lock_guard scope of cache_xl_obj.cpp is one step here; a function  *)
(* that enters two of them is two steps, and other threads run in between. *)
(* Excel runs these functions on its main thread (one Thread); the header  *)
(* promises consistency in a multi-threaded context (several).             *)
(***************************************************************************)
EXTENDS Naturals

CONSTANTS
    Threads,
    Workbooks,      \* open workbooks
    Places,         \* a sheet name with a row and a column
    MaxObjects,     \* bound: objects created
    MaxReads,       \* bound: reads by one thread
    Absent          \* no entry under a key, nothing shown

Kinds == {"Array", "Dictionary"}
Cells == Workbooks \X Places

\* The alternative a CachedObjVar holds, and (not in the code) which cell's
\* function made it.
Object == [cell : Cells, kind : Kinds, id : Nat]

\* HandlePrefixer's prefix and CellName without "[workbook]".
Keys == [kind : Kinds, place : Places]

\* CachePair.
Entry == [object : Object, version : Nat]

\* The string "key:version" that a cell shows.
Handle == [key : Keys, version : Nat]

ASSUME ConstantsAssumption ==
    /\ MaxObjects \in Nat /\ MaxReads \in Nat
    /\ Absent \notin Entry /\ Absent \notin [handle : Handle, entry : Entry]

VARIABLES
    cache,      \* data_cache_: cache[k] is an Entry or Absent
    made,       \* objects made so far
    issued,     \* history: the handles returned, for which cell, and the
                \* version under which that call had stored its object
    pc,         \* where each thread is
    job,        \* a creator's object, key and stored version
    asked,      \* a reader's handle and the alternative it must hold
    shown,      \* history: the handle a thread read last, and its entry
    reads       \* reads each thread made

vars == <<cache, made, issued, pc, job, asked, shown, reads>>

Creator == [object : Object, key : Keys, own : Nat]
Reader == [handle : Handle, want : Kinds \cup {"any"}]

TypeOK ==
    /\ cache \in [Keys -> Entry \cup {Absent}]
    /\ made \in 0 .. MaxObjects
    /\ issued \subseteq [cell : Cells, handle : Handle, own : Nat]
    /\ pc \in [Threads -> {"idle", "store", "name", "isHandle", "holds", "get"}]
    /\ job \in [Threads -> Creator \cup {Absent}]
    /\ asked \in [Threads -> Reader \cup {Absent}]
    /\ shown \in [Threads -> [handle : Handle, entry : Entry] \cup {Absent}]
    /\ reads \in [Threads -> Nat]
    /\ \A t \in Threads :
          /\ pc[t] \in {"store", "name"} => job[t] \in Creator
          /\ pc[t] \in {"isHandle", "holds", "get"} => asked[t] \in Reader

Init ==
    /\ cache = [k \in Keys |-> Absent]
    /\ made = 0
    /\ issued = {}
    /\ pc = [t \in Threads |-> "idle"]
    /\ job = [t \in Threads |-> Absent]
    /\ asked = [t \in Threads |-> Absent]
    /\ shown = [t \in Threads |-> Absent]
    /\ reads = [t \in Threads |-> 0]

-----------------------------------------------------------------------------
(* Creating an object: oxlArray, oxlDictionary *)

\* As GenHandleStr, with a prefix of its own for an unforeseen alternative,
\* and with none at all.
GenHandleStrGeneric(object) == [kind |-> "Generic", place |-> object.cell[2]]
GenHandleStrPlain(object) == [kind |-> "Array", place |-> object.cell[2]]

\* GenHandleStr.
GenHandleStr(object) == [kind |-> object.kind, place |-> object.cell[2]]

\* The function's arguments converted, and the key of its cell generated.
\* (When the conversion throws, the cell shows the error and nothing of
\* this state changes.)
Create(t) ==
    /\ pc[t] = "idle"
    /\ made < MaxObjects
    /\ \E c \in Cells, kind \in Kinds :
          LET object == [cell |-> c, kind |-> kind, id |-> made] IN
          job' = [job EXCEPT ![t] =
                    [object |-> object, key |-> GenHandleStr(object), own |-> 0]]
    /\ made' = made + 1
    /\ pc' = [pc EXCEPT ![t] = "store"]
    /\ UNCHANGED <<cache, issued, asked, shown, reads>>

InCache(k) == cache[k] # Absent

\* XlCacheObj's constructor: the first object of a key has version 0, each
\* later one replaces it under the next version.  (Narrow: a counter of one
\* bit.  Stuck: a postfix increment.)
NextVersionNarrow(k) == IF InCache(k) THEN (cache[k].version + 1) % 2 ELSE 0
NextVersionStuck(k) == IF InCache(k) THEN cache[k].version ELSE 0
NextVersion(k) == IF InCache(k) THEN cache[k].version + 1 ELSE 0

Store(t) ==
    LET key == job[t].key IN
    /\ pc[t] = "store"
    /\ cache' = [cache EXCEPT ![key] =
                    [object |-> job[t].object, version |-> NextVersion(key)]]
    /\ job' = [job EXCEPT ![t].own = NextVersion(key)]
    /\ pc' = [pc EXCEPT ![t] = "name"]
    /\ UNCHANGED <<made, issued, asked, shown, reads>>

\* As CacheName, with the version the next store will have.
CacheNameOffByOne(t) ==
    LET key == job[t].key IN
    /\ pc[t] = "name"
    /\ issued' = issued \cup
          {[cell |-> job[t].object.cell,
            handle |-> [key |-> key, version |-> cache[key].version + 1],
            own |-> job[t].own]}
    /\ pc' = [pc EXCEPT ![t] = "idle"]
    /\ UNCHANGED <<cache, made, job, asked, shown, reads>>

\* CacheName: the version is read again, in a second critical section.
CacheName(t) ==
    LET key == job[t].key IN
    /\ pc[t] = "name"
    /\ issued' = issued \cup
          {[cell |-> job[t].object.cell,
            handle |-> [key |-> key, version |-> cache[key].version],
            own |-> job[t].own]}
    /\ pc' = [pc EXCEPT ![t] = "idle"]
    /\ UNCHANGED <<cache, made, job, asked, shown, reads>>

-----------------------------------------------------------------------------
(* Reading one: OxlDisplay, RetrieveXLDict *)

\* A handle some cell shows or once showed, or a string somebody typed.
Handles == {i.handle : i \in issued} \cup [key : Keys, version : {0}]

Display(t) ==
    /\ pc[t] = "idle"
    /\ reads[t] < MaxReads
    /\ \E h \in Handles : asked' = [asked EXCEPT ![t] = [handle |-> h, want |-> "any"]]
    /\ shown' = [shown EXCEPT ![t] = Absent]
    /\ reads' = [reads EXCEPT ![t] = reads[t] + 1]
    /\ pc' = [pc EXCEPT ![t] = "isHandle"]
    /\ UNCHANGED <<cache, made, issued, job>>

RetrieveXLDict(t) ==
    /\ pc[t] = "idle"
    /\ reads[t] < MaxReads
    /\ \E h \in Handles : asked' = [asked EXCEPT ![t] = [handle |-> h, want |-> "Dictionary"]]
    /\ shown' = [shown EXCEPT ![t] = Absent]
    /\ reads' = [reads EXCEPT ![t] = reads[t] + 1]
    /\ pc' = [pc EXCEPT ![t] = "isHandle"]
    /\ UNCHANGED <<cache, made, issued, job>>

\* GetKeyFromHandle: the version is dropped.
Key(t) == asked[t].handle.key

IsHandle(t) ==
    /\ pc[t] = "isHandle"
    /\ InCache(Key(t))
    /\ pc' = [pc EXCEPT ![t] = IF asked[t].want = "any" THEN "get" ELSE "holds"]
    /\ UNCHANGED <<cache, made, issued, job, asked, shown, reads>>

\* OxlDisplay and RetrieveXLDict throw.
NotAHandle(t) ==
    /\ pc[t] = "isHandle"
    /\ ~InCache(Key(t))
    /\ pc' = [pc EXCEPT ![t] = "idle"]
    /\ UNCHANGED <<cache, made, issued, job, asked, shown, reads>>

\* The second half of IsDictionary, in a critical section of its own.
HoldsDictionary(t) ==
    /\ pc[t] = "holds"
    /\ pc' = [pc EXCEPT ![t] =
                IF cache[Key(t)].object.kind = "Dictionary" THEN "get" ELSE "idle"]
    /\ UNCHANGED <<cache, made, issued, job, asked, shown, reads>>

\* GetVariant: UnsafeLoadPair dereferences find(key) without a test.
GetVariant(t) ==
    /\ pc[t] = "get"
    /\ shown' = [shown EXCEPT ![t] = [handle |-> asked[t].handle, entry |-> cache[Key(t)]]]
    /\ pc' = [pc EXCEPT ![t] = "idle"]
    /\ UNCHANGED <<cache, made, issued, job, asked, reads>>

Next ==
    \E t \in Threads :
        \/ Create(t) \/ Store(t) \/ CacheName(t)
        \/ Display(t) \/ RetrieveXLDict(t)
        \/ IsHandle(t) \/ NotAHandle(t) \/ HoldsDictionary(t) \/ GetVariant(t)

Spec == Init /\ [][Next]_vars

-----------------------------------------------------------------------------
(* What must hold *)

\* A key checked in one critical section can be dereferenced in a later one
\* (IsHandle before GetVariant, cache_xl_obj.cpp:50-58), and what was
\* checked to be a dictionary still is when std::get asks for one
\* (excel_base.cpp:73-78), although other threads store in between.
CheckedStaysUsable ==
    \A t \in Threads :
        /\ pc[t] = "name" => InCache(job[t].key)
        /\ pc[t] \in {"holds", "get"} => InCache(Key(t))
        /\ pc[t] = "get" /\ asked[t].want = "Dictionary"
              => cache[Key(t)].object.kind = "Dictionary"

\* A handle never stands for an object older than the one its function
\* made: its version is that of its own store or of a later one, and the
\* key holds that version or a later one for ever (lines 79-84).
HandlesNotAhead ==
    \A i \in issued :
        /\ InCache(i.handle.key)
        /\ i.own =< i.handle.version
        /\ i.handle.version =< cache[i.handle.key].version

\* Whoever reads through a handle, however old, sees an object at least as
\* new as the handle (GetKeyFromHandle drops the version, lines 86-89).
ReadsAreFresh ==
    \A t \in Threads :
        shown[t] # Absent => shown[t].handle.version =< shown[t].entry.version

\* An entry is never removed, and is only replaced by another object under
\* the next version, of the same kind (lines 14-28).
EntriesOnlyAdvance ==
    [][\A k \in Keys : InCache(k) /\ cache'[k] # cache[k] =>
          /\ cache'[k].version = cache[k].version + 1
          /\ cache'[k].object.id # cache[k].object.id
          /\ cache'[k].object.kind = cache[k].object.kind]_vars
=============================================================================
