---------------------------- MODULE CalendarCache ----------------------------
(***************************************************************************)
(* oa::static_cache::CalendarCache and the oa::dao::CalendarDao calls it   *)
(* makes: threads that call GetCalendar, one mutex held over the look-up,  *)
(* the reading of every region's file and the store, and a directory of    *)
(* .hol files that someone may edit, remove or damage at any moment.       *)
(*                                                                         *)
(* A region name is a natural number (its place in the order of names); a  *)
(* calendars string is the sequence of names boost::split finds in it.     *)
(* The cache key, join(sorted list, ","), determines and is determined by  *)
(* the sorted list, so the list itself is the key.                         *)
(***************************************************************************)
EXTENDS Integers, Sequences, FiniteSets

CONSTANTS
    Threads,    \* the threads that call GetCalendar
    Regions,    \* calendar names
    Requests,   \* the calendars strings they pass, split into names
    MaxCalls,   \* bound: calls of one thread
    MaxEdits,   \* bound: changes of the files on disk
    Nothing,    \* an empty cache slot, an answer not known yet, no lock owner
    Failed      \* an answer: GetCalendar threw

\* What a file on disk can be to GetCalendarData: fine; with a line that is
\* no weekend digit or date; not to be opened; not a regular file.  A file
\* caught half-written is "good" here if its prefix parses: nothing in the
\* format lets the reader tell.
Kinds == {"good", "malformed", "unreadable", "missing"}

\* One state of a file; every edit gives it a new version.
File == [version : Nat, kind : Kinds]

\* A CalendarDataStruct, and the Calendar built from one per region (id is
\* the address of the object make_shared returned).
RegionData == [region : Regions, version : Nat]
Calendar == [id : Nat, parts : Seq(RegionData)]

\* std::ranges::sort of the split names: the same names, each as often, in
\* order.
Occurrences(s, r) == Cardinality({i \in DOMAIN s : s[i] = r})
SortedLists(s) ==
    {l \in [DOMAIN s -> Regions] :
        /\ \A i, j \in DOMAIN s : i < j => l[i] =< l[j]
        /\ \A r \in Regions : Occurrences(l, r) = Occurrences(s, r)}

Keys == UNION {SortedLists(s) : s \in Requests}

ASSUME ConstantsAssumption ==
    /\ Regions \subseteq Nat
    /\ Requests \subseteq Seq(Regions) \ {<<>>}
    /\ MaxCalls \in Nat /\ MaxEdits \in Nat
    /\ Nothing \notin Threads
    /\ Nothing \notin Calendar /\ Failed \notin Calendar
    /\ Nothing \notin Keys
    /\ Nothing # Failed

VARIABLES
    files,      \* files[r]: the state of static_data/calendars/r.hol
    edits,      \* how many edits were made
    cache,      \* m_calendar_cache_: cache[k] is Nothing or a Calendar
    mutex,      \* m_cache_mutex_: its owner, or Nothing
    built,      \* how many Calendar objects make_shared made
    pc,         \* where each thread is in GetCalendar
    list,       \* list_of_caledars, sorted
    data,       \* raw_calendar_data
    opened,     \* the file state GetCalendarData's ifstream opened
    answer,     \* the shared_ptr to return, Failed after a throw
    calls       \* how many calls the thread made

shared == <<files, edits, cache, mutex, built>>
local == <<pc, list, data, opened, answer, calls>>
vars == <<files, edits, cache, mutex, built, pc, list, data, opened, answer, calls>>

\* Where a thread is inside the scope of its scoped_lock.
Loading == {"check", "open", "read", "store"}
Locked == Loading \cup {"lookup", "return"}

TypeOK ==
    /\ files \in [Regions -> File]
    /\ edits \in Nat
    /\ cache \in [Keys -> Calendar \cup {Nothing}]
    /\ mutex \in Threads \cup {Nothing}
    /\ built \in Nat
    /\ pc \in [Threads -> Locked \cup {"idle", "lock"}]
    /\ list \in [Threads -> Keys \cup {<<>>}]
    /\ data \in [Threads -> Seq(RegionData)]
    /\ opened \in [Threads -> File]
    /\ answer \in [Threads -> Calendar \cup {Nothing, Failed}]
    /\ calls \in [Threads -> Nat]

NoFile == [version |-> 0, kind |-> "missing"]

\* The singleton is constructed empty (RetrieveCache).
Init ==
    /\ files \in [Regions -> [version : {0}, kind : Kinds]]
    /\ edits = 0
    /\ cache = [k \in Keys |-> Nothing]
    /\ mutex = Nothing
    /\ built = 0
    /\ pc = [t \in Threads |-> "idle"]
    /\ list = [t \in Threads |-> <<>>]
    /\ data = [t \in Threads |-> <<>>]
    /\ opened = [t \in Threads |-> NoFile]
    /\ answer = [t \in Threads |-> Nothing]
    /\ calls = [t \in Threads |-> 0]

\* Somebody changes, damages, restores or removes a file.
Edit(r) ==
    /\ edits < MaxEdits
    /\ \E kind \in Kinds :
          files' = [files EXCEPT ![r] = [version |-> files[r].version + 1, kind |-> kind]]
    /\ edits' = edits + 1
    /\ UNCHANGED <<cache, mutex, built, local>>

\* Split and sort, before the lock.
Call(t) ==
    /\ pc[t] = "idle"
    /\ calls[t] < MaxCalls
    /\ \E s \in Requests : \E l \in SortedLists(s) : list' = [list EXCEPT ![t] = l]
    /\ pc' = [pc EXCEPT ![t] = "lock"]
    /\ answer' = [answer EXCEPT ![t] = Nothing]
    /\ data' = [data EXCEPT ![t] = <<>>]
    /\ calls' = [calls EXCEPT ![t] = calls[t] + 1]
    /\ UNCHANGED <<shared, opened>>

\* As Lock, without waiting for the owner.
LockIgnoringOwner(t) ==
    /\ pc[t] = "lock"
    /\ mutex' = t
    /\ pc' = [pc EXCEPT ![t] = "lookup"]
    /\ UNCHANGED <<files, edits, cache, built, list, data, opened, answer, calls>>

Lock(t) ==
    /\ pc[t] = "lock"
    /\ mutex = Nothing
    /\ mutex' = t
    /\ pc' = [pc EXCEPT ![t] = "lookup"]
    /\ UNCHANGED <<files, edits, cache, built, list, data, opened, answer, calls>>

IsCached(k) == cache[k] # Nothing

Hit(t) ==
    /\ pc[t] = "lookup"
    /\ IsCached(list[t])
    /\ answer' = [answer EXCEPT ![t] = cache[list[t]]]
    /\ pc' = [pc EXCEPT ![t] = "return"]
    /\ UNCHANGED <<shared, list, data, opened, calls>>

\* As Miss, with the lock given up before the files are read.
MissUnlocking(t) ==
    /\ pc[t] = "lookup"
    /\ ~IsCached(list[t])
    /\ mutex' = Nothing
    /\ pc' = [pc EXCEPT ![t] = "check"]
    /\ UNCHANGED <<files, edits, cache, built, list, data, opened, answer, calls>>

Miss(t) ==
    /\ pc[t] = "lookup"
    /\ ~IsCached(list[t])
    /\ pc' = [pc EXCEPT ![t] = "check"]
    /\ UNCHANGED <<shared, list, data, opened, answer, calls>>

\* The region whose file the loop reads next.
FirstRegion(t) == list[t][1]
Region(t) == list[t][Len(data[t]) + 1]

\* As Throw, with a lock that is not released on the way out.
ThrowKeepingLock(t) ==
    /\ answer' = [answer EXCEPT ![t] = Failed]
    /\ pc' = [pc EXCEPT ![t] = "idle"]
    /\ UNCHANGED <<files, edits, cache, mutex, built, list, data, opened, calls>>

\* As Throw, with the failure remembered under the key.
ThrowCaching(t) ==
    /\ mutex' = Nothing
    /\ cache' = [cache EXCEPT ![list[t]] = Failed]
    /\ answer' = [answer EXCEPT ![t] = Failed]
    /\ pc' = [pc EXCEPT ![t] = "idle"]
    /\ UNCHANGED <<files, edits, built, list, data, opened, calls>>

\* As Throw, with the whole cache dropped for safety's sake.
ThrowClearing(t) ==
    /\ mutex' = Nothing
    /\ cache' = [k \in Keys |-> Nothing]
    /\ answer' = [answer EXCEPT ![t] = Failed]
    /\ pc' = [pc EXCEPT ![t] = "idle"]
    /\ UNCHANGED <<files, edits, built, list, data, opened, calls>>

\* An exception leaves GetCalendar: the scoped_lock's destructor unlocks.
Throw(t) ==
    /\ mutex' = Nothing
    /\ answer' = [answer EXCEPT ![t] = Failed]
    /\ pc' = [pc EXCEPT ![t] = "idle"]
    /\ UNCHANGED <<files, edits, cache, built, list, data, opened, calls>>

IsRegularFile(t) ==
    /\ pc[t] = "check"
    /\ files[Region(t)].kind # "missing"
    /\ pc' = [pc EXCEPT ![t] = "open"]
    /\ UNCHANGED <<shared, list, data, opened, answer, calls>>

FileNotFound(t) ==
    /\ pc[t] = "check"
    /\ files[Region(t)].kind = "missing"
    /\ Throw(t)

OpenFile(t) ==
    /\ pc[t] = "open"
    /\ files[Region(t)].kind \notin {"missing", "unreadable"}
    /\ opened' = [opened EXCEPT ![t] = files[Region(t)]]
    /\ pc' = [pc EXCEPT ![t] = "read"]
    /\ UNCHANGED <<shared, list, data, answer, calls>>

\* The file went away after the check, or may not be read.
CannotOpen(t) ==
    /\ pc[t] = "open"
    /\ files[Region(t)].kind \in {"missing", "unreadable"}
    /\ Throw(t)

\* What the open stream yields: the file it opened, although it may have
\* been replaced or removed since, or the bytes now in it, when it was
\* rewritten in place.
Seen(t) ==
    {opened[t]} \cup
    {f \in {files[Region(t)]} : f.kind \in {"good", "malformed"}}

\* The lines parse; the loop goes on to the next region or ends.
ReadFile(t) ==
    /\ pc[t] = "read"
    /\ \E f \in Seen(t) :
          /\ f.kind = "good"
          /\ data' = [data EXCEPT ![t] =
                Append(data[t], [region |-> Region(t), version |-> f.version])]
    /\ pc' = [pc EXCEPT ![t] = IF Len(data[t]) + 1 = Len(list[t]) THEN "store" ELSE "check"]
    /\ UNCHANGED <<shared, list, opened, answer, calls>>

\* StrToDigits, the weekend range check or Date's constructor throws.
BadLine(t) ==
    /\ pc[t] = "read"
    /\ \E f \in Seen(t) : f.kind = "malformed"
    /\ Throw(t)

\* make_shared and StoreCalendar (try_emplace keeps an entry already there);
\* the caller gets the object just made.
StoreNothing(t) ==
    /\ pc[t] = "store"
    /\ answer' = [answer EXCEPT ![t] = [id |-> built, parts |-> data[t]]]
    /\ built' = built + 1
    /\ pc' = [pc EXCEPT ![t] = "return"]
    /\ UNCHANGED <<files, edits, cache, mutex, list, data, opened, calls>>
StoreCalendar(t) ==
    LET calendar == [id |-> built, parts |-> data[t]] IN
    /\ pc[t] = "store"
    /\ cache' = [cache EXCEPT ![list[t]] = IF IsCached(list[t]) THEN @ ELSE calendar]
    /\ answer' = [answer EXCEPT ![t] = calendar]
    /\ built' = built + 1
    /\ pc' = [pc EXCEPT ![t] = "return"]
    /\ UNCHANGED <<files, edits, mutex, list, data, opened, calls>>

\* The end of the scoped_lock's scope.
Return(t) ==
    /\ pc[t] = "return"
    /\ mutex' = Nothing
    /\ pc' = [pc EXCEPT ![t] = "idle"]
    /\ UNCHANGED <<files, edits, cache, built, list, data, opened, answer, calls>>

\* A step of a call in progress.
Step(t) ==
    \/ Lock(t) \/ Hit(t) \/ Miss(t)
    \/ IsRegularFile(t) \/ FileNotFound(t)
    \/ OpenFile(t) \/ CannotOpen(t)
    \/ ReadFile(t) \/ BadLine(t)
    \/ StoreCalendar(t) \/ Return(t)

\* Every thread made its calls: the program may stop here.
Finished ==
    /\ \A t \in Threads : pc[t] = "idle" /\ calls[t] = MaxCalls
    /\ UNCHANGED vars

Next ==
    \/ \E t \in Threads : Call(t) \/ Step(t)
    \/ \E r \in Regions : Edit(r)
    \/ Finished

Spec == Init /\ [][Next]_vars

\* A running thread is scheduled.  A std::mutex promises no order among the
\* threads waiting for it, so nothing stronger than weak fairness is asked.
FairSpec == Spec /\ \A t \in Threads : WF_vars(Step(t))

-----------------------------------------------------------------------------
(* What must hold *)

\* The mutex is held exactly by a thread inside GetCalendar's locked scope,
\* whichever way earlier calls left it (scoped_lock, calendar_cache.cpp:22):
\* no exception on the way out leaks the lock or frees another thread's.
LockDiscipline ==
    \A t \in Threads : pc[t] \in Locked <=> mutex = t

\* A calendar under a key was loaded from exactly the files the key names,
\* in the key's order, none missing and none twice, each in a state the file
\* really had (the loop at calendar_cache.cpp:33-37).
ReadFrom(k, parts) ==
    \A i \in DOMAIN parts :
        /\ parts[i].region = k[i]
        /\ parts[i].version =< files[k[i]].version
CachedMatchesKey ==
    \A k \in Keys : IsCached(k) =>
        /\ Len(cache[k].parts) = Len(k)
        /\ ReadFrom(k, cache[k].parts)

\* Whatever GetCalendar returned is the very object in the cache under that
\* key, so two callers that name the same calendars, in any order, at any
\* two times, share one object (calendar_cache.cpp:26, 43-44).
AnswerIsCached ==
    \A t \in Threads :
        answer[t] \notin {Nothing, Failed} => cache[list[t]] = answer[t]

\* What a thread checked under the lock is still so when it acts on it: from
\* the miss (line 24) to the store (line 43) its key stays absent, and what
\* it has read so far is a prefix of what the key names.
LoadInProgress ==
    \A t \in Threads :
        /\ pc[t] # "idle" => list[t] \in Keys
        /\ pc[t] \in {"lock", "lookup"} => data[t] = <<>>
        /\ pc[t] \in Loading => ~IsCached(list[t])
        /\ pc[t] \in Loading \ {"store"} => Len(data[t]) < Len(list[t])
        /\ pc[t] \in Loading => ReadFrom(list[t], data[t])
        /\ pc[t] = "store" => Len(data[t]) = Len(list[t])
        /\ pc[t] = "read" => opened[t].version =< files[Region(t)].version
        /\ pc[t] = "return" => answer[t] \notin {Nothing, Failed}
        /\ pc[t] \notin {"idle", "return"} => answer[t] = Nothing
        /\ answer[t] # Nothing => list[t] \in Keys

\* Two keys never share an object, and no object was made in vain: the cache
\* holds every Calendar ever built, each once (make_shared at line 40-41 only
\* runs when the key is absent).
OneObjectPerKey ==
    /\ \A k, l \in Keys : IsCached(k) /\ IsCached(l) /\ cache[k].id = cache[l].id => k = l
    /\ \A k \in Keys : IsCached(k) => cache[k].id < built
    /\ \A i \in 0 .. (built - 1) : \E k \in Keys : IsCached(k) /\ cache[k].id = i

\* A cached calendar never changes and never goes away, whatever happens to
\* the files: a holiday file edited later is not seen by this process.
CacheIsWriteOnce ==
    [][\A k \in Keys : IsCached(k) => cache'[k] = cache[k]]_vars

\* Every call of GetCalendar comes back, with a calendar or an exception,
\* although all threads queue on one mutex that is held during file I/O.
EveryCallEnds ==
    \A t \in Threads : pc[t] # "idle" ~> pc[t] = "idle"

\* A failure is not remembered: once all files are in order and stay so, a
\* call that still waits for the lock gets its calendar, whatever earlier
\* calls for the same key threw.
GoodFilesServe ==
    \A t \in Threads :
        (pc[t] = "lock" /\ [](\A r \in Regions : files[r].kind = "good"))
            ~> (pc[t] = "idle" /\ answer[t] \notin {Nothing, Failed})

\* The abstract registry, seen through this state.
Lookup == INSTANCE CalendarLookup WITH
    Callers <- Threads,
    registry <- cache,
    query <- [t \in Threads |-> IF pc[t] = "idle" THEN Nothing ELSE list[t]],
    reply <- answer

\* GetCalendar implements the write-once registry of CalendarLookup.
ImplementsLookup == Lookup!Spec
=============================================================================
