-------------------------- MODULE HandleCacheProofs --------------------------
(***************************************************************************)
(* Theorems about HandleCache, for every set of threads, workbooks and     *)
(* places and every number of objects and reads, and about ExcelFunctions, *)
(* whose calls look dictionaries up while objects are stored, for any      *)
(* callers, contents and requests.                                         *)
(***************************************************************************)
EXTENDS ExcelFunctions, TLAPS

\* What a stored entry says of its key, and a creator's job of its own:
\* HandlePrefixer puts the object's kind into the key, and objects are
\* numbered as they are made.
JobsAndEntries ==
    /\ \A k \in Keys : InCache(k) =>
          /\ cache[k].object.kind = k.kind
          /\ cache[k].object.id < made
    /\ \A t \in Threads :
          /\ pc[t] \in {"store", "name"} =>
                /\ job[t].key.kind = job[t].object.kind
                /\ job[t].object.id < made
          /\ pc[t] = "store" => \A k \in Keys :
                InCache(k) => cache[k].object.id # job[t].object.id
          /\ pc[t] = "name" =>
                /\ InCache(job[t].key)
                /\ job[t].own =< cache[job[t].key].version
    /\ \A t, u \in Threads :
          t # u /\ pc[t] = "store" /\ pc[u] = "store" => job[t].object.id # job[u].object.id

\* A reader works on a handle that was issued, or on a typed "key:0".
AskedIsIssued ==
    \A t \in Threads : pc[t] \in {"isHandle", "holds", "get"} =>
        \/ asked[t].handle.version = 0
        \/ \E i \in issued : i.handle = asked[t].handle

\* The inductive invariant: what the runs check, with what an entry and a
\* pending call say of their key and a reader of its handle.
IInv ==
    /\ TypeOK
    /\ JobsAndEntries
    /\ AskedIsIssued
    /\ CheckedStaysUsable
    /\ HandlesNotAhead
    /\ ReadsAreFresh

\* What one store does to the cache: only its own key moves, one version on.
LEMMA StoreAdvances ==
    ASSUME TypeOK, JobsAndEntries, NEW t \in Threads, Store(t)
    PROVE  /\ job[t] \in Creator
           /\ NextVersion(job[t].key) \in Nat
           /\ cache' \in [Keys -> Entry \cup {Absent}]
           /\ cache'[job[t].key] =
                 [object |-> job[t].object, version |-> NextVersion(job[t].key)]
           /\ cache'[job[t].key] # Absent
           /\ \A k \in Keys : k # job[t].key => cache'[k] = cache[k]
<1>1. job[t] \in Creator /\ job[t].key \in Keys /\ job[t].object \in Object
  BY DEF TypeOK, Store, Creator
<1>2. NextVersion(job[t].key) \in Nat
  BY <1>1 DEF NextVersion, InCache, TypeOK, Entry
<1>3. [object |-> job[t].object, version |-> NextVersion(job[t].key)] \in Entry
  BY <1>1, <1>2 DEF Entry
<1>4. QED
  BY <1>1, <1>2, <1>3, ConstantsAssumption DEF Store, TypeOK, ConstantsAssumption

LEMMA TypeStep ==
    ASSUME TypeOK, JobsAndEntries, CheckedStaysUsable, [Next]_vars
    PROVE  TypeOK'
<1> USE DEF TypeOK
<1>1. ASSUME NEW t \in Threads, Create(t) PROVE TypeOK'
  <2>1. PICK c \in Cells, kind \in Kinds :
           job' = [job EXCEPT ![t] =
              [object |-> [cell |-> c, kind |-> kind, id |-> made],
               key |-> GenHandleStr([cell |-> c, kind |-> kind, id |-> made]), own |-> 0]]
    BY <1>1 DEF Create
  <2>2. [cell |-> c, kind |-> kind, id |-> made] \in Object
    BY DEF Object
  <2>3. c[2] \in Places
    BY DEF Cells
  <2>4. GenHandleStr([cell |-> c, kind |-> kind, id |-> made]) \in Keys
    BY <2>3 DEF GenHandleStr, Keys
  <2>5. [object |-> [cell |-> c, kind |-> kind, id |-> made],
         key |-> GenHandleStr([cell |-> c, kind |-> kind, id |-> made]), own |-> 0] \in Creator
    BY <2>2, <2>4 DEF Creator
  <2>6. made' \in 0 .. MaxObjects
    BY <1>1, ConstantsAssumption DEF Create, ConstantsAssumption
  <2>7. QED
    BY <1>1, <2>1, <2>5, <2>6 DEF Create
<1>2. ASSUME NEW t \in Threads, Store(t) PROVE TypeOK'
  <2>1. job[t] \in Creator /\ NextVersion(job[t].key) \in Nat
    BY <1>2, StoreAdvances
  <2>2. [job[t] EXCEPT !.own = NextVersion(job[t].key)] \in Creator
    BY <2>1 DEF Creator
  <2>3. job' = [job EXCEPT ![t] = [job[t] EXCEPT !.own = NextVersion(job[t].key)]]
    BY <1>2 DEF Store
  <2>4. cache' \in [Keys -> Entry \cup {Absent}]
    BY <1>2, StoreAdvances
  <2>5. QED
    BY <1>2, <2>2, <2>3, <2>4 DEF Store
<1>3. ASSUME NEW t \in Threads, CacheName(t) PROVE TypeOK'
  <2>1. job[t] \in Creator /\ InCache(job[t].key)
    BY <1>3 DEF CacheName, JobsAndEntries
  <2>2. cache[job[t].key].version \in Nat
    BY <2>1 DEF InCache, Entry, Creator
  <2>3. [key |-> job[t].key, version |-> cache[job[t].key].version] \in Handle
    BY <2>1, <2>2 DEF Handle, Creator
  <2>4. job[t].object.cell \in Cells /\ job[t].own \in Nat
    BY <2>1 DEF Creator, Object
  <2>5. issued' \subseteq [cell : Cells, handle : Handle, own : Nat]
    BY <1>3, <2>3, <2>4 DEF CacheName
  <2>6. QED
    BY <1>3, <2>5 DEF CacheName
<1>4. ASSUME NEW t \in Threads, Display(t) \/ RetrieveXLDict(t) PROVE TypeOK'
  <2>1. Handles \subseteq Handle
    BY DEF Handles, Handle
  <2>2. PICK h \in Handles, w \in {"any", "Dictionary"} :
           asked' = [asked EXCEPT ![t] = [handle |-> h, want |-> w]]
    BY <1>4 DEF Display, RetrieveXLDict
  <2>3. [handle |-> h, want |-> w] \in Reader
    BY <2>1 DEF Reader, Kinds
  <2>4. QED
    BY <1>4, <2>2, <2>3 DEF Display, RetrieveXLDict
<1>5. ASSUME NEW t \in Threads, IsHandle(t) \/ NotAHandle(t) \/ HoldsDictionary(t)
      PROVE TypeOK'
  BY <1>5 DEF IsHandle, NotAHandle, HoldsDictionary
<1>6. ASSUME NEW t \in Threads, GetVariant(t) PROVE TypeOK'
  <2>1. asked[t] \in Reader /\ InCache(Key(t)) /\ Key(t) \in Keys
    BY <1>6 DEF GetVariant, CheckedStaysUsable, Key, Reader, Handle
  <2>2. cache[Key(t)] \in Entry /\ asked[t].handle \in Handle
    BY <2>1 DEF InCache, Reader
  <2>3. QED
    BY <1>6, <2>2 DEF GetVariant
<1>7. CASE UNCHANGED vars
  BY <1>7 DEF vars
<1>8. QED
  BY <1>1, <1>2, <1>3, <1>4, <1>5, <1>6, <1>7 DEF Next

LEMMA JobsStep ==
    ASSUME TypeOK, JobsAndEntries, [Next]_vars
    PROVE  JobsAndEntries'
<1> USE DEF JobsAndEntries
<1>1. ASSUME NEW t \in Threads, Create(t) PROVE JobsAndEntries'
  <2>1. PICK c \in Cells, kind \in Kinds :
           job' = [job EXCEPT ![t] =
              [object |-> [cell |-> c, kind |-> kind, id |-> made],
               key |-> GenHandleStr([cell |-> c, kind |-> kind, id |-> made]), own |-> 0]]
    BY <1>1 DEF Create
  <2>2. /\ job'[t].object.id = made /\ made < made'
        /\ job'[t].key.kind = job'[t].object.kind
        /\ made \in Nat /\ made' = made + 1
    BY <1>1, <2>1 DEF Create, GenHandleStr, TypeOK
  <2>3. \A u \in Threads : u # t => job'[u] = job[u] /\ pc'[u] = pc[u]
    BY <1>1, <2>1 DEF Create, TypeOK
  <2>4. pc'[t] = "store" /\ cache' = cache
    BY <1>1 DEF Create, TypeOK
  <2>5. \A k \in Keys : InCache(k) => cache[k].object.id \in Nat /\ cache[k].object.id < made
    BY DEF TypeOK, InCache, Entry, Object
  <2>6. \A u \in Threads : pc[u] \in {"store", "name"} =>
           job[u].object.id \in Nat /\ job[u].object.id < made
    BY DEF TypeOK, Creator, Object
  <2>7. QED
    BY <2>2, <2>3, <2>4, <2>5, <2>6 DEF InCache
<1>2. ASSUME NEW t \in Threads, Store(t) PROVE JobsAndEntries'
  <2> DEFINE key == job[t].key
  <2>1. /\ key \in Keys /\ NextVersion(key) \in Nat
        /\ cache'[key] = [object |-> job[t].object, version |-> NextVersion(key)]
        /\ cache'[key] # Absent
        /\ \A k \in Keys : k # key => cache'[k] = cache[k]
    BY <1>2, StoreAdvances DEF Creator
  <2>2. /\ job'[t].object = job[t].object /\ job'[t].key = key
        /\ job'[t].own = NextVersion(key)
        /\ \A u \in Threads : u # t => job'[u] = job[u]
    BY <1>2, StoreAdvances DEF Store, TypeOK, Creator
  <2>3. /\ pc[t] = "store" /\ pc'[t] = "name" /\ made' = made
        /\ \A u \in Threads : u # t => pc'[u] = pc[u]
    BY <1>2 DEF Store, TypeOK
  <2>4. ASSUME InCache(key) PROVE NextVersion(key) = cache[key].version + 1 /\ cache[key].version \in Nat
    BY <2>1, <2>4 DEF NextVersion, TypeOK, InCache, Entry
  <2>5. \A k \in Keys : InCache(k)' =>
           cache'[k].object.kind = k.kind /\ cache'[k].object.id < made'
    BY <2>1, <2>3 DEF InCache
  <2>6. \A u \in Threads : pc'[u] \in {"store", "name"} =>
           job'[u].key.kind = job'[u].object.kind /\ job'[u].object.id < made'
    BY <2>2, <2>3
  <2>7. ASSUME NEW u \in Threads, pc'[u] = "store", NEW k \in Keys, InCache(k)'
        PROVE  cache'[k].object.id # job'[u].object.id
    BY <2>1, <2>2, <2>3, <2>7 DEF InCache
  <2>8. ASSUME NEW u \in Threads, pc'[u] = "name"
        PROVE  InCache(job[u].key)' /\ job'[u].own =< cache'[job'[u].key].version
    <3>1. CASE u = t
      BY <2>1, <2>2, <3>1 DEF InCache
    <3>2. CASE u # t
      <4>1. /\ job'[u] = job[u] /\ job[u].key \in Keys /\ job[u].own \in Nat
            /\ InCache(job[u].key) /\ job[u].own =< cache[job[u].key].version
        BY <2>2, <2>3, <2>8, <3>2 DEF TypeOK, Creator
      <4>2. QED
        BY <2>1, <2>4, <4>1 DEF InCache
    <3>3. QED
      BY <3>1, <3>2
  <2>9. \A u, v \in Threads : u # v /\ pc'[u] = "store" /\ pc'[v] = "store"
           => job'[u].object.id # job'[v].object.id
    BY <2>2, <2>3
  <2>10. QED
    BY <2>5, <2>6, <2>7, <2>8, <2>9
<1>3. ASSUME NEW t \in Threads,
             CacheName(t) \/ Display(t) \/ RetrieveXLDict(t) \/ IsHandle(t)
                \/ NotAHandle(t) \/ HoldsDictionary(t) \/ GetVariant(t)
      PROVE  JobsAndEntries'
  <2>1. cache' = cache /\ made' = made /\ job' = job
    BY <1>3 DEF CacheName, Display, RetrieveXLDict, IsHandle, NotAHandle, HoldsDictionary, GetVariant
  <2>2. \A u \in Threads : pc'[u] \in {"store", "name"} => pc'[u] = pc[u]
    BY <1>3 DEF CacheName, Display, RetrieveXLDict, IsHandle, NotAHandle, HoldsDictionary,
                GetVariant, TypeOK
  <2>3. QED
    BY <2>1, <2>2 DEF InCache
<1>4. CASE UNCHANGED vars
  BY <1>4 DEF vars, InCache
<1>5. QED
  BY <1>1, <1>2, <1>3, <1>4 DEF Next

\* No step removes an entry, turns its version back or changes its kind.
LEMMA EntriesKept ==
    ASSUME TypeOK, JobsAndEntries, [Next]_vars, NEW k \in Keys, InCache(k)
    PROVE  /\ InCache(k)'
           /\ cache[k].version \in Nat /\ cache'[k].version \in Nat
           /\ cache[k].version =< cache'[k].version
           /\ cache'[k].object.kind = cache[k].object.kind
<1>1. cache[k].version \in Nat
  BY DEF TypeOK, InCache, Entry
<1>2. ASSUME NEW t \in Threads, Store(t), k = job[t].key
      PROVE  /\ cache'[k].version = cache[k].version + 1
             /\ cache'[k].object.kind = cache[k].object.kind
             /\ InCache(k)'
  <2>1. cache'[k] = [object |-> job[t].object, version |-> cache[k].version + 1]
    BY <1>2, StoreAdvances DEF NextVersion
  <2>2. job[t].object.kind = k.kind /\ cache[k].object.kind = k.kind
    BY <1>2 DEF JobsAndEntries, Store
  <2>3. InCache(k)'
    BY <1>2, StoreAdvances DEF InCache
  <2>4. QED
    BY <2>1, <2>2, <2>3
<1>3. ASSUME NEW t \in Threads, Store(t), k # job[t].key PROVE cache'[k] = cache[k]
  BY <1>3, StoreAdvances
<1>4. ASSUME UNCHANGED cache PROVE cache'[k] = cache[k]
  BY <1>4
<1>5. \/ cache'[k] = cache[k]
      \/ \E t \in Threads : Store(t) /\ k = job[t].key
  BY <1>3, <1>4
     DEF Next, Create, CacheName, Display, RetrieveXLDict, IsHandle, NotAHandle,
         HoldsDictionary, GetVariant, vars
<1>6. CASE cache'[k] = cache[k]
  BY <1>1, <1>6 DEF InCache
<1>7. CASE \E t \in Threads : Store(t) /\ k = job[t].key
  BY <1>1, <1>2, <1>7
<1>8. QED
  BY <1>5, <1>6, <1>7

LEMMA CheckedStep ==
    ASSUME TypeOK, JobsAndEntries, CheckedStaysUsable, [Next]_vars
    PROVE  CheckedStaysUsable'
<1> USE DEF CheckedStaysUsable
<1>1. ASSUME NEW t \in Threads, pc'[t] = "name" PROVE InCache(job[t].key)'
  <2>1. JobsAndEntries'
    BY JobsStep
  <2>2. QED
    BY <1>1, <2>1 DEF JobsAndEntries
<1>2. ASSUME NEW t \in Threads, pc'[t] \in {"holds", "get"}
      PROVE  /\ InCache(Key(t))'
             /\ pc'[t] = "get" /\ asked'[t].want = "Dictionary"
                   => cache'[Key(t)'].object.kind = "Dictionary"
  <2>1. pc[t] \in {"isHandle", "holds", "get"} /\ asked'[t] = asked[t]
    BY <1>2 DEF Next, Create, Store, CacheName, Display, RetrieveXLDict, IsHandle, NotAHandle,
                HoldsDictionary, GetVariant, vars, TypeOK
  <2>2. Key(t)' = Key(t) /\ Key(t) \in Keys
    BY <2>1 DEF Key, TypeOK, Reader, Handle
  <2>3. InCache(Key(t))
    <3>1. CASE pc[t] \in {"holds", "get"}
      BY <3>1
    <3>2. CASE pc[t] = "isHandle"
      <4>1. IsHandle(t)
        BY <1>2, <3>2 DEF Next, Create, Store, CacheName, Display, RetrieveXLDict, IsHandle,
                          NotAHandle, HoldsDictionary, GetVariant, vars, TypeOK
      <4>2. QED
        BY <4>1 DEF IsHandle
    <3>3. QED
      BY <2>1, <3>1, <3>2
  <2>4. pc'[t] = "get" /\ asked[t].want = "Dictionary" => cache[Key(t)].object.kind = "Dictionary"
    <3>1. ASSUME pc[t] # "get", pc'[t] = "get" PROVE IsHandle(t) \/ HoldsDictionary(t)
      BY <3>1 DEF Next, Create, Store, CacheName, Display, RetrieveXLDict, IsHandle,
                  NotAHandle, HoldsDictionary, GetVariant, vars, TypeOK
    <3>2. QED
      BY <3>1 DEF IsHandle, HoldsDictionary, TypeOK
  <2>5. QED
    BY <2>1, <2>2, <2>3, <2>4, EntriesKept DEF InCache
<1>3. QED
  BY <1>1, <1>2

LEMMA IssuedStep ==
    ASSUME TypeOK, JobsAndEntries, HandlesNotAhead, [Next]_vars
    PROVE  HandlesNotAhead'
<1> USE DEF HandlesNotAhead
<1>1. ASSUME NEW i \in issued
      PROVE  /\ InCache(i.handle.key)'
             /\ i.own =< i.handle.version
             /\ i.handle.version =< cache'[i.handle.key].version
  <2>1. i.handle.key \in Keys /\ i.handle.version \in Nat
    BY DEF TypeOK, Handle
  <2>2. InCache(i.handle.key) /\ i.handle.version =< cache[i.handle.key].version
    OBVIOUS
  <2>3. QED
    BY <2>1, <2>2, EntriesKept
<1>2. ASSUME NEW t \in Threads, CacheName(t) PROVE HandlesNotAhead'
  <2>1. /\ InCache(job[t].key) /\ job[t].own =< cache[job[t].key].version
        /\ cache[job[t].key].version \in Nat
    BY <1>2 DEF CacheName, JobsAndEntries, TypeOK, InCache, Entry, Creator
  <2>2. QED
    BY <1>1, <1>2, <2>1 DEF CacheName, InCache
<1>3. ASSUME issued' = issued PROVE HandlesNotAhead'
  BY <1>1, <1>3
<1>4. QED
  BY <1>2, <1>3
     DEF Next, Create, Store, Display, RetrieveXLDict, IsHandle, NotAHandle,
         HoldsDictionary, GetVariant, vars

LEMMA AskedStep ==
    ASSUME TypeOK, AskedIsIssued, [Next]_vars
    PROVE  AskedIsIssued'
<1> USE DEF AskedIsIssued
<1>1. issued \subseteq issued'
  BY DEF Next, Create, Store, CacheName, Display, RetrieveXLDict, IsHandle, NotAHandle,
         HoldsDictionary, GetVariant, vars
<1>2. ASSUME NEW t \in Threads, Display(t) \/ RetrieveXLDict(t) PROVE AskedIsIssued'
  <2>1. PICK h \in Handles, w \in {"any", "Dictionary"} :
           asked' = [asked EXCEPT ![t] = [handle |-> h, want |-> w]]
    BY <1>2 DEF Display, RetrieveXLDict
  <2>2. h.version = 0 \/ \E i \in issued : i.handle = h
    BY DEF Handles
  <2>3. asked'[t].handle = h /\ \A u \in Threads : u # t => asked'[u] = asked[u] /\ pc'[u] = pc[u]
    BY <1>2, <2>1 DEF TypeOK, Display, RetrieveXLDict
  <2>4. QED
    BY <1>1, <2>2, <2>3
<1>3. ASSUME asked' = asked,
             \A t \in Threads : pc'[t] \in {"isHandle", "holds", "get"} =>
                pc[t] \in {"isHandle", "holds", "get"}
      PROVE  AskedIsIssued'
  BY <1>1, <1>3
<1>4. QED
  BY <1>2, <1>3
     DEF Next, Create, Store, CacheName, IsHandle, NotAHandle, HoldsDictionary,
         GetVariant, vars, TypeOK

LEMMA FreshStep ==
    ASSUME TypeOK, AskedIsIssued, CheckedStaysUsable, HandlesNotAhead, ReadsAreFresh, [Next]_vars
    PROVE  ReadsAreFresh'
<1> USE DEF ReadsAreFresh
<1>1. ASSUME NEW t \in Threads, GetVariant(t) PROVE ReadsAreFresh'
  <2>1. Key(t) = asked[t].handle.key /\ Key(t) \in Keys /\ InCache(Key(t))
    BY <1>1 DEF GetVariant, TypeOK, Key, Reader, Handle, CheckedStaysUsable
  <2>2. cache[Key(t)].version \in Nat
    BY <2>1 DEF TypeOK, InCache, Entry
  <2>3. asked[t].handle.version =< cache[Key(t)].version
    BY <1>1, <2>1, <2>2 DEF GetVariant, AskedIsIssued, HandlesNotAhead
  <2>4. shown'[t].handle = asked[t].handle /\ shown'[t].entry = cache[Key(t)]
    BY <1>1 DEF GetVariant, TypeOK
  <2>5. \A u \in Threads : u # t => shown'[u] = shown[u]
    BY <1>1 DEF GetVariant, TypeOK
  <2>6. QED
    BY <2>3, <2>4, <2>5
<1>2. ASSUME \A t \in Threads : shown'[t] \in {shown[t], Absent} PROVE ReadsAreFresh'
  BY <1>2
<1>3. QED
  BY <1>1, <1>2
     DEF Next, Create, Store, CacheName, Display, RetrieveXLDict, IsHandle, NotAHandle,
         HoldsDictionary, vars, TypeOK

\* The inductive invariant of the cache holds of every behaviour.
THEOREM Invariance == Spec => []IInv
<1>1. Init => IInv
  BY ConstantsAssumption
     DEF Init, IInv, TypeOK, JobsAndEntries, AskedIsIssued, CheckedStaysUsable,
         HandlesNotAhead, ReadsAreFresh, InCache, ConstantsAssumption
<1>2. IInv /\ [Next]_vars => IInv'
  BY TypeStep, JobsStep, AskedStep, CheckedStep, IssuedStep, FreshStep DEF IInv
<1>3. QED
  BY <1>1, <1>2, PTL DEF Spec

\* Every variable of HandleCache keeps its type.
THEOREM TypeCorrect == Spec => []TypeOK
BY Invariance, PTL DEF IInv

\* No reader dereferences a key that is not there, or asks the variant for a
\* dictionary it does not hold.
THEOREM ChecksLast == Spec => []CheckedStaysUsable
BY Invariance, PTL DEF IInv

\* A handle's version lies between its own store's and its key's current one.
THEOREM HandlesAreBacked == Spec => []HandlesNotAhead
BY Invariance, PTL DEF IInv

\* A handle is never answered with an older object.
THEOREM ReadsNotStale == Spec => []ReadsAreFresh
BY Invariance, PTL DEF IInv

\* Entries are replaced, one version at a time and by their kind, never removed.
THEOREM EntriesAdvance == Spec => EntriesOnlyAdvance
<1>1. IInv /\ [Next]_vars =>
        [\A k \in Keys : InCache(k) /\ cache'[k] # cache[k] =>
            /\ cache'[k].version = cache[k].version + 1
            /\ cache'[k].object.id # cache[k].object.id
            /\ cache'[k].object.kind = cache[k].object.kind]_vars
  <2> SUFFICES ASSUME IInv, [Next]_vars, NEW k \in Keys, InCache(k), cache'[k] # cache[k]
               PROVE  /\ cache'[k].version = cache[k].version + 1
                      /\ cache'[k].object.id # cache[k].object.id
                      /\ cache'[k].object.kind = cache[k].object.kind
    OBVIOUS
  <2>1. PICK t \in Threads : Store(t)
    BY DEF Next, Create, CacheName, Display, RetrieveXLDict, IsHandle, NotAHandle,
           HoldsDictionary, GetVariant, vars
  <2>2. k = job[t].key
    BY <2>1, StoreAdvances DEF IInv
  <2>3. cache'[k] = [object |-> job[t].object, version |-> cache[k].version + 1]
    BY <2>1, <2>2, StoreAdvances DEF IInv, NextVersion
  <2>4. job[t].object.id # cache[k].object.id
    BY <2>1 DEF IInv, JobsAndEntries, Store
  <2>5. QED
    BY <2>3, <2>4, EntriesKept DEF IInv
<1>2. QED
  BY <1>1, Invariance, PTL DEF Spec, EntriesOnlyAdvance

-----------------------------------------------------------------------------
(* Callers of Excel functions, beside the creators of objects *)

\* No call crashes: "crashed" is not among the stages.
Stages == {"idle", "isHandle", "holds", "get", "use", "evaluate", "rules", "answered"}
LookingUp == {"isHandle", "holds", "get", "use"}

\* past is the history of the cache: an entry is the last object of its key.
PastIsStored ==
    /\ content = Contents
    /\ past \in [Keys -> Seq(Ids)]
    /\ \A k \in Keys : IF InCache(k)
          THEN past[k] # <<>> /\ past[k][Len(past[k])] = cache[k].object.id
          ELSE past[k] = <<>>

KeyOf(c) == HandleText(c)[2]

\* An option, and the word of the dictionary that has its rule.
Lookup ==
    {"fix_adjustment", "pay_adjustment", "start_adjustment", "end_adjustment"}
      \X {"Fixing_Date_Rule", "Payment_Date_Rule", "Acc_Adj_Rule", "Start_Adj_Rule", "End_Adj_Rule"}

\* Where a caller is, and what it has then.
CallShape(c) ==
    /\ DOMAIN call[c] = DOMAIN Nothing
    /\ call[c].at \in Stages
    /\ call[c].todo \in Seq(Lookup)
    /\ call[c].at # "idle" => call[c].request \in Requests
CallsShape == DOMAIN call = Callers /\ \A c \in Callers : CallShape(c)

Phase(c) ==
    LET fn == call[c].request.fn IN
    /\ GoodDictionary(call[c].dictionary)
    /\ call[c].at \in LookingUp \cup {"evaluate", "rules"} => fn \in DictionaryFns
    /\ call[c].at \in LookingUp /\ call[c].todo = <<>> =>
          IsStr(call[c].request.args[1]) /\ call[c].dictionary = <<>>
    /\ call[c].at \in LookingUp /\ call[c].todo # <<>> =>
          fn = "oxlGenerateCashFlows" /\ StringAt(call[c].dictionary, call[c].todo[1][2]) # {}
    /\ call[c].at = "evaluate" => call[c].todo = <<>>
    /\ call[c].at = "rules" => fn = "oxlGenerateCashFlows"

\* What a look-up found stays in the cache, under that version or a later one.
LookUps(c) ==
    /\ call[c].at \in {"holds", "get", "use"} =>
          HandleText(c)[1] = "handle" /\ KeyOf(c) \in Keys /\ InCache(KeyOf(c))
    /\ call[c].at \in {"get", "use"} => KeyOf(c).kind = "Dictionary"
    /\ call[c].at = "use" =>
          /\ call[c].held.id \in Ids
          /\ call[c].held.version \in Nat
          /\ call[c].held.version =< cache[KeyOf(c)].version

\* The rule for the starts of accruals is found before the one for the ends.
AccrualKey(c) == The(StringAt(call[c].dictionary, "Acc_Adj_Rule"))[2]
StartVersion(c) == call[c].options.start_adjustment.version

BothLeft(c) ==
    LET todo == call[c].todo IN
    /\ Len(todo) >= 2
    /\ todo[Len(todo) - 1] = <<"start_adjustment", "Acc_Adj_Rule">>
    /\ todo[Len(todo)] = <<"end_adjustment", "Acc_Adj_Rule">>
EndLeft(c) ==
    /\ call[c].todo = <<<<"end_adjustment", "Acc_Adj_Rule">>>>
    /\ "start_adjustment" \in DOMAIN call[c].options
    /\ AccrualKey(c) \in Keys /\ InCache(AccrualKey(c))
    /\ StartVersion(c) \in Nat
    /\ StartVersion(c) =< cache[AccrualKey(c)].version
    /\ call[c].at = "use" => StartVersion(c) =< call[c].held.version
NoneLeft(c) ==
    /\ call[c].todo = <<>>
    /\ call[c].at = "rules"
    /\ StartVersion(c) =< call[c].options.end_adjustment.version

StartsThenEnds(c) ==
    /\ call[c].at \in LookingUp \cup {"rules"}
    /\ call[c].at = "rules" \/ call[c].todo # <<>>
    /\ Has(call[c].dictionary, "Acc_Adj_Rule")
    => BothLeft(c) \/ EndLeft(c) \/ NoneLeft(c)

AnsweredInOrder(c) ==
    /\ call[c].at = "answered" /\ call[c].answer[1] = "schedule"
    /\ Has(call[c].dictionary, "Acc_Adj_Rule")
    => call[c].answer[3].start_adjustment.version =< call[c].answer[3].end_adjustment.version

\* Since the call began, keys have only been stored anew.
Began(c) ==
    call[c].at # "idle" =>
        /\ call[c].since \in [Keys -> Nat]
        /\ \A k \in Keys : call[c].since[k] =< Len(past[k])

FoundSince(c) ==
    call[c].at = "use" /\ call[c].todo = <<>> =>
        \E i \in DOMAIN past[KeyOf(c)] :
            i >= call[c].since[KeyOf(c)] /\ call[c].held.id = past[KeyOf(c)][i]

OneOfThoseMeant(c) ==
    /\ call[c].at \in LookingUp \cup {"evaluate", "rules"}
    /\ call[c].at \in {"evaluate", "rules"} \/ call[c].todo # <<>>
    => call[c].dictionary \in Meant(c)

RightAnswer(c) ==
    call[c].at = "answered" =>
        LET answer == call[c].answer  fn == call[c].request.fn IN
        /\ fn = "oxlComputeDate" =>
              \E d \in Meant(c) : answer = Answered(OxlComputeDate(d))
        /\ fn = "oxlAddBusinessDays" =>
              \E d \in Meant(c) : answer = Answered(OxlAddBusinessDays(d))
        /\ fn = "oxlGenerateCashFlows" /\ answer[1] = "schedule" =>
              \E d \in Meant(c) : Terms(d) = {answer[2]}

CallInv(c) ==
    /\ Phase(c) /\ LookUps(c) /\ StartsThenEnds(c) /\ AnsweredInOrder(c)
    /\ Began(c) /\ FoundSince(c) /\ OneOfThoseMeant(c) /\ RightAnswer(c)

\* The inductive invariant of the composition: the cache's own, the history,
\* and for each caller what its stage says of its request, of the handle it
\* looks up, of the rules still to be found, and of its answer.
ExcelInv == IInv /\ PastIsStored /\ CallsShape /\ \A c \in Callers : CallInv(c)

\* Between two states, keys have only been stored anew.
PastGrows ==
    \A k \in Keys :
        /\ Len(past[k]) =< Len(past'[k])
        /\ \A i \in DOMAIN past[k] : i \in DOMAIN past'[k] /\ past'[k][i] = past[k][i]

LEMMA ItsElement == ASSUME NEW S, S # {} PROVE The(S) \in S
BY DEF The

LEMMA CallersOnlyRead ==
    ASSUME NEW c \in Callers, Start(c) \/ Work(c) \/ Return(c)
    PROVE  /\ UNCHANGED <<vars, past>>
           /\ UNCHANGED content \/ UseRule(c)
<1>1. CASE Start(c)
  BY <1>1 DEF Start
<1>2. CASE Return(c)
  BY <1>2 DEF Return
<1>3. CASE CallIsHandle(c)
  BY <1>3 DEF CallIsHandle
<1>4. CASE CallIsDictionary(c)
  BY <1>4 DEF CallIsDictionary
<1>5. CASE CallGetVariant(c)
  BY <1>5 DEF CallGetVariant
<1>6. CASE Copy(c)
  BY <1>6 DEF Copy
<1>7. CASE Evaluate(c)
  BY <1>7 DEF Evaluate
<1>8. CASE LookUpRule(c)
  BY <1>8 DEF LookUpRule
<1>9. CASE UseRule(c)
  BY <1>9 DEF UseRule
<1>10. CASE Generate(c)
  BY <1>10 DEF Generate
<1>11. QED
  BY <1>1, <1>2, <1>3, <1>4, <1>5, <1>6, <1>7, <1>8, <1>9, <1>10 DEF Work

\* The calls are a part that leaves the cache alone.
LEMMA StepOfCache == ASSUME [ExcelNext]_excelVars PROVE [Next]_vars
<1>1. CASE CreateObjects
  BY <1>1 DEF CreateObjects, Next
<1>2. CASE \E c \in Callers : Start(c) \/ Work(c) \/ Return(c)
  BY <1>2, CallersOnlyRead
<1>3. CASE UNCHANGED excelVars
  BY <1>3 DEF excelVars
<1>4. QED
  BY <1>1, <1>2, <1>3 DEF ExcelNext

\* Of a dictionary that has both keys, the inserting operator[] reads them.
LEMMA NothingInserted ==
    ASSUME NEW d, ValidBusinessDateDictionary(d)
    PROVE  Inserted(Inserted(d, "Days"), "Calendar") = d
BY DEF ValidBusinessDateDictionary, Inserted

LEMMA ContentKept ==
    ASSUME PastIsStored, NEW c \in Callers, UseRule(c)
    PROVE  UNCHANGED content
<1>1. CASE ~ValidBusinessDateDictionary(content[call[c].held.id])
  BY <1>1 DEF UseRule
<1>2. CASE ValidBusinessDateDictionary(content[call[c].held.id])
  <2>1. content = [id \in Ids |-> content[id]]
    BY ContentsAssumption DEF PastIsStored, ContentsAssumption
  <2>2. content' = [content EXCEPT ![call[c].held.id] = content[call[c].held.id]]
    BY <1>2, NothingInserted DEF UseRule
  <2>3. QED
    BY <2>1, <2>2
<1>3. QED
  BY <1>1, <1>2

LEMMA ContentStep ==
    ASSUME PastIsStored, [ExcelNext]_excelVars
    PROVE  UNCHANGED content
<1>1. CASE CreateObjects
  BY <1>1 DEF CreateObjects
<1>2. ASSUME NEW c \in Callers, Start(c) \/ Work(c) \/ Return(c) PROVE UNCHANGED content
  BY <1>2, CallersOnlyRead, ContentKept
<1>3. CASE UNCHANGED excelVars
  BY <1>3 DEF excelVars
<1>4. QED
  BY <1>1, <1>2, <1>3 DEF ExcelNext

LEMMA PastStep ==
    ASSUME IInv, PastIsStored, [ExcelNext]_excelVars
    PROVE  PastIsStored' /\ PastGrows
<1> USE DEF IInv
<1>1. content' = Contents
  BY ContentStep DEF PastIsStored
<1>2. CASE UNCHANGED <<cache, past>>
  BY <1>1, <1>2 DEF PastIsStored, PastGrows, InCache
<1>3. ASSUME CreateObjects, ~UNCHANGED <<cache, past>> PROVE PastIsStored' /\ PastGrows
  <2>1. past' = [k \in Keys |-> IF cache'[k] = cache[k] THEN past[k]
                                ELSE Append(past[k], cache'[k].object.id)]
    BY <1>3 DEF CreateObjects
  <2>2. PICK t \in Threads : Create(t) \/ Store(t) \/ CacheName(t)
    BY <1>3 DEF CreateObjects
  <2>3. CASE UNCHANGED cache
    BY <1>3, <2>1, <2>3 DEF PastIsStored
  <2>4. CASE Store(t)
    <3> DEFINE key == job[t].key  id == job[t].object.id
    <3>1. /\ key \in Keys /\ cache'[key] # Absent
          /\ cache'[key].object.id = id
          /\ \A k \in Keys : k # key => cache'[k] = cache[k]
      <4>1. /\ job[t] \in Creator /\ cache'[key] # Absent
            /\ cache'[key] = [object |-> job[t].object, version |-> NextVersion(key)]
            /\ \A k \in Keys : k # key => cache'[k] = cache[k]
        BY <2>4, StoreAdvances
      <4>2. key \in Keys
        BY <4>1 DEF Creator
      <4>3. QED
        BY <4>1, <4>2
    <3>2. id \in Nat /\ id < made
      BY <2>4, StoreAdvances DEF Creator, Object, JobsAndEntries, Store
    <3>3. id \in Ids
      BY <3>2, ConstantsAssumption DEF Ids, TypeOK, ConstantsAssumption
    <3>4. cache'[key] # cache[key]
      BY <2>4, <3>1 DEF JobsAndEntries, Store, InCache
    <3>5. past'[key] = Append(past[key], id) /\ \A k \in Keys : k # key => past'[k] = past[k]
      BY <2>1, <3>1, <3>4
    <3>10. past[key] \in Seq(Ids)
      BY <3>1 DEF PastIsStored
    <3> HIDE DEF key, id
    <3>6. past' \in [Keys -> Seq(Ids)]
      <4>1. \A k \in Keys : past'[k] \in Seq(Ids)
        <5>1. past'[key] \in Seq(Ids)
          BY <3>3, <3>5, <3>10
        <5>2. \A k \in Keys : past[k] \in Seq(Ids)
          BY DEF PastIsStored
        <5>3. QED
          BY <3>5, <5>1, <5>2
      <4>2. QED
        BY <2>1, <4>1
    <3>7. /\ past'[key] # <<>> /\ past'[key][Len(past'[key])] = id
          /\ Len(past'[key]) = Len(past[key]) + 1
          /\ \A i \in DOMAIN past[key] : i \in DOMAIN past'[key] /\ past'[key][i] = past[key][i]
      BY <3>3, <3>5, <3>10
    <3>8. PastGrows
      <4>1. \A k \in Keys : past[k] \in Seq(Ids)
        BY DEF PastIsStored
      <4>2. QED
        BY <3>5, <3>7, <3>10, <4>1 DEF PastGrows
    <3>9. QED
      BY <1>1, <3>1, <3>5, <3>6, <3>7, <3>8 DEF PastIsStored, InCache
  <2>5. QED
    BY <2>2, <2>3, <2>4 DEF Create, CacheName
<1>4. QED
  BY <1>2, <1>3, CallersOnlyRead DEF ExcelNext, excelVars, vars

-----------------------------------------------------------------------------
(* What an action makes of a caller's record, field by field *)

Fields == {"at", "request", "dictionary", "todo", "options", "held", "since", "answer"}

Typed(c) == DOMAIN call = Callers /\ c \in Callers /\ DOMAIN call[c] = Fields
Others(c) == DOMAIN call' = Callers /\ \A d \in Callers : d # c => call'[d] = call[d]

Becomes(c, at, request, dictionary, todo, options, held, since, answer) ==
    /\ Others(c)
    /\ DOMAIN call'[c] = Fields
    /\ call'[c].at = at /\ call'[c].request = request
    /\ call'[c].dictionary = dictionary /\ call'[c].todo = todo
    /\ call'[c].options = options /\ call'[c].held = held
    /\ call'[c].since = since /\ call'[c].answer = answer

LEMMA Replaced ==
    ASSUME NEW c, NEW r, Typed(c), call' = [call EXCEPT ![c] = r]
    PROVE  Others(c) /\ call'[c] = r
BY DEF Typed, Others

LEMMA Moves ==
    ASSUME NEW c, NEW x, Typed(c), call' = [call EXCEPT ![c].at = x]
    PROVE  LET p == call[c] IN
           Becomes(c, x, p.request, p.dictionary, p.todo, p.options, p.held, p.since, p.answer)
<1> DEFINE p == call[c]  q == [p EXCEPT !.at = x]
<1>1. call' = [call EXCEPT ![c] = q]
  BY Zenon DEF Typed
<1>2. /\ DOMAIN q = Fields /\ q.at = x /\ q.request = p.request
      /\ q.dictionary = p.dictionary /\ q.todo = p.todo /\ q.options = p.options
      /\ q.held = p.held /\ q.since = p.since /\ q.answer = p.answer
  BY Zenon DEF Typed, Fields
<1> HIDE DEF q
<1>3. QED
  BY <1>1, <1>2, Replaced DEF Becomes

LEMMA MovesWithAnswer ==
    ASSUME NEW c, NEW x, NEW y, Typed(c), call' = [call EXCEPT ![c].at = x, ![c].answer = y]
    PROVE  LET p == call[c] IN
           Becomes(c, x, p.request, p.dictionary, p.todo, p.options, p.held, p.since, y)
<1> DEFINE p == call[c]  q == [p EXCEPT !.at = x]  r == [q EXCEPT !.answer = y]
<1>1. call' = [call EXCEPT ![c] = r]
  BY Zenon DEF Typed
<1>2. /\ DOMAIN q = Fields /\ q.at = x /\ q.request = p.request
      /\ q.dictionary = p.dictionary /\ q.todo = p.todo /\ q.options = p.options
      /\ q.held = p.held /\ q.since = p.since
  BY Zenon DEF Typed, Fields
<1> HIDE DEF q
<1>3. /\ DOMAIN r = Fields /\ r.at = x /\ r.request = p.request
      /\ r.dictionary = p.dictionary /\ r.todo = p.todo /\ r.options = p.options
      /\ r.held = p.held /\ r.since = p.since /\ r.answer = y
  BY <1>2, Zenon DEF Fields
<1> HIDE DEF r
<1>4. QED
  BY <1>1, <1>3, Replaced DEF Becomes

LEMMA MovesWithHeld ==
    ASSUME NEW c, NEW x, NEW y, Typed(c), call' = [call EXCEPT ![c].at = x, ![c].held = y]
    PROVE  LET p == call[c] IN
           Becomes(c, x, p.request, p.dictionary, p.todo, p.options, y, p.since, p.answer)
<1> DEFINE p == call[c]  q == [p EXCEPT !.at = x]  r == [q EXCEPT !.held = y]
<1>1. call' = [call EXCEPT ![c] = r]
  BY Zenon DEF Typed
<1>2. /\ DOMAIN q = Fields /\ q.at = x /\ q.request = p.request
      /\ q.dictionary = p.dictionary /\ q.todo = p.todo /\ q.options = p.options
      /\ q.since = p.since /\ q.answer = p.answer
  BY Zenon DEF Typed, Fields
<1> HIDE DEF q
<1>3. /\ DOMAIN r = Fields /\ r.at = x /\ r.request = p.request
      /\ r.dictionary = p.dictionary /\ r.todo = p.todo /\ r.options = p.options
      /\ r.held = y /\ r.since = p.since /\ r.answer = p.answer
  BY <1>2, Zenon DEF Fields
<1> HIDE DEF r
<1>4. QED
  BY <1>1, <1>3, Replaced DEF Becomes

LEMMA MovesWithDictionary ==
    ASSUME NEW c, NEW x, NEW y, Typed(c), call' = [call EXCEPT ![c].at = x, ![c].dictionary = y]
    PROVE  LET p == call[c] IN
           Becomes(c, x, p.request, y, p.todo, p.options, p.held, p.since, p.answer)
<1> DEFINE p == call[c]  q == [p EXCEPT !.at = x]  r == [q EXCEPT !.dictionary = y]
<1>1. call' = [call EXCEPT ![c] = r]
  BY Zenon DEF Typed
<1>2. /\ DOMAIN q = Fields /\ q.at = x /\ q.request = p.request
      /\ q.todo = p.todo /\ q.options = p.options
      /\ q.held = p.held /\ q.since = p.since /\ q.answer = p.answer
  BY Zenon DEF Typed, Fields
<1> HIDE DEF q
<1>3. /\ DOMAIN r = Fields /\ r.at = x /\ r.request = p.request
      /\ r.dictionary = y /\ r.todo = p.todo /\ r.options = p.options
      /\ r.held = p.held /\ r.since = p.since /\ r.answer = p.answer
  BY <1>2, Zenon DEF Fields
<1> HIDE DEF r
<1>4. QED
  BY <1>1, <1>3, Replaced DEF Becomes

LEMMA MovesWithTodo ==
    ASSUME NEW c, NEW x, NEW y, Typed(c), call' = [call EXCEPT ![c].at = x, ![c].todo = y]
    PROVE  LET p == call[c] IN
           Becomes(c, x, p.request, p.dictionary, y, p.options, p.held, p.since, p.answer)
<1> DEFINE p == call[c]  q == [p EXCEPT !.at = x]  r == [q EXCEPT !.todo = y]
<1>1. call' = [call EXCEPT ![c] = r]
  BY Zenon DEF Typed
<1>2. /\ DOMAIN q = Fields /\ q.at = x /\ q.request = p.request
      /\ q.dictionary = p.dictionary /\ q.options = p.options
      /\ q.held = p.held /\ q.since = p.since /\ q.answer = p.answer
  BY Zenon DEF Typed, Fields
<1> HIDE DEF q
<1>3. /\ DOMAIN r = Fields /\ r.at = x /\ r.request = p.request
      /\ r.dictionary = p.dictionary /\ r.todo = y /\ r.options = p.options
      /\ r.held = p.held /\ r.since = p.since /\ r.answer = p.answer
  BY <1>2, Zenon DEF Fields
<1> HIDE DEF r
<1>4. QED
  BY <1>1, <1>3, Replaced DEF Becomes

LEMMA MovesWithOptions ==
    ASSUME NEW c, NEW x, NEW y, NEW z, Typed(c),
           call' = [call EXCEPT ![c].at = x, ![c].options = y, ![c].todo = z]
    PROVE  LET p == call[c] IN
           Becomes(c, x, p.request, p.dictionary, z, y, p.held, p.since, p.answer)
<1> DEFINE p == call[c]  q == [p EXCEPT !.at = x]  r == [q EXCEPT !.options = y]
           s == [r EXCEPT !.todo = z]
<1>1. call' = [call EXCEPT ![c] = s]
  BY Zenon DEF Typed
<1>2. /\ DOMAIN q = Fields /\ q.at = x /\ q.request = p.request
      /\ q.dictionary = p.dictionary
      /\ q.held = p.held /\ q.since = p.since /\ q.answer = p.answer
  BY Zenon DEF Typed, Fields
<1> HIDE DEF q
<1>3. /\ DOMAIN r = Fields /\ r.at = x /\ r.request = p.request
      /\ r.dictionary = p.dictionary /\ r.options = y
      /\ r.held = p.held /\ r.since = p.since /\ r.answer = p.answer
  BY <1>2, Zenon DEF Fields
<1> HIDE DEF r
<1>4. /\ DOMAIN s = Fields /\ s.at = x /\ s.request = p.request
      /\ s.dictionary = p.dictionary /\ s.todo = z /\ s.options = y
      /\ s.held = p.held /\ s.since = p.since /\ s.answer = p.answer
  BY <1>3, Zenon DEF Fields
<1> HIDE DEF s
<1>5. QED
  BY <1>1, <1>4, Replaced DEF Becomes

LEMMA MovesToNothing ==
    ASSUME NEW c, Typed(c), call' = [call EXCEPT ![c] = Nothing]
    PROVE  Becomes(c, "idle", Absent, <<>>, <<>>, <<>>, Absent, <<>>, <<>>)
<1>1. /\ DOMAIN Nothing = Fields /\ Nothing.at = "idle" /\ Nothing.request = Absent
      /\ Nothing.dictionary = <<>> /\ Nothing.todo = <<>> /\ Nothing.options = <<>>
      /\ Nothing.held = Absent /\ Nothing.since = <<>> /\ Nothing.answer = <<>>
  BY DEF Nothing, Fields
<1>2. QED
  BY <1>1, Replaced DEF Becomes

LEMMA MovesToBegun ==
    ASSUME NEW c, NEW q, NEW x, NEW d, NEW y, Typed(c),
           call' = [call EXCEPT ![c] = Begun(q, x, d, y)]
    PROVE  Becomes(c, x, q, d, <<>>, <<>>, Absent, [k \in Keys |-> Len(past[k])], y)
<1> DEFINE since == [k \in Keys |-> Len(past[k])]
           r == [Nothing EXCEPT !.at = x, !.request = q, !.dictionary = d, !.answer = y,
                                !.since = since]
<1>1. Begun(q, x, d, y) = r
  BY DEF Begun
<1>2. /\ DOMAIN Nothing = Fields /\ Nothing.todo = <<>> /\ Nothing.options = <<>>
      /\ Nothing.held = Absent
  BY DEF Nothing, Fields
<1> HIDE DEF since
<1>3. /\ DOMAIN r = Fields /\ r.at = x /\ r.request = q /\ r.dictionary = d
      /\ r.todo = <<>> /\ r.options = <<>> /\ r.held = Absent /\ r.since = since
      /\ r.answer = y
  BY <1>2, Zenon DEF Fields
<1> HIDE DEF r
<1>4. Others(c) /\ call'[c] = r
  BY <1>1, Replaced
<1>5. QED
  BY <1>3, <1>4 DEF Becomes, since

-----------------------------------------------------------------------------
(* A caller that does not move keeps its part of the invariant *)

\* A handle among the arguments names a key; cutting a text changes no handle.
LEMMA HandleOfRequest ==
    ASSUME NEW q \in Requests, IsStr(q.args[1])
    PROVE  LET text == q.args[1][2] IN
           /\ text[1] = "handle" => text[2] \in Keys /\ Counted(text) = text
           /\ Counted(text)[1] = "handle" => text[1] = "handle"
<1> DEFINE text == q.args[1][2]
<1>1. GoodText(Counted(text))
  BY RequestsAssumption DEF RequestsAssumption
<1> HIDE DEF text
<1>2. CASE text[1] = "wide"
  <2>1. Counted(text)[1] = "cut"
    BY <1>2 DEF Counted
  <2>2. QED
    BY <1>2, <2>1 DEF text
<1>3. CASE text[1] # "wide"
  <2>1. Counted(text) = text
    BY <1>3 DEF Counted
  <2>2. QED
    BY <1>1, <2>1 DEF GoodText, text
<1>4. QED
  BY <1>2, <1>3

\* What a request can mean is never less than it was.
LEMMA MeantGrows ==
    ASSUME NEW c, PastGrows, call[c].request \in Requests, UNCHANGED content,
           call'[c].request = call[c].request, call'[c].since = call[c].since
    PROVE  Meant(c) \subseteq Meant(c)'
<1> DEFINE x == call[c].request.args[1]
<1>1. CASE ~IsStr(x)
  BY <1>1 DEF Meant
<1>2. CASE IsStr(x) /\ (x[2][1] # "handle" \/ x[2][2].kind # "Dictionary")
  BY <1>2 DEF Meant
<1>3. CASE IsStr(x) /\ ~(x[2][1] # "handle" \/ x[2][2].kind # "Dictionary")
  <2> DEFINE k == x[2][2]  n == call[c].since[k]
             none == IF n = 0 THEN {<<>>} ELSE {}
  <2>1. k \in Keys
    BY <1>3, HandleOfRequest
  <2>2. Meant(c) = {content[past[k][i]] : i \in {j \in DOMAIN past[k] : j >= n}} \cup none
    BY <1>3 DEF Meant
  <2>3. Meant(c)' = {content[past'[k][i]] : i \in {j \in DOMAIN past'[k] : j >= n}} \cup none
    BY <1>3 DEF Meant
  <2>4. \A i \in DOMAIN past[k] : i \in DOMAIN past'[k] /\ past'[k][i] = past[k][i]
    BY <2>1 DEF PastGrows
  <2> HIDE DEF k, n, none
  <2>5. QED
    BY <2>2, <2>3, <2>4
<1>4. QED
  BY <1>1, <1>2, <1>3

LEMMA TextStays ==
    ASSUME NEW c, call'[c].todo = call[c].todo, call'[c].request = call[c].request,
           call'[c].dictionary = call[c].dictionary
    PROVE  /\ HandleText(c)' = HandleText(c) /\ KeyOf(c)' = KeyOf(c)
           /\ AccrualKey(c)' = AccrualKey(c)
BY DEF HandleText, KeyOf, AccrualKey

LEMMA Unmoved ==
    ASSUME IInv, PastIsStored, CallsShape, [ExcelNext]_excelVars,
           NEW c \in Callers, CallInv(c), call'[c] = call[c]
    PROVE  CallInv(c)'
<1>1. PastIsStored' /\ PastGrows /\ UNCHANGED content
  BY PastStep, ContentStep
<1>2. \A k \in Keys : InCache(k) =>
         /\ InCache(k)'
         /\ cache[k].version \in Nat /\ cache'[k].version \in Nat
         /\ cache[k].version =< cache'[k].version
  BY StepOfCache, EntriesKept DEF IInv
<1>3. HandleText(c)' = HandleText(c) /\ KeyOf(c)' = KeyOf(c) /\ AccrualKey(c)' = AccrualKey(c)
  BY TextStays
<1>4. call[c].at # "idle" => Meant(c) \subseteq Meant(c)'
  BY <1>1, MeantGrows DEF CallsShape, CallShape
<1>5. Phase(c)'
  BY DEF CallInv, Phase
<1>6. LookUps(c)'
  BY <1>2, <1>3 DEF CallInv, LookUps
<1>7. StartsThenEnds(c)'
  <2>1. EndLeft(c) => EndLeft(c)'
    BY <1>2, <1>3 DEF EndLeft, StartVersion
  <2>2. BothLeft(c) => BothLeft(c)'
    BY DEF BothLeft
  <2>3. NoneLeft(c) => NoneLeft(c)'
    BY DEF NoneLeft, StartVersion
  <2>4. QED
    BY <2>1, <2>2, <2>3 DEF CallInv, StartsThenEnds
<1>8. AnsweredInOrder(c)'
  BY DEF CallInv, AnsweredInOrder
<1>9. Began(c)'
  <2>1. \A k \in Keys : Len(past[k]) \in Nat /\ Len(past'[k]) \in Nat
    BY <1>1 DEF PastIsStored
  <2>2. QED
    BY <1>1, <2>1 DEF CallInv, Began, PastGrows
<1>10. FoundSince(c)'
  BY <1>1, <1>3 DEF CallInv, FoundSince, LookUps, PastGrows
<1>11. OneOfThoseMeant(c)'
  BY <1>4 DEF CallInv, OneOfThoseMeant, LookingUp
<1>12. RightAnswer(c)'
  BY <1>4 DEF CallInv, RightAnswer
<1>13. QED
  BY <1>5, <1>6, <1>7, <1>8, <1>9, <1>10, <1>11, <1>12 DEF CallInv

-----------------------------------------------------------------------------
(* What the steps of a caller have in common *)

Framed == UNCHANGED <<vars, past, content>>
Before(c) == IInv /\ PastIsStored /\ CallsShape /\ c \in Callers /\ CallInv(c)
After(c) == Others(c) /\ CallShape(c)' /\ CallInv(c)'

LEMMA BeforeTyped == ASSUME NEW c, Before(c) PROVE Typed(c)
BY DEF Before, CallsShape, CallShape, Typed, Nothing, Fields

\* No key is in the empty dictionary.
LEMMA EmptyIsGood == GoodDictionary(<<>>) /\ \A w : ~Has(<<>>, w)
BY DEF GoodDictionary, Has

LEMMA SameMeaning ==
    ASSUME NEW c, Framed, call'[c].request = call[c].request, call'[c].since = call[c].since
    PROVE  Meant(c)' = Meant(c)
BY DEF Meant, Framed

\* A text that is looked up as a handle names a key.
LEMMA TextIsGood ==
    ASSUME NEW c, Before(c), call[c].at \in LookingUp
    PROVE  GoodText(HandleText(c))
<1> DEFINE d == call[c].dictionary
<1>1. CASE call[c].todo = <<>>
  <2>1. call[c].request \in Requests /\ IsStr(call[c].request.args[1])
    BY <1>1 DEF Before, CallsShape, CallShape, CallInv, Phase, LookingUp
  <2>2. GoodText(Counted(call[c].request.args[1][2]))
    BY <2>1, RequestsAssumption DEF RequestsAssumption
  <2>3. QED
    BY <1>1, <2>2 DEF HandleText
<1>2. CASE call[c].todo # <<>>
  <2> DEFINE w == call[c].todo[1][2]
  <2>1. StringAt(d, w) # {} /\ GoodDictionary(d)
    BY <1>2 DEF Before, CallInv, Phase
  <2>2. HandleText(c) \in StringAt(d, w)
    BY <1>2, <2>1, ItsElement DEF HandleText
  <2>3. Word(w) \in DOMAIN d /\ HandleText(c) \in GetString(d[Word(w)])
    BY <2>2 DEF StringAt, At, Has
  <2>4. QED
    BY <2>1, <2>3 DEF GoodDictionary
<1>3. QED
  BY <1>1, <1>2

RightOf(c, answer) ==
    LET fn == call[c].request.fn IN
    /\ fn = "oxlComputeDate" =>
          \E d \in Meant(c) : answer = Answered(OxlComputeDate(d))
    /\ fn = "oxlAddBusinessDays" =>
          \E d \in Meant(c) : answer = Answered(OxlAddBusinessDays(d))
    /\ fn = "oxlGenerateCashFlows" /\ answer[1] = "schedule" =>
          \E d \in Meant(c) : Terms(d) = {answer[2]}
InOrderOf(c, answer) ==
    answer[1] = "schedule" /\ Has(call[c].dictionary, "Acc_Adj_Rule") =>
        answer[3].start_adjustment.version =< answer[3].end_adjustment.version

LEMMA Answering ==
    ASSUME NEW c, NEW answer, Before(c), Framed, Answers(c, answer), call[c].at # "idle",
           answer # Crash, RightOf(c, answer), InOrderOf(c, answer)
    PROVE  After(c)
<1> DEFINE p == call[c]  at == IF answer = Crash THEN "crashed" ELSE "answered"
<1>1. Becomes(c, at, p.request, p.dictionary, p.todo, p.options, p.held, p.since, answer)
  BY BeforeTyped, MovesWithAnswer DEF Answers
<1>2. at = "answered"
  OBVIOUS
<1> HIDE DEF at
<1>3. CallShape(c)'
  BY <1>1, <1>2 DEF Before, CallsShape, CallShape, Becomes, Stages, Nothing, Fields
<1>4. Phase(c)'
  BY <1>1, <1>2 DEF Before, CallInv, Phase, Becomes, LookingUp
<1>5. LookUps(c)' /\ StartsThenEnds(c)' /\ FoundSince(c)' /\ OneOfThoseMeant(c)'
  BY <1>1, <1>2 DEF LookUps, StartsThenEnds, FoundSince, OneOfThoseMeant, Becomes, LookingUp
<1>6. Began(c)'
  BY <1>1, <1>2 DEF Before, CallInv, Began, Becomes, Framed
<1>7. AnsweredInOrder(c)'
  BY <1>1, <1>2 DEF AnsweredInOrder, InOrderOf, Becomes
<1>8. RightAnswer(c)'
  <2>1. Meant(c)' = Meant(c)
    BY <1>1, SameMeaning DEF Becomes
  <2>2. QED
    BY <1>1, <2>1 DEF RightAnswer, RightOf, Becomes
<1>9. QED
  BY <1>1, <1>3, <1>4, <1>5, <1>6, <1>7, <1>8 DEF After, CallInv, Becomes

LEMMA NoSchedule ==
    /\ Error[1] # "schedule" /\ Error # Crash
    /\ <<"invalid dictionary">>[1] # "schedule" /\ <<"invalid dictionary">> # Crash
BY DEF Error, Crash

\* An error is the right answer of a schedule whose rules are not found.
LEMMA AnsweringError ==
    ASSUME NEW c, Before(c), Framed, Answers(c, Error),
           call[c].at # "idle", call[c].request.fn = "oxlGenerateCashFlows"
    PROVE  After(c)
<1>1. RightOf(c, Error) /\ InOrderOf(c, Error)
  BY NoSchedule DEF RightOf, InOrderOf
<1>2. QED
  BY <1>1, NoSchedule, Answering

-----------------------------------------------------------------------------
(* A call begins *)

\* An empty dictionary has no date to compute with.
LEMMA NothingFromNothing ==
    /\ Answered(OxlComputeDate(<<>>)) = Error
    /\ Answered(OxlAddBusinessDays(<<>>)) = Error
<1>1. DateAt(<<>>, "Base_Date") = {}
  BY EmptyIsGood DEF DateAt, At
<1>2. OxlComputeDate(<<>>) = {} /\ OxlAddBusinessDays(<<>>) = {}
  BY <1>1 DEF OxlComputeDate, OxlAddBusinessDays
<1>3. QED
  BY <1>2 DEF Answered

\* The factories have an object for every convention that the tables know.
LEMMA AllRulesMade ==
    ASSUME NEW text
    PROVE  /\ \A rule \in MapInputToDayCountEnum(text) : GenerateDayCounter(rule)
           /\ \A rule \in MapInputToDayAdjustEnum(text) : CreateDateAdjust(rule)
<1>1. \A rule \in DOMAIN TimeEnumMap : GenerateDayCounter(rule)
  BY DEF TimeEnumMap, GenerateDayCounter
<1>2. \A rule \in DOMAIN DateAdjustMap : CreateDateAdjust(rule)
  BY DEF DateAdjustMap, CreateDateAdjust
<1>3. QED
  BY <1>1, <1>2 DEF MapInputToDayCountEnum, MapInputToDayAdjustEnum, Enumerator

LEMMA PlainFunctionsReturn ==
    ASSUME NEW fn \in Plain, NEW args
    PROVE  Answered(PlainAnswers(fn, args)) # Crash
<1>1. \A x, y : Crash \notin OxlIsBizDay(x, y) \cup OxlIsHolDay(x, y)
  BY DEF OxlIsBizDay, OxlIsHolDay, Crash
<1>2. \A x, y, z : Crash \notin OxlComputeDayCount(x, y, z)
  <2>1. ASSUME NEW x, NEW y, NEW z, NEW a \in OxlComputeDayCount(x, y, z) PROVE a # Crash
    <3>1. PICK start, end, rule :
             /\ a = IF GenerateDayCounter(rule) THEN <<"days", start, end, rule>> ELSE Crash
             /\ rule \in UNION {MapInputToDayCountEnum(s) : s \in LPXloperToStr(z)}
      BY <2>1 DEF OxlComputeDayCount
    <3>2. GenerateDayCounter(rule)
      BY <3>1, AllRulesMade
    <3>3. QED
      BY <3>1, <3>2 DEF Crash
  <2>2. QED
    BY <2>1
<1>3. \A x, y, z : Crash \notin OxlComputeYearFraction(x, y, z)
  <2>1. ASSUME NEW x, NEW y, NEW z, NEW a \in OxlComputeYearFraction(x, y, z) PROVE a # Crash
    <3>1. PICK start, end, rule :
             /\ a = IF GenerateDayCounter(rule) THEN <<"years", start, end, rule>> ELSE Crash
             /\ rule \in UNION {MapInputToDayCountEnum(s) : s \in LPXloperToStr(z)}
      BY <2>1 DEF OxlComputeYearFraction
    <3>2. GenerateDayCounter(rule)
      BY <3>1, AllRulesMade
    <3>3. QED
      BY <3>1, <3>2 DEF Crash
  <2>2. QED
    BY <2>1
<1>4. Crash \notin PlainAnswers(fn, args)
  BY <1>1, <1>2, <1>3 DEF PlainAnswers, Plain
<1>5. QED
  BY <1>4, ItsElement, NoSchedule DEF Answered

\* What a call has at its beginning, whatever it begins with.
LEMMA Beginning ==
    ASSUME NEW c, Before(c), Framed, NEW q \in Requests,
           NEW at \in {"isHandle", "evaluate", "answered"}, NEW d, NEW answer,
           call' = [call EXCEPT ![c] = Begun(q, at, d, answer)],
           GoodDictionary(d)
    PROVE  /\ Becomes(c, at, q, d, <<>>, <<>>, Absent, [k \in Keys |-> Len(past[k])], answer)
           /\ CallShape(c)' /\ LookUps(c)' /\ StartsThenEnds(c)' /\ Began(c)' /\ FoundSince(c)'
<1> DEFINE since == [k \in Keys |-> Len(past[k])]
<1>1. Becomes(c, at, q, d, <<>>, <<>>, Absent, since, answer)
  BY BeforeTyped, MovesToBegun
<1>2. CallShape(c)'
  <2>1. DOMAIN Nothing = Fields
    BY DEF Nothing, Fields
  <2>2. <<>> \in Seq(Lookup)
    OBVIOUS
  <2>3. QED
    BY <1>1, <2>1, <2>2 DEF CallShape, Becomes, Stages
<1>3. LookUps(c)' /\ StartsThenEnds(c)' /\ FoundSince(c)'
  BY <1>1 DEF LookUps, StartsThenEnds, FoundSince, Becomes, LookingUp
<1>4. \A k \in Keys : Len(past[k]) \in Nat
  BY DEF Before, PastIsStored
<1>5. Began(c)'
  BY <1>1, <1>4 DEF Began, Becomes, Framed
<1>6. QED
  BY <1>1, <1>2, <1>3, <1>5

LEMMA StartStep ==
    ASSUME NEW c, Before(c), Start(c)
    PROVE  After(c)
<1>1. Framed
  BY DEF Start, Framed
<1>2. PICK q \in Requests :
         LET arguments == Arguments(q.fn, q.args)
             answer == Answered(PlainAnswers(q.fn, q.args))
         IN  call' = [call EXCEPT ![c] =
                IF q.fn \in Plain
                THEN Begun(q, IF answer = Crash THEN "crashed" ELSE "answered", <<>>, answer)
                ELSE IF IsStr(q.args[1]) THEN Begun(q, "isHandle", <<>>, <<>>)
                ELSE IF arguments = {} THEN Begun(q, "answered", <<>>, Error)
                ELSE Begun(q, "evaluate", The(arguments), <<>>)]
  BY DEF Start
<1> DEFINE arguments == Arguments(q.fn, q.args)
           answer == Answered(PlainAnswers(q.fn, q.args))
           since == [k \in Keys |-> Len(past[k])]
<1>3. q.fn \in Plain \cup DictionaryFns
  BY RequestsAssumption DEF RequestsAssumption
<1>4. Plain \cap DictionaryFns = {}
  BY DEF Plain, DictionaryFns
<1> HIDE DEF arguments, answer, since
<1>5. CASE q.fn \in Plain
  <2> DEFINE at == IF answer = Crash THEN "crashed" ELSE "answered"
  <2>1. call' = [call EXCEPT ![c] = Begun(q, at, <<>>, answer)]
    BY <1>2, <1>5 DEF answer
  <2>2. at = "answered"
    BY <1>5, PlainFunctionsReturn DEF answer
  <2> HIDE DEF at
  <2>3. /\ Becomes(c, at, q, <<>>, <<>>, <<>>, Absent, since, answer)
        /\ CallShape(c)' /\ LookUps(c)' /\ StartsThenEnds(c)' /\ Began(c)' /\ FoundSince(c)'
    BY <1>1, <2>1, <2>2, Beginning, EmptyIsGood DEF since
  <2>4. Phase(c)' /\ OneOfThoseMeant(c)'
    BY <2>2, <2>3, EmptyIsGood DEF Phase, OneOfThoseMeant, Becomes, LookingUp
  <2>5. AnsweredInOrder(c)'
    BY <2>3, EmptyIsGood DEF AnsweredInOrder, Becomes
  <2>6. RightAnswer(c)'
    BY <1>4, <1>5, <2>3 DEF RightAnswer, Becomes, DictionaryFns
  <2>7. QED
    BY <2>3, <2>4, <2>5, <2>6 DEF After, CallInv, Becomes
<1>6. CASE q.fn \notin Plain /\ IsStr(q.args[1])
  <2>1. call' = [call EXCEPT ![c] = Begun(q, "isHandle", <<>>, <<>>)]
    BY <1>2, <1>6
  <2>2. /\ Becomes(c, "isHandle", q, <<>>, <<>>, <<>>, Absent, since, <<>>)
        /\ CallShape(c)' /\ LookUps(c)' /\ StartsThenEnds(c)' /\ Began(c)' /\ FoundSince(c)'
    BY <1>1, <2>1, Beginning, EmptyIsGood DEF since
  <2>3. Phase(c)' /\ OneOfThoseMeant(c)'
    BY <1>3, <1>6, <2>2, EmptyIsGood DEF Phase, OneOfThoseMeant, Becomes, LookingUp
  <2>4. AnsweredInOrder(c)' /\ RightAnswer(c)'
    BY <2>2 DEF AnsweredInOrder, RightAnswer, Becomes
  <2>5. QED
    BY <2>2, <2>3, <2>4 DEF After, CallInv, Becomes
<1>7. CASE q.fn \notin Plain /\ ~IsStr(q.args[1]) /\ arguments = {}
  <2>1. call' = [call EXCEPT ![c] = Begun(q, "answered", <<>>, Error)]
    BY <1>2, <1>7 DEF arguments
  <2>2. /\ Becomes(c, "answered", q, <<>>, <<>>, <<>>, Absent, since, Error)
        /\ CallShape(c)' /\ LookUps(c)' /\ StartsThenEnds(c)' /\ Began(c)' /\ FoundSince(c)'
    BY <1>1, <2>1, Beginning, EmptyIsGood DEF since
  <2>3. Phase(c)' /\ OneOfThoseMeant(c)' /\ AnsweredInOrder(c)'
    BY <2>2, EmptyIsGood DEF Phase, OneOfThoseMeant, AnsweredInOrder, Becomes, LookingUp
  <2>4. q.means = <<>>
    BY <1>3, <1>7, RequestsAssumption DEF RequestsAssumption, arguments
  <2>5. Meant(c)' = {<<>>}
    BY <1>7, <2>2, <2>4 DEF Meant, Becomes
  <2>6. RightAnswer(c)'
    BY <2>2, <2>5, NothingFromNothing, NoSchedule DEF RightAnswer, Becomes
  <2>7. QED
    BY <2>2, <2>3, <2>6 DEF After, CallInv, Becomes
<1>8. CASE q.fn \notin Plain /\ ~IsStr(q.args[1]) /\ arguments # {}
  <2>1. call' = [call EXCEPT ![c] = Begun(q, "evaluate", The(arguments), <<>>)]
    BY <1>2, <1>8 DEF arguments
  <2>2. arguments = {q.means} /\ GoodDictionary(q.means)
    BY <1>3, <1>8, RequestsAssumption DEF RequestsAssumption, arguments
  <2>3. The(arguments) = q.means
    BY <2>2, ItsElement
  <2>4. /\ Becomes(c, "evaluate", q, q.means, <<>>, <<>>, Absent, since, <<>>)
        /\ CallShape(c)' /\ LookUps(c)' /\ StartsThenEnds(c)' /\ Began(c)' /\ FoundSince(c)'
    BY <1>1, <2>1, <2>2, <2>3, Beginning DEF since
  <2>5. Meant(c)' = {q.means}
    BY <1>8, <2>4 DEF Meant, Becomes
  <2>6. Phase(c)' /\ OneOfThoseMeant(c)'
    BY <1>3, <1>8, <2>2, <2>4, <2>5 DEF Phase, OneOfThoseMeant, Becomes, LookingUp
  <2>7. AnsweredInOrder(c)' /\ RightAnswer(c)'
    BY <2>4 DEF AnsweredInOrder, RightAnswer, Becomes
  <2>8. QED
    BY <2>4, <2>6, <2>7 DEF After, CallInv, Becomes
<1>9. QED
  BY <1>5, <1>6, <1>7, <1>8

-----------------------------------------------------------------------------
(* A call looks up a handle *)

LEMMA FoundIsEntry ==
    ASSUME NEW c, Before(c), call[c].at \in LookingUp, HandleText(c)[1] = "handle"
    PROVE  KeyOf(c) \in Keys /\ Found(c) = cache[KeyOf(c)]
BY TextIsGood DEF GoodText, KeyOf, Found

\* What is meant by the handle that stands for the arguments.
LEMMA ArgumentsText ==
    ASSUME NEW c, Before(c), call[c].at \in LookingUp, call[c].todo = <<>>
    PROVE  /\ HandleText(c)[1] # "handle" => Meant(c) = {<<>>}
           /\ HandleText(c)[1] = "handle" /\ KeyOf(c).kind # "Dictionary" => Meant(c) = {<<>>}
           /\ HandleText(c)[1] = "handle" /\ KeyOf(c).kind = "Dictionary" =>
                 LET k == KeyOf(c)  n == call[c].since[k] IN
                 Meant(c) = {content[past[k][i]] : i \in {j \in DOMAIN past[k] : j >= n}}
                               \cup (IF n = 0 THEN {<<>>} ELSE {})
<1> DEFINE x == call[c].request.args[1]
<1>1. call[c].request \in Requests /\ IsStr(x)
  BY DEF Before, CallsShape, CallShape, CallInv, Phase, LookingUp
<1>2. HandleText(c) = Counted(x[2])
  BY DEF HandleText
<1>3. CASE HandleText(c)[1] = "handle"
  <2>1. x[2][1] = "handle" /\ KeyOf(c) = x[2][2]
    BY <1>1, <1>2, <1>3, HandleOfRequest DEF KeyOf
  <2>2. QED
    BY <1>1, <1>3, <2>1 DEF Meant
<1>4. CASE HandleText(c)[1] # "handle"
  <2>1. x[2][1] # "handle"
    BY <1>1, <1>2, <1>4, HandleOfRequest
  <2>2. QED
    BY <1>1, <1>4, <2>1 DEF Meant
<1>5. QED
  BY <1>3, <1>4

LEMMA NoDictionaryStep ==
    ASSUME NEW c, Before(c), Framed, call[c].at \in {"isHandle", "holds"}, NoDictionary(c),
           call[c].todo = <<>> => <<>> \in Meant(c)
    PROVE  After(c)
<1>1. CASE call[c].todo = <<>>
  <2> DEFINE p == call[c]
  <2>1. Becomes(c, "evaluate", p.request, p.dictionary, p.todo, p.options, p.held, p.since, p.answer)
    BY <1>1, BeforeTyped, Moves DEF NoDictionary
  <2>2. p.dictionary = <<>> /\ p.request \in Requests /\ p.request.fn \in DictionaryFns
    BY <1>1 DEF Before, CallsShape, CallShape, CallInv, Phase, LookingUp
  <2>3. CallShape(c)'
    BY <2>1, <2>2 DEF Before, CallsShape, CallShape, Becomes, Stages, Nothing, Fields
  <2>4. Phase(c)'
    BY <1>1, <2>1, <2>2, EmptyIsGood DEF Phase, Becomes, LookingUp
  <2>5. LookUps(c)' /\ StartsThenEnds(c)' /\ FoundSince(c)'
    BY <2>1 DEF LookUps, StartsThenEnds, FoundSince, Becomes, LookingUp
  <2>6. AnsweredInOrder(c)' /\ RightAnswer(c)'
    BY <2>1 DEF AnsweredInOrder, RightAnswer, Becomes
  <2>7. Began(c)'
    BY <2>1 DEF Before, CallInv, Began, Becomes, Framed
  <2>8. OneOfThoseMeant(c)'
    <3>1. Meant(c)' = Meant(c)
      BY <2>1, SameMeaning DEF Becomes
    <3>2. QED
      BY <1>1, <2>1, <2>2, <3>1 DEF OneOfThoseMeant, Becomes
  <2>9. QED
    BY <2>1, <2>3, <2>4, <2>5, <2>6, <2>7, <2>8 DEF After, CallInv, Becomes
<1>2. CASE call[c].todo # <<>>
  <2>1. Answers(c, Error) /\ call[c].request.fn = "oxlGenerateCashFlows"
    BY <1>2 DEF NoDictionary, Before, CallInv, Phase, LookingUp
  <2>2. QED
    BY <2>1, AnsweringError
<1>3. QED
  BY <1>1, <1>2

\* A look-up goes on when what it found is as the later stages want it.
LEMMA StillLookingUp ==
    ASSUME NEW c, Before(c), Framed, call[c].at \in {"isHandle", "holds", "get"},
           NEW at \in {"holds", "get", "use"}, NEW held,
           LET p == call[c] IN
           Becomes(c, at, p.request, p.dictionary, p.todo, p.options, held, p.since, p.answer),
           LookUps(c)', FoundSince(c)',
           at = "use" /\ EndLeft(c) => StartVersion(c) =< held.version
    PROVE  After(c)
<1> DEFINE p == call[c]
<1>1. Becomes(c, at, p.request, p.dictionary, p.todo, p.options, held, p.since, p.answer)
  OBVIOUS
<1>2. CallShape(c)'
  BY <1>1 DEF Before, CallsShape, CallShape, Becomes, Stages, Nothing, Fields
<1>3. Phase(c)'
  BY <1>1 DEF Before, CallInv, Phase, Becomes, LookingUp
<1>4. StartsThenEnds(c)'
  <2>1. AccrualKey(c)' = AccrualKey(c)
    BY <1>1, TextStays DEF Becomes
  <2>2. EndLeft(c) => EndLeft(c)'
    BY <1>1, <2>1 DEF EndLeft, StartVersion, Becomes, Framed, vars, InCache
  <2>3. BothLeft(c) => BothLeft(c)'
    BY <1>1 DEF BothLeft, Becomes
  <2>4. ~NoneLeft(c)
    BY DEF NoneLeft
  <2>5. QED
    BY <1>1, <2>2, <2>3, <2>4 DEF Before, CallInv, StartsThenEnds, Becomes, LookingUp
<1>5. AnsweredInOrder(c)' /\ RightAnswer(c)'
  BY <1>1 DEF AnsweredInOrder, RightAnswer, Becomes
<1>6. Began(c)'
  BY <1>1 DEF Before, CallInv, Began, Becomes, Framed
<1>7. OneOfThoseMeant(c)'
  <2>1. Meant(c)' = Meant(c)
    BY <1>1, SameMeaning DEF Becomes
  <2>2. QED
    BY <1>1, <2>1 DEF Before, CallInv, OneOfThoseMeant, Becomes, LookingUp
<1>8. QED
  BY <1>1, <1>2, <1>3, <1>4, <1>5, <1>6, <1>7 DEF After, CallInv, Becomes

LEMMA IsHandleStep ==
    ASSUME NEW c, Before(c), CallIsHandle(c)
    PROVE  After(c)
<1> DEFINE p == call[c]  k == KeyOf(c)
<1>1. Framed /\ p.at = "isHandle" /\ p.at \in LookingUp
  BY DEF CallIsHandle, Framed, LookingUp
<1>2. CASE Found(c) = Absent
  <2>1. NoDictionary(c)
    BY <1>2 DEF CallIsHandle
  <2>2. ASSUME p.todo = <<>>, HandleText(c)[1] = "handle", k.kind = "Dictionary"
        PROVE  <<>> \in Meant(c)
    <3>1. k \in Keys /\ cache[k] = Absent
      BY <1>1, <1>2, <2>2, FoundIsEntry
    <3>2. past[k] = <<>>
      BY <3>1 DEF Before, PastIsStored, InCache
    <3>3. p.since[k] \in Nat /\ p.since[k] =< 0
      BY <1>1, <3>1, <3>2 DEF Before, CallInv, Began
    <3>4. p.since[k] = 0
      BY <3>3
    <3>5. QED
      BY <1>1, <2>2, <3>4, ArgumentsText
  <2>3. p.todo = <<>> => <<>> \in Meant(c)
    BY <1>1, <2>2, ArgumentsText
  <2>4. QED
    BY <1>1, <2>1, <2>3, NoDictionaryStep
<1>3. CASE Found(c) # Absent
  <2>1. HandleText(c)[1] = "handle"
    BY <1>3 DEF Found
  <2>2. k \in Keys /\ InCache(k)
    BY <1>1, <1>3, <2>1, FoundIsEntry DEF InCache
  <2>3. Becomes(c, "holds", p.request, p.dictionary, p.todo, p.options, p.held, p.since, p.answer)
    BY <1>3, BeforeTyped, Moves DEF CallIsHandle
  <2>4. HandleText(c)' = HandleText(c) /\ KeyOf(c)' = k
    BY <2>3, TextStays DEF Becomes
  <2>5. LookUps(c)' /\ FoundSince(c)'
    BY <1>1, <2>1, <2>2, <2>3, <2>4 DEF LookUps, FoundSince, Becomes, Framed, vars, InCache
  <2>6. QED
    BY <1>1, <2>3, <2>5, StillLookingUp
<1>4. QED
  BY <1>2, <1>3

LEMMA IsDictionaryStep ==
    ASSUME NEW c, Before(c), CallIsDictionary(c)
    PROVE  After(c)
<1> DEFINE p == call[c]  k == KeyOf(c)
<1>1. Framed /\ p.at = "holds" /\ p.at \in LookingUp
  BY DEF CallIsDictionary, Framed, LookingUp
<1>2. HandleText(c)[1] = "handle" /\ k \in Keys /\ InCache(k)
  BY <1>1 DEF Before, CallInv, LookUps
<1>3. Found(c).object.kind = k.kind
  <2>1. Found(c) = cache[k]
    BY <1>1, <1>2, FoundIsEntry
  <2>2. QED
    BY <1>2, <2>1 DEF Before, IInv, JobsAndEntries
<1>4. CASE k.kind # "Dictionary"
  <2>1. NoDictionary(c)
    BY <1>3, <1>4 DEF CallIsDictionary
  <2>2. p.todo = <<>> => <<>> \in Meant(c)
    BY <1>1, <1>2, <1>4, ArgumentsText
  <2>3. QED
    BY <1>1, <2>1, <2>2, NoDictionaryStep
<1>5. CASE k.kind = "Dictionary"
  <2>1. Becomes(c, "get", p.request, p.dictionary, p.todo, p.options, p.held, p.since, p.answer)
    BY <1>3, <1>5, BeforeTyped, Moves DEF CallIsDictionary
  <2>2. HandleText(c)' = HandleText(c) /\ KeyOf(c)' = k
    BY <2>1, TextStays DEF Becomes
  <2>3. LookUps(c)' /\ FoundSince(c)'
    BY <1>1, <1>2, <1>5, <2>1, <2>2 DEF LookUps, FoundSince, Becomes, Framed, vars, InCache
  <2>4. QED
    BY <1>1, <2>1, <2>3, StillLookingUp
<1>6. QED
  BY <1>4, <1>5

LEMMA GetVariantStep ==
    ASSUME NEW c, Before(c), CallGetVariant(c)
    PROVE  After(c)
<1> DEFINE p == call[c]  k == KeyOf(c)
           held == [id |-> Found(c).object.id, version |-> Found(c).version]
<1>1. Framed /\ p.at = "get" /\ p.at \in LookingUp
  BY DEF CallGetVariant, Framed, LookingUp
<1>2. HandleText(c)[1] = "handle" /\ k \in Keys /\ InCache(k) /\ k.kind = "Dictionary"
  BY <1>1 DEF Before, CallInv, LookUps
<1>3. Found(c) = cache[k]
  BY <1>1, <1>2, FoundIsEntry
<1>4. held.id = cache[k].object.id /\ held.version = cache[k].version
  BY <1>3
<1>5. Becomes(c, "use", p.request, p.dictionary, p.todo, p.options, held, p.since, p.answer)
  BY BeforeTyped, MovesWithHeld DEF CallGetVariant
<1> HIDE DEF held
<1>6. cache[k].version \in Nat
  BY <1>2 DEF Before, IInv, TypeOK, InCache, Entry
<1>7. /\ past[k] \in Seq(Ids) /\ past[k] # <<>>
      /\ past[k][Len(past[k])] = held.id
  BY <1>2, <1>4 DEF Before, PastIsStored
<1>8. Len(past[k]) \in DOMAIN past[k] /\ held.id \in Ids
  BY <1>7
<1>9. HandleText(c)' = HandleText(c) /\ KeyOf(c)' = k
  BY <1>5, TextStays DEF Becomes
<1> HIDE DEF k
<1>10. LookUps(c)'
  BY <1>1, <1>2, <1>4, <1>5, <1>6, <1>8, <1>9 DEF LookUps, Becomes, Framed, vars, InCache
<1>11. FoundSince(c)'
  <2>1. p.since[k] =< Len(past[k])
    BY <1>1, <1>2 DEF Before, CallInv, Began
  <2>2. p.since[k] \in Nat /\ Len(past[k]) \in Nat
    BY <1>1, <1>2, <1>7 DEF Before, CallInv, Began
  <2>3. QED
    BY <1>1, <1>5, <1>7, <1>8, <1>9, <2>1, <2>2 DEF FoundSince, Becomes, Framed
<1>12. EndLeft(c) => StartVersion(c) =< held.version
  <2>1. EndLeft(c) => AccrualKey(c) = k
    BY DEF EndLeft, AccrualKey, KeyOf, HandleText, k
  <2>2. QED
    BY <1>4, <2>1 DEF EndLeft
<1>13. QED
  BY <1>1, <1>5, <1>10, <1>11, <1>12, StillLookingUp

LEMMA CopyStep ==
    ASSUME NEW c, Before(c), Copy(c)
    PROVE  After(c)
<1> DEFINE p == call[c]  k == KeyOf(c)  d == content[p.held.id]
<1>1. Framed /\ p.at = "use" /\ p.at \in LookingUp /\ p.todo = <<>>
  BY DEF Copy, Framed, LookingUp
<1>2. Becomes(c, "evaluate", p.request, d, p.todo, p.options, p.held, p.since, p.answer)
  BY BeforeTyped, MovesWithDictionary DEF Copy
<1>3. p.held.id \in Ids /\ HandleText(c)[1] = "handle" /\ k \in Keys /\ k.kind = "Dictionary"
  BY <1>1 DEF Before, CallInv, LookUps
<1>4. GoodDictionary(d)
  BY <1>3, ContentsAssumption DEF ContentsAssumption, Before, PastIsStored
<1>5. d \in Meant(c)
  <2>1. PICK i \in DOMAIN past[k] : i >= p.since[k] /\ p.held.id = past[k][i]
    BY <1>1 DEF Before, CallInv, FoundSince
  <2>2. QED
    BY <1>1, <1>3, <2>1, ArgumentsText
<1>6. p.request \in Requests /\ p.request.fn \in DictionaryFns
  BY <1>1 DEF Before, CallsShape, CallShape, CallInv, Phase
<1> HIDE DEF d
<1>7. CallShape(c)'
  BY <1>2, <1>6 DEF Before, CallsShape, CallShape, Becomes, Stages, Nothing, Fields
<1>8. Phase(c)'
  BY <1>1, <1>2, <1>4, <1>6 DEF Phase, Becomes, LookingUp
<1>9. LookUps(c)' /\ StartsThenEnds(c)' /\ FoundSince(c)' /\ AnsweredInOrder(c)' /\ RightAnswer(c)'
  BY <1>2 DEF LookUps, StartsThenEnds, FoundSince, AnsweredInOrder, RightAnswer, Becomes, LookingUp
<1>10. Began(c)'
  BY <1>1, <1>2 DEF Before, CallInv, Began, Becomes, Framed
<1>11. OneOfThoseMeant(c)'
  <2>1. Meant(c)' = Meant(c)
    BY <1>1, <1>2, SameMeaning DEF Becomes
  <2>2. QED
    BY <1>2, <1>5, <2>1 DEF OneOfThoseMeant, Becomes
<1>12. QED
  BY <1>2, <1>7, <1>8, <1>9, <1>10, <1>11 DEF After, CallInv, Becomes

-----------------------------------------------------------------------------
(* A dictionary says one thing *)

AtMostOne(S) == \A x, y \in S : x = y

LEMMA OneOfEach ==
    ASSUME NEW R, AtMostOne(R), \A r \in R : AtMostOne(r)
    PROVE  AtMostOne(UNION R)
BY DEF AtMostOne

LEMMA OneRead ==
    /\ \A v : AtMostOne(GetString(v)) /\ AtMostOne(GetDouble(v))
    /\ \A x : AtMostOne(LPXloperToStr(x))
    /\ \A text : AtMostOne(DateOf(text)) /\ AtMostOne(TenorOf(text))
BY DEF AtMostOne, GetString, GetDouble, LPXloperToStr, DateOf, TenorOf

LEMMA OneAt ==
    ASSUME NEW d, NEW w
    PROVE  AtMostOne(At(d, w)) /\ AtMostOne(StringAt(d, w)) /\ AtMostOne(DoubleAt(d, w))
<1>1. AtMostOne(At(d, w))
  BY DEF At, AtMostOne
<1>2. AtMostOne({GetString(v) : v \in At(d, w)}) /\ AtMostOne({GetDouble(v) : v \in At(d, w)})
  BY <1>1 DEF AtMostOne
<1>3. QED
  BY <1>1, <1>2, OneRead, OneOfEach DEF StringAt, DoubleAt

LEMMA OneDate == \A x : AtMostOne(ToDateObj(x))
<1> SUFFICES ASSUME NEW x PROVE AtMostOne(ToDateObj(x))
  OBVIOUS
<1>1. AtMostOne({DateOf(s) : s \in LPXloperToStr(x)})
  BY OneRead DEF AtMostOne
<1>2. AtMostOne(UNION {DateOf(s) : s \in LPXloperToStr(x)})
  BY <1>1, OneRead, OneOfEach
<1>3. CASE x[1] \in {"Num", "double"}
  BY <1>3 DEF ToDateObj, AtMostOne
<1>4. CASE x[1] = "Str"
  BY <1>2, <1>4 DEF ToDateObj
<1>5. CASE x[1] = "string"
  BY <1>5, OneRead DEF ToDateObj
<1>6. CASE x[1] \notin {"Num", "double", "Str", "string"}
  BY <1>6 DEF ToDateObj, AtMostOne
<1>7. QED
  BY <1>3, <1>4, <1>5, <1>6

LEMMA OneDateAt == ASSUME NEW d, NEW w PROVE AtMostOne(DateAt(d, w))
<1>1. AtMostOne({ToDateObj(v) : v \in At(d, w)})
  BY OneAt DEF AtMostOne
<1>2. QED
  BY <1>1, OneDate, OneOfEach DEF DateAt

\* No word stands for two conventions of a table.
Disjoint(table) == \A e, f \in DOMAIN table : e # f => table[e] \cap table[f] = {}

LEMMA OneEnumerator ==
    ASSUME NEW table, Disjoint(table), NEW text
    PROVE  AtMostOne(Enumerator(table, text))
<1>1. \A v, w : Word(v) = Word(w) => v = w
  BY DEF Word
<1>2. QED
  BY <1>1 DEF AtMostOne, Disjoint, Enumerator

LEMMA WordsDiffer ==
    /\ Disjoint(TimeEnumMap) /\ Disjoint(FreqMap)
    /\ Disjoint(DateDirectionMap) /\ Disjoint(CFStubMap)
<1>1. Disjoint(TimeEnumMap)
  BY DEF Disjoint, TimeEnumMap
<1>2. Disjoint(FreqMap)
  BY DEF Disjoint, FreqMap
<1>3. Disjoint(DateDirectionMap)
  BY DEF Disjoint, DateDirectionMap
<1>4. Disjoint(CFStubMap)
  BY DEF Disjoint, CFStubMap
<1>5. QED
  BY <1>1, <1>2, <1>3, <1>4

LEMMA OneMatDate == ASSUME NEW d PROVE AtMostOne(HandleMatDate(d))
<1> DEFINE mat_date == d[Word("Mat_Date")]
           tenors == UNION {TenorOf(s) : s \in GetString(mat_date)}
<1>1. AtMostOne({TenorOf(s) : s \in GetString(mat_date)})
  BY OneRead DEF AtMostOne
<1>2. AtMostOne(tenors)
  BY <1>1, OneRead, OneOfEach
<1>3. AtMostOne(DateAt(d, "Start_Date")) /\ AtMostOne(ToDateObj(mat_date))
  BY OneDateAt, OneDate
<1>4. CASE GetString(mat_date) # {}
  <2>1. HandleMatDate(d) = {<<start, tenor>> : start \in DateAt(d, "Start_Date"), tenor \in tenors}
    BY <1>4 DEF HandleMatDate
  <2> HIDE DEF tenors
  <2>2. QED
    BY <1>2, <1>3, <2>1 DEF AtMostOne
<1>5. CASE GetString(mat_date) = {}
  <2>1. HandleMatDate(d) = {<<day>> : day \in ToDateObj(mat_date)}
    BY <1>5 DEF HandleMatDate
  <2> HIDE DEF mat_date
  <2>2. QED
    BY <1>3, <2>1 DEF AtMostOne
<1>6. QED
  BY <1>4, <1>5

LEMMA OneFrequency == \A text : AtMostOne(Frequency(text))
<1> SUFFICES ASSUME NEW text PROVE AtMostOne(Frequency(text))
  OBVIOUS
<1>1. AtMostOne(MapInputToFreq(text))
  BY OneEnumerator, WordsDiffer DEF MapInputToFreq
<1>2. \A f : AtMostOne(MapResetFreqEnumToTenor(f))
  BY DEF AtMostOne, MapResetFreqEnumToTenor
<1>3. AtMostOne({MapResetFreqEnumToTenor(f) : f \in MapInputToFreq(text)})
  BY <1>1 DEF AtMostOne
<1>4. AtMostOne(UNION {MapResetFreqEnumToTenor(f) : f \in MapInputToFreq(text)})
  BY <1>2, <1>3, OneOfEach
<1>5. QED
  BY <1>4, OneRead DEF Frequency

LEMMA OneStub == ASSUME NEW d, NEW w PROVE AtMostOne(StubAt(d, w))
<1>1. AtMostOne({MapInputToStub(s) : s \in StringAt(d, w)})
  BY OneAt DEF AtMostOne
<1>2. \A s : AtMostOne(MapInputToStub(s))
  BY OneEnumerator, WordsDiffer DEF MapInputToStub
<1>3. AtMostOne(UNION {MapInputToStub(s) : s \in StringAt(d, w)})
  BY <1>1, <1>2, OneOfEach
<1>4. CASE Has(d, w)
  BY <1>3, <1>4 DEF StubAt
<1>5. CASE ~Has(d, w)
  BY <1>5 DEF StubAt, AtMostOne
<1>6. QED
  BY <1>4, <1>5

\* A dictionary has the terms of one schedule, or of none.
LEMMA OneSchedule == ASSUME NEW d PROVE AtMostOne(Terms(d))
<1> DEFINE starts == DateAt(d, "Start_Date")
           mats == HandleMatDate(d)
           notionals == DoubleAt(d, "Notional")
           rates == DoubleAt(d, "Rate")
           rules == UNION {MapInputToDayCountEnum(s) : s \in StringAt(d, "Day_Count_Frac")}
           freqs == UNION {Frequency(s) : s \in StringAt(d, "Frequency")}
           directions == UNION {MapInputToDateDir(s) : s \in StringAt(d, "Date_Dir")}
           fronts == StubAt(d, "Front_Stub_Type")
           backs == StubAt(d, "Back_Stub_Type")
<1>1. AtMostOne(starts) /\ AtMostOne(mats) /\ AtMostOne(notionals) /\ AtMostOne(rates)
  BY OneDateAt, OneMatDate, OneAt
<1>2. AtMostOne(fronts) /\ AtMostOne(backs)
  BY OneStub
<1>3. AtMostOne(rules)
  <2>1. AtMostOne({MapInputToDayCountEnum(s) : s \in StringAt(d, "Day_Count_Frac")})
    BY OneAt DEF AtMostOne
  <2>2. \A s : AtMostOne(MapInputToDayCountEnum(s))
    BY OneEnumerator, WordsDiffer DEF MapInputToDayCountEnum
  <2>3. QED
    BY <2>1, <2>2, OneOfEach
<1>4. AtMostOne(freqs)
  <2>1. AtMostOne({Frequency(s) : s \in StringAt(d, "Frequency")})
    BY OneAt DEF AtMostOne
  <2>2. QED
    BY <2>1, OneFrequency, OneOfEach
<1>5. AtMostOne(directions)
  <2>1. AtMostOne({MapInputToDateDir(s) : s \in StringAt(d, "Date_Dir")})
    BY OneAt DEF AtMostOne
  <2>2. \A s : AtMostOne(MapInputToDateDir(s))
    BY OneEnumerator, WordsDiffer DEF MapInputToDateDir
  <2>3. QED
    BY <2>1, <2>2, OneOfEach
<1>6. Terms(d) =
    {[start_date |-> start, mat_date |-> mat, notional |-> notional, rate |-> rate,
      day_count_rule |-> rule, reset_freq |-> freq, date_direction |-> direction,
      front_stub_type |-> front, back_stub_type |-> back, currency |-> "kUSD",
      cashflow_type |-> "kFixed", reset_direction |-> "kAdvance"] :
        start \in starts, mat \in mats, notional \in notionals, rate \in rates,
        rule \in rules, freq \in freqs, direction \in directions,
        front \in fronts, back \in backs}
  BY DEF Terms
<1> HIDE DEF starts, mats, notionals, rates, rules, freqs, directions, fronts, backs
<1>7. QED
  BY <1>1, <1>2, <1>3, <1>4, <1>5, <1>6 DEF AtMostOne

-----------------------------------------------------------------------------
(* A call computes its answer *)

\* What the functions of dates answer is never a schedule, nor a crash.
LEMMA DatesAreNoSchedule ==
    ASSUME NEW d
    PROVE  /\ Answered(OxlComputeDate(d))[1] # "schedule"
           /\ Answered(OxlAddBusinessDays(d))[1] # "schedule"
           /\ Answered(OxlComputeDate(d)) # Crash
           /\ Answered(OxlAddBusinessDays(d)) # Crash
<1>1. \A a \in OxlAddBusinessDays(d) : a[1] # "schedule" /\ a # Crash
  BY DEF OxlAddBusinessDays, Crash
<1>2. ASSUME NEW a \in OxlComputeDate(d) PROVE a[1] # "schedule" /\ a # Crash
  <2>1. PICK b, t, rule, cal :
           /\ a = IF CreateDateAdjust(rule) THEN <<"date", b, t, rule, cal>> ELSE Crash
           /\ rule \in UNION {MapInputToDayAdjustEnum(s) : s \in StringAt(d, "Adjustment_Rule")}
    BY <1>2 DEF OxlComputeDate
  <2>2. CreateDateAdjust(rule)
    BY <2>1, AllRulesMade
  <2>3. QED
    BY <2>1, <2>2 DEF Crash
<1>3. QED
  BY <1>1, <1>2, ItsElement, NoSchedule DEF Answered

LEMMA RulesAreTexts ==
    ASSUME NEW d
    PROVE  /\ RuleLookups(d) \in Seq(Lookup)
           /\ Has(d, "Acc_Adj_Rule") =>
                 LET todo == RuleLookups(d) IN
                 /\ Len(todo) >= 2
                 /\ todo[Len(todo) - 1] = <<"start_adjustment", "Acc_Adj_Rule">>
                 /\ todo[Len(todo)] = <<"end_adjustment", "Acc_Adj_Rule">>
<1> DEFINE a == <<"start_adjustment", "Acc_Adj_Rule">>
           b == <<"end_adjustment", "Acc_Adj_Rule">>
           first == Given(d, "fix_adjustment", "Fixing_Date_Rule")
                      \o Given(d, "pay_adjustment", "Payment_Date_Rule")
<1>1. ASSUME NEW option, NEW w, <<option, w>> \in Lookup
      PROVE  Given(d, option, w) \in Seq(Lookup)
  BY <1>1 DEF Given
<1>2. a \in Lookup /\ b \in Lookup
  BY DEF Lookup
<1>3. first \in Seq(Lookup)
  <2>1. /\ <<"fix_adjustment", "Fixing_Date_Rule">> \in Lookup
        /\ <<"pay_adjustment", "Payment_Date_Rule">> \in Lookup
    BY DEF Lookup
  <2>2. /\ Given(d, "fix_adjustment", "Fixing_Date_Rule") \in Seq(Lookup)
        /\ Given(d, "pay_adjustment", "Payment_Date_Rule") \in Seq(Lookup)
    BY <1>1, <2>1
  <2>3. QED
    BY <2>2
<1>4. RuleLookups(d) = first \o AccrualRules(d)
  BY DEF RuleLookups
<1> HIDE DEF first
<1>5. CASE Has(d, "Acc_Adj_Rule")
  <2>1. AccrualRules(d) = <<a, b>>
    BY <1>5 DEF AccrualRules
  <2> HIDE DEF a, b
  <2>2. <<a, b>> \in Seq(Lookup)
    BY <1>2
  <2>3. /\ first \o <<a, b>> \in Seq(Lookup)
        /\ Len(first \o <<a, b>>) = Len(first) + 2
        /\ (first \o <<a, b>>)[Len(first) + 1] = a
        /\ (first \o <<a, b>>)[Len(first) + 2] = b
    BY <1>2, <1>3, <2>2
  <2>4. Len(first) \in Nat
    BY <1>3
  <2> DEFINE todo == first \o <<a, b>>
  <2>5. Len(todo) >= 2 /\ Len(todo) - 1 = Len(first) + 1
    BY <2>3, <2>4
  <2>6. QED
    BY <1>4, <2>1, <2>3, <2>5 DEF a, b
<1>6. CASE ~Has(d, "Acc_Adj_Rule")
  <2>1. AccrualRules(d) = Given(d, "end_adjustment", "End_Adj_Rule")
                            \o Given(d, "start_adjustment", "Start_Adj_Rule")
    BY <1>6 DEF AccrualRules
  <2>2. /\ <<"start_adjustment", "Start_Adj_Rule">> \in Lookup
        /\ <<"end_adjustment", "End_Adj_Rule">> \in Lookup
    BY DEF Lookup
  <2>3. /\ Given(d, "start_adjustment", "Start_Adj_Rule") \in Seq(Lookup)
        /\ Given(d, "end_adjustment", "End_Adj_Rule") \in Seq(Lookup)
    BY <1>1, <2>2
  <2>4. AccrualRules(d) \in Seq(Lookup)
    BY <2>1, <2>3
  <2>5. QED
    BY <1>3, <1>4, <1>6, <2>4
<1>7. QED
  BY <1>5, <1>6

LEMMA EvaluateStep ==
    ASSUME NEW c, Before(c), Evaluate(c)
    PROVE  After(c)
<1> DEFINE p == call[c]  d == p.dictionary  fn == p.request.fn
<1>1. /\ Framed /\ p.at = "evaluate" /\ p.at # "idle" /\ p.todo = <<>>
      /\ fn \in DictionaryFns /\ d \in Meant(c) /\ GoodDictionary(d)
      /\ p.request \in Requests
  BY DEF Evaluate, Framed, Before, CallsShape, CallShape, CallInv, Phase, OneOfThoseMeant
<1>2. CASE fn = "oxlComputeDate"
  <2>1. Answers(c, Answered(OxlComputeDate(d)))
    BY <1>2, Zenon DEF Evaluate
  <2>2. RightOf(c, Answered(OxlComputeDate(d))) /\ InOrderOf(c, Answered(OxlComputeDate(d)))
    BY <1>1, <1>2, DatesAreNoSchedule DEF RightOf, InOrderOf
  <2>3. QED
    BY <1>1, <2>1, <2>2, DatesAreNoSchedule, NoSchedule, Answering
<1>3. CASE fn = "oxlAddBusinessDays"
  <2>1. Answers(c, Answered(OxlAddBusinessDays(d)))
    BY <1>3, Zenon DEF Evaluate
  <2>2. RightOf(c, Answered(OxlAddBusinessDays(d))) /\ InOrderOf(c, Answered(OxlAddBusinessDays(d)))
    BY <1>1, <1>3, DatesAreNoSchedule DEF RightOf, InOrderOf
  <2>3. QED
    BY <1>1, <2>1, <2>2, DatesAreNoSchedule, NoSchedule, Answering
<1>4. CASE fn = "oxlGenerateCashFlows" /\ ~ValidCashflowGenDictionary(d)
  <2>1. Answers(c, <<"invalid dictionary">>)
    BY <1>4, Zenon DEF Evaluate
  <2>2. RightOf(c, <<"invalid dictionary">>) /\ InOrderOf(c, <<"invalid dictionary">>)
    BY <1>4, NoSchedule DEF RightOf, InOrderOf
  <2>3. QED
    BY <1>1, <2>1, <2>2, DatesAreNoSchedule, NoSchedule, Answering
<1>5. CASE fn = "oxlGenerateCashFlows" /\ ValidCashflowGenDictionary(d) /\ Terms(d) = {}
  <2>1. Answers(c, Error)
    BY <1>5, Zenon DEF Evaluate
  <2>2. QED
    BY <1>1, <1>5, <2>1, AnsweringError
<1>6. CASE fn = "oxlGenerateCashFlows" /\ ValidCashflowGenDictionary(d) /\ Terms(d) # {}
  <2>1. call' = [call EXCEPT ![c].at = "rules", ![c].todo = RuleLookups(d)]
    BY <1>6, Zenon DEF Evaluate
  <2>2. Becomes(c, "rules", p.request, d, RuleLookups(d), p.options, p.held, p.since, p.answer)
    BY <2>1, BeforeTyped, MovesWithTodo
  <2>3. CallShape(c)'
    BY <1>1, <2>2, RulesAreTexts
       DEF Before, CallsShape, CallShape, Becomes, Stages, Nothing, Fields
  <2>4. Phase(c)'
    BY <1>1, <1>6, <2>2 DEF Phase, Becomes, LookingUp
  <2>5. LookUps(c)' /\ FoundSince(c)' /\ AnsweredInOrder(c)' /\ RightAnswer(c)'
    BY <2>2 DEF LookUps, FoundSince, AnsweredInOrder, RightAnswer, Becomes
  <2>6. StartsThenEnds(c)'
    BY <2>2, RulesAreTexts DEF StartsThenEnds, BothLeft, Becomes
  <2>7. Began(c)'
    BY <1>1, <2>2 DEF Before, CallInv, Began, Becomes, Framed
  <2>8. OneOfThoseMeant(c)'
    <3>1. Meant(c)' = Meant(c)
      BY <1>1, <2>2, SameMeaning DEF Becomes
    <3>2. QED
      BY <1>1, <2>2, <3>1 DEF OneOfThoseMeant, Becomes
  <2>9. QED
    BY <2>2, <2>3, <2>4, <2>5, <2>6, <2>7, <2>8 DEF After, CallInv, Becomes
<1>7. QED
  BY <1>1, <1>2, <1>3, <1>4, <1>5, <1>6 DEF DictionaryFns

LEMMA LookUpRuleStep ==
    ASSUME NEW c, Before(c), LookUpRule(c)
    PROVE  After(c)
<1> DEFINE p == call[c]  d == p.dictionary
<1>1. /\ Framed /\ p.at = "rules" /\ p.at # "idle" /\ p.todo # <<>>
      /\ p.request.fn = "oxlGenerateCashFlows" /\ GoodDictionary(d)
      /\ p.request \in Requests /\ d \in Meant(c)
  BY DEF LookUpRule, Framed, Before, CallsShape, CallShape, CallInv, Phase, OneOfThoseMeant
<1>2. CASE StringAt(d, p.todo[1][2]) = {}
  <2>1. Answers(c, Error)
    BY <1>2 DEF LookUpRule
  <2>2. QED
    BY <1>1, <2>1, AnsweringError
<1>3. CASE StringAt(d, p.todo[1][2]) # {}
  <2>1. call' = [call EXCEPT ![c].at = "isHandle"]
    BY <1>3, Zenon DEF LookUpRule
  <2>2. Becomes(c, "isHandle", p.request, d, p.todo, p.options, p.held, p.since, p.answer)
    BY <2>1, BeforeTyped, Moves
  <2>3. CallShape(c)'
    BY <1>1, <2>2 DEF Before, CallsShape, CallShape, Becomes, Stages, Nothing, Fields
  <2>4. Phase(c)'
    BY <1>1, <1>3, <2>2 DEF Phase, Becomes, LookingUp, DictionaryFns
  <2>5. LookUps(c)' /\ FoundSince(c)' /\ AnsweredInOrder(c)' /\ RightAnswer(c)'
    BY <2>2 DEF LookUps, FoundSince, AnsweredInOrder, RightAnswer, Becomes
  <2>6. StartsThenEnds(c)'
    <3>1. AccrualKey(c)' = AccrualKey(c)
      BY <2>2, TextStays DEF Becomes
    <3>2. EndLeft(c) => EndLeft(c)'
      BY <1>1, <2>2, <3>1 DEF EndLeft, StartVersion, Becomes, Framed, vars, InCache
    <3>3. BothLeft(c) => BothLeft(c)'
      BY <2>2 DEF BothLeft, Becomes
    <3>4. ~NoneLeft(c)
      BY <1>1 DEF NoneLeft
    <3>5. Has(d, "Acc_Adj_Rule") => BothLeft(c) \/ EndLeft(c)
      BY <1>1, <3>4 DEF Before, CallInv, StartsThenEnds
    <3>6. QED
      BY <2>2, <3>2, <3>3, <3>5 DEF StartsThenEnds, Becomes
  <2>7. Began(c)'
    BY <1>1, <2>2 DEF Before, CallInv, Began, Becomes, Framed
  <2>8. OneOfThoseMeant(c)'
    <3>1. Meant(c)' = Meant(c)
      BY <1>1, <2>2, SameMeaning DEF Becomes
    <3>2. QED
      BY <1>1, <2>2, <3>1 DEF OneOfThoseMeant, Becomes
  <2>9. QED
    BY <2>2, <2>3, <2>4, <2>5, <2>6, <2>7, <2>8 DEF After, CallInv, Becomes
<1>4. QED
  BY <1>2, <1>3

LEMMA StoredOption ==
    /\ \A f, key, value : DOMAIN Stored(f, key, value) = DOMAIN f \cup {key}
    /\ \A f, key, value : Stored(f, key, value)[key] = value
    /\ \A f, key, value : \A k \in DOMAIN f : k # key => Stored(f, key, value)[k] = f[k]
BY DEF Stored

\* The rules still to be found, after one more was found.
LEMMA TodoShrinks ==
    ASSUME NEW todo \in Seq(Lookup), todo # <<>>
    PROVE  /\ todo[1] \in Lookup /\ Tail(todo) \in Seq(Lookup)
           /\ Len(todo) \in Nat /\ Len(Tail(todo)) = Len(todo) - 1
           /\ \A i \in 1 .. Len(todo) - 1 : Tail(todo)[i] = todo[i + 1]
           /\ Len(todo) = 2 => Tail(todo) = <<todo[2]>>
<1>1. /\ todo[1] \in Lookup /\ Tail(todo) \in Seq(Lookup)
      /\ Len(todo) \in Nat /\ Len(Tail(todo)) = Len(todo) - 1
      /\ \A i \in 1 .. Len(todo) - 1 : Tail(todo)[i] = todo[i + 1]
  OBVIOUS
<1>2. ASSUME NEW rest \in Seq(Lookup), Len(rest) = 1 PROVE rest = <<rest[1]>>
  BY <1>2
<1>3. ASSUME Len(todo) = 2 PROVE Tail(todo) = <<todo[2]>>
  <2> DEFINE rest == Tail(todo)
  <2>1. rest \in Seq(Lookup) /\ Len(rest) = 1
    BY <1>1, <1>3
  <2>2. \A i \in 1 .. Len(todo) - 1 : rest[i] = todo[i + 1]
    BY <1>1
  <2> HIDE DEF rest
  <2>3. \A i \in 1 .. 1 : rest[i] = todo[i + 1]
    BY <1>3, <2>2
  <2>4. \A i \in {1} : rest[i] = todo[i + 1]
    BY <2>3
  <2>5. rest[1] = todo[2]
    BY <2>4
  <2>6. QED
    BY <1>2, <2>1, <2>5 DEF rest
<1>4. QED
  BY <1>1, <1>3

LEMMA UseRuleStep ==
    ASSUME NEW c, Before(c), UseRule(c)
    PROVE  After(c)
<1> DEFINE p == call[c]  d == p.dictionary  k == KeyOf(c)  rule == content[p.held.id]
           found == [formula |-> The(BusinessDateFormula(rule)), version |-> p.held.version]
           options == Stored(p.options, p.todo[1][1], found)
<1>1. UNCHANGED content
  BY ContentKept DEF Before
<1>2. /\ Framed /\ p.at = "use" /\ p.at # "idle" /\ p.at \in LookingUp /\ p.todo # <<>>
      /\ p.request.fn = "oxlGenerateCashFlows" /\ GoodDictionary(d)
      /\ p.request \in Requests /\ d \in Meant(c) /\ p.todo \in Seq(Lookup)
  <2>1. UNCHANGED <<vars, past>> /\ p.at = "use" /\ p.todo # <<>>
    BY DEF UseRule
  <2>2. QED
    BY <1>1, <2>1
       DEF Framed, Before, CallsShape, CallShape, CallInv, Phase, OneOfThoseMeant, LookingUp
<1>3. /\ HandleText(c)[1] = "handle" /\ k \in Keys /\ InCache(k) /\ p.held.version \in Nat
      /\ p.held.version =< cache[k].version
  BY <1>2 DEF Before, CallInv, LookUps
<1>4. CASE ~ValidBusinessDateDictionary(rule)
  <2>1. Answers(c, Error)
    BY <1>4 DEF UseRule
  <2>2. QED
    BY <1>2, <2>1, AnsweringError
<1>5. CASE ValidBusinessDateDictionary(rule) /\ BusinessDateFormula(rule) = {}
  <2>1. Answers(c, Error)
    BY <1>5, NothingInserted DEF UseRule
  <2>2. QED
    BY <1>2, <2>1, AnsweringError
<1>6. CASE ValidBusinessDateDictionary(rule) /\ BusinessDateFormula(rule) # {}
  <2>1. Inserted(Inserted(rule, "Days"), "Calendar") = rule
    BY <1>6, NothingInserted
  <2>2. call' = [call EXCEPT ![c].at = "rules", ![c].options = options, ![c].todo = Tail(p.todo)]
    BY <1>6, <2>1, Zenon DEF UseRule
  <2>3. Becomes(c, "rules", p.request, d, Tail(p.todo), options, p.held, p.since, p.answer)
    BY <2>2, BeforeTyped, MovesWithOptions
  <2>4. found.version = p.held.version
    OBVIOUS
  <2> HIDE DEF found
  <2>5. /\ DOMAIN options = DOMAIN p.options \cup {p.todo[1][1]}
        /\ options[p.todo[1][1]] = found
        /\ \A o \in DOMAIN p.options : o # p.todo[1][1] => options[o] = p.options[o]
    <3> DEFINE f == p.options  o1 == p.todo[1][1]
    <3>1. options = Stored(f, o1, found)
      OBVIOUS
    <3> HIDE DEF options, f, o1
    <3>2. DOMAIN options = DOMAIN f \cup {o1}
      BY <3>1, StoredOption
    <3>3. options[o1] = found
      BY <3>1, StoredOption
    <3>4. \A o \in DOMAIN f : o # o1 => options[o] = f[o]
      BY <3>1, StoredOption
    <3>5. QED
      BY <3>2, <3>3, <3>4 DEF f, o1
  <2> HIDE DEF options
  <2>6. CallShape(c)'
    BY <1>2, <2>3, TodoShrinks
       DEF Before, CallsShape, CallShape, Becomes, Stages, Nothing, Fields
  <2>7. Phase(c)'
    BY <1>2, <2>3 DEF Phase, Becomes, LookingUp, DictionaryFns
  <2>8. LookUps(c)' /\ FoundSince(c)' /\ AnsweredInOrder(c)' /\ RightAnswer(c)'
    BY <2>3 DEF LookUps, FoundSince, AnsweredInOrder, RightAnswer, Becomes
  <2>9. StartsThenEnds(c)'
    <3> DEFINE todo == p.todo  n == Len(todo)
    <3>1. /\ n \in Nat /\ Tail(todo) \in Seq(Lookup) /\ Len(Tail(todo)) = n - 1
          /\ \A i \in 1 .. n - 1 : Tail(todo)[i] = todo[i + 1]
          /\ n = 2 => Tail(todo) = <<todo[2]>>
      BY <1>2, TodoShrinks
    <3>2. ASSUME BothLeft(c), n > 2 PROVE BothLeft(c)'
      <4>1. n - 2 \in 1 .. n - 1 /\ n - 1 \in 1 .. n - 1 /\ n - 2 + 1 = n - 1 /\ n - 1 + 1 = n
        BY <3>1, <3>2
      <4>2. Tail(todo)[n - 2] = todo[n - 1] /\ Tail(todo)[n - 1] = todo[n]
        BY <3>1, <4>1
      <4>3. n - 1 >= 2 /\ (n - 1) - 1 = n - 2
        BY <3>1, <3>2
      <4>4. QED
        BY <2>3, <3>1, <3>2, <4>2, <4>3 DEF BothLeft, Becomes
    <3>3. ASSUME BothLeft(c), n = 2 PROVE EndLeft(c)'
      <4>1. /\ todo[1] = <<"start_adjustment", "Acc_Adj_Rule">>
            /\ todo[2] = <<"end_adjustment", "Acc_Adj_Rule">>
        BY <3>1, <3>3 DEF BothLeft
      <4>2. Tail(todo) = <<todo[2]>>
        BY <3>1, <3>3
      <4>3. options["start_adjustment"] = found /\ "start_adjustment" \in DOMAIN options
        BY <2>5, <4>1
      <4>4. AccrualKey(c) = k
        BY <1>2, <4>1 DEF AccrualKey, KeyOf, HandleText
      <4>5. AccrualKey(c)' = k
        BY <2>3, <4>4 DEF AccrualKey, Becomes
      <4>6. StartVersion(c)' = p.held.version
        BY <2>3, <2>4, <4>3 DEF StartVersion, Becomes
      <4>7. QED
        BY <1>2, <1>3, <2>3, <4>1, <4>2, <4>3, <4>5, <4>6
           DEF EndLeft, Becomes, Framed, vars, InCache
    <3>4. ASSUME EndLeft(c) PROVE NoneLeft(c)'
      <4>1. todo = <<<<"end_adjustment", "Acc_Adj_Rule">>>> /\ todo[1][1] = "end_adjustment"
        BY <3>4 DEF EndLeft
      <4>2. Tail(todo) = <<>>
        BY <4>1
      <4>3. options["end_adjustment"] = found
        BY <2>5, <4>1
      <4>4. options["start_adjustment"] = p.options["start_adjustment"]
        BY <2>5, <3>4, <4>1 DEF EndLeft
      <4>5. StartVersion(c) =< p.held.version
        BY <1>2, <3>4 DEF EndLeft
      <4>6. QED
        BY <2>3, <2>4, <4>2, <4>3, <4>4, <4>5 DEF NoneLeft, StartVersion, Becomes
    <3>5. Has(d, "Acc_Adj_Rule") => BothLeft(c) \/ EndLeft(c)
      BY <1>2 DEF Before, CallInv, StartsThenEnds, NoneLeft
    <3>6. BothLeft(c) => n > 2 \/ n = 2
      <4>1. n \in Nat
        BY <3>1
      <4>2. ASSUME BothLeft(c) PROVE n >= 2
        BY <4>2 DEF BothLeft
      <4> HIDE DEF n
      <4>3. n >= 2 => n > 2 \/ n = 2
        BY <4>1
      <4>4. QED
        BY <4>2, <4>3
    <3>7. QED
      BY <2>3, <3>2, <3>3, <3>4, <3>5, <3>6 DEF StartsThenEnds, Becomes
  <2>10. Began(c)'
    BY <1>2, <2>3 DEF Before, CallInv, Began, Becomes, Framed
  <2>11. OneOfThoseMeant(c)'
    <3>1. Meant(c)' = Meant(c)
      BY <1>2, <2>3, SameMeaning DEF Becomes
    <3>2. QED
      BY <1>2, <2>3, <3>1 DEF OneOfThoseMeant, Becomes
  <2>12. QED
    BY <2>3, <2>6, <2>7, <2>8, <2>9, <2>10, <2>11 DEF After, CallInv, Becomes
<1>7. QED
  BY <1>4, <1>5, <1>6

LEMMA GenerateStep ==
    ASSUME NEW c, Before(c), Generate(c)
    PROVE  After(c)
<1> DEFINE p == call[c]  d == p.dictionary
           schedules == {<<"schedule", terms, p.options, calc_type>> :
                            terms \in Terms(d), calc_type \in CalcTypeAt(d)}
           answer == Answered(schedules)
<1>1. /\ Framed /\ p.at = "rules" /\ p.at # "idle" /\ p.todo = <<>>
      /\ p.request.fn = "oxlGenerateCashFlows" /\ d \in Meant(c)
  BY DEF Generate, Framed, Before, CallInv, Phase, OneOfThoseMeant
<1>2. Answers(c, answer)
  BY DEF Generate
<1>3. ASSUME NEW a \in schedules PROVE a[2] \in Terms(d) /\ a[3] = p.options /\ a # Crash
  BY DEF Crash
<1> HIDE DEF schedules
<1>4. answer = Error \/ answer \in schedules
  BY ItsElement DEF Answered
<1> HIDE DEF answer
<1>5. RightOf(c, answer)
  <2>1. ASSUME answer[1] = "schedule" PROVE Terms(d) = {answer[2]}
    <3>1. answer[2] \in Terms(d)
      BY <1>3, <1>4, <2>1, NoSchedule
    <3>2. QED
      BY <3>1, OneSchedule DEF AtMostOne
  <2>2. QED
    BY <1>1, <2>1 DEF RightOf
<1>6. InOrderOf(c, answer)
  <2>1. ASSUME answer[1] = "schedule", Has(d, "Acc_Adj_Rule")
        PROVE  p.options.start_adjustment.version =< p.options.end_adjustment.version
    <3>1. ~BothLeft(c) /\ ~EndLeft(c)
      BY <1>1 DEF BothLeft, EndLeft
    <3>2. NoneLeft(c)
      BY <1>1, <2>1, <3>1 DEF Before, CallInv, StartsThenEnds
    <3>3. QED
      BY <3>2 DEF NoneLeft, StartVersion
  <2>2. answer[1] = "schedule" => answer[3] = p.options
    BY <1>3, <1>4, NoSchedule
  <2>3. QED
    BY <2>1, <2>2 DEF InOrderOf
<1>7. QED
  BY <1>1, <1>2, <1>3, <1>4, <1>5, <1>6, NoSchedule, Answering

LEMMA ReturnStep ==
    ASSUME NEW c, Before(c), Return(c)
    PROVE  After(c)
<1>1. Becomes(c, "idle", Absent, <<>>, <<>>, <<>>, Absent, <<>>, <<>>)
  BY BeforeTyped, MovesToNothing DEF Return
<1>2. CallShape(c)'
  <2>1. DOMAIN Nothing = Fields
    BY DEF Nothing, Fields
  <2>2. <<>> \in Seq(Lookup)
    OBVIOUS
  <2>3. QED
    BY <1>1, <2>1, <2>2 DEF CallShape, Becomes, Stages
<1>3. Phase(c)'
  BY <1>1, EmptyIsGood DEF Phase, Becomes, LookingUp
<1>4. LookUps(c)' /\ StartsThenEnds(c)' /\ AnsweredInOrder(c)'
  BY <1>1 DEF LookUps, StartsThenEnds, AnsweredInOrder, Becomes, LookingUp
<1>5. Began(c)' /\ FoundSince(c)' /\ OneOfThoseMeant(c)' /\ RightAnswer(c)'
  BY <1>1 DEF Began, FoundSince, OneOfThoseMeant, RightAnswer, Becomes, LookingUp
<1>6. QED
  BY <1>1, <1>2, <1>3, <1>4, <1>5 DEF After, CallInv, Becomes

-----------------------------------------------------------------------------
(* Callers and creators together *)

LEMMA CallStep ==
    ASSUME NEW c, Before(c), Start(c) \/ Work(c) \/ Return(c)
    PROVE  After(c)
BY StartStep, IsHandleStep, IsDictionaryStep, GetVariantStep, CopyStep, EvaluateStep,
   LookUpRuleStep, UseRuleStep, GenerateStep, ReturnStep DEF Work

LEMMA InvariantStep == ASSUME IInv, [Next]_vars PROVE IInv'
BY TypeStep, JobsStep, AskedStep, CheckedStep, IssuedStep, FreshStep DEF IInv

LEMMA ExcelStep == ASSUME ExcelInv, [ExcelNext]_excelVars PROVE ExcelInv'
<1> USE DEF ExcelInv
<1>1. IInv'
  BY StepOfCache, InvariantStep
<1>2. PastIsStored'
  BY PastStep
<1>3. ASSUME NEW c \in Callers, Start(c) \/ Work(c) \/ Return(c)
      PROVE  CallsShape' /\ \A d \in Callers : CallInv(d)'
  <2>1. After(c)
    BY <1>3, CallStep DEF Before
  <2>2. ASSUME NEW d \in Callers, d # c PROVE CallShape(d)' /\ CallInv(d)'
    <3>1. call'[d] = call[d]
      BY <2>1, <2>2 DEF After, Others
    <3>2. CallShape(d)'
      BY <3>1 DEF CallsShape, CallShape
    <3>3. QED
      BY <3>1, <3>2, Unmoved
  <2>3. QED
    BY <2>1, <2>2 DEF After, Others, CallsShape
<1>4. ASSUME UNCHANGED call PROVE CallsShape' /\ \A d \in Callers : CallInv(d)'
  <2>1. CallsShape'
    BY <1>4 DEF CallsShape, CallShape
  <2>2. QED
    BY <1>4, <2>1, Unmoved
<1>5. UNCHANGED call \/ \E c \in Callers : Start(c) \/ Work(c) \/ Return(c)
  BY DEF ExcelNext, CreateObjects, excelVars
<1>6. QED
  BY <1>1, <1>2, <1>3, <1>4, <1>5

LEMMA ExcelBegins == ASSUME ExcelInit PROVE ExcelInv
<1>1. IInv
  BY ConstantsAssumption
     DEF ExcelInit, Init, IInv, TypeOK, JobsAndEntries, AskedIsIssued, CheckedStaysUsable,
         HandlesNotAhead, ReadsAreFresh, InCache, ConstantsAssumption
<1>2. PastIsStored
  <2>1. \A k \in Keys : past[k] = <<>> /\ ~InCache(k)
    BY DEF ExcelInit, Init, InCache
  <2>2. <<>> \in Seq(Ids)
    OBVIOUS
  <2>3. past \in [Keys -> Seq(Ids)]
    BY <2>2 DEF ExcelInit
  <2>4. QED
    BY <2>1, <2>3 DEF PastIsStored, ExcelInit
<1>3. DOMAIN call = Callers /\ \A c \in Callers : call[c] = Nothing
  BY DEF ExcelInit
<1>4. Nothing.at = "idle" /\ Nothing.todo = <<>> /\ Nothing.dictionary = <<>>
  BY DEF Nothing
<1>5. CallsShape
  <2>1. <<>> \in Seq(Lookup)
    OBVIOUS
  <2>2. QED
    BY <1>3, <1>4, <2>1 DEF CallsShape, CallShape, Stages
<1>6. ASSUME NEW c \in Callers PROVE CallInv(c)
  <2>1. call[c].at = "idle" /\ call[c].dictionary = <<>>
    BY <1>3, <1>4
  <2>2. Phase(c) /\ LookUps(c) /\ StartsThenEnds(c) /\ AnsweredInOrder(c)
    BY <2>1, EmptyIsGood DEF Phase, LookUps, StartsThenEnds, AnsweredInOrder, LookingUp
  <2>3. Began(c) /\ FoundSince(c) /\ OneOfThoseMeant(c) /\ RightAnswer(c)
    BY <2>1 DEF Began, FoundSince, OneOfThoseMeant, RightAnswer, LookingUp
  <2>4. QED
    BY <2>2, <2>3 DEF CallInv
<1>7. QED
  BY <1>1, <1>2, <1>5, <1>6 DEF ExcelInv

\* The inductive invariant of the calls holds of every behaviour: what each one
\* has found so far, and that the cache had it since the call began.
THEOREM ExcelInvariance == ExcelSpec => []ExcelInv
<1>1. ExcelInit => ExcelInv
  BY ExcelBegins
<1>2. ExcelInv /\ [ExcelNext]_excelVars => ExcelInv'
  BY ExcelStep
<1>3. QED
  BY <1>1, <1>2, PTL DEF ExcelSpec

\* Beside Excel's calls, the cache is the cache of HandleCache: what holds of
\* every behaviour of that one holds here.
THEOREM CallsKeepTheCache == ExcelSpec => Spec
<1>1. ExcelInit => Init
  BY DEF ExcelInit
<1>2. [ExcelNext]_excelVars => [Next]_vars
  BY StepOfCache
<1>3. QED
  BY <1>1, <1>2, PTL DEF ExcelSpec, Spec

\* However it was called, a function answers from a dictionary its arguments
\* meant while the call ran.
THEOREM AnswersAreMeant == ExcelSpec => []AnswersTheQuestion
<1>1. ExcelInv => AnswersTheQuestion
  BY DEF ExcelInv, CallInv, RightAnswer, AnswersTheQuestion
<1>2. QED
  BY <1>1, ExcelInvariance, PTL

\* The rule of the ends of accruals is as new as the one of their starts.
THEOREM RulesAreInOrder == ExcelSpec => []RulesInOrder
<1>1. ExcelInv => RulesInOrder
  BY DEF ExcelInv, CallInv, AnsweredInOrder, RulesInOrder
<1>2. QED
  BY <1>1, ExcelInvariance, PTL

\* No call changes a dictionary of the cache.
THEOREM CachedAreNotChanged == ExcelSpec => CachedStayAsMade
<1>1. ExcelInv /\ [ExcelNext]_excelVars => [content' = content]_excelVars
  BY ContentStep DEF ExcelInv
<1>2. QED
  BY <1>1, ExcelInvariance, PTL DEF ExcelSpec, CachedStayAsMade

\* No call crashes: no convention that the tables know leads to a null object
\* of a factory (adjustment_factory.cpp:40, day_counter_factory.cpp:31).
THEOREM NoNullObjects == ExcelSpec => [](\A c \in Callers : call[c].at # "crashed")
<1>1. ExcelInv => \A c \in Callers : call[c].at # "crashed"
  BY DEF ExcelInv, CallsShape, CallShape, Stages
<1>2. QED
  BY <1>1, ExcelInvariance, PTL

-----------------------------------------------------------------------------
(* Calls come to an end: the safety half of EveryCallReturns.  Every step    *)
(* of a call is one less of at most 26, whatever other threads store or call *)
(* in between, and every place of a call but its first and its last is one   *)
(* that an action of Work leaves, so no call waits.                          *)

\* How many steps a call still takes at most: four for every look-up of a
\* handle (and one to begin that of a rule), one to evaluate, one to answer.
InUse(todo) == IF todo = <<>> THEN 23 ELSE 5 * Len(todo) - 3
Rank(at, todo) ==
    CASE at = "isHandle" -> InUse(todo) + 3
      [] at = "holds"    -> InUse(todo) + 2
      [] at = "get"      -> InUse(todo) + 1
      [] at = "use"      -> InUse(todo)
      [] at = "evaluate" -> 22
      [] at = "rules"    -> 5 * Len(todo) + 1
      [] OTHER           -> 0
ToGo(c) == Rank(call[c].at, call[c].todo)

\* Where an action of Work(c) is next, whatever is in the cache then: each of
\* these is the guard of one, "use" and "rules" of two, as todo is.
Working == LookingUp \cup {"evaluate", "rules"}

\* A call begins no further than 26 steps from its answer; a step of it
\* brings it nearer; other calls and the creation of
\* objects leave it as far as it was.
Nearer ==
    \A c \in Callers :
        /\ Start(c) => ToGo(c)' =< 26
        /\ Work(c) => ToGo(c)' < ToGo(c)
        /\ call[c].at \in Working /\ ~Work(c) => ToGo(c)' = ToGo(c)

LEMMA Ranks ==
    ASSUME NEW todo \in Seq(Lookup)
    PROVE  /\ Len(todo) \in Nat /\ (todo # <<>> => Len(todo) >= 1)
           /\ InUse(todo) \in Nat \ {0}
           /\ \A at \in Working : Rank(at, todo) \in Nat \ {0}
           /\ \A at \in Stages \ Working : Rank(at, todo) = 0
<1>1. Len(todo) \in Nat /\ (todo # <<>> => Len(todo) >= 1)
  OBVIOUS
<1>2. PICK n \in Nat : n = Len(todo)
  BY <1>1
<1>3. InUse(todo) \in Nat \ {0}
  BY <1>1, <1>2 DEF InUse
<1>4. ASSUME NEW at \in Working PROVE Rank(at, todo) \in Nat \ {0}
  <2>1. PICK m \in Nat \ {0} : m = InUse(todo)
    BY <1>3
  <2>2. at \in {"isHandle", "holds", "get", "use", "evaluate", "rules"}
    BY DEF Working, LookingUp
  <2>3. CASE at = "rules"
    <3>1. Rank(at, todo) = 5 * n + 1
      BY <1>2, <2>3 DEF Rank
    <3>2. QED
      BY <3>1
  <2>4. CASE at # "rules"
    BY <2>1, <2>2, <2>4 DEF Rank
  <2>5. QED
    BY <2>3, <2>4
<1>5. ASSUME NEW at \in Stages \ Working PROVE Rank(at, todo) = 0
  BY DEF Rank, Stages, Working, LookingUp
<1>6. QED
  BY <1>1, <1>3, <1>4, <1>5

LEMMA BeginsNear ==
    ASSUME NEW c, Before(c), Start(c)
    PROVE  ToGo(c)' =< 26
<1>1. PICK q \in Requests : \E at, d, y : call' = [call EXCEPT ![c] = Begun(q, at, d, y)]
  BY Zenon DEF Start
<1>2. PICK at, d, y : call' = [call EXCEPT ![c] = Begun(q, at, d, y)]
  BY <1>1
<1>3. Becomes(c, at, q, d, <<>>, <<>>, Absent, [k \in Keys |-> Len(past[k])], y)
  BY <1>2, BeforeTyped, MovesToBegun
<1>4. Rank(at, <<>>) =< 26
  BY DEF Rank, InUse
<1>5. QED
  BY <1>3, <1>4 DEF Becomes, ToGo

\* At most four rules are looked up for a schedule.
LEMMA FewRules == ASSUME NEW d PROVE Len(RuleLookups(d)) =< 4
<1> DEFINE Short(s, n) == s \in Seq(Lookup) /\ Len(s) =< n
<1>1. ASSUME NEW o, NEW w, <<o, w>> \in Lookup PROVE Short(Given(d, o, w), 1)
  BY <1>1 DEF Given
<1>2. ASSUME NEW s, NEW t, NEW m \in Nat, NEW n \in Nat, Short(s, m), Short(t, n)
      PROVE  Short(s \o t, m + n)
  <2>1. s \in Seq(Lookup) /\ t \in Seq(Lookup) /\ Len(s) =< m /\ Len(t) =< n
    BY <1>2
  <2>2. s \o t \in Seq(Lookup) /\ Len(s \o t) = Len(s) + Len(t)
    BY <2>1
  <2>3. Len(s) \in Nat /\ Len(t) \in Nat
    BY <2>1
  <2>4. QED
    BY <2>1, <2>2, <2>3
<1> DEFINE fix == Given(d, "fix_adjustment", "Fixing_Date_Rule")
           pay == Given(d, "pay_adjustment", "Payment_Date_Rule")
           end == Given(d, "end_adjustment", "End_Adj_Rule")
           start == Given(d, "start_adjustment", "Start_Adj_Rule")
<1>4. Short(fix, 1) /\ Short(pay, 1) /\ Short(end, 1) /\ Short(start, 1)
  <2>1. /\ <<"fix_adjustment", "Fixing_Date_Rule">> \in Lookup
        /\ <<"pay_adjustment", "Payment_Date_Rule">> \in Lookup
        /\ <<"end_adjustment", "End_Adj_Rule">> \in Lookup
        /\ <<"start_adjustment", "Start_Adj_Rule">> \in Lookup
    BY DEF Lookup
  <2> HIDE DEF Short
  <2>2. QED
    BY <1>1, <2>1
<1>5. Short(AccrualRules(d), 2)
  <2>1. CASE Has(d, "Acc_Adj_Rule")
    BY <2>1 DEF AccrualRules, Lookup
  <2>2. CASE ~Has(d, "Acc_Adj_Rule")
    <3>1. AccrualRules(d) = end \o start
      BY <2>2 DEF AccrualRules
    <3> HIDE DEF Short, end, start
    <3>2. Short(end \o start, 1 + 1)
      BY <1>2, <1>4
    <3>3. QED
      BY <3>1, <3>2
  <2>3. QED
    BY <2>1, <2>2
<1>6. RuleLookups(d) = (fix \o pay) \o AccrualRules(d)
  BY DEF RuleLookups
<1>7. Short((fix \o pay) \o AccrualRules(d), 4)
  <2> HIDE DEF Short, fix, pay
  <2>1. Short(fix \o pay, 1 + 1)
    BY <1>2, <1>4
  <2>2. Short(fix \o pay, 2)
    BY <2>1
  <2>3. Short((fix \o pay) \o AccrualRules(d), 2 + 2)
    BY <1>2, <1>5, <2>2
  <2>4. QED
    BY <2>3
<1>8. QED
  BY <1>6, <1>7

LEMMA AnsweringIsNearer ==
    ASSUME NEW c, Before(c), call[c].at \in Working, NEW answer, Answers(c, answer)
    PROVE  ToGo(c)' < ToGo(c)
<1> DEFINE p == call[c]  at == IF answer = Crash THEN "crashed" ELSE "answered"
<1>1. Becomes(c, at, p.request, p.dictionary, p.todo, p.options, p.held, p.since, answer)
  BY BeforeTyped, MovesWithAnswer DEF Answers
<1>2. Rank(call'[c].at, call'[c].todo) = 0
  BY <1>1 DEF Becomes, Rank
<1>3. Rank(call[c].at, call[c].todo) \in Nat \ {0}
  BY Ranks DEF Before, CallsShape, CallShape
<1>4. QED
  BY <1>2, <1>3 DEF ToGo

\* A call that moves on.
LEMMA MovingIsNearer ==
    ASSUME NEW c, Before(c),
           NEW at, call' = [call EXCEPT ![c].at = at],
           \/ call[c].at = "isHandle" /\ at = "holds"
           \/ call[c].at = "holds" /\ at = "get"
           \/ call[c].at \in {"isHandle", "holds"} /\ call[c].todo = <<>> /\ at = "evaluate"
           \/ call[c].at = "rules" /\ call[c].todo # <<>> /\ at = "isHandle"
    PROVE  ToGo(c)' < ToGo(c)
<1> DEFINE todo == call[c].todo
<1>1. call'[c].at = at /\ call'[c].todo = todo
  BY BeforeTyped, Moves DEF Becomes
<1>2. /\ Len(todo) \in Nat /\ (todo # <<>> => Len(todo) >= 1)
      /\ InUse(todo) \in Nat \ {0}
  BY Ranks DEF Before, CallsShape, CallShape
<1>3. PICK m \in Nat \ {0} : m = InUse(todo)
  BY <1>2
<1>4. Rank(at, todo) < Rank(call[c].at, todo)
  <2> HIDE DEF todo
  <2>1. CASE call[c].at = "isHandle" /\ at = "holds"
    BY <1>3, <2>1 DEF Rank
  <2>2. CASE call[c].at = "holds" /\ at = "get"
    BY <1>3, <2>2 DEF Rank
  <2>3. CASE call[c].at \in {"isHandle", "holds"} /\ todo = <<>> /\ at = "evaluate"
    BY <2>3 DEF Rank, InUse
  <2>4. CASE call[c].at = "rules" /\ todo # <<>> /\ at = "isHandle"
    BY <1>2, <2>4 DEF Rank, InUse
  <2>5. QED
    BY <2>1, <2>2, <2>3, <2>4 DEF todo
<1>5. QED
  BY <1>1, <1>4 DEF ToGo

LEMMA WorkIsNearer ==
    ASSUME NEW c, Before(c), Work(c)
    PROVE  ToGo(c)' < ToGo(c)
<1> DEFINE p == call[c]  d == p.dictionary  fn == p.request.fn
<1>0. p.todo \in Seq(Lookup)
  BY DEF Before, CallsShape, CallShape
<1>1. CASE CallIsHandle(c)
  <2>1. p.at = "isHandle" /\ p.at \in Working
    BY <1>1 DEF CallIsHandle, Working, LookingUp
  <2>2. CASE Found(c) = Absent
    BY <1>1, <2>1, <2>2, AnsweringIsNearer, MovingIsNearer DEF CallIsHandle, NoDictionary
  <2>3. CASE Found(c) # Absent
    BY <1>1, <2>1, <2>3, MovingIsNearer DEF CallIsHandle
  <2>4. QED
    BY <2>2, <2>3
<1>2. CASE CallIsDictionary(c)
  <2>1. p.at = "holds" /\ p.at \in Working
    BY <1>2 DEF CallIsDictionary, Working, LookingUp
  <2>2. CASE Found(c).object.kind # "Dictionary"
    BY <1>2, <2>1, <2>2, AnsweringIsNearer, MovingIsNearer DEF CallIsDictionary, NoDictionary
  <2>3. CASE Found(c).object.kind = "Dictionary"
    BY <1>2, <2>1, <2>3, MovingIsNearer DEF CallIsDictionary
  <2>4. QED
    BY <2>2, <2>3
<1>3. CASE CallGetVariant(c)
  <2>1. p.at = "get" /\ call'[c].at = "use" /\ call'[c].todo = p.todo
    BY <1>3, BeforeTyped, MovesWithHeld DEF CallGetVariant, Becomes
  <2>2. PICK m \in Nat : m = InUse(p.todo)
    BY <1>0, Ranks
  <2>3. Rank("use", p.todo) < Rank("get", p.todo)
    BY <2>2 DEF Rank
  <2>4. QED
    BY <2>1, <2>3 DEF ToGo
<1>4. CASE Copy(c)
  <2>1. p.at = "use" /\ p.todo = <<>> /\ call'[c].at = "evaluate" /\ call'[c].todo = <<>>
    BY <1>4, BeforeTyped, MovesWithDictionary DEF Copy, Becomes
  <2>2. Rank("evaluate", <<>>) < Rank("use", <<>>)
    BY DEF Rank, InUse
  <2>3. QED
    BY <2>1, <2>2 DEF ToGo
<1>5. CASE Evaluate(c)
  <2>1. p.at = "evaluate" /\ p.at \in Working /\ fn \in DictionaryFns
    BY <1>5 DEF Evaluate, Working, Before, CallInv, Phase
  <2>2. \/ \E answer : Answers(c, answer)
        \/ call' = [call EXCEPT ![c].at = "rules", ![c].todo = RuleLookups(d)]
    BY <1>5, <2>1, Zenon DEF Evaluate, DictionaryFns
  <2>3. CASE \E answer : Answers(c, answer)
    BY <2>1, <2>3, AnsweringIsNearer
  <2>4. CASE call' = [call EXCEPT ![c].at = "rules", ![c].todo = RuleLookups(d)]
    <3> DEFINE todo == RuleLookups(d)
    <3>1. Becomes(c, "rules", p.request, d, todo, p.options, p.held, p.since, p.answer)
      BY <2>4, BeforeTyped, MovesWithTodo
    <3>2. todo \in Seq(Lookup) /\ Len(todo) =< 4
      BY FewRules, RulesAreTexts
    <3> HIDE DEF todo
    <3>3. PICK n \in Nat : n = Len(todo) /\ n =< 4
      <4>1. Len(todo) \in Nat
        BY <3>2
      <4>2. QED
        BY <3>2, <4>1
    <3>4. Rank("rules", todo) = 5 * n + 1 /\ Rank("evaluate", p.todo) = 22
      BY <3>3 DEF Rank
    <3>5. ToGo(c)' = 5 * n + 1 /\ ToGo(c) = 22
      BY <2>1, <3>1, <3>4 DEF ToGo, Becomes
    <3>6. QED
      BY <3>3, <3>5
  <2>5. QED
    BY <2>2, <2>3, <2>4
<1>6. CASE LookUpRule(c)
  <2>1. p.at = "rules" /\ p.at \in Working /\ p.todo # <<>>
    BY <1>6 DEF LookUpRule, Working
  <2>2. QED
    BY <1>6, <2>1, AnsweringIsNearer, MovingIsNearer DEF LookUpRule
<1>7. CASE UseRule(c)
  <2>1. p.at = "use" /\ p.at \in Working /\ p.todo # <<>>
    BY <1>7 DEF UseRule, Working, LookingUp
  <2>2. \/ Answers(c, Error)
        \/ \E options : call' = [call EXCEPT ![c].at = "rules", ![c].options = options,
                                             ![c].todo = Tail(p.todo)]
    BY <1>7, Zenon DEF UseRule
  <2>3. CASE Answers(c, Error)
    BY <2>1, <2>3, AnsweringIsNearer
  <2>4. ASSUME NEW options, call' = [call EXCEPT ![c].at = "rules", ![c].options = options,
                                                 ![c].todo = Tail(p.todo)]
        PROVE  ToGo(c)' < ToGo(c)
    <3>1. Becomes(c, "rules", p.request, d, Tail(p.todo), options, p.held, p.since, p.answer)
      BY <2>4, BeforeTyped, MovesWithOptions
    <3>2. Len(p.todo) \in Nat /\ Len(Tail(p.todo)) = Len(p.todo) - 1
      BY <1>0, <2>1, TodoShrinks
    <3>3. PICK n \in Nat : n = Len(p.todo)
      BY <3>2
    <3>4. Rank("rules", Tail(p.todo)) = 5 * (n - 1) + 1
      BY <3>2, <3>3 DEF Rank
    <3>5. Rank("use", p.todo) = 5 * n - 3
      BY <2>1, <3>3 DEF Rank, InUse
    <3>6. QED
      BY <2>1, <3>1, <3>4, <3>5 DEF ToGo, Becomes
  <2>5. QED
    BY <2>2, <2>3, <2>4
<1>8. CASE Generate(c)
  <2>1. p.at = "rules" /\ p.at \in Working
    BY <1>8 DEF Generate, Working
  <2>2. Answers(c, Answered({<<"schedule", terms, p.options, calc_type>> :
                               terms \in Terms(d), calc_type \in CalcTypeAt(d)}))
    BY <1>8 DEF Generate
  <2>3. QED
    BY <2>1, <2>2, AnsweringIsNearer
<1>9. QED
  BY <1>1, <1>2, <1>3, <1>4, <1>5, <1>6, <1>7, <1>8 DEF Work

\* Only its own steps move a call that is working.
LEMMA OthersLeaveIt ==
    ASSUME ExcelInv, [ExcelNext]_excelVars, NEW c \in Callers,
           call[c].at \in Working, ~Work(c)
    PROVE  call'[c] = call[c]
<1>1. ASSUME NEW b \in Callers, b # c, Start(b) \/ Work(b) \/ Return(b)
      PROVE  call'[c] = call[c]
  BY <1>1, CallStep DEF ExcelInv, Before, After, Others
<1>2. ~Start(c) /\ ~Return(c)
  BY DEF Start, Return, Working, LookingUp
<1>3. UNCHANGED call \/ \E b \in Callers : Start(b) \/ Work(b) \/ Return(b)
  BY DEF ExcelNext, CreateObjects, excelVars
<1>4. QED
  BY <1>1, <1>2, <1>3

\* Every call of an Excel function gets nearer to its answer with every step
\* it takes, nothing puts it off, it takes at most 26, and until it is answered
\* it is at a place where it can take one, whatever other threads do
\* (auto_gen_time.cpp:128-157, time_xl.cpp:106-196).
THEOREM ExcelCallsEnd ==
    ExcelSpec =>
        /\ [](\A c \in Callers : call[c].at \in {"idle", "answered"} \cup Working)
        /\ [](\A c \in Callers : ToGo(c) \in Nat)
        /\ [][Nearer]_excelVars
<1>1. ExcelInv => \A c \in Callers : call[c].at \in {"idle", "answered"} \cup Working
  BY DEF ExcelInv, CallsShape, CallShape, Stages, Working, LookingUp
<1>2. ExcelInv => \A c \in Callers : ToGo(c) \in Nat
  <2> SUFFICES ASSUME ExcelInv, NEW c \in Callers PROVE ToGo(c) \in Nat
    OBVIOUS
  <2>1. call[c].at \in Stages /\ call[c].todo \in Seq(Lookup)
    BY DEF ExcelInv, CallsShape, CallShape
  <2>2. QED
    BY <2>1, Ranks DEF ToGo
<1>3. ExcelInv /\ [ExcelNext]_excelVars => [Nearer]_excelVars
  <2> SUFFICES ASSUME ExcelInv, [ExcelNext]_excelVars, NEW c \in Callers
               PROVE  /\ Start(c) => ToGo(c)' =< 26
                      /\ Work(c) => ToGo(c)' < ToGo(c)
                      /\ call[c].at \in Working /\ ~Work(c) => ToGo(c)' = ToGo(c)
    BY DEF Nearer
  <2>1. Work(c) => ToGo(c)' < ToGo(c)
    BY WorkIsNearer DEF ExcelInv, Before
  <2>2. call[c].at \in Working /\ ~Work(c) => ToGo(c)' = ToGo(c)
    BY OthersLeaveIt DEF ToGo
  <2>3. Start(c) => ToGo(c)' =< 26
    BY BeginsNear DEF ExcelInv, Before
  <2>4. QED
    BY <2>1, <2>2, <2>3
<1>4. QED
  BY <1>1, <1>2, <1>3, ExcelInvariance, PTL DEF ExcelSpec
=============================================================================
