------------------------ MODULE CalendarCacheProofs ------------------------
(***************************************************************************)
(* Theorems about CalendarCache, for every set of threads, regions and     *)
(* requests and every number of calls and edits: the safety properties,    *)
(* the refinement of CalendarLookup, and that calls come to an end as far  *)
(* as no fairness is needed for it.                                        *)
(***************************************************************************)
EXTENDS CalendarCache, TLAPS

\* A cache key is a non-empty list of region names (boost::split never
\* returns an empty list).
LEMMA KeysAreLists ==
    ASSUME NEW k \in Keys
    PROVE  k \in Seq(Regions) /\ Len(k) > 0
<1>1. PICK s \in Requests : k \in SortedLists(s)
  BY DEF Keys
<1>2. s \in Seq(Regions) /\ s # <<>>
  BY ConstantsAssumption DEF ConstantsAssumption
<1>3. k \in [1 .. Len(s) -> Regions] /\ Len(s) \in Nat /\ Len(s) > 0
  BY <1>1, <1>2 DEF SortedLists
<1>4. QED
  BY <1>3

\* Sorting the names of a request gives a cache key.
LEMMA SortedListsAreKeys ==
    ASSUME NEW s \in Requests, NEW l \in SortedLists(s)
    PROVE  l \in Keys
BY DEF Keys

\* The region a loading thread reads next is one of the regions its key names.
LEMMA NextRegion ==
    ASSUME TypeOK, LoadInProgress,
           NEW t \in Threads, pc[t] \in {"check", "open", "read"}
    PROVE  /\ Region(t) \in Regions
           /\ files[Region(t)] \in File
<1>1. list[t] \in Seq(Regions) /\ Len(data[t]) < Len(list[t]) /\ Len(data[t]) \in Nat
  BY KeysAreLists DEF LoadInProgress, TypeOK, Loading
<1>2. QED
  BY <1>1 DEF Region, TypeOK

\* A step keeps every variable's type.
LEMMA TypeStep ==
    ASSUME TypeOK, LoadInProgress, [Next]_vars
    PROVE  TypeOK'
<1> USE DEF TypeOK, Locked, Loading
<1>1. ASSUME NEW t \in Threads, Call(t) PROVE TypeOK'
  BY <1>1, SortedListsAreKeys DEF Call, shared
<1>2. ASSUME NEW t \in Threads, Lock(t) PROVE TypeOK'
  BY <1>2 DEF Lock
<1>3. ASSUME NEW t \in Threads, Hit(t) PROVE TypeOK'
  <2>1. list[t] \in Keys
    BY <1>3 DEF Hit, LoadInProgress
  <2>2. QED
    BY <1>3, <2>1 DEF Hit, IsCached, shared
<1>4. ASSUME NEW t \in Threads, Miss(t) PROVE TypeOK'
  BY <1>4 DEF Miss, shared
<1>5. ASSUME NEW t \in Threads, IsRegularFile(t) PROVE TypeOK'
  BY <1>5 DEF IsRegularFile, shared
<1>6. ASSUME NEW t \in Threads, Throw(t) PROVE TypeOK'
  BY <1>6 DEF Throw
<1>7. ASSUME NEW t \in Threads, OpenFile(t) PROVE TypeOK'
  <2>1. files[Region(t)] \in File
    BY <1>7, NextRegion DEF OpenFile
  <2>2. QED
    BY <1>7, <2>1 DEF OpenFile, shared
<1>8. ASSUME NEW t \in Threads, ReadFile(t) PROVE TypeOK'
  <2>1. Region(t) \in Regions /\ files[Region(t)] \in File
    BY <1>8, NextRegion DEF ReadFile
  <2>2. \A f \in Seen(t) : f.version \in Nat
    BY <2>1 DEF Seen, File
  <2>3. data' \in [Threads -> Seq(RegionData)]
    <3>1. PICK f \in Seen(t) : data' = [data EXCEPT ![t] =
             Append(data[t], [region |-> Region(t), version |-> f.version])]
      BY <1>8 DEF ReadFile
    <3>2. [region |-> Region(t), version |-> f.version] \in RegionData
      BY <2>1, <2>2 DEF RegionData
    <3>3. Append(data[t], [region |-> Region(t), version |-> f.version]) \in Seq(RegionData)
      BY <3>2
    <3>4. QED
      BY <3>1, <3>3
  <2>4. pc' \in [Threads -> Locked \cup {"idle", "lock"}]
    BY <1>8 DEF ReadFile
  <2>5. QED
    BY <1>8, <2>3, <2>4 DEF ReadFile, shared
<1>9. ASSUME NEW t \in Threads, StoreCalendar(t) PROVE TypeOK'
  <2> DEFINE calendar == [id |-> built, parts |-> data[t]]
  <2>1. calendar \in Calendar
    BY DEF Calendar
  <2>2. cache' \in [Keys -> Calendar \cup {Nothing}]
    BY <1>9, <2>1 DEF StoreCalendar
  <2>3. answer' \in [Threads -> Calendar \cup {Nothing, Failed}]
    BY <1>9, <2>1 DEF StoreCalendar
  <2>4. QED
    BY <1>9, <2>2, <2>3 DEF StoreCalendar
<1>10. ASSUME NEW t \in Threads, Return(t) PROVE TypeOK'
  BY <1>10 DEF Return
<1>11. ASSUME NEW r \in Regions, Edit(r) PROVE TypeOK'
  BY <1>11 DEF Edit, local, File
<1>12. CASE UNCHANGED vars
  BY <1>12 DEF vars
<1>13. QED
  BY <1>1, <1>2, <1>3, <1>4, <1>5, <1>6, <1>7, <1>8, <1>9, <1>10, <1>11, <1>12
     DEF Next, Step, FileNotFound, CannotOpen, BadLine, Finished

\* A step keeps the mutex with the one thread in the locked scope.
LEMMA LockStep ==
    ASSUME TypeOK, LockDiscipline, [Next]_vars
    PROVE  LockDiscipline'
<1> USE ConstantsAssumption DEF ConstantsAssumption, TypeOK, LockDiscipline, Locked, Loading
<1>1. ASSUME NEW t \in Threads, Call(t) PROVE LockDiscipline'
  BY <1>1 DEF Call, shared
<1>2. ASSUME NEW t \in Threads, Lock(t) PROVE LockDiscipline'
  BY <1>2 DEF Lock
<1>3. ASSUME NEW t \in Threads, Hit(t) \/ Miss(t) PROVE LockDiscipline'
  BY <1>3 DEF Hit, Miss, shared
<1>4. ASSUME NEW t \in Threads, pc[t] \in Locked, Throw(t) PROVE LockDiscipline'
  BY <1>4 DEF Throw
<1>5. ASSUME NEW t \in Threads, IsRegularFile(t) \/ OpenFile(t) PROVE LockDiscipline'
  BY <1>5 DEF IsRegularFile, OpenFile, shared
<1>6. ASSUME NEW t \in Threads, ReadFile(t) PROVE LockDiscipline'
  BY <1>6 DEF ReadFile, shared
<1>7. ASSUME NEW t \in Threads, StoreCalendar(t) PROVE LockDiscipline'
  BY <1>7 DEF StoreCalendar
<1>8. ASSUME NEW t \in Threads, Return(t) PROVE LockDiscipline'
  BY <1>8 DEF Return
<1>9. ASSUME NEW r \in Regions, Edit(r) PROVE LockDiscipline'
  BY <1>9 DEF Edit, local
<1>10. CASE UNCHANGED vars
  BY <1>10 DEF vars
<1>11. QED
  BY <1>1, <1>2, <1>3, <1>4, <1>5, <1>6, <1>7, <1>8, <1>9, <1>10
     DEF Next, Step, FileNotFound, CannotOpen, BadLine, Finished

\* ReadFile appends the next region's data, in a state its file had.
LEMMA ReadAppends ==
    ASSUME TypeOK, LoadInProgress, NEW t \in Threads, ReadFile(t)
    PROVE  /\ Len(data'[t]) = Len(data[t]) + 1
           /\ ReadFrom(list[t], data'[t])
<1>1. PICK f \in Seen(t) : data' = [data EXCEPT ![t] =
         Append(data[t], [region |-> Region(t), version |-> f.version])]
  BY DEF ReadFile
<1>2. data'[t] = Append(data[t], [region |-> Region(t), version |-> f.version])
  BY <1>1 DEF TypeOK
<1>3. f.version =< files[Region(t)].version
  BY NextRegion DEF Seen, ReadFile, LoadInProgress, File
<1>4. /\ data[t] \in Seq(RegionData)
      /\ ReadFrom(list[t], data[t])
      /\ Region(t) = list[t][Len(data[t]) + 1]
  BY DEF TypeOK, LoadInProgress, Loading, ReadFile, Region
<1>5. QED
  BY <1>2, <1>3, <1>4 DEF ReadFrom

\* An edit never gives a file an older version.
LEMMA VersionsGrow ==
    ASSUME TypeOK, NEW r \in Regions, Edit(r), NEW q \in Regions
    PROVE  /\ files[q].version \in Nat /\ files'[q].version \in Nat
           /\ files[q].version =< files'[q].version
BY DEF TypeOK, Edit, File

\* So what was read from the files stays read from them.
LEMMA EditKeepsReads ==
    ASSUME TypeOK, NEW r \in Regions, Edit(r),
           NEW k \in Seq(Regions), NEW parts \in Seq(RegionData),
           Len(parts) =< Len(k), ReadFrom(k, parts)
    PROVE  \A i \in DOMAIN parts :
              parts[i].region = k[i] /\ parts[i].version =< files'[k[i]].version
<1>1. ASSUME NEW i \in DOMAIN parts
      PROVE  parts[i].version =< files'[k[i]].version
  <2>1. k[i] \in Regions /\ parts[i] \in RegionData
    OBVIOUS
  <2>2. parts[i].version \in Nat /\ parts[i].version =< files[k[i]].version
    BY <2>1 DEF ReadFrom, RegionData
  <2>3. QED
    BY <2>1, <2>2, VersionsGrow
<1>2. QED
  BY <1>1 DEF ReadFrom

\* A step does not invalidate what a loading thread has checked and read:
\* only the owner of the mutex stores, and files only get newer.
LEMMA LoadStep ==
    ASSUME TypeOK, LockDiscipline, LoadInProgress, [Next]_vars
    PROVE  LoadInProgress'
<1> USE DEF LoadInProgress, TypeOK, Locked, Loading
<1>1. ASSUME NEW t \in Threads, Call(t) PROVE LoadInProgress'
  BY <1>1, SortedListsAreKeys DEF Call, shared, ReadFrom, IsCached, Region
<1>2. ASSUME NEW t \in Threads, Lock(t) PROVE LoadInProgress'
  BY <1>2 DEF Lock, ReadFrom, IsCached, Region
<1>3. ASSUME NEW t \in Threads, Hit(t) PROVE LoadInProgress'
  BY <1>3, ConstantsAssumption
     DEF Hit, ReadFrom, IsCached, Region, shared, ConstantsAssumption
<1>4. ASSUME NEW t \in Threads, Miss(t) PROVE LoadInProgress'
  <2>1. list[t] \in Keys /\ data[t] = <<>> /\ Len(list[t]) > 0
    BY <1>4, KeysAreLists DEF Miss
  <2>2. QED
    BY <1>4, <2>1 DEF Miss, ReadFrom, IsCached, Region, shared
<1>5. ASSUME NEW t \in Threads, IsRegularFile(t) PROVE LoadInProgress'
  BY <1>5 DEF IsRegularFile, ReadFrom, IsCached, Region, shared
<1>6. ASSUME NEW t \in Threads, pc[t] \in Loading, Throw(t) PROVE LoadInProgress'
  BY <1>6 DEF Throw, ReadFrom, IsCached, Region
<1>7. ASSUME NEW t \in Threads, OpenFile(t) PROVE LoadInProgress'
  <2>1. files[Region(t)].version =< files[Region(t)].version
    BY <1>7, NextRegion DEF OpenFile, File
  <2>2. QED
    BY <1>7, <2>1 DEF OpenFile, ReadFrom, IsCached, Region, shared
<1>8. ASSUME NEW t \in Threads, ReadFile(t) PROVE LoadInProgress'
  <2>1. ReadFrom(list[t], data[t])'
    BY <1>8, ReadAppends DEF ReadFile, shared, ReadFrom
  <2>2. /\ Len(data'[t]) = Len(data[t]) + 1
        /\ list[t] \in Keys /\ Len(data[t]) < Len(list[t])
        /\ Len(data[t]) \in Nat /\ Len(list[t]) \in Nat
    BY <1>8, ReadAppends, KeysAreLists DEF ReadFile
  <2>3. /\ pc'[t] \in {"store", "check"}
        /\ pc'[t] = "store" => Len(data'[t]) = Len(list[t])
        /\ pc'[t] = "check" => Len(data'[t]) < Len(list[t])
    BY <1>8, <2>2 DEF ReadFile
  <2>4. ASSUME NEW u \in Threads, u # t
        PROVE  pc'[u] = pc[u] /\ data'[u] = data[u]
    BY <1>8, <2>4 DEF ReadFile
  <2>5. QED
    BY <1>8, <2>1, <2>2, <2>3, <2>4 DEF ReadFile, ReadFrom, IsCached, Region, shared
<1>9. ASSUME NEW t \in Threads, StoreCalendar(t) PROVE LoadInProgress'
  <2>1. \A u \in Threads : u # t => pc[u] \notin Locked
    BY <1>9, ConstantsAssumption DEF StoreCalendar, LockDiscipline, ConstantsAssumption
  <2>2. [id |-> built, parts |-> data[t]] \in Calendar
    BY DEF Calendar
  <2>3. answer'[t] \notin {Nothing, Failed} /\ list[t] \in Keys
    BY <1>9, <2>2, ConstantsAssumption DEF StoreCalendar, ConstantsAssumption
  <2>4. QED
    BY <1>9, <2>1, <2>3 DEF StoreCalendar, ReadFrom, Region
<1>10. ASSUME NEW t \in Threads, Return(t) PROVE LoadInProgress'
  BY <1>10 DEF Return, ReadFrom, IsCached, Region
<1>11. ASSUME NEW r \in Regions, Edit(r) PROVE LoadInProgress'
  <2>1. ASSUME NEW u \in Threads, pc[u] \in Loading
        PROVE  ReadFrom(list[u], data[u])'
    <3>1. list[u] \in Seq(Regions) /\ data[u] \in Seq(RegionData)
      BY <2>1, KeysAreLists
    <3>2. Len(data[u]) =< Len(list[u]) /\ ReadFrom(list[u], data[u])
      BY <2>1, <3>1
    <3>3. ReadFrom(list[u], data[u])' <=> \A i \in DOMAIN data[u] :
             /\ data[u][i].region = list[u][i]
             /\ data[u][i].version =< files'[list[u][i]].version
      BY <1>11 DEF Edit, local, ReadFrom
    <3>4. QED
      BY <1>11, <3>1, <3>2, <3>3, EditKeepsReads
  <2>2. ASSUME NEW u \in Threads, pc[u] = "read"
        PROVE  opened[u].version =< files'[Region(u)].version
    BY <1>11, <2>2, NextRegion, VersionsGrow DEF File
  <2>3. QED
    BY <1>11, <2>1, <2>2 DEF Edit, local, IsCached, Region
<1>12. CASE UNCHANGED vars
  BY <1>12 DEF vars, ReadFrom, IsCached, Region
<1>13. QED
  BY <1>1, <1>2, <1>3, <1>4, <1>5, <1>6, <1>7, <1>8, <1>9, <1>10, <1>11, <1>12
     DEF Next, Step, FileNotFound, CannotOpen, BadLine, Finished

\* A step leaves every cached calendar loaded from the files its key names.
LEMMA MatchStep ==
    ASSUME TypeOK, LoadInProgress, CachedMatchesKey, [Next]_vars
    PROVE  CachedMatchesKey'
<1> USE DEF CachedMatchesKey
<1>1. ASSUME UNCHANGED <<cache, files>> PROVE CachedMatchesKey'
  BY <1>1 DEF IsCached, ReadFrom
<1>2. ASSUME NEW t \in Threads, StoreCalendar(t) PROVE CachedMatchesKey'
  <2>1. /\ list[t] \in Keys
        /\ Len(data[t]) = Len(list[t]) /\ ReadFrom(list[t], data[t])
    BY <1>2 DEF StoreCalendar, LoadInProgress, Loading
  <2>2. /\ cache'[list[t]].parts = data[t]
        /\ \A k \in Keys : k # list[t] => cache'[k] = cache[k]
    BY <1>2, <2>1 DEF StoreCalendar, TypeOK, LoadInProgress, Loading
  <2>3. files' = files
    BY <1>2 DEF StoreCalendar
  <2>4. QED
    BY <2>1, <2>2, <2>3 DEF IsCached, ReadFrom
<1>3. ASSUME NEW r \in Regions, Edit(r) PROVE CachedMatchesKey'
  <2>1. cache' = cache
    BY <1>3 DEF Edit
  <2>2. ASSUME NEW k \in Keys, IsCached(k)
        PROVE  \A i \in DOMAIN cache[k].parts :
                  /\ cache[k].parts[i].region = k[i]
                  /\ cache[k].parts[i].version =< files'[k[i]].version
    <3>1. k \in Seq(Regions) /\ cache[k] \in Calendar
      BY <2>2, KeysAreLists DEF TypeOK, IsCached
    <3>2. cache[k].parts \in Seq(RegionData)
      BY <3>1 DEF Calendar
    <3>3. QED
      BY <1>3, <2>2, <3>1, <3>2, EditKeepsReads
  <2>3. QED
    BY <2>1, <2>2 DEF IsCached, ReadFrom
<1>4. QED
  BY <1>1, <1>2, <1>3
     DEF Next, Step, Call, Lock, Hit, Miss, IsRegularFile, OpenFile, ReadFile,
         Return, FileNotFound, CannotOpen, BadLine, Throw, Finished, shared, vars

\* A step leaves every answer the object cached under its key.
LEMMA AnswerStep ==
    ASSUME TypeOK, LoadInProgress, AnswerIsCached, [Next]_vars
    PROVE  AnswerIsCached'
<1> USE DEF AnswerIsCached, TypeOK
<1>1. ASSUME NEW t \in Threads, Call(t) PROVE AnswerIsCached'
  BY <1>1 DEF Call, shared
<1>2. ASSUME NEW t \in Threads, Hit(t) PROVE AnswerIsCached'
  BY <1>2 DEF Hit, shared
<1>3. ASSUME NEW t \in Threads, Throw(t) PROVE AnswerIsCached'
  BY <1>3 DEF Throw
<1>4. ASSUME NEW t \in Threads, StoreCalendar(t) PROVE AnswerIsCached'
  <2>1. list[t] \in Keys /\ ~IsCached(list[t])
    BY <1>4 DEF StoreCalendar, LoadInProgress, Loading
  <2>2. cache'[list[t]] = answer'[t]
    BY <1>4, <2>1 DEF StoreCalendar
  <2>3. ASSUME NEW u \in Threads, u # t, answer[u] \notin {Nothing, Failed}
        PROVE  cache'[list[u]] = answer[u]
    \* u's answer is cached, so its key is not the absent one stored now
    <3>1. cache[list[u]] = answer[u] /\ list[u] \in Keys
      BY <2>3 DEF LoadInProgress
    <3>2. list[u] # list[t]
      BY <2>1, <2>3, <3>1 DEF IsCached
    <3>3. QED
      BY <1>4, <3>1, <3>2 DEF StoreCalendar
  <2>4. QED
    BY <1>4, <2>2, <2>3 DEF StoreCalendar
<1>5. ASSUME UNCHANGED <<cache, list, answer>> PROVE AnswerIsCached'
  BY <1>5
<1>6. QED
  BY <1>1, <1>2, <1>3, <1>4, <1>5
     DEF Next, Step, Lock, Miss, IsRegularFile, OpenFile, ReadFile, Return,
         FileNotFound, CannotOpen, BadLine, Edit, Finished, shared, local, vars

\* A step leaves the cache one object per key, and every object built in it.
LEMMA ObjectStep ==
    ASSUME TypeOK, LoadInProgress, OneObjectPerKey, [Next]_vars
    PROVE  OneObjectPerKey'
<1> USE DEF OneObjectPerKey
<1>1. ASSUME UNCHANGED <<cache, built>> PROVE OneObjectPerKey'
  BY <1>1 DEF IsCached
<1>2. ASSUME NEW t \in Threads, StoreCalendar(t) PROVE OneObjectPerKey'
  <2>1. list[t] \in Keys /\ ~IsCached(list[t])
    BY <1>2 DEF StoreCalendar, LoadInProgress, Loading
  <2> DEFINE calendar == [id |-> built, parts |-> data[t]]
  <2>2. cache' = [cache EXCEPT ![list[t]] = calendar] /\ built' = built + 1
    BY <1>2, <2>1 DEF StoreCalendar
  <2>3. calendar # Nothing /\ calendar.id = built
    BY ConstantsAssumption DEF ConstantsAssumption, Calendar, TypeOK
  <2>4. \A k \in Keys : k # list[t] => cache'[k] = cache[k]
    BY <2>2 DEF TypeOK
  <2>5. cache'[list[t]] = calendar
    BY <2>1, <2>2 DEF TypeOK
  <2>6. \A k \in Keys : IsCached(k) => cache[k].id \in Nat /\ cache[k].id < built
    BY DEF TypeOK, IsCached, Calendar
  <2>7. \A k \in Keys : IsCached(k)' => cache'[k].id < built'
    BY <2>2, <2>3, <2>4, <2>5, <2>6 DEF IsCached, TypeOK
  <2>8. ASSUME NEW k \in Keys, NEW l \in Keys,
               IsCached(k)', IsCached(l)', cache'[k].id = cache'[l].id
        PROVE  k = l
    <3>1. ASSUME NEW m \in Keys, IsCached(m)', m # list[t]
          PROVE  IsCached(m) /\ cache'[m].id = cache[m].id /\ cache'[m].id # cache'[list[t]].id
      BY <2>3, <2>4, <2>5, <2>6, <3>1 DEF IsCached, TypeOK
    <3>2. CASE k # list[t] /\ l # list[t]
      BY <2>8, <3>1, <3>2
    <3>3. CASE k = list[t] \/ l = list[t]
      BY <2>8, <3>1, <3>3
    <3>4. QED
      BY <3>2, <3>3
  <2>9. ASSUME NEW i \in 0 .. (built' - 1)
        PROVE  \E k \in Keys : IsCached(k)' /\ cache'[k].id = i
    <3>1. CASE i = built
      BY <2>1, <2>3, <2>5, <3>1 DEF IsCached
    <3>2. CASE i # built
      <4>1. i \in 0 .. (built - 1)
        BY <2>2, <3>2 DEF TypeOK
      <4>2. QED
        BY <2>1, <2>4, <4>1 DEF IsCached
    <3>3. QED
      BY <3>1, <3>2
  <2>10. QED
    BY <2>7, <2>8, <2>9
<1>3. QED
  BY <1>1, <1>2
     DEF Next, Step, Call, Lock, Hit, Miss, IsRegularFile, OpenFile, ReadFile,
         Return, FileNotFound, CannotOpen, BadLine, Throw, Edit, Finished, shared, vars

\* The inductive invariant.  No part is inductive alone: an answer stays the
\* cached object because only the owner of the mutex stores, under a key it
\* knows to be absent, which holds because the mutex excludes other loads.
IInv ==
    /\ TypeOK
    /\ LockDiscipline
    /\ LoadInProgress
    /\ CachedMatchesKey
    /\ AnswerIsCached
    /\ OneObjectPerKey

LEMMA InitIInv == Init => IInv
<1> SUFFICES ASSUME Init PROVE IInv
  OBVIOUS
<1> USE ConstantsAssumption DEF ConstantsAssumption, Init
<1>1. TypeOK
  BY DEF TypeOK, File, Kinds, NoFile, Locked, Loading
<1>2. LockDiscipline /\ LoadInProgress
  BY DEF LockDiscipline, LoadInProgress, Locked, Loading
<1>3. \A k \in Keys : ~IsCached(k)
  BY DEF IsCached
<1>4. CachedMatchesKey /\ AnswerIsCached
  BY <1>3 DEF CachedMatchesKey, AnswerIsCached
<1>5. OneObjectPerKey
  BY <1>3 DEF OneObjectPerKey
<1>6. QED
  BY <1>1, <1>2, <1>4, <1>5 DEF IInv

\* IInv holds in every reachable state.
THEOREM Invariance == Spec => []IInv
<1>1. IInv /\ [Next]_vars => IInv'
  BY TypeStep, LockStep, LoadStep, MatchStep, AnswerStep, ObjectStep DEF IInv
<1>2. QED
  BY InitIInv, <1>1, PTL DEF Spec

\* Every variable of CalendarCache keeps its type.
THEOREM TypeCorrect == Spec => []TypeOK
BY Invariance, PTL DEF IInv

\* The mutex is held exactly by the thread inside GetCalendar's scope, on
\* every normal and exceptional path (calendar_cache.cpp:22-45).
THEOREM MutexHeldExactlyInScope == Spec => []LockDiscipline
BY Invariance, PTL DEF IInv

\* The absence a miss checked lasts until its store (lines 24-43).
THEOREM CheckHoldsUntilStore == Spec => []LoadInProgress
BY Invariance, PTL DEF IInv

\* A cached calendar is made of the files its key names, in that order.
THEOREM CachedCalendarsMatch == Spec => []CachedMatchesKey
BY Invariance, PTL DEF IInv

\* Every caller of a key is given the object cached under it.
THEOREM CallersShareOneObject == Spec => []AnswerIsCached
BY Invariance, PTL DEF IInv

\* No object is built twice for a key or thrown away.
THEOREM ObjectsAreCachedOnce == Spec => []OneObjectPerKey
BY Invariance, PTL DEF IInv

\* No step, of a thread or of the file system, changes a cached calendar.
THEOREM CacheNeverRewritten == Spec => CacheIsWriteOnce
<1>1. IInv /\ [Next]_vars => [\A k \in Keys : IsCached(k) => cache'[k] = cache[k]]_vars
  <2> SUFFICES ASSUME IInv, [Next]_vars, NEW k \in Keys, IsCached(k)
               PROVE  cache'[k] = cache[k]
    OBVIOUS
  <2>1. ASSUME NEW t \in Threads, StoreCalendar(t) PROVE cache'[k] = cache[k]
    BY <2>1 DEF StoreCalendar, IInv, TypeOK
  <2>2. ASSUME UNCHANGED cache PROVE cache'[k] = cache[k]
    BY <2>2
  <2>3. QED
    BY <2>1, <2>2
       DEF Next, Step, Call, Lock, Hit, Miss, IsRegularFile, OpenFile, ReadFile,
           Return, FileNotFound, CannotOpen, BadLine, Throw, Edit, Finished, shared, vars
<1>2. QED
  BY <1>1, Invariance, PTL DEF Spec, CacheIsWriteOnce

-----------------------------------------------------------------------------
(* CalendarCache implements CalendarLookup: taking the lock, checking,      *)
(* opening and reading files are stutters of the registry; StoreCalendar    *)
(* binds, Hit finds, Throw fails.                                           *)

query == [t \in Threads |-> IF pc[t] = "idle" THEN Nothing ELSE list[t]]

LEMMA InitRefines == Init => Lookup!Init
BY DEF Init, Lookup!Init

LEMMA StepRefines ==
    ASSUME IInv, [Next]_vars
    PROVE  [Lookup!Next]_(Lookup!vars)
<1> USE ConstantsAssumption DEF ConstantsAssumption, IInv, TypeOK, Locked, Loading
<1> DEFINE asks(t) == pc[t] # "idle" => list[t] \in Keys /\ list[t] # Nothing
<1>0. \A t \in Threads : asks(t)
  BY DEF LoadInProgress
<1>1. ASSUME NEW t \in Threads, Call(t) PROVE Lookup!Ask(t)
  <2>1. PICK s \in Requests : \E l \in SortedLists(s) : list' = [list EXCEPT ![t] = l]
    BY <1>1 DEF Call
  <2>2. PICK l \in SortedLists(s) : list' = [list EXCEPT ![t] = l]
    BY <2>1
  <2>3. l \in Keys
    BY SortedListsAreKeys
  <2>4. query' = [query EXCEPT ![t] = l]
    BY <1>1, <2>2 DEF Call, query
  <2>5. QED
    BY <1>1, <2>3, <2>4 DEF Call, Lookup!Ask, query, shared
<1>2. ASSUME NEW t \in Threads, Hit(t) PROVE Lookup!Find(t)
  <2>1. /\ list[t] \in Keys /\ list[t] # Nothing /\ answer[t] = Nothing
        /\ pc[t] # "idle" /\ cache[list[t]] # Nothing
    BY <1>0, <1>2 DEF Hit, IsCached, LoadInProgress
  <2>2. query' = query
    BY <1>2 DEF Hit, query
  <2>3. QED
    BY <1>2, <2>1, <2>2 DEF Hit, Lookup!Find, query, shared
<1>3. ASSUME NEW t \in Threads, StoreCalendar(t) PROVE Lookup!Bind(t)
  <2>1. /\ list[t] \in Keys /\ list[t] # Nothing /\ answer[t] = Nothing
        /\ pc[t] # "idle" /\ ~IsCached(list[t])
    BY <1>0, <1>3 DEF StoreCalendar, LoadInProgress
  <2>2. query' = query /\ query[t] = list[t]
    BY <1>3, <2>1 DEF StoreCalendar, query
  <2>3. [id |-> built, parts |-> data[t]] \in Calendar
    BY DEF Calendar
  <2>4. /\ answer' = [answer EXCEPT ![t] = [id |-> built, parts |-> data[t]]]
        /\ cache' = [cache EXCEPT ![list[t]] = [id |-> built, parts |-> data[t]]]
    BY <1>3, <2>1 DEF StoreCalendar
  <2>5. answer'[t] = [id |-> built, parts |-> data[t]]
    BY <2>4
  <2>6. QED
    BY <2>1, <2>2, <2>3, <2>4, <2>5 DEF Lookup!Bind, query, IsCached
<1>4. ASSUME NEW t \in Threads, pc[t] \in Loading, Throw(t) PROVE Lookup!Fail(t)
  <2>1. list[t] # Nothing /\ answer[t] = Nothing /\ pc[t] # "idle"
    BY <1>0, <1>4 DEF LoadInProgress
  <2>2. query' = [query EXCEPT ![t] = Nothing]
    BY <1>4 DEF Throw, query
  <2>3. QED
    BY <1>4, <2>1, <2>2 DEF Throw, Lookup!Fail, query
<1>5. ASSUME NEW t \in Threads, Return(t) PROVE Lookup!Return(t)
  <2>1. list[t] # Nothing /\ answer[t] # Nothing /\ pc[t] # "idle"
    BY <1>0, <1>5 DEF Return, LoadInProgress
  <2>2. query' = [query EXCEPT ![t] = Nothing]
    BY <1>5 DEF Return, query
  <2>3. QED
    BY <1>5, <2>1, <2>2 DEF Return, Lookup!Return, query
<1>6. ASSUME NEW t \in Threads,
             Lock(t) \/ Miss(t) \/ IsRegularFile(t) \/ OpenFile(t) \/ ReadFile(t)
      PROVE  UNCHANGED Lookup!vars
  <2>1. query' = query
    BY <1>6 DEF Lock, Miss, IsRegularFile, OpenFile, ReadFile, query
  <2>2. QED
    BY <1>6, <2>1
       DEF Lock, Miss, IsRegularFile, OpenFile, ReadFile, shared, query, Lookup!vars
<1>7. ASSUME UNCHANGED <<cache, pc, list, answer>> PROVE UNCHANGED Lookup!vars
  BY <1>7 DEF Lookup!vars
<1>8. QED
  BY <1>1, <1>2, <1>3, <1>4, <1>5, <1>6, <1>7
     DEF Next, Step, FileNotFound, CannotOpen, BadLine, Edit, Finished, local, vars,
         Lookup!Next

\* Every behaviour of the cache is one of the write-once registry.
THEOREM CacheImplementsLookup == Spec => ImplementsLookup
<1>1. IInv /\ [Next]_vars => [Lookup!Next]_(Lookup!vars)
  BY StepRefines
<1>2. QED
  BY InitRefines, <1>1, Invariance, PTL DEF Spec, ImplementsLookup, Lookup!Spec

-----------------------------------------------------------------------------
(* Calls come to an end: the safety half of EveryCallEnds.  Every step of a  *)
(* call brings its own end nearer, nobody else's step puts it off, and of    *)
(* the threads in GetCalendar one can always take a step.  What fairness     *)
(* adds, that a thread that can step does and that a waiting thread gets     *)
(* the mutex some time, only the runs show.                                  *)

\* How many steps a call of t still takes at most: three for every file not
\* read yet (check, open, read), besides the lock, the look-up, the store
\* and the return.
Unread(t) == Len(list[t]) - Len(data[t])
ToGo(t) ==
    CASE pc[t] = "lock"   -> 3 * Len(list[t]) + 4
      [] pc[t] = "lookup" -> 3 * Len(list[t]) + 3
      [] pc[t] = "check"  -> 3 * Unread(t) + 2
      [] pc[t] = "open"   -> 3 * Unread(t) + 1
      [] pc[t] = "read"   -> 3 * Unread(t)
      [] pc[t] = "store"  -> 2
      [] pc[t] = "return" -> 1
      [] pc[t] = "idle"   -> 0

\* A step of a call brings its end nearer; the steps of other threads and
\* the edits of files leave it as far as it was.
Nearer ==
    \A t \in Threads :
        /\ Step(t) => ToGo(t)' < ToGo(t)
        /\ pc[t] # "idle" /\ ~Step(t) => ToGo(t)' = ToGo(t)

\* One of the guards of Step(t)'s actions holds: Lock's; Hit's or Miss's, and
\* so on, one of which always does; ReadFile's or BadLine's.
MayStep(t) ==
    \/ pc[t] = "lock" /\ mutex = Nothing
    \/ pc[t] \in {"lookup", "check", "open", "store", "return"}
    \/ pc[t] = "read" /\ \E f \in Seen(t) : f.kind \in {"good", "malformed"}

\* A call can go on, or waits for a thread that can and does not wait itself.
NobodyIsStuck ==
    \A t \in Threads : pc[t] # "idle" =>
        \/ MayStep(t)
        \/ pc[t] = "lock" /\ \E u \in Threads : mutex = u /\ pc[u] # "lock" /\ MayStep(u)

\* The stream a thread reads was open, whatever became of the file since.
StreamIsOpen == \A t \in Threads : pc[t] = "read" => opened[t].kind \in {"good", "malformed"}

\* The lengths ToGo counts with.
LEMMA Lengths ==
    ASSUME IInv, NEW t \in Threads
    PROVE  /\ Len(list[t]) \in Nat /\ Len(data[t]) \in Nat
           /\ pc[t] \in Loading \ {"store"} => Unread(t) \in Nat \ {0}
           /\ pc[t] \in {"lock", "lookup"} => data[t] = <<>>
<1>1. list[t] \in Seq(Regions)
  <2>1. list[t] \in Keys \/ list[t] = <<>>
    BY DEF IInv, TypeOK
  <2>2. Keys \subseteq Seq(Regions)
    BY KeysAreLists
  <2>3. <<>> \in Seq(Regions)
    OBVIOUS
  <2>4. QED
    BY <2>1, <2>2, <2>3, Zenon
<1>2. data[t] \in Seq(RegionData)
  BY DEF IInv, TypeOK
<1>3. QED
  BY <1>1, <1>2 DEF IInv, LoadInProgress, Unread

\* A call's distance to its end is a natural number.
LEMMA ToGoIsNatural ==
    ASSUME IInv, NEW t \in Threads
    PROVE  ToGo(t) \in Nat /\ (pc[t] # "idle" => ToGo(t) > 0)
<1> USE DEF ToGo
<1>1. pc[t] \in {"idle", "lock", "lookup", "check", "open", "read", "store", "return"}
  BY DEF IInv, TypeOK, Locked, Loading
<1>2. Len(list[t]) \in Nat /\ (pc[t] \in {"check", "open", "read"} => Unread(t) \in Nat \ {0})
  BY Lengths DEF Loading
<1>3. CASE pc[t] \in {"lock", "lookup"}
  BY <1>2, <1>3
<1>4. CASE pc[t] \in {"check", "open", "read"}
  <2>1. PICK n \in Nat \ {0} : Unread(t) = n
    BY <1>2, <1>4
  <2>2. QED
    BY <1>4, <2>1
<1>5. CASE pc[t] \in {"store", "return", "idle"}
  BY <1>5
<1>6. QED
  BY <1>1, <1>3, <1>4, <1>5

\* A step of t brings its end nearer.
LEMMA StepIsNearer ==
    ASSUME IInv, NEW t \in Threads, Step(t)
    PROVE  ToGo(t)' < ToGo(t)
<1> USE DEF ToGo, Unread, Loading
<1>0. /\ pc \in [Threads -> Locked \cup {"idle", "lock"}]
      /\ data \in [Threads -> Seq(RegionData)]
  BY DEF IInv, TypeOK
<1>1. CASE Lock(t)
  BY <1>0, <1>1, Lengths DEF Lock
<1>2. CASE Hit(t)
  BY <1>0, <1>2, Lengths DEF Hit
<1>3. CASE Miss(t)
  <2>1. Len(data[t]) = 0
    BY <1>3, Lengths DEF Miss
  <2>2. QED
    BY <1>0, <1>3, <2>1, Lengths DEF Miss
<1>4. CASE IsRegularFile(t)
  BY <1>0, <1>4, Lengths DEF IsRegularFile
<1>5. CASE OpenFile(t)
  BY <1>0, <1>5, Lengths DEF OpenFile
<1>6. CASE ReadFile(t)
  <2>1. Len(data'[t]) = Len(data[t]) + 1
    BY <1>6, ReadAppends DEF IInv
  <2>2. pc'[t] = IF Len(data[t]) + 1 = Len(list[t]) THEN "store" ELSE "check"
    BY <1>0, <1>6 DEF ReadFile
  <2>3. pc[t] = "read" /\ list' = list
    BY <1>6 DEF ReadFile
  <2>4. Len(list[t]) \in Nat /\ Len(data[t]) \in Nat /\ Unread(t) \in Nat \ {0}
    BY <2>3, Lengths
  <2>5. PICK n \in Nat \ {0} : Len(list[t]) - Len(data[t]) = n
    BY <2>4
  <2>6. ToGo(t) = 3 * n
    BY <2>3, <2>5
  <2>7. CASE pc'[t] = "store"
    <3>1. ToGo(t)' = 2
      BY <2>7
    <3> HIDE DEF ToGo
    <3>2. QED
      BY <2>6, <3>1
  <2>8. CASE pc'[t] = "check"
    <3>1. ToGo(t)' = 3 * (n - 1) + 2
      <4>1. ToGo(t)' = 3 * (Len(list[t]) - (Len(data[t]) + 1)) + 2
        BY <2>1, <2>3, <2>8
      <4>2. Len(list[t]) - (Len(data[t]) + 1) = n - 1
        BY <2>4, <2>5
      <4>3. QED
        BY <4>1, <4>2
    <3> HIDE DEF ToGo
    <3>2. QED
      BY <2>6, <3>1
  <2>9. QED
    BY <2>2, <2>7, <2>8
<1>7. CASE StoreCalendar(t)
  BY <1>0, <1>7 DEF StoreCalendar
<1>8. CASE Return(t)
  BY <1>0, <1>8 DEF Return
<1>9. CASE FileNotFound(t) \/ CannotOpen(t) \/ BadLine(t)
  <2>1. pc[t] \in {"check", "open", "read"} /\ pc'[t] = "idle"
    BY <1>0, <1>9 DEF FileNotFound, CannotOpen, BadLine, Throw
  <2>2. ToGo(t)' = 0
    BY <2>1
  <2>3. ToGo(t) > 0 /\ ToGo(t) \in Nat
    BY <2>1, ToGoIsNatural
  <2>4. QED
    BY <2>2, <2>3
<1>10. QED
  BY <1>1, <1>2, <1>3, <1>4, <1>5, <1>6, <1>7, <1>8, <1>9 DEF Step

\* Whatever else happens does not touch a call in progress.
LEMMA OthersLeaveIt ==
    ASSUME IInv, [Next]_vars, NEW t \in Threads, pc[t] # "idle", ~Step(t)
    PROVE  /\ pc'[t] = pc[t] /\ list'[t] = list[t] /\ data'[t] = data[t]
           /\ opened'[t] = opened[t]
<1>0. /\ pc \in [Threads -> Locked \cup {"idle", "lock"}]
      /\ list \in [Threads -> Keys \cup {<<>>}]
      /\ data \in [Threads -> Seq(RegionData)]
      /\ opened \in [Threads -> File]
  BY DEF IInv, TypeOK
<1>1. ASSUME NEW u \in Threads, u # t, Call(u) \/ Step(u)
      PROVE  /\ pc'[t] = pc[t] /\ list'[t] = list[t] /\ data'[t] = data[t]
             /\ opened'[t] = opened[t]
  BY <1>0, <1>1 DEF Call, Step, Lock, Hit, Miss, IsRegularFile, FileNotFound, OpenFile,
     CannotOpen, ReadFile, BadLine, StoreCalendar, Return, Throw
<1>2. ~Call(t)
  BY DEF Call
<1>3. ASSUME NEW r \in Regions, Edit(r) PROVE UNCHANGED local
  BY <1>3 DEF Edit
<1>4. QED
  BY <1>1, <1>2, <1>3 DEF Next, Finished, vars, local

\* What a thread reads from stays open.
LEMMA StreamStep ==
    ASSUME IInv, StreamIsOpen, [Next]_vars
    PROVE  StreamIsOpen'
<1> SUFFICES ASSUME NEW t \in Threads, pc'[t] = "read"
             PROVE  opened'[t].kind \in {"good", "malformed"}
  BY DEF StreamIsOpen
<1>0. /\ pc \in [Threads -> Locked \cup {"idle", "lock"}]
      /\ opened \in [Threads -> File]
  BY DEF IInv, TypeOK
<1>1. CASE pc[t] # "idle" /\ ~Step(t)
  BY <1>1, OthersLeaveIt DEF StreamIsOpen
<1>2. CASE Step(t)
  <2>1. OpenFile(t)
    BY <1>0, <1>2 DEF Step, Lock, Hit, Miss, IsRegularFile, FileNotFound, CannotOpen,
       ReadFile, BadLine, StoreCalendar, Return, Throw
  <2>2. files[Region(t)] \in File
    BY <2>1, NextRegion DEF IInv, OpenFile
  <2>3. QED
    BY <1>0, <2>1, <2>2 DEF OpenFile, File, Kinds
<1>3. CASE pc[t] = "idle"
  <2>1. ASSUME NEW u \in Threads, Call(u) \/ Step(u) PROVE FALSE
    BY <1>0, <1>3, <2>1 DEF Call, Step, Lock, Hit, Miss, IsRegularFile, FileNotFound, OpenFile,
       CannotOpen, ReadFile, BadLine, StoreCalendar, Return, Throw
  <2>2. QED
    BY <1>3, <2>1 DEF Next, Edit, Finished, vars, local
<1>4. QED
  BY <1>1, <1>2, <1>3

\* A call that cannot go on waits for the one that holds the mutex.
LEMMA SomebodyMayStep ==
    ASSUME IInv, StreamIsOpen
    PROVE  NobodyIsStuck
<1>1. ASSUME NEW t \in Threads, pc[t] \notin {"idle", "lock"} PROVE MayStep(t)
  <2>1. pc[t] \in Locked
    BY <1>1 DEF IInv, TypeOK
  <2>2. pc[t] = "read" => opened[t] \in Seen(t) /\ opened[t].kind \in {"good", "malformed"}
    BY DEF StreamIsOpen, Seen
  <2>3. QED
    BY <2>1, <2>2 DEF MayStep, Locked, Loading
<1>2. ASSUME NEW u \in Threads, mutex = u PROVE pc[u] \notin {"idle", "lock"}
  BY <1>2 DEF IInv, LockDiscipline, Locked, Loading
<1>3. mutex \in Threads \cup {Nothing}
  BY DEF IInv, TypeOK
<1>4. ASSUME NEW t \in Threads, pc[t] = "lock", mutex # Nothing
      PROVE  \E u \in Threads : mutex = u /\ pc[u] # "lock" /\ MayStep(u)
  BY <1>1, <1>2, <1>3, <1>4
<1>5. QED
  BY <1>1, <1>4 DEF NobodyIsStuck, MayStep

\* Every call gets nearer to its end with every step it takes, nothing puts
\* it off, and never do all of them wait (calendar_cache.cpp:22-45 and the
\* file reading of calendar_dao.cpp it calls under the lock).
THEOREM CallsComeToAnEnd ==
    Spec => [](NobodyIsStuck /\ \A t \in Threads : ToGo(t) \in Nat) /\ [][Nearer]_vars
<1>1. Init => StreamIsOpen
  BY DEF Init, StreamIsOpen
<1>2. IInv /\ StreamIsOpen /\ [Next]_vars => StreamIsOpen'
  BY StreamStep
<1>3. IInv /\ StreamIsOpen => NobodyIsStuck /\ \A t \in Threads : ToGo(t) \in Nat
  BY SomebodyMayStep, ToGoIsNatural
<1>4. IInv /\ [Next]_vars => [Nearer]_vars
  <2> SUFFICES ASSUME IInv, [Next]_vars, NEW t \in Threads
               PROVE  /\ Step(t) => ToGo(t)' < ToGo(t)
                      /\ pc[t] # "idle" /\ ~Step(t) => ToGo(t)' = ToGo(t)
    BY DEF Nearer
  <2>1. Step(t) => ToGo(t)' < ToGo(t)
    BY StepIsNearer
  <2>2. pc[t] # "idle" /\ ~Step(t) => ToGo(t)' = ToGo(t)
    BY OthersLeaveIt DEF ToGo, Unread
  <2>3. QED
    BY <2>1, <2>2
<1>5. QED
  BY <1>1, <1>2, <1>3, <1>4, Invariance, PTL DEF Spec
=============================================================================
