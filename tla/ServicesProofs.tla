--------------------------- MODULE ServicesProofs ---------------------------
(***************************************************************************)
(* Proofs about the services, of which each is alone in its behaviors: the *)
(* cache (Cache), for all numbers of keys and users, the tester with its   *)
(* reports (TestReports), for all lists of configs and of sites, the pages *)
(* of the web server (Dashboard), for all finite sets of configs, the log  *)
(* writer (RotatingLog), for all limits, and the comparison of reports     *)
(* (Comparison), for all finite sets of configs.                           *)
(***************************************************************************)
EXTENDS Cache, Comparison, Dashboard, RotatingLog, TestReports,
        FiniteSetTheorems, FunctionTheorems, WellFoundedInduction, TLAPS

-----------------------------------------------------------------------------
(* The cache.                                                              *)

Calls        == {"idle", "touch", "load", "write", "rename", "merge"}
CacheEntries == [value : Nat, expiresAt : Nat]
Maps         == [Keys -> CacheEntries]
CacheFiles   == {"tmp", "path"}

CacheTypes ==
    /\ now \in Nat
    /\ data \in Maps
    /\ call \in [Users -> Calls]
    /\ DOMAIN key = Users
    /\ \A u \in Users : call[u] \in {"touch", "load"} => key[u] \in Keys
    /\ held \in [Users -> Maps]
    /\ fd \in [Users -> CacheFiles \cup {"none"}]
    /\ disk \in [CacheFiles -> [whole : BOOLEAN, entries : Maps]]
    /\ exists \subseteq CacheFiles
    /\ due \in Seq(Nat)
    /\ crowd \in BOOLEAN
    /\ spoiled \in BOOLEAN

\* An entry, and a map, that dies in time.
InTime(entry)  == entry = NoEntry \/ (entry.value \in DOMAIN due /\ entry.expiresAt <= due[entry.value])
AllInTime(map) == \A k \in Keys : InTime(map[k])

Ages ==
    /\ AllInTime(data)
    /\ \A u \in Users : AllInTime(held[u])
    /\ \A f \in CacheFiles : AllInTime(disk[f].entries)

\* Somebody has the file open to write.
Written(f) == \E u \in Users : call[u] = "write" /\ fd[u] = f

InSave(u) == call[u] \in {"write", "rename"}

\* A file that is cut is being written, or was left so by one of several at once;
\* the temporary file may be any if nobody is to rename it.
FilesWhole ==
    /\ "path" \in exists /\ ~disk["path"].whole => Written("path") \/ spoiled
    /\ Saving /\ "tmp" \in exists /\ ~disk["tmp"].whole => Written("tmp") \/ spoiled

\* Two who save at once are a crowd; one who does not meet another has his file.
Crowds ==
    /\ \A u, o \in Users : InSave(u) /\ InSave(o) /\ u # o => crowd
    /\ \A u \in Users : fd[u] # "none" => call[u] = "write"
    /\ \A u \in Users : ~crowd /\ call[u] = "write" => fd[u] = "tmp" /\ "tmp" \in exists
    /\ \A u \in Users : ~crowd /\ call[u] = "rename" => "tmp" \in exists /\ disk["tmp"].whole

CacheInv == CacheTypes /\ Ages /\ FilesWhole /\ Crowds

\* The map without entries, and a file that is cut, are in time.
LEMMA Nothing ==
    /\ NoEntry \in CacheEntries /\ NoEntries \in Maps
    /\ AllInTime(NoEntries)
    /\ Cut \in [whole : BOOLEAN, entries : Maps] /\ Cut.entries = NoEntries
<1>1. NoEntry \in CacheEntries BY DEF NoEntry, Entry, CacheEntries
<1>2. NoEntries \in Maps BY <1>1 DEF NoEntries, Maps
<1>3. AllInTime(NoEntries) BY DEF AllInTime, NoEntries, InTime
<1> QED BY <1>1, <1>2, <1>3 DEF Cut

\* Times in whole seconds are no later.
LEMMA SnapshotInTime ==
    ASSUME CacheTypes, AllInTime(data)
    PROVE  Snapshot \in Maps /\ AllInTime(Snapshot)
<1>1. ASSUME NEW k \in Keys
      PROVE  Snapshot[k] \in CacheEntries /\ InTime(Snapshot[k])
  <2> DEFINE e == data[k]
  <2>1. e \in CacheEntries /\ InTime(e) BY DEF CacheTypes, Maps, AllInTime
  <2>2. Snapshot[k] = [e EXCEPT !.expiresAt = e.expiresAt - (e.expiresAt % 2)] BY DEF Snapshot
  <2> HIDE DEF e
  <2>3. e.expiresAt \in Nat /\ e.value \in Nat BY <2>1 DEF CacheEntries
  <2>4. e.expiresAt - (e.expiresAt % 2) \in Nat /\ e.expiresAt - (e.expiresAt % 2) <= e.expiresAt
    BY <2>3
  <2>5. /\ Snapshot[k].value = e.value
        /\ Snapshot[k].expiresAt = e.expiresAt - (e.expiresAt % 2)
        /\ Snapshot[k] = [value |-> e.value, expiresAt |-> e.expiresAt - (e.expiresAt % 2)]
    BY <2>1, <2>2 DEF CacheEntries
  <2>6. Snapshot[k] \in CacheEntries BY <2>3, <2>4, <2>5 DEF CacheEntries
  <2>7. CASE e = NoEntry
    <3>1. e.expiresAt = 0 /\ e.value = 0 BY <2>7 DEF NoEntry, Entry
    <3>2. Snapshot[k] = NoEntry BY <2>5, <3>1 DEF NoEntry, Entry
    <3> QED BY <2>6, <3>2 DEF InTime
  <2>8. CASE e.value \in DOMAIN due /\ e.expiresAt <= due[e.value]
    <3>1. due[e.value] \in Nat BY <2>8 DEF CacheTypes
    <3> QED BY <2>3, <2>4, <2>5, <2>6, <2>8, <3>1 DEF InTime
  <2> QED BY <2>1, <2>7, <2>8 DEF InTime
<1>2. Snapshot = [k \in Keys |-> Snapshot[k]] BY DEF Snapshot
<1>3. Snapshot \in Maps BY <1>1, <1>2 DEF Maps
<1> QED BY <1>1, <1>3 DEF AllInTime

\* What was in time still is when another value has been set.
LEMMA DueGrows ==
    ASSUME CacheTypes, due' = due \/ (\E t \in Nat : due' = Append(due, t))
    PROVE  \A map : AllInTime(map) => AllInTime(map)'
<1> SUFFICES ASSUME NEW map, AllInTime(map) PROVE \A k \in Keys : InTime(map[k])'
  BY DEF AllInTime
<1>1. \A i \in DOMAIN due : i \in DOMAIN due' /\ due'[i] = due[i]
  <2>1. CASE due' = due BY <2>1
  <2>2. ASSUME NEW t \in Nat, due' = Append(due, t)
        PROVE  \A i \in DOMAIN due : i \in DOMAIN due' /\ due'[i] = due[i]
    BY <2>2 DEF CacheTypes
  <2> QED BY <2>1, <2>2
<1> QED BY <1>1 DEF AllInTime, InTime

\* What Set stores is in time.
LEMMA StoreInTime ==
    ASSUME CacheTypes, NEW k \in Keys, Store(k)
    PROVE  /\ \E t \in Nat : due' = Append(due, t)
           /\ due' \in Seq(Nat)
           /\ data' \in Maps
           /\ AllInTime(data) => AllInTime(data)'
<1> DEFINE e(t) == Entry(Len(due'), now + t)
<1>1. PICK ttl \in TTLs : /\ due' = Append(due, now + ttl)
                          /\ PutEntry(k, e(ttl))
  BY DEF Store
<1>2. now + ttl \in Nat BY CacheAssumption DEF CacheTypes
<1>3. /\ due' \in Seq(Nat) /\ Len(due') \in DOMAIN due' /\ Len(due') \in Nat
      /\ due'[Len(due')] = now + ttl
  BY <1>1, <1>2 DEF CacheTypes
<1>4. e(ttl) \in CacheEntries /\ e(ttl).value = Len(due') /\ e(ttl).expiresAt = now + ttl
  BY <1>2, <1>3 DEF Entry, CacheEntries
<1> HIDE DEF e
<1>5. data' = [data EXCEPT ![k] = e(ttl)] BY <1>1 DEF PutEntry
<1>6. data' \in Maps /\ data'[k] = e(ttl) BY <1>4, <1>5 DEF CacheTypes, Maps
<1>7. ASSUME AllInTime(data), NEW j \in Keys PROVE InTime(data[j])'
  <2>1. CASE j = k BY <1>2, <1>3, <1>4, <1>6, <2>1 DEF InTime
  <2>2. CASE j # k
    <3>1. data'[j] = data[j] /\ InTime(data[j]) BY <1>5, <1>7, <2>2 DEF AllInTime, CacheTypes, Maps
    <3>2. \A i \in DOMAIN due : i \in DOMAIN due' /\ due'[i] = due[i] BY <1>1, <1>2 DEF CacheTypes
    <3> QED BY <3>1, <3>2 DEF InTime
  <2> QED BY <2>1, <2>2
<1> QED BY <1>1, <1>2, <1>3, <1>4, <1>6, <1>7 DEF AllInTime

\* A step on the map alone, which puts in what is in time.
LEMMA DataStep ==
    ASSUME CacheInv, data' \in Maps, AllInTime(data'), CacheTypes',
           UNCHANGED <<fd, disk, exists, due, crowd, spoiled>>,
           \A u \in Users : held'[u] \in {held[u], NoEntries},
           \A u \in Users : call'[u] = call[u] \/ {call[u], call'[u]} \cap {"write", "rename"} = {}
    PROVE  CacheInv'
<1> USE DEF CacheInv
<1>1. \A map : AllInTime(map) => AllInTime(map)' BY DueGrows
<1>2. Ages'
  <2>1. AllInTime(data)' BY DEF AllInTime, InTime
  <2>2. \A u \in Users : AllInTime(held[u])'
    BY Nothing DEF Ages, AllInTime, InTime
  <2>3. \A f \in CacheFiles : AllInTime(disk[f].entries)' BY DEF Ages, AllInTime, InTime
  <2> QED BY <2>1, <2>2, <2>3 DEF Ages
<1>3. \A u \in Users : (call'[u] = "write" <=> call[u] = "write")
                       /\ (call'[u] = "rename" <=> call[u] = "rename")
  OBVIOUS
<1>4. FilesWhole' BY <1>3 DEF FilesWhole, Written, Saving
<1>5. Crowds' BY <1>3 DEF Crowds, InSave
<1> QED BY <1>2, <1>4, <1>5

\* A value is set.
LEMMA StoreStep ==
    ASSUME CacheInv, NEW k \in Keys, Store(k),
           UNCHANGED <<now, key, held, fd, disk, exists, crowd, spoiled>>,
           call' \in [Users -> Calls],
           \A u \in Users : call'[u] = call[u] \/ (call'[u] = "idle" /\ call[u] = "load")
    PROVE  CacheInv'
<1> USE DEF CacheInv
<1>1. \A map : AllInTime(map) => AllInTime(map)' BY StoreInTime, DueGrows
<1>2. CacheTypes' BY StoreInTime DEF CacheTypes
<1>3. Ages'
  <2>1. AllInTime(data)' BY StoreInTime DEF Ages
  <2>2. \A u \in Users : AllInTime(held[u])' BY <1>1 DEF Ages, AllInTime
  <2>3. \A f \in CacheFiles : AllInTime(disk[f].entries)' BY <1>1 DEF Ages, AllInTime
  <2> QED BY <2>1, <2>2, <2>3 DEF Ages
<1>4. \A u \in Users : (call'[u] = "write" <=> call[u] = "write")
                       /\ (call'[u] = "rename" <=> call[u] = "rename")
  OBVIOUS
<1>5. FilesWhole' BY <1>4 DEF FilesWhole, Written, Saving
<1>6. Crowds' BY <1>4 DEF Crowds, InSave
<1> QED BY <1>2, <1>3, <1>5, <1>6

\* Every step keeps the types, the ages and the files.
LEMMA CacheStep == CacheInv /\ CacheNext => CacheInv'
<1> SUFFICES ASSUME CacheInv, CacheNext PROVE CacheInv'
  OBVIOUS
<1> CacheTypes /\ Ages /\ FilesWhole /\ Crowds BY DEF CacheInv
<1>1. CASE Cleanup
  <2>1. data' \in Maps /\ AllInTime(data')
    BY <1>1, Nothing DEF Cleanup, CacheTypes, Maps, Ages, AllInTime, InTime
  <2>2. CacheTypes' BY <1>1, <2>1 DEF Cleanup, CacheTypes
  <2> QED BY <1>1, <2>1, <2>2, DataStep DEF Cleanup
<1>2. CASE Later
  <2>1. CacheTypes' BY <1>2 DEF Later, CacheTypes
  <2>2. data' \in Maps /\ AllInTime(data') BY <1>2 DEF Later, CacheTypes, Ages
  <2> QED BY <1>2, <2>1, <2>2, DataStep DEF Later
<1>3. CASE CacheRestart
  <2>1. CacheTypes' BY <1>3, Nothing DEF CacheRestart, CacheTypes, Calls
  <2>2. Ages' BY <1>3, Nothing DEF CacheRestart, Ages, AllInTime, InTime
  <2>3. FilesWhole'
    <3>1. ~Saving' BY <1>3 DEF CacheRestart, Saving
    <3>2. CASE Saving /\ crowd BY <1>3, <3>1, <3>2 DEF CacheRestart, FilesWhole
    <3>3. CASE ~Saving
      <4>1. ~Written("path") BY <3>3 DEF Written, Saving
      <4> QED BY <1>3, <3>1, <4>1 DEF CacheRestart, FilesWhole
    <3>4. CASE ~crowd
      <4>1. ~Written("path") BY <3>4 DEF Written, Crowds
      <4> QED BY <1>3, <3>1, <4>1 DEF CacheRestart, FilesWhole
    <3> QED BY <3>2, <3>3, <3>4
  <2>4. Crowds' BY <1>3 DEF CacheRestart, Crowds, InSave
  <2> QED BY <2>1, <2>2, <2>3, <2>4 DEF CacheInv
<1>4. ASSUME NEW u \in Users, Clear(u) PROVE CacheInv'
  <2>1. data' \in Maps /\ AllInTime(data') BY <1>4, Nothing DEF Clear
  <2>2. CacheTypes' BY <1>4, <2>1 DEF Clear, CacheTypes
  <2> QED BY <1>4, <2>1, <2>2, DataStep DEF Clear
<1>5. ASSUME NEW u \in Users, NEW k \in Keys, Delete(u, k) PROVE CacheInv'
  <2>1. data' \in Maps /\ AllInTime(data')
    BY <1>5, Nothing DEF Delete, PutEntry, CacheTypes, Maps, Ages, AllInTime, InTime
  <2>2. CacheTypes' BY <1>5, <2>1 DEF Delete, CacheTypes
  <2> QED BY <1>5, <2>1, <2>2, DataStep DEF Delete
<1>6. ASSUME NEW u \in Users, Touch(u) PROVE CacheInv'
  <2>1. key[u] \in Keys /\ held[u] \in Maps /\ AllInTime(held[u])
    BY <1>6 DEF Touch, CacheTypes, Ages
  <2>2. held[u][key[u]] \in CacheEntries /\ InTime(held[u][key[u]])
    BY <2>1 DEF Maps, AllInTime
  <2>3. data' = [data EXCEPT ![key[u]] = held[u][key[u]]] BY <1>6 DEF Touch, PutEntry
  <2>4. data' \in Maps /\ AllInTime(data')
    BY <2>2, <2>3 DEF CacheTypes, Maps, Ages, AllInTime
  <2>6. call' = [call EXCEPT ![u] = "idle"] /\ held' = [held EXCEPT ![u] = NoEntries]
    BY <1>6 DEF Touch, Becomes
  <2>7. call' \in [Users -> Calls] /\ held' \in [Users -> Maps]
    BY <2>6, Nothing DEF CacheTypes, Calls
  <2>8. CacheTypes' BY <1>6, <2>4, <2>6, <2>7 DEF Touch, CacheTypes
  <2> QED BY <1>6, <2>4, <2>6, <2>8, DataStep DEF Touch, CacheTypes
<1>7. ASSUME NEW u \in Users, NEW k \in Keys, Set(u, k) PROVE CacheInv'
  <2>1. /\ Store(k) /\ UNCHANGED <<now, call, key, held, fd, disk, exists, crowd, spoiled>>
    BY <1>7 DEF Set
  <2>2. /\ call' \in [Users -> Calls]
        /\ \A o \in Users : call'[o] = call[o] \/ (call'[o] = "idle" /\ call[o] = "load")
    BY <2>1 DEF CacheTypes
  <2> QED BY <2>1, <2>2, StoreStep
<1>8. ASSUME NEW u \in Users, Load(u) PROVE CacheInv'
  <2>0. call' = [call EXCEPT ![u] = "idle"] /\ call[u] = "load" BY <1>8 DEF Load, Becomes
  <2>1. /\ call' \in [Users -> Calls] /\ key[u] \in Keys
        /\ \A o \in Users : call'[o] = call[o] \/ (call'[o] = "idle" /\ call[o] = "load")
    BY <2>0 DEF CacheTypes, Calls
  <2>2. CASE Store(key[u]) BY <1>8, <2>1, <2>2, StoreStep DEF Load
  <2>3. CASE UNCHANGED <<data, due>>
    <3>1. CacheTypes' BY <1>8, <2>1, <2>3 DEF Load, CacheTypes
    <3>2. data' \in Maps /\ AllInTime(data') BY <2>3 DEF CacheTypes, Ages
    <3> QED BY <1>8, <2>1, <2>3, <3>1, <3>2, DataStep DEF Load
  <2> QED BY <1>8, <2>2, <2>3 DEF Load
<1>9. ASSUME NEW u \in Users, NEW k \in Keys, FetchMiss(u, k) PROVE CacheInv'
  <2>1. CacheTypes' BY <1>9 DEF FetchMiss, Becomes, CacheTypes, Calls
  <2>2. data' \in Maps /\ AllInTime(data') BY <1>9 DEF FetchMiss, CacheTypes, Ages
  <2> QED BY <1>9, <2>1, <2>2, DataStep DEF FetchMiss, Becomes, CacheTypes
<1>10. ASSUME NEW u \in Users, NEW k \in Keys, GetHit(u, k) PROVE CacheInv'
  <2>1. CacheTypes' BY <1>10 DEF GetHit, Becomes, CacheTypes, Calls
  <2>2. Ages' BY <1>10 DEF GetHit, CacheTypes, Ages, AllInTime, InTime
  <2>3. FilesWhole' BY <1>10 DEF GetHit, Becomes, CacheTypes, FilesWhole, Written, Saving
  <2>4. Crowds' BY <1>10 DEF GetHit, Becomes, CacheTypes, Crowds, InSave
  <2> QED BY <2>1, <2>2, <2>3, <2>4 DEF CacheInv
<1>11. ASSUME NEW u \in Users, ReadFile(u) PROVE CacheInv'
  <2>1. disk["path"].entries \in Maps /\ AllInTime(disk["path"].entries)
    BY DEF CacheTypes, Ages, CacheFiles
  <2>2. CacheTypes' BY <1>11, <2>1 DEF ReadFile, Becomes, CacheTypes, Calls
  <2>3. Ages' BY <1>11, <2>1 DEF ReadFile, CacheTypes, Ages, AllInTime, InTime
  <2>4. FilesWhole' BY <1>11 DEF ReadFile, Becomes, CacheTypes, FilesWhole, Written, Saving
  <2>5. Crowds' BY <1>11 DEF ReadFile, Becomes, CacheTypes, Crowds, InSave
  <2> QED BY <2>2, <2>3, <2>4, <2>5 DEF CacheInv
<1>12. ASSUME NEW u \in Users, Merge(u) PROVE CacheInv'
  <2>1. held[u] \in Maps /\ AllInTime(held[u]) BY DEF CacheTypes, Ages
  <2>2. data' \in Maps /\ AllInTime(data')
    BY <1>12, <2>1 DEF Merge, CacheTypes, Maps, Ages, AllInTime
  <2>4. call' \in [Users -> Calls] /\ held' \in [Users -> Maps]
    BY <1>12, Nothing DEF Merge, Becomes, CacheTypes, Calls
  <2>5. CacheTypes' BY <1>12, <2>2, <2>4 DEF Merge, Becomes, CacheTypes
  <2> QED BY <1>12, <2>2, <2>5, DataStep DEF Merge, Becomes, CacheTypes
<1>13. ASSUME NEW u \in Users, BeginSave(u) PROVE CacheInv'
  <2>1. disk' = [disk EXCEPT !["tmp"] = Cut] BY <1>13 DEF BeginSave
  <2>2. \A f \in CacheFiles : disk'[f] = (IF f = "tmp" THEN Cut ELSE disk[f])
    BY <2>1 DEF CacheTypes
  <2>3. CacheTypes'
    <3>1. crowd' \in BOOLEAN BY <1>13 DEF BeginSave, Saving
    <3>2. disk' \in [CacheFiles -> [whole : BOOLEAN, entries : Maps]]
      BY <2>1, Nothing DEF CacheTypes
    <3>3. call' \in [Users -> Calls] /\ fd' \in [Users -> CacheFiles \cup {"none"}]
      BY <1>13 DEF BeginSave, Becomes, CacheTypes, Calls, CacheFiles
    <3>4. \A o \in Users : call'[o] \in {"touch", "load"} => key[o] \in Keys
      BY <1>13 DEF BeginSave, Becomes, CacheTypes
    <3> QED BY <1>13, <3>1, <3>2, <3>3, <3>4 DEF BeginSave, CacheTypes, CacheFiles
  <2>4. Ages' BY <1>13, <2>2, Nothing DEF BeginSave, CacheTypes, Ages, AllInTime, InTime
  <2>5. /\ \A o \in Users : call'[o] = (IF o = u THEN "write" ELSE call[o])
        /\ \A o \in Users : fd'[o] = (IF o = u THEN "tmp" ELSE fd[o])
        /\ call[u] = "idle" /\ (crowd' <=> Saving)
        /\ exists' = exists \cup {"tmp"} /\ UNCHANGED spoiled
    BY <1>13 DEF BeginSave, Becomes, CacheTypes
  <2>6. Written("tmp")' BY <2>5 DEF Written
  <2>7. FilesWhole' BY <2>2, <2>5, <2>6 DEF FilesWhole, Written, CacheFiles
  <2>8. Crowds'
    <3>1. CASE Saving BY <2>5, <3>1 DEF Crowds
    <3>2. CASE ~Saving BY <2>5, <3>2 DEF Crowds, Saving, InSave
    <3> QED BY <3>1, <3>2
  <2> QED BY <2>3, <2>4, <2>7, <2>8 DEF CacheInv
<1>14. ASSUME NEW u \in Users, WriteTmp(u) PROVE CacheInv'
  <2>1. Snapshot \in Maps /\ AllInTime(Snapshot) BY SnapshotInTime DEF Ages
  <2>2. /\ Whole(Snapshot) \in [whole : BOOLEAN, entries : Maps]
        /\ Whole(Snapshot).entries = Snapshot /\ Whole(Snapshot).whole
    BY <2>1 DEF Whole
  <2> DEFINE W == Whole(Snapshot)
  <2> HIDE DEF W
  <2>3. \A f \in CacheFiles : disk'[f] = (IF f = fd[u] THEN W ELSE disk[f])
    BY <1>14 DEF WriteTmp, CacheTypes, W
  <2>4. disk' \in [CacheFiles -> [whole : BOOLEAN, entries : Maps]]
    BY <1>14, <2>2 DEF WriteTmp, CacheTypes, W
  <2>5. CacheTypes' BY <1>14, <2>4 DEF WriteTmp, Becomes, CacheTypes, Calls, CacheFiles
  <2>6. Ages' BY <1>14, <2>1, <2>2, <2>3 DEF WriteTmp, CacheTypes, Ages, AllInTime, InTime, W
  <2>7. /\ \A o \in Users : call'[o] = (IF o = u THEN "rename" ELSE call[o])
        /\ \A o \in Users : fd'[o] = (IF o = u THEN "none" ELSE fd[o])
        /\ call[u] = "write" /\ UNCHANGED <<exists, crowd, spoiled>>
    BY <1>14 DEF WriteTmp, Becomes, CacheTypes
  <2>8. W.whole BY <2>2 DEF W
  <2>9. ASSUME NEW f \in CacheFiles, f # fd[u] PROVE Written(f) <=> Written(f)'
    BY <2>7, <2>9 DEF Written
  <2>10. FilesWhole'
    <3>1. "path" \in exists' /\ ~disk'["path"].whole => Written("path")' \/ spoiled'
      BY <2>3, <2>7, <2>8, <2>9 DEF FilesWhole, CacheFiles
    <3>2. ASSUME "tmp" \in exists', ~disk'["tmp"].whole
          PROVE  Written("tmp")' \/ spoiled'
      <4>1. fd[u] # "tmp" /\ disk'["tmp"] = disk["tmp"] BY <2>3, <2>8, <3>2 DEF CacheFiles
      <4>2. Saving BY <2>7 DEF Saving
      <4> QED BY <2>7, <2>9, <3>2, <4>1, <4>2 DEF FilesWhole, CacheFiles
    <3> QED BY <3>1, <3>2 DEF FilesWhole
  <2>11. Crowds'
    <3>1. \A o \in Users : InSave(o)' <=> InSave(o) BY <2>7 DEF InSave
    <3>2. ASSUME ~crowd
          PROVE  "tmp" \in exists /\ disk'["tmp"] = W /\ \A o \in Users : InSave(o) => o = u
      <4>1. fd[u] = "tmp" BY <2>7, <3>2 DEF Crowds
      <4>2. "tmp" \in exists BY <2>7, <3>2 DEF Crowds
      <4>3. \A o \in Users : InSave(o) => o = u BY <2>7, <3>2 DEF Crowds, InSave
      <4> QED BY <2>3, <4>1, <4>2, <4>3 DEF CacheFiles
    <3> QED BY <2>7, <2>8, <3>1, <3>2 DEF Crowds, InSave
  <2> QED BY <2>5, <2>6, <2>10, <2>11 DEF CacheInv
<1>15. ASSUME NEW u \in Users, Rename(u) PROVE CacheInv'
  <2>1. /\ \A o \in Users : call'[o] = (IF o = u THEN "idle" ELSE call[o])
        /\ call' \in [Users -> Calls] /\ call[u] = "rename" /\ Saving
        /\ UNCHANGED <<now, data, key, held, due, crowd>>
    BY <1>15 DEF Rename, Becomes, CacheTypes, Calls, Saving
  <2>2. CASE "tmp" \notin exists
    <3>1. UNCHANGED <<disk, exists, fd, spoiled>> BY <1>15, <2>2 DEF Rename
    <3>2. CacheTypes' BY <2>1, <3>1 DEF CacheTypes
    <3>3. Ages' BY <2>1, <3>1 DEF Ages, AllInTime, InTime
    <3>4. FilesWhole' BY <2>1, <2>2, <3>1 DEF FilesWhole, Written
    <3>5. Crowds' BY <2>1, <3>1 DEF Crowds, InSave
    <3> QED BY <3>2, <3>3, <3>4, <3>5 DEF CacheInv
  <2>3. CASE "tmp" \in exists
    <3>1. /\ disk' = [disk EXCEPT !["path"] = disk["tmp"], !["tmp"] = Cut]
          /\ exists' = {"path"}
          /\ spoiled' = (spoiled /\ crowd)
          /\ fd' = [o \in Users |-> IF fd[o] = "tmp" THEN "path" ELSE "none"]
      BY <1>15, <2>3 DEF Rename
    <3>2. disk'["path"] = disk["tmp"] /\ disk'["tmp"] = Cut BY <3>1 DEF CacheTypes, CacheFiles
    <3>3. CacheTypes' BY <2>1, <3>1, Nothing DEF CacheTypes, CacheFiles
    <3>4. Ages'
      <4>1. \A f \in CacheFiles : AllInTime(disk'[f].entries) BY <3>2, Nothing DEF Ages, CacheFiles
      <4> QED BY <2>1, <4>1 DEF Ages, AllInTime, InTime
    <3>5. FilesWhole'
      <4>1. ASSUME ~disk["tmp"].whole PROVE Written("path")' \/ spoiled'
        <5>1. crowd BY <2>1, <4>1 DEF Crowds
        <5>2. Written("tmp") \/ spoiled BY <2>1, <2>3, <4>1 DEF FilesWhole
        <5>3. Written("tmp") => Written("path")' BY <2>1, <3>1 DEF Written
        <5> QED BY <3>1, <5>1, <5>2, <5>3
      <4> QED BY <3>1, <3>2, <4>1 DEF FilesWhole
    <3>6. Crowds'
      <4>1. \A o \in Users : InSave(o)' => InSave(o) /\ o # u BY <2>1 DEF InSave
      <4>2. \A o \in Users : InSave(o)' => crowd BY <2>1, <4>1 DEF Crowds, InSave
      <4>3. \A o \in Users : fd'[o] # "none" => call'[o] = "write" BY <2>1, <3>1 DEF Crowds
      <4> QED BY <2>1, <4>2, <4>3 DEF Crowds, InSave
    <3> QED BY <3>3, <3>4, <3>5, <3>6 DEF CacheInv
  <2> QED BY <2>2, <2>3
<1>16. ASSUME NEW u \in Users, WriteFails(u) PROVE CacheInv'
  <2>1. /\ \A o \in Users : call'[o] = (IF o = u THEN "idle" ELSE call[o])
        /\ \A o \in Users : fd'[o] = (IF o = u THEN "none" ELSE fd[o])
        /\ call' \in [Users -> Calls] /\ call[u] = "write" /\ Saving
        /\ spoiled' = (spoiled \/ crowd)
        /\ UNCHANGED <<now, data, key, held, exists, due, crowd>>
    BY <1>16 DEF WriteFails, Becomes, CacheTypes, Calls, Saving
  <2>2. \A f \in CacheFiles : disk'[f] = disk[f] \/ (f = fd[u] /\ disk'[f] = Cut)
    BY <1>16 DEF WriteFails, CacheTypes
  <2>3. disk' \in [CacheFiles -> [whole : BOOLEAN, entries : Maps]]
    BY <1>16, Nothing DEF WriteFails, CacheTypes
  <2>4. CacheTypes' BY <1>16, <2>1, <2>3 DEF WriteFails, CacheTypes, CacheFiles
  <2>5. Ages'
    <3>1. \A f \in CacheFiles : AllInTime(disk'[f].entries) BY <2>2, Nothing DEF Ages
    <3> QED BY <2>1, <3>1 DEF Ages, AllInTime, InTime
  <2>6. \A o \in Users : InSave(o)' => InSave(o) /\ o # u BY <2>1 DEF InSave
  <2>7. CASE crowd
    <3>1. FilesWhole' BY <2>1, <2>7 DEF FilesWhole
    <3>2. Crowds' BY <2>1, <2>7 DEF Crowds, InSave
    <3> QED BY <2>4, <2>5, <3>1, <3>2 DEF CacheInv
  <2>8. CASE ~crowd
    <3>1. /\ \A o \in Users : InSave(o) => o = u
          /\ fd[u] = "tmp" /\ ~Written("path")
      BY <2>1, <2>8 DEF Crowds, InSave, Written
    <3>2. \A o \in Users : ~InSave(o)' BY <2>6, <3>1
    <3>3. ~Saving' BY <3>2 DEF Saving, InSave
    <3>4. disk'["path"] = disk["path"] BY <2>2, <3>1 DEF CacheFiles
    <3>5. FilesWhole' BY <2>1, <3>1, <3>3, <3>4 DEF FilesWhole
    <3>6. Crowds' BY <2>1, <3>2 DEF Crowds, InSave
    <3> QED BY <2>4, <2>5, <3>5, <3>6 DEF CacheInv
  <2> QED BY <2>7, <2>8
<1> QED BY <1>1, <1>2, <1>3, <1>4, <1>5, <1>6, <1>7, <1>8, <1>9, <1>10, <1>11, <1>12, <1>13,
           <1>14, <1>15, <1>16 DEF CacheNext

\* It starts so.
LEMMA CacheStart == CacheInit => CacheInv
<1> SUFFICES ASSUME CacheInit PROVE CacheInv OBVIOUS
<1>1. CacheTypes
  <2>1. Cut \in [whole : BOOLEAN, entries : Maps] BY Nothing
  <2>2. disk \in [CacheFiles -> [whole : BOOLEAN, entries : Maps]] BY <2>1 DEF CacheInit, CacheFiles
  <2>3. crowd \in BOOLEAN /\ spoiled \in BOOLEAN BY DEF CacheInit
  <2>4. held \in [Users -> Maps] /\ data \in Maps BY Nothing DEF CacheInit
  <2> QED BY <2>2, <2>3, <2>4 DEF CacheInit, CacheTypes, Calls, CacheFiles
<1>2. Ages
  <2>1. data = NoEntries /\ (\A u \in Users : held[u] = NoEntries)
        /\ \A f \in CacheFiles : disk[f].entries = NoEntries
    BY Nothing DEF CacheInit, CacheFiles
  <2> QED BY <2>1, Nothing DEF Ages
<1>3. FilesWhole /\ Crowds BY DEF CacheInit, FilesWhole, Crowds, InSave
<1> QED BY <1>1, <1>2, <1>3 DEF CacheInv

\* What holds in every state of the cache.
LEMMA CacheKeeps == CacheSpec => []CacheInv
<1>1. CacheInv /\ UNCHANGED cacheVars => CacheInv'
  BY DEF cacheVars, CacheInv, CacheTypes, Ages, AllInTime, InTime, FilesWhole, Written, Saving,
         Crowds, InSave
<1> QED BY <1>1, CacheStart, CacheStep, PTL DEF CacheSpec

\* Get puts back a copy without its age, LoadFromDisk replaces what is newer,
\* but the copy carries its own expiry: nothing lives longer for it.
THEOREM NothingLivesLonger == CacheSpec => []NothingOutlivesItsTTL
<1>1. CacheInv => NothingOutlivesItsTTL
  BY DEF CacheInv, CacheTypes, Ages, AllInTime, InTime, NothingOutlivesItsTTL, CacheFiles
<1> QED BY <1>1, CacheKeeps, PTL

\* SaveToDisk renames what it has written and nothing else while it is alone, though
\* its WriteFile may fail and its process may end: only one of several at once may
\* leave a cut file under the name "path".
THEOREM SavedIsWhole == CacheSpec => []SavedFileIsWhole
<1>1. CacheInv => SavedFileIsWhole
  BY DEF CacheInv, FilesWhole, Written, SavedFileIsWhole
<1> QED BY <1>1, CacheKeeps, PTL

-----------------------------------------------------------------------------
(* Induction and sums.                                                     *)

\* A set of numbers has a least element.  The library's induction theorems are
\* about an operator; this says the same of a set, and can be cited.
LEMMA LeastNumber == \A S \in SUBSET Nat : S # {} => \E n \in S : \A m \in S : n <= m
<1> SUFFICES ASSUME NEW S \in SUBSET Nat, S # {} PROVE \E n \in S : \A m \in S : n <= m OBVIOUS
<1>1. IsWellFoundedOn(OpToRel(<, Nat), Nat) BY NatLessThanWellFounded
<1>2. PICK x \in S : \A y \in S : ~(<<y, x>> \in OpToRel(<, Nat)) BY <1>1, WFMin
<1>3. \A y \in S : ~(y < x)
  <2> SUFFICES ASSUME NEW y \in S, y < x PROVE FALSE OBVIOUS
  <2>1. <<y, x>> \in OpToRel(<, Nat) BY DEF OpToRel
  <2> QED BY <2>1, <1>2
<1>4. \A y \in S : x <= y BY <1>3
<1> QED BY <1>4

\* A set of parts of a finite set that holds the empty one, and with a part also
\* what has one element more, holds the whole.
LEMMA FiniteInduction ==
    ASSUME NEW S, IsFiniteSet(S), NEW G, {} \in G,
           \A T \in SUBSET S, x \in S : T \in G /\ x \notin T => T \cup {x} \in G
    PROVE  S \in G
<1> DEFINE bad == {n \in Nat : \E T \in SUBSET S : T \notin G /\ Cardinality(T) = n}
<1> SUFFICES ASSUME S \notin G PROVE FALSE OBVIOUS
<1>1. bad # {}
  <2>1. Cardinality(S) \in Nat BY FS_CardinalityType
  <2> QED BY <2>1
<1>2. PICK n \in bad : \A m \in bad : n <= m BY <1>1, LeastNumber
<1>3. PICK T \in SUBSET S : T \notin G /\ Cardinality(T) = n BY <1>2
<1>4. PICK x \in T : TRUE BY <1>3
<1>5. IsFiniteSet(T) BY FS_Subset
<1>6. Cardinality(T \ {x}) = n - 1 /\ IsFiniteSet(T \ {x}) BY <1>3, <1>4, <1>5, FS_RemoveElement
<1>7. Cardinality(T \ {x}) \in Nat BY <1>6, FS_CardinalityType
<1>8. T \ {x} \notin G
  <2>1. T = (T \ {x}) \cup {x} BY <1>4
  <2> QED BY <2>1, <1>3, <1>4
<1>9. n - 1 \in bad
  <2>1. T \ {x} \in SUBSET S OBVIOUS
  <2> QED BY <2>1, <1>6, <1>7, <1>8
<1>10. n \in Nat /\ n <= n - 1 BY <1>2, <1>9
<1> QED BY <1>10

\* The pairs of an element of s and a member of its set.
PairsOf(F, s) == UNION {{x} \X F[x] : x \in s}

\* With one element more in s, the pairs grow by the members of its set.
LEMMA OneMorePairs ==
    ASSUME NEW F, NEW s, NEW x, x \notin s, IsFiniteSet(F[x]), IsFiniteSet(PairsOf(F, s))
    PROVE  /\ IsFiniteSet(PairsOf(F, s \cup {x}))
           /\ Cardinality(PairsOf(F, s \cup {x})) = Cardinality(PairsOf(F, s)) + Cardinality(F[x])
<1> DEFINE new == {x} \X F[x]
           old == PairsOf(F, s)
<1>1. PairsOf(F, s \cup {x}) = old \cup new BY DEF PairsOf
<1>2. old \cap new = {}
  <2>1. \A p \in old : p[1] \in s BY DEF PairsOf
  <2>2. \A p \in new : p[1] = x OBVIOUS
  <2> QED BY <2>1, <2>2
<1>3. IsFiniteSet(new) /\ Cardinality(new) = Cardinality(F[x])
  <2> DEFINE f == [y \in F[x] |-> <<x, y>>]
  <2>1. f \in Bijection(F[x], new)
    <3>1. f \in [F[x] -> new] OBVIOUS
    <3>2. \A a, b \in F[x] : f[a] = f[b] => a = b OBVIOUS
    <3>3. \A t \in new : \E a \in F[x] : f[a] = t OBVIOUS
    <3> HIDE DEF f, new
    <3> QED BY <3>1, <3>2, <3>3, Fun_IsBij
  <2>2. ExistsBijection(F[x], new) BY <2>1 DEF ExistsBijection
  <2> QED BY <2>2, FS_Bijection
<1> HIDE DEF new, old
<1>4. /\ IsFiniteSet(old \cup new)
      /\ Cardinality(old \cup new) = Cardinality(old) + Cardinality(new) - Cardinality(old \cap new)
  BY <1>3, FS_Union DEF old
<1>5. Cardinality(old \cap new) = 0 BY <1>2, FS_EmptySet
<1>6. Cardinality(old) \in Nat /\ Cardinality(new) \in Nat BY <1>3, FS_CardinalityType DEF old
<1>7. Cardinality(old \cup new) = Cardinality(old) + Cardinality(F[x]) BY <1>3, <1>4, <1>5, <1>6
<1>8. IsFiniteSet(PairsOf(F, s \cup {x})) BY <1>1, <1>4
<1>9. Cardinality(PairsOf(F, s \cup {x})) = Cardinality(old) + Cardinality(F[x]) BY <1>1, <1>7
<1> QED BY <1>8, <1>9 DEF old

\* What a sum is: it takes the elements of a set in an order of its own.
Taken(s) == CHOOSE x \in s : TRUE
IsSum(m, S, sum) ==
    sum = [s \in SUBSET S |-> IF s = {} THEN 0 ELSE m[Taken(s)] + sum[s \ {Taken(s)}]]

\* Where some function satisfies that equation, the library's sum is one of its values.
LEMMA SumIsASum ==
    ASSUME NEW S, NEW m, NEW w, IsSum(m, S, w)
    PROVE  \E sum : IsSum(m, S, sum) /\ SumFunctionOnSet(m, S) = sum[S]
<1> DEFINE sum == CHOOSE it : IsSum(m, S, it)
<1>1. IsSum(m, S, sum) OBVIOUS
<1>2. SumFunctionOnSet(m, S) = sum[S]
  BY DEF SumFunctionOnSet, FoldFunctionOnSet, MapThenFoldSet, IsSum, Taken
<1> QED BY <1>1, <1>2

\* The pairs of finitely many finite sets are finitely many.
LEMMA FinitePairs ==
    ASSUME NEW S, IsFiniteSet(S), NEW F, \A x \in S : IsFiniteSet(F[x])
    PROVE  IsFiniteSet(PairsOf(F, S))
<1> DEFINE G == {U \in SUBSET S : IsFiniteSet(PairsOf(F, U))}
<1>1. {} \in G
  <2>1. PairsOf(F, {}) = {} BY DEF PairsOf
  <2> QED BY <2>1, FS_EmptySet
<1>2. ASSUME NEW U \in SUBSET S, NEW x \in S, U \in G, x \notin U PROVE U \cup {x} \in G
  BY <1>2, OneMorePairs
<1>3. S \in G
  <2> HIDE DEF G
  <2> QED BY <1>1, <1>2, FiniteInduction
<1> QED BY <1>3

\* The sum of the sizes of sets, less those of others, counts the pairs.
LEMMA SumCountsPairs ==
    ASSUME NEW S, IsFiniteSet(S), NEW F, NEW E, \A x \in S : IsFiniteSet(F[x]) /\ IsFiniteSet(E[x]),
           NEW m, m = [x \in S |-> Cardinality(F[x]) - Cardinality(E[x])]
    PROVE  SumFunction(m) = Cardinality(PairsOf(F, S)) - Cardinality(PairsOf(E, S))
<1> DEFINE w == [s \in SUBSET S |-> Cardinality(PairsOf(F, s)) - Cardinality(PairsOf(E, s))]
<1>1. \A T \in SUBSET S : IsFiniteSet(PairsOf(F, T)) /\ IsFiniteSet(PairsOf(E, T))
  <2> SUFFICES ASSUME NEW T \in SUBSET S PROVE IsFiniteSet(PairsOf(F, T)) /\ IsFiniteSet(PairsOf(E, T))
    OBVIOUS
  <2>1. IsFiniteSet(T) /\ \A x \in T : IsFiniteSet(F[x]) /\ IsFiniteSet(E[x]) BY FS_Subset
  <2> QED BY <2>1, FinitePairs
<1>2. ASSUME NEW s \in SUBSET S, s # {}
      PROVE  /\ Taken(s) \in s /\ s \ {Taken(s)} \in SUBSET S
             /\ w[s] = m[Taken(s)] + w[s \ {Taken(s)}]
  <2> DEFINE x == Taken(s)
             r == s \ {x}
  <2>1. x \in s BY <1>2 DEF Taken
  <2> HIDE DEF x
  <2>2. r \in SUBSET S /\ x \notin r /\ s = r \cup {x} BY <2>1
  <2>3. /\ Cardinality(PairsOf(F, s)) = Cardinality(PairsOf(F, r)) + Cardinality(F[x])
        /\ Cardinality(PairsOf(E, s)) = Cardinality(PairsOf(E, r)) + Cardinality(E[x])
    <3>1. /\ IsFiniteSet(F[x]) /\ IsFiniteSet(PairsOf(F, r))
          /\ IsFiniteSet(E[x]) /\ IsFiniteSet(PairsOf(E, r))
      BY <1>1, <2>1, <2>2
    <3> HIDE DEF r
    <3>2. Cardinality(PairsOf(F, s)) = Cardinality(PairsOf(F, r)) + Cardinality(F[x])
      BY <2>2, <3>1, OneMorePairs
    <3>3. Cardinality(PairsOf(E, s)) = Cardinality(PairsOf(E, r)) + Cardinality(E[x])
      BY <2>2, <3>1, OneMorePairs
    <3> QED BY <3>2, <3>3
  <2>4. /\ Cardinality(PairsOf(F, r)) \in Nat /\ Cardinality(F[x]) \in Nat
        /\ Cardinality(PairsOf(E, r)) \in Nat /\ Cardinality(E[x]) \in Nat
    BY <1>1, <2>1, <2>2, FS_CardinalityType
  <2>5. m[x] = Cardinality(F[x]) - Cardinality(E[x]) BY <2>1
  <2> QED BY <2>1, <2>2, <2>3, <2>4, <2>5 DEF x
<1>3. w[{}] = 0
  <2>1. PairsOf(F, {}) = {} /\ PairsOf(E, {}) = {} BY DEF PairsOf
  <2>2. Cardinality({}) = 0 BY FS_EmptySet
  <2> QED BY <2>1, <2>2
<1>4. w = [s \in SUBSET S |-> IF s = {} THEN 0 ELSE m[Taken(s)] + w[s \ {Taken(s)}]]
  <2>1. \A s \in SUBSET S : w[s] = IF s = {} THEN 0 ELSE m[Taken(s)] + w[s \ {Taken(s)}]
    BY <1>2, <1>3
  <2>2. w = [s \in SUBSET S |-> w[s]] OBVIOUS
  <2> HIDE DEF w
  <2> QED BY <2>1, <2>2
<1> HIDE DEF w
<1>5. IsSum(m, S, w) BY <1>4 DEF IsSum
<1>6. PICK sum : IsSum(m, S, sum) /\ SumFunctionOnSet(m, S) = sum[S] BY <1>5, SumIsASum
<1>7. \A s \in SUBSET S : sum[s] = w[s]
  <2> DEFINE bad == {n \in Nat : \E s \in SUBSET S : sum[s] # w[s] /\ Cardinality(s) = n}
  <2> SUFFICES ASSUME NEW t \in SUBSET S, sum[t] # w[t] PROVE FALSE OBVIOUS
  <2>1. \A s \in SUBSET S : IsFiniteSet(s) /\ Cardinality(s) \in Nat BY FS_Subset, FS_CardinalityType
  <2>2. bad # {} BY <2>1
  <2>3. PICK n \in bad : \A k \in bad : n <= k BY <2>2, LeastNumber
  <2>4. PICK s \in SUBSET S : sum[s] # w[s] /\ Cardinality(s) = n BY <2>3
  <2>5. sum[s] = IF s = {} THEN 0 ELSE m[Taken(s)] + sum[s \ {Taken(s)}] BY <1>6 DEF IsSum
  <2>6. s # {} BY <2>4, <2>5, <1>3
  <2> DEFINE r == s \ {Taken(s)}
  <2>7. Taken(s) \in s /\ r \in SUBSET S /\ w[s] = m[Taken(s)] + w[r] BY <1>2, <2>6
  <2>8. sum[r] # w[r] BY <2>4, <2>5, <2>6, <2>7
  <2>9. Cardinality(r) = n - 1 BY <2>1, <2>4, <2>7, FS_RemoveElement
  <2>10. n - 1 \in bad BY <2>1, <2>7, <2>8, <2>9
  <2>11. n \in Nat /\ n <= n - 1 BY <2>3, <2>10
  <2> QED BY <2>11
<1>8. SumFunction(m) = w[S]
  <2>1. SumFunction(m) = SumFunctionOnSet(m, S) BY DEF SumFunction
  <2> QED BY <2>1, <1>6, <1>7
<1> QED BY <1>8 DEF w

\* The sum of the sizes of sets counts the pairs.
LEMMA SumOfSizes ==
    ASSUME NEW S, IsFiniteSet(S), NEW F, \A x \in S : IsFiniteSet(F[x]),
           NEW m, m = [x \in S |-> Cardinality(F[x])]
    PROVE  /\ IsFiniteSet(PairsOf(F, S))
           /\ SumFunction(m) = Cardinality(PairsOf(F, S))
<1> DEFINE E == [x \in S |-> {}]
<1>1. IsFiniteSet(PairsOf(F, S)) /\ Cardinality(PairsOf(F, S)) \in Nat
  BY FinitePairs, FS_CardinalityType
<1>2. \A x \in S : E[x] = {} OBVIOUS
<1>3. \A x \in S : Cardinality(F[x]) \in Nat BY FS_CardinalityType
<1>4. IsFiniteSet({}) /\ Cardinality({}) = 0 BY FS_EmptySet
<1>5. PairsOf(E, S) = {} BY <1>2 DEF PairsOf
<1> HIDE DEF E
<1>6. m = [x \in S |-> Cardinality(F[x]) - Cardinality(E[x])] BY <1>2, <1>3, <1>4
<1>7. SumFunction(m) = Cardinality(PairsOf(F, S)) - Cardinality(PairsOf(E, S))
  BY <1>2, <1>4, <1>6, SumCountsPairs
<1> QED BY <1>1, <1>4, <1>5, <1>7

-----------------------------------------------------------------------------
(* The tester and its reports.                                             *)

SiteResults == [tested : BOOLEAN, success : BOOLEAN]
Results     == [valid : BOOLEAN, skipped : BOOLEAN, totalTested : Nat, totalSuccess : Nat,
                sites : [Names -> SiteResults]]

Types ==
    /\ ctx \in {"live", "ended"}
    /\ main \in {"idle", "launch", "wait", "done"}
    /\ pc \in [Configs -> {"new", "acquire", "link", "next", "backoff", "request",
                           "append", "gone"}]
    /\ site \in [Configs -> Nat]
    /\ result \in [Configs -> Results]
    /\ results \subseteq Configs

\* Where the goroutine of a config is, and what its result says.
Progress(c) ==
    /\ result[c].totalTested + 1 = site[c]
    /\ pc[c] \in {"new", "acquire", "link"} => result[c] = Untried
    /\ pc[c] \in {"next", "backoff", "request"} => site[c] <= Len(Sites) + 1
    /\ pc[c] \in {"backoff", "request"} => site[c] <= Len(Sites)
    /\ pc[c] \in {"append", "gone"} /\ ctx = "live" /\ result[c].valid /\ ~result[c].skipped
          => site[c] = Len(Sites) + 1
    /\ pc[c] = "gone" /\ ctx = "live" => c \in results
    /\ main \in {"wait", "done"} /\ ctx = "live" => pc[c] # "new"
    /\ main = "done" => pc[c] \in {"new", "gone"}

TestInv == Types /\ \A c \in Configs : Progress(c)

\* The number of sites is a number.
LEMMA SitesLen == Len(Sites) \in Nat
BY TesterAssumption

\* A result that nothing has been written to.
LEMMA UntriedType == Untried \in Results
BY DEF Untried, Results, NoSite, SiteResults

\* Another test begins, or the last is forgotten.
LEMMA RenewKeeps ==
    ASSUME TestInv, Renew, main' \in {"idle", "launch"}, ctx' \in {"live", "ended"}
    PROVE  TestInv'
<1>1. Types' BY UntriedType DEF Renew, TestInv, Types
<1>2. ASSUME NEW c \in Configs PROVE Progress(c)'
  <2>1. pc'[c] = "new" /\ site'[c] = 1 /\ result'[c] = Untried BY DEF Renew
  <2>2. Untried.totalTested = 0 /\ Untried.valid = FALSE BY DEF Untried
  <2> QED BY <2>1, <2>2 DEF Progress
<1> QED BY <1>1, <1>2 DEF TestInv

\* A goroutine moves without an end of a site: its own result may be marked,
\* the others are as they were.
LEMMA OthersKeep ==
    ASSUME TestInv, NEW c \in Configs, NEW d \in Configs, d # c,
           pc' \in [Configs -> {"new", "acquire", "link", "next", "backoff", "request",
                                "append", "gone"}],
           pc'[d] = pc[d], site'[d] = site[d], result'[d] = result[d],
           results \subseteq results', UNCHANGED <<ctx, main>>
    PROVE  Progress(d)'
BY DEF TestInv, Progress

\* testSiteAccess returns: one more site has been tested.
LEMMA SiteDoneKeeps ==
    ASSUME TestInv, NEW c \in Configs, NEW success \in BOOLEAN,
           pc[c] \in {"request", "backoff"}, SiteDone(c, success), UNCHANGED <<ctx, main, results>>
    PROVE  TestInv'
<1> DEFINE new == [result[c] EXCEPT
                      !.totalTested = @ + 1,
                      !.totalSuccess = IF success THEN @ + 1 ELSE @,
                      !.sites[Sites[site[c]]] = [tested |-> TRUE, success |-> success]]
<1>1. result[c] \in Results /\ site[c] \in Nat /\ Progress(c) BY DEF TestInv, Types
<1>2. new \in Results
  <2> DEFINE res  == result[c]
             name == Sites[site[c]]
             mark == [tested |-> TRUE, success |-> success]
             kept == [res.sites EXCEPT ![name] = mark]
  <2>1. res.sites \in [Names -> SiteResults] /\ mark \in SiteResults
    BY <1>1 DEF Results, SiteResults
  <2>2. kept \in [Names -> SiteResults]
    <3> HIDE DEF mark, name, res
    <3> QED BY <2>1
  <2>3. new = [res EXCEPT !.totalTested = @ + 1,
                          !.totalSuccess = IF success THEN @ + 1 ELSE @,
                          !.sites = kept]
    BY <1>1 DEF Results
  <2>4. res \in Results BY <1>1
  <2> HIDE DEF kept, new, res
  <2>5. res.totalTested + 1 \in Nat /\ (IF success THEN res.totalSuccess + 1 ELSE res.totalSuccess) \in Nat
    BY <2>4 DEF Results
  <2> QED BY <2>2, <2>3, <2>4, <2>5 DEF Results
<1>3. new.totalTested = result[c].totalTested + 1 BY <1>1 DEF Results
<1>4. result' = [result EXCEPT ![c] = new] BY DEF SiteDone
<1> HIDE DEF new
<1>5. /\ pc' = [pc EXCEPT ![c] = "next"]
      /\ site' = [site EXCEPT ![c] = site[c] + 1]
  BY DEF SiteDone, Move
<1>6. Types' BY <1>1, <1>2, <1>4, <1>5 DEF TestInv, Types
<1>7. Progress(c)'
  <2>1. site'[c] = site[c] + 1 /\ pc'[c] = "next" /\ result'[c] = new
    BY <1>4, <1>5 DEF TestInv, Types
  <2>2. site[c] <= Len(Sites) /\ main # "done" BY <1>1 DEF Progress
  <2>3. result[c].totalTested + 1 = site[c] /\ result[c].totalTested \in Nat
    BY <1>1 DEF Progress, Results
  <2> QED BY <1>1, <1>3, <2>1, <2>2, <2>3, SitesLen DEF Progress
<1>8. ASSUME NEW d \in Configs, d # c PROVE Progress(d)'
  BY <1>4, <1>5, <1>6, <1>8, OthersKeep DEF TestInv, Types
<1> QED BY <1>6, <1>7, <1>8 DEF TestInv

\* A goroutine goes on to "to", with the result r.
LEMMA MoveKeeps ==
    ASSUME TestInv, NEW c \in Configs,
           NEW to \in {"new", "acquire", "link", "next", "backoff", "request", "append", "gone"},
           NEW r \in Results, Move(c, to), result' = [result EXCEPT ![c] = r],
           results' \in {results, results \cup {c}}, UNCHANGED <<ctx, main, site>>,
           Types' => Progress(c)'
    PROVE  TestInv'
<1>1. Types' BY DEF TestInv, Types, Move
<1>2. ASSUME NEW d \in Configs, d # c PROVE Progress(d)'
  BY <1>1, <1>2, OthersKeep DEF TestInv, Types, Move
<1> QED BY <1>1, <1>2 DEF TestInv

\* A step of TestConfigs keeps the invariant.
LEMMA TestingKeeps == TestInv /\ Testing => TestInv'
<1> SUFFICES ASSUME TestInv, Testing PROVE TestInv' OBVIOUS
<1>1. CASE Launched
  <2>1. Types' BY <1>1 DEF Launched, TestInv, Types
  <2>2. ASSUME NEW c \in Configs PROVE Progress(c)'
    <3>1. Progress(c) BY DEF TestInv
    <3> QED BY <1>1, <3>1 DEF Launched, Progress
  <2> QED BY <2>1, <2>2 DEF TestInv
<1>2. CASE Collected
  <2>1. Types' BY <1>2 DEF Collected, TestInv, Types
  <2>2. ASSUME NEW c \in Configs PROVE Progress(c)'
    <3>1. Progress(c) BY DEF TestInv
    <3> QED BY <1>2, <3>1 DEF Collected, Progress
  <2> QED BY <2>1, <2>2 DEF TestInv
<1>3. ASSUME NEW c \in Configs, Launch(c) \/ Worker(c) PROVE TestInv'
  <2> DEFINE r == result[c]
  <2>1. /\ Progress(c) /\ r \in Results /\ site[c] \in Nat /\ Len(Sites) \in Nat
        /\ result = [result EXCEPT ![c] = r]
        /\ c \in DOMAIN pc /\ c \in DOMAIN result
    BY SitesLen DEF TestInv, Types
  <2> HIDE DEF r
  <2>2. CASE Launch(c)
    <3>1. Progress(c)' BY <2>1, <2>2 DEF Launch, Move, Progress
    <3> QED BY <2>1, <2>2, <3>1, MoveKeeps DEF Launch
  <2>3. CASE Acquire(c)
    <3>1. Progress(c)' BY <2>1, <2>3 DEF Acquire, Move, Progress
    <3> QED BY <2>1, <2>3, <3>1, MoveKeeps DEF Acquire
  <2>4. CASE GiveUp(c)
    <3>1. Progress(c)' BY <2>1, <2>4 DEF GiveUp, Move, Progress
    <3> QED BY <2>1, <2>4, <3>1, MoveKeeps DEF GiveUp
  <2>5. CASE NextSite(c)
    <3>1. Progress(c)' BY <2>1, <2>5 DEF NextSite, Move, Progress
    <3> QED BY <2>1, <2>5, <3>1, MoveKeeps DEF NextSite
  <2>6. CASE AppendResult(c)
    <3>1. Progress(c)' BY <2>1, <2>6 DEF AppendResult, Move, Progress
    <3> QED BY <2>1, <2>6, <3>1, MoveKeeps DEF AppendResult
  <2>7. CASE Link(c)
    <3>1. ASSUME NEW to \in {"append", "next"}, NEW q \in Results, Move(c, to),
                 result' = [result EXCEPT ![c] = q], q.totalTested = r.totalTested,
                 q.valid /\ ~q.skipped => to = "next"
          PROVE  TestInv'
      <4>1. pc[c] = "link" /\ UNCHANGED <<ctx, main, site, results>> BY <2>7 DEF Link
      <4>2. r = Untried /\ site[c] = 1
        <5>1. result[c] = Untried /\ result[c].totalTested + 1 = site[c] BY <2>1, <4>1 DEF Progress
        <5> QED BY <5>1 DEF r, Untried
      <4>3. pc'[c] = to /\ result'[c] = q /\ site'[c] = 1 BY <2>1, <3>1, <4>1, <4>2 DEF Move
      <4>4. q.totalTested = 0 BY <3>1, <4>2 DEF Untried
      <4>5. main # "done" BY <2>1, <4>1 DEF Progress
      <4>6. Progress(c)' BY <2>1, <3>1, <4>1, <4>3, <4>4, <4>5 DEF Progress
      <4> QED BY <3>1, <4>1, <4>6, MoveKeeps
    <3>2. CASE Move(c, "append") /\ UNCHANGED result
      <4>1. result[c] = Untried /\ r = Untried /\ Untried.valid = FALSE
        BY <2>1, <2>7 DEF Link, Progress, r, Untried
      <4> QED BY <2>1, <3>1, <3>2, <4>1
    <3>3. CASE Move(c, "append") /\ result' = [result EXCEPT ![c].valid = TRUE, ![c].skipped = TRUE]
      <4>1. result' = [result EXCEPT ![c] = [r EXCEPT !.valid = TRUE, !.skipped = TRUE]]
        BY <3>3 DEF r
      <4> QED BY <2>1, <3>1, <3>3, <4>1 DEF Results
    <3>4. CASE Move(c, "next") /\ result' = [result EXCEPT ![c].valid = TRUE]
      <4>1. result' = [result EXCEPT ![c] = [r EXCEPT !.valid = TRUE]] BY <3>4 DEF r
      <4> QED BY <2>1, <3>1, <3>4, <4>1 DEF Results
    <3> QED BY <2>7, <3>2, <3>3, <3>4 DEF Link
  <2>8. CASE BadURL(c) BY <2>8, SiteDoneKeeps DEF BadURL
  <2>9. CASE Request(c)
    <3>1. CASE \E success \in BOOLEAN : SiteDone(c, success)
      BY <2>9, <3>1, SiteDoneKeeps DEF Request
    <3>2. CASE Move(c, "backoff") /\ UNCHANGED <<site, result>>
      <4>1. Progress(c)' BY <2>1, <2>9, <3>2 DEF Request, Move, Progress
      <4> QED BY <2>1, <2>9, <3>2, <4>1, MoveKeeps DEF Request
    <3> QED BY <2>9, <3>1, <3>2 DEF Request
  <2>10. CASE Backoff(c)
    <3>1. CASE SiteDone(c, FALSE) BY <2>10, <3>1, SiteDoneKeeps DEF Backoff
    <3>2. CASE Move(c, "request") /\ UNCHANGED <<site, result>>
      <4>1. Progress(c)' BY <2>1, <2>10, <3>2 DEF Backoff, Move, Progress
      <4> QED BY <2>1, <2>10, <3>2, <4>1, MoveKeeps DEF Backoff
    <3> QED BY <2>10, <3>1, <3>2 DEF Backoff
  <2> QED BY <1>3, <2>2, <2>3, <2>4, <2>5, <2>6, <2>7, <2>8, <2>9, <2>10 DEF Worker
<1> QED BY <1>1, <1>2, <1>3 DEF Testing

\* So does a step of whatever calls it.
LEMMA CallersKeep == TestInv /\ [ReportsNext]_repoVars => TestInv'
<1> SUFFICES ASSUME TestInv, [ReportsNext]_repoVars PROVE TestInv' OBVIOUS
<1>1. CASE UNCHANGED testVars
  BY <1>1 DEF testVars, TestInv, Types, Progress
<1>2. CASE Begin BY <1>2, RenewKeeps DEF Begin, Call, TestInv, Types
<1>3. CASE LoadFails \/ Report BY <1>3, RenewKeeps DEF LoadFails, Report, Forget, TestInv, Types
<1>8. CASE NextProcess BY <1>8, RenewKeeps DEF NextProcess, Restart
<1>4. CASE TestStep BY <1>4, TestingKeeps DEF TestStep
<1>5. CASE ContextCancelled
  BY <1>5 DEF ContextCancelled, ContextEnds, TestInv, Types, Progress
<1>6. CASE Save \/ SaveFails \/ Saved \/ Quit \/ StopReturns \/ Stop \/ Die \/ Tick
  BY <1>1, <1>6 DEF Save, SaveFails, Saved, Quit, StopReturns, Stop, Die, Tick, CutOff
<1>7. CASE UNCHANGED repoVars BY <1>1, <1>7 DEF repoVars
<1> QED BY <1>2, <1>3, <1>4, <1>5, <1>6, <1>7, <1>8 DEF ReportsNext, Goroutine

\* It holds before anything has been tested.
LEMMA TestStart == ReportsInit => TestInv
<1> SUFFICES ASSUME ReportsInit PROVE TestInv OBVIOUS
<1>1. TestInit BY DEF ReportsInit
<1>2. Types BY <1>1, UntriedType DEF TestInit, Types
<1>3. ASSUME NEW c \in Configs PROVE Progress(c)
  <2>1. Untried.totalTested = 0 /\ Untried.valid = FALSE BY DEF Untried
  <2> QED BY <1>1, <2>1 DEF TestInit, Progress
<1> QED BY <1>2, <1>3 DEF TestInv

\* TestConfigs returns when every goroutine has appended its result, and a loop
\* over the sites ends early only when the context has ended.
THEOREM TestsAreComplete == ReportsSpec => []CompleteUnlessCancelled
<1>1. TestInv => CompleteUnlessCancelled
  <2> SUFFICES ASSUME TestInv, main = "done", ctx = "live"
               PROVE  /\ results = Configs
                      /\ \A c \in Configs : result[c].valid /\ ~result[c].skipped
                            => result[c].totalTested = Len(Sites)
    BY DEF CompleteUnlessCancelled
  <2>1. ASSUME NEW c \in Configs
        PROVE  c \in results /\ (result[c].valid /\ ~result[c].skipped
                                    => result[c].totalTested = Len(Sites))
    <3>1. result[c].totalTested \in Nat BY DEF TestInv, Types, Results
    <3> QED BY <3>1, SitesLen DEF TestInv, Progress
  <2> QED BY <2>1 DEF TestInv, Types
<1> QED BY <1>1, TestStart, CallersKeep, PTL DEF ReportsSpec

StepNames == {"json", "md", "latest json", "latest md", "link json", "link md", "individual"}

BothKinds == {"json", "md"}
InNames   == (0..MaxClock) \cup {Fixed}

\* What is left to do is the rest of the plan, and a report that is done with is
\* where it was written, or was cut off after that.
Planned ==
    \E i \in 1..Len(Script(driver)) :
        /\ todo = SubSeq(Script(driver), i, Len(Script(driver)))
        /\ i > 1 => files[<<"json", stamp>>] \in {test, Torn}
        /\ i > 2 => files[<<"md", stamp>>] \in {test, Torn}

\* Times in names are on the clock, or there are none, and only the names
\* without a time are links.
FilesTypes ==
    /\ driver \in Drivers
    /\ clock \in 0..MaxClock
    /\ stamp \in InNames
    /\ test \in 0..MaxTests
    /\ files \in [Files -> Nat]
    /\ DOMAIN links \subseteq BothKinds \X {Latest}
    /\ \A l \in DOMAIN links : links[l] \in {l[1]} \X (InNames \cup {Nowhere})
    /\ told \in [BothKinds -> Nat]
    /\ \A kind \in BothKinds : told[kind] <= test

Busy == todo # <<>> => watcher = "saving" /\ Planned

FilesInv == FilesTypes /\ Busy /\ LatestTellsTheLast

\* Every driver saves the report first and does the rest with it after that.
LEMMA Plans ==
    \A d \in Drivers :
        /\ Script(d) \in Seq(StepNames)
        /\ Len(Script(d)) >= 2
        /\ Script(d)[1] = "json" /\ Script(d)[2] = "md"
        /\ \A i \in 3..Len(Script(d)) : Script(d)[i] \in LatestSteps \cup {"individual"}
<1> SUFFICES ASSUME NEW d \in Drivers
             PROVE  /\ Script(d) \in Seq(StepNames)
                    /\ Len(Script(d)) >= 2
                    /\ Script(d)[1] = "json" /\ Script(d)[2] = "md"
                    /\ \A i \in 3..Len(Script(d)) : Script(d)[i] \in LatestSteps \cup {"individual"}
  OBVIOUS
<1> DEFINE S == Script(d)
<1>1. CASE d = "configs"
  <2>1. S = <<"json", "md", "individual">> BY <1>1 DEF Script, testConfigs
  <2> HIDE DEF S
  <2>2. S \in Seq(StepNames) /\ Len(S) = 3 /\ S[1] = "json" /\ S[2] = "md" /\ S[3] = "individual"
    BY <2>1 DEF StepNames
  <2>3. \A i \in 3..Len(S) : i = 3 BY <2>2
  <2> QED BY <2>2, <2>3 DEF S
<1>2. CASE d \in {"manual", "subscription", "file"}
  <2>1. S = <<"json", "md">>
    BY <1>2 DEF Script, testManual, SaveSubscriptionTestReport, SaveFileTestReport
  <2> HIDE DEF S
  <2>2. S \in Seq(StepNames) /\ Len(S) = 2 /\ S[1] = "json" /\ S[2] = "md" BY <2>1 DEF StepNames
  <2>3. 3..Len(S) = {} BY <2>2
  <2> QED BY <2>2, <2>3 DEF S
<1>3. CASE d \in {"watch", "all"}
  <2>1. S = <<"json", "md", "latest json", "latest md">> BY <1>3 DEF Script, testOnce, SaveSubscriptionResults
  <2> HIDE DEF S
  <2>2. S \in Seq(StepNames)
    <3>1. <<"json", "md", "latest json", "latest md">> \in Seq(StepNames) BY DEF StepNames
    <3> QED BY <2>1, <3>1
  <2>3. Len(S) = 4 BY <2>1
  <2>4. S[1] = "json" /\ S[2] = "md" BY <2>1
  <2>5. S[3] = "latest json" /\ S[4] = "latest md" BY <2>1
  <2>6. \A i \in 3..Len(S) : i = 3 \/ i = 4 BY <2>3
  <2>7. \A i \in 3..Len(S) : S[i] \in LatestSteps BY <2>5, <2>6 DEF LatestSteps
  <2> QED BY <2>2, <2>3, <2>4, <2>7 DEF S
<1>4. CASE d = "once"
  <2>1. S = <<"json", "md", "link json", "link md">> BY <1>4 DEF Script, TestAndWatchSubscription
  <2> HIDE DEF S
  <2>2. S \in Seq(StepNames)
    <3>1. <<"json", "md", "link json", "link md">> \in Seq(StepNames) BY DEF StepNames
    <3> QED BY <2>1, <3>1
  <2>3. Len(S) = 4 BY <2>1
  <2>4. S[1] = "json" /\ S[2] = "md" BY <2>1
  <2>5. S[3] = "link json" /\ S[4] = "link md" BY <2>1
  <2>6. \A i \in 3..Len(S) : i = 3 \/ i = 4 BY <2>3
  <2>7. \A i \in 3..Len(S) : S[i] \in LatestSteps BY <2>5, <2>6 DEF LatestSteps
  <2> QED BY <2>2, <2>3, <2>4, <2>7 DEF S
<1> QED BY <1>1, <1>2, <1>3, <1>4 DEF Drivers

\* The names: those with a time come before the others.
LEMMA Clocks ==
    /\ MaxClock \in Nat /\ Latest = MaxClock + 1 /\ Fixed = MaxClock + 2 /\ Nowhere = MaxClock + 3
    /\ MaxTests \in Nat /\ Torn = MaxTests + 1
BY ReportsAssumption DEF Latest, Fixed, Nowhere, Torn

\* Every name is the name of a file but that of a link's target that is nowhere.
LEMMA NamesOfFiles ==
    /\ \A kind \in BothKinds, at \in InNames \cup {Latest} : <<kind, at>> \in Files
    /\ \A kind \in BothKinds : <<kind, Nowhere>> \notin Files
BY Clocks DEF Files, BothKinds, InNames

\* What is about to be done, and what is left after that.
LEMMA NextInPlan ==
    ASSUME FilesInv, todo # <<>>
    PROVE  \E i \in 1..Len(Script(driver)) :
              /\ Head(todo) = Script(driver)[i]
              /\ Tail(todo) = SubSeq(Script(driver), i + 1, Len(Script(driver)))
              /\ Tail(todo) # <<>> => i + 1 <= Len(Script(driver))
              /\ i > 1 => files[<<"json", stamp>>] \in {test, Torn}
              /\ i > 2 => files[<<"md", stamp>>] \in {test, Torn}
              /\ todo = SubSeq(Script(driver), i, Len(Script(driver)))
<1> DEFINE S == Script(driver)
<1>1. S \in Seq(StepNames) BY Plans DEF FilesInv, FilesTypes
<1>2. PICK i \in 1..Len(S) : /\ todo = SubSeq(S, i, Len(S))
                             /\ i > 1 => files[<<"json", stamp>>] \in {test, Torn}
                             /\ i > 2 => files[<<"md", stamp>>] \in {test, Torn}
  BY DEF FilesInv, Busy, Planned
<1> HIDE DEF S
<1>3. Head(todo) = S[i] BY <1>1, <1>2
<1>4. Tail(todo) = SubSeq(S, i + 1, Len(S)) BY <1>1, <1>2
<1>5. Tail(todo) # <<>> => i + 1 <= Len(S) BY <1>1, <1>2, <1>4
<1> QED BY <1>2, <1>3, <1>4, <1>5 DEF S

\* A write changes the file it names or, through a link, the one that the link
\* names.
LEMMA PutChangesTarget ==
    ASSUME FilesInv, NEW g, NEW x \in Nat, Put(g, x)
    PROVE  /\ files' \in [Files -> Nat]
           /\ \A f \in Files : files'[f] = IF f = Target(g) THEN x ELSE files[f]
BY DEF Put, FilesInv, FilesTypes


\* A kind of report and a name for it.
LEMMA Destinations ==
    \A step \in StepNames :
        /\ Kind(step) \in BothKinds
        /\ Dest(step) = <<Kind(step), IF step \in {"json", "md"} THEN stamp ELSE Latest>>
        /\ step = "json" => Kind(step) = "json"
        /\ step = "md" => Kind(step) = "md"
        /\ step \in LatestSteps => step \notin {"json", "md"}
BY DEF StepNames, Kind, Dest, BothKinds, LatestSteps

\* A name with a time in it is no link.
LEMMA TimedIsNoLink ==
    ASSUME FilesInv, NEW kind \in BothKinds
    PROVE  Target(<<kind, stamp>>) = <<kind, stamp>> /\ <<kind, stamp>> \in Files
<1>1. stamp \in InNames /\ stamp # Latest
  BY Clocks DEF FilesInv, FilesTypes, InNames
<1>2. <<kind, stamp>> \notin DOMAIN links BY <1>1 DEF FilesInv, FilesTypes
<1> QED BY <1>1, <1>2, NamesOfFiles DEF Target

\* The tests that are told of are no later than this one, and a torn file is
\* taken for later than all of them.
LEMMA ToldEarlier ==
    ASSUME FilesInv
    PROVE  /\ test \in Nat /\ test <= MaxTests /\ Torn \in Nat /\ Torn > test
           /\ \A kind \in BothKinds : \A x \in {test, Torn} : told[kind] \in Nat /\ told[kind] <= x
BY Clocks DEF FilesInv, FilesTypes

\* Both files of this test are there, or were cut off, when the latest report is
\* written; then it is a copy of them or a link to them.
LEMMA LatestWritten ==
    ASSUME FilesInv, Save, Head(todo) \in LatestSteps
    PROVE  /\ Head(todo) \in StepNames
           /\ \A kind \in BothKinds : files[<<kind, stamp>>] \in {test, Torn}
           /\ \/ \E x \in {test, Torn} : Put(Dest(Head(todo)), x) /\ UNCHANGED links
              \/ \E target \in {stamp, Nowhere} : NewLink(Head(todo), target)
<1>1. PICK i \in 1..Len(Script(driver)) :
           /\ Head(todo) = Script(driver)[i]
           /\ i > 1 => files[<<"json", stamp>>] \in {test, Torn}
           /\ i > 2 => files[<<"md", stamp>>] \in {test, Torn}
  BY NextInPlan DEF Save
<1>2. Script(driver) \in Seq(StepNames) /\ Script(driver)[1] = "json" /\ Script(driver)[2] = "md"
  BY Plans DEF FilesInv, FilesTypes
<1>3. Head(todo) \in StepNames BY <1>1, <1>2
<1>4. i # 1 /\ i # 2 BY <1>1, <1>2 DEF LatestSteps
<1>5. i > 1 /\ i > 2 BY <1>4
<1>6. \A kind \in BothKinds : files[<<kind, stamp>>] \in {test, Torn} BY <1>1, <1>5 DEF BothKinds
<1>7. Kind(Head(todo)) \in BothKinds BY <1>3, Destinations
<1>8. CopyToLatest(Head(todo)) \/ (\E target \in {stamp, Nowhere} : NewLink(Head(todo), target))
  BY DEF Save, SaveStep, LinkLatest, LatestSteps
<1> QED BY <1>3, <1>6, <1>7, <1>8 DEF CopyToLatest

\* The step that saves a report under its time leaves it there.
LEMMA SourceWritten ==
    ASSUME FilesInv, Save, NEW kind \in BothKinds, Head(todo) = kind
    PROVE  files'[<<kind, stamp>>] = test
<1>1. Put(<<kind, stamp>>, test)
  BY DEF Save, SaveStep, SaveReport, SaveMarkdownReport, BothKinds
<1>2. test \in Nat BY ToldEarlier
<1> QED BY <1>1, <1>2, TimedIsNoLink, PutChangesTarget

\* What a step of saving does: it writes the report of this test, or a part of
\* it, under a name of this test or as the latest, or it makes a link.
LEMMA SavingWrites ==
    ASSUME FilesInv, Save \/ SaveFails \/ Die
    PROVE  \/ UNCHANGED <<files, links>>
           \/ UNCHANGED files /\ Save /\ Head(todo) \in LatestSteps
              /\ \E target \in {stamp, Nowhere} : NewLink(Head(todo), target)
           \/ /\ UNCHANGED links
              /\ todo # <<>> /\ Head(todo) \in LatestSteps \cup {"json", "md"}
              /\ \E x \in {test, Torn} : Put(Dest(Head(todo)), x)
<1>1. CASE SaveFails \/ Die
  BY <1>1 DEF SaveFails, Die, CutOff
<1>2. CASE Save
  <2>1. PICK i \in 1..Len(Script(driver)) :
             /\ Head(todo) = Script(driver)[i]
             /\ i > 1 => files[<<"json", stamp>>] \in {test, Torn}
             /\ i > 2 => files[<<"md", stamp>>] \in {test, Torn}
    BY <1>2, NextInPlan DEF Save
  <2>2. Script(driver) \in Seq(StepNames) /\ Len(Script(driver)) >= 2
        /\ Script(driver)[1] = "json" /\ Script(driver)[2] = "md"
        /\ \A j \in 3..Len(Script(driver)) : Script(driver)[j] \in LatestSteps \cup {"individual"}
    BY Plans DEF FilesInv, FilesTypes
  <2>3. Head(todo) \in StepNames BY <2>1, <2>2
  <2>4. CASE Head(todo) = "json"
    <3>1. Dest("json") = <<"json", stamp>> BY DEF Dest, Kind
    <3> QED BY <1>2, <2>4, <3>1 DEF Save, SaveStep, SaveReport
  <2>5. CASE Head(todo) = "md"
    <3>1. Dest("md") = <<"md", stamp>> BY DEF Dest, Kind
    <3> QED BY <1>2, <2>5, <3>1 DEF Save, SaveStep, SaveMarkdownReport
  <2>6. CASE Head(todo) = "individual"
    BY <1>2, <2>6 DEF Save, SaveStep, SaveIndividualConfigReports
  <2>7. CASE Head(todo) \in LatestSteps
    <3>1. \/ \E x \in {test, Torn} : Put(Dest(Head(todo)), x) /\ UNCHANGED links
          \/ \E target \in {stamp, Nowhere} : NewLink(Head(todo), target)
      BY <1>2, <2>7, LatestWritten
    <3> QED BY <1>2, <2>7, <3>1 DEF NewLink, Save
  <2> QED BY <2>3, <2>4, <2>5, <2>6, <2>7 DEF StepNames, LatestSteps
<1> QED BY <1>1, <1>2

\* A write of this report, or of a part of it, keeps the types and the promise
\* about what is read as the latest.
LEMMA WriteKeeps ==
    ASSUME FilesInv, NEW g, NEW x \in {test, Torn}, Put(g, x), UNCHANGED <<links, test>>
    PROVE  /\ files' \in [Files -> Nat]
           /\ \A f \in Files : files'[f] = files[f] \/ files'[f] = x
           /\ \A kind \in BothKinds : Target(<<kind, Latest>>)' \in Files
                 => files'[Target(<<kind, Latest>>)'] >= told[kind]
<1>1. x \in Nat BY ToldEarlier
<1>2. files' \in [Files -> Nat] /\ \A f \in Files : files'[f] = files[f] \/ files'[f] = x
  BY <1>1, PutChangesTarget
<1>3. \A kind \in BothKinds : Target(<<kind, Latest>>)' = Target(<<kind, Latest>>) BY DEF Target
<1>4. ASSUME NEW kind \in BothKinds, Target(<<kind, Latest>>) \in Files
      PROVE  files'[Target(<<kind, Latest>>)] >= told[kind]
  <2>1. files[Target(<<kind, Latest>>)] >= told[kind]
    BY <1>4 DEF FilesInv, LatestTellsTheLast, BothKinds
  <2>2. files[Target(<<kind, Latest>>)] \in Nat BY <1>4 DEF FilesInv, FilesTypes
  <2> QED BY <1>2, <1>4, <2>1, <2>2, ToldEarlier
<1> QED BY <1>2, <1>3, <1>4

\* A step of saving leaves the rest of the plan.
LEMMA SavingKeepsPlan == ASSUME FilesInv, Save \/ SaveFails \/ Die PROVE Busy'
<1>1. /\ UNCHANGED <<driver, stamp, test, watcher>>
      /\ UNCHANGED files \/ \E g, x : x \in {test, Torn} /\ Put(g, x) /\ UNCHANGED <<links, test>>
  BY SavingWrites DEF Save, SaveFails, Die, CutOff
<1>2. \A f \in Files : files[f] \in {test, Torn} => files'[f] \in {test, Torn}
  BY <1>1, WriteKeeps
<1>3. <<"json", stamp>> \in Files /\ <<"md", stamp>> \in Files
  BY TimedIsNoLink DEF BothKinds
<1> SUFFICES ASSUME todo' # <<>> PROVE watcher' = "saving" /\ Planned' BY DEF Busy
<1>4. todo # <<>> BY DEF Save, SaveFails, Die
<1>5. watcher' = "saving" BY <1>1, <1>4 DEF FilesInv, Busy
<1>6. PICK i \in 1..Len(Script(driver)) :
           /\ Head(todo) = Script(driver)[i]
           /\ Tail(todo) = SubSeq(Script(driver), i + 1, Len(Script(driver)))
           /\ Tail(todo) # <<>> => i + 1 <= Len(Script(driver))
           /\ i > 1 => files[<<"json", stamp>>] \in {test, Torn}
           /\ i > 2 => files[<<"md", stamp>>] \in {test, Torn}
           /\ todo = SubSeq(Script(driver), i, Len(Script(driver)))
  BY <1>4, NextInPlan
<1>7. Script(driver)[1] = "json" /\ Script(driver)[2] = "md" /\ Len(Script(driver)) \in Nat
  BY Plans DEF FilesInv, FilesTypes
<1>8. CASE Die
  BY <1>1, <1>2, <1>3, <1>6, <1>5, <1>8 DEF Die, Planned
<1>9. CASE Save \/ SaveFails
  <2>1. todo' = Tail(todo) /\ (Save \/ Head(todo) \notin {"json", "md"})
    BY <1>9 DEF Save, SaveFails
  <2>2. files'[<<"json", stamp>>] \in {test, Torn}
    <3>1. CASE i = 1
      <4>1. Head(todo) = "json" /\ Save BY <1>6, <1>7, <2>1, <3>1
      <4> QED BY <4>1, SourceWritten DEF BothKinds
    <3>2. CASE i > 1 BY <1>2, <1>3, <1>6, <3>2
    <3> QED BY <3>1, <3>2
  <2>3. i > 1 => files'[<<"md", stamp>>] \in {test, Torn}
    <3>1. CASE i = 2
      <4>1. Head(todo) = "md" /\ Save BY <1>6, <1>7, <2>1, <3>1
      <4> QED BY <4>1, SourceWritten DEF BothKinds
    <3>2. CASE i > 2 BY <1>2, <1>3, <1>6, <3>2
    <3> QED BY <3>1, <3>2
  <2>4. i + 1 \in 1..Len(Script(driver))
    <3>1. Tail(todo) # <<>> BY <2>1
    <3>2. i + 1 <= Len(Script(driver)) BY <1>6, <3>1
    <3>3. Len(Script(driver)) \in Nat BY <1>7
    <3> QED BY <3>2, <3>3
  <2>5. /\ todo' = SubSeq(Script(driver), i + 1, Len(Script(driver)))
        /\ i + 1 > 1 => files'[<<"json", stamp>>] \in {test, Torn}
        /\ i + 1 > 2 => files'[<<"md", stamp>>] \in {test, Torn}
    BY <1>6, <2>1, <2>2, <2>3
  <2>6. driver' = driver /\ stamp' = stamp /\ test' = test BY <1>1
  <2> QED BY <1>5, <2>4, <2>5, <2>6 DEF Planned
<1> QED BY <1>8, <1>9

\* The latest report is what was told of, and no test was told of before it began.
LEMMA SavingTells ==
    ASSUME FilesInv, Save \/ SaveFails \/ Die
    PROVE  FilesTypes' /\ LatestTellsTheLast'
<1>1. UNCHANGED <<driver, clock, stamp, test>> BY DEF Save, SaveFails, Die, CutOff
<1>2. files' \in [Files -> Nat]
  <2>1. CASE UNCHANGED files BY <2>1 DEF FilesInv, FilesTypes
  <2>2. CASE UNCHANGED links /\ \E x \in {test, Torn} : Put(Dest(Head(todo)), x)
    BY <1>1, <2>2, WriteKeeps
  <2> QED BY <2>1, <2>2, SavingWrites
<1>3. CASE ~(Save /\ Head(todo) \in LatestSteps)
  <2>1. UNCHANGED <<links, told>>
        /\ (UNCHANGED files \/ \E g, x : x \in {test, Torn} /\ Put(g, x))
    BY <1>3, SavingWrites DEF Save, SaveFails, Die, CutOff
  <2>2. \A kind \in BothKinds : Target(<<kind, Latest>>)' \in Files
           => files'[Target(<<kind, Latest>>)'] >= told[kind]
    BY <1>1, <2>1, WriteKeeps DEF FilesInv, LatestTellsTheLast, BothKinds, Target
  <2> QED BY <1>1, <1>2, <2>1, <2>2 DEF FilesInv, FilesTypes, LatestTellsTheLast, BothKinds
<1>4. CASE Save /\ Head(todo) \in LatestSteps
  <2>1. Head(todo) \in StepNames /\ \A kind \in BothKinds : files[<<kind, stamp>>] \in {test, Torn}
    BY <1>4, LatestWritten
  <2>2. PICK mine \in BothKinds : mine = Kind(Head(todo)) /\ Dest(Head(todo)) = <<mine, Latest>>
    BY <1>4, <2>1, Destinations
  <2>3. told' = [told EXCEPT ![mine] = test] BY <1>4, <2>2 DEF Save
  <2>4. told' \in [BothKinds -> Nat] /\ told'[mine] = test
        /\ \A kind \in BothKinds : kind # mine => told'[kind] = told[kind]
    BY <2>2, <2>3, ToldEarlier DEF FilesInv, FilesTypes
  <2>5. \A kind \in BothKinds : told'[kind] <= test' BY <1>1, <2>4, ToldEarlier
  <2>6. CASE \E x \in {test, Torn} : Put(Dest(Head(todo)), x) /\ UNCHANGED links
    <3>1. PICK x \in {test, Torn} : Put(<<mine, Latest>>, x) BY <2>2, <2>6
    <3>2. \A kind \in BothKinds : Target(<<kind, Latest>>)' \in Files
             => files'[Target(<<kind, Latest>>)'] >= told[kind]
      BY <1>1, <2>6, <3>1, WriteKeeps
    <3>3. Target(<<mine, Latest>>)' = Target(<<mine, Latest>>) BY <2>6 DEF Target
    <3>4. x \in Nat /\ x >= test BY <3>1, ToldEarlier
    <3>5. Target(<<mine, Latest>>)' \in Files => files'[Target(<<mine, Latest>>)'] >= test
      BY <3>1, <3>3, <3>4, PutChangesTarget
    <3>6. LatestTellsTheLast' BY <2>4, <3>2, <3>5 DEF LatestTellsTheLast, BothKinds
    <3> QED BY <1>1, <1>2, <2>4, <2>5, <2>6, <3>6 DEF FilesInv, FilesTypes
  <2>7. CASE \E target \in {stamp, Nowhere} : NewLink(Head(todo), target)
    <3>1. PICK target \in {stamp, Nowhere} : NewLink(Head(todo), target) BY <2>7
    <3>2. links' = [f \in DOMAIN links \cup {<<mine, Latest>>} |->
                      IF f = <<mine, Latest>> THEN <<mine, target>> ELSE links[f]]
          /\ files' = files
      BY <2>2, <3>1 DEF NewLink
    <3>3. Target(<<mine, Latest>>)' = <<mine, target>>
          /\ \A kind \in BothKinds : kind # mine
                => Target(<<kind, Latest>>)' = Target(<<kind, Latest>>)
      BY <3>2 DEF Target
    <3>4. <<mine, target>> \in Files => files[<<mine, target>>] >= test
      BY <2>1, <2>2, <3>1, NamesOfFiles, ToldEarlier
    <3>5. \A kind \in BothKinds : Target(<<kind, Latest>>)' \in Files
             => files'[Target(<<kind, Latest>>)'] >= told'[kind]
      BY <2>4, <3>2, <3>3, <3>4 DEF FilesInv, LatestTellsTheLast, BothKinds
    <3>6. LatestTellsTheLast' BY <3>5 DEF LatestTellsTheLast, BothKinds
    <3>7. stamp \in InNames BY DEF FilesInv, FilesTypes
    <3>8. /\ DOMAIN links' \subseteq BothKinds \X {Latest}
          /\ \A l \in DOMAIN links' : links'[l] \in {l[1]} \X (InNames \cup {Nowhere})
      BY <2>2, <3>1, <3>2, <3>7 DEF FilesInv, FilesTypes
    <3> QED BY <1>1, <1>2, <2>4, <2>5, <3>6, <3>8 DEF FilesInv, FilesTypes
  <2> QED BY <1>4, <2>6, <2>7, LatestWritten
<1> QED BY <1>3, <1>4

\* Saving and everything else keep FilesInv.
LEMMA FilesKept == FilesInv /\ [ReportsNext]_repoVars => FilesInv'
<1> SUFFICES ASSUME FilesInv, [ReportsNext]_repoVars PROVE FilesInv' OBVIOUS
<1>1. ASSUME UNCHANGED <<files, links, told>>, driver' \in Drivers, clock' \in 0..MaxClock,
             stamp' \in InNames, test' \in {test, test + 1}, test' <= MaxTests, Busy'
      PROVE  FilesInv'
  <2>1. LatestTellsTheLast' BY <1>1 DEF FilesInv, LatestTellsTheLast, Target
  <2>2. test' \in 0..MaxTests /\ \A kind \in BothKinds : told'[kind] <= test'
    BY <1>1, ToldEarlier, Clocks
  <2> QED BY <1>1, <2>1, <2>2 DEF FilesInv, FilesTypes
<1>2. test \in Nat /\ test <= MaxTests /\ MaxTests \in Nat BY ToldEarlier, Clocks
<1>3. CASE Begin
  <2>1. todo' = <<>> BY <1>3 DEF Begin, FilesInv, Busy
  <2>2. test' <= MaxTests BY <1>2, <1>3 DEF Begin
  <2> QED BY <1>1, <1>3, <2>1, <2>2 DEF Begin, FilesInv, FilesTypes, Busy, InNames
<1>4. CASE LoadFails \/ Saved \/ Quit
  <2>1. todo' = <<>> BY <1>4 DEF LoadFails, Saved, Quit, FilesInv, Busy
  <2>2. 0 \in InNames BY Clocks DEF InNames
  <2> QED BY <1>1, <1>2, <1>4, <2>1, <2>2
          DEF LoadFails, Saved, Quit, FilesInv, FilesTypes, Busy
<1>5. CASE NextProcess
  <2>1. driver' \in Drivers BY <1>5 DEF NextProcess, Sharing, Drivers, FilesInv, FilesTypes
  <2>2. 0 \in InNames BY Clocks DEF InNames
  <2> QED BY <1>1, <1>2, <1>5, <2>1, <2>2 DEF NextProcess, FilesInv, FilesTypes, Busy
<1>6. CASE TestStep \/ StopReturns \/ Stop \/ ContextCancelled \/ Tick
           \/ UNCHANGED repoVars
  <2>1. UNCHANGED <<driver, test, stamp, todo, files, links, told>>
        /\ (watcher' = watcher)
    BY <1>6 DEF TestStep, StopReturns, Stop, ContextCancelled, Tick, ownVars, repoVars
  <2>2. Busy' BY <2>1 DEF FilesInv, Busy, Planned
  <2>3. clock' \in 0..MaxClock
    BY <1>6, Clocks DEF TestStep, StopReturns, Stop, ContextCancelled, Tick, ownVars, repoVars,
                        FilesInv, FilesTypes
  <2> QED BY <1>1, <1>2, <2>1, <2>2, <2>3 DEF FilesInv, FilesTypes
<1>7. CASE Report
  <2>1. Script(driver) \in Seq(StepNames) /\ Len(Script(driver)) >= 2
    BY Plans DEF FilesInv, FilesTypes
  <2>2. Script(driver) = SubSeq(Script(driver), 1, Len(Script(driver))) BY <2>1
  <2>3. 1 \in 1..Len(Script(driver)) BY <2>1
  <2>4. todo' = Script(driver) /\ driver' = driver /\ watcher' = "saving" BY <1>7 DEF Report
  <2>5. Planned' BY <2>2, <2>3, <2>4 DEF Planned
  <2>6. Busy' BY <2>4, <2>5 DEF Busy
  <2>7. stamp' \in InNames BY <1>7 DEF Report, InNames, FilesInv, FilesTypes
  <2> QED BY <1>1, <1>2, <1>7, <2>6, <2>7 DEF Report, FilesInv, FilesTypes
<1>8. CASE Save \/ SaveFails \/ Die BY <1>8, SavingKeepsPlan, SavingTells DEF FilesInv
<1> QED BY <1>3, <1>4, <1>5, <1>6, <1>7, <1>8 DEF ReportsNext, Goroutine

\* Nothing is written, linked or told of at the start.
LEMMA FilesStart == ReportsInit => FilesInv
<1> SUFFICES ASSUME ReportsInit PROVE FilesInv OBVIOUS
<1>1. FilesTypes BY Clocks DEF ReportsInit, FilesTypes, BothKinds, InNames, Files
<1>2. LatestTellsTheLast
  BY DEF ReportsInit, LatestTellsTheLast
<1> QED BY <1>1, <1>2 DEF FilesInv, Busy, ReportsInit

\* For all drivers of a directory, in whatever order their processes follow each
\* other: a saved report is replaced, by the report of the test that runs or a
\* part of it, within its second or through the link that was made to it.
THEOREM ReportsStay == ReportsSpec => SavedReportsStay
<1> DEFINE A == \A f \in Files : f[2] <= MaxClock /\ files[f] # 0 /\ files'[f] # files[f] =>
                    /\ files'[f] \in {test, Torn}
                    /\ \/ stamp = f[2]
                       \/ \E l \in DOMAIN links : l[2] = Latest /\ links[l] = f /\ links' = links
<1>1. FilesInv /\ [ReportsNext]_repoVars => [A]_repoVars
  <2> SUFFICES ASSUME FilesInv, ReportsNext, NEW f \in Files,
                      f[2] <= MaxClock, files'[f] # files[f]
               PROVE  /\ files'[f] \in {test, Torn}
                      /\ \/ stamp = f[2]
                         \/ \E l \in DOMAIN links : l[2] = Latest /\ links[l] = f /\ links' = links
    OBVIOUS
  <2>1. Save \/ SaveFails \/ Die
    BY DEF ReportsNext, NextProcess, Goroutine, Begin, LoadFails, TestStep, Report, Saved, Stop,
           Quit, StopReturns, Tick, ContextCancelled, ownVars
  <2>2. links' = links /\ todo # <<>> /\ \E x \in {test, Torn} : Put(Dest(Head(todo)), x)
    BY <2>1, SavingWrites
  <2>3. PICK x \in {test, Torn} : Put(Dest(Head(todo)), x) BY <2>2
  <2>4. x \in Nat BY ToldEarlier
  <2>5. f = Target(Dest(Head(todo))) /\ files'[f] = x BY <2>3, <2>4, PutChangesTarget
  <2>6. CASE Dest(Head(todo)) \in DOMAIN links
    <3>1. links[Dest(Head(todo))] = f BY <2>5, <2>6 DEF Target
    <3>2. Dest(Head(todo))[2] = Latest BY <2>6 DEF FilesInv, FilesTypes
    <3> QED BY <2>2, <2>3, <2>5, <2>6, <3>1, <3>2
  <2>7. CASE Dest(Head(todo)) \notin DOMAIN links
    <3>1. f = Dest(Head(todo)) BY <2>5, <2>7 DEF Target
    <3>2. f[2] \in {stamp, Latest} BY <3>1 DEF Dest
    <3>3. f[2] # Latest BY Clocks
    <3> QED BY <2>3, <2>5, <3>2, <3>3
  <2> QED BY <2>6, <2>7
<1>2. ReportsSpec => [][A]_repoVars
  <2> HIDE DEF A
  <2> QED BY <1>1, FilesStart, FilesKept, PTL DEF ReportsSpec
<1> QED BY <1>2 DEF SavedReportsStay

\* The latest report is no older than the last one that was written as such, for
\* all drivers of the directory and with a link in between.
THEOREM LatestIsTold == ReportsSpec => []LatestTellsTheLast
<1>1. FilesInv => LatestTellsTheLast BY DEF FilesInv
<1> QED BY <1>1, FilesStart, FilesKept, PTL DEF ReportsSpec

\* What the result of a config says of its sites.
Tells(c) ==
    /\ result[c].totalTested <= Len(Sites)
    /\ \A n \in Names : result[c].sites[n].tested <=>
                           \E i \in 1..result[c].totalTested : Sites[i] = n
    /\ \A n \in Names : result[c].sites[n].success => result[c].sites[n].tested
    /\ result[c].totalSuccess <= result[c].totalTested
    /\ result[c].totalTested > 0 => result[c].valid /\ ~result[c].skipped
    /\ result[c].skipped => result[c].valid /\ pc[c] \in {"append", "gone"}
    /\ pc[c] \in {"next", "backoff", "request"} => result[c].valid

Told == \A c \in Configs : Tells(c)

\* The fields of a result.
LEMMA ResultFields ==
    ASSUME TestInv
    PROVE  \A c \in Configs :
               /\ result[c].totalTested \in Nat /\ result[c].totalSuccess \in Nat
               /\ result[c].valid \in BOOLEAN /\ result[c].skipped \in BOOLEAN
               /\ \A n \in Names : result[c].sites[n] \in SiteResults
BY DEF TestInv, Types, Results

\* An unwritten result says nothing of any site.
LEMMA UntriedFields ==
    /\ Untried \in Results
    /\ Untried.totalTested = 0 /\ Untried.totalSuccess = 0
    /\ Untried.valid = FALSE /\ Untried.skipped = FALSE
    /\ \A n \in Names : Untried.sites[n].tested = FALSE /\ Untried.sites[n].success = FALSE
<1>1. Untried.sites = [n \in Names |-> NoSite] BY DEF Untried
<1>2. \A n \in Names : Untried.sites[n] = NoSite BY <1>1
<1>3. NoSite.tested = FALSE /\ NoSite.success = FALSE BY DEF NoSite
<1>4. /\ Untried.totalTested = 0 /\ Untried.totalSuccess = 0
      /\ Untried.valid = FALSE /\ Untried.skipped = FALSE
  BY DEF Untried
<1> QED BY <1>2, <1>3, <1>4, UntriedType

\* A result that is as it was says what it said, wherever the goroutine is that
\* has left the sites.
LEMMA SameTells ==
    ASSUME NEW c \in Configs, Tells(c), result'[c] = result[c],
           \/ pc'[c] = pc[c]
           \/ pc'[c] \in {"next", "backoff", "request"} /\ pc[c] \in {"next", "backoff", "request"}
           \/ pc'[c] \in {"append", "gone"}
           \/ pc[c] \in {"new", "acquire"} /\ pc'[c] \in {"acquire", "link"}
    PROVE  Tells(c)'
BY DEF Tells

\* testSiteAccess returns: the result tells of one site more.
LEMMA SiteDoneTells ==
    ASSUME TestInv, Told, NEW c \in Configs, NEW success \in BOOLEAN,
           pc[c] \in {"request", "backoff"}, SiteDone(c, success)
    PROVE  Told'
<1> DEFINE res  == result[c]
           name == Sites[site[c]]
           mark == [tested |-> TRUE, success |-> success]
           kept == [res.sites EXCEPT ![name] = mark]
           good == IF success THEN res.totalSuccess + 1 ELSE res.totalSuccess
           more == res.totalTested + 1
           new  == [res EXCEPT !.totalTested = more, !.totalSuccess = good, !.sites = kept]
<1>1. /\ res \in Results /\ site[c] \in Nat /\ Progress(c) /\ Tells(c) /\ c \in DOMAIN result /\ c \in DOMAIN pc
      /\ res.totalTested \in Nat /\ res.totalSuccess \in Nat /\ res.sites \in [Names -> SiteResults]
      /\ res.skipped \in BOOLEAN /\ res.valid \in BOOLEAN
  BY DEF TestInv, Types, Told, Results
<1>2. site[c] <= Len(Sites) /\ site[c] = more BY <1>1 DEF Progress
<1>3. result' = [result EXCEPT ![c] = new] /\ pc' = [pc EXCEPT ![c] = "next"]
  <2>1. result' = [result EXCEPT
          ![c].totalTested = @ + 1,
          ![c].totalSuccess = IF success THEN @ + 1 ELSE @,
          ![c].sites[Sites[site[c]]] = [tested |-> TRUE, success |-> success]]
    BY DEF SiteDone
  <2> DEFINE raw == [result[c] EXCEPT
                        !.totalTested = @ + 1,
                        !.totalSuccess = IF success THEN @ + 1 ELSE @,
                        !.sites[Sites[site[c]]] = [tested |-> TRUE, success |-> success]]
  <2>2. raw = new BY <1>1 DEF Results
  <2>3. result' = [result EXCEPT ![c] = raw] BY <2>1
  <2> HIDE DEF raw, new
  <2> QED BY <2>2, <2>3 DEF SiteDone, Move
<1>4. /\ new.totalTested = more /\ new.totalSuccess = good /\ new.sites = kept
      /\ new.valid = res.valid /\ new.skipped = res.skipped
  BY <1>1 DEF Results
<1>5. result'[c] = new /\ pc'[c] = "next" BY <1>1, <1>3
<1>6. more \in 1..Len(Sites) /\ name \in Names
  BY <1>1, <1>2, SitesLen, TesterAssumption DEF Names
<1>7. \A n \in Names : kept[n] = IF n = name THEN mark ELSE res.sites[n] BY <1>1
<1>8. mark.tested = TRUE /\ mark.success = success OBVIOUS
<1>9. res.valid /\ ~res.skipped BY <1>1 DEF Tells
<1>10. good \in Nat /\ good <= more BY <1>1 DEF Tells
<1>11. \A i \in 1..more : i \in 1..res.totalTested \/ i = more BY <1>1
<1>12. \A i \in 1..res.totalTested : i \in 1..more BY <1>1
<1>13. name = Sites[more] /\ more \in 1..more BY <1>1, <1>2
<1> HIDE DEF new, kept, mark, name, good, more
<1>14. ASSUME NEW n \in Names PROVE kept[n].tested <=> \E i \in 1..more : Sites[i] = n
  <2>1. CASE n = name BY <2>1, <1>7, <1>8, <1>13
  <2>2. CASE n # name
    <3>1. kept[n].tested <=> \E i \in 1..res.totalTested : Sites[i] = n BY <2>2, <1>1, <1>7 DEF Tells
    <3> QED BY <2>2, <3>1, <1>11, <1>12, <1>13
  <2> QED BY <2>1, <2>2
<1>15. ASSUME NEW n \in Names PROVE kept[n].success => kept[n].tested
  BY <1>1, <1>7, <1>8 DEF Tells
<1>16. Tells(c)'
  <2>1. /\ result'[c].totalTested = more /\ result'[c].totalSuccess = good /\ result'[c].sites = kept
        /\ result'[c].valid = res.valid /\ result'[c].skipped = res.skipped
    BY <1>4, <1>5
  <2>2. more <= Len(Sites) BY <1>6, SitesLen
  <2> QED BY <1>5, <1>9, <1>10, <1>14, <1>15, <2>1, <2>2 DEF Tells
<1>17. ASSUME NEW d \in Configs, d # c PROVE Tells(d)'
  <2>1. result'[d] = result[d] /\ pc'[d] = pc[d] BY <1>3, <1>17 DEF TestInv, Types
  <2> QED BY <2>1, SameTells DEF Told
<1> QED BY <1>16, <1>17 DEF Told

\* A goroutine moves with its result, which goes on telling so.
LEMMA MoveTells ==
    ASSUME TestInv, Told, NEW c \in Configs, NEW to, NEW r, Move(c, to), result' = [result EXCEPT ![c] = r],
           Tells(c)'
    PROVE  Told'
<1>1. ASSUME NEW d \in Configs, d # c PROVE Tells(d)'
  <2>1. result'[d] = result[d] /\ pc'[d] = pc[d] BY <1>1 DEF TestInv, Types, Move
  <2> QED BY <2>1, SameTells DEF Told
<1> QED BY <1>1 DEF Told

\* A step of a testing goroutine: each that ends a test tells of it, and the
\* others leave what is told.
LEMMA TestingTells == TestInv /\ Told /\ Testing => Told'
<1> SUFFICES ASSUME TestInv, Told, Testing PROVE Told' OBVIOUS
<1>1. CASE UNCHANGED <<pc, result>> BY <1>1 DEF Told, Tells
<1>2. CASE Launched \/ Collected BY <1>1, <1>2 DEF Launched, Collected
<1>3. ASSUME NEW c \in Configs, Launch(c) \/ Worker(c) PROVE Told'
  <2>1. /\ Tells(c) /\ Progress(c) /\ c \in DOMAIN pc /\ c \in DOMAIN result
        /\ result[c] \in Results /\ result = [result EXCEPT ![c] = result[c]]
    BY DEF Told, TestInv, Types
  <2>2. ASSUME NEW to, Move(c, to), result' = result,
               \/ to \in {"next", "backoff", "request"} /\ pc[c] \in {"next", "backoff", "request"}
               \/ to \in {"append", "gone"}
               \/ pc[c] \in {"new", "acquire"} /\ to \in {"acquire", "link"}
        PROVE  Told'
    <3>1. pc'[c] = to /\ result'[c] = result[c] BY <2>1, <2>2 DEF Move
    <3>2. Tells(c)' BY <2>1, <2>2, <3>1, SameTells
    <3> QED BY <2>1, <2>2, <3>2, MoveTells
  <2>3. CASE Launch(c) BY <2>2, <2>3 DEF Launch
  <2>4. CASE Acquire(c) BY <2>2, <2>4 DEF Acquire
  <2>5. CASE GiveUp(c) BY <2>2, <2>5 DEF GiveUp
  <2>6. CASE NextSite(c) BY <2>2, <2>6 DEF NextSite
  <2>7. CASE AppendResult(c) BY <2>2, <2>7 DEF AppendResult
  <2>8. CASE Link(c)
    <3>1. result[c] = Untried BY <2>1, <2>8 DEF Link, Progress
    <3>2. ASSUME NEW to \in {"append", "next"}, NEW skip \in BOOLEAN, Move(c, to),
                 result' = [result EXCEPT ![c] = [Untried EXCEPT !.valid = TRUE, !.skipped = skip]],
                 skip => to = "append"
          PROVE  Told'
      <4> DEFINE q == [Untried EXCEPT !.valid = TRUE, !.skipped = skip]
      <4>1. /\ q.totalTested = 0 /\ q.totalSuccess = 0 /\ q.valid = TRUE /\ q.skipped = skip
            /\ q.sites = Untried.sites
        BY UntriedFields DEF Results
      <4>2. \A n \in Names : q.sites[n].tested = FALSE /\ q.sites[n].success = FALSE
        BY <4>1, UntriedFields
      <4>3. pc'[c] = to /\ result'[c] = q BY <2>1, <3>2 DEF Move
      <4> HIDE DEF q
      <4>4. Tells(c)' BY <4>1, <4>2, <4>3, <3>2, SitesLen DEF Tells
      <4> QED BY <4>4, <3>2, MoveTells
    <3>3. CASE Move(c, "append") /\ UNCHANGED result BY <2>2, <3>3
    <3>4. CASE Move(c, "append") /\ result' = [result EXCEPT ![c].valid = TRUE, ![c].skipped = TRUE]
      <4>1. result' = [result EXCEPT ![c] = [Untried EXCEPT !.valid = TRUE, !.skipped = TRUE]]
        BY <3>1, <3>4
      <4> QED BY <3>2, <3>4, <4>1
    <3>5. CASE Move(c, "next") /\ result' = [result EXCEPT ![c].valid = TRUE]
      <4>1. [Untried EXCEPT !.valid = TRUE] = [Untried EXCEPT !.valid = TRUE, !.skipped = FALSE]
        BY UntriedFields DEF Results
      <4>2. result' = [result EXCEPT ![c] = [Untried EXCEPT !.valid = TRUE, !.skipped = FALSE]]
        BY <3>1, <3>5, <4>1
      <4> QED BY <3>2, <3>5, <4>2
    <3> QED BY <2>8, <3>3, <3>4, <3>5 DEF Link
  <2>9. CASE BadURL(c) BY <2>9, SiteDoneTells DEF BadURL
  <2>10. CASE Request(c) BY <2>2, <2>10, SiteDoneTells DEF Request
  <2>11. CASE Backoff(c) BY <2>2, <2>11, SiteDoneTells DEF Backoff
  <2> QED BY <1>3, <2>3, <2>4, <2>5, <2>6, <2>7, <2>8, <2>9, <2>10, <2>11 DEF Worker
<1> QED BY <1>2, <1>3 DEF Testing

\* The callers of the tester, and the steps outside it.
LEMMA CallersTell == TestInv /\ Told /\ [ReportsNext]_repoVars => Told'
<1> SUFFICES ASSUME TestInv, Told, [ReportsNext]_repoVars PROVE Told' OBVIOUS
<1>1. CASE UNCHANGED <<pc, result>> BY <1>1 DEF Told, Tells
<1>2. CASE Renew
  <2>1. ASSUME NEW c \in Configs PROVE Tells(c)'
    <3>1. pc'[c] = "new" /\ result'[c] = Untried BY <1>2 DEF Renew
    <3> QED BY <3>1, UntriedFields, SitesLen DEF Tells
  <2> QED BY <2>1 DEF Told
<1>3. CASE Begin \/ LoadFails \/ Report \/ NextProcess
  BY <1>2, <1>3 DEF Begin, LoadFails, Report, NextProcess, Call, Forget, Restart
<1>4. CASE TestStep BY <1>4, TestingTells DEF TestStep
<1>5. CASE ContextCancelled BY <1>1, <1>5 DEF ContextCancelled, ContextEnds
<1>6. CASE Save \/ SaveFails \/ Saved \/ Quit \/ StopReturns \/ Stop \/ Die \/ Tick
  BY <1>1, <1>6 DEF Save, SaveFails, Saved, Quit, StopReturns, Stop, Die, Tick, CutOff, testVars
<1>7. CASE UNCHANGED repoVars BY <1>1, <1>7 DEF repoVars, testVars
<1> QED BY <1>3, <1>4, <1>5, <1>6, <1>7 DEF ReportsNext, Goroutine

\* Nothing was tested at the start, and nothing is told.
LEMMA ToldStart == ReportsInit => Told
<1> SUFFICES ASSUME ReportsInit, NEW c \in Configs PROVE Tells(c) BY DEF Told
<1>1. pc[c] = "new" /\ result[c] = Untried BY DEF ReportsInit, TestInit
<1> QED BY <1>1, UntriedFields, SitesLen DEF Tells

\* There are finitely many names.
LEMMA FiniteNames == IsFiniteSet(Names)
<1> DEFINE F == [i \in DOMAIN Sites |-> Sites[i]]
<1>1. DOMAIN Sites = 1..Len(Sites) BY TesterAssumption
<1>2. IsFiniteSet(DOMAIN Sites) BY <1>1, SitesLen, FS_Interval
<1>3. F \in Surjection(DOMAIN Sites, Names) BY DEF Surjection, Names
<1> QED BY <1>2, <1>3, FS_Surjection

\* The tests that were made, and those whose result the maps have kept: the
\* first site of a name stands for the one kept.
MadeOf == [c \in Configs |-> 1..result[c].totalTested]
KeptOf == [n \in Names |-> {c \in results : result[c].sites[n].tested}]
FirstOf(p) == <<p[2], CHOOSE i \in 1..result[p[2]].totalTested : Sites[i] = p[1]>>

\* Each test the statistics of a site keep was made, by one test of a config:
\* the first at which it met the name of the site.
LEMMA KeptWereMade ==
    ASSUME TestInv, Told
    PROVE  LET Made == PairsOf(MadeOf, results)
               Kept == PairsOf(KeptOf, Names)
               F    == [p \in Kept |-> FirstOf(p)]
           IN  /\ F \in Injection(Kept, Made)
               /\ (\A c \in results : \A i, j \in 1..result[c].totalTested :
                      Sites[i] = Sites[j] => i = j) => F \in Surjection(Kept, Made)
<1> DEFINE Made == PairsOf(MadeOf, results)
           Kept == PairsOf(KeptOf, Names)
           F    == [p \in Kept |-> FirstOf(p)]
<1>1. results \subseteq Configs BY DEF TestInv, Types
<1>2. \A c \in results : Tells(c) /\ MadeOf[c] = 1..result[c].totalTested BY <1>1 DEF Told, MadeOf
<1>3. ASSUME NEW p \in Kept
      PROVE  /\ p = <<p[1], p[2]>> /\ p[1] \in Names /\ p[2] \in results /\ result[p[2]].sites[p[1]].tested
  <2>1. PICK n \in Names : p \in {n} \X KeptOf[n] BY DEF PairsOf
  <2>2. p[1] = n /\ p[2] \in KeptOf[n] /\ p = <<p[1], p[2]>> BY <2>1
  <2> QED BY <2>2 DEF KeptOf
<1>4. ASSUME NEW n \in Names, NEW c \in results, result[c].sites[n].tested PROVE <<n, c>> \in Kept
  <2>1. c \in KeptOf[n] BY <1>4 DEF KeptOf
  <2>2. <<n, c>> \in {n} \X KeptOf[n] BY <2>1
  <2> QED BY <2>2 DEF PairsOf
<1>5. ASSUME NEW c \in results, NEW i \in 1..result[c].totalTested PROVE <<c, i>> \in Made
  <2>1. <<c, i>> \in {c} \X MadeOf[c] BY <1>2
  <2> QED BY <2>1 DEF PairsOf
<1>6. ASSUME NEW q \in Made
      PROVE  q = <<q[1], q[2]>> /\ q[1] \in results /\ q[2] \in 1..result[q[1]].totalTested
  <2>1. PICK c \in results : q \in {c} \X MadeOf[c] BY DEF PairsOf
  <2>2. q[1] = c /\ q[2] \in MadeOf[c] /\ q = <<q[1], q[2]>> BY <2>1
  <2> QED BY <2>2, <1>2
<1>7. ASSUME NEW p \in Kept
      PROVE  /\ F[p] \in Made /\ F[p] = <<p[2], F[p][2]>>
             /\ F[p][2] \in 1..result[p[2]].totalTested /\ Sites[F[p][2]] = p[1]
  <2> DEFINE i == CHOOSE i \in 1..result[p[2]].totalTested : Sites[i] = p[1]
  <2>1. p[1] \in Names /\ p[2] \in results /\ result[p[2]].sites[p[1]].tested BY <1>3
  <2>2. \E j \in 1..result[p[2]].totalTested : Sites[j] = p[1] BY <1>2, <2>1 DEF Tells
  <2>3. i \in 1..result[p[2]].totalTested /\ Sites[i] = p[1] BY <2>2
  <2>4. F[p] = <<p[2], i>> BY DEF FirstOf
  <2> HIDE DEF i, F
  <2> QED BY <1>5, <2>1, <2>3, <2>4
<1>8. F \in Injection(Kept, Made)
  <2>1. F \in [Kept -> Made] BY <1>7
  <2>2. ASSUME NEW p \in Kept, NEW q \in Kept, F[p] = F[q] PROVE p = q
    <3>1. /\ p[2] = q[2] /\ p[1] = q[1]
      <4> HIDE DEF F, Kept, Made
      <4>1. F[p] = <<p[2], F[p][2]>> /\ F[q] = <<q[2], F[q][2]>> BY <1>7
      <4>2. p[2] = q[2] /\ F[p][2] = F[q][2] BY <4>1, <2>2
      <4>3. Sites[F[p][2]] = p[1] /\ Sites[F[q][2]] = q[1] BY <1>7
      <4> QED BY <4>2, <4>3
    <3>2. p = <<p[1], p[2]>> /\ q = <<q[1], q[2]>> BY <1>3
    <3> QED BY <3>1, <3>2
  <2> HIDE DEF F, Kept, Made
  <2> QED BY <2>1, <2>2, Fun_IsInj
<1>9. ASSUME \A c \in results : \A i, j \in 1..result[c].totalTested : Sites[i] = Sites[j] => i = j
      PROVE  F \in Surjection(Kept, Made)
  <2>1. ASSUME NEW q \in Made PROVE \E p \in Kept : F[p] = q
    <3>1. q = <<q[1], q[2]>> /\ q[1] \in results /\ q[2] \in 1..result[q[1]].totalTested BY <1>6
    <3> DEFINE n == Sites[q[2]]
               p == <<n, q[1]>>
    <3>2. n \in Names
      <4>1. q[1] \in Configs /\ result[q[1]].totalTested \in Nat /\ result[q[1]].totalTested <= Len(Sites)
        BY <1>1, <1>2, <3>1, ResultFields DEF Tells
      <4>2. q[2] \in 1..Len(Sites) BY <3>1, <4>1, SitesLen
      <4> QED BY <4>2, TesterAssumption DEF Names
    <3>3. result[q[1]].sites[n].tested BY <1>2, <3>1, <3>2 DEF Tells
    <3>4. p \in Kept BY <1>4, <3>1, <3>2, <3>3
    <3>5. p[2] = q[1] /\ p[1] = n OBVIOUS
    <3>6. F[p] = <<q[1], F[p][2]>> /\ F[p][2] \in 1..result[q[1]].totalTested /\ Sites[F[p][2]] = n
      <4> HIDE DEF F, Kept, Made, p
      <4> QED BY <1>7, <3>4, <3>5
    <3>7. F[p][2] = q[2] BY <1>9, <3>1, <3>6
    <3> QED BY <3>1, <3>4, <3>6, <3>7
  <2>2. F \in [Kept -> Made] BY <1>7
  <2> HIDE DEF F, Kept, Made
  <2> QED BY <2>1, <2>2, Fun_IsSurj
<1> QED BY <1>8, <1>9

\* A report adds up: no config counts twice, and each test made is in the
\* statistics of its site once, if no two sites tested share a name.
THEOREM ReportsAddUp == ReportsSpec => []ReportAddsUp
<1>1. TestInv /\ Told => ReportAddsUp
  <2> SUFFICES ASSUME TestInv, Told PROVE ReportAddsUp OBVIOUS
  <2> DEFINE V == {c \in results : result[c].valid}
             T == {c \in results : result[c].totalTested > 0}
             W == {c \in results : result[c].totalSuccess > 0}
             K == {c \in results : result[c].skipped}
             m == [c \in results |-> result[c].totalTested]
             k == [n \in Names |-> SiteTested(n)]
             Made == PairsOf(MadeOf, results)
             Kept == PairsOf(KeptOf, Names)
             F    == [p \in Kept |-> FirstOf(p)]
  <2>1. results \subseteq Configs /\ IsFiniteSet(results)
    <3>1. results \in SUBSET Configs BY DEF TestInv, Types
    <3>2. IsFiniteSet(Configs) BY TesterAssumption
    <3> QED BY <3>1, <3>2, FS_Subset
  <2>2. \A c \in results : Tells(c) BY <2>1 DEF Told
  <2>3. \A c \in results : result[c].totalTested \in Nat /\ result[c].totalSuccess \in Nat
    BY <2>1, ResultFields
  <2>4. IsFiniteSet(V) /\ IsFiniteSet(T) /\ IsFiniteSet(K) BY <2>1, FS_Subset
  <2>5. WorkingConfigs <= TestedConfigs
    <3>1. W \in SUBSET T BY <2>2, <2>3 DEF Tells
    <3>2. Cardinality(W) <= Cardinality(T) BY <2>4, <3>1, FS_Subset
    <3> QED BY <3>2 DEF WorkingConfigs, TestedConfigs
  <2>6. TestedConfigs + SkippedConfigs <= ValidConfigs
    <3>1. T \cup K \in SUBSET V /\ T \cap K = {} BY <2>2 DEF Tells
    <3> HIDE DEF T, K, V
    <3>2. Cardinality(T \cup K) = Cardinality(T) + Cardinality(K) - Cardinality(T \cap K)
      BY <2>4, FS_Union
    <3>3. Cardinality(T \cap K) = 0 BY <3>1, FS_EmptySet
    <3>4. Cardinality(T) \in Nat /\ Cardinality(K) \in Nat BY <2>4, FS_CardinalityType
    <3>5. Cardinality(T \cup K) <= Cardinality(V) BY <2>4, <3>1, FS_Subset
    <3>6. Cardinality(T) + Cardinality(K) <= Cardinality(V) BY <3>2, <3>3, <3>4, <3>5
    <3> QED BY <3>6 DEF TestedConfigs, SkippedConfigs, ValidConfigs, T, K, V
  <2>7. ASSUME NEW n \in Names PROVE SiteSuccess(n) <= SiteTested(n)
    <3> DEFINE A == {c \in results : result[c].sites[n].success}
               B == {c \in results : result[c].sites[n].tested}
    <3>1. A \in SUBSET B BY <2>2 DEF Tells
    <3>2. IsFiniteSet(B) BY <2>1, FS_Subset
    <3>3. Cardinality(A) <= Cardinality(B) BY <3>1, <3>2, FS_Subset
    <3> QED BY <3>3 DEF SiteSuccess, SiteTested
  <2>8. IsFiniteSet(Made) /\ SumFunction(m) = Cardinality(Made)
    <3>1. ASSUME NEW c \in results
          PROVE  IsFiniteSet(MadeOf[c]) /\ Cardinality(MadeOf[c]) = result[c].totalTested
      <4>1. MadeOf[c] = 1..result[c].totalTested BY <2>1 DEF MadeOf
      <4>2. /\ IsFiniteSet(1..result[c].totalTested)
            /\ Cardinality(1..result[c].totalTested) =
                  IF 1 > result[c].totalTested THEN 0 ELSE result[c].totalTested - 1 + 1
        BY <2>3, FS_Interval
      <4> QED BY <4>1, <4>2, <2>3
    <3>2. m = [c \in results |-> Cardinality(MadeOf[c])] BY <3>1
    <3> HIDE DEF m
    <3> QED BY <2>1, <3>1, <3>2, SumOfSizes
  <2>9. IsFiniteSet(Kept) /\ SumFunction(k) = Cardinality(Kept)
    <3>1. ASSUME NEW n \in Names
          PROVE  IsFiniteSet(KeptOf[n]) /\ Cardinality(KeptOf[n]) = SiteTested(n)
      <4>1. KeptOf[n] = {c \in results : result[c].sites[n].tested} BY DEF KeptOf
      <4>2. KeptOf[n] \in SUBSET results BY <4>1
      <4>3. IsFiniteSet(KeptOf[n]) BY <2>1, <4>2, FS_Subset
      <4> QED BY <4>1, <4>3 DEF SiteTested
    <3>2. k = [n \in Names |-> Cardinality(KeptOf[n])] BY <3>1
    <3> HIDE DEF k
    <3> QED BY <3>1, <3>2, FiniteNames, SumOfSizes
  <2>10. F \in Injection(Kept, Made) BY KeptWereMade
  <2>11. (\A c \in results : \A i, j \in 1..result[c].totalTested : Sites[i] = Sites[j] => i = j)
            => F \in Surjection(Kept, Made)
    BY KeptWereMade
  <2> HIDE DEF Kept, Made, F, m, k
  <2>12. Cardinality(Kept) <= Cardinality(Made) BY <2>8, <2>10, FS_Injection
  <2>13. F \in Surjection(Kept, Made) => Cardinality(Kept) = Cardinality(Made)
    BY <2>8, <2>10, FS_Injection
  <2> QED BY <2>5, <2>6, <2>7, <2>8, <2>9, <2>11, <2>12, <2>13 DEF ReportAddsUp, m, k
<1>2. TestInv /\ Told /\ [ReportsNext]_repoVars => (TestInv /\ Told)' BY CallersKeep, CallersTell
<1> QED BY <1>1, <1>2, TestStart, ToldStart, PTL DEF ReportsSpec

-----------------------------------------------------------------------------
(* The log.                                                                *)

LogFiles == [stamp : Nat, opened : Nat \ {0}, size : Nat, torn : Nat, held : Seq(Nat)]

LogTypes ==
    /\ second \in Nat
    /\ logs \in Seq(LogFiles) /\ logs # <<>>
    /\ currentSize \in Nat
    /\ lines \in Seq(Nat)

\* The files have different names, in the order of the clock: that of this
\* second, if there is one, is the last.
Dated(these) ==
    /\ \A i, j \in DOMAIN these : i < j => these[i].stamp < these[j].stamp
    /\ \A i \in DOMAIN these : these[i].stamp <= second

\* These files hold the newest of so many lines.
Keep(these, written) ==
    /\ Len(these) <= MaxFiles
    /\ \A i \in DOMAIN these : InOrder(these[i].held)
    /\ \A i, j \in DOMAIN these : i < j =>
          \A m \in Range(these[i].held), n \in Range(these[j].held) : m < n
    /\ \E gone \in 0..written :
          /\ UNION {Range(these[i].held) : i \in DOMAIN these} = (gone + 1)..written
          /\ gone > 0 => Len(these) = MaxFiles

\* A file is short for how often it was opened, less the last time, of which
\* the writer has counted this much.
Bounds(file, written) ==
    {b \in {MaxSize} \cup {written[n] : n \in Range(file.held)} : b >= MaxSize}
Short(file, written) ==
    \E b \in Bounds(file, written) : file.size <= b * file.opened + file.torn
Counted(file, written, size) ==
    \E b \in Bounds(file, written) : file.size <= b * (file.opened - 1) + file.torn + size

Fit(these, written, size) ==
    /\ \A i \in DOMAIN these : Short(these[i], written)
    /\ Counted(these[Len(these)], written, size)

\* What holds of the files of the log.
LogInv == LogTypes /\ Dated(logs) /\ Keep(logs, Len(lines)) /\ Fit(logs, lines, currentSize)

\* The fields of a file, and what is so of each file of a log.
LEMMA FileFields ==
    /\ \A f \in LogFiles : /\ f.stamp \in Nat /\ f.opened \in Nat \ {0} /\ f.size \in Nat
                           /\ f.torn \in Nat /\ f.held \in Seq(Nat)
    /\ \A these \in Seq(LogFiles) : \A i \in DOMAIN these : these[i] \in LogFiles
<1>1. \A f \in LogFiles : /\ f.stamp \in Nat /\ f.opened \in Nat \ {0} /\ f.size \in Nat
                         /\ f.torn \in Nat /\ f.held \in Seq(Nat)
  BY DEF LogFiles
<1>2. \A these \in Seq(LogFiles) : \A i \in DOMAIN these : these[i] \in LogFiles OBVIOUS
<1> QED BY <1>1, <1>2

\* One more time so much.
LEMMA OnceMore == \A a, b \in Nat : a * b \in Nat /\ a * (b + 1) = a * b + a
<1> QED OBVIOUS

\* So often more.
LEMMA MoreEach == \A a, b, c \in Nat : a <= b => a * c <= b * c
<1> SUFFICES ASSUME NEW a \in Nat, NEW b \in Nat, NEW c \in Nat, a <= b PROVE a * c <= b * c
  OBVIOUS
<1>1. PICK d \in Nat : b = a + d
  <2>1. b - a \in Nat /\ b = a + (b - a) OBVIOUS
  <2> QED BY <2>1
<1>2. b * c = a * c + d * c BY <1>1
<1>3. a * c \in Nat /\ d * c \in Nat OBVIOUS
<1> QED BY <1>2, <1>3

\* The lines that the files hold have been written, and so bound them.
LEMMA BoundsAreNumbers ==
    ASSUME LogTypes, NEW these \in Seq(LogFiles), Keep(these, Len(lines))
    PROVE  /\ \A i \in DOMAIN these : Range(these[i].held) \subseteq 1..Len(lines)
           /\ \A i \in DOMAIN these : Bounds(these[i], lines) \subseteq Nat
<1>1. \A i \in DOMAIN these : Range(these[i].held) \subseteq 1..Len(lines) BY DEF Keep, LogTypes
<1>2. \A n \in 1..Len(lines) : lines[n] \in Nat BY DEF LogTypes
<1> QED BY <1>1, <1>2, LogAssumption DEF Bounds

\* Without the first file, the files hold the lines after its last.
LEMMA WithoutTheFirst ==
    ASSUME NEW all \in Seq(LogFiles), NEW written \in Nat, Len(all) = MaxFiles + 1,
           \A i \in DOMAIN all : InOrder(all[i].held),
           \A i, j \in DOMAIN all : i < j =>
              \A m \in Range(all[i].held), n \in Range(all[j].held) : m < n,
           NEW gone \in 0..written,
           UNION {Range(all[i].held) : i \in DOMAIN all} = (gone + 1)..written
    PROVE  Keep(SubSeq(all, 2, Len(all)), written)
<1> DEFINE rest == SubSeq(all, 2, Len(all))
           h    == all[1].held
<1>1. MaxFiles \in Nat /\ MaxFiles > 0 BY LogAssumption
<1>2. rest \in Seq(LogFiles) /\ Len(rest) = MaxFiles /\ \A i \in 1..MaxFiles : rest[i] = all[i + 1]
  BY <1>1
<1>3. DOMAIN rest = 1..MaxFiles /\ DOMAIN all = 1..(MaxFiles + 1) BY <1>1, <1>2
<1>4. \A i \in DOMAIN rest : i + 1 \in DOMAIN all /\ rest[i] = all[i + 1] BY <1>1, <1>2, <1>3
<1>5. h \in Seq(Nat) /\ InOrder(h)
  <2>1. 1 \in DOMAIN all BY <1>1, <1>3
  <2> QED BY <2>1, FileFields
<1>6. PICK top \in 0..written : top >= gone /\ \A n \in (gone + 1)..written : n \in Range(h) <=> n <= top
  <2>1. CASE h = <<>>
    <3>1. Range(h) = {} BY <2>1 DEF Range
    <3> QED BY <3>1
  <2>2. CASE h # <<>>
    <3>1. Len(h) \in DOMAIN h /\ \A n \in DOMAIN h : n <= Len(h) BY <1>5, <2>2
    <3>2. h[Len(h)] \in Range(h) /\ \A n \in Range(h) : n <= h[Len(h)]
      <4>1. ASSUME NEW n \in DOMAIN h PROVE h[n] <= h[Len(h)]
        <5>1. n < Len(h) \/ n = Len(h) BY <1>5, <3>1
        <5>2. h[n] \in Nat /\ h[Len(h)] \in Nat BY <1>5, <3>1
        <5> QED BY <1>5, <3>1, <5>1, <5>2 DEF InOrder
      <4> QED BY <3>1, <4>1 DEF Range
    <3>3. Range(h) \subseteq (gone + 1)..written BY <1>3, <1>1
    <3>4. \A n \in (gone + 1)..written : n <= h[Len(h)] => n \in Range(h)
      <4> SUFFICES ASSUME NEW n \in (gone + 1)..written, n <= h[Len(h)], n \notin Range(h) PROVE FALSE
        OBVIOUS
      <4>1. PICK i \in DOMAIN all : n \in Range(all[i].held) OBVIOUS
      <4>2. 1 \in DOMAIN all /\ i > 1 BY <1>1, <1>3, <4>1
      <4>3. h[Len(h)] < n BY <3>2, <4>1, <4>2
      <4> QED BY <4>3, <3>2, <3>3
    <3>5. h[Len(h)] \in 0..written /\ h[Len(h)] >= gone BY <3>2, <3>3
    <3>6. \A n \in (gone + 1)..written : n \in Range(h) <=> n <= h[Len(h)] BY <3>2, <3>4
    <3> QED BY <3>5, <3>6
  <2> QED BY <2>1, <2>2
<1>7. UNION {Range(rest[i].held) : i \in DOMAIN rest} = (top + 1)..written
  <2>1. ASSUME NEW i \in DOMAIN rest, NEW n \in Range(rest[i].held) PROVE n \in (top + 1)..written
    <3>1. i + 1 \in DOMAIN all /\ n \in Range(all[i + 1].held) /\ 1 < i + 1 /\ 1 \in DOMAIN all
      BY <1>1, <1>3, <1>4, <2>1
    <3>2. n \in (gone + 1)..written BY <3>1
    <3>3. n \notin Range(h)
      <4> SUFFICES ASSUME n \in Range(h) PROVE FALSE OBVIOUS
      <4>1. n < n BY <3>1
      <4> QED BY <4>1, <3>2
    <3> QED BY <3>2, <3>3, <1>6
  <2>2. ASSUME NEW n \in (top + 1)..written PROVE \E i \in DOMAIN rest : n \in Range(rest[i].held)
    <3>1. n \in (gone + 1)..written /\ n \notin Range(h) BY <1>6, <2>2
    <3>2. PICK i \in DOMAIN all : n \in Range(all[i].held) BY <3>1
    <3>3. i - 1 \in DOMAIN rest /\ (i - 1) + 1 = i BY <1>1, <1>3, <3>1, <3>2
    <3> QED BY <3>2, <3>3, <1>4
  <2> QED BY <2>1, <2>2
<1>8. \A i \in DOMAIN rest : InOrder(rest[i].held) BY <1>4
<1>9. \A i, j \in DOMAIN rest : i < j =>
          \A m \in Range(rest[i].held), n \in Range(rest[j].held) : m < n
  BY <1>3, <1>4
<1>10. Len(rest) <= MaxFiles BY <1>1, <1>2
<1> HIDE DEF rest
<1>11. Keep(rest, written) BY <1>2, <1>6, <1>7, <1>8, <1>9, <1>10 DEF Keep
<1> QED BY <1>11 DEF rest

\* Opening a file keeps the newest lines, and counts from nothing.
LEMMA OpenedFiles ==
    ASSUME LogInv
    PROVE  /\ Opened \in Seq(LogFiles) /\ Opened # <<>>
           /\ Dated(Opened)
           /\ Keep(Opened, Len(lines))
           /\ Fit(Opened, lines, 0)
<1> USE DEF LogInv, LogTypes
<1>0. MaxFiles \in Nat /\ MaxFiles > 0 /\ MaxSize \in Nat BY LogAssumption
<1>1. Len(logs) \in DOMAIN logs /\ DOMAIN logs = 1..Len(logs) /\ Last(logs) = logs[Len(logs)]
  BY DEF Last
<1>2. CASE Last(logs).stamp = second
  <2> DEFINE f == logs[Len(logs)]
             g == [f EXCEPT !.opened = @ + 1]
  <2>1. Opened = [logs EXCEPT ![Len(logs)] = g] BY <1>2, <1>1 DEF Opened
  <2>2. f \in LogFiles /\ g \in LogFiles
    <3>1. f \in LogFiles BY <1>1
    <3>2. f.opened + 1 \in Nat \ {0} BY <3>1, FileFields
    <3> QED BY <3>1, <3>2 DEF LogFiles
  <2>3. /\ Opened \in Seq(LogFiles) /\ Len(Opened) = Len(logs) /\ DOMAIN Opened = DOMAIN logs
        /\ Opened[Len(logs)] = g
        /\ \A i \in DOMAIN logs : i # Len(logs) => Opened[i] = logs[i]
    BY <2>1, <2>2, <1>1
  <2>4. /\ g.stamp = f.stamp /\ g.size = f.size /\ g.held = f.held /\ g.opened = f.opened + 1
        /\ g.torn = f.torn /\ f.opened \in Nat \ {0} /\ f.size \in Nat /\ f.torn \in Nat
    BY <2>2 DEF LogFiles
  <2> HIDE DEF f, g
  <2>5. \A i \in DOMAIN logs : Opened[i].stamp = logs[i].stamp /\ Opened[i].held = logs[i].held
    BY <2>3, <2>4 DEF f
  <2>6. Dated(Opened) BY <2>3, <2>5 DEF Dated
  <2>7. Keep(Opened, Len(lines)) BY <2>3, <2>5 DEF Keep
  <2>8. Fit(Opened, lines, 0)
    <3>1. Bounds(g, lines) = Bounds(f, lines) BY <2>4 DEF Bounds
    <3>2. PICK b \in Bounds(f, lines) : f.size <= b * f.opened + f.torn BY <1>1 DEF Fit, Short, f
    <3>3. b \in Nat BY <1>1, BoundsAreNumbers DEF f
    <3>4. b * g.opened = b * f.opened + b /\ b * f.opened \in Nat BY <2>4, <3>3, OnceMore
    <3>5. g.opened - 1 = f.opened BY <2>4
    <3>6. g.size <= b * g.opened + g.torn BY <2>4, <3>2, <3>3, <3>4
    <3>7. g.size <= b * (g.opened - 1) + g.torn + 0 BY <2>4, <3>2, <3>4, <3>5
    <3>8. Short(g, lines) /\ Counted(g, lines, 0) BY <3>1, <3>6, <3>7 DEF Short, Counted
    <3> QED BY <2>3, <3>8 DEF Fit
  <2> QED BY <2>3, <2>6, <2>7, <2>8
<1>3. CASE Last(logs).stamp # second
  <2> DEFINE new == LogFile(second)
             all == Append(logs, new)
             last == Len(logs) + 1
  <2>1. new \in LogFiles /\ new.held = <<>> /\ new.size = 0 /\ new.torn = 0
        /\ new.opened = 1 /\ new.stamp = second
    BY DEF LogFile, LogFiles
  <2>2. /\ all \in Seq(LogFiles) /\ Len(all) = last /\ DOMAIN all = 1..last
        /\ all[last] = new /\ \A i \in DOMAIN logs : all[i] = logs[i]
    BY <2>1
  <2>2a. \A i \in DOMAIN all : i \in DOMAIN logs \/ i = last BY <2>2, <1>1
  <2>3. Dated(all)
    <3>0. \A i \in DOMAIN logs : logs[i].stamp \in Nat BY FileFields
    <3>1. logs[Len(logs)].stamp < second BY <3>0, <1>1, <1>3 DEF Dated
    <3>2. ASSUME NEW i \in DOMAIN logs PROVE logs[i].stamp < second
      <4>1. i < Len(logs) \/ i = Len(logs) BY <1>1
      <4>2. i < Len(logs) => logs[i].stamp < logs[Len(logs)].stamp BY <1>1 DEF Dated
      <4> QED BY <4>1, <4>2, <3>0, <3>1, <1>1
    <3> QED BY <2>1, <2>2, <2>2a, <3>2, <1>1 DEF Dated
  <2>4. Range(new.held) = {} /\ InOrder(new.held) BY <2>1 DEF Range, InOrder
  <2>5. \A i \in DOMAIN all : InOrder(all[i].held) BY <2>2, <2>2a, <2>4 DEF Keep
  <2>6. \A i, j \in DOMAIN all : i < j =>
              \A m \in Range(all[i].held), n \in Range(all[j].held) : m < n
    BY <2>2, <2>2a, <2>4 DEF Keep
  <2>7. UNION {Range(all[i].held) : i \in DOMAIN all} = UNION {Range(logs[i].held) : i \in DOMAIN logs}
    <3>1. \A i \in DOMAIN logs : i \in DOMAIN all BY <2>2, <1>1
    <3>2. \A n, i : i \in DOMAIN all /\ n \in Range(all[i].held) => i \in DOMAIN logs /\ n \in Range(logs[i].held)
      BY <2>2, <2>2a, <2>4
    <3>3. \A n, i : i \in DOMAIN logs /\ n \in Range(logs[i].held) => i \in DOMAIN all /\ n \in Range(all[i].held)
      BY <2>2, <3>1
    <3> QED BY <3>2, <3>3
  <2>8. \A i \in DOMAIN all : Short(all[i], lines)
    <3>1. Short(all[last], lines)
      <4>1. MaxSize \in Bounds(all[last], lines) /\ MaxSize * 1 = MaxSize BY <1>0 DEF Bounds
      <4> QED BY <1>0, <2>1, <2>2, <4>1 DEF Short
    <3>2. \A i \in DOMAIN logs : Short(all[i], lines) BY <2>2 DEF Fit
    <3> QED BY <2>2a, <3>1, <3>2
  <2>9. Counted(all[last], lines, 0)
    <3>1. MaxSize \in Bounds(all[last], lines) /\ MaxSize * (1 - 1) = 0 BY <1>0 DEF Bounds
    <3> QED BY <1>0, <2>1, <2>2, <3>1 DEF Counted
  <2> HIDE DEF new
  <2>10. CASE Len(all) > MaxFiles
    <3>1. Len(logs) = MaxFiles /\ last = MaxFiles + 1 BY <2>2, <2>10, <1>0 DEF Keep
    <3>2. Opened = SubSeq(all, 2, Len(all)) BY <1>3, <2>2, <2>10, <3>1, <1>0 DEF Opened, Newest, new
    <3>2a. Len(all) = MaxFiles + 1 /\ all \in Seq(LogFiles) BY <2>2, <3>1
    <3> HIDE DEF all, last
    <3>3. /\ Opened \in Seq(LogFiles) /\ Len(Opened) = MaxFiles
          /\ \A i \in 1..MaxFiles : Opened[i] = all[i + 1] /\ i + 1 \in DOMAIN all
      BY <1>0, <3>2, <3>2a
    <3>4. DOMAIN Opened = 1..MaxFiles BY <3>3
    <3>5. Dated(Opened)
      <4>1. \A i, j \in 1..MaxFiles : i < j => i + 1 < j + 1 OBVIOUS
      <4> QED BY <3>3, <3>4, <2>3, <4>1 DEF Dated
    <3>6. PICK gone \in 0..Len(lines) : UNION {Range(all[i].held) : i \in DOMAIN all} = (gone + 1)..Len(lines)
      BY <2>7 DEF Keep
    <3>7. Keep(SubSeq(all, 2, Len(all)), Len(lines))
      <4>1. Len(lines) \in Nat OBVIOUS
      <4> QED BY ONLY <4>1, <3>2a, <2>5, <2>6, <3>6, WithoutTheFirst
    <3>7a. Keep(Opened, Len(lines)) BY <3>7, <3>2
    <3>8. Fit(Opened, lines, 0) BY <1>0, <3>3, <3>4, <3>1, <2>8, <2>9 DEF Fit
    <3> QED BY <3>3, <1>0, <3>5, <3>7a, <3>8
  <2>11. CASE ~(Len(all) > MaxFiles)
    <3>1. Opened = all BY <1>3, <2>11 DEF Opened, Newest, new
    <3>2. Keep(all, Len(lines))
      <4>1. PICK gone \in 0..Len(lines) :
               /\ UNION {Range(logs[i].held) : i \in DOMAIN logs} = (gone + 1)..Len(lines)
               /\ gone > 0 => Len(logs) = MaxFiles
        BY DEF Keep
      <4>2. gone = 0 BY <4>1, <2>2, <2>11, <1>0
      <4>3. Len(all) <= MaxFiles BY <2>2, <2>11, <1>0
      <4>4. gone \in 0..Len(lines) /\ ~(gone > 0) BY <4>2
      <4> HIDE DEF all
      <4> QED BY <4>1, <4>3, <4>4, <2>5, <2>6, <2>7 DEF Keep
    <3>3. Fit(all, lines, 0) BY <2>2, <2>8, <2>9 DEF Fit
    <3> QED BY <3>1, <3>2, <3>3, <2>2, <2>3
  <2> QED BY <2>10, <2>11
<1> QED BY <1>2, <1>3

\* A line that fits, or one for a file that has counted nothing, keeps all this.
LEMMA AppendedLine ==
    ASSUME LogTypes, NEW these \in Seq(LogFiles), these # <<>>, NEW length \in Lengths, NEW size \in Nat,
           Dated(these), Keep(these, Len(lines)), Fit(these, lines, size),
           size = 0 \/ size + length <= MaxSize,
           second' = second, Appended(these, length, size)
    PROVE  LogInv'
<1> USE DEF LogTypes
<1>0. MaxFiles \in Nat /\ MaxFiles > 0 /\ MaxSize \in Nat /\ length \in Nat BY LogAssumption
<1> DEFINE last == Len(these)
           new  == Len(lines) + 1
           f    == these[last]
           g    == [f EXCEPT !.held = Append(@, new), !.size = @ + length]
<1>1. last \in DOMAIN these /\ DOMAIN these = 1..last OBVIOUS
<1>2. /\ lines' = Append(lines, length) /\ lines' \in Seq(Nat) /\ Len(lines') = new /\ lines'[new] = length
      /\ \A n \in 1..Len(lines) : lines'[n] = lines[n]
  BY <1>0 DEF Appended
<1>3. f \in LogFiles /\ g \in LogFiles
  <2>1. f \in LogFiles BY <1>1
  <2>2. f.held \in Seq(Nat) /\ f.size \in Nat /\ new \in Nat BY <2>1, FileFields
  <2>3. Append(f.held, new) \in Seq(Nat) /\ f.size + length \in Nat BY <2>2, <1>0
  <2> QED BY <2>1, <2>3 DEF LogFiles
<1>4. logs' = [these EXCEPT ![last] = g] BY <1>1, <1>2, <1>3 DEF Appended, LogFiles
<1>5. /\ logs' \in Seq(LogFiles) /\ Len(logs') = last /\ DOMAIN logs' = DOMAIN these /\ logs'[last] = g
      /\ \A i \in DOMAIN these : i # last => logs'[i] = these[i]
  BY <1>1, <1>3, <1>4
<1>6. /\ f.held \in Seq(Nat) /\ f.size \in Nat /\ f.torn \in Nat /\ f.opened \in Nat \ {0}
      /\ g.torn = f.torn /\ g.held = Append(f.held, new) /\ g.size = f.size + length /\ g.opened = f.opened /\ g.stamp = f.stamp
  BY <1>3 DEF LogFiles
<1>7. currentSize' = size + length /\ currentSize' \in Nat BY <1>0 DEF Appended
<1> HIDE DEF f, g
<1>8. Range(g.held) = Range(f.held) \cup {new}
  <2>1. /\ Len(g.held) = Len(f.held) + 1 /\ DOMAIN g.held = 1..(Len(f.held) + 1) /\ DOMAIN f.held = 1..Len(f.held)
        /\ g.held[Len(f.held) + 1] = new /\ \A n \in 1..Len(f.held) : g.held[n] = f.held[n]
    BY <1>6
  <2>2. \A n \in DOMAIN g.held : n \in DOMAIN f.held \/ n = Len(f.held) + 1 BY <2>1
  <2>3. \A n \in DOMAIN f.held : n \in DOMAIN g.held /\ g.held[n] = f.held[n] BY <2>1
  <2>4. Len(f.held) + 1 \in DOMAIN g.held BY <2>1, <1>6
  <2> QED BY <2>1, <2>2, <2>3, <2>4 DEF Range
<1>9. \A i \in DOMAIN these : Range(these[i].held) \subseteq 1..Len(lines)
  BY DEF Keep
<1>10. Keep(logs', new)
  <2>1. InOrder(g.held)
    <3>1. InOrder(f.held) BY <1>1 DEF Keep, f
    <3>2. ASSUME NEW n \in DOMAIN f.held PROVE f.held[n] < new
      <4>1. f.held[n] \in Range(f.held) BY DEF Range
      <4>2. f.held[n] \in 1..Len(lines) BY <4>1, <1>1, <1>9 DEF f
      <4> QED BY <4>2
    <3>3. /\ DOMAIN f.held = 1..Len(f.held) /\ DOMAIN g.held = 1..(Len(f.held) + 1)
          /\ g.held[Len(f.held) + 1] = new /\ \A n \in DOMAIN f.held : g.held[n] = f.held[n]
      <4>1. g.held = Append(f.held, new) /\ f.held \in Seq(Nat) /\ new \in Nat BY <1>6
      <4> HIDE DEF new
      <4> QED BY <4>1
    <3>4. \A n \in DOMAIN g.held : n \in DOMAIN f.held \/ n = Len(f.held) + 1 BY <3>3
    <3>5. \A n \in DOMAIN g.held : ~(Len(f.held) + 1 < n) BY <3>3, <1>6
    <3> QED BY <3>1, <3>2, <3>3, <3>4, <3>5 DEF InOrder
  <2>2. \A i \in DOMAIN logs' : InOrder(logs'[i].held) BY <2>1, <1>5 DEF Keep
  <2>3. ASSUME NEW i \in DOMAIN logs', NEW j \in DOMAIN logs', i < j,
               NEW m \in Range(logs'[i].held), NEW n \in Range(logs'[j].held)
        PROVE  m < n
    <3>1. i # last /\ logs'[i] = these[i] BY <2>3, <1>1, <1>5
    <3>2. m \in 1..Len(lines) BY <3>1, <1>5, <1>9
    <3>3. CASE j = last /\ n = new BY <3>2, <3>3
    <3>4. CASE ~(j = last /\ n = new)
      <4>1. n \in Range(these[j].held) BY <3>4, <1>5, <1>8 DEF f
      <4> QED BY <4>1, <3>1, <2>3, <1>5 DEF Keep
    <3> QED BY <3>3, <3>4
  <2>4. PICK gone \in 0..Len(lines) :
               /\ UNION {Range(these[i].held) : i \in DOMAIN these} = (gone + 1)..Len(lines)
               /\ gone > 0 => Len(these) = MaxFiles
    BY DEF Keep
  <2>5. UNION {Range(logs'[i].held) : i \in DOMAIN logs'} = (gone + 1)..new
    <3>1. ASSUME NEW i \in DOMAIN logs', NEW n \in Range(logs'[i].held) PROVE n \in (gone + 1)..new
      <4>1. n = new \/ (i \in DOMAIN these /\ n \in Range(these[i].held)) BY <1>5, <1>8 DEF f
      <4>2. n = new \/ n \in (gone + 1)..Len(lines) BY <4>1, <2>4
      <4> QED BY <4>2
    <3>2. ASSUME NEW n \in (gone + 1)..new PROVE \E i \in DOMAIN logs' : n \in Range(logs'[i].held)
      <4>1. CASE n = new BY <4>1, <1>1, <1>5, <1>8
      <4>2. CASE n # new
        <5>1. n \in (gone + 1)..Len(lines) BY <4>2
        <5>2. PICK i \in DOMAIN these : n \in Range(these[i].held) BY <5>1, <2>4
        <5>3. i \in DOMAIN logs' /\ n \in Range(logs'[i].held) BY <5>2, <1>5, <1>8 DEF f
        <5> QED BY <5>3
      <4> QED BY <4>1, <4>2
    <3> QED BY <3>1, <3>2
  <2>6. gone \in 0..new OBVIOUS
  <2> QED BY <2>2, <2>3, <2>4, <2>5, <2>6, <1>5 DEF Keep
<1>11. Fit(logs', lines', currentSize')
  <2>1. \A i \in DOMAIN these : Bounds(these[i], lines) \subseteq Bounds(these[i], lines')
    BY <1>9, <1>2 DEF Bounds
  <2>2. \A i \in DOMAIN logs' : i # last => Short(logs'[i], lines') BY <1>5, <2>1 DEF Fit, Short
  <2>3. PICK b \in Bounds(f, lines) : f.size <= b * (f.opened - 1) + f.torn + size
    BY DEF Fit, Counted, f
  <2> DEFINE c == IF length > b THEN length ELSE b
  <2>4. b \in Nat /\ b >= MaxSize
    <3>1. b \in Nat BY <1>1, BoundsAreNumbers DEF f
    <3> QED BY <3>1 DEF Bounds
  <2>5. c \in Nat /\ b <= c /\ length <= c /\ MaxSize <= c BY <1>0, <2>4
  <2>6. c \in Bounds(g, lines')
    <3>1. b \in Bounds(f, lines') BY <1>1, <2>1 DEF f
    <3>2. b \in Bounds(g, lines') BY <1>8, <3>1 DEF Bounds
    <3>3. length > b => length \in Bounds(g, lines') BY <1>0, <1>2, <1>8, <2>4 DEF Bounds
    <3> QED BY <3>2, <3>3
  <2> HIDE DEF c
  <2> DEFINE k == f.opened - 1
             before == c * k
  <2>7. k \in Nat /\ f.opened = k + 1 BY <1>6
  <2>8. b * k \in Nat /\ b * k <= before /\ before \in Nat /\ c * f.opened = before + c
    BY <2>4, <2>5, <2>7, OnceMore, MoreEach
  <2>9. f.size <= b * k + f.torn + size BY <2>3
  <2>10. c * g.opened = before + c BY <1>6, <2>8
  <2>11. g.size <= before + g.torn + currentSize' /\ g.size <= c * g.opened + g.torn
    <3> DEFINE had   == f.size
               has   == g.size
               torn  == g.torn
               count == currentSize'
               room  == b * k
    <3>1. had \in Nat /\ torn \in Nat /\ room \in Nat /\ before \in Nat BY <1>6, <2>8
    <3>2. has = had + length /\ count = size + length BY <1>6, <1>7
    <3>3. had <= room + torn + size /\ room <= before BY <1>6, <2>8, <2>9
    <3>4. count <= c BY <1>0, <2>5, <3>2
    <3> HIDE DEF had, has, torn, count, room, before, LogTypes
    <3>5. had <= before + torn + size BY <2>5, <3>1, <3>3
    <3>6. has <= before + torn + count BY <1>0, <3>1, <3>2, <3>5
    <3>7. count \in Nat BY <1>0, <3>2
    <3>8. has \in Nat BY <1>0, <3>1, <3>2
    <3>9. has <= before + c + torn BY <2>5, <3>1, <3>4, <3>6, <3>7, <3>8
    <3> QED BY <2>10, <3>6, <3>9 DEF has, torn, count
  <2>12. Short(g, lines') /\ Counted(g, lines', currentSize')
    <3>1. before = c * (g.opened - 1) BY <1>6
    <3> HIDE DEF before
    <3> QED BY <2>6, <2>11, <3>1 DEF Short, Counted
  <2> QED BY <2>2, <2>12, <1>5 DEF Fit
<1>12. \A i \in DOMAIN logs' : logs'[i].stamp = these[i].stamp BY <1>5, <1>6 DEF f
<1>13. Dated(logs)' BY <1>12, <1>5 DEF Dated
<1> QED BY <1>1, <1>2, <1>5, <1>7, <1>10, <1>11, <1>13 DEF LogInv

\* Bytes that nothing counts are allowed for.
LEMMA TornLine ==
    ASSUME LogTypes, NEW these \in Seq(LogFiles), these # <<>>, NEW bytes \in Nat, NEW size \in Nat,
           Dated(these), Keep(these, Len(lines)), Fit(these, lines, size),
           second' = second, lines' = lines, CutShort(these, bytes, size)
    PROVE  LogInv'
<1> USE DEF LogTypes
<1> DEFINE last == Len(these)
           f    == these[last]
           g    == [f EXCEPT !.size = @ + bytes, !.torn = @ + bytes]
<1>1. last \in DOMAIN these /\ DOMAIN these = 1..last OBVIOUS
<1>2. f \in LogFiles /\ g \in LogFiles
  <2>1. f \in LogFiles BY <1>1
  <2>2. f.size + bytes \in Nat /\ f.torn + bytes \in Nat BY <2>1, FileFields
  <2> QED BY <2>1, <2>2 DEF LogFiles
<1>3. logs' = [these EXCEPT ![last] = g] BY <1>1, <1>2 DEF CutShort, LogFiles
<1>4. /\ logs' \in Seq(LogFiles) /\ Len(logs') = last /\ DOMAIN logs' = DOMAIN these /\ logs'[last] = g
      /\ \A i \in DOMAIN these : i # last => logs'[i] = these[i]
  BY <1>1, <1>2, <1>3
<1>5. /\ f.size \in Nat /\ f.torn \in Nat /\ f.opened \in Nat \ {0}
      /\ g.size = f.size + bytes /\ g.torn = f.torn + bytes
      /\ g.held = f.held /\ g.opened = f.opened /\ g.stamp = f.stamp
  BY <1>2 DEF LogFiles
<1>6. currentSize' = size BY DEF CutShort
<1> HIDE DEF f, g
<1>7. \A i \in DOMAIN these : logs'[i].stamp = these[i].stamp /\ logs'[i].held = these[i].held
  BY <1>4, <1>5 DEF f
<1>8. Dated(logs)' BY <1>4, <1>7 DEF Dated
<1>9. Keep(logs', Len(lines')) BY <1>4, <1>7 DEF Keep
<1>10. Fit(logs', lines', currentSize')
  <2>1. Bounds(g, lines') = Bounds(f, lines) BY <1>5 DEF Bounds
  <2>2. \A b \in Bounds(f, lines) : b \in Nat BY <1>1, BoundsAreNumbers DEF f
  <2>3. ASSUME NEW m \in Nat, f.size <= m + f.torn PROVE g.size <= m + g.torn BY <1>5, <2>3
  <2>4. Short(g, lines')
    <3>1. PICK b \in Bounds(f, lines) : f.size <= b * f.opened + f.torn BY <1>1 DEF Fit, Short, f
    <3>2. b * f.opened \in Nat BY <1>5, <2>2, OnceMore
    <3> QED BY <1>5, <2>1, <2>3, <3>1, <3>2 DEF Short
  <2>5. Counted(g, lines', currentSize')
    <3>1. PICK b \in Bounds(f, lines) : f.size <= b * (f.opened - 1) + f.torn + size
      BY DEF Fit, Counted, f
    <3>2. f.opened - 1 \in Nat /\ b \in Nat BY <1>5, <2>2
    <3> DEFINE m == b * (f.opened - 1)
    <3>3. m \in Nat BY <3>2, OnceMore
    <3>4. f.size <= m + f.torn + size BY <3>1
    <3>5. m = b * (g.opened - 1) BY <1>5
    <3> HIDE DEF m
    <3>6. g.size <= m + g.torn + currentSize' BY <1>5, <1>6, <3>3, <3>4
    <3> QED BY <2>1, <3>5, <3>6 DEF Counted
  <2>6. \A i \in DOMAIN these : i # last => Short(logs'[i], lines') BY <1>4 DEF Fit, Short
  <2> QED BY <1>4, <2>4, <2>5, <2>6 DEF Fit
<1> QED BY <1>1, <1>4, <1>6, <1>8, <1>9, <1>10 DEF LogInv

\* The files stay so, whatever is done.
LEMMA LogStep == LogInv /\ [LogNext]_logVars => LogInv'
<1> SUFFICES ASSUME LogInv, [LogNext]_logVars PROVE LogInv' OBVIOUS
<1> USE LogAssumption
<1>1. CASE WriteLine
  <2>0. LogTypes /\ second' = second BY <1>1 DEF LogInv, WriteLine
  <2>1. PICK length \in Lengths :
          \/ TooLong(length) /\ Appended(Opened, length, 0)
          \/ current = "none" /\ Appended(Opened, length, 0)
          \/ ~TooLong(length) /\ Appended(logs, length, currentSize)
          \/ UNCHANGED <<logs, currentSize, lines>>
    BY <1>1 DEF WriteLine
  <2>2. CASE Appended(Opened, length, 0) BY <2>0, <2>2, OpenedFiles, AppendedLine
  <2>3. CASE ~TooLong(length) /\ Appended(logs, length, currentSize)
    <3>1. currentSize + length <= MaxSize BY <2>0, <2>3 DEF TooLong, LogTypes
    <3> QED BY <2>0, <2>3, <3>1, AppendedLine DEF LogInv, LogTypes
  <2>4. CASE UNCHANGED <<logs, currentSize, lines>> BY <2>0, <2>4 DEF LogInv, LogTypes, Dated
  <2> QED BY <2>1, <2>2, <2>3, <2>4
<1>2. CASE LogRestart
  <2>1. /\ logs' = Opened /\ second' = second /\ currentSize' = 0 /\ lines' = lines BY <1>2 DEF LogRestart
  <2>2. Dated(logs)' BY <2>1, OpenedFiles DEF Dated
  <2> QED BY <2>1, <2>2, OpenedFiles DEF LogInv, LogTypes
<1>3. CASE NextSecond
  <2>1. second' = second + 1 /\ UNCHANGED <<logs, currentSize, lines>> BY <1>3 DEF NextSecond
  <2>2. Dated(logs)'
    <3>1. \A i \in DOMAIN logs : logs[i].stamp \in Nat BY FileFields DEF LogInv, LogTypes
    <3> QED BY <2>1, <3>1 DEF LogInv, LogTypes, Dated
  <2> QED BY <2>1, <2>2 DEF LogInv, LogTypes
<1>4. CASE UNCHANGED <<second, logs, currentSize, lines>> BY <1>4 DEF LogInv, LogTypes, Dated
<1>5. CASE WriteShort
  <2>1. PICK length \in Lengths : \E bytes \in 0..(length - 1) :
          CutShort(Opened, bytes, 0) \/ CutShort(logs, bytes, currentSize)
    BY <1>5 DEF WriteShort
  <2>2. PICK bytes \in 0..(length - 1) : CutShort(Opened, bytes, 0) \/ CutShort(logs, bytes, currentSize)
    BY <2>1
  <2>3. bytes \in Nat /\ LogTypes /\ second' = second /\ lines' = lines BY <1>5 DEF WriteShort, LogInv
  <2>4. CASE CutShort(Opened, bytes, 0) BY <2>3, <2>4, OpenedFiles, TornLine
  <2>5. CASE CutShort(logs, bytes, currentSize) BY <2>3, <2>5, TornLine DEF LogInv, LogTypes
  <2> QED BY <2>2, <2>4, <2>5
<1> QED BY <1>1, <1>2, <1>3, <1>4, <1>5 DEF LogNext, RotateFails, CloseLog, logVars

\* One empty file, opened once.
LEMMA LogStart == LogInit => LogInv
<1> SUFFICES ASSUME LogInit PROVE LogInv OBVIOUS
<1> DEFINE f == LogFile(0)
<1>1. second = 0 /\ logs = <<f>> /\ currentSize = 0 /\ lines = <<>> BY DEF LogInit
<1>2. f \in LogFiles /\ f.stamp = 0 /\ f.size = 0 /\ f.opened = 1 /\ f.held = <<>> BY DEF LogFile, LogFiles
<1>3. Range(f.held) = {} /\ InOrder(f.held) BY <1>2 DEF Range, InOrder
<1> HIDE DEF f
<1>4. Len(logs) = 1 /\ DOMAIN logs = {1} /\ logs[1] = f BY <1>1
<1>5. LogTypes BY <1>1, <1>2 DEF LogTypes
<1>6. Dated(logs) BY <1>1, <1>2, <1>4 DEF Dated
<1>7. Keep(logs, Len(lines))
  <2>1. UNION {Range(logs[i].held) : i \in DOMAIN logs} = (0 + 1)..Len(lines) BY <1>1, <1>3, <1>4
  <2>2. 0 \in 0..Len(lines) BY <1>1
  <2> QED BY <1>3, <1>4, <2>1, <2>2, LogAssumption DEF Keep
<1>8. Fit(logs, lines, currentSize)
  <2>1. f.torn = 0 BY DEF f, LogFile
  <2>2. MaxSize \in Bounds(f, lines) /\ MaxSize * 1 = MaxSize /\ MaxSize * (1 - 1) = 0
    BY LogAssumption DEF Bounds
  <2>3. Short(f, lines) BY <1>2, <2>1, <2>2, LogAssumption DEF Short
  <2>4. Counted(f, lines, 0) BY <1>2, <2>1, <2>2, LogAssumption DEF Counted
  <2> QED BY <1>1, <1>4, <2>3, <2>4 DEF Fit
<1> QED BY <1>5, <1>6, <1>7, <1>8 DEF LogInv

\* In every behavior of the log its files are as its writer takes them to be.
LEMMA LogInvariant == LogSpec => []LogInv
<1> QED BY LogStart, LogStep, PTL DEF LogSpec

\* The log's files hold the newest lines, in order and without a gap.
THEOREM LogKeepsNewestLines == LogSpec => []NewestLinesAreKept
<1>1. LogInv => NewestLinesAreKept BY DEF LogInv, Keep, NewestLinesAreKept
<1> QED BY <1>1, LogInvariant, PTL

\* A file of the log is as long as maxSize, or as its longest line, for each time it
\* was opened, and what failed writes left in it.
THEOREM LogKeepsFilesShort == LogSpec => []LogFilesAreShort
<1>1. LogInv => LogFilesAreShort BY DEF LogInv, Fit, Short, Bounds, LogFilesAreShort
<1> QED BY <1>1, LogInvariant, PTL

-----------------------------------------------------------------------------
(* The pages of the list.                                                  *)

\* What is in one sequence after another.
LEMMA Concatenation ==
    ASSUME NEW S, NEW a \in Seq(S), NEW b \in Seq(S)
    PROVE  /\ a \o b \in Seq(S)
           /\ Len(a \o b) = Len(a) + Len(b)
           /\ \A i \in 1..Len(a) : (a \o b)[i] = a[i]
           /\ \A i \in 1..Len(b) : (a \o b)[Len(a) + i] = b[i]
<1> QED OBVIOUS

\* A set is larger than a part of it.
LEMMA PartIsSmaller ==
    ASSUME NEW S, IsFiniteSet(S), NEW T \in SUBSET S, NEW x \in S, x \notin T
    PROVE  Cardinality(T) \in Nat /\ Cardinality(S) \in Nat /\ Cardinality(T) < Cardinality(S)
<1>1. IsFiniteSet(T) /\ Cardinality(T) <= Cardinality(S) /\ (Cardinality(S) = Cardinality(T) => S = T)
  BY FS_Subset
<1>2. Cardinality(T) \in Nat /\ Cardinality(S) \in Nat BY <1>1, FS_CardinalityType
<1> QED BY <1>1, <1>2

Times == [Fingerprints -> Nat]

\* The order of the list is strict and total.
LEMMA BeforeIsAnOrder ==
    ASSUME NEW seen \in Times
    PROVE  /\ \A f \in Fingerprints : ~Before(seen, f, f)
           /\ \A f, g, h \in Fingerprints : Before(seen, f, g) /\ Before(seen, g, h) => Before(seen, f, h)
           /\ \A f, g \in Fingerprints : f = g \/ Before(seen, f, g) \/ Before(seen, g, f)
<1>1. Fingerprints \subseteq Nat BY DashboardAssumption
<1>2. \A f \in Fingerprints : seen[f] \in Nat BY DEF Times
<1> QED BY <1>1, <1>2 DEF Before

\* A rank is below the number of the listed, and one that comes before another
\* has a lower one: so there is one config of each rank.
LEMMA Ranks ==
    ASSUME NEW seen \in Times
    PROVE  LET n == Cardinality(Listed(seen))
           IN  /\ n \in Nat
               /\ \A f \in Listed(seen) : Rank(seen, f) \in 0..(n - 1)
               /\ \A f, g \in Listed(seen) : Before(seen, f, g) => Rank(seen, f) < Rank(seen, g)
               /\ \A f, g \in Listed(seen) : Rank(seen, f) = Rank(seen, g) => f = g
               /\ \A i \in 1..n : \E f \in Listed(seen) : Rank(seen, f) = i - 1
<1> DEFINE L    == Listed(seen)
           n    == Cardinality(L)
           B(f) == {g \in L : Before(seen, g, f)}
<1>1. L \subseteq Fingerprints /\ IsFiniteSet(L)
  <2>1. L \in SUBSET Fingerprints BY DEF Listed
  <2>2. IsFiniteSet(Fingerprints) BY DashboardAssumption
  <2> QED BY <2>1, <2>2, FS_Subset
<1>2. n \in Nat BY <1>1, FS_CardinalityType
<1>3. \A f : Rank(seen, f) = Cardinality(B(f)) BY DEF Rank
<1>4. ASSUME NEW f \in L, NEW g \in L, Before(seen, f, g) PROVE Rank(seen, f) < Rank(seen, g)
  <2>1. B(f) \subseteq B(g) BY <1>1, <1>4, BeforeIsAnOrder
  <2>2. f \in B(g) /\ f \notin B(f) BY <1>1, <1>4, BeforeIsAnOrder
  <2>3. IsFiniteSet(B(g)) BY <1>1, FS_Subset
  <2> QED BY <1>3, <2>1, <2>2, <2>3, PartIsSmaller
<1>5. ASSUME NEW f \in L PROVE Rank(seen, f) \in 0..(n - 1)
  <2>1. B(f) \subseteq L /\ f \notin B(f) BY <1>1, BeforeIsAnOrder
  <2>2. Cardinality(B(f)) \in Nat /\ Cardinality(B(f)) < Cardinality(L)
    <3>1. B(f) \in SUBSET L /\ f \in L /\ f \notin B(f) BY <2>1
    <3> HIDE DEF B
    <3> QED BY <1>1, <3>1, PartIsSmaller
  <2>3. Rank(seen, f) \in Nat /\ Rank(seen, f) < n BY <1>3, <2>2
  <2> HIDE DEF n
  <2> QED BY <1>2, <2>3
<1>6. ASSUME NEW f \in L, NEW g \in L, Rank(seen, f) = Rank(seen, g) PROVE f = g
  <2>1. Rank(seen, f) \in Nat /\ Rank(seen, g) \in Nat BY <1>5, <1>2
  <2>2. f = g \/ Before(seen, f, g) \/ Before(seen, g, f) BY <1>1, BeforeIsAnOrder
  <2> QED BY <1>4, <1>6, <2>1, <2>2
<1>7. ASSUME NEW i \in 1..n PROVE \E f \in L : Rank(seen, f) = i - 1
  <2> DEFINE F == [f \in L |-> Rank(seen, f)]
  <2>1. F \in [L -> 0..(n - 1)] BY <1>5
  <2>2. \A f, g \in L : F[f] = F[g] => f = g BY <1>6
  <2>3. F \in Injection(L, 0..(n - 1)) BY <2>1, <2>2, Fun_IsInj
  <2> HIDE DEF n
  <2>4. IsFiniteSet(0..(n - 1)) /\ Cardinality(0..(n - 1)) = n
    <3>1. 0 \in Int /\ n - 1 \in Int BY <1>2
    <3>2. /\ IsFiniteSet(0..(n - 1))
          /\ Cardinality(0..(n - 1)) = IF 0 > n - 1 THEN 0 ELSE (n - 1) - 0 + 1
      BY <3>1, FS_Interval
    <3> QED BY <3>2, <1>2
  <2>5. F \in Surjection(L, 0..(n - 1)) BY <2>3, <2>4, FS_Injection DEF n
  <2>6. i - 1 \in 0..(n - 1) BY <1>2
  <2> HIDE DEF F
  <2>7. \A t \in 0..(n - 1) : \E f \in L : F[f] = t BY <2>5 DEF Surjection
  <2>8. PICK f \in L : F[f] = i - 1 BY <2>6, <2>7
  <2> QED BY <2>8 DEF F
<1> QED BY <1>2, <1>4, <1>5, <1>6, <1>7

\* The entries are the listed configs, each at its rank.
LEMMA EntriesByRank ==
    ASSUME NEW seen \in Times
    PROVE  /\ Entries(seen) \in Seq(Fingerprints)
           /\ Cardinality(Listed(seen)) \in Nat
           /\ Len(Entries(seen)) = Cardinality(Listed(seen))
           /\ \A f \in Listed(seen) :
                 /\ Rank(seen, f) \in Nat /\ Rank(seen, f) < Len(Entries(seen))
                 /\ Entries(seen)[Rank(seen, f) + 1] = f
<1> DEFINE L == Listed(seen)
           n == Cardinality(L)
           E == Entries(seen)
<1>1. n \in Nat BY Ranks
<1>2. ASSUME NEW i \in 1..n PROVE E[i] \in L /\ Rank(seen, E[i]) = i - 1
  <2>1. E[i] = CHOOSE f \in L : Rank(seen, f) = i - 1 BY DEF Entries
  <2>2. \E f \in L : Rank(seen, f) = i - 1 BY Ranks
  <2> QED BY <2>1, <2>2
<1>3. E = [i \in 1..n |-> E[i]] BY DEF Entries
<1>4. L \subseteq Fingerprints BY DEF Listed
<1>5. E \in [1..n -> Fingerprints] BY <1>2, <1>3, <1>4
<1>6. E \in Seq(Fingerprints) /\ Len(E) = n BY <1>1, <1>5
<1>7. ASSUME NEW f \in L PROVE /\ Rank(seen, f) \in Nat /\ Rank(seen, f) < n
                               /\ E[Rank(seen, f) + 1] = f
  <2>1. Rank(seen, f) \in 0..(n - 1) BY Ranks
  <2>2. Rank(seen, f) + 1 \in 1..n /\ (Rank(seen, f) + 1) - 1 = Rank(seen, f) BY <1>1, <2>1
  <2>3. E[Rank(seen, f) + 1] \in L /\ Rank(seen, E[Rank(seen, f) + 1]) = Rank(seen, f) BY <1>2, <2>2
  <2> QED BY <1>1, <2>1, <2>3, Ranks
<1> QED BY <1>1, <1>6, <1>7

Smaller(a, b) == IF a < b THEN a ELSE b

\* A page goes on where a beginning of the list ends, ...
LEMMA PageGoesOn ==
    ASSUME NEW entries \in Seq(Fingerprints), NEW from \in Nat, from = 0 \/ from < Len(entries)
    PROVE  /\ Page(entries, from) \in Seq(Fingerprints)
           /\ SubSeq(entries, 1, Smaller(from, Len(entries))) \o Page(entries, from)
                 = SubSeq(entries, 1, Smaller(from + PageSize, Len(entries)))
<1> DEFINE n  == Len(entries)
           to == Smaller(from + PageSize, n)
           a  == SubSeq(entries, 1, Smaller(from, n))
           b  == Page(entries, from)
           c  == SubSeq(entries, 1, to)
<1>1. n \in Nat /\ PageSize \in Nat /\ PageSize > 0 BY DashboardAssumption
<1>2. to \in Nat /\ to <= n /\ from <= to /\ Smaller(from, n) = from BY <1>1 DEF Smaller
<1>3. b = SubSeq(entries, from + 1, to) BY <1>1 DEF Page, Smaller
<1>4. a = SubSeq(entries, 1, from) BY <1>2
<1> HIDE DEF to
<1>5. /\ a \in Seq(Fingerprints) /\ Len(a) = from /\ \A i \in 1..from : a[i] = entries[i]
  BY <1>1, <1>2, <1>4
<1>6. /\ b \in Seq(Fingerprints) /\ Len(b) = to - from /\ \A i \in 1..(to - from) : b[i] = entries[from + i]
  BY <1>1, <1>2, <1>3
<1>7. /\ c \in Seq(Fingerprints) /\ Len(c) = to /\ \A i \in 1..to : c[i] = entries[i]
  BY <1>1, <1>2
<1>8. a \o b = c
  <2> HIDE DEF a, b, c
  <2>1. a \o b \in Seq(Fingerprints) /\ Len(a \o b) = to
    <3>1. a \o b \in Seq(Fingerprints) /\ Len(a \o b) = Len(a) + Len(b) BY <1>5, <1>6, Concatenation
    <3> QED BY <3>1, <1>2, <1>5, <1>6
  <2>2. ASSUME NEW i \in 1..to PROVE (a \o b)[i] = c[i]
    <3>1. CASE i <= from BY <1>2, <1>5, <1>6, <1>7, <3>1
    <3>2. CASE ~(i <= from)
      <4>1. i - from \in 1..(to - from) /\ from + (i - from) = i BY <1>2, <3>2
      <4>2. (a \o b)[i] = b[i - from] BY <1>2, <1>5, <1>6, <3>2
      <4> QED BY <4>1, <4>2, <1>6, <1>7
    <3> QED BY <3>1, <3>2
  <2> QED BY <2>1, <2>2, <1>7
<1> QED BY <1>6, <1>8 DEF to

\* ... and holds the configs of the ranks it covers.
LEMMA PageByRank ==
    ASSUME NEW seen \in Times, NEW from \in Nat, NEW f \in Listed(seen),
           Rank(seen, f) >= from, Rank(seen, f) < from + PageSize
    PROVE  f \in Range(Page(Entries(seen), from))
<1> DEFINE e  == Entries(seen)
           n  == Len(e)
           r  == Rank(seen, f)
           to == Smaller(from + PageSize, n)
<1>1. e \in Seq(Fingerprints) /\ n \in Nat /\ r \in Nat /\ r < n /\ e[r + 1] = f BY EntriesByRank
<1>2. PageSize \in Nat /\ PageSize > 0 BY DashboardAssumption
<1>3. Page(e, from) = SubSeq(e, from + 1, to) BY <1>1, <1>2 DEF Page, Smaller
<1>4. to \in Nat /\ to <= n /\ from < to /\ r < to BY <1>1, <1>2 DEF Smaller
<1> HIDE DEF e, n, r, to
<1> DEFINE s == SubSeq(e, from + 1, to)
<1>5. Len(s) = to - from /\ DOMAIN s = 1..(to - from) /\ \A i \in 1..(to - from) : s[i] = e[from + i]
  BY <1>1, <1>4 DEF n
<1>6. (r - from) + 1 \in DOMAIN s /\ from + ((r - from) + 1) = r + 1
  <2>1. r >= from BY DEF r
  <2> QED BY <2>1, <1>1, <1>4, <1>5
<1>7. s[(r - from) + 1] = f
  <2> HIDE DEF s
  <2>1. (r - from) + 1 \in 1..(to - from) BY <1>5, <1>6
  <2>2. s[(r - from) + 1] = e[from + ((r - from) + 1)] BY <1>5, <2>1
  <2>3. e[r + 1] = f BY <1>1 DEF e, r
  <2> QED BY <2>2, <2>3, <1>6
<1>8. f \in Range(s) BY <1>6, <1>7 DEF Range
<1> QED BY <1>8, <1>3 DEF e

\* What the list of the client is: it never sees a config that it was not given.
DashTypes ==
    /\ lastSeen \in Times /\ began \in Times
    /\ published \in Nat
    /\ \A f \in Fingerprints : lastSeen[f] <= published /\ began[f] <= published
    /\ offset \in Nat /\ total \in Nat
    /\ pages \in Seq(Fingerprints)
    /\ since \in {"nothing", "more", "less"}

\* While nothing is published the pages are a beginning of the list.
Unchanged ==
    offset > 0 /\ since = "nothing" =>
        /\ lastSeen = began
        /\ total = Len(Entries(began))
        /\ pages = SubSeq(Entries(began), 1, Smaller(offset, total))

\* While none leaves, a config not seen again is on a page, or its rank is one
\* of those to come.
ToCome(f) == offset < total /\ Rank(lastSeen, f) >= offset
NoneMissed ==
    offset > 0 /\ since # "less" =>
        \A f \in Listed(began) :
            /\ f \in Listed(lastSeen)
            /\ lastSeen[f] = began[f] => f \in Range(pages) \/ ToCome(f)

DashInv == DashTypes /\ (offset = 0 => pages = <<>>) /\ Unchanged /\ NoneMissed

\* What is published can only raise the rank of a config not seen again.
LEMMA RanksRise ==
    ASSUME DashTypes, Publish, NEW f \in Listed(lastSeen), lastSeen'[f] = lastSeen[f],
           Listed(lastSeen) \ Listed(lastSeen') = {}
    PROVE  Rank(lastSeen', f) >= Rank(lastSeen, f) /\ lastSeen' \in Times
<1>1. PICK seen \in SUBSET Fingerprints, left \in SUBSET Fingerprints :
          lastSeen' = [g \in Fingerprints |->
                 IF g \in seen THEN published' ELSE IF g \in left THEN 0 ELSE lastSeen[g]]
  BY DEF Publish
<1>2. published' = published + 1 /\ published \in Nat BY DEF Publish, DashTypes
<1>3. \A g \in Fingerprints : lastSeen[g] \in Nat /\ lastSeen[g] <= published BY DEF DashTypes, Times
<1>4. lastSeen' \in Times BY <1>1, <1>2, <1>3 DEF Times
<1> DEFINE A == {g \in Listed(lastSeen) : Before(lastSeen, g, f)}
           B == {g \in Listed(lastSeen') : Before(lastSeen', g, f)}
<1>5. f \in Fingerprints BY DEF Listed
<1>6. ASSUME NEW g \in A PROVE g \in B
  <2>1. g \in Listed(lastSeen) /\ g \in Fingerprints /\ Before(lastSeen, g, f) BY DEF Listed
  <2>2. g \in Listed(lastSeen') /\ lastSeen'[g] > 0 BY <2>1 DEF Listed
  <2>3. lastSeen'[g] = lastSeen[g] \/ lastSeen'[g] = published + 1
    BY <1>1, <1>2, <2>1, <2>2
  <2>4. Before(lastSeen', g, f) BY <1>2, <1>3, <1>5, <2>1, <2>3 DEF Before
  <2> QED BY <2>2, <2>4
<1>7. IsFiniteSet(B)
  <2>1. B \in SUBSET Fingerprints BY DEF Listed
  <2>2. IsFiniteSet(Fingerprints) BY DashboardAssumption
  <2> QED BY <2>1, <2>2, FS_Subset
<1>8. A \in SUBSET B BY <1>6
<1> HIDE DEF A, B
<1>9. IsFiniteSet(A) /\ Cardinality(A) <= Cardinality(B) BY <1>7, <1>8, FS_Subset
<1>10. Cardinality(A) \in Nat /\ Cardinality(B) \in Nat BY <1>7, <1>9, FS_CardinalityType
<1> QED BY <1>4, <1>9, <1>10 DEF Rank, A, B

\* A collection run publishes a new state: the pages that come next show it, and
\* those served before it stay as they were.
LEMMA PublishKeepsPages == DashInv /\ Publish => DashInv'
<1> SUFFICES ASSUME DashInv, Publish PROVE DashInv' OBVIOUS
<1>0. DashTypes /\ (offset = 0 => pages = <<>>) /\ Unchanged /\ NoneMissed BY DEF DashInv
<1>1. PICK seen \in SUBSET Fingerprints, left \in SUBSET Fingerprints :
          lastSeen' = [g \in Fingerprints |->
                 IF g \in seen THEN published' ELSE IF g \in left THEN 0 ELSE lastSeen[g]]
  BY DEF Publish
<1>2. /\ published' = published + 1 /\ published \in Nat /\ offset' = offset /\ pages' = pages
      /\ total' = total /\ began' = began
      /\ since' = IF since = "less" \/ Listed(lastSeen) \ Listed(lastSeen') # {} THEN "less" ELSE "more"
  BY <1>0 DEF Publish, DashTypes
<1>3. \A g \in Fingerprints : /\ lastSeen[g] \in Nat /\ lastSeen[g] <= published
                              /\ began[g] \in Nat /\ began[g] <= published
  BY <1>0 DEF DashTypes, Times
<1>4. lastSeen' \in Times BY <1>1, <1>2, <1>3 DEF Times
<1>5. \A g \in Fingerprints : lastSeen'[g] <= published' /\ began'[g] <= published'
  BY <1>1, <1>2, <1>3
<1>6. DashTypes' BY <1>0, <1>2, <1>4, <1>5 DEF DashTypes
<1>7. Unchanged' BY <1>2 DEF Unchanged
<1>8. NoneMissed'
  <2> SUFFICES ASSUME offset > 0, since' # "less", NEW f \in Listed(began)
               PROVE  /\ f \in Listed(lastSeen')
                      /\ lastSeen'[f] = began[f] => f \in Range(pages) \/ (offset < total /\ Rank(lastSeen', f) >= offset)
    BY <1>2 DEF NoneMissed, ToCome
  <2>1. since # "less" /\ Listed(lastSeen) \ Listed(lastSeen') = {} BY <1>2
  <2>2. /\ f \in Listed(lastSeen) /\ f \in Listed(lastSeen')
        /\ lastSeen[f] = began[f] => f \in Range(pages) \/ ToCome(f)
    BY <1>0, <2>1 DEF NoneMissed
  <2> SUFFICES ASSUME lastSeen'[f] = began[f] 
               PROVE  f \in Range(pages) \/ (offset < total /\ Rank(lastSeen', f) >= offset)
    BY <2>2
  <2>3. f \in Fingerprints /\ lastSeen'[f] > 0 BY <2>2 DEF Listed
  <2>4. lastSeen'[f] = lastSeen[f]
    <3>1. lastSeen'[f] # published + 1 BY <1>2, <1>3, <2>3
    <3> QED BY <1>1, <1>2, <2>3, <3>1
  <2>5. Rank(lastSeen', f) >= Rank(lastSeen, f) BY <1>0, <2>1, <2>2, <2>4, RanksRise
  <2>6. Rank(lastSeen, f) \in Nat /\ Rank(lastSeen', f) \in Nat /\ offset \in Nat
    BY <1>0, <1>4, <2>2, EntriesByRank DEF DashTypes
  <2> QED BY <2>2, <2>4, <2>5, <2>6 DEF ToCome
<1> QED BY <1>0, <1>2, <1>6, <1>7, <1>8 DEF DashInv

\* A page is served: it takes up the list where the one before it ended.
LEMMA GetPageKeepsPages == DashInv /\ GetPage => DashInv'
<1> SUFFICES ASSUME DashInv, GetPage PROVE DashInv' OBVIOUS
<1>0. DashTypes /\ (offset = 0 => pages = <<>>) /\ Unchanged /\ NoneMissed BY DEF DashInv
<1> DEFINE e == Entries(lastSeen)
<1>1. /\ offset = 0 \/ offset < total
      /\ pages' = pages \o Page(e, offset)
      /\ total' = Cardinality(Listed(lastSeen)) /\ offset' = offset + PageSize
      /\ offset = 0 => began' = lastSeen /\ since' = "nothing"
      /\ offset # 0 => began' = began /\ since' = since
      /\ lastSeen' = lastSeen /\ published' = published
  BY DEF GetPage, stateVars
<1>2. PageSize \in Nat /\ PageSize > 0 BY DashboardAssumption
<1>3. lastSeen \in Times /\ offset \in Nat /\ total \in Nat /\ pages \in Seq(Fingerprints)
  BY <1>0 DEF DashTypes
<1>4. e \in Seq(Fingerprints) /\ Len(e) \in Nat /\ total' = Len(e) BY <1>1, <1>3, EntriesByRank
<1>5. Page(e, offset) \in Seq(Fingerprints)
  <2> DEFINE to == IF offset + PageSize > Len(e) THEN Len(e) ELSE offset + PageSize
  <2>1. to \in Nat /\ to <= Len(e) BY <1>2, <1>3, <1>4
  <2>2. Page(e, offset) = SubSeq(e, offset + 1, to) BY DEF Page
  <2> HIDE DEF to, e
  <2> QED BY <2>1, <2>2, <1>3, <1>4
<1>6. DashTypes'
  <2>1. pages' \in Seq(Fingerprints) BY <1>1, <1>3, <1>5
  <2>2. offset' \in Nat /\ total' \in Nat BY <1>1, <1>2, <1>3, <1>4
  <2> QED BY <1>0, <1>1, <2>1, <2>2 DEF DashTypes
<1>7. offset' > 0 BY <1>1, <1>2, <1>3
<1>8. Unchanged'
  <2> SUFFICES ASSUME since' = "nothing"
               PROVE  /\ lastSeen = began'
                      /\ total' = Len(Entries(began'))
                      /\ pages' = SubSeq(Entries(began'), 1, Smaller(offset', total'))
    BY <1>1 DEF Unchanged
  <2>1. lastSeen = began' BY <1>0, <1>1, <1>3 DEF Unchanged
  <2>2. /\ pages = SubSeq(e, 1, Smaller(offset, Len(e)))
        /\ offset = 0 \/ offset < Len(e)
    <3>1. CASE offset = 0
      <4>1. SubSeq(e, 1, 0) = <<>> /\ Smaller(0, Len(e)) = 0 BY <1>4 DEF Smaller
      <4> QED BY <3>1, <4>1, <1>0
    <3>2. CASE offset # 0
      <4>1. offset > 0 /\ since = "nothing" BY <3>2, <1>1, <1>3
      <4> QED BY <4>1, <1>0, <1>1, <3>2 DEF Unchanged
    <3> QED BY <3>1, <3>2
  <2>3. pages' = SubSeq(e, 1, Smaller(offset + PageSize, Len(e)))
    BY <1>1, <1>3, <1>4, <2>2, PageGoesOn
  <2> QED BY <1>1, <1>4, <2>1, <2>3
<1>9. NoneMissed'
  <2> SUFFICES ASSUME since' # "less", NEW f \in Listed(began')
               PROVE  /\ f \in Listed(lastSeen)
                      /\ lastSeen[f] = began'[f] =>
                            f \in Range(pages') \/ (offset' < total' /\ Rank(lastSeen, f) >= offset')
    BY <1>1 DEF NoneMissed, ToCome
  <2>1. f \in Listed(lastSeen)
    <3>1. offset # 0 => offset > 0 BY <1>3
    <3> QED BY <1>0, <1>1, <3>1 DEF NoneMissed
  <2> SUFFICES ASSUME lastSeen[f] = began'[f]
               PROVE  f \in Range(pages') \/ (offset' < total' /\ Rank(lastSeen, f) >= offset')
    BY <2>1
  <2>2. Rank(lastSeen, f) \in Nat /\ Rank(lastSeen, f) < Len(e) BY <1>3, <2>1, EntriesByRank
  <2>3. f \in Range(pages) \/ Rank(lastSeen, f) >= offset
    <3>1. CASE offset = 0 BY <3>1, <2>2
    <3>2. CASE offset # 0
      <4>1. offset > 0 BY <3>2, <1>3
      <4> QED BY <4>1, <3>2, <1>0, <1>1 DEF NoneMissed, ToCome
    <3> QED BY <3>1, <3>2
  <2>4. Range(pages') = Range(pages) \cup Range(Page(e, offset))
    <3> DEFINE p == Page(e, offset)
    <3>1. /\ pages' = pages \o p /\ p \in Seq(Fingerprints) /\ DOMAIN pages' = 1..(Len(pages) + Len(p))
          /\ DOMAIN pages = 1..Len(pages) /\ DOMAIN p = 1..Len(p)
      BY <1>1, <1>3, <1>5
    <3> HIDE DEF p
    <3>2. \A i \in DOMAIN pages : i \in DOMAIN pages' /\ pages'[i] = pages[i] BY <1>3, <3>1
    <3>3. \A i \in DOMAIN p : Len(pages) + i \in DOMAIN pages' /\ pages'[Len(pages) + i] = p[i] BY <1>3, <3>1
    <3>4. \A i \in DOMAIN pages' : i \in DOMAIN pages \/ (i - Len(pages) \in DOMAIN p /\ pages'[i] = p[i - Len(pages)])
      BY <1>3, <3>1
    <3>5. Range(pages') = Range(pages) \cup Range(p) BY <3>2, <3>3, <3>4 DEF Range
    <3> QED BY <3>5 DEF p
  <2>5. CASE Rank(lastSeen, f) >= offset /\ Rank(lastSeen, f) < offset + PageSize
    BY <1>3, <2>1, <2>4, <2>5, PageByRank
  <2>6. CASE Rank(lastSeen, f) >= offset + PageSize
    BY <1>1, <1>2, <1>3, <1>4, <2>2, <2>6
  <2> QED BY <1>2, <1>3, <2>2, <2>3, <2>4, <2>5, <2>6
<1>10. offset' # 0 BY <1>7
<1> QED BY <1>6, <1>8, <1>9, <1>10 DEF DashInv

\* Each step keeps what is known of the pages.
LEMMA DashStep == DashInv /\ [DashNext]_dashVars => DashInv'
<1> SUFFICES ASSUME DashInv, [DashNext]_dashVars PROVE DashInv' OBVIOUS
<1>1. CASE Publish BY <1>1, PublishKeepsPages
<1>2. CASE GetPage BY <1>2, GetPageKeepsPages
<1>3. CASE UNCHANGED <<pagingVars, stateVars>>
  <2>1. UNCHANGED <<lastSeen, published, offset, pages, total, began, since>>
    BY <1>3 DEF pagingVars, stateVars
  <2> QED BY <2>1 DEF DashInv, DashTypes, Unchanged, NoneMissed, ToCome
<1>4. CASE UNCHANGED dashVars BY <1>3, <1>4 DEF dashVars
<1>5. CASE \E r \in Requests : Arrive(r) \/ ReadState(r) \/ BeginStore(r) \/ EndStore(r)
  BY <1>3, <1>5 DEF Arrive, ReadState, BeginStore, EndStore, Access
<1> QED BY <1>1, <1>2, <1>4, <1>5 DEF DashNext

\* Before the first page, nothing was shown.
LEMMA DashStart == DashInit => DashInv
<1> SUFFICES ASSUME DashInit PROVE DashInv OBVIOUS
<1>1. lastSeen \in Times /\ \A f \in Fingerprints : lastSeen[f] = 0 BY DEF DashInit, Times
<1>2. pages = <<>> /\ pages \in Seq(Fingerprints) /\ offset = 0 BY DEF DashInit
<1> QED BY <1>1, <1>2 DEF DashInit, DashInv, DashTypes, Unchanged, NoneMissed

\* A client that goes through the pages sees the whole list, and what is
\* published on the way hides no config that has not been seen again.
THEOREM DashPagesShowTheList == DashSpec => []PagesShowTheList
<1>1. DashInv => PagesShowTheList
  <2> SUFFICES ASSUME DashInv, AllPages
               PROVE  /\ since = "nothing" => pages = Entries(began)
                      /\ since # "less" =>
                            \A f \in Listed(began) : lastSeen[f] = began[f] => f \in Range(pages)
    BY DEF PagesShowTheList
  <2>1. offset > 0 /\ offset >= total /\ offset \in Nat /\ total \in Nat
    BY DEF AllPages, DashInv, DashTypes
  <2>2. Smaller(offset, total) = total BY <2>1 DEF Smaller
  <2>3. Entries(began) \in Seq(Fingerprints) BY EntriesByRank DEF DashInv, DashTypes
  <2>4. SubSeq(Entries(began), 1, Len(Entries(began))) = Entries(began) BY <2>3
  <2>5. since = "nothing" => pages = Entries(began) BY <2>1, <2>2, <2>4 DEF DashInv, Unchanged
  <2>6. ~(offset < total) BY <2>1
  <2>7. since # "less" => \A f \in Listed(began) : lastSeen[f] = began[f] => f \in Range(pages)
    BY <2>1, <2>6 DEF DashInv, NoneMissed, ToCome
  <2> QED BY <2>5, <2>7
<1> QED BY <1>1, DashStart, DashStep, PTL DEF DashSpec
-----------------------------------------------------------------------------
(* The comparison of reports.                                              *)

Outcome == [config : Links, totalSuccess : Nat, totalTested : Nat]

\* A report has one result of a config.
IsReport(r) ==
    /\ r.configResults \in Seq(Outcome)
    /\ \A i, j \in DOMAIN r.configResults :
          r.configResults[i].config = r.configResults[j].config => i = j

Readable == {r \in [readable : BOOLEAN, configResults : Seq(Outcome)] : IsReport(r)}
CompareInv == saved \in Seq(Readable)

\* The lines of a report with one of these configs are as many as the configs.
LEMMA LinesPerConfig ==
    ASSUME NEW r, IsReport(r), NEW cs
    PROVE  /\ IsFiniteSet(With(r, cs)) /\ IsFiniteSet(ConfigsOf(r) \cap cs)
           /\ Cardinality(With(r, cs)) = Cardinality(ConfigsOf(r) \cap cs)
<1> DEFINE D == With(r, cs)
           C == ConfigsOf(r) \cap cs
           f == [i \in D |-> r.configResults[i].config]
<1>1. Len(r.configResults) \in Nat /\ DOMAIN r.configResults = 1..Len(r.configResults) BY DEF IsReport
<1>2. IsFiniteSet(D)
  <2>1. IsFiniteSet(DOMAIN r.configResults)
    <3>1. 1 \in Int /\ Len(r.configResults) \in Int BY <1>1
    <3>2. IsFiniteSet(1..Len(r.configResults)) BY <3>1, FS_Interval
    <3> QED BY <1>1, <3>2
  <2>2. D \in SUBSET DOMAIN r.configResults BY DEF With
  <2> QED BY <2>1, <2>2, FS_Subset
<1>3. f \in Bijection(D, C)
  <2>1. f \in [D -> C] BY DEF With, ConfigsOf
  <2>2. \A i, j \in D : f[i] = f[j] => i = j BY DEF IsReport, With
  <2>3. \A c \in C : \E i \in D : f[i] = c BY DEF With, ConfigsOf
  <2> HIDE DEF f, D, C
  <2> QED BY <2>1, <2>2, <2>3, Fun_IsBij
<1>4. ExistsBijection(D, C) BY <1>3 DEF ExistsBijection
<1> QED BY <1>2, <1>4, FS_Bijection

\* So are all its lines, ...
LEMMA LinesOfAReport ==
    ASSUME NEW r, IsReport(r)
    PROVE  /\ IsFiniteSet(ConfigsOf(r)) /\ Len(r.configResults) \in Nat
           /\ Cardinality(ConfigsOf(r)) = Len(r.configResults)
<1> DEFINE cs == ConfigsOf(r)
<1>1. Len(r.configResults) \in Nat /\ DOMAIN r.configResults = 1..Len(r.configResults) BY DEF IsReport
<1>2. With(r, cs) = 1..Len(r.configResults) BY <1>1 DEF With, ConfigsOf
<1>3. cs \cap cs = cs OBVIOUS
<1> HIDE DEF cs
<1>4. IsFiniteSet(cs) /\ Cardinality(With(r, cs)) = Cardinality(cs)
  BY <1>3, LinesPerConfig DEF cs
<1>5. Cardinality(1..Len(r.configResults)) = Len(r.configResults)
  <2>1. \A n \in Nat : Cardinality(1..n) = n
    <3> SUFFICES ASSUME NEW n \in Nat PROVE Cardinality(1..n) = n OBVIOUS
    <3>1. Cardinality(1..n) = IF 1 > n THEN 0 ELSE n - 1 + 1 BY FS_Interval
    <3> QED BY <3>1
  <2> QED BY <1>1, <2>1
<1> QED BY <1>1, <1>2, <1>4, <1>5 DEF cs

\* ... and its results without these configs are as many as its other configs.
LEMMA ResultsPerConfig ==
    ASSUME NEW r, IsReport(r), NEW cs
    PROVE  Cardinality(ResultsWithout(r, cs)) = Cardinality(ConfigsOf(r) \ cs)
<1> DEFINE R == ResultsWithout(r, cs)
           C == ConfigsOf(r) \ cs
           f == [x \in R |-> x.config]
<1>1. f \in Bijection(R, C)
  <2>1. f \in [R -> C] BY DEF With, ResultsWithout, ConfigsOf
  <2>2. \A x, y \in R : f[x] = f[y] => x = y BY DEF IsReport, ResultsWithout
  <2>3. \A c \in C : \E x \in R : f[x] = c BY DEF With, ResultsWithout, ConfigsOf
  <2> HIDE DEF f, R, C
  <2> QED BY <2>1, <2>2, <2>3, Fun_IsBij
<1>2. IsFiniteSet(C) BY LinesOfAReport, FS_Difference
<1>3. f \in Injection(R, C) /\ f \in Surjection(R, C) BY <1>1 DEF Bijection
<1> HIDE DEF f, R, C
<1>4. Cardinality(R) = Cardinality(C) BY <1>2, <1>3, FS_Injection
<1> QED BY <1>4 DEF R, C

\* What a comparison counts is what it lists.
LEMMA CountsAgree ==
    ASSUME NEW a, NEW b, IsReport(a), IsReport(b)
    PROVE  /\ ConfigsAdded(a, b) = Cardinality(NewConfigs(a, b))
           /\ ConfigsRemoved(a, b) = Cardinality(LostConfigs(a, b))
           /\ ConfigsUnchanged(a, b) = Cardinality(ConfigsOf(a) \cap ConfigsOf(b))
           /\ ConfigsAdded(a, b) - ConfigsRemoved(a, b) =
                 Len(b.configResults) - Len(a.configResults)
<1> DEFINE A == ConfigsOf(a)
           B == ConfigsOf(b)
<1>1. /\ IsFiniteSet(A) /\ Cardinality(A) = Len(a.configResults)
      /\ IsFiniteSet(B) /\ Cardinality(B) = Len(b.configResults)
  BY LinesOfAReport
<1>2. ConfigsUnchanged(a, b) = Cardinality(A \cap B) BY LinesPerConfig DEF ConfigsUnchanged
<1>3. /\ Cardinality(NewConfigs(a, b)) = Cardinality(B \ A)
      /\ Cardinality(LostConfigs(a, b)) = Cardinality(A \ B)
  BY ResultsPerConfig DEF NewConfigs, LostConfigs
<1> HIDE DEF A, B
<1>4. /\ Cardinality(A \ B) = Cardinality(A) - Cardinality(A \cap B)
      /\ Cardinality(B \ A) = Cardinality(B) - Cardinality(B \cap A)
  BY <1>1, FS_Difference
<1>5. B \cap A = A \cap B OBVIOUS
<1>6. IsFiniteSet(A \cap B) BY <1>1, FS_Intersection
<1>7. Cardinality(A) \in Nat /\ Cardinality(B) \in Nat /\ Cardinality(A \cap B) \in Nat
  BY <1>1, <1>6, FS_CardinalityType
<1>8. /\ ConfigsAdded(a, b) = Cardinality(B) - Cardinality(A \cap B)
      /\ ConfigsRemoved(a, b) = Cardinality(A) - Cardinality(A \cap B)
  BY <1>1, <1>2 DEF ConfigsAdded, ConfigsRemoved
<1>9. /\ ConfigsAdded(a, b) = Cardinality(NewConfigs(a, b))
      /\ ConfigsRemoved(a, b) = Cardinality(LostConfigs(a, b))
  BY <1>3, <1>4, <1>5, <1>8
<1>10. ConfigsAdded(a, b) - ConfigsRemoved(a, b) = Cardinality(B) - Cardinality(A) BY <1>7, <1>8
<1> QED BY <1>1, <1>2, <1>9, <1>10 DEF A, B

\* A rate is a number.
LEMMA RateIsANumber ==
    ASSUME NEW r, IsReport(r), NEW c \in ConfigsOf(r)
    PROVE  Rate(ResultOf(r, c)) \in Int
<1> DEFINE n  == Len(r.configResults)
           S  == {i \in DOMAIN r.configResults : r.configResults[i].config = c}
<1>1. PICK i \in DOMAIN r.configResults : r.configResults[i].config = c BY DEF ConfigsOf
<1>2. \A j \in DOMAIN r.configResults : r.configResults[j].config = c => j = i BY <1>1 DEF IsReport
<1>3. i \in Nat BY DEF IsReport
<1>4. \E k \in DOMAIN r.configResults :
          /\ r.configResults[k].config = c
          /\ \A j \in DOMAIN r.configResults : r.configResults[j].config = c => j <= k
  BY <1>1, <1>2, <1>3
<1>5. \E k \in DOMAIN r.configResults : ResultOf(r, c) = r.configResults[k] BY <1>4 DEF ResultOf
<1>6. ResultOf(r, c) \in Outcome BY <1>5 DEF IsReport
<1>7. ResultOf(r, c).totalSuccess \in Nat /\ ResultOf(r, c).totalTested \in Nat BY <1>6 DEF Outcome
<1>8. \A x, y \in Nat : y > 0 => x \div y \in Int OBVIOUS
<1> QED BY <1>7, <1>8 DEF Rate

\* A change one way is the opposite the other way.
LEMMA ChangeBack ==
    ASSUME NEW a, NEW b, IsReport(a), IsReport(b)
    PROVE  LET one == CompareReports(a, b)
               two == CompareReports(b, a)
           IN  /\ one.improved \cap one.declined = {}
               /\ one.improved \cup one.declined \subseteq ConfigsOf(a) \cap ConfigsOf(b)
               /\ two.improved = one.declined /\ two.declined = one.improved
               /\ two.new = one.lost /\ two.lost = one.new
<1> DEFINE one == CompareReports(a, b)
           two == CompareReports(b, a)
           C   == ConfigsOf(a) \cap ConfigsOf(b)
           P   == {c \in C : Change(a, b)[c] > 0}
           N   == {c \in C : Change(a, b)[c] < 0}
<1>1. C = ConfigsOf(b) \cap ConfigsOf(a) /\ DOMAIN Change(a, b) = C /\ DOMAIN Change(b, a) = C BY DEF Change
<1>2. ASSUME NEW c \in C
      PROVE  /\ Change(a, b)[c] \in Int /\ Change(b, a)[c] \in Int
             /\ Change(b, a)[c] = 0 - Change(a, b)[c]
  <2>1. Rate(ResultOf(a, c)) \in Int /\ Rate(ResultOf(b, c)) \in Int BY RateIsANumber
  <2>2. /\ Change(a, b)[c] = Rate(ResultOf(b, c)) - Rate(ResultOf(a, c))
        /\ Change(b, a)[c] = Rate(ResultOf(a, c)) - Rate(ResultOf(b, c))
    BY <1>1 DEF Change
  <2> QED BY <2>1, <2>2
<1>3. /\ one.improved = P /\ one.declined = N
      /\ two.improved = {c \in C : Change(b, a)[c] > 0} /\ two.declined = {c \in C : Change(b, a)[c] < 0}
      /\ one.new = NewConfigs(a, b) /\ one.lost = LostConfigs(a, b)
      /\ two.new = NewConfigs(b, a) /\ two.lost = LostConfigs(b, a)
  BY <1>1 DEF CompareReports
<1> HIDE DEF C, one, two
<1>4. {c \in C : Change(b, a)[c] > 0} = N /\ {c \in C : Change(b, a)[c] < 0} = P BY <1>2
<1>5. P \cap N = {} BY <1>2
<1> QED BY <1>1, <1>3, <1>4, <1>5 DEF NewConfigs, LostConfigs, C, one, two

\* What the trend counts between neighbours adds up to what is between the first
\* and the last: each report but these is added and taken away once.
LEMMA SumTelescopes ==
    ASSUME NEW n \in Nat, NEW size \in [1..(n + 1) -> Nat],
           NEW m, m = [i \in 1..n |-> size[i + 1] - size[i]]
    PROVE  SumFunction(m) = size[n + 1] - size[1]
<1> DEFINE G == [i \in 1..(n + 1) |-> 1..size[i]]
           F == [i \in 1..n |-> 1..size[i + 1]]
           all    == PairsOf(G, 1..(n + 1))
           first  == PairsOf(G, 1..n)
           later  == PairsOf(G, 2..(n + 1))
           moved  == PairsOf(F, 1..n)
<1>1. \A k \in Nat : IsFiniteSet(1..k) /\ Cardinality(1..k) = k
  <2> SUFFICES ASSUME NEW k \in Nat PROVE IsFiniteSet(1..k) /\ Cardinality(1..k) = k OBVIOUS
  <2>1. IsFiniteSet(1..k) BY FS_Interval
  <2>2. Cardinality(1..k) = IF 1 > k THEN 0 ELSE k - 1 + 1 BY FS_Interval
  <2> QED BY <2>1, <2>2
<1>2. \A i \in 1..(n + 1) : G[i] = 1..size[i] /\ IsFiniteSet(G[i]) /\ Cardinality(G[i]) = size[i] BY <1>1
<1>3. \A i \in 1..n : /\ i \in 1..(n + 1) /\ i + 1 \in 1..(n + 1) /\ F[i] = G[i + 1]
                      /\ IsFiniteSet(F[i]) /\ Cardinality(F[i]) = size[i + 1]
  BY <1>2
<1> HIDE DEF G, F
<1>4. IsFiniteSet(1..n) /\ IsFiniteSet(2..(n + 1)) BY FS_Interval
<1>5. SumFunction(m) = Cardinality(moved) - Cardinality(first)
  <2>1. \A i \in 1..n : IsFiniteSet(F[i]) /\ IsFiniteSet(G[i]) BY <1>2, <1>3
  <2>2. \A i \in 1..n : Cardinality(F[i]) - Cardinality(G[i]) = size[i + 1] - size[i] BY <1>2, <1>3
  <2>3. m = [i \in 1..n |-> Cardinality(F[i]) - Cardinality(G[i])] BY <2>2
  <2> QED BY <1>4, <2>1, <2>3, SumCountsPairs
<1>6. IsFiniteSet(first) /\ IsFiniteSet(later) /\ IsFiniteSet(moved)
  <2>1. \A i \in 1..n : IsFiniteSet(G[i]) /\ IsFiniteSet(F[i]) BY <1>2, <1>3
  <2>2. \A i \in 2..(n + 1) : IsFiniteSet(G[i])
    <3>1. 2..(n + 1) \subseteq 1..(n + 1) OBVIOUS
    <3> QED BY <1>2, <3>1
  <2>3. IsFiniteSet(first) BY <1>4, <2>1, FinitePairs
  <2>4. IsFiniteSet(later) BY <1>4, <2>2, FinitePairs
  <2>5. IsFiniteSet(moved) BY <1>4, <2>1, FinitePairs
  <2> QED BY <2>3, <2>4, <2>5
<1>7. Cardinality(all) = Cardinality(first) + size[n + 1]
  <2>1. 1..(n + 1) = (1..n) \cup {n + 1} /\ n + 1 \notin 1..n /\ n + 1 \in 1..(n + 1) OBVIOUS
  <2>2. IsFiniteSet(G[n + 1]) /\ Cardinality(G[n + 1]) = size[n + 1] BY <1>2, <2>1
  <2>3. Cardinality(PairsOf(G, (1..n) \cup {n + 1})) = Cardinality(PairsOf(G, 1..n)) + Cardinality(G[n + 1])
    BY <1>6, <2>1, <2>2, OneMorePairs
  <2> QED BY <2>1, <2>2, <2>3
<1>8. Cardinality(all) = Cardinality(later) + size[1]
  <2>1. 1..(n + 1) = (2..(n + 1)) \cup {1} /\ 1 \notin 2..(n + 1) /\ 1 \in 1..(n + 1) OBVIOUS
  <2>2. IsFiniteSet(G[1]) /\ Cardinality(G[1]) = size[1] BY <1>2, <2>1
  <2>3. Cardinality(PairsOf(G, (2..(n + 1)) \cup {1})) = Cardinality(PairsOf(G, 2..(n + 1))) + Cardinality(G[1])
    BY <1>6, <2>1, <2>2, OneMorePairs
  <2> QED BY <2>1, <2>2, <2>3
<1>9. Cardinality(moved) = Cardinality(later)
  <2> DEFINE f == [p \in moved |-> <<p[1] + 1, p[2]>>]
  <2>1. ASSUME NEW p \in moved PROVE p[1] \in 1..n /\ p[2] \in F[p[1]] /\ p = <<p[1], p[2]>>
    <3>1. PICK i \in 1..n : p \in {i} \X F[i] BY DEF PairsOf
    <3> QED BY <3>1
  <2>2. ASSUME NEW q \in later PROVE q[1] \in 2..(n + 1) /\ q[2] \in G[q[1]] /\ q = <<q[1], q[2]>>
    <3>1. PICK i \in 2..(n + 1) : q \in {i} \X G[i] BY DEF PairsOf
    <3> QED BY <3>1
  <2>3. ASSUME NEW i \in 1..n, NEW y \in F[i] PROVE <<i, y>> \in moved /\ <<i + 1, y>> \in later
    <3>1. <<i, y>> \in {i} \X F[i] /\ <<i + 1, y>> \in {i + 1} \X G[i + 1] BY <1>3
    <3>2. i + 1 \in 2..(n + 1) OBVIOUS
    <3> QED BY <3>1, <3>2 DEF PairsOf
  <2> HIDE DEF moved, later
  <2>4. f \in [moved -> later]
    <3>1. ASSUME NEW p \in moved PROVE <<p[1] + 1, p[2]>> \in later BY <2>1, <2>3
    <3> QED BY <3>1
  <2>5. ASSUME NEW p \in moved, NEW q \in moved, f[p] = f[q] PROVE p = q
    <3>1. p[1] + 1 = q[1] + 1 /\ p[2] = q[2] BY <2>5
    <3>2. p[1] = q[1] BY <2>1, <3>1
    <3> QED BY <2>1, <3>1, <3>2
  <2>6. ASSUME NEW q \in later PROVE \E p \in moved : f[p] = q
    <3>1. q[1] - 1 \in 1..n /\ (q[1] - 1) + 1 = q[1] BY <2>2
    <3>2. q[2] \in F[q[1] - 1] BY <1>3, <2>2, <3>1
    <3>3. <<q[1] - 1, q[2]>> \in moved BY <2>3, <3>1, <3>2
    <3>4. f[<<q[1] - 1, q[2]>>] = <<q[1], q[2]>> BY <3>1, <3>3
    <3> QED BY <2>2, <3>3, <3>4
  <2> HIDE DEF f
  <2>7. f \in Injection(moved, later) BY <2>4, <2>5, Fun_IsInj
  <2>8. f \in Surjection(moved, later) BY <2>4, <2>6, Fun_IsSurj
  <2> QED BY <1>6, <2>7, <2>8, FS_Injection
<1>10. Cardinality(first) \in Nat /\ Cardinality(later) \in Nat /\ Cardinality(moved) \in Nat
  BY <1>6, FS_CardinalityType
<1>11. size[1] \in Nat /\ size[n + 1] \in Nat OBVIOUS
<1> QED BY <1>5, <1>7, <1>8, <1>9, <1>10, <1>11

\* There are fewer steps in a set of neighbours than members.
LEMMA FewerSteps ==
    ASSUME NEW U \in SUBSET Nat, IsFiniteSet(U), NEW D \in SUBSET U, \A i \in D : i + 1 \in U
    PROVE  Cardinality(D) < Cardinality(U) \/ Cardinality(D) = 0
<1>1. CASE D = {} BY <1>1, FS_EmptySet
<1>2. CASE D # {}
  <2>1. PICK d \in D : \A i \in D : d <= i BY <1>2, LeastNumber
  <2> DEFINE f == [i \in D |-> i + 1]
             R == U \ {d}
  <2>2. f \in [D -> R]
    <3>1. ASSUME NEW i \in D PROVE i + 1 \in R
      <4>1. d <= i /\ i \in Nat /\ d \in Nat BY <2>1
      <4> QED BY <4>1
    <3> HIDE DEF R
    <3> QED BY <3>1
  <2>3. \A i, j \in D : f[i] = f[j] => i = j OBVIOUS
  <2>4. IsFiniteSet(R) /\ Cardinality(R) = Cardinality(U) - 1 BY <2>1, FS_RemoveElement
  <2> HIDE DEF f, R
  <2>5. f \in Injection(D, R) BY <2>2, <2>3, Fun_IsInj
  <2>6. IsFiniteSet(D) /\ Cardinality(D) <= Cardinality(R) BY <2>4, <2>5, FS_Injection
  <2>7. Cardinality(D) \in Nat /\ Cardinality(U) \in Nat BY <2>6, FS_CardinalityType
  <2> QED BY <2>4, <2>6, <2>7
<1> QED BY <1>1, <1>2

\* What can be compared are reports.
LEMMA SavedReports ==
    ASSUME CompareInv
    PROVE  /\ Len(saved) \in Nat /\ DOMAIN saved = 1..Len(saved)
           /\ \A i \in DOMAIN saved : IsReport(saved[i]) /\ saved[i].configResults \in Seq(Outcome)
           /\ \A i \in DOMAIN CompareAll :
                 /\ i \in Nat /\ i \in DOMAIN saved /\ i + 1 \in DOMAIN saved
                 /\ saved[i].readable /\ saved[i + 1].readable
                 /\ CompareAll[i] = CompareReports(saved[i], saved[i + 1])
<1>1. saved \in Seq(Readable) BY DEF CompareInv
<1>2. Len(saved) \in Nat /\ DOMAIN saved = 1..Len(saved) BY <1>1
<1>3. \A i \in DOMAIN saved : saved[i] \in Readable BY <1>1
<1>4. \A r \in Readable : IsReport(r) /\ r.configResults \in Seq(Outcome) BY DEF Readable
<1>5. ASSUME NEW i \in DOMAIN CompareAll
      PROVE  /\ i \in Nat /\ i \in DOMAIN saved /\ i + 1 \in DOMAIN saved
             /\ saved[i].readable /\ saved[i + 1].readable
             /\ CompareAll[i] = CompareReports(saved[i], saved[i + 1])
  <2>1. i \in 1..(Len(saved) - 1) /\ saved[i].readable /\ saved[i + 1].readable BY DEF CompareAll
  <2>2. CompareAll[i] = CompareReports(saved[i], saved[i + 1]) BY DEF CompareAll
  <2> QED BY <1>2, <2>1, <2>2
<1> QED BY <1>2, <1>3, <1>4, <1>5

\* A test saves a report.
LEMMA SaveKeepsReports == CompareInv /\ [CompareNext]_saved => CompareInv'
<1> SUFFICES ASSUME CompareInv, [CompareNext]_saved PROVE CompareInv' OBVIOUS
<1>1. saved \in Seq(Readable) BY DEF CompareInv
<1>2. CASE UNCHANGED saved BY <1>2 DEF CompareInv
<1>3. CASE SaveOther
  <2>1. saved' = Append(saved, Unreadable) BY <1>3 DEF SaveOther
  <2>2. Unreadable \in [readable : BOOLEAN, configResults : Seq(Outcome)] BY DEF Unreadable
  <2>3. Unreadable.configResults = <<>> BY DEF Unreadable
  <2>4. Unreadable \in Readable BY <2>2, <2>3 DEF Readable, IsReport
  <2> QED BY <1>1, <2>1, <2>4 DEF CompareInv
<1>4. CASE SaveTest
  <2>1. PICK cs \in SUBSET Links : \E outcome \in [cs -> UNION {Outcomes(c) : c \in cs}] :
          /\ \A c \in cs : outcome[c].config = c
          /\ saved' = Append(saved, ReportOf([i \in 1..Cardinality(cs) |-> outcome[SetToSeq(cs)[i]]]))
    BY <1>4 DEF SaveTest
  <2>2. PICK outcome \in [cs -> UNION {Outcomes(c) : c \in cs}] :
          /\ \A c \in cs : outcome[c].config = c
          /\ saved' = Append(saved, ReportOf([i \in 1..Cardinality(cs) |-> outcome[SetToSeq(cs)[i]]]))
    BY <2>1
  <2> DEFINE n == Cardinality(cs)
             s == SetToSeq(cs)
             q == [i \in 1..n |-> outcome[s[i]]]
  <2>3. IsFiniteSet(cs) /\ n \in Nat BY ComparisonAssumption, FS_Subset, FS_CardinalityType
  <2>4. s \in [1..n -> cs] /\ \A i, j \in 1..n : s[i] = s[j] => i = j
    <3>1. PICK f \in Bijection(1..n, cs) : TRUE
      <4>1. ExistsBijection(1..n, cs) BY <2>3, FS_CardinalityType
      <4> QED BY <4>1 DEF ExistsBijection
    <3> HIDE DEF n
    <3>2. f \in [1..n -> cs] BY <3>1 DEF Bijection, Injection
    <3>3. IsInjective(f) BY <3>1 DEF Bijection, Injection
    <3>4. \E g \in [1..n -> cs] : IsInjective(g) BY <3>2, <3>3
    <3>5. s \in [1..n -> cs] /\ IsInjective(s) BY <3>4 DEF SetToSeq, n
    <3> QED BY <3>5 DEF IsInjective
  <2>5. \A c \in cs : outcome[c] \in Outcome /\ outcome[c].config = c
    <3> SUFFICES ASSUME NEW c \in cs PROVE outcome[c] \in Outcome BY <2>2
    <3>1. PICK d \in cs : outcome[c] \in Outcomes(d) OBVIOUS
    <3>2. \A t \in Outcomes(d) : t \in Outcome BY DEF Outcomes, Result, Outcome
    <3> QED BY <3>1, <3>2
  <2> HIDE DEF n, s
  <2>6. \A i \in 1..n : q[i] = outcome[s[i]] /\ q[i] \in Outcome /\ q[i].config = s[i] BY <2>4, <2>5
  <2>7. q \in Seq(Outcome) /\ DOMAIN q = 1..n
    <3>1. q \in [1..n -> Outcome] BY <2>6
    <3> HIDE DEF q
    <3> QED BY <2>3, <3>1
  <2>8. saved' = Append(saved, ReportOf(q)) BY <2>2 DEF n, s
  <2> HIDE DEF q
  <2>9. \A i, j \in DOMAIN q : q[i].config = q[j].config => i = j BY <2>4, <2>6, <2>7
  <2>10. ReportOf(q) \in Readable BY <2>7, <2>9 DEF ReportOf, Readable, IsReport
  <2> QED BY <1>1, <2>8, <2>10 DEF CompareInv
<1> QED BY <1>2, <1>3, <1>4 DEF CompareNext

\* Comparisons count what they list, and the trend what is between the first
\* report and the last; CompareLatest has the last step of it backwards.
THEOREM TrendsAddUp == CompareSpec => []TrendAddsUp
<1>1. CompareInv => TrendAddsUp
  <2> SUFFICES ASSUME CompareInv PROVE TrendAddsUp OBVIOUS
  <2> DEFINE all == CompareAll
             n   == Len(saved)
  <2>1. ASSUME NEW i \in DOMAIN all
        PROVE  /\ all[i].added = Cardinality(all[i].new) /\ all[i].removed = Cardinality(all[i].lost)
               /\ all[i].improved \cap all[i].declined = {}
               /\ Cardinality(all[i].improved \cup all[i].declined) <= all[i].unchanged
               /\ all[i].improved \cup all[i].declined \subseteq ConfigsOf(saved[i]) \cap ConfigsOf(saved[i + 1])
               /\ all[i].added - all[i].removed = Len(saved[i + 1].configResults) - Len(saved[i].configResults)
    <3> DEFINE a == saved[i]
               b == saved[i + 1]
               C == ConfigsOf(a) \cap ConfigsOf(b)
    <3>1. IsReport(a) /\ IsReport(b) /\ all[i] = CompareReports(a, b) BY SavedReports
    <3> HIDE DEF a, b
    <3>2. /\ all[i].new = NewConfigs(a, b) /\ all[i].lost = LostConfigs(a, b)
          /\ all[i].added = ConfigsAdded(a, b) /\ all[i].removed = ConfigsRemoved(a, b)
          /\ all[i].unchanged = ConfigsUnchanged(a, b)
      BY <3>1 DEF CompareReports
    <3>3. /\ all[i].improved \cap all[i].declined = {}
          /\ all[i].improved \cup all[i].declined \in SUBSET C
      BY <3>1, ChangeBack
    <3>4. IsFiniteSet(C) /\ Cardinality(C) = all[i].unchanged
      <4>1. IsFiniteSet(ConfigsOf(a)) /\ C \in SUBSET ConfigsOf(a) BY <3>1, LinesOfAReport
      <4>2. IsFiniteSet(C) BY <4>1, FS_Subset
      <4> QED BY <3>1, <3>2, <4>2, CountsAgree
    <3>5. Cardinality(all[i].improved \cup all[i].declined) <= Cardinality(C)
      <4> HIDE DEF C, all
      <4> QED BY <3>3, <3>4, FS_Subset
    <3>6. /\ ConfigsAdded(a, b) = Cardinality(NewConfigs(a, b))
          /\ ConfigsRemoved(a, b) = Cardinality(LostConfigs(a, b))
          /\ ConfigsAdded(a, b) - ConfigsRemoved(a, b) =
                Len(b.configResults) - Len(a.configResults)
      BY <3>1, CountsAgree
    <3> QED BY <3>2, <3>3, <3>4, <3>5, <3>6 DEF a, b
  <2>2. ASSUME saved # <<>>, \A i \in DOMAIN saved : saved[i].readable
        PROVE  TotalConfigChange(all) = Len(Last(saved).configResults) - Len(saved[1].configResults)
    <3> DEFINE k    == n - 1
               size == [i \in 1..(k + 1) |-> Len(saved[i].configResults)]
               m    == [i \in DOMAIN all |-> all[i].added - all[i].removed]
    <3>1. n \in Nat /\ n > 0 /\ DOMAIN saved = 1..n BY <2>2, SavedReports DEF CompareInv
    <3>2. k \in Nat /\ k + 1 = n BY <3>1
    <3>3. DOMAIN all = 1..k
      <4>1. \A i \in 1..k : i \in DOMAIN saved /\ i + 1 \in DOMAIN saved BY <3>1
      <4> QED BY <2>2, <4>1 DEF CompareAll
    <3>4. size \in [1..(k + 1) -> Nat]
      <4>1. \A i \in 1..(k + 1) : saved[i].configResults \in Seq(Outcome) BY <3>1, <3>2, SavedReports
      <4>2. \A i \in 1..(k + 1) : Len(saved[i].configResults) \in Nat BY <4>1
      <4> QED BY <4>2
    <3>5. m = [i \in 1..k |-> size[i + 1] - size[i]]
      <4>1. \A i \in 1..k : size[i + 1] = Len(saved[i + 1].configResults) /\ size[i] = Len(saved[i].configResults)
        BY <3>2
      <4>2. \A i \in 1..k : all[i].added - all[i].removed = size[i + 1] - size[i] BY <2>1, <3>3, <4>1
      <4> HIDE DEF size, all
      <4> QED BY <3>3, <4>2
    <3>6. SumFunction(m) = size[k + 1] - size[1]
      <4> HIDE DEF size, m, k
      <4> QED BY <3>2, <3>4, <3>5, SumTelescopes
    <3>7. size[k + 1] = Len(Last(saved).configResults) /\ size[1] = Len(saved[1].configResults)
      BY <3>1, <3>2 DEF Last
    <3> QED BY <3>6, <3>7 DEF TotalConfigChange
  <2>3. ASSUME NEW c \in Links
        PROVE  DataPoints(all, c) < Cardinality({i \in DOMAIN saved : c \in ConfigsOf(saved[i])})
               \/ DataPoints(all, c) = 0
    <3> DEFINE U == {i \in DOMAIN saved : c \in ConfigsOf(saved[i])}
               D == {i \in DOMAIN all : c \in all[i].improved \cup all[i].declined}
    <3>1. U \in SUBSET Nat /\ IsFiniteSet(U)
      <4>1. n \in Nat /\ DOMAIN saved = 1..n BY SavedReports
      <4>2. IsFiniteSet(1..n) /\ U \in SUBSET (1..n) BY <4>1, FS_Interval
      <4>3. IsFiniteSet(U) BY <4>2, FS_Subset
      <4> QED BY <4>2, <4>3
    <3>2. ASSUME NEW i \in D PROVE i \in U /\ i + 1 \in U
      <4>1. i \in DOMAIN all /\ c \in ConfigsOf(saved[i]) \cap ConfigsOf(saved[i + 1]) BY <2>1
      <4>2. i \in DOMAIN saved /\ i + 1 \in DOMAIN saved BY <4>1, SavedReports
      <4> QED BY <4>1, <4>2
    <3> HIDE DEF U, D
    <3>3. Cardinality(D) < Cardinality(U) \/ Cardinality(D) = 0 BY <3>1, <3>2, FewerSteps
    <3> QED BY <3>3 DEF DataPoints, U, D
  <2>4. ASSUME n > 1, Last(saved).readable, saved[n - 1].readable
        PROVE  /\ CompareLatest.new = all[n - 1].lost /\ CompareLatest.lost = all[n - 1].new
               /\ CompareLatest.improved = all[n - 1].declined
               /\ CompareLatest.declined = all[n - 1].improved
    <3> DEFINE a == saved[n - 1]
               b == saved[n]
    <3>1. n \in Nat /\ DOMAIN saved = 1..n BY SavedReports
    <3>2. n - 1 \in DOMAIN all /\ (n - 1) + 1 = n BY <2>4, <3>1 DEF CompareAll, Last
    <3>3. IsReport(a) /\ IsReport(b) /\ all[n - 1] = CompareReports(a, b) BY <3>2, SavedReports
    <3>4. CompareLatest = CompareReports(b, a) BY DEF CompareLatest
    <3> HIDE DEF a, b, all
    <3> QED BY <3>3, <3>4, ChangeBack
  <2> HIDE DEF all
  <2>5. saved # <<>> /\ (\A i \in DOMAIN saved : saved[i].readable) =>
              TotalConfigChange(all) = Len(Last(saved).configResults) - Len(saved[1].configResults)
    BY <2>2
  <2>6. n > 1 /\ Last(saved).readable /\ saved[n - 1].readable =>
              LET step == all[n - 1]
              IN  /\ CompareLatest.new = step.lost /\ CompareLatest.lost = step.new
                  /\ CompareLatest.improved = step.declined
                  /\ CompareLatest.declined = step.improved
    BY <2>4
  <2> QED BY <2>1, <2>3, <2>5, <2>6 DEF TrendAddsUp, all
<1>2. CompareInit => CompareInv BY DEF CompareInit, CompareInv
<1> QED BY <1>1, <1>2, SaveKeepsReports, PTL DEF CompareSpec


=============================================================================
