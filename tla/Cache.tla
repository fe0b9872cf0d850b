-------------------------------- MODULE Cache --------------------------------
(***************************************************************************)
(* internal/cache: a map with expiry behind a read-write lock, the callers *)
(* that look a key up and load what is missing (CachedFetcher and          *)
(* ContextCache), and the file it is saved to, periodically or on demand,  *)
(* and read from by the next process.                                      *)
(*                                                                         *)
(* Get leaves the read lock to note the access and then stores the copy of *)
(* the entry that it read.  Several goroutines may save under the read     *)
(* lock, all by way of one temporary file.  A value is known by its        *)
(* number; the time of the last access, which nothing reads, is left out.  *)
(***************************************************************************)
EXTENDS Naturals, Sequences

CONSTANTS Keys,
          Users,    \* the goroutines that use the cache
          TTLs,     \* the lifetimes that Set and SetWithTTL are called with
          MaxSets,  \* bound on the values
          MaxTime   \* bound on the clock, two units of which are a second

ASSUME CacheAssumption == TTLs \subseteq Nat /\ MaxSets \in Nat /\ MaxTime \in Nat

Entry(v, t) == [value |-> v, expiresAt |-> t]
NoEntry     == Entry(0, 0)
NoEntries   == [k \in Keys |-> NoEntry]

\* What a file holds: a whole snapshot, or not.
Whole(entries) == [whole |-> TRUE, entries |-> entries]
Cut            == [whole |-> FALSE, entries |-> NoEntries]

VARIABLES
    now,
    data,     \* the map; NoEntry where there is none
    call,     \* of a user: "idle", "touch" in Get after RUnlock, "load" in Fetch or
              \* GetOrLoad, "write" and "rename" in SaveToDisk, "merge" in LoadFromDisk
    key,      \* the key it is about
    held,     \* the entries it has read, as a map
    fd,       \* the file that a user has open to write, "none" if it has no name any more
    disk,     \* the files "tmp" and "path"
    exists,   \* which of them are there
    due,      \* history: when each value was to expire
    crowd,    \* history: two saves have been under way at once since none was
    spoiled   \* history: one of those ended, or its process, before it had written

cacheVars == <<now, data, call, key, held, fd, disk, exists, due, crowd, spoiled>>

CacheInit ==
    /\ now = 0
    /\ data = NoEntries
    /\ call = [u \in Users |-> "idle"]
    /\ key \in [Users -> {CHOOSE k \in Keys : TRUE}]
    /\ held = [u \in Users |-> NoEntries]
    /\ fd = [u \in Users |-> "none"]
    /\ disk = [f \in {"tmp", "path"} |-> Cut]
    /\ exists = {}
    /\ due = <<>>
    /\ crowd = FALSE
    /\ spoiled = FALSE

Becomes(u, c) == call' = [call EXCEPT ![u] = c]
Saving        == \E u \in Users : call[u] \in {"write", "rename"}

\* Lock waits for every reader.
PutEntry(k, entry) == ~Saving /\ data' = [data EXCEPT ![k] = entry]

\* Set and SetWithTTL.
Store(k) ==
    \E ttl \in TTLs :
        /\ Len(due) < MaxSets
        /\ due' = Append(due, now + ttl)
        /\ PutEntry(k, Entry(Len(due'), now + ttl))

Set(u, k) ==
    /\ call[u] = "idle"
    /\ Store(k)
    /\ UNCHANGED <<now, call, key, held, fd, disk, exists, crowd, spoiled>>

Delete(u, k) ==
    /\ call[u] = "idle"
    /\ PutEntry(k, NoEntry)
    /\ UNCHANGED <<now, call, key, held, fd, disk, exists, due, crowd, spoiled>>

Clear(u) ==
    /\ call[u] = "idle"
    /\ ~Saving
    /\ data' = NoEntries
    /\ UNCHANGED <<now, call, key, held, fd, disk, exists, due, crowd, spoiled>>

Expired(entry) == now > entry.expiresAt

Cleanup ==
    /\ ~Saving
    /\ data' = [k \in Keys |-> IF Expired(data[k]) THEN NoEntry ELSE data[k]]
    /\ UNCHANGED <<now, call, key, held, fd, disk, exists, due, crowd, spoiled>>

Hit(k) == data[k] # NoEntry /\ ~Expired(data[k])

GetHit(u, k) ==
    /\ call[u] = "idle"
    /\ Hit(k)
    /\ Becomes(u, "touch")
    /\ key' = [key EXCEPT ![u] = k]
    /\ held' = [held EXCEPT ![u] = data]
    /\ UNCHANGED <<now, data, fd, disk, exists, due, crowd, spoiled>>

\* The entry is stored again, and returned.
Touch(u) ==
    LET entry == held[u][key[u]]
    IN  /\ call[u] = "touch"
        /\ PutEntry(key[u], entry)
        /\ Becomes(u, "idle")
        /\ held' = [held EXCEPT ![u] = NoEntries]
        /\ UNCHANGED <<now, key, fd, disk, exists, due, crowd, spoiled>>

\* Fetch, GetOrLoad and GetOrLoadWithTTL load what Get does not have.
FetchMiss(u, k) ==
    /\ call[u] = "idle"
    /\ ~Hit(k)
    /\ Becomes(u, "load")
    /\ key' = [key EXCEPT ![u] = k]
    /\ UNCHANGED <<now, data, held, fd, disk, exists, due, crowd, spoiled>>

Load(u) ==
    /\ call[u] = "load"
    /\ Becomes(u, "idle")
    /\ Store(key[u]) \/ UNCHANGED <<data, due>>
    /\ UNCHANGED <<now, key, held, fd, disk, exists, crowd, spoiled>>

\* Mutant: times are rounded up.
SnapshotRoundedUp == [k \in Keys |-> [data[k] EXCEPT !.expiresAt = @ + (@ % 2)]]

\* SaveToDisk.  Times are written in whole seconds.  WriteFile truncates the
\* temporary file, if another call has made it, and then writes it.
Snapshot == [k \in Keys |-> [data[k] EXCEPT !.expiresAt = @ - (@ % 2)]]

BeginSave(u) ==
    /\ call[u] = "idle"
    /\ Becomes(u, "write")
    /\ crowd' = Saving
    /\ fd' = [fd EXCEPT ![u] = "tmp"]
    /\ disk' = [disk EXCEPT !["tmp"] = Cut]
    /\ exists' = exists \cup {"tmp"}
    /\ UNCHANGED <<now, data, key, held, due, spoiled>>

WriteTmp(u) ==
    /\ call[u] = "write"
    /\ Becomes(u, "rename")
    /\ disk' = [f \in DOMAIN disk |-> IF f = fd[u] THEN Whole(Snapshot) ELSE disk[f]]
    /\ fd' = [fd EXCEPT ![u] = "none"]
    /\ UNCHANGED <<now, data, key, held, exists, due, crowd, spoiled>>

\* WriteFile fails, perhaps in the middle, and SaveToDisk leaves the file there.
WriteFails(u) ==
    /\ call[u] = "write"
    /\ Becomes(u, "idle")
    /\ \/ UNCHANGED disk
       \/ disk' = [f \in DOMAIN disk |-> IF f = fd[u] THEN Cut ELSE disk[f]]
    /\ fd' = [fd EXCEPT ![u] = "none"]
    /\ spoiled' = (spoiled \/ crowd)
    /\ UNCHANGED <<now, data, key, held, exists, due, crowd>>

\* Mutant: the error of WriteFile is not looked at.
RenameWhatIsThere(u) ==
    /\ call[u] \in {"write", "rename"}
    /\ Becomes(u, "idle")
    /\ IF "tmp" \in exists
       THEN /\ disk' = [disk EXCEPT !["path"] = disk["tmp"], !["tmp"] = Cut]
            /\ exists' = {"path"}
            /\ spoiled' = (spoiled /\ crowd)
            /\ fd' = [o \in Users |-> IF o # u /\ fd[o] = "tmp" THEN "path" ELSE "none"]
       ELSE UNCHANGED <<disk, exists, fd, spoiled>>
    /\ UNCHANGED <<now, data, key, held, due, crowd>>

\* A user that still writes the file writes it under its new name.
Rename(u) ==
    /\ call[u] = "rename"
    /\ Becomes(u, "idle")
    /\ IF "tmp" \in exists
       THEN /\ disk' = [disk EXCEPT !["path"] = disk["tmp"], !["tmp"] = Cut]
            /\ exists' = {"path"}
            /\ spoiled' = (spoiled /\ crowd)
            /\ fd' = [o \in Users |-> IF fd[o] = "tmp" THEN "path" ELSE "none"]
       ELSE UNCHANGED <<disk, exists, fd, spoiled>>
    /\ UNCHANGED <<now, data, key, held, due, crowd>>

\* LoadFromDisk reads the file, if it is there and whole, ...
ReadFile(u) ==
    /\ call[u] = "idle"
    /\ "path" \in exists
    /\ disk["path"].whole
    /\ Becomes(u, "merge")
    /\ held' = [held EXCEPT ![u] = disk["path"].entries]
    /\ UNCHANGED <<now, data, key, fd, disk, exists, due, crowd, spoiled>>

\* ... and its entries replace those of the map.
Merge(u) ==
    /\ call[u] = "merge"
    /\ ~Saving
    /\ Becomes(u, "idle")
    /\ data' = [k \in Keys |-> IF held[u][k] = NoEntry THEN data[k] ELSE held[u][k]]
    /\ held' = [held EXCEPT ![u] = NoEntries]
    /\ UNCHANGED <<now, key, fd, disk, exists, due, crowd, spoiled>>

Later ==
    /\ now < MaxTime
    /\ now' = now + 1
    /\ UNCHANGED <<data, call, key, held, fd, disk, exists, due, crowd, spoiled>>

\* The process ends, and the next one starts with an empty map.
CacheRestart ==
    /\ data' = NoEntries
    /\ call' = [u \in Users |-> "idle"]
    /\ held' = [u \in Users |-> NoEntries]
    /\ spoiled' = (spoiled \/ (Saving /\ crowd))
    /\ fd' = [u \in Users |-> "none"]
    /\ UNCHANGED <<now, key, disk, exists, due, crowd>>

CacheNext ==
    \/ Cleanup \/ Later \/ CacheRestart
    \/ \E u \in Users : \/ Clear(u) \/ Touch(u) \/ Load(u) \/ BeginSave(u) \/ WriteTmp(u)
                        \/ WriteFails(u) \/ Rename(u) \/ ReadFile(u) \/ Merge(u)
                        \/ \E k \in Keys : \/ Set(u, k) \/ Delete(u, k)
                                           \/ GetHit(u, k) \/ FetchMiss(u, k)

CacheSpec == CacheInit /\ [][CacheNext]_cacheVars

(***************************************************************************)
(* Properties.                                                             *)
(***************************************************************************)
\* Whatever overtakes a Get, is taken over from the file or survives a restart,
\* no entry that a Get can return lives longer than its Set allowed
\* (cache.go:57, 208: a copy goes back into the map without its age).
NothingOutlivesItsTTL ==
    \A k \in Keys :
        LET InTime(entries) == entries[k] = NoEntry \/ entries[k].expiresAt <= due[entries[k].value]
        IN  InTime(data) /\ InTime(disk["path"].entries) /\ \A u \in Users : InTime(held[u])

\* The saved file is whole, unless one of several SaveToDisk at once has it open to
\* write, or ended before it had written (WriteFile failed, or the process was over):
\* another may have put its cut file into place (cache.go:163).  A save that runs
\* alone, though it fails or dies at any step, never leaves a cut file in place, and
\* mends what a crowd has left.
SavedFileIsWhole ==
    "path" \in exists /\ ~disk["path"].whole =>
        \/ \E u \in Users : call[u] = "write" /\ fd[u] = "path"
        \/ spoiled
==============================================================================
