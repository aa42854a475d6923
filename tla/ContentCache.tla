---------------------------- MODULE ContentCache ----------------------------
(***************************************************************************)
(* The bounded on-disk LRU content cache (pkg/cache, Cache) together with *)
(* its only client, FileSystem.ReadFile (pkg/remotefs/fs.go), which calls *)
(* LoadOrCreate with a fetch callback that runs S3Store.Download, reopens *)
(* the returned path and calls Touch.  Every IPC /cat request runs one     *)
(* ReadFile on its own goroutine: a process of this module.               *)
(*                                                                         *)
(* The cache lock c.mu is the variable lock.  The lookup (the first        *)
(* critical section of LoadOrCreate), Touch and Remove are single steps   *)
(* taken with the lock free; the insertion critical section holds the     *)
(* lock across one step per iteration of the ensureCapacity loop.  The    *)
(* fetch runs outside the lock, one step per WriteAt chunk.               *)
(*                                                                         *)
(* The cache directory is dir: keyPath(key) (SHA-256 of the key, so       *)
(* injective) is the key itself, and dir[k] is the inode the path names.  *)
(* ino[i] is the content of inode i: its length and the set of offsets     *)
(* that hold the object's bytes (a truncated or holed file has fewer).    *)
(* A process that holds an open *os.File holds the inode in fd, so a      *)
(* racer's O_TRUNC on the same path is visible to it while a racer's      *)
(* os.Remove of the path is not.                                          *)
(*                                                                         *)
(* The LRU list order is a sequence of keys, front first.  The code keeps *)
(* list elements; entries[k].elem is always the first occurrence of k in  *)
(* order (it is pushed at the front, moved to the front, and removed with *)
(* the entry), so MoveToFront(entry.elem) is MoveToFront of the first     *)
(* occurrence and a stale duplicate element is a later occurrence.        *)
(***************************************************************************)
EXTENDS Integers, Sequences, FiniteSets, Functions

CONSTANTS
    Procs,        \* goroutines calling ReadFile (one per /cat request)
    Keys,         \* relative keys of the remote objects
    ObjSize,      \* ObjSize[k]: length of object k, in download chunks
    MaxBytes,     \* Cache.maxBytes, in chunks; 0 disables the quota
    ReadKeys,     \* ReadKeys[p]: the keys process p may read
    Inodes,       \* inode identities available to the cache directory
    NoInode,      \* no file / no open descriptor
    NoEntry,      \* key absent from c.entries
    NoProc,       \* c.mu is free
    MaxRestarts   \* bound: number of process restarts in a behaviour

ASSUME ConstAssumption ==
    /\ Keys # {}
    /\ ObjSize \in [Keys -> Nat \ {0}]
    /\ MaxBytes \in Nat
    /\ ReadKeys \in [Procs -> SUBSET Keys]
    /\ NoInode \notin Inodes
    /\ NoProc \notin Procs
    /\ NoEntry \notin Nat
    /\ IsFiniteSet(Keys) /\ IsFiniteSet(Procs) /\ IsFiniteSet(Inodes)
    /\ Cardinality(Inodes) >= Cardinality(Keys) + Cardinality(Procs)
    /\ MaxRestarts \in Nat

VARIABLES
    entries,   \* c.entries: entries[k] is the recorded size, or NoEntry
    order,     \* c.order: keys of the LRU list, front (most recent) first
    used,      \* c.used
    lock,      \* holder of c.mu, or NoProc
    dir,       \* dir[k]: inode at keyPath(k) in the cache directory
    ino,       \* ino[i]: [len, valid] content of inode i
    pc,        \* program counter of each ReadFile goroutine
    rkey,      \* rkey[p]: the key ReadFile(p) serves
    fd,        \* fd[p]: inode of p's open *os.File, or NoInode
    off,       \* off[p]: next WriteAt offset of p's Download
    fsize,     \* fsize[p]: size p read with file.Stat
    restarts   \* restarts so far

vars == <<entries, order, used, lock, dir, ino, pc, rkey, fd, off, fsize, restarts>>

PCs == {"idle", "open", "fetch", "lock", "evict", "reopen", "touch", "reading"}

EmptyFile == [len |-> 0, valid |-> {}]

Resident == {k \in Keys : entries[k] # NoEntry}

\* The inode k's object fully occupies: every offset written, no more.
Complete(i, k) == ino[i].len = ObjSize[k] /\ ino[i].valid = 0..(ObjSize[k] - 1)

\* Inodes neither named in the directory nor open: free to allocate.
FreeInodes == {i \in Inodes : i \notin Range(dir) /\ \A q \in Procs : fd[q] # i}

\* Position of the first occurrence of k in s.
FirstIndex(s, k) == CHOOSE i \in 1..Len(s) : s[i] = k /\ \A j \in 1..(i - 1) : s[j] # k

\* list.Remove of the element at position i.
RemoveIndex(s, i) == [j \in 1..(Len(s) - 1) |-> IF j < i THEN s[j] ELSE s[j + 1]]

\* list.MoveToFront applied to the element of k's entry.
MoveToFront(s, k) == <<k>> \o RemoveIndex(s, FirstIndex(s, k))

Init ==
    /\ entries = [k \in Keys |-> NoEntry]
    /\ order = <<>>
    /\ used = 0
    /\ lock = NoProc
    /\ dir = [k \in Keys |-> NoInode]
    /\ ino = [i \in Inodes |-> EmptyFile]
    /\ pc = [p \in Procs |-> "idle"]
    /\ rkey = [p \in Procs |-> CHOOSE k \in Keys : TRUE]
    /\ fd = [p \in Procs |-> NoInode]
    /\ off = [p \in Procs |-> 0]
    /\ fsize = [p \in Procs |-> 0]
    /\ restarts = 0

-----------------------------------------------------------------------------
(* ReadFile(k) enters LoadOrCreate; the key is resident: it is moved to   *)
(* the front and its path returned.                                        *)
LookupHit(p, k) ==
    /\ pc[p] = "idle" /\ lock = NoProc
    /\ k \in ReadKeys[p]
    /\ entries[k] # NoEntry
    /\ order' = MoveToFront(order, k)
    /\ rkey' = [rkey EXCEPT ![p] = k]
    /\ pc' = [pc EXCEPT ![p] = "reopen"]
    /\ UNCHANGED <<entries, used, lock, dir, ino, fd, off, fsize, restarts>>

\* Mutant: the c.entries lookup is skipped and every request downloads.
LookupMissIgnoresEntry(p, k) ==
    /\ pc[p] = "idle" /\ lock = NoProc
    /\ k \in ReadKeys[p]
    /\ rkey' = [rkey EXCEPT ![p] = k]
    /\ pc' = [pc EXCEPT ![p] = "open"]
    /\ UNCHANGED <<entries, order, used, lock, dir, ino, fd, off, fsize, restarts>>

(* The key is not resident: compute its path and release the lock.        *)
LookupMiss(p, k) ==
    /\ pc[p] = "idle" /\ lock = NoProc
    /\ k \in ReadKeys[p]
    /\ entries[k] = NoEntry
    /\ rkey' = [rkey EXCEPT ![p] = k]
    /\ pc' = [pc EXCEPT ![p] = "open"]
    /\ UNCHANGED <<entries, order, used, lock, dir, ino, fd, off, fsize, restarts>>

(* os.OpenFile(path, O_CREATE|O_RDWR|O_TRUNC): opens and truncates the     *)
(* file already at the path, or creates one.                              *)
OpenFile(p) ==
    LET k == rkey[p]
        i == IF dir[k] # NoInode THEN dir[k] ELSE CHOOSE j \in FreeInodes : TRUE
    IN  /\ pc[p] = "open"
        /\ dir' = [dir EXCEPT ![k] = i]
        /\ ino' = [ino EXCEPT ![i] = EmptyFile]
        /\ fd' = [fd EXCEPT ![p] = i]
        /\ off' = [off EXCEPT ![p] = 0]
        /\ pc' = [pc EXCEPT ![p] = "fetch"]
        /\ UNCHANGED <<entries, order, used, lock, rkey, fsize, restarts>>

(* os.OpenFile fails: "open cache file" error, nothing created.           *)
OpenFail(p) ==
    /\ pc[p] = "open"
    /\ pc' = [pc EXCEPT ![p] = "idle"]
    /\ UNCHANGED <<entries, order, used, lock, dir, ino, rkey, fd, off, fsize, restarts>>

\* Mutant: Download forgets offset += n, every chunk lands at offset 0.
FetchChunkNoOffset(p) ==
    LET i == fd[p]
    IN  /\ pc[p] = "fetch" /\ off[p] < ObjSize[rkey[p]]
        /\ ino' = [ino EXCEPT ![i] = [len |-> IF 1 > ino[i].len THEN 1 ELSE ino[i].len,
                                      valid |-> ino[i].valid \cup {0}]]
        /\ off' = [off EXCEPT ![p] = off[p] + 1]
        /\ UNCHANGED <<entries, order, used, lock, dir, pc, rkey, fd, fsize, restarts>>

(* Download: one Body.Read chunk written with WriteAt at the offset.      *)
FetchChunk(p) ==
    LET i == fd[p]
    IN  /\ pc[p] = "fetch" /\ off[p] < ObjSize[rkey[p]]
        /\ ino' = [ino EXCEPT ![i] = [len |-> IF off[p] + 1 > ino[i].len
                                               THEN off[p] + 1 ELSE ino[i].len,
                                      valid |-> ino[i].valid \cup {off[p]}]]
        /\ off' = [off EXCEPT ![p] = off[p] + 1]
        /\ UNCHANGED <<entries, order, used, lock, dir, pc, rkey, fd, fsize, restarts>>

\* Mutant: Download returns nil on a read error, as if at EOF.
StatFileEarlyEOF(p) ==
    /\ pc[p] = "fetch"
    /\ fsize' = [fsize EXCEPT ![p] = ino[fd[p]].len]
    /\ pc' = [pc EXCEPT ![p] = "lock"]
    /\ UNCHANGED <<entries, order, used, lock, dir, ino, rkey, fd, off, restarts>>

(* Download reaches EOF and returns nil; the callback's f.Stat and        *)
(* LoadOrCreate's file.Stat read the current length of the open file.     *)
StatFile(p) ==
    /\ pc[p] = "fetch" /\ off[p] = ObjSize[rkey[p]]
    /\ fsize' = [fsize EXCEPT ![p] = ino[fd[p]].len]
    /\ pc' = [pc EXCEPT ![p] = "lock"]
    /\ UNCHANGED <<entries, order, used, lock, dir, ino, rkey, fd, off, restarts>>

\* Mutant: a failed fetch is retried from the open without a bound.
FetchFailRetry(p) ==
    /\ pc[p] = "fetch"
    /\ dir' = [dir EXCEPT ![rkey[p]] = NoInode]
    /\ fd' = [fd EXCEPT ![p] = NoInode]
    /\ pc' = [pc EXCEPT ![p] = "open"]
    /\ UNCHANGED <<entries, order, used, lock, ino, rkey, off, fsize, restarts>>

(* GetObject, a Body.Read or a WriteAt fails (or the object is missing),  *)
(* or a Stat fails: os.Remove(path), close the file, return the error.    *)
FetchFail(p) ==
    /\ pc[p] = "fetch"
    /\ dir' = [dir EXCEPT ![rkey[p]] = NoInode]
    /\ fd' = [fd EXCEPT ![p] = NoInode]
    /\ pc' = [pc EXCEPT ![p] = "idle"]
    /\ UNCHANGED <<entries, order, used, lock, ino, rkey, off, fsize, restarts>>

(* c.mu.Lock() before the accounting.                                     *)
Acquire(p) ==
    /\ pc[p] = "lock" /\ lock = NoProc
    /\ lock' = p
    /\ pc' = [pc EXCEPT ![p] = "evict"]
    /\ UNCHANGED <<entries, order, used, dir, ino, rkey, fd, off, fsize, restarts>>

\* Mutant: ensureCapacity compares c.used alone with the quota, not used + need.
OverQuotaIgnoresNeed(p) == MaxBytes > 0 /\ used > MaxBytes

\* The ensureCapacity loop condition for p's object.
OverQuota(p) == MaxBytes > 0 /\ used + fsize[p] > MaxBytes

\* Mutant: the eviction forgets c.used -= entry.size.
EvictOneKeepsUsed(p) ==
    LET t == order[Len(order)]
    IN  /\ pc[p] = "evict" /\ lock = p
        /\ OverQuota(p) /\ Len(order) > 0
        /\ entries[t] # NoEntry
        /\ dir' = [dir EXCEPT ![t] = NoInode]
        /\ entries' = [entries EXCEPT ![t] = NoEntry]
        /\ order' = RemoveIndex(order, Len(order))
        /\ UNCHANGED <<used, lock, ino, pc, rkey, fd, off, fsize, restarts>>

\* Mutant: the eviction forgets os.Remove(entry.path).
EvictOneKeepsFile(p) ==
    LET t == order[Len(order)]
    IN  /\ pc[p] = "evict" /\ lock = p
        /\ OverQuota(p) /\ Len(order) > 0
        /\ entries[t] # NoEntry
        /\ used' = used - entries[t]
        /\ entries' = [entries EXCEPT ![t] = NoEntry]
        /\ order' = RemoveIndex(order, Len(order))
        /\ UNCHANGED <<dir, lock, ino, pc, rkey, fd, off, fsize, restarts>>

\* Mutant: the eviction forgets delete(c.entries, key).
EvictOneKeepsEntry(p) ==
    LET t == order[Len(order)]
    IN  /\ pc[p] = "evict" /\ lock = p
        /\ OverQuota(p) /\ Len(order) > 0
        /\ entries[t] # NoEntry
        /\ dir' = [dir EXCEPT ![t] = NoInode]
        /\ used' = used - entries[t]
        /\ order' = RemoveIndex(order, Len(order))
        /\ UNCHANGED <<entries, lock, ino, pc, rkey, fd, off, fsize, restarts>>

(* One iteration of the ensureCapacity loop: evict the back of the list.  *)
EvictOne(p) ==
    LET t == order[Len(order)]
    IN  /\ pc[p] = "evict" /\ lock = p
        /\ OverQuota(p) /\ Len(order) > 0
        /\ entries[t] # NoEntry
        /\ dir' = [dir EXCEPT ![t] = NoInode]
        /\ used' = used - entries[t]
        /\ entries' = [entries EXCEPT ![t] = NoEntry]
        /\ order' = RemoveIndex(order, Len(order))
        /\ UNCHANGED <<lock, ino, pc, rkey, fd, off, fsize, restarts>>

\* Mutant: the panic path leaves c.mu locked, as it would without the defer.
EvictPanicKeepsLock(p) ==
    /\ pc[p] = "evict" /\ lock = p
    /\ OverQuota(p) /\ Len(order) > 0
    /\ entries[order[Len(order)]] = NoEntry
    /\ fd' = [fd EXCEPT ![p] = NoInode]
    /\ pc' = [pc EXCEPT ![p] = "idle"]
    /\ UNCHANGED <<entries, order, used, lock, dir, ino, rkey, off, fsize, restarts>>

(* The back element's key has no entry: entry is nil and entry.path       *)
(* panics.  The deferred Unlock and Close run; the goroutine ends.        *)
EvictPanic(p) ==
    /\ pc[p] = "evict" /\ lock = p
    /\ OverQuota(p) /\ Len(order) > 0
    /\ entries[order[Len(order)]] = NoEntry
    /\ lock' = NoProc
    /\ fd' = [fd EXCEPT ![p] = NoInode]
    /\ pc' = [pc EXCEPT ![p] = "idle"]
    /\ UNCHANGED <<entries, order, used, dir, ino, rkey, off, fsize, restarts>>

(* The list is empty and the object still does not fit: capacity error,  *)
(* os.Remove(path), unlock, close.                                        *)
InsertFail(p) ==
    /\ pc[p] = "evict" /\ lock = p
    /\ OverQuota(p) /\ Len(order) = 0
    /\ dir' = [dir EXCEPT ![rkey[p]] = NoInode]
    /\ lock' = NoProc
    /\ fd' = [fd EXCEPT ![p] = NoInode]
    /\ pc' = [pc EXCEPT ![p] = "idle"]
    /\ UNCHANGED <<entries, order, used, ino, rkey, off, fsize, restarts>>

\* Mutant: ensureCapacity returns nil after the loop without the final check.
InsertNoFinalCheck(p) ==
    /\ pc[p] = "evict" /\ lock = p
    /\ ~OverQuota(p) \/ Len(order) = 0
    /\ order' = <<rkey[p]>> \o order
    /\ entries' = [entries EXCEPT ![rkey[p]] = fsize[p]]
    /\ used' = used + fsize[p]
    /\ lock' = NoProc
    /\ fd' = [fd EXCEPT ![p] = NoInode]
    /\ pc' = [pc EXCEPT ![p] = "reopen"]
    /\ UNCHANGED <<dir, ino, rkey, off, fsize, restarts>>

(* The object fits: PushFront, record the entry, add to used, unlock,     *)
(* close the file and return the path.                                    *)
Insert(p) ==
    /\ pc[p] = "evict" /\ lock = p
    /\ ~OverQuota(p)
    /\ order' = <<rkey[p]>> \o order
    /\ entries' = [entries EXCEPT ![rkey[p]] = fsize[p]]
    /\ used' = used + fsize[p]
    /\ lock' = NoProc
    /\ fd' = [fd EXCEPT ![p] = NoInode]
    /\ pc' = [pc EXCEPT ![p] = "reopen"]
    /\ UNCHANGED <<dir, ino, rkey, off, fsize, restarts>>

(* ReadFile: os.Open(path) of the returned path.                          *)
Reopen(p) ==
    /\ pc[p] = "reopen" /\ dir[rkey[p]] # NoInode
    /\ fd' = [fd EXCEPT ![p] = dir[rkey[p]]]
    /\ pc' = [pc EXCEPT ![p] = "touch"]
    /\ UNCHANGED <<entries, order, used, lock, dir, ino, rkey, off, fsize, restarts>>

(* os.Open fails (the path is gone, or any other error).                  *)
ReopenFail(p) ==
    /\ pc[p] = "reopen"
    /\ pc' = [pc EXCEPT ![p] = "idle"]
    /\ UNCHANGED <<entries, order, used, lock, dir, ino, rkey, fd, off, fsize, restarts>>

(* ReadFile calls Touch(rel) and returns the handle.                      *)
Touch(p) ==
    /\ pc[p] = "touch" /\ lock = NoProc
    /\ \/ entries[rkey[p]] # NoEntry /\ order' = MoveToFront(order, rkey[p])
       \/ entries[rkey[p]] = NoEntry /\ UNCHANGED order
    /\ pc' = [pc EXCEPT ![p] = "reading"]
    /\ UNCHANGED <<entries, used, lock, dir, ino, rkey, fd, off, fsize, restarts>>

(* handleCat copies the handle to the response and closes it.             *)
CloseHandle(p) ==
    /\ pc[p] = "reading"
    /\ fd' = [fd EXCEPT ![p] = NoInode]
    /\ pc' = [pc EXCEPT ![p] = "idle"]
    /\ UNCHANGED <<entries, order, used, lock, dir, ino, rkey, off, fsize, restarts>>

\* Mutant: Remove forgets c.order.Remove(entry.elem).
RemoveKeepsElement(p, k) ==
    /\ pc[p] = "idle" /\ lock = NoProc
    /\ entries[k] # NoEntry
    /\ dir' = [dir EXCEPT ![k] = NoInode]
    /\ used' = used - entries[k]
    /\ entries' = [entries EXCEPT ![k] = NoEntry]
    /\ UNCHANGED <<order, lock, ino, pc, rkey, fd, off, fsize, restarts>>

(* Cache.Remove(k) of a resident key (of an absent key it returns).       *)
Remove(p, k) ==
    /\ pc[p] = "idle" /\ lock = NoProc
    /\ entries[k] # NoEntry
    /\ dir' = [dir EXCEPT ![k] = NoInode]
    /\ order' = RemoveIndex(order, FirstIndex(order, k))
    /\ used' = used - entries[k]
    /\ entries' = [entries EXCEPT ![k] = NoEntry]
    /\ UNCHANGED <<lock, ino, pc, rkey, fd, off, fsize, restarts>>

(* The process exits (a CLI command ends, the daemon is restarted) and a  *)
(* new one runs cache.New on the same directory: the in-memory state is   *)
(* fresh, the files in the directory stay.                                *)
Restart ==
    /\ restarts < MaxRestarts
    /\ entries' = [k \in Keys |-> NoEntry]
    /\ order' = <<>>
    /\ used' = 0
    /\ lock' = NoProc
    /\ pc' = [p \in Procs |-> "idle"]
    /\ fd' = [p \in Procs |-> NoInode]
    /\ restarts' = restarts + 1
    /\ UNCHANGED <<dir, ino, rkey, off, fsize>>

Step(p) ==
    \/ \E k \in Keys : LookupHit(p, k) \/ LookupMiss(p, k) \/ Remove(p, k)
    \/ OpenFile(p) \/ OpenFail(p)
    \/ FetchChunk(p) \/ StatFile(p) \/ FetchFail(p)
    \/ Acquire(p) \/ EvictOne(p) \/ EvictPanic(p) \/ InsertFail(p) \/ Insert(p)
    \/ Reopen(p) \/ ReopenFail(p) \/ Touch(p) \/ CloseHandle(p)

Next == (\E p \in Procs : Step(p)) \/ Restart

Spec == Init /\ [][Next]_vars

(* Each goroutine that has started a ReadFile keeps being scheduled (weak *)
(* fairness of its steps); sync.Mutex hands the lock to a waiter starved *)
(* for more than 1ms (strong fairness of the steps that need the lock).  *)
(* Starting a request is the caller's choice and is not fair.            *)
Fairness ==
    \A p \in Procs :
        /\ WF_vars(pc[p] # "idle" /\ Step(p))
        /\ SF_vars(Acquire(p))
        /\ SF_vars(Touch(p))

FairSpec == Spec /\ Fairness

-----------------------------------------------------------------------------
TypeOK ==
    /\ entries \in [Keys -> Nat \cup {NoEntry}]
    /\ order \in Seq(Keys)
    /\ used \in Int
    /\ lock \in Procs \cup {NoProc}
    /\ dir \in [Keys -> Inodes \cup {NoInode}]
    /\ ino \in [Inodes -> [len : Nat, valid : SUBSET Nat]]
    /\ pc \in [Procs -> PCs]
    /\ rkey \in [Procs -> Keys]
    /\ fd \in [Procs -> Inodes \cup {NoInode}]
    /\ off \in [Procs -> Nat]
    /\ fsize \in [Procs -> Nat]
    /\ restarts \in Nat

(* ensureCapacity: the accounted bytes never exceed the quota.  Code:     *)
(* the loop and the final check of ensureCapacity before c.used += size.  *)
UsedWithinQuota == MaxBytes > 0 => used <= MaxBytes

(* c.mu is held by exactly the goroutine inside the insertion critical    *)
(* section, and by no one otherwise: every return and the nil-entry panic  *)
(* of ensureCapacity release it (defer c.mu.Unlock), so no request waits   *)
(* on a lock its holder has left.                                          *)
LockHeldByInserter == \A p \in Procs : lock = p <=> pc[p] = "evict"

\* The chunks a size function f gives the keys of S, one pair per key and
\* chunk: their number is the sum of the sizes.
Chunks(f, S) == UNION {{k} \X (1..f[k]) : k \in S}

(* Spec 8: used equals the sum of the resident entries' sizes, counted as *)
(* the chunks the entries record.  Code: every c.used update in           *)
(* LoadOrCreate, ensureCapacity and Remove.                               *)
UsedMatchesEntries == used = Cardinality(Chunks(entries, Resident))

(* Whatever the interleaving, c.used never counts fewer bytes than the    *)
(* entries record.  Two racing misses of one key both add their size at   *)
(* cache.go 94 while the map keeps one entry (an overcount), but no step  *)
(* subtracts a size it did not add: ensureCapacity and Remove subtract    *)
(* the size of an entry they delete.                                      *)
UsedCoversEntries == Cardinality(Chunks(entries, Resident)) <= used

(* Whatever the interleaving, the bytes of the resident entries stay      *)
(* within the quota: the capacity check of ensureCapacity bounds c.used,  *)
(* and c.used bounds them.                                                *)
ResidentWithinQuota ==
    MaxBytes > 0 => Cardinality(Chunks(entries, Resident)) <= MaxBytes

(* The LRU list holds each resident key exactly once and nothing else.    *)
(* Code: PushFront in LoadOrCreate, MoveToFront, and the list removals in *)
(* ensureCapacity and Remove; a stale element makes eviction panic.       *)
LruMatchesEntries == IsInjective(order) /\ Range(order) = Resident

(* Spec 3: every cache entry names a file on disk, and that file holds    *)
(* the whole object with the size the entry records.  Code: the fetch,    *)
(* Stat and insert of LoadOrCreate and the os.Remove calls.               *)
EntryFileComplete ==
    \A k \in Resident :
        /\ dir[k] # NoInode
        /\ Complete(dir[k], k)
        /\ entries[k] = ino[dir[k]].len

(* Spec 5: the handle ReadFile returns observes the fully populated file. *)
(* Code: os.Open of the path LoadOrCreate returns, for as long as the     *)
(* handle is read.                                                        *)
ReadHandleComplete ==
    \A p \in Procs : pc[p] \in {"touch", "reading"} => Complete(fd[p], rkey[p])

(* A cached object is immutable while it is cached: as long as a key     *)
(* stays resident, its recorded size, the file at its path and that       *)
(* file's content do not change.  Code: LoadOrCreate downloads only on a  *)
(* miss, and its O_TRUNC and WriteAt reach only the request's own path.   *)
ResidentEntryStable ==
    \A k \in Resident :
        entries'[k] # NoEntry =>
            /\ entries'[k] = entries[k]
            /\ dir'[k] = dir[k]
            /\ dir[k] \in Inodes => ino'[dir[k]] = ino[dir[k]]

(* No step rewrites a resident entry: the action property of the run.     *)
EntriesImmutable == [][ResidentEntryStable]_vars

\* The cache's contract seen through c.entries, c.order and c.used.
Abs == INSTANCE CacheAbstract WITH contents <- entries, lru <- order,
                                   Size <- ObjSize, None <- NoEntry

(* The cache implements its contract: every step of a ReadFile, Touch,    *)
(* Remove or restart is a step of CacheAbstract or leaves the map, the    *)
(* list and the counter alone.  In particular an object is admitted only  *)
(* when absent, with its full size and within the quota, and only the     *)
(* least recently used key is evicted, only while an object needs room.   *)
(* Code: LoadOrCreate, ensureCapacity, Touch, Remove and cache.New.       *)
ImplementsAbstractCache == Abs!Spec

\* Keys whose file is being produced by a request in flight.
InFlight(k) == \E p \in Procs : pc[p] \in {"fetch", "lock", "evict"} /\ rkey[p] = k

\* Keys with a file in the cache directory that no download is writing.
OnDisk == {k \in Keys : dir[k] # NoInode /\ ~InFlight(k)}

\* The bytes of those files, counted as chunks.
DiskBytes == Cardinality(Chunks([k \in OnDisk |-> ino[dir[k]].len], OnDisk))

(* The cache directory, apart from downloads in flight, never holds more  *)
(* than the quota.  Code: the os.Remove calls of eviction, of the failure *)
(* paths, and cache.New, which starts from an empty map.                  *)
DiskWithinQuota == MaxBytes > 0 => DiskBytes <= MaxBytes

(* Every ReadFile that starts returns: a handle, an error or a panic     *)
(* recovered by net/http.  Code: every path of LoadOrCreate releases      *)
(* c.mu (the deferred Unlock covers the panic) and the fetch loop ends.   *)
RequestsReturn == \A p \in Procs : pc[p] # "idle" ~> pc[p] = "idle"

=============================================================================
