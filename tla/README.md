# TLA+ models of s3ro (remotefs)

This directory holds the TLA+ specifications, the TLC configurations and the
TLAPS proofs kept beside the s3ro sources (`../src`). s3ro shows an S3 bucket
as a read-only POSIX tree. A Go daemon serves `stat`, `list` and `cat` over
HTTP on a Unix socket. An `LD_PRELOAD` shim in C intercepts libc calls under
a configured root and forwards them to the daemon.

## 1. Inventory

### 1.1 Parts of the system and how they interact

| Part | Source | State | Operations |
|---|---|---|---|
| ObjectStore S3 adapter | `pkg/cache/cache.go` 139-363 | none (stateless client) | `key`, `Head`, `List` (rebuilds direct children from flat keys and common prefixes), `Download` (chunked `WriteAt`) |
| Content cache | `pkg/cache/cache.go` 1-138 | `c.mu`; `entries` map; `order` LRU list; `used`; the files of the cache directory | `New`, `LoadOrCreate` (lookup, open with `O_TRUNC`, fetch outside the lock, `Stat`, `ensureCapacity`, insert), `Touch`, `Remove` |
| Path jail | `pkg/remotefs/fs.go` 85-136 | `localRoot` (init-once) | `sanitize`, `joinLocal`, `LocalRoot` |
| Facade | `pkg/remotefs/fs.go` 57-281 | `meta` snapshot under `metaMu` | `New`, `Stat` (warm map, then head, then list), `ReadDir`, `ReadFile` (`LoadOrCreate` + reopen + `Touch`), `WarmMetadataCache` |
| IPC server | `pkg/remotefs/ipc.go` | identity (uid/gid, names) | `Serve`, `handleStat`, `handleList`, `handleCat`, `entryFromMeta`, `writeErrorFor` |
| Shim | `shim/ldpreload/remotefs_shim.c` | `g_cfg` (pthread_once), registry `g_dirs` under `g_dir_lock`, per-handle cursor | canonicalization and jail, HTTP client, `stat` family, `open` family (EROFS / EISDIR / temp file), `opendir`/`readdir`/`rewinddir`/`telldir`/`seekdir`/`closedir`/`dirfd`, `access` |
| Entry points | `cmd/remotefs-cli/main.go` | none | the one-shot CLI (`stat`, `ls`, `cat`, `serve`) and the daemon, which warms the metadata map before serving |

How the parts interact:

- Every IPC request runs on its own goroutine (`net/http`). The goroutines share one `FileSystem` and so one content cache.
- `/cat` calls `ReadFile`, which calls `LoadOrCreate` with a callback that runs `S3Store.Download` into the cache file.
- The shim runs inside arbitrary host processes, possibly with many threads. It calls the daemon synchronously, with a 5 s connect timeout and a 30 s request timeout.

### 1.2 The behaviours that make it hard

- The cache lock is released during the fetch. Two misses of the same key therefore race: both open the same deterministic path with `O_TRUNC`, both download, and both insert.
- A reader's handle and the cache file share an inode. A racer's truncation is visible to the reader, while a racer's `os.Remove` is not.
- `ensureCapacity` evicts before it checks whether the object could fit at all.
- A new process reuses the cache directory without looking at what is there.
- Several steps read state after an unlock and use it later:
  - the reopen of the returned path;
  - `Touch`;
  - the shim's `lookup_dir` result.
- The warmed metadata snapshot must be published in one step.
- The Go and C implementations of the path jail must agree, including for the root `/` and for lookalike prefixes.

## 2. Plan

| Module | Models | Status |
|---|---|---|
| `ContentCache` | content cache + `ReadFile` + `/cat` + `Download` + restart | done |
| `ContentCache_proofs` | type correctness, the quota and the lock discipline, by TLAPS | done |
| `ContentCache_invariants` | the invariant `CacheInv` (with `AccountingInv`) behind the list, file and accounting properties when no two requests read one key, checked by TLC in `cache_disjoint` | done |
| `ContentCache_accounting_proofs` | `used` never undercounts the resident entries, and the resident entries stay within the quota, in every interleaving, by TLAPS | done |
| `CacheAbstract` | the cache's contract: a map of sizes, a recency list and a counter, one atomic step per operation; `ContentCache` implements it when no two requests read one key, checked by TLC (section 4.3) | done |
| `PathJail` | Go `sanitize`/`joinLocal`/`New` root handling compared with the shim's `canonicalize_path` + `path_within_root`, over strings of characters | done |
| `Facade` | `Stat` head→list fallback, `ReadDir` error mapping, `S3Store.List`, the `WarmMetadataCache` walk and the daemon/CLI start-up order, with failing Head and List calls | done |
| `ShimDir` | `opendir`/`readdir`/`rewinddir`/`telldir`/`seekdir`/`closedir` over two handles, with `/ls` answers from `Facade` by INSTANCE | done |
| `ShimOpen` | flags → `EROFS`, stat → `EISDIR`, temp file life cycle | planned |

Theorems planned next:

- the cursor bounds of `ShimDir`.

## 3. The content cache model (`ContentCache.tla`)

**State.**

| Variable | Code |
|---|---|
| `lock` | `c.mu` (holder or `NoProc`) |
| `entries[k]` | `c.entries[k].size` or `NoEntry` |
| `order` | `c.order` as a sequence of keys, front first |
| `used` | `c.used` |
| `dir[k]` | the inode at `keyPath(k)`. SHA-256 is taken as injective, so the path is the key |
| `ino[i]` | file length and the set of written offsets (1 unit = one `WriteAt` chunk) |

Each process `p` is one `/cat` goroutine. It holds:

- `pc` and `rkey`;
- `fd`, the inode of its open `*os.File`;
- `off`, the `Download` offset;
- `fsize`, the size from `Stat`.

**Why the list is a sequence of keys.** `entries[k].elem` is always the *first* occurrence of `k` in `order`:

- it is pushed at the front;
- it is moved to the front;
- it is removed together with its entry.

So `MoveToFront(entry.elem)` is `MoveToFront` of the first occurrence. A stale element left by the race is a later occurrence.

**Actions**, in code order:

- `LookupHit` / `LookupMiss`: the first critical section of `LoadOrCreate`.
- `OpenFile` / `OpenFail`: `os.OpenFile(O_CREATE|O_RDWR|O_TRUNC)`. It reuses the inode at the path, or creates a free one.
- `FetchChunk` / `StatFile` / `FetchFail`:
  - the `Download` loop;
  - EOF followed by the callback's and `LoadOrCreate`'s `Stat`;
  - any error, which removes the path.
- `Acquire`: the second `c.mu.Lock`.
- `EvictOne`: one iteration of the `ensureCapacity` loop.
- `EvictPanic`: the back element's key has no entry. `entry.path` panics; the deferred `Unlock` and `Close` run, and `net/http` recovers the panic.
- `InsertFail`: the capacity error. The path is removed.
- `Insert`: `PushFront`, the entry, `used += size`.
- `Reopen` / `ReopenFail`: `os.Open` in `ReadFile`.
- `Touch`: with two branches, resident or not.
- `CloseHandle`: `handleCat`'s deferred `Close`.
- `Remove`: `Cache.Remove`.
- `Restart`: a process exit, then `remotefs.New` on the same directory. The directory survives; memory does not.

The `map` of `PROJECT.json` gives the source lines of every definition.

**Bounds and why they suffice.**

- Two processes.
- Keys with sizes 1, 2 and 3 against a quota of 2. This gives:
  - a key that fits beside another;
  - a key that forces an eviction;
  - a key larger than the quota.
- Four or five inodes. This satisfies `Cardinality(Inodes) >= |Keys| + |Procs|`, so a create never runs out of inodes.
- `MaxRestarts` is 0, or 1 in the runs about restart.
- The LRU list has no bound of its own: racing inserts add stale elements. `MC_ContentCache` therefore bounds it with the state constraint `ListBound` (length ≤ 3 or 4), which is long enough for one duplicate plus a live entry.
- No action has an artificial guard, so a state at the bound is not reported as a deadlock.

**Fairness.** `Fairness` requires:

- weak fairness of every step of a process that has started a request (the Go scheduler runs runnable goroutines);
- strong fairness of `Acquire` and `Touch`, the steps that wait for `c.mu`. `sync.Mutex` switches to starvation mode and hands the lock to a waiter blocked for more than 1 ms.

Starting a request is the client's choice and is not fair.

### Runs

| Run | Expect | Shows |
|---|---|---|
| `cache_disjoint` | pass (47,832 states) | With readers of distinct keys, plus `Remove` of any key, failures at every step and an oversized key, these all hold: `used` stays within the quota and equals the sum of entry sizes; the list holds each resident key once; every entry's file is complete and of the recorded size; every returned handle is complete; the directory stays within the quota. As an action property, no step rewrites the size, path or file of a key while it stays resident (`EntriesImmutable`). It also checks `CacheInv` and `AccountingInv`, the invariant behind these properties on this instance (section 4.3), and that the cache implements its contract `CacheAbstract` (`ImplementsAbstractCache`, section 4.3). |
| `cache_shared` | pass (2.4M states) | Even with same-key races and a restart: `used` never exceeds the quota; it never undercounts the resident entries (`UsedCoversEntries`), so their sizes stay within the quota (`ResidentWithinQuota`); and `c.mu` is held by exactly the goroutine in the insertion critical section (`LockHeldByInserter`). It also exercises `EvictPanic` and `Restart`. |
| `cache_live` | pass | Under `FairSpec`, every request returns (`RequestsReturn`). |
| `cache_race_lru` | violation | The duplicate list element outlives its entry. The next eviction to reach it panics, and every later one too. |
| `cache_race_entry` | violation | A racer's `O_TRUNC` empties the file of a resident entry. |
| `cache_restart` | violation | The files of an earlier process stay untracked, and the directory exceeds the quota. |

Every property of a passing run has a mutant in `PROJECT.json` that TLC catches. Each mutant is a plausible slip in the code:

- a dropped final check;
- a forgotten `used -=`, `os.Remove` or `list.Remove`;
- a lost offset increment;
- a skipped `c.entries` lookup that downloads a resident key again;
- EOF taken on a read error;
- a comparison without `need`;
- an unbounded retry.

### What the violations mean

- **The same-key race.** Spec §9 accepts it as harmless: "both fetches succeed and the second overwrites the first". The two runs kept show that it is not harmless:
  - it leaves a list element that makes later evictions panic (`cache_race_lru`);
  - it truncates the file of a resident entry, and a racer's failure deletes it (`cache_race_entry`).

  The same race also counts the object twice in `used`, and truncates a handle already returned to a reader. `UsedMatchesEntries` and `ReadHandleComplete` are violated with `ReadKeys <- MCSharedReads`; no run is kept for those two consequences.
- **The oversized object.** `ensureCapacity` evicts from the tail before it finds that the object alone exceeds the quota (cache.go 102). An oversized object therefore flushes the whole cache before failing, against invariant 3 of spec §3. This is read from the code; the `cache_disjoint` run includes such an object and checks only that the quota holds.
- **The restart.** It is a gap: the spec states the quota only within one process, and the CLI starts a new process for every command.

## 3a. The path jail (`PathJail.tla`, `MC_PathJail.tla`)

The jail is implemented twice. The shim (`path_within_root`) decides
whether a libc call is served remotely, and the daemon (`sanitize`) decides
which key a request names. A path is a sequence of one-character strings, so
the model sees separators, dots, spaces and names that are textual prefixes
of one another. Go's `strings.TrimSpace`, `TrimPrefix`, `TrimLeft` and
`path.Clean` are modelled by what they do: `Clean` folds over the segments
(`FoldLeft` of SequencesExt) the way Go's lexical algorithm does.

| Definition | Code |
|---|---|
| `NewRoot` | `remotefs.New`: trim, `filepath.Clean`, `"."` means no root |
| `Sanitize` | `FileSystem.sanitize` (fs.go 108-136) |
| `JoinLocal` | `FileSystem.joinLocal` |
| `ShimCanonicalize` | `canonicalize_path`: relative to the working directory, `..` stops at `/` |
| `ShimRoot` | `shim_init_once`: `REMOTEFS_ROOT` or `/remote`, canonicalized, trailing `/` dropped |
| `PathWithinRoot` | `path_within_root` |
| `DaemonRequest` | a raw `?path=` reaching `handleStat` (the CLI or any IPC client) |
| `ShimCall` | `handle_stat`: jail in the shim, then forward the canonical path to `sanitize` |

The configured root and the input are chosen in `Init`; a step then runs
one of the two paths. The state space is the configurations times the
inputs: all strings of up to 6 characters over `/ . r x` (5 characters when
a space is added), and three spellings of the root `/r` (`/r`, `/r/`,
`//r/.`). Six characters are enough for `/r/../x`-style escapes, for the
lookalike sibling `/rx`, for `..` at the root and for runs of separators.

| Run | Checks | Result |
|---|---|---|
| `jail_agree` | `SanitizeRoundTrip`: an accepted path renders back through `joinLocal` to its canonical form; `ShimDaemonAgree`: whatever the shim forwards, the daemon accepts with the same relative key; `SanitizeCanonical`: a returned key has no empty, `.` or `..` segment | pass, 49,149 states |
| `jail_space` | `SanitizeRoundTrip` with a space in the alphabet | violation: `/r ` (a sibling of `/r`) is accepted as the root itself, because `sanitize` trims white space and the shim does not |

The mutants:

- drop the separator from the prefix test, in `sanitize` and in `path_within_root`, which the lookalike `/rx` catches;
- test the root prefix before cleaning the path, which `/r/../x` catches.

Two configurations outside the run set also break the jail. They were found with TLC while modelling, by giving `RootCfgs` these values:

- **Root `/`.** `sanitize` builds the prefix `//` and refuses every child path, while the shim forwards it, so `ShimDaemonAgree` fails. Spec section 4.1 does not say how a root of `/` is jailed.
- **No root (`""` or `"."`).** `..` is returned as the key `..`, so `SanitizeCanonical` fails (fs.go 128).

## 3b. Metadata: Stat, ReadDir and the warmed snapshot (`Facade.tla`, `MC_Facade.tla`)

A key is a sequence of segment names. The bucket (`Bucket`) and the store
prefix are constants: spec section 1 takes the namespace to be stable while a
process runs. `ObjPaths`, `DirPaths`, `TrueKind` and `Children` say what the
bucket is as the spec sees it; `S3Contents` and `S3CommonPrefixes` are what
`ListObjectsV2` with delimiter `/` returns. None of these is code. The code
is `Key`, `HeadFound` and `List` (the adapter), `ListedKinds` (what
`populateMetadata` stores from one listing), `StatResp` and `ListResp`
(`Stat` and `ReadDir` followed by `writeErrorFor`), and the actions.

`sanitize` is in `PathJail`. Here a request names a relative key or
`Outside`, a path `sanitize` rejects. A `/stat` or `/ls` reads only state
that is fixed while the daemon serves (the bucket and the installed
snapshot), so each handler is one step. Its Head and List calls may fail,
chosen with `\E` in the step.

`Init` lets the process be either the daemon or the CLI `serve` command.
The lifecycle follows `main`:

- `WarmMetadataCache` starts the walk with the root in the map;
- `PopulateMetadata(rel)` is one `populateMetadata` call: it lists `rel`, stores every item, and adds the directories to `pending`. A failure aborts the process (`log.Fatalf`);
- `InstallSnapshot` assigns the finished map under `metaMu`;
- `Serve` binds the listener, and may fail;
- `Shutdown` comes on a signal, and `Restart` starts a new process.

The CLI `serve` command (`ServeCold`) serves with no snapshot, so every
`/stat` goes through Head and List. The code's
walk is depth-first; `pending` allows any order, a superset of the code's,
and the properties hold for all of them.

| Run | Checks | Result |
|---|---|---|
| `facade` | `StatSound`: a 200 gives the true kind, a 404 only for an absent path, a 500 only for a refused path or a failed call, with or without the snapshot; `ReadDirExact`: a 200 `/ls` lists exactly the direct children; `WarmSnapshotExact`: the installed snapshot is exactly the bucket's tree | pass, 540 states |
| `facade_nested` | `StatSound` on a bucket with a directory two levels down | violation |
| `facade_list_error` | `ReadDirNotFoundSound`: 404 only for an absent directory | violation |

The bucket `{p/a/b, p/a, p/b, p/c/b, q/a}` with prefix `p` has all of the
following:

- a key outside the prefix;
- a name that is both a file and a directory (`a`);
- a plain directory (`c`);
- a file at the root and a file one level down.

The nested bucket adds `p/a/b/a`, the first depth at which the doubled path
shows.

What the violations mean:

- **`facade_nested`.** For a common prefix, `S3Store.List` trims only the store prefix. The name is therefore already `a/b`, and `path.Join(rel, name)` makes it `a/a/b` (cache.go 295).
  - The warm-up walk descends into `a/a/b` and never lists `a/b`.
  - It installs a phantom directory `a/a/b`, which `/stat` then reports, and it misses `a/b/a`.
  - The fake store of the tests joins the names correctly, so the tests do not see this.
- **`facade_list_error`.** `ReadDir` maps every `List` error of a non-root path to `NotFoundError` (fs.go 179). A network failure on an existing directory is therefore answered with 404, which the shim turns into `ENOENT`.

The mutants:

- let the directory win over the file in one listing (`ListedKinds`);
- keep the store prefix on object names (`List`);
- make the walk shallow (`PopulateMetadata`);
- report a failed List in `Stat` as 404 (`StatResp`).

## 3c. Directory handles in the shim (`ShimDir.tla`, `MC_ShimDir.tla`)

`opendir` on a path inside the root asks the daemon for `/ls` once. It then
builds a `shim_dir` holding `.`, `..` and one dirent per listed item, and
registers it in `g_dirs`. The other calls find the handle with `lookup_dir`
and work on its cursor.

| Definition | Code |
|---|---|
| `Opendir(h, d)` | `opendir`: 200 → populate and register; 404 → `ENOENT`; other status → `EIO` |
| `OpendirTransportFailure` | `fetch_json` fails: NULL, errno as curl left it |
| `PopulateDirectory` | `populate_directory`: `.`, `..`, then each array item named by `relative_name`, empty names skipped, `count = slot` |
| `RelativeName` | `relative_name` on segment sequences |
| `Readdir(h)` | `readdir`, `readdir64`, `readdir_r`, `readdir64_r` through `dir_next_entry` |
| `Closedir(h)` | `closedir`: `unregister_dir`, `free_dir` |
| `Rewinddir(h)`, `Telldir(h)`, `Seekdir(h, loc)` | the cursor calls; `seekdir` moves only for `0 <= loc < count` |

The daemon's answer is Facade's `ListResp` taken by
`INSTANCE Facade WITH ...` with a serving daemon. A listing is therefore what
`S3Store.List` and `ReadDir` produce for the bucket, and a List failure or a
404 reaches `opendir` as it would in the running system.

Handles are addresses (`h1`, `h2`); symmetry over them is sound, since nothing
distinguishes two addresses. Each registry operation holds `g_dir_lock` for its
whole body, so it is one step. A handle is used by one thread at a time, as
POSIX requires of a program, so threads are not told apart.

| Run | Checks | Result |
|---|---|---|
| `shimdir` | `DirentsExact`: an open handle holds `.`, `..` and one dirent per direct child of the directory, named by its last segment and typed as directory or file, none lost and none twice | pass, 12,012 states |

The bucket and directories are those of `facade`: the root (where `a` is both
a file and a directory), `a`, a file (ENOENT) and an absent path. The mutant
keeps the separator after the directory's path in `relative_name`, which
empties every name below the root.

Not checked by a run: `seekdir` ignores the position `count` that `telldir`
returns after the last entry (remotefs_shim.c 1431). A program that saves the
end position, rewinds and seeks back reads the directory again from where it
was, instead of getting end-of-directory as POSIX says. Composed with the
doubled path of `S3Store.List` (`facade_nested`), `relative_name` names the
phantom `a/a/b` as `a`: for a bucket holding `a/b` and `a/b/a`, a `readdir`
of `a` shows the file `b` and a directory `a`, where there is a directory
`b`.

## 4. Proofs (`ContentCache_proofs.tla`, `ContentCache_accounting_proofs.tla`)

`tlapm` checks every theorem below for every value of the constants that satisfies `ConstAssumption`. `ConstAssumption` requires:

- positive object sizes and a natural quota;
- finite sets;
- sentinels outside their sets;
- `Cardinality(Inodes) >= Cardinality(Keys) + Cardinality(Procs)`.

### 4.1 Types, the quota and the lock (`ContentCache_proofs`)

- `TypeCorrect == Spec => []TypeOK`;
- `QuotaRespected == Spec => []UsedWithinQuota`;
- `LockDiscipline == Spec => []LockHeldByInserter`.

`TypeOK` is not inductive, so all three theorems rest on `IInv`, which adds two facts:

- Every resident key occurs in `order`. Without it, `FirstIndex` (and with it `MoveToFront` and `Remove`) would be applied to a key that is not in the list.
- A process in `fetch`, `lock` or `evict` holds an inode. Without it, `StatFile` would read the length of no file.

`IInv` was checked by TLC on the `cache_shared` instance (2.4M states) before it was proved. `UsedWithinQuota` is inductive relative to `IInv`, for two reasons:

- only `Insert` adds to `used`, and only under `ensureCapacity`'s final check;
- evictions and `Remove` subtract a natural number.

The theorem holds even under the same-key race, because the double count only makes `used` larger, and the final check is made on that larger value.

`LockHeldByInserter` (`lock = p` exactly when `pc[p] = "evict"`) is inductive relative to `IInv`, with no hypothesis on the readers. `NextLock` has one case per kind of step:

- `Acquire` takes a free lock, so no goroutine was in `evict` before.
- `EvictPanic`, `InsertFail` and `Insert` are the four exits, and each releases the lock. The panic releases it only through `defer c.mu.Unlock()` (cache.go:83). The mutant `EvictPanicKeepsLock` drops that release, and `cache_shared` then finds the invariant violated.
- `EvictOne` keeps both the lock and the pc.
- Every other step leaves the lock alone, and moves only its own pc between states other than `evict`.
- `Restart` frees the lock and makes every goroutine idle.

This is the safety half of the deadlock hazard. The liveness half, that every request returns (`RequestsReturn`), stays with TLC (section 4.4).

### 4.2 Byte accounting in every interleaving (`ContentCache_accounting_proofs`)

- `UsedCoversResident == Spec => []UsedCoversEntries`;
- `ResidentBounded == Spec => []ResidentWithinQuota`.

Neither has a hypothesis beyond `ConstAssumption`. They cover any number of keys, inodes and requests, any sizes and quota, two requests racing on one key, the nil-entry panic, and any number of restarts.

Spec section 3 states `used == sum(entry.size)` (`UsedMatchesEntries`). The same-key race of spec sections 4.3 and 9 breaks it: both inserts add their size at cache.go 94, while the map keeps one entry. What holds in every interleaving is the inequality `UsedCoversEntries`: `used` is at least the sum of the resident entries' sizes. With `QuotaRespected`, this gives `ResidentWithinQuota`: with a quota set, the resident entries together stay within it. The race only makes the cache evict more than it needs to.

Both properties are sums of sizes. The model counts a sum as the cardinality of a set of (key, chunk) pairs: `Chunks(f, S)` holds `<<k, j>>` for every `k` in `S` and `j` in `1..f[k]`. This is the same number as the fold `SumFunctionOnSet`. The provers cannot reason about a fold, because that needs induction with an operator parameter. They can reason about cardinality with `FS_Union`, `FS_Difference`, `FS_Subset`, `FS_Product` and `FS_Interval`.

The inductive invariant is `UsedBound`: the entries' chunks form a finite set, and `used` is at least its cardinality. `cache_shared` checks `UsedCoversEntries` on 2.4M states, with races and a restart. `UsedBound` is inductive relative to `IInv`:

- The insert records `fsize` under its key, whether or not a racer already recorded the key, and adds `fsize` to `used`. The overwritten entry's chunks leave the set, and its size was added when it was recorded, so the bound survives (`AddEntryBound`).
- Eviction and `Remove` delete an entry and subtract exactly its size (`DropEntryBound`).
- A restart empties both the map and the counter.
- Every other step, `EvictPanic` included, changes neither.

The mutant `EvictOneKeepsEntry` forgets `delete(c.entries, key)`: it subtracts the size and keeps the entry, and `cache_shared` then finds `UsedCoversEntries` violated.

### 4.3 What the race breaks, and why it has no theorem (`ContentCache_invariants`, `CacheAbstract`)

The following properties hold only while no two requests read one key:

- the list (`LruMatchesEntries`);
- the entries' files (`EntryFileComplete`);
- the returned handles (`ReadHandleComplete`);
- the immutability of entries (`EntriesImmutable`);
- exact accounting (`UsedMatchesEntries`);
- the directory quota (`DiskWithinQuota`);
- the contract (`ImplementsAbstractCache`).

The code does not guarantee that condition. `handleCat` serves any key to any caller, and spec sections 4.3 and 9 call the race legitimate. The runs show how the code breaks the properties:
- `cache_race_lru` leaves a duplicate list element, whose later eviction panics;
- `cache_race_entry` truncates a resident file with `O_TRUNC`;
- `cache_restart` has a new process leave old files over the quota.

A theorem with that condition as a hypothesis would assume away exactly the behaviours that break it. So these properties are checked by TLC only, on `cache_disjoint`, where each goroutine reads its own keys.

`ContentCache_invariants` states the invariant that run also checks (48K states): `CacheInv`, and with it `AccountingInv`. It documents why the properties hold on that instance. Besides `IInv` and `LruMatchesEntries`, `CacheInv` says:

- `KeyRead`: a request serves one of its goroutine's keys.
- `UnfetchedKey`: a request between the miss and the insertion has a key with no entry.
- `DirInjective`: no two keys share a file.
- `FetchOwnsFile`: a downloading request's open file is the file at its key's path.
- `FetchProgress`: `Download` has written exactly the offsets below `off`.
- `FetchedFile`: after the download the file is complete, and `Stat` read its length.
- `ReopenTarget`: the path `LoadOrCreate` returned names a file only while its key is resident.
- `HandleStable`: a returned handle is the file at its key's path, or a file no path names any more, and it is complete.
- `EntryFileComplete`.

`AccountingInv` adds two things. `UsedInv` says `used` equals the entries' chunk count. `DirTracked` says that, while `restarts = 0`, every file of the directory belongs to a resident entry or to a download in flight.

`CacheAbstract` states what `pkg/cache` promises, with no files, lock or download. Its state is a map `contents` from keys to recorded sizes, the recency list `lru` and the counter `used`. Each public operation is one atomic step:

- `Touch(k)`: a resident key moves to the front.
- `Admit(k)`: an absent key enters at the front with its object's full size, and only if it fits the quota (a quota of 0 disables the check).
- `Evict(k)`: the least recently used key leaves, and only while the absent key `k` does not fit.
- `Remove(k)`: a resident key leaves.
- `Reset`: `cache.New` in a new process.

`ContentCache` instantiates it as `Abs`, with the identity mapping `contents <- entries`, `lru <- order` and `Size <- ObjSize`. `ImplementsAbstractCache` is `Abs!Spec`. The run `cache_disjoint` checks it. The mutant that takes EOF on a read error breaks it, because the entry is then admitted with a short size. Under the race two requests admit one key, which `Abs!Admit` forbids. The contract also allows the flush of hazard cache.go:102 (an object that can never fit first evicts everything), so it does not catch that hazard.

Lemmas of `ContentCache_proofs` about the operators the model is built from:

| Lemma | States |
|---|---|
| `FirstIndexProps` | A key that occurs has a first occurrence. The proof uses well-foundedness of `<` on `Nat` from `WellFoundedInduction`. |
| `RemoveIndexProps`, `MoveToFrontProps`, `PushFrontProps` | The list operations keep a list of keys and lose no other key. |
| `FreeInodeExists` | `O_CREATE` always finds an inode. This is a pigeonhole argument over `FS_Surjection`, `FS_Union` and `FS_Subset`. |

### 4.4 What stays with TLC, and why

- A sum as a fold (`SumFunctionOnSet`, `FoldFunctionOnSet`). Proving that a fold changes by one term when one key changes needs induction over the fold's set. The library states that induction only with an operator parameter, which the installed provers cannot instantiate. That is why the accounting properties count chunks instead (section 4.2).
- Liveness (`RequestsReturn`) and everything that involves ENABLED: both are out of this prover's reach.
- The properties the same-key race breaks (section 4.3). They are false of the code, and TLC checks them on the instance without the race.
- The properties of `PathJail`, `Facade` and `ShimDir`. Their definitions use `SubSeq`, `FoldLeft`, `SetToSortSeq` and `SelectSeq`. `SubSeq` defeats the SMT backend. The others are recursive functions over their data, and what they compute can only be derived with the library's induction theorems, which take an operator parameter. `Facade`'s properties also hold only for buckets of bounded depth, and the `facade_nested` run shows the counterexample.

## 5. Not modelled, and why

- **Byte contents.** Object bytes are not modelled. An object is its length in chunks, and a file is its set of written chunk offsets. This is enough to tell complete, truncated and holed files apart.
- **Hashing and formatting.** SHA-256 paths, hex formatting, JSON encoding and the FNV inode hash are not modelled. They are pure conversions that no property is about. The conversions that matter to the jail (trimming, cleaning, canonicalizing) are modelled in `PathJail`.
- **ListObjectsV2 pagination.** `Facade` takes one page to hold every child. A second page only repeats the loops of the first.
- **Metadata staleness.** The bucket is constant in `Facade`. Spec section 1 accepts a snapshot that is stale after warming, so no property is about freshness.
- **Shim odds and ends.** `dirfd` (always `ENOTSUP`), the FNV inode of a dirent, and the `malloc` failure paths of `opendir` change no state that a property reads.
- **I/O set-up.** The AWS client, libcurl, the socket listener and flag parsing are I/O set-up.
- **Other processes.** Concurrent use of one cache directory by two processes is not modelled. The spec declares it undefined. Sequential reuse is modelled as `Restart`.
