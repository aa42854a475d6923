------------------------ MODULE ContentCache_invariants ------------------------
(***************************************************************************)
(* The invariant behind the list, file and accounting properties of the   *)
(* cache when no two requests read one key, as the run cache_disjoint     *)
(* instantiates it.  Each conjunct names a fact about a stage of ReadFile *)
(* that the properties need across the steps of the other goroutines.     *)
(* Two ReadFile calls of one key may race in the code, and then the       *)
(* runs cache_race_lru, cache_race_entry and cache_restart find the       *)
(* properties violated, so these are checked by TLC on that instance and  *)
(* stated by no theorem.                                                  *)
(***************************************************************************)
EXTENDS ContentCache_proofs

\* Stages of LoadOrCreate in which the request downloads its key.
Active == {"open", "fetch", "lock", "evict"}

\* Stages in which the request holds the file it downloads.
Holding == {"fetch", "lock", "evict"}

\* A request in progress serves one of the keys its goroutine reads.
KeyRead == \A p \in Procs : pc[p] # "idle" => rkey[p] \in ReadKeys[p]

\* A request that downloads its key found it absent and it stays absent.
UnfetchedKey == \A p \in Procs : pc[p] \in Active => entries[rkey[p]] = NoEntry

\* Two keys never share a file of the cache directory.
DirInjective ==
    \A a, b \in Keys : dir[a] = dir[b] /\ dir[a] # NoInode => a = b

\* A downloading request's open file is the one at its key's path.
FetchOwnsFile ==
    \A p \in Procs : pc[p] \in Holding => fd[p] \in Inodes /\ fd[p] = dir[rkey[p]]

\* Download has written exactly the offsets below its current offset.
FetchProgress ==
    \A p \in Procs : pc[p] = "fetch" =>
        /\ off[p] <= ObjSize[rkey[p]]
        /\ ino[fd[p]] = [len |-> off[p], valid |-> 0..(off[p] - 1)]

\* After the download, the file is complete and Stat read its length.
FetchedFile ==
    \A p \in Procs : pc[p] \in {"lock", "evict"} =>
        Complete(fd[p], rkey[p]) /\ fsize[p] = ino[fd[p]].len

\* The path LoadOrCreate returned names a file only while the key is
\* resident.
ReopenTarget ==
    \A p \in Procs : pc[p] = "reopen" => dir[rkey[p]] = NoInode \/ rkey[p] \in Resident

\* A returned handle is the file at its key's path, or a file no path
\* names any more, and it is complete.
HandleStable ==
    \A p \in Procs : pc[p] \in {"touch", "reading"} =>
        /\ fd[p] \in Inodes
        /\ fd[p] = dir[rkey[p]] \/ fd[p] \notin Range(dir)
        /\ Complete(fd[p], rkey[p])

(* With disjoint readers the three properties hold because every stage   *)
(* of ReadFile keeps to its own key's file: the download writes only the  *)
(* file no entry and no other request uses, the insertion records a       *)
(* complete file, and eviction or Remove unlinks a path without touching  *)
(* the file a returned handle still reads.  The run cache_disjoint checks *)
(* this invariant on every reachable state.                               *)
CacheInv ==
    /\ IInv
    /\ LruMatchesEntries
    /\ KeyRead
    /\ UnfetchedKey
    /\ DirInjective
    /\ FetchOwnsFile
    /\ FetchProgress
    /\ FetchedFile
    /\ ReopenTarget
    /\ HandleStable
    /\ EntryFileComplete

\* The chunks of the entries form a finite set and c.used counts them.
UsedInv == IsFiniteSet(Chunks(entries, Resident)) /\ UsedMatchesEntries

\* In one process's lifetime every file of the cache directory belongs to
\* a resident entry or to a download in flight: every failure path and
\* every eviction unlinks the path it leaves behind.
DirTracked ==
    restarts = 0 =>
        \A k \in Keys : dir[k] # NoInode => k \in Resident \/ InFlight(k)

\* The accounting half of the invariant, on top of CacheInv.
AccountingInv == UsedInv /\ DirTracked
=============================================================================
