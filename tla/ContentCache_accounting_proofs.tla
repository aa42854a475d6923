------------------- MODULE ContentCache_accounting_proofs -------------------
(***************************************************************************)
(* Proofs about the cache's byte accounting for every value of the        *)
(* constants and every interleaving of requests, the same-key race and    *)
(* restarts included.  The race breaks used = sum(entry.size) (run        *)
(* cache_race_lru), but only by an overcount: c.used never counts fewer   *)
(* bytes than the entries record (UsedCoversEntries), so the quota that    *)
(* ensureCapacity keeps on c.used also bounds the resident entries        *)
(* (ResidentWithinQuota).  Sums are counted as sets of (key, chunk)       *)
(* pairs, so the proofs are about the cardinality of finite sets.         *)
(***************************************************************************)
EXTENDS ContentCache_proofs

\* The chunks of the entries form a finite set and c.used counts at least
\* as many.
UsedBound == IsFiniteSet(Chunks(entries, Resident)) /\ UsedCoversEntries

-----------------------------------------------------------------------------
(* Lemma on Chunks: a key's chunks number its size.                       *)

\* The chunks of one key of size n are n.
LEMMA KeyChunks ==
    ASSUME NEW k, NEW n \in Nat
    PROVE  IsFiniteSet({k} \X (1..n)) /\ Cardinality({k} \X (1..n)) = n
<1>1. IsFiniteSet({k}) /\ Cardinality({k}) = 1
  BY FS_Singleton
<1>2. IsFiniteSet(1..n) /\ Cardinality(1..n) = n
  BY FS_Interval
<1>3. /\ IsFiniteSet({k} \X (1..n))
      /\ Cardinality({k} \X (1..n)) = Cardinality({k}) * Cardinality(1..n)
  BY <1>1, <1>2, FS_Product
<1> QED BY <1>1, <1>2, <1>3

-----------------------------------------------------------------------------
(* c.used bounds the chunks of the entries.                               *)

\* Recording an entry of size n under a key, resident or not, and adding n
\* to c.used, as the insert of LoadOrCreate does, keeps the bound: an
\* entry the insert overwrites had its size added when it was recorded.
LEMMA AddEntryBound ==
    ASSUME UsedBound, entries \in [Keys -> Nat \cup {NoEntry}], used \in Int,
           NEW k \in Keys, NEW n \in Nat,
           entries' = [entries EXCEPT ![k] = n], used' = used + n
    PROVE  UsedBound'
<1> DEFINE C == Chunks(entries, Resident)
           D == Chunks(entries, Resident \ {k})
           B == {k} \X (1..n)
<1>1. n # NoEntry
  BY ConstAssumption
<1>2. Resident' = (Resident \ {k}) \cup {k}
  BY <1>1 DEF Resident
<1>3. \A x \in Resident \ {k} : entries'[x] = entries[x]
  OBVIOUS
<1>4. Chunks(entries', Resident') = D \cup B /\ D \cap B = {}
  <2>1. /\ Chunks(entries', (Resident \ {k}) \cup {k})
             = Chunks(entries, Resident \ {k}) \cup ({k} \X (1..entries'[k]))
        /\ Chunks(entries, Resident \ {k}) \cap ({k} \X (1..entries'[k])) = {}
    BY <1>3 DEF Chunks
  <2> QED BY <2>1, <1>2 DEF D, B
<1>5. IsFiniteSet(C) /\ Cardinality(C) <= used
  BY DEF UsedBound, UsedCoversEntries
<1>6. IsFiniteSet(D) /\ Cardinality(D) <= Cardinality(C)
  <2>1. D \subseteq C
    BY DEF D, C, Chunks
  <2> QED BY <2>1, <1>5, FS_Subset
<1>7. IsFiniteSet(B) /\ Cardinality(B) = n
  BY KeyChunks
<1>8. IsFiniteSet(D \cup B) /\ Cardinality(D \cup B) = Cardinality(D) + n
  <2>1. /\ IsFiniteSet(D \cup B)
        /\ Cardinality(D \cup B) = Cardinality(D) + Cardinality(B) - Cardinality(D \cap B)
    BY <1>6, <1>7, FS_Union
  <2>2. Cardinality(D \cap B) = 0
    BY <1>4, FS_EmptySet
  <2>3. Cardinality(D) \in Nat
    BY <1>6, FS_CardinalityType
  <2> QED BY <2>1, <2>2, <2>3, <1>7
<1>9. Cardinality(D) + n <= used + n
  BY <1>5, <1>6, FS_CardinalityType
<1> QED BY <1>4, <1>8, <1>9 DEF UsedBound, UsedCoversEntries

\* Deleting an entry and subtracting its size, as ensureCapacity and
\* Remove do, keeps the bound.
LEMMA DropEntryBound ==
    ASSUME UsedBound, entries \in [Keys -> Nat \cup {NoEntry}], used \in Int,
           NEW k \in Keys, entries[k] # NoEntry,
           entries' = [entries EXCEPT ![k] = NoEntry], used' = used - entries[k]
    PROVE  UsedBound'
<1> DEFINE C == Chunks(entries, Resident)
           B == {k} \X (1..entries[k])
<1>1. entries[k] \in Nat
  OBVIOUS
<1>2. Resident' = Resident \ {k} /\ k \in Resident
  BY DEF Resident
<1>3. \A x \in Resident \ {k} : entries'[x] = entries[x]
  OBVIOUS
<1>4. Chunks(entries', Resident') = C \ B /\ C \cap B = B
  <2>1. /\ Chunks(entries', Resident \ {k})
             = Chunks(entries, Resident) \ ({k} \X (1..entries[k]))
        /\ Chunks(entries, Resident) \cap ({k} \X (1..entries[k])) = {k} \X (1..entries[k])
    BY <1>2, <1>3 DEF Chunks
  <2> QED BY <2>1, <1>2 DEF C, B
<1>5. IsFiniteSet(B) /\ Cardinality(B) = entries[k]
  BY <1>1, KeyChunks
<1>6. IsFiniteSet(C) /\ Cardinality(C) <= used
  BY DEF UsedBound, UsedCoversEntries
<1>7. IsFiniteSet(C \ B) /\ Cardinality(C \ B) = Cardinality(C) - entries[k]
  <2>1. /\ IsFiniteSet(C \ B)
        /\ Cardinality(C \ B) = Cardinality(C) - Cardinality(C \cap B)
    BY <1>6, FS_Difference
  <2> QED BY <2>1, <1>4, <1>5
<1>8. Cardinality(C) - entries[k] <= used - entries[k]
  BY <1>1, <1>6, FS_CardinalityType
<1> QED BY <1>4, <1>7, <1>8 DEF UsedBound, UsedCoversEntries

\* Every step, of any goroutine and under any interleaving, keeps the
\* bound.
LEMMA NextUsedBound ==
    ASSUME IInv, UsedBound, [Next]_vars
    PROVE  UsedBound'
<1> USE DEF IInv, TypeOK
<1>1. ASSUME NEW p \in Procs, Insert(p) PROVE UsedBound'
  BY <1>1, AddEntryBound DEF Insert
<1>2. ASSUME NEW p \in Procs, EvictOne(p) PROVE UsedBound'
  <2> DEFINE t == order[Len(order)]
  <2>1. t \in Keys /\ entries[t] # NoEntry
    BY <1>2 DEF EvictOne
  <2> QED BY <1>2, <2>1, DropEntryBound DEF EvictOne
<1>3. ASSUME NEW p \in Procs, NEW k \in Keys, Remove(p, k) PROVE UsedBound'
  BY <1>3, DropEntryBound DEF Remove
<1>4. ASSUME Restart PROVE UsedBound'
  <2>1. Resident' = {} /\ used' = 0
    BY <1>4 DEF Restart, Resident
  <2>2. Chunks(entries', Resident') = {}
    BY <2>1 DEF Chunks
  <2>3. IsFiniteSet({}) /\ Cardinality({}) = 0
    BY FS_EmptySet
  <2>4. IsFiniteSet(Chunks(entries', Resident'))
        /\ Cardinality(Chunks(entries', Resident')) = 0
    BY <2>2, <2>3
  <2> QED BY <2>1, <2>4 DEF UsedBound, UsedCoversEntries
<1>5. ASSUME UNCHANGED <<entries, used>> PROVE UsedBound'
  BY <1>5 DEF UsedBound, UsedCoversEntries, Resident
<1>6. ASSUME NEW p \in Procs,
             \/ \E k \in Keys : LookupHit(p, k) \/ LookupMiss(p, k)
             \/ OpenFile(p) \/ OpenFail(p) \/ FetchChunk(p) \/ StatFile(p)
             \/ FetchFail(p) \/ Acquire(p) \/ EvictPanic(p) \/ InsertFail(p)
             \/ Reopen(p) \/ ReopenFail(p) \/ Touch(p) \/ CloseHandle(p)
      PROVE  UNCHANGED <<entries, used>>
  BY <1>6 DEF LookupHit, LookupMiss, OpenFile, OpenFail, FetchChunk, StatFile,
              FetchFail, Acquire, EvictPanic, InsertFail, Reopen, ReopenFail,
              Touch, CloseHandle
<1>7. CASE UNCHANGED vars
  BY <1>7, <1>5 DEF vars
<1> QED BY <1>1, <1>2, <1>3, <1>4, <1>5, <1>6, <1>7 DEF Next, Step

\* The bound holds initially: there are no entries and c.used is 0.
LEMMA InitUsedBound == Init => UsedBound
<1> SUFFICES ASSUME Init PROVE UsedBound
  OBVIOUS
<1>1. Resident = {} /\ used = 0
  BY ConstAssumption DEF Init, Resident
<1>2. Chunks(entries, Resident) = {}
  BY <1>1 DEF Chunks
<1> QED BY <1>1, <1>2, FS_EmptySet DEF UsedBound, UsedCoversEntries

-----------------------------------------------------------------------------
(* c.used never undercounts the resident entries, in every reachable      *)
(* state, whatever the interleaving: the double count of two racing       *)
(* inserts of one key errs only upward, and ensureCapacity and Remove     *)
(* subtract only the size of the entry they delete.                       *)
THEOREM UsedCoversResident == Spec => []UsedCoversEntries
<1>1. Init => IInv /\ UsedBound
  BY InitIInv, InitUsedBound
<1>2. IInv /\ UsedBound /\ [Next]_vars => IInv' /\ UsedBound'
  BY NextIInv, NextUsedBound
<1>3. UsedBound => UsedCoversEntries
  BY DEF UsedBound
<1> QED BY <1>1, <1>2, <1>3, PTL DEF Spec

(* The bytes of the resident entries stay within Cache.maxBytes in every  *)
(* reachable state, the same-key race and restarts included: the capacity *)
(* check of ensureCapacity bounds c.used, and c.used bounds them.         *)
THEOREM ResidentBounded == Spec => []ResidentWithinQuota
<1>1. Init => IInv /\ UsedBound /\ UsedWithinQuota
  BY InitIInv, InitUsedBound, ConstAssumption DEF Init, UsedWithinQuota
<1>2. IInv /\ UsedBound /\ UsedWithinQuota /\ [Next]_vars
        => IInv' /\ UsedBound' /\ UsedWithinQuota'
  BY NextIInv, NextUsedBound, NextQuota
<1>3. IInv /\ UsedBound /\ UsedWithinQuota => ResidentWithinQuota
  <2> SUFFICES ASSUME IInv, UsedBound, UsedWithinQuota, MaxBytes > 0
               PROVE  Cardinality(Chunks(entries, Resident)) <= MaxBytes
    BY DEF ResidentWithinQuota
  <2>1. Cardinality(Chunks(entries, Resident)) \in Nat
    BY FS_CardinalityType DEF UsedBound
  <2>2. Cardinality(Chunks(entries, Resident)) <= used /\ used <= MaxBytes
    BY DEF UsedBound, UsedCoversEntries, UsedWithinQuota
  <2> QED BY <2>1, <2>2, ConstAssumption DEF IInv, TypeOK
<1> QED BY <1>1, <1>2, <1>3, PTL DEF Spec
=============================================================================
