------------------------- MODULE ContentCache_proofs -------------------------
(***************************************************************************)
(* Proofs about ContentCache for every value of the constants and every  *)
(* interleaving: the type invariant, the quota invariant UsedWithinQuota *)
(* and the lock discipline LockHeldByInserter.                           *)
(***************************************************************************)
EXTENDS ContentCache, FiniteSetTheorems, SequenceTheorems,
        WellFoundedInduction, TLAPS

-----------------------------------------------------------------------------
(* Lemmas on the list operations.                                         *)

\* A key that occurs in a list has a first occurrence: FirstIndex is defined.
LEMMA FirstIndexProps ==
    ASSUME NEW S, NEW s \in Seq(S), NEW k \in Range(s)
    PROVE  /\ FirstIndex(s, k) \in 1..Len(s)
           /\ s[FirstIndex(s, k)] = k
<1> DEFINE T == {i \in 1..Len(s) : s[i] = k}
<1>1. T \subseteq Nat /\ T # {}
  BY DEF Range
<1>2. PICK i \in T : \A j \in T : ~(<<j, i>> \in OpToRel(<, Nat))
  BY <1>1, NatLessThanWellFounded, WFMin
<1>3. ASSUME NEW j \in 1..(i - 1), s[j] = k PROVE FALSE
  <2>1. j \in T  BY <1>3
  <2>2. <<j, i>> \in OpToRel(<, Nat)  BY <1>3 DEF OpToRel
  <2> QED BY <1>2, <2>1, <2>2
<1> QED BY <1>2, <1>3 DEF FirstIndex

\* Removing position i of a list leaves a list one shorter that holds
\* every other position's element.
LEMMA RemoveIndexProps ==
    ASSUME NEW S, NEW s \in Seq(S), NEW i \in 1..Len(s)
    PROVE  /\ RemoveIndex(s, i) \in Seq(S)
           /\ Len(RemoveIndex(s, i)) = Len(s) - 1
           /\ \A j \in 1..Len(s) : j # i => s[j] \in Range(RemoveIndex(s, i))
<1>1. /\ RemoveIndex(s, i) \in Seq(S)
      /\ Len(RemoveIndex(s, i)) = Len(s) - 1
  BY DEF RemoveIndex
<1>2. \A j \in 1..Len(s) : j # i => s[j] \in Range(RemoveIndex(s, i))
  <2> SUFFICES ASSUME NEW j \in 1..Len(s), j # i
               PROVE  s[j] \in Range(RemoveIndex(s, i))
    OBVIOUS
  <2>1. CASE j < i
    <3>1. RemoveIndex(s, i)[j] = s[j]  BY <2>1 DEF RemoveIndex
    <3> QED BY <3>1, <1>1, <2>1 DEF Range
  <2>2. CASE j > i
    <3>1. RemoveIndex(s, i)[j - 1] = s[j]  BY <2>2 DEF RemoveIndex
    <3> QED BY <3>1, <1>1, <2>2 DEF Range
  <2> QED BY <2>1, <2>2
<1> QED BY <1>1, <1>2

\* MoveToFront keeps a list of keys a list of keys and loses no key.
LEMMA MoveToFrontProps ==
    ASSUME NEW S, NEW s \in Seq(S), NEW k \in Range(s)
    PROVE  /\ MoveToFront(s, k) \in Seq(S)
           /\ Range(s) \subseteq Range(MoveToFront(s, k))
<1> DEFINE i == FirstIndex(s, k)
           r == RemoveIndex(s, i)
<1>1. i \in 1..Len(s) /\ s[i] = k
  BY FirstIndexProps
<1>2. r \in Seq(S) /\ \A j \in 1..Len(s) : j # i => s[j] \in Range(r)
  BY <1>1, RemoveIndexProps
<1>3. <<k>> \in Seq(S)
  BY <1>1
<1>4. <<k>> \o r \in Seq(S) /\ Range(<<k>> \o r) = Range(<<k>>) \cup Range(r)
  <2>1. <<k>> \o r \in Seq(S)
    BY <1>2, <1>3, ConcatProperties
  <2>2. \A s1, s2 \in Seq(S) : Range(s1 \o s2) = Range(s1) \cup Range(s2)
    BY RangeConcatenation
  <2> QED BY <1>2, <1>3, <2>1, <2>2
<1>5. k \in Range(<<k>>)
  BY DEF Range
<1>6. ASSUME NEW x \in Range(s) PROVE x \in Range(<<k>>) \cup Range(r)
  <2>1. PICK j \in 1..Len(s) : s[j] = x
    BY RangeEquality
  <2> QED BY <2>1, <1>1, <1>2, <1>5
<1> QED BY <1>4, <1>6 DEF MoveToFront

\* PushFront of a key onto a list of keys.
LEMMA PushFrontProps ==
    ASSUME NEW S, NEW s \in Seq(S), NEW k \in S
    PROVE  /\ <<k>> \o s \in Seq(S)
           /\ Range(<<k>> \o s) = {k} \cup Range(s)
<1>1. <<k>> \in Seq(S) /\ Range(<<k>>) = {k}
  BY DEF Range
<1>2. <<k>> \o s \in Seq(S)
  BY <1>1, ConcatProperties
<1>3. Range(<<k>> \o s) = Range(<<k>>) \cup Range(s)
  <2>1. \A s1, s2 \in Seq(S) : Range(s1 \o s2) = Range(s1) \cup Range(s2)
    BY RangeConcatenation
  <2> QED BY <1>1, <2>1
<1> QED BY <1>1, <1>2, <1>3

-----------------------------------------------------------------------------
(* os.OpenFile of a path with no file always finds an inode to create:    *)
(* the directory names at most |Keys| - 1 others, the open handles at     *)
(* most |Procs|, and ConstAssumption gives |Inodes| >= |Keys| + |Procs|.   *)
LEMMA FreeInodeExists ==
    ASSUME NEW k \in Keys,
           dir \in [Keys -> Inodes \cup {NoInode}],
           fd \in [Procs -> Inodes \cup {NoInode}],
           dir[k] = NoInode
    PROVE  FreeInodes # {}
<1> DEFINE K1 == Keys \ {k}
           DirUsed == {dir[x] : x \in K1}
           FdUsed == {fd[q] : q \in Procs}
           U == DirUsed \cup FdUsed
<1>1. IsFiniteSet(K1) /\ Cardinality(K1) = Cardinality(Keys) - 1
  BY ConstAssumption, FS_RemoveElement
<1>2. IsFiniteSet(DirUsed) /\ Cardinality(DirUsed) <= Cardinality(K1)
  <2>1. [x \in K1 |-> dir[x]] \in Surjection(K1, DirUsed)
    BY DEF Surjection
  <2> QED BY <1>1, <2>1, FS_Surjection
<1>3. IsFiniteSet(FdUsed) /\ Cardinality(FdUsed) <= Cardinality(Procs)
  <2>1. [q \in Procs |-> fd[q]] \in Surjection(Procs, FdUsed)
    BY DEF Surjection
  <2> QED BY ConstAssumption, <2>1, FS_Surjection
<1>4. IsFiniteSet(U) /\ Cardinality(U) <= Cardinality(Keys) - 1 + Cardinality(Procs)
  <2>1. IsFiniteSet(U) /\ Cardinality(U) = Cardinality(DirUsed) + Cardinality(FdUsed)
                                           - Cardinality(DirUsed \cap FdUsed)
    BY <1>2, <1>3, FS_Union
  <2>2. IsFiniteSet(DirUsed \cap FdUsed)
    BY <1>2, FS_Intersection
  <2>3. /\ Cardinality(DirUsed \cap FdUsed) \in Nat
        /\ Cardinality(DirUsed) \in Nat /\ Cardinality(FdUsed) \in Nat
        /\ Cardinality(K1) \in Nat /\ Cardinality(Procs) \in Nat
    BY <2>2, <1>1, <1>2, <1>3, ConstAssumption, FS_CardinalityType
  <2> QED BY <2>1, <2>3, <1>1, <1>2, <1>3
<1>5. SUFFICES ASSUME FreeInodes = {} PROVE FALSE
  OBVIOUS
<1>6. Inodes \subseteq U
  <2> SUFFICES ASSUME NEW i \in Inodes PROVE i \in U
    OBVIOUS
  <2>1. i \in Range(dir) \/ \E q \in Procs : fd[q] = i
    BY <1>5 DEF FreeInodes
  <2>2. CASE i \in Range(dir)
    <3>1. PICK x \in Keys : dir[x] = i
      BY <2>2 DEF Range
    <3>2. x # k
      BY <3>1, ConstAssumption
    <3> QED BY <3>1, <3>2
  <2> QED BY <2>1, <2>2
<1>7. Cardinality(Inodes) <= Cardinality(U)
  BY <1>4, <1>6, FS_Subset
<1>8. Cardinality(Inodes) \in Nat /\ Cardinality(Keys) \in Nat /\ Cardinality(Procs) \in Nat
      /\ Cardinality(U) \in Nat
  BY <1>4, ConstAssumption, FS_CardinalityType
<1> QED BY <1>4, <1>7, <1>8, ConstAssumption

-----------------------------------------------------------------------------
(* The inductive invariant behind TypeOK.  TypeOK alone is not inductive: *)
(* MoveToFront and Remove take the first occurrence of a key in c.order,  *)
(* which is defined only for a key that occurs (every resident key does), *)
(* and file.Stat reads the inode of the request's open file (a request    *)
(* between OpenFile and the insertion holds one).                          *)
IInv ==
    /\ TypeOK
    /\ Resident \subseteq Range(order)
    /\ \A p \in Procs : pc[p] \in {"fetch", "lock", "evict"} => fd[p] \in Inodes

LEMMA InitIInv == Init => IInv
<1> SUFFICES ASSUME Init PROVE IInv
  OBVIOUS
<1>1. (CHOOSE k \in Keys : TRUE) \in Keys
  BY ConstAssumption
<1>2. TypeOK
  BY <1>1 DEF Init, TypeOK, EmptyFile, PCs
<1>3. Resident = {}
  BY ConstAssumption DEF Init, Resident
<1> QED BY <1>2, <1>3 DEF Init, IInv

\* Every step of the cache and of its requests preserves IInv.
LEMMA NextIInv == IInv /\ [Next]_vars => IInv'
<1> SUFFICES ASSUME IInv, [Next]_vars PROVE IInv'
  OBVIOUS
<1> USE DEF IInv, TypeOK, PCs
<1>1. ASSUME NEW p \in Procs, NEW k \in Keys, LookupHit(p, k) PROVE IInv'
  <2>1. k \in Range(order)
    BY <1>1 DEF LookupHit, Resident
  <2>2. order' \in Seq(Keys) /\ Range(order) \subseteq Range(order')
    BY <1>1, <2>1, MoveToFrontProps DEF LookupHit
  <2> QED BY <1>1, <2>2 DEF LookupHit, Resident
<1>2. ASSUME NEW p \in Procs, NEW k \in Keys, LookupMiss(p, k) PROVE IInv'
  BY <1>2 DEF LookupMiss, Resident
<1>3. ASSUME NEW p \in Procs, NEW k \in Keys, Remove(p, k) PROVE IInv'
  <2>1. k \in Range(order)
    BY <1>3 DEF Remove, Resident
  <2>2. FirstIndex(order, k) \in 1..Len(order) /\ order[FirstIndex(order, k)] = k
    BY <2>1, FirstIndexProps
  <2>3. /\ order' \in Seq(Keys)
        /\ \A j \in 1..Len(order) : j # FirstIndex(order, k) => order[j] \in Range(order')
    BY <1>3, <2>2, RemoveIndexProps DEF Remove
  <2>4. Resident' \subseteq Range(order')
    <3> SUFFICES ASSUME NEW x \in Resident' PROVE x \in Range(order')
      OBVIOUS
    <3>1. x # k /\ x \in Resident
      BY <1>3 DEF Remove, Resident
    <3>2. x \in Range(order)
      BY <3>1
    <3>3. PICK j \in 1..Len(order) : order[j] = x
      BY <3>2, RangeEquality
    <3> QED BY <3>1, <3>3, <2>2, <2>3
  <2> QED BY <1>3, <2>3, <2>4 DEF Remove
<1>4. ASSUME NEW p \in Procs, OpenFile(p) PROVE IInv'
  <2> DEFINE k == rkey[p]
             i == IF dir[k] # NoInode THEN dir[k] ELSE CHOOSE j \in FreeInodes : TRUE
  <2>1. k \in Keys
    OBVIOUS
  <2>2. i \in Inodes
    <3>1. CASE dir[k] # NoInode
      BY <2>1, <3>1
    <3>2. CASE dir[k] = NoInode
      <4>1. FreeInodes # {}
        BY <2>1, <3>2, FreeInodeExists
      <4> QED BY <3>2, <4>1 DEF FreeInodes
    <3> QED BY <3>1, <3>2
  <2> QED BY <1>4, <2>2 DEF OpenFile, Resident, EmptyFile
<1>5. ASSUME NEW p \in Procs, OpenFail(p) PROVE IInv'
  BY <1>5 DEF OpenFail, Resident
<1>6. ASSUME NEW p \in Procs, FetchChunk(p) PROVE IInv'
  BY <1>6 DEF FetchChunk, Resident
<1>7. ASSUME NEW p \in Procs, StatFile(p) PROVE IInv'
  BY <1>7 DEF StatFile, Resident
<1>8. ASSUME NEW p \in Procs, FetchFail(p) PROVE IInv'
  BY <1>8 DEF FetchFail, Resident
<1>9. ASSUME NEW p \in Procs, Acquire(p) PROVE IInv'
  BY <1>9 DEF Acquire, Resident
<1>10. ASSUME NEW p \in Procs, EvictOne(p) PROVE IInv'
  <2> DEFINE n == Len(order)
             t == order[n]
  <2>1. n \in 1..Len(order) /\ t \in Keys
    BY <1>10 DEF EvictOne
  <2>2. /\ order' \in Seq(Keys)
        /\ \A j \in 1..n : j # n => order[j] \in Range(order')
    BY <1>10, <2>1, RemoveIndexProps DEF EvictOne
  <2>3. Resident' \subseteq Range(order')
    <3> SUFFICES ASSUME NEW x \in Resident' PROVE x \in Range(order')
      OBVIOUS
    <3>1. x # t /\ x \in Resident
      BY <1>10 DEF EvictOne, Resident
    <3>2. PICK j \in 1..Len(order) : order[j] = x
      BY <3>1, RangeEquality
    <3> QED BY <3>1, <3>2, <2>2
  <2>4. entries[t] \in Nat
    BY <1>10, <2>1 DEF EvictOne
  <2>5. /\ entries' \in [Keys -> Nat \cup {NoEntry}]
        /\ used' \in Int
        /\ dir' \in [Keys -> Inodes \cup {NoInode}]
    BY <1>10, <2>1, <2>4 DEF EvictOne
  <2>6. UNCHANGED <<lock, ino, pc, rkey, fd, off, fsize, restarts>>
    BY <1>10 DEF EvictOne
  <2>7. TypeOK'
    BY <2>2, <2>5, <2>6
  <2> QED BY <2>3, <2>6, <2>7
<1>11. ASSUME NEW p \in Procs, EvictPanic(p) PROVE IInv'
  BY <1>11 DEF EvictPanic, Resident
<1>12. ASSUME NEW p \in Procs, InsertFail(p) PROVE IInv'
  BY <1>12 DEF InsertFail, Resident
<1>13. ASSUME NEW p \in Procs, Insert(p) PROVE IInv'
  <2>1. order' \in Seq(Keys) /\ Range(order') = {rkey[p]} \cup Range(order)
    BY <1>13, PushFrontProps DEF Insert
  <2> QED BY <1>13, <2>1 DEF Insert, Resident
<1>14. ASSUME NEW p \in Procs, Reopen(p) PROVE IInv'
  BY <1>14 DEF Reopen, Resident
<1>15. ASSUME NEW p \in Procs, ReopenFail(p) PROVE IInv'
  BY <1>15 DEF ReopenFail, Resident
<1>16. ASSUME NEW p \in Procs, Touch(p) PROVE IInv'
  <2>1. CASE entries[rkey[p]] # NoEntry /\ order' = MoveToFront(order, rkey[p])
    <3>1. rkey[p] \in Range(order)
      BY <2>1 DEF Resident
    <3>2. order' \in Seq(Keys) /\ Range(order) \subseteq Range(order')
      BY <2>1, <3>1, MoveToFrontProps
    <3> QED BY <1>16, <3>2 DEF Touch, Resident
  <2>2. CASE entries[rkey[p]] = NoEntry /\ UNCHANGED order
    BY <1>16, <2>2 DEF Touch, Resident
  <2> QED BY <1>16, <2>1, <2>2 DEF Touch
<1>17. ASSUME NEW p \in Procs, CloseHandle(p) PROVE IInv'
  BY <1>17 DEF CloseHandle, Resident
<1>18. ASSUME Restart PROVE IInv'
  BY <1>18, ConstAssumption DEF Restart, Resident
<1>19. CASE UNCHANGED vars
  BY <1>19 DEF vars, Resident
<1> QED BY <1>1, <1>2, <1>3, <1>4, <1>5, <1>6, <1>7, <1>8, <1>9, <1>10,
           <1>11, <1>12, <1>13, <1>14, <1>15, <1>16, <1>17, <1>18, <1>19
        DEF Next, Step

(* Type correctness: every reachable state of the cache and its requests *)
(* has the types of TypeOK (c.entries maps keys to sizes, c.order holds   *)
(* keys, every open *os.File is an inode of the cache directory).         *)
THEOREM TypeCorrect == Spec => []TypeOK
<1>1. Init => IInv
  BY InitIInv
<1>2. IInv /\ [Next]_vars => IInv'
  BY NextIInv
<1>3. IInv => TypeOK
  BY DEF IInv
<1> QED BY <1>1, <1>2, <1>3, PTL DEF Spec

-----------------------------------------------------------------------------
(* Quota: with a quota set, c.used never exceeds it.  Only the insertion  *)
(* of LoadOrCreate adds to c.used, and only after ensureCapacity's final   *)
(* check used + size <= maxBytes; evictions, Remove and a restart only     *)
(* lower it, because every recorded size is a natural number.             *)
LEMMA NextQuota == IInv /\ UsedWithinQuota /\ [Next]_vars => UsedWithinQuota'
<1> SUFFICES ASSUME IInv, UsedWithinQuota, [Next]_vars PROVE UsedWithinQuota'
  OBVIOUS
<1> USE DEF IInv, TypeOK, UsedWithinQuota
<1>1. ASSUME NEW p \in Procs, Insert(p) PROVE UsedWithinQuota'
  BY <1>1, ConstAssumption DEF Insert, OverQuota
<1>2. ASSUME NEW p \in Procs, EvictOne(p) PROVE UsedWithinQuota'
  <2> DEFINE t == order[Len(order)]
  <2>1. t \in Keys
    BY <1>2 DEF EvictOne
  <2>2. entries[t] \in Nat
    BY <1>2, <2>1 DEF EvictOne
  <2>3. used' = used - entries[t]
    BY <1>2 DEF EvictOne
  <2> QED BY <2>2, <2>3, ConstAssumption
<1>3. ASSUME NEW p \in Procs, NEW k \in Keys, Remove(p, k) PROVE UsedWithinQuota'
  <2>1. entries[k] \in Nat
    BY <1>3 DEF Remove
  <2>2. used' = used - entries[k]
    BY <1>3 DEF Remove
  <2> QED BY <2>1, <2>2, ConstAssumption
<1>4. ASSUME Restart PROVE UsedWithinQuota'
  BY <1>4, ConstAssumption DEF Restart
<1>5. ASSUME NEW p \in Procs,
             \/ \E k \in Keys : LookupHit(p, k) \/ LookupMiss(p, k)
             \/ OpenFile(p) \/ OpenFail(p) \/ FetchChunk(p) \/ StatFile(p)
             \/ FetchFail(p) \/ Acquire(p) \/ EvictPanic(p) \/ InsertFail(p)
             \/ Reopen(p) \/ ReopenFail(p) \/ Touch(p) \/ CloseHandle(p)
      PROVE  UNCHANGED used
  BY <1>5 DEF LookupHit, LookupMiss, OpenFile, OpenFail, FetchChunk, StatFile,
              FetchFail, Acquire, EvictPanic, InsertFail, Reopen, ReopenFail,
              Touch, CloseHandle
<1>6. CASE UNCHANGED vars
  BY <1>6 DEF vars
<1> QED BY <1>1, <1>2, <1>3, <1>4, <1>5, <1>6 DEF Next, Step

(* The accounted bytes of the cache stay within Cache.maxBytes in every   *)
(* reachable state, whatever the interleaving of requests and restarts.   *)
THEOREM QuotaRespected == Spec => []UsedWithinQuota
<1>1. Init => IInv /\ UsedWithinQuota
  BY InitIInv, ConstAssumption DEF Init, UsedWithinQuota
<1>2. IInv /\ UsedWithinQuota /\ [Next]_vars => IInv' /\ UsedWithinQuota'
  BY NextIInv, NextQuota
<1> QED BY <1>1, <1>2, PTL DEF Spec

-----------------------------------------------------------------------------
(* The cache lock: c.mu is taken only by the insertion critical section   *)
(* and released on each of its four exits.  A step of one goroutine       *)
(* changes only its own pc, and the steps that move a goroutine into or   *)
(* out of "evict" are exactly those that take or release the lock.        *)
LEMMA NextLock ==
    IInv /\ LockHeldByInserter /\ [Next]_vars => LockHeldByInserter'
<1> SUFFICES ASSUME IInv, LockHeldByInserter, [Next]_vars
             PROVE  LockHeldByInserter'
  OBVIOUS
<1> USE DEF IInv, TypeOK, PCs, LockHeldByInserter
<1>1. ASSUME NEW p \in Procs, Acquire(p) PROVE LockHeldByInserter'
  <2>1. \A q \in Procs : pc[q] # "evict"
    BY <1>1, ConstAssumption DEF Acquire
  <2> QED BY <1>1, <2>1 DEF Acquire
<1>2. ASSUME NEW p \in Procs, EvictPanic(p) \/ InsertFail(p) \/ Insert(p)
      PROVE  LockHeldByInserter'
  <2>1. /\ pc[p] = "evict" /\ lock = p /\ lock' = NoProc
        /\ \E x \in {"idle", "reopen"} : pc' = [pc EXCEPT ![p] = x]
    BY <1>2 DEF EvictPanic, InsertFail, Insert
  <2> QED BY <2>1, ConstAssumption
<1>3. ASSUME NEW p \in Procs, EvictOne(p) PROVE LockHeldByInserter'
  BY <1>3 DEF EvictOne
<1>4. ASSUME NEW p \in Procs,
             \/ \E k \in Keys : LookupHit(p, k) \/ LookupMiss(p, k) \/ Remove(p, k)
             \/ OpenFile(p) \/ OpenFail(p) \/ FetchChunk(p) \/ StatFile(p)
             \/ FetchFail(p) \/ Reopen(p) \/ ReopenFail(p) \/ Touch(p)
             \/ CloseHandle(p)
      PROVE  LockHeldByInserter'
  <2>1. /\ UNCHANGED lock /\ pc[p] # "evict"
        /\ \/ UNCHANGED pc
           \/ \E x \in PCs \ {"evict"} : pc' = [pc EXCEPT ![p] = x]
    BY <1>4 DEF LookupHit, LookupMiss, Remove, OpenFile, OpenFail, FetchChunk,
                StatFile, FetchFail, Reopen, ReopenFail, Touch, CloseHandle
  <2> QED BY <2>1
<1>5. ASSUME Restart PROVE LockHeldByInserter'
  BY <1>5, ConstAssumption DEF Restart
<1>6. CASE UNCHANGED vars
  BY <1>6 DEF vars
<1> QED BY <1>1, <1>2, <1>3, <1>4, <1>5, <1>6 DEF Next, Step

(* c.mu is never left held by a goroutine outside the insertion critical  *)
(* section, nor is that section entered without it, in every reachable    *)
(* state, whatever the interleaving of requests, panics and restarts.     *)
THEOREM LockDiscipline == Spec => []LockHeldByInserter
<1>1. Init => IInv /\ LockHeldByInserter
  BY InitIInv, ConstAssumption DEF Init, LockHeldByInserter
<1>2. IInv /\ LockHeldByInserter /\ [Next]_vars => IInv' /\ LockHeldByInserter'
  BY NextIInv, NextLock
<1> QED BY <1>1, <1>2, PTL DEF Spec

=============================================================================
