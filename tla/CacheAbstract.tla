---------------------------- MODULE CacheAbstract ----------------------------
(***************************************************************************)
(* What the content cache (pkg/cache, Cache) promises its callers, with   *)
(* no files, no lock and no fetch: a map from keys to recorded sizes, the *)
(* recency order of the resident keys, and the accounted bytes.  Each     *)
(* public operation is one atomic step:                                   *)
(*   Touch    a resident key becomes the most recently used;             *)
(*   Admit    an absent key enters at the front with its object's size,  *)
(*            only if it fits the quota (0 disables the quota);          *)
(*   Evict    the least recently used key leaves, only while an absent   *)
(*            object waits for room;                                      *)
(*   Remove   a resident key leaves;                                      *)
(*   Reset    a new process starts with an empty map.                     *)
(* ContentCache is shown to implement this specification when no two      *)
(* requests download the same key.                                        *)
(***************************************************************************)
EXTENDS Integers, Sequences

CONSTANTS
    Keys,      \* the keys
    Size,      \* Size[k]: the length of object k
    MaxBytes,  \* the quota; 0 disables it
    None       \* the size of an absent key

VARIABLES
    contents,  \* contents[k]: the recorded size of k, or None
    lru,       \* the resident keys, most recently used first
    used       \* the accounted bytes

vars == <<contents, lru, used>>

\* The position of k in the recency order.
Pos(s, k) == CHOOSE i \in 1..Len(s) : s[i] = k

\* The recency order with k taken out.
Drop(s, k) == [i \in 1..(Len(s) - 1) |-> IF i < Pos(s, k) THEN s[i] ELSE s[i + 1]]

\* The recency order without its least recently used key.
DropLast(s) == [i \in 1..(Len(s) - 1) |-> s[i]]

Init ==
    /\ contents = [k \in Keys |-> None]
    /\ lru = <<>>
    /\ used = 0

\* Cache.Touch, and LoadOrCreate on a hit.
Touch(k) ==
    /\ contents[k] # None
    /\ lru' = <<k>> \o Drop(lru, k)
    /\ UNCHANGED <<contents, used>>

\* LoadOrCreate on a miss, when the downloaded object fits.
Admit(k) ==
    /\ contents[k] = None
    /\ MaxBytes = 0 \/ used + Size[k] <= MaxBytes
    /\ contents' = [contents EXCEPT ![k] = Size[k]]
    /\ lru' = <<k>> \o lru
    /\ used' = used + Size[k]

\* One eviction of ensureCapacity, on behalf of the absent key k.
Evict(k) ==
    LET v == lru[Len(lru)]
    IN  /\ contents[k] = None
        /\ MaxBytes > 0 /\ used + Size[k] > MaxBytes
        /\ lru # <<>>
        /\ contents' = [contents EXCEPT ![v] = None]
        /\ lru' = DropLast(lru)
        /\ used' = used - contents[v]

\* Cache.Remove of a resident key.
Remove(k) ==
    /\ contents[k] # None
    /\ contents' = [contents EXCEPT ![k] = None]
    /\ lru' = Drop(lru, k)
    /\ used' = used - contents[k]

\* cache.New in a new process.
Reset ==
    /\ contents' = [k \in Keys |-> None]
    /\ lru' = <<>>
    /\ used' = 0

Next ==
    \/ \E k \in Keys : Touch(k) \/ Admit(k) \/ Evict(k) \/ Remove(k)
    \/ Reset

Spec == Init /\ [][Next]_vars
=============================================================================
