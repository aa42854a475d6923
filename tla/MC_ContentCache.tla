-------------------------- MODULE MC_ContentCache --------------------------
(* Instances of ContentCache for TLC.  Object sizes are in download      *)
(* chunks; the quota is in the same unit.  ContentCache_invariants is    *)
(* taken in so that cache_disjoint checks CacheInv and AccountingInv.    *)
EXTENDS ContentCache_invariants, ContentCache_accounting_proofs, TLC

CONSTANTS p1, p2, k1, k2, k3, i1, i2, i3, i4, i5

\* Bound of the state space, not of the code: racing inserts of one key
\* leave stale elements in c.lru, so the list has no bound of its own.
CONSTANT MaxListLen

ListBound == Len(order) <= MaxListLen

\* Three objects: k1 and k2 do not fit together, k3 exceeds the quota.
MCKeys3 == {k1, k2, k3}
MCSize3 == (k1 :> 1) @@ (k2 :> 2) @@ (k3 :> 3)
\* Each caller reads its own keys: no two requests for the same key.
MCDisjointReads == (p1 :> {k1, k3}) @@ (p2 :> {k2})

\* Two objects read by both callers.
MCKeys2 == {k1, k2}
MCSize2 == (k1 :> 1) @@ (k2 :> 2)
MCSharedReads == (p1 :> {k1, k2}) @@ (p2 :> {k1, k2})
MCDisjointReads2 == (p1 :> {k1}) @@ (p2 :> {k2})
MCOneShared == (p1 :> {k1, k2}) @@ (p2 :> {k1})

MCProcs == {p1, p2}
MCInodes5 == {i1, i2, i3, i4, i5}
MCInodes4 == {i1, i2, i3, i4}
=============================================================================
