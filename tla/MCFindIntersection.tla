------------------------- MODULE MCFindIntersection -------------------------
(* FindIntersection for TLC.  A digest is <<prefix, rest>>: two digests may   *)
(* share their first eight octets, and two prefixes their hash.              *)
EXTENDS FindIntersection

MCDigest == {<<1, 0>>, <<2, 0>>, <<3, 0>>, <<4, 0>>}
MCPrefix(d) == d[1]
MCIntHash(k) == k            \* no collision among the prefixes that occur
MCIntHashFolds(k) == k % 3   \* 1 and 4 collide

MCLists == UNION {[1..n -> MCDigest] : n \in 0..3}
=============================================================================
