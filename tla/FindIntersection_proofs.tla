----------------------- MODULE FindIntersection_proofs -----------------------
(***************************************************************************)
(* find_intersection computes Matching's operators, for lists of every     *)
(* length and every hash function.  This is what lets DhPsi take it as one *)
(* step.                                                                   *)
(***************************************************************************)
EXTENDS FindIntersection, FiniteSetTheorems, WellFoundedInduction, TLAPS

Own == Len(hashes)
Partner == Len(phashes)

\* The partner's positions up to n that hit, and the positions they lead to.
HitsUpTo(n) == {j \in 1..n : \E k \in 1..Own : Tag(hashes[k]) = Tag(phashes[j])}
MatchedUpTo(n) ==
    {k \in 1..Own : /\ \A l \in 1..Own : Tag(hashes[l]) = Tag(hashes[k]) => l <= k
                    /\ \E j \in 1..n : Tag(phashes[j]) = Tag(hashes[k])}

\* Position k is the last of its tag among the first m, and the partner's
\* positions up to n that lead to it.
LastIn(m, k) == \A l \in 1..m : Tag(hashes[l]) = Tag(hashes[k]) => l <= k
HitsOf(n, k) == {j \in 1..n : LastIn(Own, k) /\ Tag(phashes[j]) = Tag(hashes[k])}

\* What the first n turns of the second loop have stored.
Stored(n) ==
    /\ Len(matches) = Cardinality(HitsUpTo(n))
    /\ Values(matches) = MatchedUpTo(n)
    /\ \A k \in 1..Own : Occurs(matches, k) = Cardinality(HitsOf(n, k))

LoopInv ==
    /\ pc = "insert" => i <= Own + 1 /\ matches = <<>> /\ result = <<>>
    /\ pc = "lookup" => i <= Partner + 1 /\ Stored(i - 1) /\ Len(matches) <= Shorter
    /\ pc = "aborted" => i <= Partner + 1 /\ Stored(i - 1) /\ Len(matches) > Shorter
    /\ pc \in {"create", "done"} => Stored(Partner) /\ Len(matches) <= Shorter

FIInv == TypeOK /\ TableExact /\ LoopInv

-----------------------------------------------------------------------------

\* A set of positions that is not empty has a last one.
LEMMA LastOne ==
    ASSUME NEW n \in Nat, NEW S, S \subseteq 1..n, S # {}
    PROVE  \E m \in S : \A k \in S : k <= m
  <1> DEFINE T == {n - k : k \in S}
  <1>1. T \subseteq Nat /\ T # {}
    <2>1. \A k \in S : k \in Int /\ n - k \in Nat
      OBVIOUS
    <2> QED BY <2>1
  <1>2. PICK x \in T : \A y \in T : ~ (<<y, x>> \in OpToRel(<, Nat))
    BY <1>1, NatLessThanWellFounded, WFMin
  <1>3. PICK m \in S : x = n - m
    OBVIOUS
  <1>4. ASSUME NEW k \in S PROVE k <= m
    <2>1. n - k \in T /\ n - k \in Nat /\ n - m \in Nat
      BY <1>1
    <2>2. ~ (n - k < n - m)
      BY <1>2, <1>3, <2>1 DEF OpToRel
    <2> QED BY <2>2
  <1> QED BY <1>4

LEMMA Lengths ==
    ASSUME TypeOK
    PROVE  /\ Own \in Nat /\ DOMAIN hashes = 1..Own /\ \A k \in 1..Own : hashes[k] \in Digest
           /\ Partner \in Nat /\ DOMAIN phashes = 1..Partner
           /\ \A k \in 1..Partner : phashes[k] \in Digest
           /\ Len(matches) \in Nat /\ DOMAIN matches = 1..Len(matches)
  <1>1. hashes \in Seq(Digest) /\ phashes \in Seq(Digest)
    BY ListsAssumption DEF TypeOK
  <1> QED BY <1>1 DEF Own, Partner, TypeOK

\* What the table holds after m insertions, in terms of the lists.
Node(k) == [hash |-> Tag(hashes[k]), ptr |-> KeyPointer, val |-> k]
Table(m) == {Node(k) : k \in {l \in 1..m : LastIn(m, l)}}

Positions(m, t) ==
    {[hash |-> t[k], ptr |-> KeyPointer, val |-> k] : k \in {l \in 1..m : IsLast(t, l)}}

LEMMA TableForm ==
    ASSUME NEW m
    PROVE  Positions(m, [k \in 1..m |-> Tag(hashes[k])]) = Table(m)
  <1> DEFINE t == [k \in 1..m |-> Tag(hashes[k])]
  <1>1. \A l \in 1..m : IsLast(t, l) <=> LastIn(m, l)
    BY DEF IsLast, LastIn
  <1> QED BY <1>1 DEF Table, Node, Positions

\* The comparison of keys sees only the stored hash.
LEMMA NodesForm ==
    ASSUME TypeOK, NEW key
    PROVE  Nodes(key) = {n \in map : n.hash = IntHash(key)}
  <1>1. \A n \in map : n.ptr = KeyPointer
    BY DEF TypeOK
  <1> QED BY <1>1 DEF Nodes, SameKey

LEMMA InvPerm ==
    ASSUME NEW k \in DOMAIN hashes
    PROVE  invperm[k] = k
  BY DEF invperm, perm

LEMMA InsertStep ==
    ASSUME FIInv, Insert
    PROVE  FIInv'
  <1>1. /\ TypeOK /\ Own \in Nat /\ DOMAIN hashes = 1..Own
        /\ pc = "insert" /\ i \in 1..Own /\ i \in Nat /\ matches = <<>> /\ result = <<>>
        /\ \A k \in 1..Own : hashes[k] \in Digest
    BY Lengths DEF FIInv, LoopInv, Insert, InsertNode, TypeOK, Own
  <1>2. /\ map' = (map \ {n \in map : n.hash = Tag(hashes[i])}) \cup {Node(i)}
        /\ i' = i + 1
        /\ UNCHANGED <<hashes, phashes, pc, matches, result>>
    BY <1>1, NodesForm, InvPerm DEF Insert, InsertNode, inputVars, Tag, Node
  <1>3. map = Table(i - 1)
    BY <1>1, TableForm DEF FIInv, TableExact, Positions
  <1>4. Node(i) \in [hash : {Tag(d) : d \in Digest}, ptr : {KeyPointer}, val : DOMAIN hashes]
    BY <1>1 DEF Node
  <1>5. TypeOK'
    BY <1>1, <1>2, <1>4 DEF TypeOK
  <1>6. map' = Table(i)
    <2>1. \A k \in 1..(i - 1) :
             LastIn(i, k) <=> LastIn(i - 1, k) /\ Tag(hashes[k]) # Tag(hashes[i])
      BY <1>1 DEF LastIn
    <2>2. LastIn(i, i)
      BY <1>1 DEF LastIn
    <2>3. \A k : k \in 1..i <=> k \in 1..(i - 1) \/ k = i
      BY <1>1
    <2>4. \A n : n \in map' <=> n \in Table(i)
      <3>1. ASSUME NEW n \in map' PROVE n \in Table(i)
        <4>1. CASE n = Node(i)
          BY <1>1, <2>2, <4>1 DEF Table
        <4>2. CASE n \in Table(i - 1) /\ n.hash # Tag(hashes[i])
          <5>1. PICK k \in 1..(i - 1) : LastIn(i - 1, k) /\ n = Node(k)
            BY <4>2 DEF Table
          <5>2. LastIn(i, k)
            BY <2>1, <4>2, <5>1 DEF Node
          <5> QED BY <2>3, <5>1, <5>2 DEF Table
        <4> QED BY <1>2, <1>3, <4>1, <4>2
      <3>2. ASSUME NEW n \in Table(i) PROVE n \in map'
        <4>1. PICK k \in 1..i : LastIn(i, k) /\ n = Node(k)
          BY <3>2 DEF Table
        <4>2. CASE k = i
          BY <1>2, <4>1, <4>2
        <4>3. CASE k \in 1..(i - 1)
          <5>1. n \in Table(i - 1) /\ n.hash # Tag(hashes[i])
            BY <2>1, <4>1, <4>3 DEF Table, Node
          <5> QED BY <1>2, <1>3, <5>1
        <4> QED BY <2>3, <4>1, <4>2, <4>3
      <3> QED BY <3>1, <3>2
    <2> QED BY <2>4
  <1>7. TableExact'
    <2>1. pc' = "insert" /\ i' - 1 = i /\ hashes' = hashes
      BY <1>1, <1>2
    <2>2. map' = Positions(i, [k \in 1..i |-> Tag(hashes[k])])
      BY <1>6, TableForm
    <2> QED BY <2>1, <2>2 DEF TableExact, Positions
  <1>8. LoopInv'
    BY <1>1, <1>2 DEF LoopInv, Own
  <1> QED BY <1>5, <1>7, <1>8 DEF FIInv

\* Outside the first loop the table is complete.
LEMMA TableKept ==
    ASSUME TableExact, UNCHANGED <<hashes, map>>, pc' # "insert",
           pc = "insert" => i - 1 = Own
    PROVE  TableExact'
  BY DEF TableExact, Own

LEMMA NoHits ==
    /\ Cardinality(HitsUpTo(0)) = 0
    /\ MatchedUpTo(0) = {}
    /\ \A k : Cardinality(HitsOf(0, k)) = 0
  <1>1. HitsUpTo(0) = {} /\ MatchedUpTo(0) = {} /\ \A k : HitsOf(0, k) = {}
    BY DEF HitsUpTo, MatchedUpTo, HitsOf
  <1> QED BY <1>1, FS_EmptySet

LEMMA StartLookupStep ==
    ASSUME FIInv, StartLookup
    PROVE  FIInv'
  <1>1. /\ TypeOK /\ Own \in Nat /\ Partner \in Nat /\ i \in Nat
        /\ pc = "insert" /\ i <= Own + 1 /\ i > Own /\ matches = <<>> /\ result = <<>>
    BY Lengths DEF FIInv, LoopInv, StartLookup, TypeOK, Own
  <1>2. /\ pc' = "lookup" /\ i' = 1
        /\ UNCHANGED <<hashes, phashes, tmpkey, map, matches, result>>
    BY DEF StartLookup, inputVars
  <1>3. TypeOK'
    BY <1>1, <1>2 DEF TypeOK
  <1>4. TableExact'
    BY <1>1, <1>2, TableKept DEF FIInv
  <1>5. Stored(0) /\ Len(matches) <= Shorter
    <2>1. Len(matches) = 0 /\ Values(matches) = {}
      BY <1>1 DEF Values
    <2>2. Stored(0)
      <3>1. \A k : {l \in DOMAIN matches : matches[l] = k} = {}
        BY <1>1
      <3>2. \A k : Occurs(matches, k) = 0
        BY <3>1, FS_EmptySet DEF Occurs
      <3> QED BY <2>1, <3>2, NoHits DEF Stored
    <2>3. Shorter \in Nat
      BY <1>1 DEF Shorter, Own, Partner
    <2> QED BY <2>1, <2>2, <2>3
  <1>6. LoopInv'
    <2>1. Own' = Own /\ Partner' = Partner /\ Shorter' = Shorter
      BY <1>2 DEF Own, Partner, Shorter
    <2>2. /\ HitsUpTo(i - 1)' = HitsUpTo(0) /\ MatchedUpTo(i - 1)' = MatchedUpTo(0)
          /\ \A k : HitsOf(i - 1, k)' = HitsOf(0, k)
      BY <1>2, <2>1 DEF HitsUpTo, MatchedUpTo, HitsOf, LastIn, Tag
    <2>3. Stored(i - 1)'
      BY <1>2, <1>5, <2>1, <2>2 DEF Stored, Occurs
    <2> QED BY <1>1, <1>2, <1>5, <2>1, <2>3 DEF LoopInv
  <1> QED BY <1>3, <1>4, <1>6 DEF FIInv

LEMMA HitsFinite ==
    ASSUME NEW n \in Nat
    PROVE  IsFiniteSet(HitsUpTo(n)) /\ Cardinality(HitsUpTo(n)) \in Nat
  <1>1. IsFiniteSet(1..n)
    BY FS_Interval
  <1>2. HitsUpTo(n) \in SUBSET (1..n)
    BY DEF HitsUpTo
  <1>3. IsFiniteSet(HitsUpTo(n))
    BY <1>1, <1>2, FS_Subset
  <1> QED BY <1>3, FS_CardinalityType

\* One turn of the second loop finds at most one node.
LEMMA LookupNodes ==
    ASSUME FIInv, pc = "lookup", i \in 1..Partner
    PROVE  LET k(n) == n.val
               S == Nodes(Prefix(phashes[i]))
           IN  /\ S = {n \in Table(Own) : n.hash = Tag(phashes[i])}
               /\ \A n \in S : n.val \in 1..Own /\ n = Node(n.val) /\ LastIn(Own, n.val)
               /\ \A n \in S : Tag(hashes[n.val]) = Tag(phashes[i])
               /\ (\E l \in 1..Own : Tag(hashes[l]) = Tag(phashes[i])) => S # {}
  <1> DEFINE S == Nodes(Prefix(phashes[i]))
  <1>1. map = Table(Own) /\ TypeOK
    BY TableForm DEF FIInv, TableExact, Positions, Own
  <1>2. S = {n \in Table(Own) : n.hash = Tag(phashes[i])}
    BY <1>1, NodesForm DEF Tag
  <1>3. \A n \in S : /\ n.val \in 1..Own /\ n = Node(n.val) /\ LastIn(Own, n.val)
                     /\ Tag(hashes[n.val]) = Tag(phashes[i])
    BY <1>2 DEF Table, Node
  <1>4. ASSUME NEW l \in 1..Own, Tag(hashes[l]) = Tag(phashes[i])
        PROVE  S # {}
    <2> DEFINE K == {k \in 1..Own : Tag(hashes[k]) = Tag(phashes[i])}
    <2>1. Own \in Nat /\ K \subseteq 1..Own /\ K # {}
      BY <1>1, <1>4, Lengths
    <2>2. PICK m \in K : \A k \in K : k <= m
      BY <2>1, LastOne
    <2>3. LastIn(Own, m)
      BY <2>2 DEF LastIn
    <2>4. Node(m) \in S
      BY <1>2, <2>2, <2>3 DEF Table, Node
    <2> QED BY <2>4
  <1> QED BY <1>2, <1>3, <1>4

LEMMA LookupStep ==
    ASSUME FIInv, Lookup
    PROVE  FIInv'
  <1> DEFINE S == Nodes(Prefix(phashes[i]))
             hit == \E l \in 1..Own : Tag(hashes[l]) = Tag(phashes[i])
  <1>1. /\ TypeOK /\ Own \in Nat /\ Partner \in Nat /\ i \in 1..Partner /\ i \in Nat
        /\ pc = "lookup" /\ Stored(i - 1) /\ Len(matches) <= Shorter /\ TableExact
        /\ DOMAIN hashes = 1..Own /\ matches \in Seq(1..Own) /\ Shorter \in Nat
    <2>1. TypeOK /\ pc = "lookup" /\ i <= Len(phashes)
      BY DEF FIInv, Lookup, LookupNode
    <2>2. /\ Own \in Nat /\ Partner \in Nat /\ i \in Nat /\ i >= 1 /\ DOMAIN hashes = 1..Own
      BY <2>1, Lengths DEF TypeOK
    <2>3. matches \in Seq(1..Own)
      BY <2>1, <2>2 DEF TypeOK
    <2>4. Shorter \in Nat
      BY <2>2 DEF Shorter, Own, Partner
    <2> QED BY <2>1, <2>2, <2>3, <2>4 DEF FIInv, LoopInv, Partner
  <1>2. UNCHANGED <<hashes, phashes, map, result>> /\ i' = i + 1
    BY DEF Lookup, LookupNode, inputVars
  <1>3. HitsUpTo(i) = IF hit THEN HitsUpTo(i - 1) \cup {i} ELSE HitsUpTo(i - 1)
    <2>1. \A j : j \in 1..i <=> j \in 1..(i - 1) \/ j = i
      BY <1>1
    <2> QED BY <2>1 DEF HitsUpTo
  <1>4. MatchedUpTo(i) = IF hit
                         THEN MatchedUpTo(i - 1) \cup
                              {k \in 1..Own : LastIn(Own, k) /\ Tag(phashes[i]) = Tag(hashes[k])}
                         ELSE MatchedUpTo(i - 1)
    <2>1. \A j : j \in 1..i <=> j \in 1..(i - 1) \/ j = i
      BY <1>1
    <2> QED BY <2>1 DEF MatchedUpTo, LastIn
  <1>5. /\ IsFiniteSet(HitsUpTo(i - 1)) /\ Cardinality(HitsUpTo(i - 1)) \in Nat
        /\ i \notin HitsUpTo(i - 1)
    <2>1. i - 1 \in Nat
      BY <1>1
    <2>2. i \notin HitsUpTo(i - 1)
      BY <1>1 DEF HitsUpTo
    <2> QED BY <2>1, <2>2, HitsFinite
  <1>6. /\ HitsUpTo(i - 1)' = HitsUpTo(i) /\ MatchedUpTo(i - 1)' = MatchedUpTo(i)
        /\ \A k : HitsOf(i - 1, k)' = HitsOf(i, k)
        /\ Own' = Own /\ Partner' = Partner /\ Shorter' = Shorter /\ i' <= Partner + 1
    <2>1. i' - 1 = i
      BY <1>1, <1>2
    <2>2. Own' = Own /\ Partner' = Partner /\ Shorter' = Shorter
      BY <1>2 DEF Own, Partner, Shorter
    <2>3. HitsUpTo(i - 1)' = HitsUpTo(i)
      BY <1>2, <2>1, <2>2 DEF HitsUpTo, Tag
    <2>4. MatchedUpTo(i - 1)' = MatchedUpTo(i)
      BY <1>2, <2>1, <2>2 DEF MatchedUpTo, Tag
    <2>5. \A k : HitsOf(i - 1, k)' = HitsOf(i, k)
      BY <1>2, <2>1, <2>2 DEF HitsOf, LastIn, Tag
    <2> QED BY <1>1, <1>2, <2>2, <2>3, <2>4, <2>5
  <1>9. \A k \in 1..Own : HitsOf(i, k) = IF LastIn(Own, k) /\ Tag(phashes[i]) = Tag(hashes[k])
                                         THEN HitsOf(i - 1, k) \cup {i} ELSE HitsOf(i - 1, k)
    <2>1. \A j : j \in 1..i <=> j \in 1..(i - 1) \/ j = i
      BY <1>1
    <2> QED BY <2>1 DEF HitsOf
  <1>10. \A k : /\ IsFiniteSet(HitsOf(i - 1, k)) /\ Cardinality(HitsOf(i - 1, k)) \in Nat
                /\ i \notin HitsOf(i - 1, k)
    <2> TAKE k
    <2>1. HitsOf(i - 1, k) \in SUBSET (1..(i - 1)) /\ IsFiniteSet(1..(i - 1))
      BY <1>1, FS_Interval DEF HitsOf
    <2>2. IsFiniteSet(HitsOf(i - 1, k))
      BY <2>1, FS_Subset
    <2>3. i \notin 1..(i - 1)
      BY <1>1
    <2> QED BY <2>1, <2>2, <2>3, FS_CardinalityType
  <1>7. CASE S = {}
    <2>1. ~hit
      BY <1>1, <1>7, LookupNodes
    <2>2. UNCHANGED <<pc, matches>>
      BY <1>7 DEF Lookup, LookupNode
    <2>3. Stored(i)
      <3>1. \A k \in 1..Own : HitsOf(i, k) = HitsOf(i - 1, k)
        BY <1>9, <2>1
      <3> QED BY <1>1, <1>3, <1>4, <2>1, <3>1 DEF Stored
    <2>4. TypeOK' /\ TableExact'
      BY <1>1, <1>2, <2>2, TableKept DEF TypeOK
    <2>5. LoopInv'
      <3>1. Stored(i - 1)'
        BY <1>6, <2>2, <2>3 DEF Stored, Occurs
      <3> QED BY <1>1, <1>6, <2>2, <3>1 DEF LoopInv
    <2> QED BY <2>4, <2>5 DEF FIInv
  <1>8. CASE S # {}
    <2>1. PICK n \in S : matches' = Append(matches, n.val)
      BY <1>8 DEF Lookup, LookupNode, Value
    <2>2. /\ n.val \in 1..Own /\ LastIn(Own, n.val) /\ Tag(hashes[n.val]) = Tag(phashes[i])
      BY <1>1, LookupNodes
    <2>3. hit
      BY <2>2
    <2>4. /\ matches' \in Seq(1..Own) /\ Len(matches') = Len(matches) + 1
          /\ Values(matches') = Values(matches) \cup {n.val}
      <3>1. /\ matches' \in Seq(1..Own) /\ Len(matches') = Len(matches) + 1
            /\ Len(matches) \in Nat
            /\ DOMAIN matches = 1..Len(matches) /\ DOMAIN matches' = 1..(Len(matches) + 1)
            /\ \A k \in 1..Len(matches) : matches'[k] = matches[k]
            /\ matches'[Len(matches) + 1] = n.val
        BY <1>1, <2>1, <2>2
      <3>2. \A k : k \in 1..(Len(matches) + 1) <=> k \in 1..Len(matches) \/ k = Len(matches) + 1
        BY <3>1
      <3> QED BY <3>1, <3>2 DEF Values
    <2>5. {k \in 1..Own : LastIn(Own, k) /\ Tag(phashes[i]) = Tag(hashes[k])} = {n.val}
      BY <1>1, <2>2 DEF LastIn
    <2>6. Values(matches') = MatchedUpTo(i)
      BY <1>1, <1>4, <2>3, <2>4, <2>5 DEF Stored
    <2>7. Len(matches') = Cardinality(HitsUpTo(i))
      <3>1. Cardinality(HitsUpTo(i - 1) \cup {i}) = Cardinality(HitsUpTo(i - 1)) + 1
        BY <1>5, FS_AddElement
      <3> QED BY <1>1, <1>3, <2>3, <2>4, <3>1 DEF Stored
    <2>8. /\ pc' \in {"lookup", "aborted"}
          /\ pc' = "lookup" <=> Len(matches') <= Shorter
      BY <1>1, <1>8, <2>4 DEF Lookup, LookupNode
    <2>9. TypeOK'
      BY <1>1, <1>2, <2>4, <2>8 DEF TypeOK
    <2>12. \A k \in 1..Own : Occurs(matches', k) = Cardinality(HitsOf(i, k))
      <3> TAKE k \in 1..Own
      <3> DEFINE L == {l \in DOMAIN matches : matches[l] = k}
                 L1 == {l \in DOMAIN matches' : matches'[l] = k}
      <3>1. /\ Len(matches) \in Nat
            /\ DOMAIN matches = 1..Len(matches) /\ DOMAIN matches' = 1..(Len(matches) + 1)
            /\ \A l \in 1..Len(matches) : matches'[l] = matches[l]
            /\ matches'[Len(matches) + 1] = n.val
        BY <1>1, <2>1, <2>2
      <3>2. \A l : l \in 1..(Len(matches) + 1) <=> l \in 1..Len(matches) \/ l = Len(matches) + 1
        BY <3>1
      <3>3. IsFiniteSet(L) /\ Len(matches) + 1 \notin L
        <4>1. IsFiniteSet(1..Len(matches)) /\ L \in SUBSET (1..Len(matches))
          BY <3>1, FS_Interval
        <4>2. Len(matches) + 1 \notin 1..Len(matches)
          BY <3>1
        <4> QED BY <4>1, <4>2, FS_Subset
      <3>4. Occurs(matches, k) = Cardinality(L) /\ Occurs(matches', k) = Cardinality(L1)
            /\ Cardinality(L) = Cardinality(HitsOf(i - 1, k))
        BY <1>1 DEF Occurs, Stored
      <3>5. CASE k = n.val
        <4>1. L1 = L \cup {Len(matches) + 1}
          BY <3>1, <3>2, <3>5
        <4>2. HitsOf(i, k) = HitsOf(i - 1, k) \cup {i}
          BY <1>9, <2>2, <3>5
        <4>3. Cardinality(L1) = Cardinality(L) + 1
          BY <3>3, <4>1, FS_AddElement
        <4>4. Cardinality(HitsOf(i, k)) = Cardinality(HitsOf(i - 1, k)) + 1
          BY <1>10, <4>2, FS_AddElement
        <4> QED BY <3>4, <4>3, <4>4
      <3>6. CASE k # n.val
        <4>1. L1 = L
          BY <3>1, <3>2, <3>6
        <4>2. HitsOf(i, k) = HitsOf(i - 1, k)
          <5>1. ~ (LastIn(Own, k) /\ Tag(phashes[i]) = Tag(hashes[k]))
            BY <2>5, <3>6
          <5> QED BY <1>9, <5>1
        <4> QED BY <3>4, <4>1, <4>2
      <3> QED BY <3>5, <3>6
    <2>10. TableExact'
      BY <1>1, <1>2, <2>8, TableKept
    <2>11. LoopInv'
      <3>1. Stored(i - 1)'
        BY <1>6, <2>6, <2>7, <2>12 DEF Stored, Occurs
      <3>2. Len(matches') \in Nat
        BY <2>4
      <3> QED BY <1>1, <1>6, <2>8, <3>1, <3>2 DEF LoopInv
    <2> QED BY <2>9, <2>10, <2>11 DEF FIInv
  <1> QED BY <1>7, <1>8

\* What is stored depends on the lists and on matches alone.
LEMMA StoredKept ==
    ASSUME UNCHANGED <<hashes, phashes, matches>>
    PROVE  \A m : Stored(m)' <=> Stored(m)
  <1>1. Own' = Own
    BY DEF Own
  <1>2. \A m : HitsUpTo(m)' = HitsUpTo(m)
    BY <1>1 DEF HitsUpTo, Tag
  <1>3. \A m : MatchedUpTo(m)' = MatchedUpTo(m)
    BY <1>1 DEF MatchedUpTo, Tag
  <1>4. \A m, k : HitsOf(m, k)' = HitsOf(m, k)
    BY <1>1 DEF HitsOf, LastIn, Tag
  <1>5. \A k : Occurs(matches, k)' = Occurs(matches, k)
    BY DEF Occurs
  <1>6. Values(matches)' = Values(matches)
    BY DEF Values
  <1> QED BY <1>1, <1>2, <1>3, <1>4, <1>5, <1>6 DEF Stored

LEMMA EndLookupStep ==
    ASSUME FIInv, EndLookup
    PROVE  FIInv'
  <1>1. /\ TypeOK /\ Partner \in Nat /\ pc = "lookup" /\ i = Partner + 1
        /\ Stored(Partner) /\ Len(matches) <= Shorter /\ TableExact
    <2>1. TypeOK /\ Partner \in Nat /\ i \in Nat /\ i <= Partner + 1 /\ i > Partner
      BY Lengths DEF FIInv, LoopInv, EndLookup, TypeOK, Partner
    <2>2. i - 1 = Partner
      BY <2>1
    <2> QED BY <2>1, <2>2 DEF FIInv, LoopInv, EndLookup
  <1>2. pc' = "create" /\ UNCHANGED <<hashes, phashes, i, tmpkey, map, matches, result>>
    BY DEF EndLookup, inputVars
  <1>3. TypeOK' /\ TableExact'
    BY <1>1, <1>2, TableKept DEF TypeOK
  <1>4. LoopInv'
    <2>1. (Stored(Partner) /\ Len(matches) <= Shorter)'
      <3>1. Stored(Partner)' /\ Partner' = Partner /\ Shorter' = Shorter
        BY <1>1, <1>2, StoredKept DEF Shorter, Partner
      <3> QED BY <1>1, <1>2, <3>1
    <2> QED BY <1>2, <2>1 DEF LoopInv
  <1> QED BY <1>3, <1>4 DEF FIInv

\* Sorting keeps the values, each as often as it was there.
LEMMA RearrangedValues ==
    ASSUME NEW T, NEW m \in Seq(T), NEW s \in [DOMAIN m -> T], Rearranged(m, s)
    PROVE  /\ s \in Seq(T) /\ Len(s) = Len(m) /\ Values(s) = Values(m)
           /\ \A x : Occurs(s, x) = Occurs(m, x)
  <1>1. DOMAIN m = 1..Len(m) /\ Len(m) \in Nat
    OBVIOUS
  <1>2. s \in Seq(T) /\ Len(s) = Len(m) /\ DOMAIN s = DOMAIN m
    BY <1>1
  <1>3. PICK f \in [DOMAIN m -> DOMAIN m] :
           /\ \A k \in DOMAIN m : \E j \in DOMAIN m : f[j] = k
           /\ s = [k \in DOMAIN m |-> m[f[k]]]
    BY DEF Rearranged
  <1>4. Values(s) = Values(m)
    BY <1>2, <1>3 DEF Values
  <1>5. IsFiniteSet(DOMAIN m)
    BY <1>1, FS_Interval
  <1>6. \A j, k \in DOMAIN m : f[j] = f[k] => j = k
    <2>1. f \in Surjection(DOMAIN m, DOMAIN m)
      BY <1>3 DEF Surjection
    <2>2. f \in Injection(DOMAIN m, DOMAIN m)
      BY <1>5, <2>1, FS_Surjection
    <2> QED BY <2>2 DEF Injection, IsInjective
  <1>7. ASSUME NEW x PROVE Occurs(s, x) = Occurs(m, x)
    <2> DEFINE S == {k \in DOMAIN s : s[k] = x}
               M == {k \in DOMAIN m : m[k] = x}
               g == [k \in S |-> f[k]]
    <2>1. \A k \in S : f[k] \in M
      BY <1>2, <1>3
    <2>2. \A k \in M : \E j \in S : f[j] = k
      BY <1>2, <1>3
    <2>3. \A j, k \in S : f[j] = f[k] => j = k
      BY <1>2, <1>6
    <2>4. IsFiniteSet(M)
      BY <1>5, FS_Subset
    <2>5. Occurs(s, x) = Cardinality(S) /\ Occurs(m, x) = Cardinality(M)
      BY DEF Occurs
    <2> HIDE DEF S, M
    <2>6. g \in Injection(S, M) /\ g \in Surjection(S, M)
      BY <2>1, <2>2, <2>3 DEF Injection, IsInjective, Surjection
    <2> HIDE DEF g
    <2>7. Cardinality(S) = Cardinality(M)
      BY <2>4, <2>6, FS_Injection
    <2> QED BY <2>5, <2>7
  <1> QED BY <1>2, <1>4, <1>7

LEMMA CreateResultStep ==
    ASSUME FIInv, CreateResult
    PROVE  FIInv' /\ Ascending(result') /\ result' = matches'
  <1>1. PICK s \in [DOMAIN matches -> DOMAIN hashes] :
           Rearranged(matches, s) /\ Ascending(s) /\ CreateResultOf(s)
    BY DEF CreateResult
  <1>2. /\ TypeOK /\ pc = "create" /\ Stored(Partner) /\ Len(matches) <= Shorter /\ TableExact
        /\ matches \in Seq(DOMAIN hashes)
    BY <1>1 DEF FIInv, LoopInv, CreateResultOf, TypeOK
  <1>3. /\ pc' = "done" /\ matches' = s /\ result' = s
        /\ UNCHANGED <<hashes, phashes, i, tmpkey, map>>
    BY <1>1 DEF CreateResultOf, inputVars
  <1>4. /\ s \in Seq(DOMAIN hashes) /\ Len(s) = Len(matches) /\ Values(s) = Values(matches)
        /\ \A x : Occurs(s, x) = Occurs(matches, x)
    BY <1>1, <1>2, RearrangedValues
  <1>5. TypeOK' /\ TableExact'
    BY <1>2, <1>3, <1>4, TableKept DEF TypeOK
  <1>6. LoopInv'
    <2>1. /\ HitsUpTo(Partner)' = HitsUpTo(Partner) /\ MatchedUpTo(Partner)' = MatchedUpTo(Partner)
          /\ \A k : HitsOf(Partner, k)' = HitsOf(Partner, k)
          /\ Shorter' = Shorter /\ Own' = Own
      BY <1>3 DEF HitsUpTo, MatchedUpTo, HitsOf, LastIn, Shorter, Own, Partner, Tag
    <2>2. Stored(Partner)' /\ (Len(matches) <= Shorter)'
      <3>1. /\ Values(matches') = Values(matches) /\ Len(matches') = Len(matches)
            /\ \A x : Occurs(matches', x) = Occurs(matches, x)
        BY <1>3, <1>4
      <3> QED BY <1>2, <2>1, <3>1 DEF Stored, Occurs, Values
    <2> QED BY <1>3, <2>2 DEF LoopInv
  <1> QED BY <1>1, <1>3, <1>5, <1>6 DEF FIInv

LEMMA SameStep ==
    ASSUME FIInv, UNCHANGED vars
    PROVE  FIInv'
  <1>1. UNCHANGED <<hashes, phashes, pc, i, tmpkey, map, matches, result>>
    BY DEF vars
  <1>2. TypeOK' /\ TableExact'
    BY <1>1 DEF FIInv, TypeOK, TableExact
  <1>3. LoopInv'
    <2>1. /\ \A m : Stored(m)' <=> Stored(m)
          /\ Own' = Own /\ Partner' = Partner /\ Shorter' = Shorter
      BY <1>1, StoredKept DEF Shorter, Own, Partner
    <2>2. (pc \in {"create", "done"} => Stored(Partner) /\ Len(matches) <= Shorter)'
      BY <1>1, <2>1 DEF FIInv, LoopInv, Stored
    <2> QED BY <1>1, <2>1, <2>2 DEF FIInv, LoopInv, Stored
  <1> QED BY <1>2, <1>3 DEF FIInv

\* After every turn of the two loops the table holds the last position of
\* every tag inserted, and matches one entry for every hit so far.
THEOREM LoopsInductive == Spec => []FIInv
  <1>1. Init => FIInv
    <2> SUFFICES ASSUME Init PROVE FIInv
      OBVIOUS
    <2>1. TypeOK
      BY DEF Init, TypeOK
    <2>2. TableExact
      BY DEF Init, TableExact
    <2>3. LoopInv
      <3>1. Own \in Nat
        BY <2>1, Lengths
      <3> QED BY <3>1 DEF Init, LoopInv
    <2> QED BY <2>1, <2>2, <2>3 DEF FIInv
  <1>2. FIInv /\ [Next]_vars => FIInv'
    BY InsertStep, StartLookupStep, LookupStep, EndLookupStep, CreateResultStep, SameStep
       DEF Next, Step, Stopped
  <1> QED BY <1>1, <1>2, PTL DEF Spec

\* The indices that find_intersection stores are positions of the own list.
THEOREM LoopTypes == Spec => []TypeOK
  <1>1. FIInv => TypeOK
    BY DEF FIInv
  <1> QED BY <1>1, LoopsInductive, PTL

\* An insertion replaces and never adds a second node for a tag, although all
\* keys are one pointer.
THEOREM TableCorrect == Spec => []TableExact
  <1>1. FIInv => TableExact
    BY DEF FIInv
  <1> QED BY <1>1, LoopsInductive, PTL

\* The operators of Matching, over the tags, are what the loops count.
LEMMA MatchingForm ==
    ASSUME TypeOK
    PROVE  /\ Hits(Tags(hashes), Tags(phashes)) = HitsUpTo(Partner)
           /\ \A k \in 1..Own : Copies(Tags(hashes), Tags(phashes))[k]
                                = Cardinality(HitsOf(Partner, k))
  <1>1. DOMAIN hashes = 1..Own /\ DOMAIN phashes = 1..Partner
    BY Lengths
  <1>2. ASSUME NEW k \in 1..Own
        PROVE  Copies(Tags(hashes), Tags(phashes))[k] = Cardinality(HitsOf(Partner, k))
    <2>1. IsLast(Tags(hashes), k) <=> LastIn(Own, k)
      BY <1>1 DEF IsLast, LastIn, Tags
    <2>2. Copies(Tags(hashes), Tags(phashes))[k] =
             IF LastIn(Own, k) THEN Occurs(Tags(phashes), Tag(hashes[k])) ELSE 0
      BY <1>1, <2>1 DEF Copies, Tags
    <2>3. CASE LastIn(Own, k)
      <3>1. {j \in DOMAIN Tags(phashes) : Tags(phashes)[j] = Tag(hashes[k])} = HitsOf(Partner, k)
        BY <1>1, <2>3 DEF Tags, HitsOf
      <3> QED BY <2>2, <2>3, <3>1 DEF Occurs
    <2>4. CASE ~LastIn(Own, k)
      <3>1. HitsOf(Partner, k) = {}
        BY <2>4 DEF HitsOf
      <3> QED BY <2>2, <2>4, <3>1, FS_EmptySet
    <2> QED BY <2>3, <2>4
  <1>3. Hits(Tags(hashes), Tags(phashes)) = HitsUpTo(Partner)
    BY <1>1 DEF Hits, Tags, HitsUpTo
  <1> QED BY <1>2, <1>3

\* Once the loops are over, the entries of matches are, with their number,
\* the positions the partner's tags lead to.
THEOREM MatchesCorrect == Spec => []MatchesExact
  <1>1. FIInv => MatchesExact
    <2> SUFFICES ASSUME FIInv, pc \in {"create", "done"} PROVE MatchesExact
      BY DEF MatchesExact
    <2>1. TypeOK /\ Stored(Partner) /\ DOMAIN hashes = 1..Own
      BY Lengths DEF FIInv, LoopInv
    <2> QED BY <2>1, MatchingForm DEF Stored, MatchesExact
  <1> QED BY <1>1, LoopsInductive, PTL

-----------------------------------------------------------------------------
(* The assertion, and the order of the result.                             *)

LEMMA UpTo ==
    ASSUME NEW n \in Nat
    PROVE  IsFiniteSet(1..n) /\ Cardinality(1..n) = n
  <1>1. IsFiniteSet(1..n) /\ Cardinality(1..n) = IF 1 > n THEN 0 ELSE n - 1 + 1
    BY FS_Interval
  <1> QED BY <1>1

\* The position the lookup of the partner's position j leads to.
Target(j) == CHOOSE k \in 1..Own : Tag(hashes[k]) = Tag(phashes[j]) /\ LastIn(Own, k)

LEMMA TargetFacts ==
    ASSUME TypeOK, NEW j \in HitsUpTo(Partner)
    PROVE  /\ Target(j) \in MatchedUpTo(Partner)
           /\ Tag(hashes[Target(j)]) = Tag(phashes[j])
  <1> DEFINE K == {k \in 1..Own : Tag(hashes[k]) = Tag(phashes[j])}
  <1>1. Own \in Nat /\ K \subseteq 1..Own /\ K # {}
    BY Lengths DEF HitsUpTo
  <1>2. PICK m \in K : \A k \in K : k <= m
    BY <1>1, LastOne
  <1>3. m \in 1..Own /\ Tag(hashes[m]) = Tag(phashes[j]) /\ LastIn(Own, m)
    BY <1>2 DEF LastIn
  <1>4. Target(j) \in 1..Own /\ Tag(hashes[Target(j)]) = Tag(phashes[j]) /\ LastIn(Own, Target(j))
    BY <1>3 DEF Target
  <1> QED BY <1>4 DEF MatchedUpTo, HitsUpTo, LastIn

\* If the partner repeats no tag, hits and matched positions are one to one.
LEMMA OneToOne ==
    ASSUME TypeOK, Distinct(Tags(phashes))
    PROVE  /\ IsFiniteSet(MatchedUpTo(Partner))
           /\ Cardinality(HitsUpTo(Partner)) = Cardinality(MatchedUpTo(Partner))
           /\ Cardinality(HitsUpTo(Partner)) <= Own
  <1> DEFINE H == HitsUpTo(Partner)
             M == MatchedUpTo(Partner)
             f == [j \in H |-> Target(j)]
  <1>1. /\ Own \in Nat /\ Partner \in Nat /\ DOMAIN phashes = 1..Partner
        /\ IsFiniteSet(H) /\ Cardinality(H) \in Nat
    BY Lengths, HitsFinite
  <1>2. M \in SUBSET (1..Own) /\ IsFiniteSet(1..Own) /\ Cardinality(1..Own) = Own
    BY <1>1, UpTo DEF MatchedUpTo
  <1>3. IsFiniteSet(M) /\ Cardinality(M) <= Own
    BY <1>2, FS_Subset
  <1>4. \A j \in H : f[j] \in M /\ Tag(hashes[f[j]]) = Tag(phashes[j])
    BY TargetFacts
  <1>5. \A j, l \in 1..Partner : Tag(phashes[j]) = Tag(phashes[l]) => j = l
    BY <1>1 DEF Distinct, Tags
  <1>6. \A j, l \in H : f[j] = f[l] => j = l
    BY <1>4, <1>5 DEF HitsUpTo
  <1>7. ASSUME NEW k \in M PROVE \E j \in H : f[j] = k
    <2>1. PICK j \in 1..Partner : Tag(phashes[j]) = Tag(hashes[k])
      BY DEF MatchedUpTo
    <2>2. j \in H /\ f[j] \in M /\ k \in 1..Own /\ f[j] \in 1..Own
      BY <1>2, <1>4, <2>1 DEF HitsUpTo
    <2>3. k <= f[j] /\ f[j] <= k
      BY <1>4, <2>1, <2>2 DEF MatchedUpTo
    <2> QED BY <1>1, <2>2, <2>3
  <1>8. f \in [H -> M] /\ DOMAIN f = H
    BY <1>4
  <1> HIDE DEF f, H, M
  <1>9. f \in Injection(H, M) /\ f \in Surjection(H, M)
    BY <1>6, <1>7, <1>8 DEF Injection, IsInjective, Surjection
  <1>10. Cardinality(H) = Cardinality(M)
    BY <1>3, <1>9, FS_Injection
  <1> QED BY <1>3, <1>10 DEF H, M

\* The assertion on intersect_ctr fails when, and only when, there are more
\* hits than one of the lists has elements: never if the partner repeats no tag.
THEOREM AbortCorrect == Spec => []AbortExact
  <1>1. FIInv => AbortExact
    <2> SUFFICES ASSUME FIInv PROVE AbortExact
      OBVIOUS
    <2> DEFINE H == HitsUpTo(Partner)
    <2>1. /\ TypeOK /\ Own \in Nat /\ Partner \in Nat /\ i \in Nat /\ i >= 1
          /\ IsFiniteSet(H) /\ Cardinality(H) \in Nat /\ Len(matches) \in Nat
          /\ Hits(Tags(hashes), Tags(phashes)) = H
      <3>1. TypeOK /\ Own \in Nat /\ Partner \in Nat /\ Len(matches) \in Nat
        BY Lengths DEF FIInv
      <3>2. IsFiniteSet(H) /\ Cardinality(H) \in Nat
        BY <3>1, HitsFinite
      <3>3. Hits(Tags(hashes), Tags(phashes)) = H
        BY <3>1, MatchingForm
      <3> QED BY <3>1, <3>2, <3>3 DEF TypeOK
    <2>2. Shorter = IF Own < Partner THEN Own ELSE Partner
      BY DEF Shorter, Own, Partner
    <2>3. Cardinality(H) <= Partner
      <3>1. H \in SUBSET (1..Partner) /\ IsFiniteSet(1..Partner)
            /\ Cardinality(1..Partner) = Partner
        BY <2>1, UpTo DEF HitsUpTo
      <3> QED BY <3>1, FS_Subset
    <2>4. ASSUME pc = "aborted" PROVE Cardinality(H) > Shorter
      <3>1. i <= Partner + 1 /\ Len(matches) = Cardinality(HitsUpTo(i - 1)) /\ Len(matches) > Shorter
        BY <2>4 DEF FIInv, LoopInv, Stored
      <3>2. i - 1 \in Nat /\ i - 1 <= Partner
        BY <2>1, <3>1
      <3>3. HitsUpTo(i - 1) \in SUBSET H
        BY <2>1, <3>2 DEF HitsUpTo
      <3>4. Cardinality(HitsUpTo(i - 1)) <= Cardinality(H) /\ Cardinality(HitsUpTo(i - 1)) \in Nat
        BY <2>1, <3>2, <3>3, FS_Subset, HitsFinite
      <3>5. Shorter \in Nat
        BY <2>1, <2>2
      <3> QED BY <2>1, <3>1, <3>4, <3>5
    <2>5. ASSUME Distinct(Tags(phashes)) PROVE Cardinality(H) <= Own
      BY <2>1, <2>5, OneToOne
    <2>6. ASSUME pc = "done" PROVE Cardinality(H) <= Shorter
      BY <2>6 DEF FIInv, LoopInv, Stored
    <2> HIDE DEF H
    <2> QED BY <2>1, <2>2, <2>3, <2>4, <2>5, <2>6 DEF AbortExact, Own, Partner
  <1> QED BY <1>1, LoopsInductive, PTL

\* What std::sort leaves.
SortedInv == pc = "done" => result = matches /\ Ascending(result)

\* The elements are copied out in the order of the own file, each as often in
\* a row as it is matched, which is once if the partner repeats no tag.
THEOREM OrderCorrect == Spec => []ResultInOrder
  <1>1. Init => SortedInv
    BY DEF Init, SortedInv
  <1>2. FIInv /\ SortedInv /\ [Next]_vars => SortedInv'
    <2> SUFFICES ASSUME FIInv, SortedInv, [Next]_vars PROVE SortedInv'
      OBVIOUS
    <2>1. CASE CreateResult
      BY <2>1, CreateResultStep DEF SortedInv, Ascending
    <2>2. CASE Stopped \/ UNCHANGED vars
      BY <2>2 DEF SortedInv, Ascending, Stopped, vars
    <2>3. CASE Insert \/ StartLookup \/ Lookup \/ EndLookup
      <3>1. pc' # "done"
        BY <2>3 DEF Insert, InsertNode, StartLookup, Lookup, LookupNode, EndLookup
      <3> QED BY <3>1 DEF SortedInv
    <2> QED BY <2>1, <2>2, <2>3 DEF Next, Step
  <1>3. FIInv /\ SortedInv => ResultInOrder
    <2> SUFFICES ASSUME FIInv, SortedInv, pc = "done",
                        NEW j \in DOMAIN result, NEW k \in DOMAIN result, j < k
                 PROVE  /\ result[j] <= result[k]
                        /\ Distinct(Tags(phashes)) => result[j] # result[k]
      BY DEF ResultInOrder
    <2>0. result[j] <= result[k]
      BY DEF SortedInv, Ascending
    <2> SUFFICES ASSUME Distinct(Tags(phashes)) PROVE result[j] # result[k]
      BY <2>0
    <2> DEFINE n == Len(matches)
               M == MatchedUpTo(Partner)
    <2>1. /\ TypeOK /\ Own \in Nat /\ n \in Nat /\ DOMAIN matches = 1..n /\ DOMAIN hashes = 1..Own
          /\ n = Cardinality(HitsUpTo(Partner)) /\ Values(matches) = M
          /\ result = matches /\ Ascending(result)
      BY Lengths DEF FIInv, LoopInv, Stored, SortedInv
    <2>2. Cardinality(M) = n /\ IsFiniteSet(1..n) /\ Cardinality(1..n) = n
      BY <2>1, OneToOne, UpTo
    <2>3. matches \in [1..n -> M] /\ \A m \in M : \E l \in 1..n : matches[l] = m
      <3>1. \A l \in 1..n : matches[l] \in M
        BY <2>1 DEF Values
      <3>2. matches = [l \in 1..n |-> matches[l]]
        BY <2>1 DEF TypeOK
      <3>3. \A m \in M : \E l \in 1..n : matches[l] = m
        BY <2>1 DEF Values
      <3> QED BY <3>1, <3>2, <3>3
    <2> HIDE DEF n, M
    <2>4. matches \in Surjection(1..n, M)
      BY <2>3 DEF Surjection
    <2>5. matches \in Injection(1..n, M)
      BY <2>2, <2>4, FS_Surjection
    <2>6. matches[j] # matches[k]
      BY <2>1, <2>5 DEF Injection, IsInjective
    <2> QED BY <2>1, <2>6
  <1> QED BY <1>1, <1>2, <1>3, LoopsInductive, PTL DEF Spec
=============================================================================
