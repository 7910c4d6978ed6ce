-------------------------- MODULE FindIntersection --------------------------
(***************************************************************************)
(* find_intersection and create_result_from_matches_var_bitlen             *)
(* (util/helpers.h), statement by statement where it matters.              *)
(*                                                                         *)
(* The hash table holds nodes, each with the hash it was inserted under,   *)
(* the key pointer it was given and a value.  Every insertion and every    *)
(* lookup passes the address of the one local variable tmpkey, so when     *)
(* g_int64_equal compares a stored key with the one looked up, it reads    *)
(* tmpkey twice: only the stored hash tells two nodes apart.               *)
(***************************************************************************)
EXTENDS Integers, Sequences, FiniteSets, Matching

CONSTANTS
    Digest,      \* masked points, as they arrive: hashbytelen octets
    Prefix(_),   \* the first mapbytelen octets, as a 64-bit integer
    IntHash(_),  \* g_int64_hash: 64 bits to 32
    Lists        \* the lists of digests to match: sequences over Digest

ASSUME ListsAssumption == Lists \subseteq Seq(Digest)


VARIABLES
    hashes,      \* the own list: round 2's reply, in the order of elements
    phashes,     \* the partner's list
    pc,          \* "insert", "lookup", "create", "done" or "aborted"
    i,           \* the loop counter, from 1
    tmpkey,      \* the local variable every key pointer points to
    map,         \* the nodes of the GHashTable
    matches,     \* matches[1 .. intersect_ctr]
    result       \* the own positions whose elements are copied out

inputVars == <<hashes, phashes>>
vars == <<hashes, phashes, pc, i, tmpkey, map, matches, result>>

\* dh_psi passes the identity permutation, which find_intersection inverts.
perm == [k \in DOMAIN hashes |-> k]
invperm == [v \in DOMAIN hashes |-> CHOOSE k \in DOMAIN hashes : perm[k] = v]

\* The address of tmpkey, and what is there when a pointer is followed.
KeyPointer == "&tmpkey"
Deref(ptr, key) == IF ptr = KeyPointer THEN key ELSE 0

\* g_hash_table_lookup_node: equal hashes, then g_int64_equal on the pointers,
\* evaluated while tmpkey holds key.
SameKey(node, key) ==
    /\ node.hash = IntHash(key)
    /\ Deref(node.ptr, key) = Deref(KeyPointer, key)

\* What the table tells apart.
Tag(d) == IntHash(Prefix(d))
Tags(s) == [k \in DOMAIN s |-> Tag(s[k])]

TypeOK ==
    /\ hashes \in Lists /\ phashes \in Lists
    /\ pc \in {"insert", "lookup", "create", "done", "aborted"}
    /\ i \in Nat \ {0}
    /\ map \subseteq [hash : {Tag(d) : d \in Digest}, ptr : {KeyPointer},
                      val : DOMAIN hashes]
    /\ matches \in Seq(DOMAIN hashes)
    /\ result \in Seq(DOMAIN hashes)

Init ==
    /\ hashes \in Lists
    /\ phashes \in Lists
    /\ pc = "insert"
    /\ i = 1
    /\ tmpkey = 0
    /\ map = {}
    /\ matches = <<>>
    /\ result = <<>>

\* The nodes g_hash_table_insert and g_hash_table_lookup find for a key.
Nodes(key) == {n \in map : SameKey(n, key)}

\* One turn of the first loop: g_hash_table_insert keeps the node of an equal
\* key and replaces its value, so that one node is left.
InsertNode(old) ==
    /\ pc = "insert" /\ i <= Len(hashes)
    /\ tmpkey' = Prefix(hashes[i])
    /\ map' = (map \ old) \cup {[hash |-> IntHash(tmpkey'), ptr |-> KeyPointer,
                                 val |-> invperm[i]]}
    /\ i' = i + 1
    /\ UNCHANGED <<inputVars, pc, matches, result>>

\* Variant: a table that keeps equal keys, like a multimap.
InsertAdds == InsertNode({})
Insert == InsertNode(Nodes(Prefix(hashes[i])))

StartLookup ==
    /\ pc = "insert" /\ i > Len(hashes)
    /\ pc' = "lookup"
    /\ i' = 1
    /\ UNCHANGED <<inputVars, tmpkey, map, matches, result>>

\* One turn of the second loop.  The match is stored before the assertion;
\* at says which index is stored, and limit how many matches it lets pass.
LookupNode(at(_), limit) ==
    /\ pc = "lookup" /\ i <= Len(phashes)
    /\ tmpkey' = Prefix(phashes[i])
    /\ i' = i + 1
    /\ \/ /\ Nodes(tmpkey') = {}
          /\ UNCHANGED <<pc, matches>>
       \/ /\ \E n \in Nodes(tmpkey') : matches' = Append(matches, at(n))
          /\ pc' = IF Len(matches) + 1 > limit THEN "aborted" ELSE "lookup"
    /\ UNCHANGED <<inputVars, map, result>>

Shorter == IF Len(hashes) < Len(phashes) THEN Len(hashes) ELSE Len(phashes)
Value(n) == n.val
LoopCounter(n) == i

\* Variants: the partner's index stored; an assertion that is off by one.
LookupIndex == LookupNode(LoopCounter, Shorter)
LookupStrict == LookupNode(Value, Shorter - 1)
Lookup == LookupNode(Value, Shorter)

EndLookup ==
    /\ pc = "lookup" /\ i > Len(phashes)
    /\ pc' = "create"
    /\ UNCHANGED <<inputVars, i, tmpkey, map, matches, result>>

Ascending(s) == \A j, k \in DOMAIN s : j < k => s[j] <= s[k]

\* s with its entries in another order.
Rearranged(s, r) ==
    \E f \in [DOMAIN s -> DOMAIN s] :
        /\ \A k \in DOMAIN s : \E j \in DOMAIN s : f[j] = k
        /\ r = [k \in DOMAIN s |-> s[f[k]]]

\* create_result_from_matches_var_bitlen: std::sort, then copy the elements.
CreateResultOf(s) ==
    /\ pc = "create"
    /\ matches' = s
    /\ result' = s
    /\ pc' = "done"
    /\ UNCHANGED <<inputVars, i, tmpkey, map>>

\* Variant: without std::sort.
CreateResultUnsorted == CreateResultOf(matches)
CreateResult ==
    \E s \in [DOMAIN matches -> DOMAIN hashes] :
        Rearranged(matches, s) /\ Ascending(s) /\ CreateResultOf(s)

Stopped == pc \in {"done", "aborted"} /\ UNCHANGED vars

Step == Insert \/ StartLookup \/ Lookup \/ EndLookup \/ CreateResult
Next == Step \/ Stopped

Spec == Init /\ [][Next]_vars

-----------------------------------------------------------------------------
(* Properties.                                                             *)

\* The table holds, for every tag inserted so far, one node with the last
\* position of that tag: an insertion replaces, it never adds a second node.
TableExact ==
    LET m == IF pc = "insert" THEN i - 1 ELSE Len(hashes)
        t == [k \in 1..m |-> Tag(hashes[k])]
    IN  map = {[hash |-> t[k], ptr |-> KeyPointer, val |-> k] :
                  k \in {l \in 1..m : IsLast(t, l)}}

\* Once it returns, find_intersection has computed Matching's operators over
\* the tags: matches has one entry per hit, and each own position as often as
\* its tag is hit if it is the last of that tag, and otherwise not at all.
MatchesExact ==
    pc \in {"create", "done"} =>
        /\ \A k \in DOMAIN hashes :
              Occurs(matches, k) = Copies(Tags(hashes), Tags(phashes))[k]
        /\ Len(matches) = Cardinality(Hits(Tags(hashes), Tags(phashes)))

\* The assertion stops the program exactly when the hits outnumber one of the
\* lists; a partner's list without repeated tags never makes it fail.
AbortExact ==
    LET hits == Cardinality(Hits(Tags(hashes), Tags(phashes)))
    IN  /\ pc = "aborted" => hits > Len(hashes) \/ hits > Len(phashes)
        /\ Distinct(Tags(phashes)) => pc # "aborted"
        /\ pc = "done" => hits <= Len(hashes) /\ hits <= Len(phashes)

\* The copied elements come in the order of the own file; one that is copied
\* twice comes twice in a row, and none is when the partner's list repeats no
\* tag.
ResultInOrder ==
    pc = "done" =>
        \A j, k \in DOMAIN result : j < k =>
            /\ result[j] <= result[k]
            /\ Distinct(Tags(phashes)) => result[j] # result[k]

\* helpers.h:144 asserts that there are never more matches than elements in
\* the shorter list.
AssertHolds == pc # "aborted"

\* psi_demo.cpp:70 calls the elements found intersecting: each is the
\* element of some partner.
FoundIntersects ==
    pc = "done" => \A k \in DOMAIN result :
        \E j \in DOMAIN phashes : phashes[j] = hashes[result[k]]
=============================================================================
