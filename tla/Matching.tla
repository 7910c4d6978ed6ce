------------------------------ MODULE Matching ------------------------------
(***************************************************************************)
(* What find_intersection (util/helpers.h) computes from two lists of      *)
(* tags.  The tag of a list entry is what the GLib hash table tells apart: *)
(* a 32-bit hash of the first eight octets of a masked point.  t is the    *)
(* own list, pt the partner's; positions count from 1.                     *)
(* FindIntersection is the loop itself, and its invariants say that it     *)
(* computes these operators; DhPsi uses them as one step.                  *)
(***************************************************************************)
EXTENDS Naturals, Sequences, FiniteSets

\* The partner's positions whose lookup hits: intersect_ctr counts them.
Hits(t, pt) == {j \in DOMAIN pt : \E i \in DOMAIN t : t[i] = pt[j]}

\* i is the last position of t that holds its tag: the later of two equal
\* insertions replaced the value of the earlier one.
IsLast(t, i) == \A k \in DOMAIN t : t[k] = t[i] => k <= i

\* How often x occurs in the list s.
Occurs(s, x) == Cardinality({k \in DOMAIN s : s[k] = x})

\* How many entries of matches are the own position i: one for each hit of its
\* tag if it is the last of its tag, and otherwise none.  So often is the
\* element at i copied.
Copies(t, pt) ==
    [i \in DOMAIN t |-> IF IsLast(t, i) THEN Occurs(pt, t[i]) ELSE 0]

\* A list without repetitions.
Distinct(s) == \A i, j \in DOMAIN s : s[i] = s[j] => i = j

\* The values of a list.
Values(s) == {s[i] : i \in DOMAIN s}
=============================================================================
