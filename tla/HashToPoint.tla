---------------------------- MODULE HashToPoint -----------------------------
(***************************************************************************)
(* The first half of dh_psi's masking loop: oaid_hashpoint (crypto.cpp),   *)
(* one call of ippsGFpECSetPointHash_rmf per step.                         *)
(***************************************************************************)
EXTENDS Integers, Sequences, Settings

CONSTANTS
    HeaderCount,    \* the values of hdr, an Ipp32u: 2^32 in the program
    OnCurve(_, _)   \* OnCurve(h, e): the hash of header h and element e is
                    \* the x coordinate of a point

ASSUME HeaderCountAssumption == HeaderCount \in Nat \ {0}

VARIABLES
    hdr,      \* the header of the next try
    points    \* the points of the elements so far: header and element

pointVars == <<hdr, points>>

Headers == 0 .. HeaderCount - 1
FirstHeader == 2022716531 % HeaderCount
\* Variants: a header that grows past its width; an even step.
NextHeaderWide == hdr + 62343
NextHeaderEven == (hdr + 62342) % HeaderCount
NextHeader == (hdr + 62343) % HeaderCount

HashInit == hdr = FirstHeader /\ points = <<>>

\* One element of the loop; hdr is a local variable of oaid_hashpoint.
HashStarting(elements, first) ==
    /\ pc = "hash" /\ Len(points) < Len(elements)
    /\ LET e == elements[Len(points) + 1] IN
       \/ /\ OnCurve(hdr, e)
          /\ points' = Append(points, <<hdr, e>>)
          /\ hdr' = first
       \/ /\ ~OnCurve(hdr, e)
          /\ hdr' = NextHeader
          /\ UNCHANGED points
    /\ UNCHANGED <<pc, val>>

\* Variant: a header that is kept from one element to the next.
HashKeeping(elements) == HashStarting(elements, hdr)
Hash(elements) == HashStarting(elements, FirstHeader)

EndHash(elements) ==
    /\ pc = "hash" /\ Len(points) = Len(elements)
    /\ pc' = "ready"
    /\ UNCHANGED <<pointVars, val>>

=============================================================================
