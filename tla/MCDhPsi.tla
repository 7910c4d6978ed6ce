------------------------------ MODULE MCDhPsi -------------------------------
(* DhPsi for TLC: elements are small numbers, points the non-zero residues   *)
(* modulo 7, and multiplying by a scalar is a bijection of them.             *)
EXTENDS DhPsiInv

MCElement == 1..3
MCPoint == 1..6
MCHashPoint(e) == e
MCMul(k, x) == (k * x) % 7
\* Tags collide: with both scalars 2, elements 1 and 2 do; with any others no
\* two elements.
MCTag(x) == x % 3
MCKeyOf == [p \in Role |-> IF p = SERVER THEN "skey" ELSE "ckey"]
MCUserId == [p \in Role |-> IF p = SERVER THEN "sid" ELSE "cid"]

NoFaults == {}
AllStops == {"read", "crypto", "crash"}
AllFaults == {"read", "crypto", "crash", "thread"}

\* For the largest set of faults: an empty file, and two that have one element
\* in common, in another place and once or twice.
FewInputs == {<<>>, <<1, 2>>, <<3, 1, 1>>}
\* Empty files, files of different lengths, one inside the other, the same
\* elements in another order, an element that occurs twice.
ShortInputs == {<<>>, <<1>>, <<1, 2>>}
MixedInputs == {<<>>, <<2>>, <<1, 2>>, <<2, 1>>, <<3, 1, 2>>, <<1, 1>>, <<2, 1, 2>>}
=============================================================================
