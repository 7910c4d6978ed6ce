----------------------------- MODULE RoundSync ------------------------------
(***************************************************************************)
(* What a sequence of exchanges promises to its callers: a party gets out  *)
(* of a round it receives in only after the peer got into it.              *)
(***************************************************************************)
EXTENDS Naturals, Sequences

CONSTANTS Kind, Sizes, SERVER, CLIENT

VARIABLES
    size,    \* size[p][r]: how much p sends in round r
    begun,   \* begun[p]: rounds p has entered
    done     \* done[p]: rounds p has left

vars == <<size, begun, done>>
Role == {SERVER, CLIENT}
Peer(p) == IF p = SERVER THEN CLIENT ELSE SERVER

\* A message of no octets is not waited for.
Waits(p, r) ==
    /\ Kind[r] # "oneway" \/ p = CLIENT
    /\ size[Peer(p)][r] > 0

Init ==
    /\ size \in Sizes
    /\ begun = [p \in Role |-> 0]
    /\ done = [p \in Role |-> 0]

Enter(p) ==
    /\ begun[p] = done[p] /\ begun[p] < Len(Kind)
    /\ begun' = [begun EXCEPT ![p] = @ + 1]
    /\ UNCHANGED <<size, done>>

Leave(p) ==
    /\ done[p] < begun[p]
    /\ Waits(p, begun[p]) => begun[Peer(p)] >= begun[p]
    /\ done' = [done EXCEPT ![p] = @ + 1]
    /\ UNCHANGED <<size, begun>>

Next == \E p \in Role : Enter(p) \/ Leave(p)
Spec == Init /\ [][Next]_vars
=============================================================================
