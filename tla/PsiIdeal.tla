------------------------------ MODULE PsiIdeal ------------------------------
(***************************************************************************)
(* What dh_psi promises.  Two parties hold a set each.  The server, once   *)
(* it has authenticated the client's points, releases them under its own   *)
(* scalar; only then can the client complete, and when it does its answer  *)
(* is the intersection up to alike: elements that the comparison cannot    *)
(* tell apart stand for each other.  If only equal elements are alike, the *)
(* answer is the intersection.  The server learns nothing.  Either side    *)
(* may fail at any moment, and a failed client has no answer.              *)
(***************************************************************************)
EXTENDS Naturals

CONSTANTS Element, SERVER, CLIENT

VARIABLES
    own,        \* own[p]: the elements of party p
    alike,      \* the pairs of elements that the comparison takes for equal
    released,   \* the server has let its half of the answer go
    outcome,    \* outcome[p]: "run", "done" or "failed"
    answer      \* what the client learns

vars == <<own, alike, released, outcome, answer>>
Role == {SERVER, CLIENT}

\* The comparison takes every element for itself, in both directions, and
\* whatever equals an equal for equal.
Equivalence(R) ==
    /\ \A d \in Element : <<d, d>> \in R
    /\ \A d, e \in Element : <<d, e>> \in R => <<e, d>> \in R
    /\ \A c, d, e \in Element :
          <<c, d>> \in R /\ <<d, e>> \in R => <<c, e>> \in R

Init ==
    /\ own \in [Role -> SUBSET Element]
    /\ alike \in SUBSET (Element \X Element)
    /\ Equivalence(alike)
    /\ released = FALSE
    /\ outcome = [p \in Role |-> "run"]
    /\ answer = {}

Release ==
    /\ outcome[SERVER] = "run"
    /\ ~released
    /\ released' = TRUE
    /\ UNCHANGED <<own, alike, outcome, answer>>

\* The elements of S that are alike to one of T.
Shared(S, T) == {d \in S : \E e \in T : <<d, e>> \in alike}

\* The client completes: its answer has nothing but elements it shares with
\* the server, and of each of them one that is alike.
Learn ==
    /\ released
    /\ outcome[CLIENT] = "run"
    /\ outcome' = [outcome EXCEPT ![CLIENT] = "done"]
    /\ answer' \in SUBSET Shared(own[CLIENT], own[SERVER])
    /\ \A d \in Shared(own[CLIENT], own[SERVER]) : \E a \in answer' : <<d, a>> \in alike
    /\ UNCHANGED <<own, alike, released>>

\* The server completes.
Leave ==
    /\ released
    /\ outcome[SERVER] = "run"
    /\ outcome' = [outcome EXCEPT ![SERVER] = "done"]
    /\ UNCHANGED <<own, alike, released, answer>>

Fail(p) ==
    /\ outcome[p] = "run"
    /\ outcome' = [outcome EXCEPT ![p] = "failed"]
    /\ UNCHANGED <<own, alike, released, answer>>

End(p) == Fail(p) \/ (p = CLIENT /\ Learn) \/ (p = SERVER /\ Leave)

Next == Release \/ \E p \in Role : End(p)

Spec == Init /\ [][Next]_vars

\* Neither party runs for ever.
FairSpec == Spec /\ \A p \in Role : WF_vars(End(p))
=============================================================================
