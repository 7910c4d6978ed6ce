----------------------------- MODULE MCExchange -----------------------------
(* Exchange for TLC: every kind of round, each message cut into a few chunks, *)
(* with messages larger than the kernel buffer and empty ones.               *)
EXTENDS Exchange

MCKind == <<"inline", "duplex", "duplex", "duplex", "oneway", "oneway">>

Both(s, c) == [p \in Role |-> IF p = SERVER THEN s ELSE c]

(* s and c are the numbers of elements of the two files.                    *)
MCSizes == {Both(<<2, 1, s, 1, c, 1>>, <<2, 1, c, 1, 0, 0>>) : s, c \in 0..4}

(* What each party computes from the two numbers, as dh_psi does.           *)
MCRcvBytes == [sz \in MCSizes |->
    LET s == sz[SERVER][3]  c == sz[CLIENT][3] IN
    Both(<<2, 1, c, 1, 0, 0>>, <<2, 1, s, 1, c, 1>>)]
=============================================================================
