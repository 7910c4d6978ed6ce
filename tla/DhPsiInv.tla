------------------------------ MODULE DhPsiInv ------------------------------
(***************************************************************************)
(* The inductive invariant behind the safety properties of DhPsi.          *)
(*                                                                         *)
(* In a run in which every Receive was filled, the n-th message a party    *)
(* reads is the n-th its peer wrote, at the offset the two programs imply. *)
(* Otherwise the peer has ended, the party has read all there was, and     *)
(* every half of a signature it asked for since is Junk: sm2_do_verify is  *)
(* what notices.  The invariant says that one of the two holds.            *)
(***************************************************************************)
EXTENDS DhPsi

\* The masked points p sends back, and its two signatures.
Remasked(p) ==
    [i \in DOMAIN elements[Peer(p)] |-> Mul(randC[p], Masked(Peer(p))[i])]
Signed(p, m, s) == [key |-> KeyOf[p], uid |-> UserId[p], msg |-> m, call |-> s]

\* The message p's program sends at step s: its value, size and offset.
Msg(p, s) == CASE s = Info -> Neles(p)
               [] s = Key -> KeyOf[p]
               [] s = Pts -> Masked(p)
               [] s \in {SigX, SigY} -> Signed(p, Masked(p), SigX)
               [] s \in {Uid, Uid2} -> UserId[p]
               [] s = Pts2 -> Remasked(p)
               [] s \in {SigX2, SigY2} -> Signed(p, Remasked(p), SigX2)
Size(p, s) == CASE s = Pts -> 64 * Neles(p)
                [] s = Pts2 -> 64 * Neles(Peer(p))
                [] OTHER -> FixedSize(s)
\* What comes before it: two lists of points, and the fixed messages.  The
\* client sends nothing from Pts2 on.
Fixed(s) == IF s <= Info THEN 0
            ELSE IF s = Key THEN 16
            ELSE IF s <= SigX THEN 80
            ELSE IF s = SigY THEN 112
            ELSE IF s = Uid THEN 144
            ELSE IF s <= SigX2 THEN 148
            ELSE IF s = SigY2 THEN 180
            ELSE IF s = Uid2 THEN 212 ELSE 216
Last(p, s) == IF p = CLIENT /\ s > Pts2 THEN Pts2 ELSE s
Offset(p, s) ==
    Fixed(Last(p, s))
    + (IF Last(p, s) > Pts THEN 64 * Neles(p) ELSE 0)
    + (IF Last(p, s) > Pts2 THEN 64 * Neles(Peer(p)) ELSE 0)

Segment(p, s) == [from |-> Offset(p, s), len |-> Size(p, s), val |-> Msg(p, s)]

\* The first step whose message p has not sent, or not received, yet.
NextSent(p) ==
    IF \/ phase[p] = "verify"
       \/ phase[p] \in {"recv", "join"} /\ (step[p] = Info \/ sender[p] = "finished")
    THEN step[p] + 1 ELSE step[p]
NextReceived(p) == IF phase[p] \in {"join", "verify"} THEN step[p] + 1 ELSE step[p]

\* Everything in p's stream is a message of its program, at its place; and
\* what the peer can read is there.
StreamInv(p) ==
    /\ \A g \in stream[p] : \E s \in Net :
          Sends(p, s) /\ Size(p, s) > 0 /\ g = Segment(p, s)
    /\ \A s \in Net :
          Sends(p, s) /\ Size(p, s) > 0 /\ Offset(p, s) + Size(p, s) <= written[p]
          => Segment(p, s) \in stream[p]
    /\ written[p] <= Offset(p, Find)
    /\ status[p] = "run" => written[p] = Offset(p, NextSent(p))

\* Which phases and thread states go together.
ControlInv(p) ==
    /\ phase[p] = "recv" => Receives(p, step[p])
    /\ phase[p] = "join" => Sends(p, step[p]) /\ step[p] # Info
    /\ phase[p] = "verify" => step[p] \in {Uid, Uid2}
    /\ step[p] <= Info => sender[p] = "none"
    /\ phase[p] \in {"recv", "join"} /\ step[p] # Info /\ Sends(p, step[p])
       => sender[p] \in {"running", "finished", "failed"}
    /\ sender[p] \in {"running", "failed"} =>
          phase[p] \in {"recv", "join"} /\ Sends(p, step[p]) /\ step[p] # Info

\* The computed buffers hold what the program means them to hold.
BufferInv(p) ==
    /\ (step[p] = Pts /\ phase[p] # "send") \/ step[p] \in SigX..Uid
       => sendBuffer[p] = Masked(p)
    /\ (step[p] = Pts2 /\ phase[p] # "send") \/ step[p] > Pts2
       => sendBuffer[p] = Remasked(p)
    /\ (step[p] = SigX /\ phase[p] # "send") \/ step[p] \in SigY..Uid
       => sig[p] = Msg(p, SigX)
    /\ (step[p] = SigX2 /\ phase[p] # "send") \/ step[p] \in SigY2..Uid2
       => sig[p] = Msg(p, SigX2)

\* p has received every message before step s as it was meant.
GotAll(p, s) ==
    \A r \in Net : r < s /\ Receives(p, r) => rcv[p][r] = Msg(Peer(p), r)

Good(p) ==
    /\ pos[p] = Offset(Peer(p), NextReceived(p))
    /\ GotAll(p, NextReceived(p))

\* The Receive of step e was the first that met the end of the stream.
BadSince(p, e) ==
    /\ e < NextReceived(p)
    /\ GotAll(p, e)
    /\ \A r \in {SigX, SigY, SigX2, SigY2} :
          e <= r /\ r < NextReceived(p) /\ Receives(p, r) => rcv[p][r] = Junk
Bad(p) ==
    /\ status[Peer(p)] # "run"
    /\ pos[p] = written[Peer(p)]
    /\ \E e \in Net : BadSince(p, e)

ReceiveInv(p) ==
    /\ pos[p] <= written[Peer(p)]
    /\ status[p] = "run" =>
          /\ Good(p) \/ Bad(p)
          /\ NextReceived(p) > Info => rcv[p][Info] \in Nat
    /\ status[p] \in {"run", "done"} =>
          /\ step[p] >= Pts2 => GotAll(p, Pts2)
          /\ step[p] = Find => GotAll(p, Find)
    /\ status[p] = "done" =>
          /\ step[p] = Find
          /\ \/ pos[p] >= Offset(Peer(p), Find)
             \/ status[Peer(p)] # "run" /\ pos[p] >= written[Peer(p)]

PartyInv(p) == StreamInv(p) /\ ControlInv(p) /\ BufferInv(p) /\ ReceiveInv(p)

\* The client's answer, once it has one.
ResultInv ==
    status[CLIENT] = "done" =>
        result = Copies(Tags(Remasked(SERVER)), Tags(Remasked(CLIENT)))

IInv ==
    /\ TypeOK
    /\ \A p \in Role : PartyInv(p)
    /\ ResultInv

-----------------------------------------------------------------------------
(* Facts that need IInv, and that CountExact, Framed and Implements need.    *)

\* The number the client prints, once it has an answer.
CountInv ==
    status[CLIENT] = "done" =>
        found = Cardinality(Hits(Tags(Remasked(SERVER)), Tags(Remasked(CLIENT))))

\* A stream always ends, and is always read, between two messages of the
\* program that writes it, also after a reset has cut it short.
Boundary(p, n) == \E s \in Read..Find : n = Offset(p, s)
Boundaries ==
    \A p \in Role : Boundary(p, written[p]) /\ Boundary(p, pos[Peer(p)])

\* Nothing is sent ahead of the program, so a client that holds a signature
\* of round 2 has got it from a server that was in round 2.
Released ==
    /\ \A p \in Role : \A g \in stream[p] :
          \E s \in Net : Sends(p, s) /\ Size(p, s) > 0 /\ s <= step[p] /\ g = Segment(p, s)
    /\ rcv[CLIENT][SigX2] # Junk => step[SERVER] >= Pts2
=============================================================================
