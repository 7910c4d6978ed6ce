------------------------------ MODULE Exchange ------------------------------
(***************************************************************************)
(* CSocket::Send and CSocket::Receive (util/socket.h) under                *)
(* exchange_information and the two snd_and_rcv (util/helpers.h): a        *)
(* sequence of rounds over one blocking socket with finite kernel buffers. *)
(*                                                                         *)
(* In an "inline" round the main thread sends, then receives; in a         *)
(* "duplex" round a sender thread sends while the main thread receives,    *)
(* and is joined; in a "oneway" round the server sends from a thread it    *)
(* joins and the client receives.  DhPsi takes a message at a time and     *)
(* lets buffers grow; this module takes chunks, and shows that bounded     *)
(* buffers change nothing: the rounds complete, in step, with the data     *)
(* that was sent.                                                          *)
(***************************************************************************)
EXTENDS Naturals, Sequences

CONSTANTS
    Kind,        \* Kind[r]: "inline", "duplex" or "oneway"
    Sizes,       \* possible values of size
    RcvBytes,    \* RcvBytes[sz][p][r]: what p passes as rcv_bytes in round r
    Cap          \* chunks the kernel holds per direction

SERVER == "server"
CLIENT == "client"
Role == {SERVER, CLIENT}
Peer(p) == IF p = SERVER THEN CLIENT ELSE SERVER
Rounds == DOMAIN Kind

ASSUME ScriptAssumption ==
    /\ Kind \in Seq({"inline", "duplex", "oneway"})
    /\ Sizes \subseteq [Role -> [Rounds -> Nat]]
    /\ Cap \in Nat \ {0}

\* Each party computes rcv_bytes from the numbers it holds. That the sizes
\* agree crosswise is a property of dh_psi: it is Framed of DhPsi.
ASSUME Crosswise ==
    \A sz \in Sizes, p \in Role :
        /\ RcvBytes[sz][p] \in [Rounds -> Nat]
        /\ \A r \in Rounds : Kind[r] # "oneway" \/ p = CLIENT =>
               RcvBytes[sz][p][r] = sz[Peer(p)][r]

\* exchange_information sends 16 octets before it receives; any socket
\* buffer holds them.
ASSUME InlineFits ==
    \A sz \in Sizes, r \in Rounds :
        Kind[r] = "inline" => \A p \in Role : sz[p][r] <= Cap

VARIABLES
    size,           \* size[p][r]: chunks of the message p sends in round r
    round,          \* round[p]: the round p is in; one past the last at the end
    main,           \* main[p]: "start", "send", "recv" or "join"
    thread,         \* thread[p]: "none", "running" or "finished"
    toSend,         \* toSend[p]: chunks the current send(2) has not copied yet
    chan,           \* chan[p]: chunks from p in the kernel, oldest first
    buf,            \* buf[p]: chunks in the receive buffer of the round
    bytes_sent,     \* the counters of each CSocket
    bytes_received

vars == <<size, round, main, thread, toSend, chan, buf, bytes_sent,
          bytes_received>>
counters == <<bytes_sent, bytes_received>>

Sends(p) == Kind[round[p]] # "oneway" \/ p = SERVER
Receives(p) == Kind[round[p]] # "oneway" \/ p = CLIENT

Message(p, r) == [k \in 1..size[p][r] |-> <<r, k>>]

\* Variant: the two sizes of snd_and_rcv in the wrong order.
RecvLenOwn(p) == size[p][round[p]]
RecvLen(p) == RcvBytes[size][p][round[p]]

Active(p) == round[p] \in Rounds

Init ==
    /\ size \in Sizes
    /\ round = [p \in Role |-> 1]
    /\ main = [p \in Role |-> "start"]
    /\ thread = [p \in Role |-> "none"]
    /\ toSend = [p \in Role |-> <<>>]
    /\ chan = [p \in Role |-> <<>>]
    /\ buf = [p \in Role |-> <<>>]
    /\ bytes_sent = [p \in Role |-> 0]
    /\ bytes_received = [p \in Role |-> 0]

\* The next round, with a fresh receive buffer.
Return(p) ==
    /\ round' = [round EXCEPT ![p] = @ + 1]
    /\ main' = [main EXCEPT ![p] = "start"]
    /\ thread' = [thread EXCEPT ![p] = "none"]
    /\ buf' = [buf EXCEPT ![p] = <<>>]

\* The call begins: Send counts its octets before it sends them.
BeginAs(p, inline) ==
    /\ Active(p) /\ main[p] = "start"
    /\ IF Sends(p)
       THEN /\ toSend' = [toSend EXCEPT ![p] = Message(p, round[p])]
            /\ IF inline
               THEN /\ main' = [main EXCEPT ![p] = "send"]
                    /\ UNCHANGED thread
                    /\ bytes_sent' = [bytes_sent EXCEPT ![p] = @ + size[p][round[p]]]
               ELSE /\ main' = [main EXCEPT ![p] =
                                   IF Receives(p) THEN "recv" ELSE "join"]
                    /\ thread' = [thread EXCEPT ![p] = "created"]
                    /\ UNCHANGED bytes_sent
       ELSE /\ main' = [main EXCEPT ![p] = "recv"]
            /\ UNCHANGED <<thread, toSend, bytes_sent>>
    /\ UNCHANGED <<size, round, chan, buf, bytes_received>>

\* Variant: every round sends before it receives, without a thread.
BeginInline(p) == BeginAs(p, TRUE)
Begin(p) == BeginAs(p, Kind[round[p]] = "inline")

\* send_data starts to run.
ThreadStartAdding(p, n) ==
    /\ thread[p] = "created"
    /\ thread' = [thread EXCEPT ![p] = "running"]
    /\ bytes_sent' = [bytes_sent EXCEPT ![p] = @ + n]
    /\ UNCHANGED <<size, round, main, toSend, chan, buf, bytes_received>>

\* Variant: a send from the thread is not counted.
ThreadStartUncounted(p) == ThreadStartAdding(p, 0)
ThreadStart(p) == ThreadStartAdding(p, size[p][round[p]])

\* send(2) copies some chunks into the kernel, and blocks when it is full.
Sending(p) == main[p] = "send" \/ thread[p] = "running"
CopyOut(p) ==
    /\ Sending(p) /\ toSend[p] # <<>>
    /\ \E n \in 1..(Cap - Len(chan[p])) :
          /\ n <= Len(toSend[p])
          /\ chan' = [chan EXCEPT ![p] = @ \o SubSeq(toSend[p], 1, n)]
          /\ toSend' = [toSend EXCEPT ![p] = SubSeq(@, n + 1, Len(@))]
    /\ UNCHANGED <<size, round, main, thread, buf, counters>>

\* send(2) returns once everything is copied.
SendReturns(p) ==
    /\ Sending(p) /\ toSend[p] = <<>>
    /\ IF main[p] = "send"
       THEN main' = [main EXCEPT ![p] = "recv"] /\ UNCHANGED thread
       ELSE thread' = [thread EXCEPT ![p] = "finished"] /\ UNCHANGED main
    /\ UNCHANGED <<size, round, toSend, chan, buf, counters>>

\* One recv(2): any part of what is there, up to the length asked for.
CopyInUpTo(p, len) ==
    /\ main[p] = "recv"
    /\ \E n \in 1..len :
          /\ n <= Len(chan[Peer(p)])
          /\ buf' = [buf EXCEPT ![p] = @ \o SubSeq(chan[Peer(p)], 1, n)]
          /\ chan' = [chan EXCEPT ![Peer(p)] = SubSeq(@, n + 1, Len(@))]
    /\ UNCHANGED <<size, round, main, thread, toSend, counters>>

\* Variant: after a part, the whole length is asked for again.
CopyInAgain(p) ==
    Len(buf[p]) < RecvLen(p) /\ CopyInUpTo(p, RecvLen(p))
\* The loop asks for what is still missing.
CopyIn(p) == CopyInUpTo(p, RecvLen(p) - Len(buf[p]))

\* Receive returns when the buffer is full, and only then counts.
ReceiveReturnsIf(p, full) ==
    /\ main[p] = "recv" /\ full
    /\ bytes_received' = [bytes_received EXCEPT ![p] = @ + RecvLen(p)]
    /\ IF thread[p] # "none"
       THEN /\ main' = [main EXCEPT ![p] = "join"]
            /\ UNCHANGED <<size, round, thread, buf>>
       ELSE Return(p)
    /\ UNCHANGED <<size, toSend, chan, bytes_sent>>

\* Variant: one recv(2) and no loop around it.
ReceiveReturnsEarly(p) == ReceiveReturnsIf(p, buf[p] # <<>> \/ RecvLen(p) = 0)
ReceiveReturns(p) == ReceiveReturnsIf(p, Len(buf[p]) = RecvLen(p))

\* pthread_join returns.
Join(p) ==
    /\ main[p] = "join" /\ thread[p] = "finished"
    /\ Return(p)
    /\ UNCHANGED <<size, toSend, chan, counters>>

Main(p) ==
    Begin(p) \/ CopyIn(p) \/ ReceiveReturns(p) \/ Join(p)
    \/ (main[p] = "send" /\ (CopyOut(p) \/ SendReturns(p)))
Thread(p) ==
    ThreadStart(p) \/ (main[p] # "send" /\ (CopyOut(p) \/ SendReturns(p)))

\* When no party is active any more, the programs have ended.
Next == \E p \in Role : Main(p) \/ Thread(p)

Spec == Init /\ [][Next]_vars

\* The operating system runs every thread that can run.
FairSpec == Spec /\ \A p \in Role : WF_vars(Main(p)) /\ WF_vars(Thread(p))

-----------------------------------------------------------------------------
(* Properties.                                                             *)

\* The types, and a Receive never writes behind the rcv_bytes octets of its
\* buffer, although recv(2) returns parts and more may be queued.
TypeOK ==
    /\ round \in [Role -> 1..(Len(Kind) + 1)]
    /\ main \in [Role -> {"start", "send", "recv", "join"}]
    /\ thread \in [Role -> {"none", "created", "running", "finished"}]
    /\ \A p \in Role : Active(p) /\ Receives(p) => Len(buf[p]) <= RecvLen(p)
    /\ bytes_sent \in [Role -> Nat]
    /\ bytes_received \in [Role -> Nat]

\* A Receive gets the octets of its own round, all and only those, although
\* the peer may be a round ahead and its next message is already queued.
Delivered ==
    \A p \in Role : Active(p) =>
        /\ \A k \in DOMAIN buf[p] : buf[p][k] = <<round[p], k>>
        /\ main[p] = "join" /\ Receives(p) =>
               buf[p] = Message(Peer(p), round[p])

\* When both are through, the counters the demo prints agree crosswise, and
\* nothing is left in the kernel.
CountersAgree ==
    (\A p \in Role : ~Active(p)) =>
        \A p \in Role : /\ bytes_sent[p] = bytes_received[Peer(p)]
                        /\ chan[p] = <<>>

\* All rounds complete, however small the kernel buffers are.
Completes == \A p \in Role : <>(round[p] > Len(Kind))

\* Seen from outside, a round is atomic.
Sync == INSTANCE RoundSync WITH done <- [p \in Role |-> round[p] - 1],
                                begun <- [p \in Role |->
                                    IF main[p] = "start" THEN round[p] - 1 ELSE round[p]]
Implements == Sync!Spec
=============================================================================
