------------------------------- MODULE DhPsi --------------------------------
(***************************************************************************)
(* One run of the demo program by both parties: psi_demonstrator           *)
(* (mains/psi_demo.cpp) from read_elements on, exchange_information and    *)
(* snd_and_rcv (util/helpers.h), dh_psi (ecdh-psi/dh-psi.cpp),             *)
(* sign_verify_init and sign_and_verify (util/gmCrypto/crypto.cpp), over   *)
(* one TCP connection that is already established.                         *)
(*                                                                         *)
(* A party walks through the steps Read .. Find.  At each network step it  *)
(* goes through the phases "send" (compute, start the sender thread),      *)
(* "recv" (blocked in Receive), "join" (wait for the thread) and, at the   *)
(* end of sign_and_verify, "verify".  The sender thread is an actor of its *)
(* own: it reads the buffer when it runs, not when it is started.          *)
(*                                                                         *)
(* The connection is a byte stream in each direction: Receive takes the    *)
(* next n octets, whatever message they belong to.  A dead peer shows as   *)
(* end of stream, which every caller of Receive ignores.                   *)
(***************************************************************************)
EXTENDS Integers, Sequences, FiniteSets, Matching

CONSTANTS
    Element,       \* what a line of the input file holds in column col
    Inputs,        \* the input files: sequences of elements
    Point,         \* points of the curve, as 64-octet strings
    Scalar,        \* values newRandBN may draw for randC
    HashPoint(_),  \* oaid_hashpoint
    Mul(_, _),     \* mul_randkey: scalar times point
    Tag(_),        \* what the hash table of find_intersection sees of a point
    KeyOf,         \* the SM2 key pair each party draws
    UserId,        \* the user id each party was started with
    Junk,          \* the content of a buffer that was never filled
    Garbage,       \* what an unfilled uint32_t pneles may hold
    Faults         \* which of "read", "crypto", "thread", "crash" may happen

SERVER == "server"
CLIENT == "client"
Role == {SERVER, CLIENT}
Peer(p) == IF p = SERVER THEN CLIENT ELSE SERVER

\* The points of the program at which a party talks to its peer, in order.
Read == 0     \* read_elements
Info == 1     \* exchange_information
Key == 2      \* public keys, in sign_verify_init
Pts == 3      \* own masked points
SigX == 4     \* sign_and_verify, both directions
SigY == 5
Uid == 6
Pts2 == 7     \* the peer's points masked again, server to client only
SigX2 == 8    \* sign_and_verify with a role: server to client only
SigY2 == 9
Uid2 == 10
Find == 11    \* find_intersection, or the end of the server's dh_psi
Net == Info..Uid2

\* A signature over a list of points, made by the call at step "call".
Signature == [key : {KeyOf[p] : p \in Role}, uid : {UserId[p] : p \in Role},
              msg : Seq(Point), call : {SigX, SigX2}]

ASSUME InputsAssumption == Inputs \subseteq Seq(Element)
ASSUME PointAssumption ==
    /\ \A e \in Element : HashPoint(e) \in Point
    /\ \A k \in Scalar, x \in Point : Mul(k, x) \in Point
ASSUME HashAssumption ==
    \A d, e \in Element : HashPoint(d) = HashPoint(e) => d = e
ASSUME MulAssumption ==
    /\ \A k \in Scalar, x, y \in Point : Mul(k, x) = Mul(k, y) => x = y
    /\ \A j, k \in Scalar, x \in Point : Mul(j, Mul(k, x)) = Mul(k, Mul(j, x))
\* What a buffer that was never filled holds is no signature.
ASSUME JunkAssumption == Junk \notin Signature
ASSUME GarbageAssumption == Garbage \subseteq Nat
ASSUME KeyAssumption == KeyOf[SERVER] # KeyOf[CLIENT]

VARIABLES
    elements,    \* elements[p]: the lines of p's file
    randC,       \* randC[p]: the secret scalar of p
    step,        \* step[p]: where p is in the program
    phase,       \* phase[p]: "send", "recv", "join" or "verify"
    status,      \* status[p]: "run"; "done" or "err", dh_psi returned; "dead"
    sender,      \* sender[p]: "none", "running", "finished" or "failed"
    sendBuffer,  \* sendBuffer[p]: the points p computed last
    sig,         \* sig[p]: the signature p computed last
    rcv,         \* rcv[p][s]: what p's Receive at step s left in its buffer
    stream,      \* stream[p]: segments p has written, at their offsets
    written,     \* written[p]: octets of p's stream the peer can read
    pos,         \* pos[p]: octets of the peer's stream p has consumed
    found,       \* the number of elements the client prints, -1 before
    result       \* result[i]: how often the client prints its element i

partyVars == <<step, phase, status>>
netVars == <<stream, written, pos>>
dataVars == <<sendBuffer, sig, rcv>>
inputVars == <<elements, randC>>
outVars == <<found, result>>
vars == <<inputVars, partyVars, sender, dataVars, netVars, outVars>>

-----------------------------------------------------------------------------
(* The steps of a party and the sizes of its messages.                     *)

\* Variant: the second snd_and_rcv without its role.
SendsBoth(p, s) == s \in Info..Uid2
Sends(p, s) == s \in Info..Uid \/ (p = SERVER /\ s \in Pts2..Uid2)
Receives(p, s) == s \in Info..Uid \/ (p = CLIENT /\ s \in Pts2..Uid2)

\* The number of elements in p's file.
Neles(p) == Len(elements[p])

\* Octets of the messages that do not depend on the inputs: four uint32_t,
\* a point, the two halves of a signature, a user id.
FixedSize(s) == CASE s = Info -> 16
                  [] s = Key -> 64
                  [] s \in {SigX, SigY, SigX2, SigY2} -> 32
                  [] s \in {Uid, Uid2} -> 4

\* What p passes to Send and to Receive.
\* Variant: one octet too many of the user id.
SendSizeLonger(p, s) == CASE s = Pts -> 64 * Neles(p)
                          [] s = Pts2 -> 64 * rcv[p][Info]
                          [] s \in {Uid, Uid2} -> 5
                          [] OTHER -> FixedSize(s)
SendSize(p, s) == CASE s = Pts -> 64 * Neles(p)
                    [] s = Pts2 -> 64 * rcv[p][Info]
                    [] OTHER -> FixedSize(s)
\* Variant: round 2 expects as many points as round 1.
RecvSizeSame(p, s) == CASE s \in {Pts, Pts2} -> 64 * rcv[p][Info]
                        [] OTHER -> FixedSize(s)
RecvSize(p, s) == CASE s = Pts -> 64 * rcv[p][Info]
                    [] s = Pts2 -> 64 * Neles(p)
                    [] OTHER -> FixedSize(s)

Masked(p) == [i \in DOMAIN elements[p] |-> Mul(randC[p], HashPoint(elements[p][i]))]

\* Variants: the peer's points go back as they came, or in another order.
MaskAgainNot(p) == rcv[p][Pts]
MaskAgainReversed(p) ==
    LET x == rcv[p][Pts]
    IN  [i \in DOMAIN x |-> Mul(randC[p], x[Len(x) + 1 - i])]
\* The peer's points, as received, under p's own scalar.
MaskAgain(p) == [i \in DOMAIN rcv[p][Pts] |-> Mul(randC[p], rcv[p][Pts][i])]

SignatureOf(p) ==
    [key |-> KeyOf[p], uid |-> UserId[p], msg |-> sendBuffer[p], call |-> step[p]]

\* What the sender thread finds in the buffer it was given.
Outgoing(p, s) == CASE s = Info -> Neles(p)
                    [] s = Key -> KeyOf[p]
                    [] s \in {Pts, Pts2} -> sendBuffer[p]
                    [] s \in {SigX, SigY, SigX2, SigY2} -> sig[p]
                    [] s \in {Uid, Uid2} -> UserId[p]

\* sm2_do_verify on what the last three Receives and the one of the points
\* left: the two halves make a signature, by the key received in step Key,
\* for the user id and the points received.
Valid(p) ==
    LET s == step[p]   \* Uid or Uid2
        x == rcv[p][s - 2]
    IN  /\ rcv[p][s - 1] = x
        /\ x # Junk
        /\ x.key = rcv[p][Key]
        /\ x.uid = rcv[p][s]
        /\ x.msg = rcv[p][s - 3]

-----------------------------------------------------------------------------
(* The connection.                                                         *)

Write(p, n, v) ==
    IF n = 0 THEN UNCHANGED <<stream, written>>
    ELSE /\ stream' = [stream EXCEPT ![p] = @ \cup {[from |-> written[p], len |-> n, val |-> v]}]
         /\ written' = [written EXCEPT ![p] = @ + n]

\* What n octets from offset f of q's stream amount to: a message, if exactly
\* that was written there, and otherwise nothing that makes sense.
Content(q, f, n) ==
    LET G == {g \in stream[q] : g.from = f /\ g.len = n}
    IN  IF n = 0 THEN {<<>>}
        ELSE IF G = {} THEN {Junk} ELSE {g.val : g \in G}

\* Variant: a Receive that retries at the end of the stream.
AtEofNever(p, n) == FALSE
\* The stream of a process that has ended, once what it had sent is used up.
AtEof(p, n) ==
    /\ n > 0
    /\ pos[p] + n > written[Peer(p)]
    /\ status[Peer(p)] # "run"

\* The public key object holds p's own key until SetPoint replaces it.
KeyLeft(p) == {Junk, KeyOf[p]}

\* An assumption about the allocator: what new leaves in the buffers of the
\* two halves is no signature.  Round 1's are freed by then, and in a freed
\* chunk the allocator's links have replaced the first octets.
HalfLeft == {Junk}

\* What the buffer of a Receive that met the end of the stream may hold:
\* puserid and recvBuffer2 may occupy memory that held round 1's.
Unreceived(p, s) ==
    CASE s = Info -> Garbage \cup {Neles(Peer(p))}
      [] s = Key -> KeyLeft(p)
      [] s = Pts -> {Junk}
      [] s \in {SigX, SigY, SigX2, SigY2} -> HalfLeft
      [] s \in {Uid, Uid2} -> {Junk, UserId[Peer(p)]}
      [] s = Pts2 -> {Junk, rcv[p][Pts]}

-----------------------------------------------------------------------------
(* Control.                                                                *)

At(p, s, ph) == status[p] = "run" /\ step[p] = s /\ phase[p] = ph

Goto(p, s, ph) ==
    /\ step' = [step EXCEPT ![p] = s]
    /\ phase' = [phase EXCEPT ![p] = ph]
    /\ UNCHANGED status

\* The statement after the message of step s.
GotoNext(p) ==
    IF step[p] \in {Uid, Uid2} THEN Goto(p, step[p], "verify")
                               ELSE Goto(p, step[p] + 1, "send")

\* The process ends.  A client whose dh_psi returned 0 on an error prints
\* that it found 0 elements.
End(p, st) ==
    /\ status' = [status EXCEPT ![p] = st]
    /\ found' = IF p = CLIENT /\ st = "err" THEN 0 ELSE found
    /\ UNCHANGED <<step, phase, result>>

\* snd_and_rcv up to its first blocking call.  With a role, the client only
\* receives and the server only sends.
StartTransfer(p) ==
    IF Sends(p, step[p])
    THEN /\ \/ sender' = [sender EXCEPT ![p] = "running"]
            \/ "thread" \in Faults /\ sender' = [sender EXCEPT ![p] = "failed"]
         /\ Goto(p, step[p], IF Receives(p, step[p]) THEN "recv" ELSE "join")
    ELSE /\ UNCHANGED sender
         /\ Goto(p, step[p], "recv")

Init ==
    /\ elements \in [Role -> Inputs]
    /\ randC \in [Role -> Scalar]
    /\ step = [p \in Role |-> Read]
    /\ phase = [p \in Role |-> "send"]
    /\ status = [p \in Role |-> "run"]
    /\ sender = [p \in Role |-> "none"]
    /\ sendBuffer = [p \in Role |-> <<>>]
    /\ sig = [p \in Role |-> Junk]
    /\ rcv = [p \in Role |-> [s \in Net |-> Junk]]
    /\ stream = [p \in Role |-> {}]
    /\ written = [p \in Role |-> 0]
    /\ pos = [p \in Role |-> 0]
    /\ found = -1
    /\ result = [i \in DOMAIN elements[CLIENT] |-> 0]

-----------------------------------------------------------------------------
(* Local steps.                                                            *)

\* read_elements: a missing file ends the program, with the connection open.
ReadElements(p) ==
    /\ At(p, Read, "send")
    /\ \/ Goto(p, Info, "send") /\ UNCHANGED outVars
       \/ "read" \in Faults /\ End(p, "dead")
    /\ UNCHANGED <<inputVars, sender, dataVars, netVars>>

\* sign_verify_init up to its snd_and_rcv.  Its errors all come before it.
KeyGen(p) ==
    /\ At(p, Key, "send")
    /\ \/ StartTransfer(p) /\ UNCHANGED outVars
       \/ "crypto" \in Faults /\ End(p, "err") /\ UNCHANGED sender
    /\ UNCHANGED <<inputVars, dataVars, netVars>>

\* The loop over the own elements, and the start of the first exchange.
MaskOwn(p) ==
    /\ At(p, Pts, "send")
    /\ sendBuffer' = [sendBuffer EXCEPT ![p] = Masked(p)]
    /\ StartTransfer(p)
    /\ UNCHANGED <<inputVars, sig, rcv, netVars, outVars>>

\* sign_and_verify signs the points it was given and sends the first half.
\* The client signs in round 2 too, though nobody receives that signature.
Sign(p) ==
    /\ At(p, SigX, "send") \/ At(p, SigX2, "send")
    /\ \/ /\ sig' = [sig EXCEPT ![p] = SignatureOf(p)]
          /\ StartTransfer(p)
          /\ UNCHANGED outVars
       \/ "crypto" \in Faults /\ End(p, "err") /\ UNCHANGED <<sender, sig>>
    /\ UNCHANGED <<inputVars, sendBuffer, rcv, netVars>>

\* The second half and the user id need no computation.
SendNext(p) ==
    /\ \E s \in {SigY, Uid, SigY2, Uid2} : At(p, s, "send")
    /\ StartTransfer(p)
    /\ UNCHANGED <<inputVars, dataVars, netVars, outVars>>

\* The loop over the peer's points, and the start of the second exchange.
MaskPeer(p) ==
    /\ At(p, Pts2, "send")
    /\ sendBuffer' = [sendBuffer EXCEPT ![p] = MaskAgain(p)]
    /\ StartTransfer(p)
    /\ UNCHANGED <<inputVars, sig, rcv, netVars, outVars>>

\* Variant: the result of sm2_do_verify is ignored.
VerifyUnchecked(p) ==
    /\ status[p] = "run" /\ phase[p] = "verify"
    /\ Goto(p, step[p] + 1, "send")
    /\ UNCHANGED <<inputVars, sender, dataVars, netVars, outVars>>
\* Variant: a failed verification is tried again.
VerifyRetries(p) ==
    /\ status[p] = "run" /\ phase[p] = "verify"
    /\ IF Valid(p) \/ (p = SERVER /\ step[p] = Uid2)
       THEN Goto(p, step[p] + 1, "send")
       ELSE UNCHANGED partyVars
    /\ UNCHANGED <<inputVars, sender, dataVars, netVars, outVars>>

\* sm2_do_verify.  The server skips it in round 2.
Verify(p) ==
    /\ status[p] = "run" /\ phase[p] = "verify"
    /\ \/ /\ Valid(p) \/ (p = SERVER /\ step[p] = Uid2)
          /\ Goto(p, step[p] + 1, "send")
          /\ UNCHANGED outVars
       \/ /\ ~(p = SERVER /\ step[p] = Uid2)
          /\ ~Valid(p) \/ "crypto" \in Faults
          /\ End(p, "err")
    /\ UNCHANGED <<inputVars, sender, dataVars, netVars>>

\* find_intersection and create_result_from_matches_var_bitlen on the client,
\* on the tags of its points as the server returned them, t, and of the
\* server's, pt.  The assertion on intersect_ctr (helpers.h:144) ends the
\* program.
Tags(m) == [i \in DOMAIN m |-> Tag(m[i])]
Compare(t, pt, hits, copies) ==
    /\ At(CLIENT, Find, "send")
    /\ IF hits > Len(t) \/ hits > Len(pt)
       THEN End(CLIENT, "dead")
       ELSE /\ status' = [status EXCEPT ![CLIENT] = "done"]
            /\ found' = hits
            /\ result' = copies
            /\ UNCHANGED <<step, phase>>
    /\ UNCHANGED <<inputVars, sender, dataVars, netVars>>

\* Variants: the two lists swapped; the own positions counted, not the hits;
\* the peer's points compared as they came; a counter that starts at one.
FindIntersectionSwapped ==
    LET t == Tags(sendBuffer[CLIENT])
        pt == Tags(rcv[CLIENT][Pts2])
    IN  Compare(t, pt, Cardinality(Hits(t, pt)), Copies(t, pt))
FindIntersectionOwn ==
    LET t == Tags(rcv[CLIENT][Pts2])
        pt == Tags(sendBuffer[CLIENT])
    IN  Compare(t, pt, Cardinality(Hits(pt, t)), Copies(t, pt))
FindIntersectionOnce ==
    LET t == Tags(rcv[CLIENT][Pts2])
        pt == Tags(rcv[CLIENT][Pts])
    IN  Compare(t, pt, Cardinality(Hits(t, pt)), Copies(t, pt))
FindIntersectionFromOne ==
    LET t == Tags(rcv[CLIENT][Pts2])
        pt == Tags(sendBuffer[CLIENT])
    IN  Compare(t, pt, Cardinality(Hits(t, pt)) + 1, Copies(t, pt))
FindIntersection ==
    LET t == Tags(rcv[CLIENT][Pts2])
        pt == Tags(sendBuffer[CLIENT])
    IN  Compare(t, pt, Cardinality(Hits(t, pt)), Copies(t, pt))

\* The server's dh_psi returns after round 2.
Finish ==
    /\ At(SERVER, Find, "send")
    /\ End(SERVER, "done")
    /\ UNCHANGED <<inputVars, sender, dataVars, netVars>>

-----------------------------------------------------------------------------
(* Sending and receiving.                                                  *)

\* exchange_information sends from the main thread.
SendInfo(p) ==
    /\ At(p, Info, "send")
    /\ Goto(p, Info, "recv")
    /\ Write(p, SendSize(p, Info), Outgoing(p, Info))
    /\ UNCHANGED <<inputVars, sender, dataVars, pos, outVars>>

\* send_data in the sender thread, which reads the buffer now.
ThreadSend(p) ==
    /\ status[p] = "run" /\ sender[p] = "running"
    /\ sender' = [sender EXCEPT ![p] = "finished"]
    /\ Write(p, SendSize(p, step[p]), Outgoing(p, step[p]))
    /\ UNCHANGED <<inputVars, partyVars, dataVars, pos, outVars>>

\* After Receive: exchange_information and the client's round 2 have no
\* thread to join.
Received(p, v) ==
    /\ rcv' = [rcv EXCEPT ![p][step[p]] = v]
    /\ IF step[p] \in Key..Uid THEN Goto(p, step[p], "join") ELSE GotoNext(p)

\* Receive with all its octets there; for no octets it returns at once.
Receive(p) ==
    /\ status[p] = "run" /\ phase[p] = "recv"
    /\ LET n == RecvSize(p, step[p]) IN
       /\ n = 0 \/ pos[p] + n <= written[Peer(p)]
       /\ \E v \in Content(Peer(p), pos[p], n) : Received(p, v)
       /\ pos' = [pos EXCEPT ![p] = @ + n]
    /\ UNCHANGED <<inputVars, sender, sendBuffer, sig, stream, written, outVars>>

\* Receive returns 0, or an error, before the buffer is full; the caller
\* does not look and goes on with whatever the buffer holds.
ReceiveEof(p) ==
    /\ status[p] = "run" /\ phase[p] = "recv"
    /\ AtEof(p, RecvSize(p, step[p]))
    /\ \E v \in Unreceived(p, step[p]) : Received(p, v)
    /\ pos' = [pos EXCEPT ![p] = written[Peer(p)]]
    /\ UNCHANGED <<inputVars, sender, sendBuffer, sig, stream, written, outVars>>

\* The assertions of exchange_information on the three other values, which
\* are as unfilled as pneles.
InfoAssert(p) ==
    /\ At(p, Info, "recv")
    /\ AtEof(p, FixedSize(Info))
    /\ End(p, "dead")
    /\ UNCHANGED <<inputVars, sender, dataVars, netVars>>

\* Variant: the sender thread is detached, not joined.
JoinNot(p) ==
    /\ status[p] = "run" /\ phase[p] = "join"
    /\ \/ sender[p] \in {"running", "finished"} /\ GotoNext(p) /\ UNCHANGED outVars
       \/ sender[p] = "failed" /\ End(p, "dead")
    /\ UNCHANGED <<inputVars, sender, dataVars, netVars>>
\* pthread_join, and assert(created), which comes after Receive: a thread
\* that was not created ends the program only here.
Join(p) ==
    /\ status[p] = "run" /\ phase[p] = "join"
    /\ \/ sender[p] = "finished" /\ GotoNext(p) /\ UNCHANGED outVars
       \/ sender[p] = "failed" /\ End(p, "dead")
    /\ UNCHANGED <<inputVars, sender, dataVars, netVars>>

-----------------------------------------------------------------------------
(* The environment.                                                        *)

\* SIGPIPE: a send to a peer that is gone may kill the sender.
SigPipe(p) ==
    /\ status[p] = "run" /\ status[Peer(p)] # "run"
    /\ sender[p] = "running" \/ At(p, Info, "send")
    /\ End(p, "dead")
    /\ UNCHANGED <<inputVars, sender, dataVars, netVars>>

\* The process is killed.
Crash(p) ==
    /\ "crash" \in Faults
    /\ status[p] = "run"
    /\ End(p, "dead")
    /\ UNCHANGED <<inputVars, sender, dataVars, netVars>>

\* A process that ended without reading all it was sent resets the
\* connection: the peer loses what it has not consumed.
Reset(p) ==
    /\ status[p] # "run"
    /\ pos[p] < written[Peer(p)]
    /\ pos[Peer(p)] < written[p]
    /\ written' = [written EXCEPT ![p] = pos[Peer(p)]]
    /\ UNCHANGED <<inputVars, partyVars, sender, dataVars, stream, pos, outVars>>

\* Both programs have ended: nothing is left to do.
Terminating == (\A p \in Role : status[p] # "run") /\ UNCHANGED vars

Local(p) ==
    \/ ReadElements(p) \/ KeyGen(p) \/ MaskOwn(p) \/ Sign(p) \/ SendNext(p)
    \/ MaskPeer(p) \/ Verify(p)
    \/ p = CLIENT /\ FindIntersection
    \/ p = SERVER /\ Finish

Main(p) ==
    \/ Local(p) \/ SendInfo(p)
    \/ Receive(p) \/ ReceiveEof(p) \/ InfoAssert(p) \/ Join(p)

Next ==
    \/ \E p \in Role : Main(p) \/ ThreadSend(p)
    \/ \E p \in Role : SigPipe(p) \/ Crash(p) \/ Reset(p)
    \/ Terminating

\* The operating system runs every thread that can run; nothing forces a
\* fault, a signal or a reset.
Fairness == \A p \in Role : WF_vars(Main(p)) /\ WF_vars(ThreadSend(p))

Spec == Init /\ [][Next]_vars
FairSpec == Spec /\ Fairness

-----------------------------------------------------------------------------
(* Properties.                                                             *)

TypeOK ==
    /\ elements \in [Role -> Inputs]
    /\ randC \in [Role -> Scalar]
    /\ step \in [Role -> Read..Find]
    /\ phase \in [Role -> {"send", "recv", "join", "verify"}]
    /\ status \in [Role -> {"run", "done", "err", "dead"}]
    /\ sender \in [Role -> {"none", "running", "finished", "failed"}]
    /\ DOMAIN sendBuffer = Role /\ DOMAIN sig = Role /\ DOMAIN stream = Role
    /\ DOMAIN rcv = Role /\ \A p \in Role : DOMAIN rcv[p] = Net
    /\ written \in [Role -> Nat]
    /\ pos \in [Role -> Nat]
    /\ found \in Int
    /\ result \in [DOMAIN elements[CLIENT] -> Nat]

\* The elements the client prints, and those both files hold.
Answer == {elements[CLIENT][i] : i \in {k \in DOMAIN result : result[k] > 0}}
Intersection == Values(elements[CLIENT]) \cap Values(elements[SERVER])

\* The tag of an element under both scalars, and the elements that share it
\* with no other element of the two files.
FinalTag(e) == Tag(Mul(randC[SERVER], Mul(randC[CLIENT], HashPoint(e))))
Alike == {d \in Element \X Element : FinalTag(d[1]) = FinalTag(d[2])}
Alone(e) ==
    \A d \in Values(elements[CLIENT]) \cup Values(elements[SERVER]) :
        FinalTag(d) = FinalTag(e) => d = e

\* Both parties cut the byte stream in the same places: what a Receive is
\* about to consume is exactly one message of the peer.  The sizes come from
\* pneles, from the own count and from the order of the calls in the two
\* programs, and nothing on the wire marks where a message ends.
Framed ==
    \A p \in Role :
        LET n == RecvSize(p, step[p])
        IN  /\ status[p] = "run"
            /\ phase[p] = "recv"
            /\ pos[p] < written[Peer(p)]
            => n = 0 \/ \E g \in stream[Peer(p)] : g.from = pos[p] /\ g.len = n

\* What passed sm2_do_verify is what the peer masked, although no Receive is
\* checked and a dead peer leaves stale memory in the buffers.
Authentic ==
    \A p \in Role : status[p] \in {"run", "done"} =>
        /\ step[p] >= Pts2 => rcv[p][Pts] = Masked(Peer(p))
        /\ p = CLIENT /\ step[p] = Find =>
               rcv[p][Pts2] = [i \in DOMAIN elements[p] |->
                                   Mul(randC[SERVER], Masked(CLIENT)[i])]

\* A client whose dh_psi got to the end prints every element as often as the
\* server's file holds it, at its last position in the own file and nowhere
\* else: whatever happened to the peer, in whatever order the threads ran and
\* whatever other elements collide in the hash table, as long as this one
\* collides with none.
ExactResult ==
    status[CLIENT] = "done" =>
        \A i \in DOMAIN elements[CLIENT] : Alone(elements[CLIENT][i]) =>
            result[i] = Copies(elements[CLIENT], elements[SERVER])[i]

\* The number printed is never less than the number of lines of the server's
\* file that the client's file holds too, and it is that number when no two
\* elements of the two files collide.
CountExact ==
    status[CLIENT] = "done" =>
        LET common == Cardinality(Hits(elements[CLIENT], elements[SERVER]))
        IN  /\ found >= common
            /\ (\A p \in Role : \A e \in Values(elements[p]) : Alone(e))
               => found = common

\* A party that completed its dh_psi consumed everything it was sent.  So its
\* exit closes the connection without a reset, and the peer, which may still
\* be reading, loses nothing.
DoneQuiet ==
    \A p \in Role : status[p] = "done" => pos[p] >= written[Peer(p)]

\* A buffer is not changed, freed or reused while the sender thread that was
\* given a pointer to it may still read it.
BufferStable ==
    [][\A p \in Role : sender[p] = "running" /\ sender'[p] = "running" =>
           /\ step'[p] = step[p]
           /\ Outgoing(p, step[p])' = Outgoing(p, step[p])]_vars

\* Both programs end, even when one of them is killed or fails anywhere: the
\* survivor does not wait for octets that never come.  The one exception is
\* the run in which neither party could create its sender thread: both are
\* then in Receive, before assert(created), and wait for each other.
EndsOrHangs ==
    \/ \A p \in Role : <>(status[p] # "run")
    \/ <>[](\A p \in Role : sender[p] = "failed" /\ phase[p] = "recv")

\* Without faults, and with no two lines of the server's file alike in the
\* hash table, both programs complete.
Succeeds ==
    Distinct([j \in DOMAIN elements[SERVER] |-> FinalTag(elements[SERVER][j])])
    => <>(\A p \in Role : status[p] = "done")

\* psi_demo.cpp:70 says how many elements it found; a run that failed says 0.
ZeroMeansEmpty == found = 0 => Intersection = {}

\* helpers.h:90 asserts that the sender thread was created.
ThreadFailureStops == \A p \in Role : sender[p] = "failed" ~> status[p] = "dead"

\* The two programs implement the ideal exchange of PsiIdeal.
Ideal == INSTANCE PsiIdeal WITH
    own <- [p \in Role |-> Values(elements[p])],
    alike <- Alike,
    released <- step[SERVER] >= Pts2,
    outcome <- [p \in Role |-> IF status[p] \in {"err", "dead"} THEN "failed"
                                                               ELSE status[p]],
    answer <- Answer
Implements == Ideal!Spec
ImplementsFair == Ideal!FairSpec
=============================================================================
