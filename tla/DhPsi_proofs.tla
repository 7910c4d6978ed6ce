---------------------------- MODULE DhPsi_proofs ----------------------------
(***************************************************************************)
(* Machine-checked safety of DhPsi, for all inputs, all sets of faults and *)
(* every algebra that satisfies the assumptions of the module.             *)
(***************************************************************************)
EXTENDS DhPsiInv, FiniteSetTheorems, TLAPS

USE DEF SERVER, CLIENT, Role

LEMMA PeerFacts ==
    ASSUME NEW p \in Role
    PROVE  /\ Peer(p) \in Role /\ Peer(p) # p /\ Peer(Peer(p)) = p
           /\ \A q \in Role : q = p \/ q = Peer(p)
  BY DEF Peer

LEMMA NelesNat ==
    ASSUME TypeOK, NEW p \in Role
    PROVE  /\ elements[p] \in Seq(Element)
           /\ Neles(p) \in Nat
           /\ DOMAIN elements[p] = 1..Neles(p)
  BY InputsAssumption DEF TypeOK, Neles

\* How often something occurs in a list.
LEMMA OccursNat ==
    ASSUME NEW s, NEW n \in Nat, DOMAIN s = 1..n, NEW x
    PROVE  /\ Occurs(s, x) \in Nat
           /\ Occurs(s, x) > 0 <=> \E j \in DOMAIN s : s[j] = x
  <1> DEFINE S == {k \in DOMAIN s : s[k] = x}
  <1>1. IsFiniteSet(1..n) /\ S \in SUBSET (1..n)
    BY FS_Interval
  <1>2. IsFiniteSet(S)
    BY <1>1, FS_Subset
  <1>3. Occurs(s, x) = Cardinality(S)
    BY DEF Occurs
  <1>4. S = {} <=> ~ \E j \in DOMAIN s : s[j] = x
    OBVIOUS
  <1> HIDE DEF S
  <1>5. Cardinality(S) \in Nat /\ (Cardinality(S) = 0 <=> S = {})
    BY <1>2, FS_CardinalityType, FS_EmptySet
  <1> QED BY <1>3, <1>4, <1>5

LEMMA FixedNat == \A s \in Read..Find : Fixed(s) \in Nat
  BY DEF Fixed, Read, Info, Key, Pts, SigX, SigY, Uid, Pts2, SigX2, SigY2, Uid2, Find

LEMMA LastStep == \A p \in Role, s \in Read..Find : Last(p, s) \in Read..Find
  BY DEF Last, Read, Pts2, Find

LEMMA SizeNat ==
    ASSUME TypeOK, NEW p \in Role, NEW s \in Net
    PROVE  Size(p, s) \in Nat
  <1>1. Neles(p) \in Nat /\ Neles(Peer(p)) \in Nat
    BY NelesNat, PeerFacts
  <1> QED BY <1>1 DEF Size, FixedSize, Net, Info, Key, Pts, SigX, SigY, Uid, Pts2, SigX2, SigY2, Uid2

LEMMA OffsetNat ==
    ASSUME TypeOK, NEW p \in Role, NEW s \in Read..Find
    PROVE  Offset(p, s) \in Nat
  <1>1. Neles(p) \in Nat /\ Neles(Peer(p)) \in Nat
    BY NelesNat, PeerFacts
  <1> QED BY <1>1, FixedNat, LastStep DEF Offset, Pts, Pts2

LEMMA OffsetStep ==
    ASSUME TypeOK, NEW p \in Role, NEW s \in Net
    PROVE  Offset(p, s + 1) = Offset(p, s) + (IF Sends(p, s) THEN Size(p, s) ELSE 0)
  <1>1. Neles(p) \in Nat /\ Neles(Peer(p)) \in Nat
    BY NelesNat, PeerFacts
  <1> QED BY <1>1 DEF Offset, Fixed, Last, Sends, Size, FixedSize, Net, Read, Info, Key, Pts, SigX, SigY, Uid, Pts2, SigX2, SigY2, Uid2, Find

LEMMA OffsetMono ==
    ASSUME TypeOK, NEW p \in Role, NEW s \in Net, NEW r \in Read..Find, s < r
    PROVE  Offset(p, s + 1) <= Offset(p, r)
  <1>1. Neles(p) \in Nat /\ Neles(Peer(p)) \in Nat
    BY NelesNat, PeerFacts
  <1> QED BY <1>1 DEF Offset, Fixed, Last, Net, Read, Info, Key, Pts, SigX, SigY, Uid, Pts2, SigX2, SigY2, Uid2, Find

\* A message of some octets is the only one at its place.
LEMMA OffsetInjective ==
    ASSUME TypeOK, NEW p \in Role, NEW s \in Net, NEW r \in Net,
           Sends(p, s), Size(p, s) > 0, Sends(p, r), Size(p, r) > 0,
           Offset(p, s) = Offset(p, r)
    PROVE  s = r
  <1>1. /\ Offset(p, s + 1) = Offset(p, s) + Size(p, s)
        /\ Offset(p, r + 1) = Offset(p, r) + Size(p, r)
    BY OffsetStep
  <1>2. /\ s < r => Offset(p, s + 1) <= Offset(p, r)
        /\ r < s => Offset(p, r + 1) <= Offset(p, s)
    BY OffsetMono DEF Net, Read, Info, Uid2, Find
  <1>3. s \in Nat /\ r \in Nat /\ Offset(p, s) \in Nat /\ Offset(p, r) \in Nat
        /\ Size(p, s) \in Nat /\ Size(p, r) \in Nat
    BY SizeNat, OffsetNat DEF Net, Read, Info, Uid2, Find
  <1> QED BY <1>1, <1>2, <1>3

-----------------------------------------------------------------------------
(* What a step leaves alone.                                               *)

LEMMA RigidMasked ==
    ASSUME UNCHANGED inputVars, NEW p \in Role
    PROVE  /\ Masked(p)' = Masked(p)
           /\ Remasked(p)' = Remasked(p)
           /\ Neles(p)' = Neles(p)
           /\ \A m, s : Signed(p, m, s)' = Signed(p, m, s)
  BY DEF inputVars, Masked, Remasked, Neles, Signed

LEMMA Rigid ==
    ASSUME UNCHANGED inputVars, NEW p \in Role
    PROVE  \A s : /\ Msg(p, s)' = Msg(p, s)
                  /\ Size(p, s)' = Size(p, s)
                  /\ Offset(p, s)' = Offset(p, s)
                  /\ Segment(p, s)' = Segment(p, s)
                  /\ FixedSize(s)' = FixedSize(s)
                  /\ Sends(p, s)' = Sends(p, s)
                  /\ Receives(p, s)' = Receives(p, s)
  BY RigidMasked, PeerFacts DEF Msg, Size, Offset, Segment, Sends, Receives, FixedSize

\* The variables of p other than its status, which can only come to an end.
Own(p) == <<step[p], phase[p], sender[p], sendBuffer[p], sig[p], rcv[p], pos[p], stream[p]>>

\* A step in which party p does nothing, or just ends, keeps what the invariant
\* says of p, whatever the peer does.
LEMMA Idle ==
    ASSUME TypeOK, UNCHANGED inputVars, NEW p \in Role,
           StreamInv(p), ControlInv(p), BufferInv(p), ReceiveInv(p),
           UNCHANGED Own(p),
           status'[p] = status[p] \/ status'[p] \in {"err", "dead"},
           written'[p] = written[p] \/ (written'[p] <= written[p] /\ status'[p] # "run"),
           pos[p] <= written'[Peer(p)],
           status[Peer(p)] # "run" =>
               status'[Peer(p)] # "run" /\ written'[Peer(p)] <= written[Peer(p)],
           written' \in [Role -> Nat], pos \in [Role -> Nat]
    PROVE  StreamInv(p)' /\ ControlInv(p)' /\ BufferInv(p)' /\ ReceiveInv(p)'
  <1>0. Peer(p) \in Role
    BY PeerFacts
  <1>1. StreamInv(p)'
    <2>1. \A s \in Net : Offset(p, s) \in Nat /\ Size(p, s) \in Nat
      BY OffsetNat, SizeNat DEF Net, Read, Info, Uid2, Find
    <2>2. written[p] \in Nat /\ written'[p] \in Nat /\ written'[p] <= written[p]
      BY DEF TypeOK
    <2>3. (\A g \in stream[p] : \E s \in Net :
             Sends(p, s) /\ Size(p, s) > 0 /\ g = Segment(p, s))'
      BY Rigid DEF StreamInv, Own
    <2>4. (\A s \in Net :
             Sends(p, s) /\ Size(p, s) > 0 /\ Offset(p, s) + Size(p, s) <= written[p]
             => Segment(p, s) \in stream[p])'
      BY <2>1, <2>2, Rigid DEF StreamInv, Own
    <2>5. (written[p] <= Offset(p, Find))'
      BY <2>2, OffsetNat, Rigid DEF StreamInv, Read, Find
    <2>6. (status[p] = "run" => written[p] = Offset(p, NextSent(p)))'
      BY Rigid DEF StreamInv, Own, NextSent
    <2> QED BY <2>3, <2>4, <2>5, <2>6 DEF StreamInv
  <1>2. ControlInv(p)'
    BY Rigid DEF ControlInv, Own
  <1>3. BufferInv(p)'
    BY Rigid, RigidMasked DEF BufferInv, Own
  <1>4. ReceiveInv(p)'
    <2>1. NextReceived(p)' = NextReceived(p)
      BY DEF NextReceived, Own
    <2>2. \A s : GotAll(p, s)' = GotAll(p, s)
      BY <1>0, Rigid DEF GotAll, Own
    <2>3. Good(p)' = Good(p)
      BY <1>0, <2>1, <2>2, Rigid DEF Good, Own
    <2>4. \A e : BadSince(p, e)' = BadSince(p, e)
      BY <2>1, <2>2, Rigid DEF BadSince, Own
    <2>5. Bad(p) => Bad(p)'
      BY <1>0, <2>4 DEF Bad, Own, TypeOK
    <2>6. written[Peer(p)] \in Nat /\ written'[Peer(p)] \in Nat /\ pos[p] \in Nat
      BY <1>0 DEF TypeOK
    <2>7. Offset(Peer(p), Find) \in Nat
      BY <1>0, OffsetNat DEF Read, Find
    <2>8. (pos[p] <= written[Peer(p)])'
      BY DEF Own
    <2>9. (status[p] = "run" => /\ Good(p) \/ Bad(p)
                                /\ NextReceived(p) > Info => rcv[p][Info] \in Nat)'
      BY <2>1, <2>3, <2>5 DEF ReceiveInv, Own
    <2>10. (status[p] \in {"run", "done"} =>
              /\ step[p] >= Pts2 => GotAll(p, Pts2)
              /\ step[p] = Find => GotAll(p, Find))'
      BY <2>2 DEF ReceiveInv, Own
    <2>11. (status[p] = "done" =>
              /\ step[p] = Find
              /\ \/ pos[p] >= Offset(Peer(p), Find)
                 \/ status[Peer(p)] # "run" /\ pos[p] >= written[Peer(p)])'
      BY <1>0, <2>6, <2>7, Rigid DEF ReceiveInv, Own
    <2> QED BY <2>8, <2>9, <2>10, <2>11 DEF ReceiveInv
  <1> QED BY <1>1, <1>2, <1>3, <1>4

LEMMA PeerIdle ==
    ASSUME IInv, TypeOK', UNCHANGED inputVars, NEW p \in Role,
           status[p] = "run", written[p] <= written'[p],
           UNCHANGED Own(Peer(p)),
           status'[Peer(p)] = status[Peer(p)],
           written'[Peer(p)] = written[Peer(p)]
    PROVE  PartyInv(Peer(p))'
  <1> DEFINE q == Peer(p)
  <1>1. q \in Role /\ Peer(q) = p
    BY PeerFacts
  <1>2. TypeOK /\ StreamInv(q) /\ ControlInv(q) /\ BufferInv(q) /\ ReceiveInv(q)
    BY <1>1 DEF IInv, PartyInv
  <1>3. pos[q] <= written'[p]
    <2>1. pos[q] \in Nat /\ written[p] \in Nat /\ written'[p] \in Nat
      BY <1>1, <1>2 DEF TypeOK
    <2>2. pos[q] <= written[p]
      BY <1>1, <1>2 DEF ReceiveInv
    <2> QED BY <2>1, <2>2
  <1>4. written' \in [Role -> Nat] /\ pos \in [Role -> Nat]
    BY <1>2 DEF TypeOK
  <1> HIDE DEF q
  <1>5. UNCHANGED Own(q) /\ status'[q] = status[q] /\ written'[q] = written[q]
    BY DEF q
  <1>6. StreamInv(q)' /\ ControlInv(q)' /\ BufferInv(q)' /\ ReceiveInv(q)'
    BY <1>1, <1>2, <1>3, <1>4, <1>5, Idle
  <1> QED BY <1>6 DEF PartyInv, q

LEMMA ResultSame ==
    ASSUME ResultInv, UNCHANGED inputVars, result' = result,
           status'[CLIENT] = "done" => status[CLIENT] = "done"
    PROVE  ResultInv'
  <1>1. Remasked(SERVER)' = Remasked(SERVER) /\ Remasked(CLIENT)' = Remasked(CLIENT)
    BY RigidMasked
  <1> QED BY <1>1 DEF ResultInv

LEMMA Assemble ==
    ASSUME NEW p \in Role, TypeOK', PartyInv(p)', PartyInv(Peer(p))', ResultInv'
    PROVE  IInv'
  BY PeerFacts DEF IInv

-----------------------------------------------------------------------------
(* Ending.                                                                 *)

LEMMA EndStep ==
    ASSUME IInv, NEW p \in Role, NEW st \in {"err", "dead"},
           status[p] = "run", End(p, st),
           UNCHANGED <<inputVars, sender, dataVars, netVars>>
    PROVE  IInv'
  <1>1. TypeOK /\ PartyInv(p) /\ ResultInv
    BY DEF IInv
  <1>2. TypeOK'
    BY <1>1 DEF TypeOK, End, inputVars, netVars, dataVars
  <1>3. /\ status'[p] \in {"err", "dead"}
        /\ status'[Peer(p)] = status[Peer(p)]
        /\ Peer(p) \in Role
    BY <1>1, PeerFacts DEF End, TypeOK
  <1>4. PartyInv(p)'
    <2>1. UNCHANGED Own(p) /\ written' = written /\ UNCHANGED inputVars
      BY DEF Own, End, netVars, dataVars
    <2>2. StreamInv(p) /\ ControlInv(p) /\ BufferInv(p) /\ ReceiveInv(p)
      BY <1>1 DEF PartyInv
    <2>3. pos[p] <= written'[Peer(p)] /\ written'[Peer(p)] <= written[Peer(p)]
      BY <1>1, <1>3, <2>1, <2>2 DEF ReceiveInv, TypeOK
    <2>4. written' \in [Role -> Nat] /\ pos \in [Role -> Nat]
      BY <1>1, <2>1 DEF TypeOK
    <2>5. StreamInv(p)' /\ ControlInv(p)' /\ BufferInv(p)' /\ ReceiveInv(p)'
      BY <1>1, <1>3, <2>1, <2>2, <2>3, <2>4, Idle
    <2> QED BY <2>5 DEF PartyInv
  <1>5. PartyInv(Peer(p))'
    <2>1. UNCHANGED Own(Peer(p)) /\ written' = written /\ UNCHANGED inputVars
      BY DEF Own, End, netVars, dataVars
    <2>2. written[p] <= written'[p]
      BY <1>1, <2>1 DEF TypeOK
    <2> QED BY <1>2, <1>3, <2>1, <2>2, PeerIdle
  <1>6. ResultInv'
    BY <1>1, <1>3, ResultSame DEF End, TypeOK
  <1> QED BY <1>2, <1>4, <1>5, <1>6, Assemble

-----------------------------------------------------------------------------
(* Steps of a party that neither write nor read the stream.                *)

\* Such a step keeps the invariant if it skips no message and keeps the
\* control and buffer parts.
LEMMA MoveStep ==
    ASSUME IInv, NEW p \in Role, status[p] = "run",
           UNCHANGED <<inputVars, netVars, rcv>>,
           status'[p] = "run" \/ (status'[p] = "done" /\ step'[p] = Find),
           status'[Peer(p)] = status[Peer(p)],
           UNCHANGED Own(Peer(p)),
           TypeOK', ControlInv(p)', BufferInv(p)', ResultInv',
           Offset(p, NextSent(p)') = Offset(p, NextSent(p)),
           Offset(Peer(p), NextReceived(p)') = Offset(Peer(p), NextReceived(p)),
           NextReceived(p) \in Nat, NextReceived(p)' \in Nat,
           NextReceived(p) <= NextReceived(p)',
           \A r \in Net : NextReceived(p) <= r /\ r < NextReceived(p)' => ~Receives(p, r),
           step'[p] >= Pts2 => GotAll(p, Pts2),
           step'[p] = Find => GotAll(p, Find),
           NextReceived(p)' > Info => NextReceived(p) > Info,
           status'[p] = "done" => \/ pos[p] >= Offset(Peer(p), Find)
                                  \/ /\ status[Peer(p)] # "run"
                                     /\ pos[p] >= written[Peer(p)]
    PROVE  IInv'
  <1>1. TypeOK /\ PartyInv(p) /\ ResultInv
    BY DEF IInv
  <1>2. Peer(p) \in Role
    BY PeerFacts
  <1>3. \A s : Offset(p, s)' = Offset(p, s) /\ Offset(Peer(p), s)' = Offset(Peer(p), s)
    BY <1>2, Rigid
  <1>4. StreamInv(p)'
    <2>1. StreamInv(p) /\ stream' = stream /\ written' = written
      BY <1>1 DEF PartyInv, netVars
    <2>2. (\A g \in stream[p] : \E s \in Net :
             Sends(p, s) /\ Size(p, s) > 0 /\ g = Segment(p, s))'
      BY <2>1, Rigid DEF StreamInv
    <2>3. (\A s \in Net :
             Sends(p, s) /\ Size(p, s) > 0 /\ Offset(p, s) + Size(p, s) <= written[p]
             => Segment(p, s) \in stream[p])'
      BY <2>1, Rigid DEF StreamInv
    <2>4. (written[p] <= Offset(p, Find))'
      BY <2>1, Rigid DEF StreamInv
    <2>5. (status[p] = "run" => written[p] = Offset(p, NextSent(p)))'
      BY <2>1, Rigid DEF StreamInv
    <2> QED BY <2>2, <2>3, <2>4, <2>5 DEF StreamInv
  <1>5. ReceiveInv(p)'
    <2>1. ReceiveInv(p) /\ pos' = pos /\ written' = written /\ rcv' = rcv
      BY <1>1 DEF PartyInv, netVars
    <2>2. \A s : GotAll(p, s)' = GotAll(p, s)
      BY <1>2, <2>1, Rigid DEF GotAll
    <2>3. GotAll(p, NextReceived(p)) => GotAll(p, NextReceived(p)')
      BY DEF GotAll, Net, Info, Uid2
    <2>4. Good(p) => Good(p)'
      BY <1>2, <1>3, <2>1, <2>2, <2>3 DEF Good
    <2>5. \A e \in Net : BadSince(p, e) => BadSince(p, e)'
      <3> TAKE e \in Net
      <3> HAVE BadSince(p, e)
      <3>1. e < NextReceived(p)'
        BY DEF BadSince, Net, Info, Uid2
      <3>2. \A r \in {SigX, SigY, SigX2, SigY2} :
               e <= r /\ r < NextReceived(p)' /\ Receives(p, r) => rcv'[p][r] = Junk
        <4> TAKE r \in {SigX, SigY, SigX2, SigY2}
        <4>1. r \in Net /\ r \in Nat
          BY DEF SigX, SigY, SigX2, SigY2, Net, Info, Uid2
        <4> QED BY <4>1, <2>1 DEF BadSince
      <3> QED BY <2>1, <2>2, <3>1, <3>2, Rigid DEF BadSince
    <2>6. Bad(p) => Bad(p)'
      BY <1>2, <2>1, <2>5 DEF Bad
    <2>7. Good(p) \/ Bad(p)
      BY <2>1 DEF ReceiveInv
    <2>8. (pos[p] <= written[Peer(p)])'
      BY <2>1 DEF ReceiveInv
    <2>9. NextReceived(p)' > Info => rcv'[p][Info] \in Nat
      BY <2>1 DEF ReceiveInv
    <2>10. (status[p] \in {"run", "done"} =>
              /\ step[p] >= Pts2 => GotAll(p, Pts2)
              /\ step[p] = Find => GotAll(p, Find))'
      BY <2>2
    <2>11. (status[p] = "done" =>
              /\ step[p] = Find
              /\ \/ pos[p] >= Offset(Peer(p), Find)
                 \/ status[Peer(p)] # "run" /\ pos[p] >= written[Peer(p)])'
      BY <1>3, <2>1
    <2> QED BY <2>4, <2>6, <2>7, <2>8, <2>9, <2>10, <2>11 DEF ReceiveInv
  <1>6. PartyInv(p)'
    BY <1>4, <1>5 DEF PartyInv
  <1>7. PartyInv(Peer(p))'
    <2>1. written' = written /\ UNCHANGED inputVars
      BY DEF netVars
    <2>2. written[p] <= written'[p]
      BY <1>1, <2>1 DEF TypeOK
    <2> QED BY <2>1, <2>2, PeerIdle
  <1> QED BY <1>6, <1>7, Assemble

LEMMA StepNumbers ==
    /\ Read = 0 /\ Info = 1 /\ Key = 2 /\ Pts = 3 /\ SigX = 4 /\ SigY = 5 /\ Uid = 6
    /\ Pts2 = 7 /\ SigX2 = 8 /\ SigY2 = 9 /\ Uid2 = 10 /\ Find = 11 /\ Net = 1..10
  BY DEF Read, Info, Key, Pts, SigX, SigY, Uid, Pts2, SigX2, SigY2, Uid2, Find, Net

LEMMA GotoFacts ==
    ASSUME TypeOK, NEW p \in Role, NEW s \in Read..Find,
           NEW ph \in {"send", "recv", "join", "verify"}, Goto(p, s, ph)
    PROVE  /\ step'[p] = s /\ phase'[p] = ph /\ status' = status
           /\ step'[Peer(p)] = step[Peer(p)] /\ phase'[Peer(p)] = phase[Peer(p)]
           /\ step' \in [Role -> Read..Find]
           /\ phase' \in [Role -> {"send", "recv", "join", "verify"}]
  BY PeerFacts DEF TypeOK, Goto

\* Starting an exchange: snd_and_rcv up to its blocking call.
LEMMA StartFacts ==
    ASSUME IInv, NEW p \in Role, NEW s \in Key..Uid2, At(p, s, "send"), StartTransfer(p)
    PROVE  /\ step'[p] = s /\ status' = status
           /\ phase'[p] = IF Receives(p, s) THEN "recv" ELSE "join"
           /\ IF Sends(p, s) THEN sender'[p] \in {"running", "failed"}
                             ELSE sender'[p] = sender[p]
           /\ step'[Peer(p)] = step[Peer(p)] /\ phase'[Peer(p)] = phase[Peer(p)]
           /\ sender'[Peer(p)] = sender[Peer(p)]
           /\ step' \in [Role -> Read..Find]
           /\ phase' \in [Role -> {"send", "recv", "join", "verify"}]
           /\ sender' \in [Role -> {"none", "running", "finished", "failed"}]
  <1>1. TypeOK /\ s \in Read..Find /\ step[p] = s
    BY StepNumbers DEF IInv, At
  <1>2. CASE Sends(p, s)
    <2>1. Goto(p, s, IF Receives(p, s) THEN "recv" ELSE "join")
      BY <1>1, <1>2 DEF StartTransfer
    <2>2. /\ sender'[p] \in {"running", "failed"} /\ sender'[Peer(p)] = sender[Peer(p)]
          /\ sender' \in [Role -> {"none", "running", "finished", "failed"}]
      BY <1>1, <1>2, PeerFacts DEF StartTransfer, TypeOK
    <2> QED BY <1>1, <1>2, <2>1, <2>2, GotoFacts
  <1>3. CASE ~Sends(p, s)
    <2>1. Receives(p, s)
      BY <1>3, StepNumbers DEF Sends, Receives
    <2>2. Goto(p, s, "recv") /\ sender' = sender
      BY <1>1, <1>3 DEF StartTransfer
    <2> QED BY <1>1, <1>3, <2>1, <2>2, GotoFacts DEF TypeOK
  <1> QED BY <1>2, <1>3

LEMMA StartStep ==
    ASSUME IInv, NEW p \in Role, NEW s \in Key..Uid2, At(p, s, "send"),
           StartTransfer(p),
           UNCHANGED <<inputVars, netVars, rcv, outVars>>,
           DOMAIN sendBuffer' = Role, DOMAIN sig' = Role,
           sendBuffer'[Peer(p)] = sendBuffer[Peer(p)], sig'[Peer(p)] = sig[Peer(p)],
           BufferInv(p)'
    PROVE  IInv'
  <1>1. TypeOK /\ PartyInv(p) /\ ResultInv /\ Peer(p) \in Role
    BY PeerFacts DEF IInv
  <1>2. ReceiveInv(p) /\ ControlInv(p)
    BY <1>1 DEF PartyInv
  <1>3. status[p] = "run" /\ step[p] = s /\ phase[p] = "send"
    BY DEF At
  <1>4. TypeOK'
    BY <1>1, StartFacts DEF TypeOK, inputVars, netVars, outVars
  <1>5. ControlInv(p)'
    BY <1>2, <1>3, StartFacts, StepNumbers DEF ControlInv, Sends, Receives
  <1>6. ResultInv'
    BY <1>1, StartFacts, ResultSame DEF outVars
  <1>7. Offset(p, NextSent(p)') = Offset(p, NextSent(p))
    <2>1. NextSent(p) = s
      BY <1>3 DEF NextSent
    <2>2. CASE Sends(p, s)
      <3>1. NextSent(p)' = s
        BY <2>2, StartFacts, StepNumbers DEF NextSent
      <3> QED BY <2>1, <3>1
    <2>3. CASE ~Sends(p, s)
      <3>1. NextSent(p)' \in {s, s + 1}
        BY StartFacts DEF NextSent
      <3>2. s \in Net
        BY StepNumbers
      <3>3. Offset(p, s + 1) = Offset(p, s)
        BY <1>1, <2>3, <3>2, OffsetStep, OffsetNat, StepNumbers
      <3> QED BY <2>1, <3>1, <3>3
    <2> QED BY <2>2, <2>3
  <1>8. /\ NextReceived(p) = s
        /\ NextReceived(p)' = IF Receives(p, s) THEN s ELSE s + 1
    BY <1>3, StartFacts DEF NextReceived
  <1>9. Offset(Peer(p), NextReceived(p)') = Offset(Peer(p), NextReceived(p))
    <2>1. Receives(p, s) \/ ~Sends(Peer(p), s)
      BY StepNumbers DEF Sends, Receives, Peer
    <2>2. s \in Net
      BY StepNumbers
    <2>3. ~Sends(Peer(p), s) => Offset(Peer(p), s + 1) = Offset(Peer(p), s)
      BY <1>1, <2>2, OffsetStep, OffsetNat, StepNumbers
    <2> QED BY <1>8, <2>1, <2>3
  <1>10. \A r \in Net : NextReceived(p) <= r /\ r < NextReceived(p)' => ~Receives(p, r)
    BY <1>8, StepNumbers
  <1>11. /\ NextReceived(p) \in Nat /\ NextReceived(p)' \in Nat
         /\ NextReceived(p) <= NextReceived(p)' /\ NextReceived(p) > Info
    BY <1>8, StepNumbers
  <1>12. /\ step'[p] >= Pts2 => GotAll(p, Pts2)
         /\ step'[p] = Find => GotAll(p, Find)
    BY <1>2, <1>3, StartFacts DEF ReceiveInv
  <1>13. UNCHANGED Own(Peer(p))
    BY StartFacts DEF Own, netVars
  <1>14. status'[p] = "run" /\ status'[Peer(p)] = status[Peer(p)]
    BY <1>3, StartFacts
  <1>15. UNCHANGED <<inputVars, netVars, rcv, result>>
    BY DEF outVars
  <1> QED BY <1>1, <1>3, <1>4, <1>5, <1>6, <1>7, <1>9, <1>10, <1>11, <1>12, <1>13,
             <1>14, <1>15, MoveStep

LEMMA KeyGenStep ==
    ASSUME IInv, NEW p \in Role, KeyGen(p)
    PROVE  IInv'
  <1>1. Key \in Key..Uid2 /\ At(p, Key, "send") /\ TypeOK /\ Peer(p) \in Role
    BY StepNumbers, PeerFacts DEF KeyGen, IInv
  <1>2. CASE StartTransfer(p) /\ UNCHANGED outVars
    <2>1. UNCHANGED <<inputVars, netVars, rcv, sendBuffer, sig>>
      BY DEF KeyGen, dataVars
    <2>2. BufferInv(p)'
      BY <1>1, <1>2, StartFacts, StepNumbers DEF BufferInv
    <2> QED BY <1>1, <1>2, <2>1, <2>2, StartStep DEF TypeOK
  <1>3. CASE End(p, "err") /\ UNCHANGED sender
    BY <1>1, <1>3, EndStep DEF KeyGen, At
  <1> QED BY <1>2, <1>3 DEF KeyGen

LEMMA MaskOwnStep ==
    ASSUME IInv, NEW p \in Role, MaskOwn(p)
    PROVE  IInv'
  <1>1. Pts \in Key..Uid2 /\ At(p, Pts, "send") /\ TypeOK /\ Peer(p) \in Role /\ Peer(p) # p
    BY StepNumbers, PeerFacts DEF MaskOwn, IInv
  <1>2. /\ DOMAIN sendBuffer' = Role /\ sendBuffer'[Peer(p)] = sendBuffer[Peer(p)]
        /\ sendBuffer'[p] = Masked(p)
        /\ UNCHANGED <<inputVars, netVars, rcv, outVars, sig>>
    BY <1>1 DEF MaskOwn, TypeOK
  <1>3. BufferInv(p)'
    BY <1>1, <1>2, StartFacts, StepNumbers, RigidMasked DEF BufferInv, MaskOwn
  <1> QED BY <1>1, <1>2, <1>3, StartStep DEF MaskOwn, TypeOK

LEMMA SignStep ==
    ASSUME IInv, NEW p \in Role, Sign(p)
    PROVE  IInv'
  <1>1. TypeOK /\ Peer(p) \in Role /\ Peer(p) # p /\ BufferInv(p)
    BY PeerFacts DEF IInv, PartyInv
  <1>2. PICK s \in {SigX, SigX2} : At(p, s, "send")
    BY DEF Sign
  <1>3. s \in Key..Uid2 /\ step[p] = s /\ phase[p] = "send" /\ status[p] = "run"
    BY <1>2, StepNumbers DEF At
  <1>4. CASE sig' = [sig EXCEPT ![p] = SignatureOf(p)] /\ StartTransfer(p) /\ UNCHANGED outVars
    <2>1. /\ DOMAIN sig' = Role /\ sig'[Peer(p)] = sig[Peer(p)]
          /\ sig'[p] = Signed(p, sendBuffer[p], s)
          /\ UNCHANGED <<inputVars, netVars, rcv, sendBuffer>>
      BY <1>1, <1>3, <1>4 DEF Sign, TypeOK, SignatureOf, Signed
    <2>2. /\ s = SigX => sendBuffer[p] = Masked(p)
          /\ s = SigX2 => sendBuffer[p] = Remasked(p)
      BY <1>1, <1>3, StepNumbers DEF BufferInv
    <2>3. sig'[p] = Msg(p, s)
      BY <1>2, <2>1, <2>2, StepNumbers DEF Msg
    <2>4. step'[p] = s
      BY <1>2, <1>3, <1>4, StartFacts
    <2>5. sig'[p] = Msg(p, s)'
      BY <2>1, <2>3, Rigid
    <2>6. BufferInv(p)'
      <3>1. CASE s = SigX
        BY <2>1, <2>2, <2>4, <2>5, <3>1, RigidMasked, StepNumbers DEF BufferInv
      <3>2. CASE s = SigX2
        BY <2>1, <2>2, <2>4, <2>5, <3>2, RigidMasked, StepNumbers DEF BufferInv
      <3> QED BY <1>2, <3>1, <3>2
    <2> QED BY <1>1, <1>2, <1>3, <1>4, <2>1, <2>6, StartStep DEF TypeOK
  <1>5. CASE End(p, "err") /\ UNCHANGED <<sender, sig>>
    BY <1>3, <1>5, EndStep DEF Sign, dataVars
  <1> QED BY <1>4, <1>5 DEF Sign

LEMMA SendNextStep ==
    ASSUME IInv, NEW p \in Role, SendNext(p)
    PROVE  IInv'
  <1>1. TypeOK /\ Peer(p) \in Role /\ BufferInv(p)
    BY PeerFacts DEF IInv, PartyInv
  <1>2. PICK s \in {SigY, Uid, SigY2, Uid2} : At(p, s, "send")
    BY DEF SendNext
  <1>3. s \in Key..Uid2 /\ step[p] = s /\ phase[p] = "send"
    BY <1>2, StepNumbers DEF At
  <1>4. UNCHANGED <<inputVars, netVars, rcv, sendBuffer, sig, outVars>> /\ StartTransfer(p)
    BY DEF SendNext, dataVars
  <1>5. step'[p] = s
    BY <1>2, <1>3, <1>4, StartFacts
  <1>6. BufferInv(p)'
    <2>1. /\ s \in {SigY, Uid} => sendBuffer[p] = Masked(p) /\ sig[p] = Msg(p, SigX)
          /\ s \in {SigY2, Uid2} => sendBuffer[p] = Remasked(p) /\ sig[p] = Msg(p, SigX2)
      BY <1>1, <1>3, StepNumbers DEF BufferInv
    <2> QED BY <1>2, <1>4, <1>5, <2>1, Rigid, RigidMasked, StepNumbers DEF BufferInv
  <1> QED BY <1>1, <1>2, <1>3, <1>4, <1>6, StartStep DEF TypeOK

LEMMA MaskPeerStep ==
    ASSUME IInv, NEW p \in Role, MaskPeer(p)
    PROVE  IInv'
  <1>1. /\ TypeOK /\ Peer(p) \in Role /\ Peer(p) # p /\ ReceiveInv(p) /\ BufferInv(p)
        /\ Pts2 \in Key..Uid2 /\ At(p, Pts2, "send")
    BY StepNumbers, PeerFacts DEF MaskPeer, IInv, PartyInv
  <1>2. rcv[p][Pts] = Masked(Peer(p))
    <2>1. GotAll(p, Pts2)
      BY <1>1, StepNumbers DEF ReceiveInv, At
    <2> QED BY <2>1, StepNumbers DEF GotAll, Receives, Msg
  <1>3. MaskAgain(p) = Remasked(p)
    BY <1>2 DEF MaskAgain, Remasked, Masked
  <1>4. /\ DOMAIN sendBuffer' = Role /\ sendBuffer'[Peer(p)] = sendBuffer[Peer(p)]
        /\ sendBuffer'[p] = Remasked(p)
        /\ UNCHANGED <<inputVars, netVars, rcv, outVars, sig>> /\ StartTransfer(p)
    BY <1>1, <1>3 DEF MaskPeer, TypeOK
  <1>5. step'[p] = Pts2
    BY <1>1, <1>4, StartFacts
  <1>6. BufferInv(p)'
    BY <1>4, <1>5, StepNumbers, RigidMasked DEF BufferInv
  <1> QED BY <1>1, <1>4, <1>6, StartStep DEF TypeOK

LEMMA ReadElementsStep ==
    ASSUME IInv, NEW p \in Role, ReadElements(p)
    PROVE  IInv'
  <1>1. /\ TypeOK /\ Peer(p) \in Role /\ ControlInv(p) /\ ResultInv
        /\ step[p] = Read /\ phase[p] = "send" /\ status[p] = "run"
        /\ UNCHANGED <<inputVars, sender, dataVars, netVars>>
    BY PeerFacts DEF IInv, PartyInv, ReadElements, At
  <1>2. CASE Goto(p, Info, "send") /\ UNCHANGED outVars
    <2>1. /\ step'[p] = Info /\ phase'[p] = "send" /\ status' = status
          /\ step'[Peer(p)] = step[Peer(p)] /\ phase'[Peer(p)] = phase[Peer(p)]
          /\ step' \in [Role -> Read..Find]
          /\ phase' \in [Role -> {"send", "recv", "join", "verify"}]
      BY <1>1, <1>2, GotoFacts, StepNumbers
    <2>2. TypeOK'
      BY <1>1, <1>2, <2>1 DEF TypeOK, inputVars, netVars, outVars, dataVars
    <2>3. ControlInv(p)'
      BY <1>1, <2>1, StepNumbers DEF ControlInv
    <2>4. BufferInv(p)'
      BY <2>1, StepNumbers DEF BufferInv
    <2>5. ResultInv'
      BY <1>1, <1>2, <2>1, ResultSame DEF outVars
    <2>6. /\ NextSent(p) = 0 /\ NextSent(p)' = 1
          /\ NextReceived(p) = 0 /\ NextReceived(p)' = 1
      BY <1>1, <2>1, StepNumbers DEF NextSent, NextReceived
    <2>7. Offset(p, 0) = Offset(p, 1) /\ Offset(Peer(p), 0) = Offset(Peer(p), 1)
      BY StepNumbers DEF Offset, Last, Fixed
    <2>8. /\ \A r \in Net : NextReceived(p) <= r /\ r < NextReceived(p)' => ~Receives(p, r)
          /\ step'[p] >= Pts2 => GotAll(p, Pts2)
          /\ step'[p] = Find => GotAll(p, Find)
          /\ NextReceived(p)' > Info => NextReceived(p) > Info
      BY <2>1, <2>6, StepNumbers
    <2>9. UNCHANGED Own(Peer(p)) /\ UNCHANGED <<inputVars, netVars, rcv, result>>
      BY <1>1, <1>2, <2>1 DEF Own, netVars, dataVars, outVars
    <2>10. status'[p] = "run" /\ status'[Peer(p)] = status[Peer(p)]
      BY <1>1, <2>1
    <2>11. 0 \in Nat /\ 1 \in Nat /\ 0 <= 1
      OBVIOUS
    <2> QED BY <1>1, <2>2, <2>3, <2>4, <2>5, <2>6, <2>7, <2>8, <2>9, <2>10, <2>11, MoveStep
  <1>3. CASE End(p, "dead")
    BY <1>1, <1>3, EndStep
  <1> QED BY <1>2, <1>3 DEF ReadElements

\* A signature that verifies was received whole, and so was everything before.
LEMMA ValidGotAll ==
    ASSUME IInv, NEW p \in Role, status[p] = "run", phase[p] = "verify",
           Receives(p, step[p]), Valid(p)
    PROVE  GotAll(p, step[p] + 1)
  <1> DEFINE s == step[p]
             q == Peer(p)
  <1>1. s \in {Uid, Uid2} /\ s \in Read..Find
    BY DEF IInv, PartyInv, ControlInv, TypeOK
  <1>2. NextReceived(p) = s + 1
    BY DEF NextReceived
  <1>3. Good(p) \/ Bad(p)
    BY DEF IInv, PartyInv, ReceiveInv
  <1>4. CASE Good(p)
    BY <1>2, <1>4 DEF Good
  <1>5. CASE Bad(p)
    <2>1. PICK e \in Net : BadSince(p, e)
      BY <1>5 DEF Bad
    <2>2. rcv[p][s - 2] # Junk /\ rcv[p][s - 1] # Junk
      BY DEF Valid
    <2>3. /\ s - 2 \in {SigX, SigX2} /\ s - 1 \in {SigY, SigY2}
          /\ s - 2 \in Net /\ s - 1 \in Net
          /\ Receives(p, s - 2) /\ Receives(p, s - 1)
      BY <1>1, StepNumbers DEF Receives
    <2>4. e \in Nat /\ ~(e <= s - 2) /\ ~(e <= s - 1)
      BY <1>1, <1>2, <2>1, <2>2, <2>3, StepNumbers DEF BadSince
    <2>5. e = s
      BY <1>1, <1>2, <2>1, <2>4, StepNumbers DEF BadSince
    <2>6. GotAll(p, s)
      BY <2>1, <2>5 DEF BadSince
    <2>7. rcv[p][s - 2] = Msg(q, s - 2)
      BY <1>1, <2>3, <2>6, StepNumbers DEF GotAll
    <2>8. Msg(q, s - 2).uid = UserId[q]
      BY <1>1, StepNumbers DEF Msg, Signed
    <2>9. rcv[p][s] = Msg(q, s)
      BY <1>1, <2>7, <2>8, StepNumbers DEF Valid, Msg
    <2> QED BY <1>1, <2>6, <2>9, StepNumbers DEF GotAll
  <1> QED BY <1>3, <1>4, <1>5

LEMMA VerifyStep ==
    ASSUME IInv, NEW p \in Role, Verify(p)
    PROVE  IInv'
  <1> DEFINE s == step[p]
  <1>1. /\ TypeOK /\ Peer(p) \in Role /\ ResultInv
        /\ ControlInv(p) /\ BufferInv(p) /\ ReceiveInv(p)
        /\ phase[p] = "verify" /\ status[p] = "run"
        /\ UNCHANGED <<inputVars, sender, dataVars, netVars>>
    BY PeerFacts DEF IInv, PartyInv, Verify
  <1>2. s \in {Uid, Uid2}
    BY <1>1 DEF ControlInv
  <1>3. CASE /\ Valid(p) \/ (p = SERVER /\ s = Uid2)
             /\ Goto(p, s + 1, "send")
             /\ UNCHANGED outVars
    <2>1. /\ step'[p] = s + 1 /\ phase'[p] = "send" /\ status' = status
          /\ step'[Peer(p)] = step[Peer(p)] /\ phase'[Peer(p)] = phase[Peer(p)]
          /\ step' \in [Role -> Read..Find]
          /\ phase' \in [Role -> {"send", "recv", "join", "verify"}]
      BY <1>1, <1>2, <1>3, GotoFacts, StepNumbers
    <2>2. TypeOK'
      BY <1>1, <1>3, <2>1 DEF TypeOK, inputVars, netVars, outVars, dataVars
    <2>3. ControlInv(p)'
      BY <1>1, <1>2, <2>1, StepNumbers DEF ControlInv
    <2>4. BufferInv(p)'
      BY <1>1, <1>2, <2>1, StepNumbers, RigidMasked DEF BufferInv, dataVars
    <2>5. ResultInv'
      BY <1>1, <1>3, <2>1, ResultSame DEF outVars
    <2>6. /\ NextSent(p) = s + 1 /\ NextSent(p)' = s + 1
          /\ NextReceived(p) = s + 1 /\ NextReceived(p)' = s + 1
      BY <1>1, <2>1 DEF NextSent, NextReceived
    <2>7. GotAll(p, s + 1)
      <3>1. CASE Receives(p, s)
        <4>1. ~(p = SERVER /\ s = Uid2)
          BY <3>1, StepNumbers DEF Receives
        <4> QED BY <1>1, <1>3, <3>1, <4>1, ValidGotAll
      <3>2. CASE ~Receives(p, s)
        <4>1. p = SERVER /\ s = Uid2
          BY <1>2, <3>2, StepNumbers DEF Receives
        <4>2. GotAll(p, Pts2)
          BY <1>1, <4>1, StepNumbers DEF ReceiveInv
        <4> QED BY <4>1, <4>2, StepNumbers DEF GotAll, Receives
      <3> QED BY <3>1, <3>2
    <2>8. /\ step'[p] >= Pts2 => GotAll(p, Pts2)
          /\ step'[p] = Find => GotAll(p, Find)
      BY <1>2, <2>1, <2>7, StepNumbers DEF GotAll
    <2>9. UNCHANGED Own(Peer(p)) /\ UNCHANGED <<inputVars, netVars, rcv, result>>
      BY <1>1, <1>3, <2>1 DEF Own, netVars, dataVars, outVars
    <2>10. status'[p] = "run" /\ status'[Peer(p)] = status[Peer(p)]
      BY <1>1, <2>1
    <2>11. s + 1 \in Nat /\ s + 1 <= s + 1
      BY <1>2, StepNumbers
    <2>12. \A r \in Net : s + 1 <= r /\ r < s + 1 => ~Receives(p, r)
      BY <1>2, StepNumbers
    <2> HIDE DEF s
    <2> QED BY <1>1, <2>2, <2>3, <2>4, <2>5, <2>6, <2>8, <2>9, <2>10, <2>11, <2>12, MoveStep
  <1>4. CASE End(p, "err")
    BY <1>1, <1>4, EndStep
  <1> QED BY <1>3, <1>4 DEF Verify

LEMMA JoinStep ==
    ASSUME IInv, NEW p \in Role, Join(p)
    PROVE  IInv'
  <1> DEFINE s == step[p]
  <1>1. /\ TypeOK /\ Peer(p) \in Role /\ ResultInv
        /\ ControlInv(p) /\ BufferInv(p) /\ ReceiveInv(p)
        /\ phase[p] = "join" /\ status[p] = "run"
        /\ UNCHANGED <<inputVars, sender, dataVars, netVars>>
    BY PeerFacts DEF IInv, PartyInv, Join
  <1>2. s \in Key..Uid2
    BY <1>1, StepNumbers DEF ControlInv, TypeOK, Sends
  <1>3. CASE sender[p] = "finished" /\ GotoNext(p) /\ UNCHANGED outVars
    <2>1. /\ \/ s \in {Uid, Uid2} /\ step'[p] = s /\ phase'[p] = "verify"
             \/ s \notin {Uid, Uid2} /\ step'[p] = s + 1 /\ phase'[p] = "send"
          /\ status' = status
          /\ step'[Peer(p)] = step[Peer(p)] /\ phase'[Peer(p)] = phase[Peer(p)]
          /\ step' \in [Role -> Read..Find]
          /\ phase' \in [Role -> {"send", "recv", "join", "verify"}]
      BY <1>1, <1>2, <1>3, GotoFacts, StepNumbers DEF GotoNext
    <2>2. TypeOK'
      BY <1>1, <1>3, <2>1 DEF TypeOK, inputVars, netVars, outVars, dataVars
    <2>3. ControlInv(p)'
      BY <1>1, <1>2, <1>3, <2>1, StepNumbers DEF ControlInv
    <2>4. BufferInv(p)'
      BY <1>1, <1>2, <2>1, StepNumbers, RigidMasked, Rigid DEF BufferInv, dataVars
    <2>5. ResultInv'
      BY <1>1, <1>3, <2>1, ResultSame DEF outVars
    <2>6. /\ NextSent(p) = s + 1 /\ NextSent(p)' = s + 1
          /\ NextReceived(p) = s + 1 /\ NextReceived(p)' = s + 1
      BY <1>1, <1>3, <2>1 DEF NextSent, NextReceived
    <2>8. /\ step'[p] >= Pts2 => GotAll(p, Pts2)
          /\ step'[p] = Find => GotAll(p, Find)
      BY <1>1, <1>2, <2>1, StepNumbers DEF ReceiveInv
    <2>9. UNCHANGED Own(Peer(p)) /\ UNCHANGED <<inputVars, netVars, rcv, result>>
      BY <1>1, <1>3, <2>1 DEF Own, netVars, dataVars, outVars
    <2>10. status'[p] = "run" /\ status'[Peer(p)] = status[Peer(p)]
      BY <1>1, <2>1
    <2>11. s + 1 \in Nat /\ s + 1 <= s + 1
      BY <1>2, StepNumbers
    <2>12. \A r \in Net : s + 1 <= r /\ r < s + 1 => ~Receives(p, r)
      BY <1>2, StepNumbers
    <2> HIDE DEF s
    <2> QED BY <1>1, <2>2, <2>3, <2>4, <2>5, <2>6, <2>8, <2>9, <2>10, <2>11, <2>12, MoveStep
  <1>4. CASE End(p, "dead")
    BY <1>1, <1>4, EndStep
  <1> QED BY <1>3, <1>4 DEF Join

-----------------------------------------------------------------------------
(* Sending.                                                                *)

LEMMA WriteStream ==
    ASSUME IInv, TypeOK', NEW p \in Role, NEW s \in Net, Sends(p, s),
           UNCHANGED inputVars,
           written[p] = Offset(p, s), Write(p, Size(p, s), Msg(p, s)),
           NextSent(p)' = s + 1
    PROVE  StreamInv(p)' /\ written[p] <= written'[p]
  <1>1. TypeOK /\ StreamInv(p)
    BY DEF IInv, PartyInv
  <1>2. /\ Size(p, s) \in Nat /\ Offset(p, s) \in Nat
        /\ Offset(p, s + 1) = Offset(p, s) + Size(p, s)
        /\ s \in 1..10
    BY <1>1, SizeNat, OffsetNat, OffsetStep, StepNumbers
  <1>3. written'[p] = Offset(p, s + 1)
    <2>1. CASE Size(p, s) = 0
      BY <1>2, <2>1 DEF Write
    <2>2. CASE Size(p, s) # 0
      BY <1>1, <1>2, <2>2 DEF Write, TypeOK
    <2> QED BY <2>1, <2>2
  <1>4. stream'[p] = IF Size(p, s) = 0 THEN stream[p] ELSE stream[p] \cup {Segment(p, s)}
    BY <1>1 DEF Write, TypeOK, Segment
  <1>5. (\A g \in stream[p] : \E r \in Net :
           Sends(p, r) /\ Size(p, r) > 0 /\ g = Segment(p, r))'
    <2>1. \A g \in stream'[p] : \E r \in Net :
             Sends(p, r) /\ Size(p, r) > 0 /\ g = Segment(p, r)
      BY <1>1, <1>2, <1>4 DEF StreamInv
    <2> QED BY <2>1, Rigid
  <1>6. (\A r \in Net :
           Sends(p, r) /\ Size(p, r) > 0 /\ Offset(p, r) + Size(p, r) <= written[p]
           => Segment(p, r) \in stream[p])'
    <2>1. ASSUME NEW r \in Net, Sends(p, r), Size(p, r) > 0,
                 Offset(p, r) + Size(p, r) <= written'[p]
          PROVE  Segment(p, r) \in stream'[p]
      <3>1. /\ r \in 1..10 /\ Offset(p, r) \in Nat /\ Size(p, r) \in Nat
            /\ Offset(p, r + 1) = Offset(p, r) + Size(p, r)
        BY <1>1, <2>1, SizeNat, OffsetNat, OffsetStep, StepNumbers
      <3>2. CASE r = s
        BY <1>4, <2>1, <3>1, <3>2
      <3>3. CASE r < s
        <4>1. Offset(p, r + 1) <= Offset(p, s)
          BY <1>1, <3>3, OffsetMono, StepNumbers
        <4>2. Offset(p, r) + Size(p, r) <= written[p]
          BY <3>1, <4>1
        <4> QED BY <1>1, <1>4, <2>1, <4>2 DEF StreamInv
      <3>4. CASE s < r
        <4>1. Offset(p, s + 1) <= Offset(p, r)
          BY <1>1, <3>4, OffsetMono, StepNumbers
        <4> QED BY <1>2, <1>3, <2>1, <3>1, <4>1
      <3> QED BY <1>2, <3>1, <3>2, <3>3, <3>4
    <2> QED BY <2>1, Rigid
  <1>7. Offset(p, s + 1) <= Offset(p, Find)
    BY <1>1, <1>2, OffsetMono, StepNumbers
  <1>8. written[p] <= written'[p]
    BY <1>2, <1>3
  <1>9. (written[p] <= Offset(p, Find))' /\ (status[p] = "run" => written[p] = Offset(p, NextSent(p)))'
    BY <1>3, <1>7, Rigid
  <1> QED BY <1>5, <1>6, <1>8, <1>9 DEF StreamInv

LEMMA ReceiveSame ==
    ASSUME NEW p \in Role, ReceiveInv(p), UNCHANGED inputVars,
           UNCHANGED <<pos, rcv, status>>, step'[p] = step[p],
           NextReceived(p)' = NextReceived(p),
           written'[Peer(p)] = written[Peer(p)]
    PROVE  ReceiveInv(p)'
  <1>0. Peer(p) \in Role
    BY PeerFacts
  <1>1. \A s : GotAll(p, s)' = GotAll(p, s)
    BY <1>0, Rigid DEF GotAll
  <1>2. Good(p)' = Good(p)
    BY <1>0, <1>1, Rigid DEF Good
  <1>3. \A e : BadSince(p, e)' = BadSince(p, e)
    BY <1>1, Rigid DEF BadSince
  <1>4. Bad(p)' = Bad(p)
    BY <1>3 DEF Bad
  <1> QED BY <1>0, <1>1, <1>2, <1>4, Rigid DEF ReceiveInv

LEMMA SendInfoStep ==
    ASSUME IInv, NEW p \in Role, SendInfo(p)
    PROVE  IInv'
  <1>1. /\ TypeOK /\ Peer(p) \in Role /\ Peer(p) # p /\ ResultInv /\ StreamInv(p)
        /\ ControlInv(p) /\ BufferInv(p) /\ ReceiveInv(p)
        /\ step[p] = Info /\ phase[p] = "send" /\ status[p] = "run"
        /\ UNCHANGED <<inputVars, sender, dataVars, pos, outVars>>
    BY PeerFacts DEF IInv, PartyInv, SendInfo, At
  <1>2. /\ step'[p] = Info /\ phase'[p] = "recv" /\ status' = status
        /\ step'[Peer(p)] = step[Peer(p)] /\ phase'[Peer(p)] = phase[Peer(p)]
        /\ step' \in [Role -> Read..Find]
        /\ phase' \in [Role -> {"send", "recv", "join", "verify"}]
    BY <1>1, GotoFacts, StepNumbers DEF SendInfo
  <1>3. SendSize(p, Info) = Size(p, Info) /\ Outgoing(p, Info) = Msg(p, Info) /\ Size(p, Info) = 16
    BY StepNumbers DEF SendSize, Size, Outgoing, Msg, FixedSize
  <1>4. /\ Write(p, Size(p, Info), Msg(p, Info))
        /\ written[p] = Offset(p, Info) /\ Sends(p, Info) /\ Info \in Net
        /\ NextSent(p)' = Info + 1
    BY <1>1, <1>2, <1>3, StepNumbers DEF SendInfo, StreamInv, NextSent, Sends
  <1>5. written' \in [Role -> Nat] /\ DOMAIN stream' = Role
        /\ written'[Peer(p)] = written[Peer(p)] /\ stream'[Peer(p)] = stream[Peer(p)]
    BY <1>1, <1>3, <1>4 DEF Write, TypeOK
  <1>6. TypeOK'
    BY <1>1, <1>2, <1>5 DEF TypeOK, inputVars, outVars, dataVars
  <1>7. StreamInv(p)' /\ written[p] <= written'[p]
    BY <1>1, <1>4, <1>6, WriteStream
  <1>8. ControlInv(p)'
    BY <1>1, <1>2, StepNumbers DEF ControlInv, Receives
  <1>9. BufferInv(p)'
    BY <1>2, StepNumbers DEF BufferInv
  <1>10. ReceiveInv(p)'
    <2>1. NextReceived(p)' = NextReceived(p)
      BY <1>1, <1>2 DEF NextReceived
    <2> QED BY <1>1, <1>2, <1>5, <2>1, ReceiveSame DEF dataVars
  <1>11. PartyInv(Peer(p))'
    <2>1. UNCHANGED Own(Peer(p)) /\ UNCHANGED inputVars /\ status'[Peer(p)] = status[Peer(p)]
      BY <1>1, <1>2, <1>5 DEF Own, dataVars
    <2> QED BY <1>1, <1>5, <1>6, <1>7, <2>1, PeerIdle
  <1>12. ResultInv'
    BY <1>1, <1>2, ResultSame DEF outVars
  <1> QED BY <1>6, <1>7, <1>8, <1>9, <1>10, <1>11, <1>12, Assemble DEF PartyInv

LEMMA ThreadSendStep ==
    ASSUME IInv, NEW p \in Role, ThreadSend(p)
    PROVE  IInv'
  <1> DEFINE s == step[p]
  <1>1. /\ TypeOK /\ Peer(p) \in Role /\ Peer(p) # p /\ ResultInv /\ StreamInv(p)
        /\ ControlInv(p) /\ BufferInv(p) /\ ReceiveInv(p)
        /\ sender[p] = "running" /\ status[p] = "run"
        /\ UNCHANGED <<inputVars, partyVars, dataVars, pos, outVars>>
    BY PeerFacts DEF IInv, PartyInv, ThreadSend
  <1>2. phase[p] \in {"recv", "join"} /\ Sends(p, s) /\ s \in Key..Uid2 /\ s \in Net
    BY <1>1, StepNumbers DEF ControlInv, Sends, TypeOK
  <1>3. sender'[p] = "finished" /\ sender'[Peer(p)] = sender[Peer(p)]
        /\ sender' \in [Role -> {"none", "running", "finished", "failed"}]
    BY <1>1 DEF ThreadSend, TypeOK
  <1>4. SendSize(p, s) = Size(p, s)
    <2>1. CASE s = Pts2
      <3>1. rcv[p][Info] = Neles(Peer(p))
        <4>1. GotAll(p, Pts2)
          BY <1>1, <2>1, StepNumbers DEF ReceiveInv
        <4> QED BY <4>1, StepNumbers DEF GotAll, Receives, Msg
      <3> QED BY <2>1, <3>1, StepNumbers DEF SendSize, Size
    <2>2. CASE s # Pts2
      BY <2>2 DEF SendSize, Size
    <2> QED BY <2>1, <2>2
  <1>5. Outgoing(p, s) = Msg(p, s)
    <2>1. s = Pts => sendBuffer[p] = Masked(p)
      BY <1>1, <1>2 DEF BufferInv
    <2>2. s = Pts2 => sendBuffer[p] = Remasked(p)
      BY <1>1, <1>2 DEF BufferInv
    <2>3. s \in {SigX, SigY} => sig[p] = Msg(p, SigX)
      BY <1>1, <1>2, StepNumbers DEF BufferInv
    <2>4. s \in {SigX2, SigY2} => sig[p] = Msg(p, SigX2)
      BY <1>1, <1>2, StepNumbers DEF BufferInv
    <2>5. /\ s \in {SigX, SigY} => Msg(p, s) = Msg(p, SigX)
          /\ s \in {SigX2, SigY2} => Msg(p, s) = Msg(p, SigX2)
      BY StepNumbers DEF Msg
    <2>6. CASE s \in {Pts, Pts2}
      BY <2>1, <2>2, <2>6, StepNumbers DEF Outgoing, Msg
    <2>7. CASE s \in {SigX, SigY, SigX2, SigY2}
      <3>1. Outgoing(p, s) = sig[p]
        BY <2>7, StepNumbers DEF Outgoing
      <3> QED BY <2>3, <2>4, <2>5, <2>7, <3>1
    <2>8. CASE s \in {Key, Uid, Uid2}
      BY <2>8, StepNumbers DEF Outgoing, Msg
    <2> QED BY <1>2, <2>6, <2>7, <2>8, StepNumbers
  <1>6. /\ Write(p, Size(p, s), Msg(p, s))
        /\ written[p] = Offset(p, s)
        /\ NextSent(p)' = s + 1
    BY <1>1, <1>2, <1>3, <1>4, <1>5, StepNumbers DEF ThreadSend, StreamInv, NextSent, partyVars
  <1>7. written' \in [Role -> Nat] /\ DOMAIN stream' = Role
        /\ written'[Peer(p)] = written[Peer(p)] /\ stream'[Peer(p)] = stream[Peer(p)]
    <2>1. Size(p, s) \in Nat
      BY <1>1, <1>2, SizeNat
    <2> QED BY <1>1, <1>6, <2>1 DEF Write, TypeOK
  <1>8. TypeOK'
    BY <1>1, <1>3, <1>7 DEF TypeOK, inputVars, outVars, dataVars, partyVars
  <1>9. StreamInv(p)' /\ written[p] <= written'[p]
    BY <1>1, <1>2, <1>6, <1>8, WriteStream
  <1>10. ControlInv(p)'
    BY <1>1, <1>2, <1>3, Rigid DEF ControlInv, partyVars
  <1>11. BufferInv(p)'
    BY <1>1, Rigid, RigidMasked DEF BufferInv, partyVars, dataVars
  <1>12. ReceiveInv(p)'
    <2>1. NextReceived(p)' = NextReceived(p)
      BY <1>1 DEF NextReceived, partyVars
    <2> QED BY <1>1, <1>7, <2>1, ReceiveSame DEF dataVars, partyVars
  <1>13. PartyInv(Peer(p))'
    <2>1. UNCHANGED Own(Peer(p)) /\ UNCHANGED inputVars /\ status'[Peer(p)] = status[Peer(p)]
      BY <1>1, <1>3, <1>7 DEF Own, dataVars, partyVars
    <2> QED BY <1>1, <1>7, <1>8, <1>9, <2>1, PeerIdle
  <1>14. ResultInv'
    BY <1>1, ResultSame DEF outVars, partyVars
  <1> QED BY <1>8, <1>9, <1>10, <1>11, <1>12, <1>13, <1>14, Assemble DEF PartyInv

-----------------------------------------------------------------------------
(* Receiving.                                                              *)

\* A Receive that returns keeps the invariant if it got the message meant for
\* it, or if the peer has ended, nothing is left, and no signature came of it.
LEMMA ReceiveStep ==
    ASSUME IInv, NEW p \in Role, NEW v, NEW x \in Nat,
           status[p] = "run", phase[p] = "recv", Received(p, v),
           pos' = [pos EXCEPT ![p] = x],
           UNCHANGED <<inputVars, sender, sendBuffer, sig, stream, written, outVars>>,
           x <= written[Peer(p)],
           \/ /\ Good(p)
              /\ v = Msg(Peer(p), step[p])
              /\ x = Offset(Peer(p), step[p] + 1)
           \/ /\ status[Peer(p)] # "run"
              /\ x = written[Peer(p)]
              /\ step[p] \in {SigX, SigY, SigX2, SigY2} => v = Junk,
           step[p] = Info => v \in Nat
    PROVE  IInv'
  <1> DEFINE s == step[p]
             q == Peer(p)
  <1>1. /\ TypeOK /\ q \in Role /\ q # p /\ ResultInv /\ StreamInv(p)
        /\ ControlInv(p) /\ BufferInv(p) /\ ReceiveInv(p) /\ Peer(q) = p
    BY PeerFacts DEF IInv, PartyInv
  <1>2. s \in Net /\ Receives(p, s) /\ s \in 1..10
    BY <1>1, StepNumbers DEF ControlInv, Receives
  <1>3. /\ \/ s \in Key..Uid /\ step'[p] = s /\ phase'[p] = "join"
           \/ s \notin Key..Uid /\ s = Uid2 /\ step'[p] = s /\ phase'[p] = "verify"
           \/ s \notin Key..Uid /\ s # Uid2 /\ step'[p] = s + 1 /\ phase'[p] = "send"
        /\ status' = status
        /\ step'[q] = step[q] /\ phase'[q] = phase[q]
        /\ step' \in [Role -> Read..Find]
        /\ phase' \in [Role -> {"send", "recv", "join", "verify"}]
    <2>1. CASE s \in Key..Uid
      <3>1. Goto(p, s, "join")
        BY <2>1 DEF Received
      <3> QED BY <1>1, <1>2, <2>1, <3>1, GotoFacts, StepNumbers
    <2>2. CASE s \notin Key..Uid /\ s = Uid2
      <3>1. Goto(p, s, "verify")
        BY <2>2, StepNumbers DEF Received, GotoNext
      <3> QED BY <1>1, <1>2, <2>2, <3>1, GotoFacts, StepNumbers
    <2>3. CASE s \notin Key..Uid /\ s # Uid2
      <3>1. Goto(p, s + 1, "send") /\ s + 1 \in Read..Find
        BY <1>2, <2>3, StepNumbers DEF Received, GotoNext
      <3> QED BY <1>1, <1>2, <2>3, <3>1, GotoFacts, StepNumbers
    <2> QED BY <2>1, <2>2, <2>3
  <1>4. /\ rcv'[p][s] = v /\ \A r \in Net : r # s => rcv'[p][r] = rcv[p][r]
        /\ rcv'[q] = rcv[q]
        /\ DOMAIN rcv' = Role /\ \A r \in Role : DOMAIN rcv'[r] = Net
    BY <1>1, <1>2 DEF Received, TypeOK
  <1>5. pos'[p] = x /\ pos'[q] = pos[q] /\ pos' \in [Role -> Nat]
    BY <1>1 DEF TypeOK
  <1>6. NextReceived(p) = s /\ NextReceived(p)' = s + 1
    BY <1>3 DEF NextReceived
  <1>7. TypeOK'
    BY <1>1, <1>3, <1>4, <1>5 DEF TypeOK, inputVars, outVars
  <1>8. StreamInv(p)'
    <2>1. Offset(p, NextSent(p)') = Offset(p, NextSent(p))
      <3>1. CASE s \in Key..Uid
        BY <1>3, <3>1, StepNumbers DEF NextSent
      <3>2. CASE s = Info
        BY <1>3, <3>2, StepNumbers DEF NextSent
      <3>3. CASE ~Sends(p, s)
        <4>1. NextSent(p) \in {s, s + 1} /\ NextSent(p)' \in {s, s + 1}
          BY <1>2, <1>3, <3>3, StepNumbers DEF NextSent, Sends
        <4>2. Offset(p, s + 1) = Offset(p, s)
          BY <1>1, <1>2, <3>3, OffsetStep, OffsetNat, StepNumbers
        <4> QED BY <4>1, <4>2
      <3> QED BY <1>2, <3>1, <3>2, <3>3, StepNumbers DEF Sends, Receives
    <2> QED BY <1>1, <1>3, <2>1, Rigid DEF StreamInv
  <1>9. ControlInv(p)'
    BY <1>1, <1>2, <1>3, StepNumbers DEF ControlInv, Sends, Receives
  <1>10. BufferInv(p)'
    BY <1>1, <1>2, <1>3, StepNumbers, RigidMasked, Rigid DEF BufferInv
  <1>11. ReceiveInv(p)'
    <2>1. \A r \in Read..Find : r <= s /\ GotAll(p, r) => GotAll(p, r)'
      <3> SUFFICES ASSUME NEW r \in Read..Find, r <= s, GotAll(p, r)
                   PROVE  GotAll(p, r)'
        OBVIOUS
      <3>1. ASSUME NEW k \in Net, k < r, Receives(p, k)
            PROVE  rcv'[p][k] = Msg(q, k)
        <4>1. k # s
          BY <1>2, <3>1, StepNumbers
        <4> QED BY <1>4, <3>1, <4>1 DEF GotAll
      <3> QED BY <1>1, <3>1, Rigid DEF GotAll
    <2>2. (Good(p) \/ Bad(p))'
      <3>1. CASE /\ Good(p)
                 /\ v = Msg(q, s)
                 /\ x = Offset(q, s + 1)
        <4>1. GotAll(p, s)
          BY <1>6, <3>1 DEF Good
        <4>2. ASSUME NEW k \in Net, k < s + 1, Receives(p, k)
              PROVE  rcv'[p][k] = Msg(q, k)
          <5>1. CASE k = s
            BY <1>4, <3>1, <5>1
          <5>2. CASE k # s
            <6>1. k < s
              BY <1>2, <4>2, <5>2, StepNumbers
            <6> QED BY <1>4, <4>1, <4>2, <5>2, <6>1 DEF GotAll
          <5> QED BY <5>1, <5>2
        <4>3. GotAll(p, NextReceived(p))'
          BY <1>1, <1>6, <4>2, Rigid DEF GotAll
        <4>4. (pos[p] = Offset(q, NextReceived(p)))'
          BY <1>1, <1>5, <1>6, <3>1, Rigid
        <4> QED BY <4>3, <4>4 DEF Good
      <3>2. CASE /\ status[q] # "run"
                 /\ x = written[q]
                 /\ s \in {SigX, SigY, SigX2, SigY2} => v = Junk
        <4>1. Good(p) \/ Bad(p)
          BY <1>1 DEF ReceiveInv
        <4>2. PICK e \in Net : /\ e <= s
                               /\ GotAll(p, e)
                               /\ \A r \in {SigX, SigY, SigX2, SigY2} :
                                     e <= r /\ r < s /\ Receives(p, r) => rcv[p][r] = Junk
          <5>1. CASE Good(p)
            <6>1. GotAll(p, s)
              BY <1>6, <5>1 DEF Good
            <6>2. \A r \in {SigX, SigY, SigX2, SigY2} : ~(s <= r /\ r < s)
              BY <1>2, StepNumbers
            <6> QED BY <1>2, <6>1, <6>2
          <5>2. CASE Bad(p)
            <6>1. PICK e \in Net : BadSince(p, e)
              BY <5>2 DEF Bad
            <6> QED BY <1>2, <1>6, <6>1, StepNumbers DEF BadSince
          <5> QED BY <4>1, <5>1, <5>2
        <4>3. \A r \in {SigX, SigY, SigX2, SigY2} :
                 e <= r /\ r < s + 1 /\ Receives(p, r) => rcv'[p][r] = Junk
          <5> TAKE r \in {SigX, SigY, SigX2, SigY2}
          <5>1. r \in Net /\ r \in 1..10
            BY StepNumbers
          <5>2. CASE r = s
            BY <1>4, <3>2, <5>2
          <5>3. CASE r # s
            BY <1>2, <1>4, <4>2, <5>1, <5>3
          <5> QED BY <5>2, <5>3
        <4>4. BadSince(p, e)'
          BY <1>2, <1>6, <2>1, <4>2, <4>3, Rigid, StepNumbers DEF BadSince
        <4> QED BY <1>3, <1>5, <3>2, <4>4 DEF Bad
      <3> QED BY <3>1, <3>2
    <2>3. (pos[p] <= written[Peer(p)])'
      BY <1>5
    <2>4. NextReceived(p)' > Info => rcv'[p][Info] \in Nat
      BY <1>1, <1>2, <1>4, <1>6, StepNumbers DEF ReceiveInv
    <2>5. /\ step'[p] >= Pts2 => GotAll(p, Pts2)'
          /\ step'[p] = Find => GotAll(p, Find)'
      <3>1. step'[p] # Find /\ (step'[p] >= Pts2 => s >= Pts2)
        BY <1>2, <1>3, StepNumbers
      <3>2. s >= Pts2 => GotAll(p, Pts2) /\ Pts2 <= s
        BY <1>1, <1>2, StepNumbers DEF ReceiveInv
      <3>3. Pts2 \in Read..Find
        BY StepNumbers
      <3> QED BY <2>1, <3>1, <3>2, <3>3
    <2>6. status'[p] # "done"
      BY <1>3
    <2> QED BY <2>2, <2>3, <2>4, <2>5, <2>6 DEF ReceiveInv
  <1>12. PartyInv(Peer(p))'
    <2>1. UNCHANGED Own(Peer(p)) /\ status'[Peer(p)] = status[Peer(p)]
      BY <1>3, <1>4, <1>5 DEF Own
    <2>2. written[p] <= written'[p]
      BY <1>1 DEF TypeOK
    <2> QED BY <1>7, <2>1, <2>2, PeerIdle
  <1>13. ResultInv'
    BY <1>1, <1>3, ResultSame DEF outVars
  <1> QED BY <1>7, <1>8, <1>9, <1>10, <1>11, <1>12, <1>13, Assemble DEF PartyInv

\* The octets from the right offset are the message that was meant.
LEMMA ContentGood ==
    ASSUME IInv, NEW q \in Role, NEW s \in Net, Sends(q, s),
           Size(q, s) = 0 \/ Offset(q, s) + Size(q, s) <= written[q]
    PROVE  Content(q, Offset(q, s), Size(q, s)) = {Msg(q, s)}
  <1> DEFINE n == Size(q, s)
             G == {g \in stream[q] : g.from = Offset(q, s) /\ g.len = n}
  <1>1. TypeOK /\ StreamInv(q) /\ Peer(q) \in Role /\ n \in Nat
    BY PeerFacts, SizeNat DEF IInv, PartyInv
  <1>2. CASE n = 0
    <2>1. s \in {Pts, Pts2}
      BY <1>2, StepNumbers DEF Size, FixedSize
    <2>2. CASE s = Pts
      <3>1. Neles(q) = 0
        BY <1>1, <1>2, <2>2, NelesNat, StepNumbers DEF Size
      <3>2. DOMAIN elements[q] = {}
        BY <1>1, <3>1, NelesNat
      <3>3. Masked(q) = <<>>
        BY <3>2 DEF Masked
      <3> QED BY <1>2, <2>2, <3>3, StepNumbers DEF Content, Msg
    <2>3. CASE s = Pts2
      <3>1. Neles(Peer(q)) = 0
        BY <1>1, <1>2, <2>3, NelesNat, StepNumbers DEF Size
      <3>2. DOMAIN elements[Peer(q)] = {}
        BY <1>1, <3>1, NelesNat
      <3>3. Remasked(q) = <<>>
        BY <3>2 DEF Remasked
      <3> QED BY <1>2, <2>3, <3>3, StepNumbers DEF Content, Msg
    <2> QED BY <2>1, <2>2, <2>3
  <1>3. CASE n # 0
    <2>1. Segment(q, s) \in G
      BY <1>1, <1>3 DEF StreamInv, Segment
    <2>2. \A g \in G : g = Segment(q, s)
      <3> TAKE g \in G
      <3>1. PICK r \in Net : Sends(q, r) /\ Size(q, r) > 0 /\ g = Segment(q, r)
        BY <1>1 DEF StreamInv
      <3>2. Offset(q, r) = Offset(q, s)
        BY <3>1 DEF Segment
      <3>3. r = s
        BY <1>1, <1>3, <3>1, <3>2, OffsetInjective
      <3> QED BY <3>1, <3>3
    <2>3. {g.val : g \in G} = {Msg(q, s)}
      BY <2>1, <2>2 DEF Segment
    <2> QED BY <1>3, <2>1, <2>3 DEF Content
  <1> QED BY <1>2, <1>3

\* A party that got all messages so far asks for what its peer sends next.
LEMMA GoodSize ==
    ASSUME NEW p \in Role, NEW s \in Net, Receives(p, s), GotAll(p, s)
    PROVE  RecvSize(p, s) = Size(Peer(p), s)
  <1>1. CASE s = Pts
    <2>1. rcv[p][Info] = Neles(Peer(p))
      BY <1>1, StepNumbers DEF GotAll, Receives, Msg
    <2> QED BY <1>1, <2>1 DEF RecvSize, Size
  <1>2. CASE s = Pts2
    BY <1>2, PeerFacts, StepNumbers DEF RecvSize, Size
  <1>3. CASE s \notin {Pts, Pts2}
    BY <1>3 DEF RecvSize, Size
  <1> QED BY <1>1, <1>2, <1>3

LEMMA ReceiveFullStep ==
    ASSUME IInv, NEW p \in Role, Receive(p)
    PROVE  IInv'
  <1> DEFINE s == step[p]
             q == Peer(p)
             n == RecvSize(p, s)
  <1>1. /\ TypeOK /\ q \in Role /\ ControlInv(p) /\ ReceiveInv(p)
        /\ status[p] = "run" /\ phase[p] = "recv"
    BY PeerFacts DEF IInv, PartyInv, Receive
  <1>2. s \in Net /\ Receives(p, s) /\ Sends(q, s) /\ s \in 1..10 /\ NextReceived(p) = s
    BY <1>1, StepNumbers DEF ControlInv, Sends, Receives, Peer, NextReceived
  <1>3. PICK v \in Content(q, pos[p], n) : Received(p, v)
    BY DEF Receive
  <1>4. n = 0 \/ pos[p] + n <= written[q]
    BY DEF Receive
  <1>5. Neles(p) \in Nat /\ Neles(q) \in Nat
    BY <1>1, NelesNat
  <1>6. n \in Nat /\ (s \notin {Pts, Pts2} => n > 0)
    <2>1. s > Info => rcv[p][Info] \in Nat
      BY <1>1, <1>2 DEF ReceiveInv
    <2> QED BY <1>2, <1>5, <2>1, StepNumbers DEF RecvSize, FixedSize
  <1>7. pos[p] \in Nat /\ written[q] \in Nat /\ pos[p] <= written[q]
    BY <1>1 DEF TypeOK, ReceiveInv
  <1>8. pos' = [pos EXCEPT ![p] = pos[p] + n] /\ pos[p] + n \in Nat /\ pos[p] + n <= written[q]
    BY <1>4, <1>6, <1>7 DEF Receive
  <1>9. UNCHANGED <<inputVars, sender, sendBuffer, sig, stream, written, outVars>>
    BY DEF Receive
  <1>10. CASE Good(p)
    <2>1. GotAll(p, s) /\ pos[p] = Offset(q, s)
      BY <1>2, <1>10 DEF Good
    <2>2. n = Size(q, s)
      BY <1>2, <2>1, GoodSize
    <2>3. v = Msg(q, s)
      BY <1>1, <1>2, <1>3, <1>4, <2>1, <2>2, ContentGood
    <2>4. pos[p] + n = Offset(q, s + 1)
      BY <1>1, <1>2, <2>1, <2>2, OffsetStep
    <2>5. s = Info => v \in Nat
      BY <1>5, <2>3, StepNumbers DEF Msg
    <2> HIDE DEF n
    <2> QED BY <1>1, <1>3, <1>8, <1>9, <1>10, <2>3, <2>4, <2>5, ReceiveStep
  <1>11. CASE Bad(p)
    <2>1. status[q] # "run" /\ pos[p] = written[q]
      BY <1>11 DEF Bad
    <2>2. n = 0 /\ s \in {Pts, Pts2}
      BY <1>4, <1>6, <1>7, <2>1
    <2>3. pos[p] + n = written[q]
      BY <1>7, <2>1, <2>2
    <2>4. s # Info /\ s \notin {SigX, SigY, SigX2, SigY2}
      BY <2>2, StepNumbers
    <2> HIDE DEF n
    <2> QED BY <1>1, <1>3, <1>8, <1>9, <2>1, <2>3, <2>4, ReceiveStep
  <1> QED BY <1>1, <1>10, <1>11 DEF ReceiveInv

LEMMA ReceiveEofStep ==
    ASSUME IInv, NEW p \in Role, ReceiveEof(p)
    PROVE  IInv'
  <1> DEFINE s == step[p]
             q == Peer(p)
  <1>1. /\ TypeOK /\ q \in Role
        /\ status[p] = "run" /\ phase[p] = "recv" /\ status[q] # "run"
    BY PeerFacts DEF IInv, PartyInv, ReceiveEof, AtEof
  <1>2. PICK v \in Unreceived(p, s) : Received(p, v)
    BY DEF ReceiveEof
  <1>3. written[q] \in Nat /\ written[q] <= written[q] /\ Neles(q) \in Nat
    BY <1>1, NelesNat DEF TypeOK
  <1>4. s = Info => v \in Nat
    BY <1>2, <1>3, GarbageAssumption, StepNumbers DEF Unreceived, KeyLeft, HalfLeft
  <1>5. s \in {SigX, SigY, SigX2, SigY2} => v = Junk
    BY <1>2, StepNumbers DEF Unreceived, KeyLeft, HalfLeft
  <1>6. /\ pos' = [pos EXCEPT ![p] = written[q]]
        /\ UNCHANGED <<inputVars, sender, sendBuffer, sig, stream, written, outVars>>
    BY DEF ReceiveEof
  <1> QED BY <1>1, <1>2, <1>3, <1>4, <1>5, <1>6, ReceiveStep

-----------------------------------------------------------------------------
(* Completing, and the environment.                                        *)

\* A party at step Find is done: it has read all its peer will ever send.
LEMMA DoneStep ==
    ASSUME IInv, NEW p \in Role, At(p, Find, "send"),
           status' = [status EXCEPT ![p] = "done"],
           UNCHANGED <<inputVars, step, phase, sender, dataVars, netVars>>,
           TypeOK', ResultInv'
    PROVE  IInv'
  <1>1. /\ TypeOK /\ Peer(p) \in Role /\ Peer(p) # p
        /\ ControlInv(p) /\ BufferInv(p) /\ ReceiveInv(p)
        /\ status[p] = "run" /\ step[p] = Find /\ phase[p] = "send"
    BY PeerFacts DEF IInv, PartyInv, At
  <1>2. status'[p] = "done" /\ status'[Peer(p)] = status[Peer(p)]
    BY <1>1 DEF TypeOK
  <1>3. /\ NextSent(p)' = NextSent(p)
        /\ NextReceived(p) = Find /\ NextReceived(p)' = Find
    BY <1>1 DEF NextSent, NextReceived
  <1>4. ControlInv(p)' /\ BufferInv(p)'
    BY <1>1, Rigid, RigidMasked DEF ControlInv, BufferInv, dataVars
  <1>5. GotAll(p, Pts2) /\ GotAll(p, Find)
    BY <1>1, StepNumbers DEF ReceiveInv
  <1>6. \/ pos[p] >= Offset(Peer(p), Find)
        \/ status[Peer(p)] # "run" /\ pos[p] >= written[Peer(p)]
    <2>1. Offset(Peer(p), Find) \in Nat /\ written[Peer(p)] \in Nat
      BY <1>1, OffsetNat, StepNumbers DEF TypeOK
    <2>2. CASE Good(p)
      BY <1>3, <2>1, <2>2 DEF Good
    <2>3. CASE Bad(p)
      BY <2>1, <2>3 DEF Bad
    <2> QED BY <1>1, <2>2, <2>3 DEF ReceiveInv
  <1>7. UNCHANGED Own(Peer(p)) /\ UNCHANGED <<inputVars, netVars, rcv>> /\ step'[p] = Find
    BY <1>1 DEF Own, netVars, dataVars
  <1>8. /\ Find \in Nat /\ Find <= Find
        /\ \A r \in Net : Find <= r /\ r < Find => ~Receives(p, r)
    BY StepNumbers
  <1> QED BY <1>1, <1>2, <1>3, <1>4, <1>5, <1>6, <1>7, <1>8, MoveStep

LEMMA FinishStep ==
    ASSUME IInv, Finish
    PROVE  IInv'
  <1>1. TypeOK /\ ResultInv /\ SERVER \in Role
    BY DEF IInv
  <1>2. /\ status' = [status EXCEPT ![SERVER] = "done"]
        /\ found' = found /\ result' = result
        /\ UNCHANGED <<inputVars, step, phase, sender, dataVars, netVars>>
    BY DEF Finish, End
  <1>3. TypeOK'
    BY <1>1, <1>2 DEF TypeOK, inputVars, netVars, dataVars
  <1>4. ResultInv'
    BY <1>1, <1>2, ResultSame DEF TypeOK
  <1> QED BY <1>1, <1>2, <1>3, <1>4, DoneStep DEF Finish

LEMMA FindIntersectionStep ==
    ASSUME IInv, FindIntersection
    PROVE  IInv'
  <1> DEFINE t == Tags(rcv[CLIENT][Pts2])
             pt == Tags(sendBuffer[CLIENT])
             hits == Cardinality(Hits(t, pt))
  <1>1. /\ TypeOK /\ ResultInv /\ CLIENT \in Role /\ Peer(CLIENT) = SERVER
        /\ ReceiveInv(CLIENT) /\ BufferInv(CLIENT)
        /\ At(CLIENT, Find, "send") /\ status[CLIENT] = "run" /\ step[CLIENT] = Find
        /\ UNCHANGED <<inputVars, sender, dataVars, netVars>>
    BY DEF IInv, PartyInv, FindIntersection, Compare, At, Peer
  <1>2. CASE End(CLIENT, "dead")
    BY <1>1, <1>2, EndStep
  <1>3. CASE /\ status' = [status EXCEPT ![CLIENT] = "done"]
             /\ found' = hits
             /\ result' = Copies(t, pt)
             /\ UNCHANGED <<step, phase>>
    <2>1. rcv[CLIENT][Pts2] = Remasked(SERVER)
      <3>1. GotAll(CLIENT, Find)
        BY <1>1 DEF ReceiveInv
      <3> QED BY <1>1, <3>1, StepNumbers DEF GotAll, Receives, Msg
    <2>2. sendBuffer[CLIENT] = Remasked(CLIENT)
      BY <1>1, StepNumbers DEF BufferInv
    <2>3. ResultInv'
      BY <1>3, <2>1, <2>2, <1>1, RigidMasked DEF ResultInv
    <2>4. result' \in [DOMAIN elements[CLIENT] -> Nat]
      <3>1. DOMAIN t = DOMAIN elements[CLIENT]
        BY <2>1 DEF Remasked, Peer, Tags
      <3>2. DOMAIN pt = 1..Neles(SERVER) /\ Neles(SERVER) \in Nat
        BY <1>1, <2>2, NelesNat DEF Tags, Remasked, Peer
      <3> HIDE DEF t, pt
      <3>3. \A x : Occurs(pt, x) \in Nat
        BY <3>2, OccursNat
      <3>4. Copies(t, pt) \in [DOMAIN t -> Nat]
        BY <3>3 DEF Copies
      <3> QED BY <1>3, <3>1, <3>4
    <2>5. found' \in Int
      <3>1. DOMAIN pt = 1..Neles(SERVER) /\ Neles(SERVER) \in Nat
        BY <1>1, <2>2, NelesNat DEF Tags, Remasked, Peer
      <3>2. Hits(t, pt) \subseteq 1..Neles(SERVER)
        BY <3>1 DEF Hits
      <3>3. IsFiniteSet(Hits(t, pt))
        <4>1. IsFiniteSet(1..Neles(SERVER))
          BY <3>1, FS_Interval
        <4>2. Hits(t, pt) \in SUBSET (1..Neles(SERVER))
          BY <3>2
        <4> QED BY <4>1, <4>2, FS_Subset
      <3>4. hits \in Nat
        BY <3>3, FS_CardinalityType
      <3> QED BY <1>3, <3>4
    <2>6. TypeOK'
      BY <1>1, <1>3, <2>4, <2>5 DEF TypeOK, inputVars, netVars, dataVars
    <2> QED BY <1>1, <1>3, <2>3, <2>6, DoneStep
  <1> QED BY <1>2, <1>3 DEF FindIntersection, Compare

LEMMA ResetStep ==
    ASSUME IInv, NEW p \in Role, Reset(p)
    PROVE  IInv'
  <1> DEFINE q == Peer(p)
  <1>1. /\ TypeOK /\ q \in Role /\ q # p /\ Peer(q) = p /\ ResultInv
        /\ StreamInv(p) /\ ControlInv(p) /\ BufferInv(p) /\ ReceiveInv(p)
        /\ StreamInv(q) /\ ControlInv(q) /\ BufferInv(q) /\ ReceiveInv(q)
    BY PeerFacts DEF IInv, PartyInv
  <1>2. /\ status' = status /\ pos' = pos /\ UNCHANGED inputVars
        /\ UNCHANGED Own(p) /\ UNCHANGED Own(q)
        /\ UNCHANGED <<outVars, partyVars, sender, dataVars, stream>>
        /\ status[p] # "run"
    BY DEF Reset, Own, partyVars, dataVars
  <1>3. /\ written'[p] = pos[q] /\ written'[q] = written[q]
        /\ pos[q] < written[p] /\ pos[q] \in Nat /\ written[p] \in Nat /\ written[q] \in Nat
        /\ written' \in [Role -> Nat] /\ pos \in [Role -> Nat]
    BY <1>1 DEF Reset, TypeOK
  <1>4. written'[p] <= written[p] /\ pos[q] <= written'[p] /\ pos[p] <= written'[q]
        /\ written'[q] <= written[q]
    BY <1>1, <1>3 DEF ReceiveInv
  <1> HIDE DEF q
  <1>5. StreamInv(p)' /\ ControlInv(p)' /\ BufferInv(p)' /\ ReceiveInv(p)'
    <2>1. q = Peer(p)
      BY DEF q
    <2> QED BY <1>1, <1>2, <1>3, <1>4, <2>1, Idle
  <1>6. StreamInv(q)' /\ ControlInv(q)' /\ BufferInv(q)' /\ ReceiveInv(q)'
    BY <1>1, <1>2, <1>3, <1>4, Idle
  <1>7. TypeOK'
    BY <1>1, <1>2, <1>3 DEF TypeOK, inputVars, outVars, partyVars, dataVars
  <1>8. ResultInv'
    BY <1>1, <1>2, ResultSame DEF outVars
  <1> QED BY <1>5, <1>6, <1>7, <1>8, Assemble DEF PartyInv, q

LEMMA StutterStep ==
    ASSUME IInv, UNCHANGED vars
    PROVE  IInv'
  <1>1. TypeOK'
    BY DEF IInv, TypeOK, vars, inputVars, partyVars, dataVars, netVars, outVars
  <1>2. ASSUME NEW p \in Role PROVE PartyInv(p)'
    <2>1. /\ TypeOK /\ StreamInv(p) /\ ControlInv(p) /\ BufferInv(p) /\ ReceiveInv(p)
          /\ Peer(p) \in Role
      BY PeerFacts DEF IInv, PartyInv
    <2>2. UNCHANGED Own(p) /\ status' = status /\ written' = written /\ UNCHANGED inputVars
      BY DEF Own, vars, partyVars, dataVars, netVars
    <2>3. pos[p] <= written[Peer(p)] /\ written[Peer(p)] <= written[Peer(p)]
          /\ written \in [Role -> Nat] /\ pos \in [Role -> Nat]
      BY <2>1 DEF ReceiveInv, TypeOK
    <2>4. StreamInv(p)' /\ ControlInv(p)' /\ BufferInv(p)' /\ ReceiveInv(p)'
      BY <2>1, <2>2, <2>3, Idle
    <2> QED BY <2>4 DEF PartyInv
  <1>3. ResultInv'
    BY ResultSame DEF IInv, vars, partyVars, outVars
  <1> QED BY <1>1, <1>2, <1>3 DEF IInv

\* The steps after which a party is no more.
LEMMA StopStep ==
    ASSUME IInv, NEW p \in Role, InfoAssert(p) \/ SigPipe(p) \/ Crash(p)
    PROVE  IInv'
  <1>1. /\ status[p] = "run" /\ End(p, "dead")
        /\ UNCHANGED <<inputVars, sender, dataVars, netVars>>
    BY DEF InfoAssert, SigPipe, Crash, At
  <1> QED BY <1>1, EndStep

LEMMA InitInv ==
    ASSUME Init
    PROVE  IInv
  <1>1. TypeOK
    BY StepNumbers DEF Init, TypeOK
  <1>2. ASSUME NEW p \in Role
        PROVE  PartyInv(p)
    <2>1. /\ step[p] = Read /\ phase[p] = "send" /\ status[p] = "run" /\ sender[p] = "none"
          /\ stream[p] = {} /\ written[p] = 0 /\ pos[p] = 0
          /\ Peer(p) \in Role /\ written[Peer(p)] = 0
      BY PeerFacts DEF Init
    <2>2. \A q \in Role : Offset(q, Read) = 0
      BY StepNumbers DEF Offset, Fixed, Last
    <2>3. NextSent(p) = Read /\ NextReceived(p) = Read
      BY <2>1 DEF NextSent, NextReceived
    <2>4. StreamInv(p)
      <3>1. 0 <= Offset(p, Find) /\ \A s \in Net : Offset(p, s) \in Nat /\ Size(p, s) \in Nat
        BY <1>1, StepNumbers, OffsetNat, SizeNat
      <3>2. \A s \in Net : ~(Size(p, s) > 0 /\ Offset(p, s) + Size(p, s) <= 0)
        BY <3>1
      <3> QED BY <2>1, <2>2, <2>3, <3>1, <3>2 DEF StreamInv
    <2>5. ControlInv(p) /\ BufferInv(p)
      BY <2>1, StepNumbers DEF ControlInv, BufferInv
    <2>6. ReceiveInv(p)
      <3>1. Good(p)
        BY <2>1, <2>2, <2>3, StepNumbers DEF Good, GotAll
      <3> QED BY <2>1, <2>3, <3>1, StepNumbers DEF ReceiveInv
    <2> QED BY <2>4, <2>5, <2>6 DEF PartyInv
  <1>3. ResultInv
    BY DEF Init, ResultInv
  <1> QED BY <1>1, <1>2, <1>3 DEF IInv

LEMMA NextInv ==
    ASSUME IInv, [Next]_vars
    PROVE  IInv'
  <1>1. ASSUME NEW p \in Role, Local(p)
        PROVE  IInv'
    BY <1>1, ReadElementsStep, KeyGenStep, MaskOwnStep, SignStep, SendNextStep,
       MaskPeerStep, VerifyStep, FindIntersectionStep, FinishStep DEF Local
  <1>2. ASSUME NEW p \in Role, Main(p)
        PROVE  IInv'
    BY <1>1, <1>2, SendInfoStep, ReceiveFullStep, ReceiveEofStep, StopStep, JoinStep DEF Main
  <1>3. ASSUME NEW p \in Role, ThreadSend(p)
        PROVE  IInv'
    BY <1>3, ThreadSendStep
  <1>4. ASSUME NEW p \in Role, SigPipe(p) \/ Crash(p) \/ Reset(p)
        PROVE  IInv'
    BY <1>4, StopStep, ResetStep
  <1>5. CASE Terminating \/ UNCHANGED vars
    BY <1>5, StutterStep DEF Terminating
  <1> QED BY <1>2, <1>3, <1>4, <1>5 DEF Next

\* In every run, with any faults, each party is where its octets say it is:
\* either all it received is what its peer's program sends at those steps, or
\* its peer has ended and it has nothing but Junk for a signature.
THEOREM Inductive == Spec => []IInv
  <1>1. Init => IInv
    BY InitInv
  <1>2. IInv /\ [Next]_vars => IInv'
    BY NextInv
  <1> QED BY <1>1, <1>2, PTL DEF Spec

\* The variables keep to their sets: the positions the client prints are
\* positions of its own file, although the hash table it takes them from was
\* filled from points the server computed.
THEOREM TypeCorrect == Spec => []TypeOK
  <1>1. IInv => TypeOK
    BY DEF IInv
  <1> QED BY <1>1, Inductive, PTL
=============================================================================
