------------------------- MODULE DhPsiResults_proofs -------------------------
(***************************************************************************)
(* What follows from the inductive invariant of DhPsi_proofs: the safety   *)
(* properties that TLC checks on small instances, for every instance.      *)
(***************************************************************************)
EXTENDS DhPsi_proofs

USE DEF SERVER, CLIENT, Role

-----------------------------------------------------------------------------
(* Properties of a state.                                                  *)

\* What passed sm2_do_verify is what the peer masked.
THEOREM AlwaysAuthentic == Spec => []Authentic
  <1>1. IInv => Authentic
    <2> SUFFICES ASSUME IInv, NEW p \in Role, status[p] \in {"run", "done"}
                 PROVE  /\ step[p] >= Pts2 => rcv[p][Pts] = Masked(Peer(p))
                        /\ p = CLIENT /\ step[p] = Find =>
                               rcv[p][Pts2] = [i \in DOMAIN elements[p] |->
                                                   Mul(randC[SERVER], Masked(CLIENT)[i])]
      BY DEF Authentic
    <2>1. ReceiveInv(p)
      BY DEF IInv, PartyInv
    <2>2. ASSUME step[p] >= Pts2 PROVE rcv[p][Pts] = Masked(Peer(p))
      <3>1. GotAll(p, Pts2)
        BY <2>1, <2>2 DEF ReceiveInv
      <3> QED BY <3>1, StepNumbers DEF GotAll, Receives, Msg
    <2>3. ASSUME p = CLIENT, step[p] = Find
          PROVE  rcv[p][Pts2] = Remasked(SERVER)
      <3>1. GotAll(p, Find)
        BY <2>1, <2>3 DEF ReceiveInv
      <3> QED BY <2>3, <3>1, StepNumbers DEF GotAll, Receives, Msg, Peer
    <2> QED BY <2>2, <2>3 DEF Remasked, Peer
  <1> QED BY <1>1, Inductive, PTL

\* A party that completed has consumed everything it was sent, so that its
\* exit does not reset the connection under its peer.
THEOREM AlwaysDoneQuiet == Spec => []DoneQuiet
  <1>1. IInv => DoneQuiet
    <2> SUFFICES ASSUME IInv, NEW p \in Role, status[p] = "done"
                 PROVE  pos[p] >= written[Peer(p)]
      BY DEF DoneQuiet
    <2>1. /\ Peer(p) \in Role /\ ReceiveInv(p) /\ StreamInv(Peer(p)) /\ TypeOK
      BY PeerFacts DEF IInv, PartyInv
    <2>2. /\ pos[p] \in Nat /\ written[Peer(p)] \in Nat
          /\ Offset(Peer(p), Find) \in Nat
      BY <2>1, OffsetNat, StepNumbers DEF TypeOK
    <2>3. written[Peer(p)] <= Offset(Peer(p), Find)
      BY <2>1 DEF StreamInv
    <2> QED BY <2>1, <2>2, <2>3 DEF ReceiveInv
  <1> QED BY <1>1, Inductive, PTL

-----------------------------------------------------------------------------
(* The answer.                                                             *)

\* A set of positions that is not empty has a last one.
LEMMA LastOne ==
    ASSUME NEW n \in Nat, NEW S, S \subseteq 1..n, S # {}
    PROVE  \E m \in S : \A k \in S : k <= m
  <1> DEFINE T == {n - k : k \in S}
  <1>1. T \subseteq Nat /\ T # {}
    <2>1. \A k \in S : k \in Int /\ n - k \in Nat
      OBVIOUS
    <2> QED BY <2>1
  <1>2. PICK x \in T : \A y \in T : ~ (<<y, x>> \in OpToRel(<, Nat))
    BY <1>1, NatLessThanWellFounded, WFMin
  <1>3. PICK m \in S : x = n - m
    OBVIOUS
  <1>4. ASSUME NEW k \in S PROVE k <= m
    <2>1. n - k \in T /\ n - k \in Nat /\ n - m \in Nat
      BY <1>1
    <2>2. ~ (n - k < n - m)
      BY <1>2, <1>3, <2>1 DEF OpToRel
    <2> QED BY <2>2
  <1> QED BY <1>4

\* The tags of the two masked lists are those of the elements under both
\* scalars: in which order these were applied makes no difference.
LEMMA TagFacts ==
    ASSUME TypeOK
    PROVE  LET t == Tags(Remasked(SERVER))
               pt == Tags(Remasked(CLIENT))
               ec == elements[CLIENT]
               es == elements[SERVER]
           IN  /\ DOMAIN t = DOMAIN ec /\ DOMAIN pt = DOMAIN es
               /\ \A i \in DOMAIN ec : ec[i] \in Element /\ t[i] = FinalTag(ec[i])
               /\ \A j \in DOMAIN es : es[j] \in Element /\ pt[j] = FinalTag(es[j])
  <1> DEFINE t == Tags(Remasked(SERVER))
             pt == Tags(Remasked(CLIENT))
             ec == elements[CLIENT]
             es == elements[SERVER]
             rc == randC[CLIENT]
             rs == randC[SERVER]
  <1>1. /\ DOMAIN t = DOMAIN ec /\ DOMAIN pt = DOMAIN es
        /\ \A i \in DOMAIN ec : t[i] = Tag(Mul(rs, Mul(rc, HashPoint(ec[i]))))
        /\ \A j \in DOMAIN es : pt[j] = Tag(Mul(rc, Mul(rs, HashPoint(es[j]))))
    BY DEF Tags, Remasked, Masked, Peer
  <1>2. /\ rc \in Scalar /\ rs \in Scalar
        /\ \A i \in DOMAIN ec : ec[i] \in Element
        /\ \A j \in DOMAIN es : es[j] \in Element
    <2>1. ec \in Seq(Element) /\ es \in Seq(Element)
      BY NelesNat
    <2> QED BY <2>1 DEF TypeOK
  <1>3. \A e \in Element : Mul(rc, Mul(rs, HashPoint(e))) = Mul(rs, Mul(rc, HashPoint(e)))
    BY <1>2, PointAssumption, MulAssumption
  <1>4. \A j \in DOMAIN es :
           Mul(rc, Mul(rs, HashPoint(es[j]))) = Mul(rs, Mul(rc, HashPoint(es[j])))
    BY <1>2, <1>3
  <1> HIDE DEF t, pt
  <1>5. /\ \A i \in DOMAIN ec : t[i] = FinalTag(ec[i])
        /\ \A j \in DOMAIN es : pt[j] = FinalTag(es[j])
    BY <1>1, <1>4 DEF FinalTag
  <1> QED BY <1>1, <1>2, <1>5 DEF t, pt

\* A client that got to the end prints an element that collides with no other
\* as often as the server's file holds it.
LEMMA AnswerExact ==
    ASSUME IInv
    PROVE  ExactResult
  <1> DEFINE t == Tags(Remasked(SERVER))
             pt == Tags(Remasked(CLIENT))
             ec == elements[CLIENT]
             es == elements[SERVER]
  <1> SUFFICES ASSUME status[CLIENT] = "done", NEW i \in DOMAIN ec, Alone(ec[i])
               PROVE  result[i] = Copies(ec, es)[i]
    BY DEF ExactResult
  <1>1. result = Copies(t, pt)
    BY DEF IInv, ResultInv
  <1>2. /\ DOMAIN t = DOMAIN ec /\ DOMAIN pt = DOMAIN es
        /\ \A k \in DOMAIN ec : t[k] = FinalTag(ec[k])
        /\ \A j \in DOMAIN es : pt[j] = FinalTag(es[j])
    BY TagFacts DEF IInv
  <1> HIDE DEF t, pt
  <1>3. /\ \A k \in DOMAIN ec : FinalTag(ec[k]) = FinalTag(ec[i]) <=> ec[k] = ec[i]
        /\ \A j \in DOMAIN es : FinalTag(es[j]) = FinalTag(ec[i]) <=> es[j] = ec[i]
    BY DEF Alone, Values
  <1>4. IsLast(t, i) <=> IsLast(ec, i)
    BY <1>2, <1>3 DEF IsLast
  <1>5. {j \in DOMAIN pt : pt[j] = t[i]} = {j \in DOMAIN es : es[j] = ec[i]}
    BY <1>2, <1>3
  <1>6. /\ Copies(t, pt)[i] = IF IsLast(t, i) THEN Occurs(pt, t[i]) ELSE 0
        /\ Copies(ec, es)[i] = IF IsLast(ec, i) THEN Occurs(es, ec[i]) ELSE 0
    BY <1>2 DEF Copies
  <1>7. Occurs(pt, t[i]) = Occurs(es, ec[i])
    BY <1>5 DEF Occurs
  <1> QED BY <1>1, <1>4, <1>6, <1>7

\* Every element that collides with no other is printed as often as the
\* server's file holds it, whatever happened to the peer.
THEOREM AlwaysExact == Spec => []ExactResult
  <1>1. IInv => ExactResult
    BY AnswerExact
  <1> QED BY <1>1, Inductive, PTL

\* The answer is the intersection up to elements the hash table cannot tell
\* apart.
AnswerInv ==
    status[CLIENT] = "done" =>
        LET shared == {d \in Values(elements[CLIENT]) :
                          \E e \in Values(elements[SERVER]) : <<d, e>> \in Alike}
        IN  /\ Answer \subseteq shared
            /\ \A d \in shared : \E a \in Answer : <<d, a>> \in Alike

LEMMA AnswerAlike ==
    ASSUME IInv
    PROVE  AnswerInv
  <1> DEFINE t == Tags(Remasked(SERVER))
             pt == Tags(Remasked(CLIENT))
             ec == elements[CLIENT]
             es == elements[SERVER]
             shared == {d \in Values(ec) : \E e \in Values(es) : <<d, e>> \in Alike}
  <1> SUFFICES ASSUME status[CLIENT] = "done"
               PROVE  /\ Answer \subseteq shared
                      /\ \A d \in shared : \E a \in Answer : <<d, a>> \in Alike
    BY DEF AnswerInv
  <1>1. result = Copies(t, pt)
    BY DEF IInv, ResultInv
  <1>2. /\ DOMAIN t = DOMAIN ec /\ DOMAIN pt = DOMAIN es
        /\ \A i \in DOMAIN ec : ec[i] \in Element /\ t[i] = FinalTag(ec[i])
        /\ \A j \in DOMAIN es : es[j] \in Element /\ pt[j] = FinalTag(es[j])
    BY TagFacts DEF IInv
  <1>3. /\ Neles(CLIENT) \in Nat /\ DOMAIN ec = 1..Neles(CLIENT)
        /\ Neles(SERVER) \in Nat /\ DOMAIN es = 1..Neles(SERVER)
    BY NelesNat DEF IInv
  <1> HIDE DEF t, pt
  <1>4. \A x : /\ Occurs(pt, x) \in Nat
               /\ Occurs(pt, x) > 0 <=> \E j \in DOMAIN es : pt[j] = x
    BY <1>2, <1>3, OccursNat
  <1>5. DOMAIN result = DOMAIN ec
    BY <1>1, <1>2 DEF Copies
  <1>6. \A i \in DOMAIN ec :
           result[i] > 0 <=> IsLast(t, i) /\ \E j \in DOMAIN es : pt[j] = t[i]
    <2> TAKE i \in DOMAIN ec
    <2>1. result[i] = IF IsLast(t, i) THEN Occurs(pt, t[i]) ELSE 0
      BY <1>1, <1>2 DEF Copies
    <2> QED BY <1>4, <2>1
  <1>7. \A i \in DOMAIN ec, d \in Element : <<ec[i], d>> \in Alike <=> t[i] = FinalTag(d)
    BY <1>2 DEF Alike
  <1>8. Answer \subseteq shared
    <2> SUFFICES ASSUME NEW i \in DOMAIN result, result[i] > 0
                 PROVE  ec[i] \in shared
      BY DEF Answer
    <2>1. PICK j \in DOMAIN es : pt[j] = t[i]
      BY <1>5, <1>6
    <2>2. <<ec[i], es[j]>> \in Alike
      BY <1>2, <1>5, <1>7, <2>1
    <2> QED BY <1>5, <2>2 DEF Values
  <1>9. ASSUME NEW d \in shared PROVE \E a \in Answer : <<d, a>> \in Alike
    <2>1. PICK i \in DOMAIN ec, j \in DOMAIN es : d = ec[i] /\ <<d, es[j]>> \in Alike
      BY DEF Values
    <2>2. pt[j] = t[i]
      BY <1>2, <1>7, <2>1
    <2> DEFINE S == {k \in DOMAIN ec : t[k] = t[i]}
    <2>3. S \subseteq 1..Neles(CLIENT) /\ S # {}
      BY <1>3
    <2>4. PICK m \in S : \A k \in S : k <= m
      BY <1>3, <2>3, LastOne
    <2>5. IsLast(t, m)
      BY <1>2, <2>4 DEF IsLast
    <2>6. ec[m] \in Answer
      BY <1>5, <1>6, <2>2, <2>4, <2>5 DEF Answer
    <2>7. <<d, ec[m]>> \in Alike
      BY <1>2, <1>7, <2>1, <2>4
    <2> QED BY <2>6, <2>7
  <1> QED BY <1>8, <1>9

\* What a client counted is at least the number of the peer's lines that the
\* own file has, and that number if nothing collides.
LEMMA CountOfHits ==
    ASSUME IInv, CountInv
    PROVE  CountExact
  <1> DEFINE t == Tags(Remasked(SERVER))
             pt == Tags(Remasked(CLIENT))
             ec == elements[CLIENT]
             es == elements[SERVER]
             common == Cardinality(Hits(ec, es))
             apart == \A p \in Role : \A e \in Values(elements[p]) : Alone(e)
  <1> SUFFICES ASSUME status[CLIENT] = "done"
               PROVE  found >= common /\ (apart => found = common)
    BY DEF CountExact
  <1>1. found = Cardinality(Hits(t, pt))
    BY DEF CountInv
  <1>2. /\ DOMAIN t = DOMAIN ec /\ DOMAIN pt = DOMAIN es
        /\ \A i \in DOMAIN ec : t[i] = FinalTag(ec[i])
        /\ \A j \in DOMAIN es : pt[j] = FinalTag(es[j])
    BY TagFacts DEF IInv
  <1>3. Neles(SERVER) \in Nat /\ DOMAIN es = 1..Neles(SERVER)
    BY NelesNat DEF IInv
  <1> HIDE DEF t, pt
  <1>4. Hits(ec, es) \in SUBSET Hits(t, pt)
    BY <1>2 DEF Hits
  <1>5. IsFiniteSet(Hits(t, pt))
    <2>1. Hits(t, pt) \in SUBSET (1..Neles(SERVER)) /\ IsFiniteSet(1..Neles(SERVER))
      BY <1>2, <1>3, FS_Interval DEF Hits
    <2> QED BY <2>1, FS_Subset
  <1>6. common <= found /\ common \in Nat /\ found \in Nat
    <2>1. IsFiniteSet(Hits(ec, es)) /\ common <= found
      BY <1>1, <1>4, <1>5, FS_Subset
    <2> QED BY <1>1, <1>5, <2>1, FS_CardinalityType
  <1>7. ASSUME apart PROVE Hits(t, pt) = Hits(ec, es)
    <2>1. \A i \in DOMAIN ec, j \in DOMAIN es :
             FinalTag(ec[i]) = FinalTag(es[j]) => ec[i] = es[j]
      <3> TAKE i \in DOMAIN ec, j \in DOMAIN es
      <3>1. Alone(es[j])
        BY <1>7 DEF Values
      <3> QED BY <3>1 DEF Alone, Values
    <2> QED BY <1>2, <2>1 DEF Hits
  <1> HIDE DEF common, apart
  <1>8. apart => found = common
    BY <1>1, <1>7 DEF common
  <1> QED BY <1>6, <1>8

-----------------------------------------------------------------------------
(* The shape of a step.                                                    *)

Advance(p) == status[p] = "run" /\ step' = [step EXCEPT ![p] = @ + 1]
Stay == step' = step

\* A step starts a party's next call, ends it, or changes neither.
LEMMA Shape ==
    ASSUME IInv, [Next]_vars
    PROVE  /\ UNCHANGED inputVars
           /\ \/ UNCHANGED <<status, found, result>> /\ (Stay \/ \E p \in Role : Advance(p))
              \/ \E p \in Role : /\ status[p] = "run" /\ Stay /\ result' = result
                                 /\ p # CLIENT => found' = found
                                 /\ \E st \in {"err", "dead"} :
                                       status' = [status EXCEPT ![p] = st]
              \/ At(SERVER, Find, "send") /\ Stay /\ UNCHANGED <<found, result>>
                 /\ status' = [status EXCEPT ![SERVER] = "done"]
              \/ At(CLIENT, Find, "send") /\ Stay /\ FindIntersection
                 /\ status' = [status EXCEPT ![CLIENT] = "done"]
  <1> DEFINE Fine == UNCHANGED <<status, found, result>> /\ (Stay \/ \E p \in Role : Advance(p))
             Stop(p) == /\ status[p] = "run" /\ Stay /\ result' = result
                        /\ p # CLIENT => found' = found
                        /\ \E st \in {"err", "dead"} : status' = [status EXCEPT ![p] = st]
  <1>0. TypeOK /\ \A p \in Role : step[p] \in Read..Find /\ [step EXCEPT ![p] = step[p]] = step
    BY DEF IInv, TypeOK
  <1>1. ASSUME NEW p \in Role, NEW st \in {"err", "dead"}, status[p] = "run", End(p, st)
        PROVE  Stop(p)
    BY <1>1 DEF End, Stay
  <1>2. ASSUME NEW p \in Role, NEW ph, Goto(p, step[p], ph) PROVE UNCHANGED status /\ Stay
    BY <1>0, <1>2 DEF Goto, Stay
  <1>3. ASSUME NEW p \in Role, NEW ph, status[p] = "run", Goto(p, step[p] + 1, ph)
        PROVE  UNCHANGED status /\ Advance(p)
    BY <1>3 DEF Goto, Advance
  <1>4. ASSUME NEW p \in Role, StartTransfer(p) PROVE UNCHANGED status /\ Stay
    BY <1>2, <1>4 DEF StartTransfer
  <1>5. ASSUME NEW p \in Role, status[p] = "run", GotoNext(p)
        PROVE  UNCHANGED status /\ (Stay \/ Advance(p))
    BY <1>2, <1>3, <1>5 DEF GotoNext
  <1> HIDE DEF Stay, Advance
  <1>6. ASSUME NEW p \in Role, status[p] = "run", NEW v, Received(p, v)
        PROVE  UNCHANGED status /\ (Stay \/ Advance(p))
    BY <1>2, <1>5, <1>6 DEF Received
  <1>7. ASSUME NEW p \in Role, ReadElements(p) PROVE UNCHANGED inputVars /\ (Fine \/ Stop(p))
    <2>1. step[p] = Read /\ status[p] = "run" /\ Read + 1 = Info
      BY <1>7, StepNumbers DEF ReadElements, At
    <2>2. CASE Goto(p, Info, "send") /\ UNCHANGED outVars
      BY <1>3, <2>1, <2>2, <1>7 DEF ReadElements, outVars
    <2>3. CASE End(p, "dead")
      BY <1>1, <2>1, <2>3, <1>7 DEF ReadElements
    <2> QED BY <1>7, <2>2, <2>3 DEF ReadElements
  <1>8. ASSUME NEW p \in Role, KeyGen(p) \/ Sign(p)
        PROVE  UNCHANGED inputVars /\ (Fine \/ Stop(p))
    BY <1>1, <1>4, <1>8 DEF KeyGen, Sign, At, outVars
  <1>9. ASSUME NEW p \in Role, MaskOwn(p) \/ SendNext(p) \/ MaskPeer(p)
        PROVE  UNCHANGED inputVars /\ Fine
    BY <1>4, <1>9 DEF MaskOwn, SendNext, MaskPeer, outVars
  <1>10. ASSUME NEW p \in Role, Verify(p) PROVE UNCHANGED inputVars /\ (Fine \/ Stop(p))
    BY <1>1, <1>3, <1>10 DEF Verify, outVars
  <1>11. ASSUME NEW p \in Role, SendInfo(p) PROVE UNCHANGED inputVars /\ Fine
    <2>1. step[p] = Info
      BY <1>11 DEF SendInfo, At
    <2> QED BY <1>2, <1>11, <2>1 DEF SendInfo, outVars
  <1>12. ASSUME NEW p \in Role, Receive(p) \/ ReceiveEof(p)
         PROVE  UNCHANGED inputVars /\ Fine
    BY <1>6, <1>12 DEF Receive, ReceiveEof, outVars
  <1>13. ASSUME NEW p \in Role, Join(p) PROVE UNCHANGED inputVars /\ (Fine \/ Stop(p))
    BY <1>1, <1>5, <1>13 DEF Join, outVars
  <1>14. ASSUME NEW p \in Role, InfoAssert(p) \/ SigPipe(p) \/ Crash(p)
         PROVE  UNCHANGED inputVars /\ Stop(p)
    BY <1>1, <1>14 DEF InfoAssert, SigPipe, Crash, At
  <1>15. ASSUME NEW p \in Role, ThreadSend(p) \/ Reset(p)
         PROVE  UNCHANGED inputVars /\ Fine
    BY <1>15 DEF ThreadSend, Reset, partyVars, outVars, Stay
  <1>16. CASE Terminating \/ UNCHANGED vars
    BY <1>16 DEF Terminating, vars, partyVars, outVars, Stay
  <1>17. CASE Finish
    BY <1>17 DEF Finish, End, Stay
  <1>18. CASE FindIntersection
    <2>1. At(CLIENT, Find, "send") /\ status[CLIENT] = "run" /\ UNCHANGED inputVars
      BY <1>18 DEF FindIntersection, Compare, At
    <2>2. \/ End(CLIENT, "dead")
          \/ Stay /\ status' = [status EXCEPT ![CLIENT] = "done"]
      BY <1>18 DEF FindIntersection, Compare, Stay
    <2> QED BY <1>1, <1>18, <2>1, <2>2
  <1>19. ASSUME NEW p \in Role, Main(p)
         PROVE  \/ UNCHANGED inputVars /\ (Fine \/ Stop(p))
                \/ FindIntersection \/ Finish
    BY <1>19, <1>7, <1>8, <1>9, <1>10, <1>11, <1>12, <1>13, <1>14 DEF Main, Local
  <1>20. CASE \E p \in Role : Main(p)
    BY <1>19, <1>20, <1>17, <1>18
  <1>21. CASE \E p \in Role : ThreadSend(p) \/ SigPipe(p) \/ Crash(p) \/ Reset(p)
    BY <1>14, <1>15, <1>21
  <1> QED BY <1>16, <1>20, <1>21 DEF Next

\* find_intersection gives a client that completes its number, and no step
\* changes that.
LEMMA CountStep ==
    ASSUME IInv, CountInv, [Next]_vars
    PROVE  CountInv'
  <1> DEFINE count == Cardinality(Hits(Tags(Remasked(SERVER)), Tags(Remasked(CLIENT))))
  <1>1. count' = count
    <2>1. UNCHANGED inputVars
      BY Shape
    <2> QED BY <2>1, RigidMasked DEF Tags
  <1> HIDE DEF count
  <1> SUFFICES ASSUME status'[CLIENT] = "done" PROVE found' = count
    BY <1>1 DEF CountInv, count
  <1>2. CASE FindIntersection
    <2>1. /\ At(CLIENT, Find, "send") /\ step[CLIENT] = Find /\ TypeOK
          /\ status[CLIENT] = "run" /\ ReceiveInv(CLIENT) /\ BufferInv(CLIENT)
      BY <1>2 DEF IInv, PartyInv, FindIntersection, Compare, At
    <2>2. rcv[CLIENT][Pts2] = Remasked(SERVER)
      <3>1. GotAll(CLIENT, Find)
        BY <2>1 DEF ReceiveInv
      <3> QED BY <2>1, <3>1, StepNumbers DEF GotAll, Receives, Msg, Peer
    <2>3. sendBuffer[CLIENT] = Remasked(CLIENT)
      BY <2>1, StepNumbers DEF BufferInv
    <2>4. ~End(CLIENT, "dead")
      BY <2>1 DEF End, TypeOK
    <2> QED BY <1>2, <2>2, <2>3, <2>4 DEF FindIntersection, Compare, count
  <1>3. CASE ~FindIntersection
    <2>1. status[CLIENT] = "done" /\ found' = found
      <3>1. status \in [Role -> {"run", "done", "err", "dead"}]
        BY DEF IInv, TypeOK
      <3> QED BY <1>3, <3>1, Shape
    <2> QED BY <2>1 DEF CountInv, count
  <1> QED BY <1>2, <1>3

\* The number a client prints is never too small, and it counts the lines of
\* the server's file that the own file has if no two elements collide.
THEOREM AlwaysCountExact == Spec => []CountExact
  <1>1. Init => CountInv
    BY DEF Init, CountInv
  <1>2. IInv /\ CountInv /\ [Next]_vars => CountInv'
    BY CountStep
  <1>3. IInv /\ CountInv => CountExact
    BY CountOfHits
  <1> QED BY <1>1, <1>2, <1>3, Inductive, PTL DEF Spec

\* No step goes back.
LEMMA StepMono ==
    ASSUME IInv, [Next]_vars, NEW p \in Role
    PROVE  step[p] \in Int /\ step'[p] \in Int /\ step[p] <= step'[p]
  <1>1. step \in [Role -> Read..Find] /\ step[p] \in Read..Find
    BY DEF IInv, TypeOK
  <1>2. Stay \/ \E q \in Role : Advance(q)
    BY Shape
  <1>3. CASE Stay
    BY <1>1, <1>3, StepNumbers DEF Stay
  <1>4. ASSUME NEW q \in Role, Advance(q)
        PROVE  step'[p] = step[p] \/ step'[p] = step[p] + 1
    BY <1>1, <1>4 DEF Advance
  <1> QED BY <1>1, <1>2, <1>3, <1>4, StepNumbers

-----------------------------------------------------------------------------
(* Framing.                                                                *)

\* What a step may do to the end of p's stream and to its reader's place.
LEMMA StreamMoves ==
    ASSUME IInv, [Next]_vars, NEW p \in Role
    PROVE  /\ \/ written'[p] = written[p]
              \/ status'[p] = "run"
              \/ written'[p] = pos[Peer(p)]
           /\ pos'[p] = pos[p] \/ status'[p] = "run"
  <1>1. TypeOK /\ written \in [Role -> Nat] /\ pos \in [Role -> Nat]
    BY DEF IInv, TypeOK
  <1>2. CASE UNCHANGED netVars
    BY <1>2 DEF netVars
  <1>3. ASSUME NEW q \in Role, SendInfo(q) \/ ThreadSend(q)
        PROVE  /\ pos' = pos /\ status'[q] = "run"
               /\ written'[p] = written[p] \/ p = q
    BY <1>1, <1>3 DEF SendInfo, ThreadSend, At, Goto, Write, partyVars
  <1>4. ASSUME NEW q \in Role, Receive(q) \/ ReceiveEof(q)
        PROVE  /\ written' = written /\ status'[q] = "run"
               /\ pos'[p] = pos[p] \/ p = q
    BY <1>1, <1>4 DEF Receive, ReceiveEof, Received, GotoNext, Goto
  <1>5. ASSUME NEW q \in Role, Reset(q)
        PROVE  /\ pos' = pos
               /\ written'[p] = written[p] \/ written'[p] = pos[Peer(p)]
    BY <1>1, <1>5 DEF Reset
  <1>6. ASSUME NEW q \in Role, Local(q) \/ InfoAssert(q) \/ Join(q) \/ SigPipe(q) \/ Crash(q)
        PROVE  UNCHANGED netVars
    BY <1>6 DEF Local, ReadElements, KeyGen, MaskOwn, Sign, SendNext, MaskPeer, Verify,
       FindIntersection, Compare, Finish, InfoAssert, Join, SigPipe, Crash
  <1>7. CASE Terminating \/ UNCHANGED vars
    BY <1>2, <1>7 DEF Terminating, vars, netVars
  <1> QED BY <1>2, <1>3, <1>4, <1>5, <1>6, <1>7 DEF Next, Main

\* A stream ends, and is read, between two messages.
LEMMA BoundariesStep ==
    ASSUME IInv, IInv', [Next]_vars, Boundaries
    PROVE  Boundaries'
  <1>1. UNCHANGED inputVars
    BY Shape
  <1>2. ASSUME NEW p \in Role, NEW n, Boundary(p, n) PROVE Boundary(p, n)'
    <2>1. \A s : Offset(p, s)' = Offset(p, s)
      BY <1>1, Rigid
    <2> QED BY <1>2, <2>1 DEF Boundary
  <1>3. ASSUME NEW p \in Role PROVE Boundary(p, written[p])'
    <2>1. CASE written'[p] = written[p]
      BY <1>2, <2>1 DEF Boundaries, Boundary
    <2>2. CASE written'[p] = pos[Peer(p)]
      BY <1>2, <2>2 DEF Boundaries, Boundary
    <2>3. CASE status'[p] = "run"
      <3>1. StreamInv(p)' /\ ControlInv(p)' /\ TypeOK'
        BY DEF IInv, PartyInv
      <3>2. written'[p] = Offset(p, NextSent(p))'
        BY <2>3, <3>1 DEF StreamInv
      <3>3. NextSent(p)' \in Read..Find
        BY <3>1, StepNumbers DEF NextSent, ControlInv, Receives, Sends, TypeOK
      <3> QED BY <3>2, <3>3 DEF Boundary
    <2> QED BY <2>1, <2>2, <2>3, StreamMoves
  <1>4. ASSUME NEW p \in Role PROVE Boundary(Peer(p), pos[p])'
    <2>0. Peer(p) \in Role /\ Peer(Peer(p)) = p
      BY PeerFacts
    <2>1. CASE pos'[p] = pos[p]
      BY <1>2, <2>0, <2>1 DEF Boundaries, Boundary
    <2>2. CASE status'[p] = "run"
      <3>1. ReceiveInv(p)' /\ ControlInv(p)' /\ TypeOK'
        BY DEF IInv, PartyInv
      <3>2. Good(p)' \/ Bad(p)'
        BY <2>2, <3>1 DEF ReceiveInv
      <3>3. CASE Good(p)'
        <4>1. NextReceived(p)' \in Read..Find
          BY <3>1, StepNumbers DEF NextReceived, ControlInv, Receives, Sends, TypeOK
        <4> QED BY <3>3, <4>1 DEF Good, Boundary
      <3>4. CASE Bad(p)'
        BY <1>3, <2>0, <3>4 DEF Bad, Boundary
      <3> QED BY <3>2, <3>3, <3>4
    <2> QED BY <2>1, <2>2, StreamMoves
  <1> QED BY <1>3, <1>4, PeerFacts DEF Boundaries, Boundary

LEMMA FramedHolds ==
    ASSUME IInv, Boundaries
    PROVE  Framed
  <1> SUFFICES ASSUME NEW p \in Role, status[p] = "run", phase[p] = "recv",
                      pos[p] < written[Peer(p)]
               PROVE  LET n == RecvSize(p, step[p])
                      IN  n = 0 \/ \E g \in stream[Peer(p)] : g.from = pos[p] /\ g.len = n
    BY DEF Framed
  <1> DEFINE s == step[p]
             q == Peer(p)
             n == RecvSize(p, s)
  <1>1. /\ TypeOK /\ q \in Role /\ ControlInv(p) /\ ReceiveInv(p) /\ StreamInv(q)
    BY PeerFacts DEF IInv, PartyInv
  <1>2. s \in Net /\ Receives(p, s) /\ Sends(q, s) /\ s \in 1..10 /\ NextReceived(p) = s
    BY <1>1, StepNumbers DEF ControlInv, Sends, Receives, Peer, NextReceived
  <1>3. pos[p] \in Nat /\ written[q] \in Nat
    BY <1>1 DEF TypeOK
  <1>4. Good(p)
    BY <1>1, <1>3 DEF ReceiveInv, Bad
  <1>5. GotAll(p, s) /\ pos[p] = Offset(q, s)
    BY <1>2, <1>4 DEF Good
  <1>6. n = Size(q, s)
    BY <1>2, <1>5, GoodSize
  <1>7. Size(q, s) \in Nat /\ Offset(q, s) \in Nat
        /\ Offset(q, s + 1) = Offset(q, s) + Size(q, s)
    BY <1>1, <1>2, StepNumbers, SizeNat, OffsetNat, OffsetStep
  <1>8. Offset(q, s + 1) <= written[q]
    <2>1. PICK r \in Read..Find : written[q] = Offset(q, r)
      BY <1>1 DEF Boundaries, Boundary
    <2>2. Offset(q, r) > Offset(q, s)
      BY <1>5, <2>1
    <2>3. s < r
      <3> SUFFICES ASSUME r <= s PROVE FALSE
        BY <1>2, StepNumbers
      <3>1. Offset(q, r) \in Nat
        BY <1>1, OffsetNat
      <3>2. CASE r = s
        BY <1>7, <2>2, <3>2
      <3>3. CASE r = Read
        <4>1. Offset(q, Read) = 0
          BY StepNumbers DEF Offset, Fixed, Last
        <4> QED BY <1>7, <2>2, <3>3, <4>1
      <3>4. CASE r # Read /\ r < s
        <4>1. r \in Net /\ Offset(q, r + 1) <= Offset(q, s)
          BY <1>1, <1>2, <3>4, StepNumbers, OffsetMono
        <4>2. Offset(q, r + 1) = Offset(q, r) + (IF Sends(q, r) THEN Size(q, r) ELSE 0)
          BY <1>1, <4>1, OffsetStep
        <4>3. Size(q, r) \in Nat
          BY <1>1, <4>1, SizeNat
        <4> QED BY <1>7, <2>2, <3>1, <4>1, <4>2, <4>3
      <3> QED BY <1>2, <3>2, <3>3, <3>4, StepNumbers
    <2> QED BY <1>1, <1>2, <2>1, <2>3, OffsetMono
  <1>9. CASE n > 0
    <2>1. Segment(q, s) \in stream[q]
      BY <1>1, <1>2, <1>6, <1>7, <1>8, <1>9 DEF StreamInv
    <2> QED BY <1>5, <1>6, <2>1 DEF Segment
  <1> QED BY <1>6, <1>7, <1>9

\* Whatever the faults and the schedule, a Receive that finds octets finds
\* the message it is meant for.
THEOREM AlwaysFramed == Spec => []Framed
  <1>1. Init => Boundaries
    <2> SUFFICES ASSUME Init PROVE Boundaries
      OBVIOUS
    <2>1. \A p \in Role : written[p] = 0 /\ pos[Peer(p)] = 0
      BY PeerFacts DEF Init
    <2>2. \A p \in Role : Offset(p, Read) = 0
      BY StepNumbers DEF Offset, Fixed, Last
    <2> QED BY <2>1, <2>2, StepNumbers DEF Boundaries, Boundary
  <1>2. IInv /\ IInv' /\ Boundaries /\ [Next]_vars => Boundaries'
    BY BoundariesStep
  <1>3. IInv /\ Boundaries => Framed
    BY FramedHolds
  <1> QED BY <1>1, <1>2, <1>3, Inductive, PTL DEF Spec

-----------------------------------------------------------------------------
(* The buffer under the sender thread.                                     *)

\* As long as p's sender thread runs, p itself is in Receive or waits to
\* join the thread.
LEMMA SenderQuiet ==
    ASSUME IInv, [Next]_vars, NEW p \in Role,
           sender[p] = "running", sender'[p] = "running"
    PROVE  /\ step'[p] = step[p]
           /\ sendBuffer'[p] = sendBuffer[p]
           /\ sig'[p] = sig[p]
  <1> DEFINE Same == step'[p] = step[p] /\ sendBuffer'[p] = sendBuffer[p] /\ sig'[p] = sig[p]
  <1>1. /\ TypeOK /\ phase[p] \in {"recv", "join"} /\ Sends(p, step[p]) /\ step[p] # Info
        /\ phase[p] = "recv" => step[p] \in Key..Uid
    <2>1. /\ TypeOK /\ ControlInv(p) /\ step[p] \in Read..Find
      BY DEF IInv, PartyInv, TypeOK
    <2> QED BY <2>1, StepNumbers DEF ControlInv, Sends, Receives
  <1>2. /\ step \in [Role -> Read..Find] /\ DOMAIN sendBuffer = Role /\ DOMAIN sig = Role
        /\ sender \in [Role -> {"none", "running", "finished", "failed"}]
    BY <1>1 DEF TypeOK
  <1>3. ASSUME NEW q \in Role, NEW s, NEW ph, Goto(q, s, ph), q = p => s = step[p]
        PROVE  step'[p] = step[p]
    BY <1>2, <1>3 DEF Goto
  <1>4. ASSUME NEW q \in Role, q # p, NEW s, NEW ph, Goto(q, s, ph) PROVE step'[p] = step[p]
    BY <1>3, <1>4
  <1>5. ASSUME NEW q \in Role, NEW st, End(q, st) PROVE step'[p] = step[p]
    BY <1>5 DEF End
  <1>6. ASSUME NEW q \in Role, phase[q] = "send" \/ phase[q] = "verify", Local(q)
        PROVE  Same
    <2>1. q # p
      BY <1>1, <1>6
    <2>2. CASE ReadElements(q) \/ Verify(q) \/ (q = SERVER /\ Finish) \/ (q = CLIENT /\ FindIntersection)
      BY <1>4, <1>5, <2>1, <2>2 DEF ReadElements, Verify, Finish, FindIntersection, Compare, dataVars
    <2>3. CASE KeyGen(q) \/ MaskOwn(q) \/ Sign(q) \/ SendNext(q) \/ MaskPeer(q)
      <3>1. sendBuffer'[p] = sendBuffer[p] /\ sig'[p] = sig[p]
        BY <1>2, <2>1, <2>3 DEF KeyGen, MaskOwn, Sign, SendNext, MaskPeer, dataVars
      <3>2. StartTransfer(q) \/ End(q, "err")
        BY <2>3 DEF KeyGen, MaskOwn, Sign, SendNext, MaskPeer
      <3>3. step'[p] = step[p]
        BY <1>4, <1>5, <2>1, <3>2 DEF StartTransfer
      <3> QED BY <3>1, <3>3
    <2> QED BY <1>6, <2>2, <2>3 DEF Local
  <1>7. ASSUME NEW q \in Role, Local(q) PROVE Same
    <2>1. phase[q] = "send" \/ phase[q] = "verify"
      BY <1>7 DEF Local, ReadElements, KeyGen, MaskOwn, Sign, SendNext, MaskPeer, Verify,
         FindIntersection, Compare, Finish, At
    <2> QED BY <1>6, <1>7, <2>1
  <1>8. ASSUME NEW q \in Role, SendInfo(q) PROVE Same
    <2>1. q # p
      BY <1>1, <1>8 DEF SendInfo, At
    <2> QED BY <1>4, <1>8, <2>1 DEF SendInfo, dataVars
  <1>9. ASSUME NEW q \in Role, NEW v, phase[q] = "recv", Received(q, v)
        PROVE  step'[p] = step[p]
    BY <1>1, <1>3, <1>4, <1>9 DEF Received, GotoNext
  <1>10. ASSUME NEW q \in Role, Receive(q) \/ ReceiveEof(q) PROVE Same
    BY <1>9, <1>10 DEF Receive, ReceiveEof
  <1>11. ASSUME NEW q \in Role, Join(q) PROVE Same
    BY <1>4, <1>5, <1>11 DEF Join, GotoNext, dataVars
  <1>12. ASSUME NEW q \in Role, InfoAssert(q) \/ SigPipe(q) \/ Crash(q) PROVE Same
    BY <1>5, <1>12 DEF InfoAssert, SigPipe, Crash, dataVars
  <1>13. ASSUME NEW q \in Role, ThreadSend(q) \/ Reset(q) PROVE Same
    BY <1>13 DEF ThreadSend, Reset, partyVars, dataVars
  <1>14. CASE Terminating \/ UNCHANGED vars
    BY <1>14 DEF Terminating, vars, partyVars, dataVars
  <1>15. ASSUME NEW q \in Role,
                Main(q) \/ ThreadSend(q) \/ SigPipe(q) \/ Crash(q) \/ Reset(q)
         PROVE  Same
    BY <1>7, <1>8, <1>10, <1>11, <1>12, <1>13, <1>15 DEF Main
  <1>16. Same
    <2>1. CASE Next
      BY <1>14, <1>15, <2>1 DEF Next
    <2> QED BY <1>14, <2>1
  <1> QED BY <1>16 DEF Same

\* No buffer changes under the thread that sends it.
THEOREM AlwaysStable == Spec => BufferStable
  <1> DEFINE A == \A p \in Role : sender[p] = "running" /\ sender'[p] = "running" =>
                     /\ step'[p] = step[p]
                     /\ Outgoing(p, step[p])' = Outgoing(p, step[p])
  <1>1. IInv /\ [Next]_vars => A
    <2> SUFFICES ASSUME IInv, [Next]_vars, NEW p \in Role,
                        sender[p] = "running", sender'[p] = "running"
                 PROVE  /\ step'[p] = step[p]
                        /\ Outgoing(p, step[p])' = Outgoing(p, step[p])
      OBVIOUS
    <2>1. step'[p] = step[p] /\ sendBuffer'[p] = sendBuffer[p] /\ sig'[p] = sig[p]
      BY SenderQuiet
    <2>2. Neles(p)' = Neles(p)
      BY Shape, RigidMasked
    <2> QED BY <2>1, <2>2 DEF Outgoing
  <1>2. IInv /\ [Next]_vars => [A]_vars
    BY <1>1
  <1> QED BY <1>2, Inductive, PTL DEF Spec, BufferStable

-----------------------------------------------------------------------------
(* The two programs implement the ideal exchange.                          *)

\* Only a send writes.
LEMMA StreamSource ==
    ASSUME IInv, [Next]_vars, NEW p \in Role
    PROVE  stream'[p] = stream[p] \/ SendInfo(p) \/ ThreadSend(p)
  <1>1. DOMAIN stream = Role
    BY DEF IInv, TypeOK
  <1>2. ASSUME NEW q \in Role, SendInfo(q) \/ ThreadSend(q), q # p
        PROVE  stream'[p] = stream[p]
    BY <1>1, <1>2 DEF SendInfo, ThreadSend, Write
  <1>3. ASSUME NEW q \in Role,
               \/ Local(q) \/ InfoAssert(q) \/ Join(q) \/ SigPipe(q) \/ Crash(q)
               \/ Receive(q) \/ ReceiveEof(q) \/ Reset(q)
        PROVE  stream' = stream
    BY <1>3 DEF Local, ReadElements, KeyGen, MaskOwn, Sign, SendNext, MaskPeer, Verify,
       FindIntersection, Compare, Finish, InfoAssert, Join, SigPipe, Crash, Receive, ReceiveEof,
       Reset, netVars
  <1>4. CASE Terminating \/ UNCHANGED vars
    BY <1>4 DEF Terminating, vars, netVars
  <1> QED BY <1>2, <1>3, <1>4 DEF Next, Main

LEMMA RigidOffset ==
    ASSUME UNCHANGED inputVars, NEW p \in Role
    PROVE  Offset(p, NextSent(p))' = Offset(p, NextSent(p)')
  <1>1. Neles(p)' = Neles(p) /\ Neles(Peer(p))' = Neles(Peer(p))
    BY PeerFacts, RigidMasked
  <1> QED BY <1>1 DEF Offset, Last

\* What a new segment of p's stream is.
LEMMA SegmentStep ==
    ASSUME IInv, IInv', [Next]_vars, Released, NEW p \in Role, NEW g \in stream'[p]
    PROVE  \E s \in Net : Sends(p, s) /\ Size(p, s)' > 0 /\ s <= step'[p] /\ g = Segment(p, s)'
  <1>1. /\ TypeOK /\ TypeOK' /\ UNCHANGED inputVars /\ StreamInv(p)'
        /\ step[p] \in Int /\ step'[p] \in Int /\ step[p] <= step'[p]
    BY Shape, StepMono DEF IInv, PartyInv
  <1>2. \A s \in Net : Size(p, s)' = Size(p, s) /\ Offset(p, s)' = Offset(p, s)
                       /\ Msg(p, s)' = Msg(p, s) /\ Segment(p, s)' = Segment(p, s)
    BY <1>1, Rigid DEF Segment
  <1>3. CASE g \in stream[p]
    <2>1. PICK s \in Net : Sends(p, s) /\ Size(p, s) > 0 /\ s <= step[p] /\ g = Segment(p, s)
      BY <1>3 DEF Released
    <2> QED BY <1>1, <1>2, <2>1, StepNumbers
  <1>4. CASE g \notin stream[p]
    <2>1. PICK s \in Net : Sends(p, s) /\ Size(p, s)' > 0 /\ g = Segment(p, s)'
      BY <1>1 DEF StreamInv
    <2>2. \/ SendInfo(p)
          \/ ThreadSend(p)
      <3>1. \/ stream'[p] = stream[p]
            \/ SendInfo(p) \/ ThreadSend(p)
        BY StreamSource
      <3> QED BY <1>4, <3>1
    <2>3. /\ status'[p] = "run" /\ step'[p] = step[p] /\ step[p] \in Net
          /\ \E n : g.from + g.len = written'[p] /\ Write(p, n, Outgoing(p, step[p]))
      <3>0. ControlInv(p) /\ step \in [Role -> Read..Find] /\ written \in [Role -> Nat]
            /\ DOMAIN stream = Role
        BY DEF IInv, PartyInv, TypeOK
      <3>1. CASE SendInfo(p)
        <4>1. Write(p, SendSize(p, Info), Outgoing(p, Info)) /\ step[p] = Info
          BY <3>1 DEF SendInfo, At
        <4> QED BY <1>4, <3>0, <3>1, <4>1, StepNumbers DEF SendInfo, Goto, At, Write
      <3>2. CASE ThreadSend(p)
        <4>1. Write(p, SendSize(p, step[p]), Outgoing(p, step[p])) /\ Sends(p, step[p])
          BY <3>0, <3>2 DEF ThreadSend, ControlInv
        <4> QED BY <1>4, <3>0, <3>2, <4>1, StepNumbers DEF ThreadSend, partyVars, Write, Sends
      <3> QED BY <2>2, <3>1, <3>2
    <2>4. NextSent(p)' \in {step[p], step[p] + 1}
      BY <2>3 DEF NextSent
    <2>5. Offset(p, s) + Size(p, s) = written'[p] /\ written'[p] = Offset(p, NextSent(p)')
      <3>1. written'[p] = Offset(p, NextSent(p))'
        BY <1>1, <2>3 DEF StreamInv
      <3>2. Offset(p, NextSent(p))' = Offset(p, NextSent(p)')
        BY <1>1, RigidOffset
      <3> QED BY <1>2, <2>1, <2>3, <3>1, <3>2 DEF Segment
    <2>6. /\ Offset(p, s + 1) = Offset(p, s) + Size(p, s) /\ Size(p, s) > 0
          /\ Offset(p, s) \in Nat /\ Size(p, s) \in Nat
      BY <1>1, <1>2, <2>1, OffsetStep, OffsetNat, SizeNat, StepNumbers
    <2>7. ~ (step[p] < s)
      <3> SUFFICES ASSUME step[p] < s PROVE FALSE
        OBVIOUS
      <3>1. Offset(p, step[p] + 1) <= Offset(p, s)
        BY <1>1, <2>1, <2>3, OffsetMono, StepNumbers
      <3>2. Offset(p, step[p]) <= Offset(p, step[p] + 1)
        <4>1. Offset(p, step[p]) \in Nat /\ Size(p, step[p]) \in Nat
          BY <1>1, <2>3, OffsetNat, SizeNat, StepNumbers
        <4> QED BY <1>1, <2>3, <4>1, OffsetStep
      <3>3. /\ Offset(p, step[p]) \in Nat /\ Offset(p, step[p] + 1) \in Nat
        BY <1>1, <2>3, OffsetNat, StepNumbers
      <3> QED BY <2>4, <2>5, <2>6, <3>1, <3>2, <3>3
    <2> QED BY <1>1, <2>1, <2>3, <2>7, StepNumbers
  <1> QED BY <1>3, <1>4

\* What the client may hold as a signature of round 2.
LEMMA SignatureStep ==
    ASSUME IInv, [Next]_vars, Released, rcv'[CLIENT][SigX2] # Junk
    PROVE  step[SERVER] >= Pts2
  <1>1. /\ TypeOK /\ CLIENT \in Role /\ SERVER \in Role /\ Peer(CLIENT) = SERVER
        /\ DOMAIN rcv = Role /\ SigX2 \in DOMAIN rcv[CLIENT]
        /\ step[SERVER] \in Read..Find
    BY StepNumbers DEF IInv, TypeOK, Peer
  <1>2. CASE rcv'[CLIENT][SigX2] = rcv[CLIENT][SigX2]
    BY <1>2 DEF Released
  <1>3. CASE rcv'[CLIENT][SigX2] # rcv[CLIENT][SigX2]
    <2>1. \/ Receive(CLIENT) /\ step[CLIENT] = SigX2
          \/ ReceiveEof(CLIENT) /\ step[CLIENT] = SigX2
      <3>1. ASSUME NEW q \in Role, Receive(q) \/ ReceiveEof(q)
            PROVE  q = CLIENT /\ step[CLIENT] = SigX2
        BY <1>1, <1>3, <3>1 DEF Receive, ReceiveEof, Received
      <3>2. ASSUME NEW q \in Role,
                   \/ Local(q) \/ InfoAssert(q) \/ Join(q) \/ SigPipe(q) \/ Crash(q)
                   \/ SendInfo(q) \/ ThreadSend(q) \/ Reset(q)
            PROVE  rcv' = rcv
        BY <3>2 DEF Local, ReadElements, KeyGen, MaskOwn, Sign, SendNext, MaskPeer, Verify,
           FindIntersection, Compare, Finish, InfoAssert, Join, SigPipe, Crash, SendInfo, ThreadSend,
           Reset, dataVars
      <3>3. ASSUME Terminating \/ UNCHANGED vars
            PROVE  rcv' = rcv
        BY <3>3 DEF Terminating, vars, dataVars
      <3>4. rcv' # rcv
        BY <1>3
      <3> QED BY <3>1, <3>2, <3>3, <3>4 DEF Next, Main
    <2>2. CASE ReceiveEof(CLIENT) /\ step[CLIENT] = SigX2
      <3>1. rcv'[CLIENT][SigX2] = Junk
        BY <1>1, <2>2, StepNumbers DEF ReceiveEof, Received, Unreceived, KeyLeft, HalfLeft
      <3> QED BY <3>1
    <2>3. CASE Receive(CLIENT) /\ step[CLIENT] = SigX2
      <3> DEFINE n == RecvSize(CLIENT, SigX2)
      <3>1. n = 32 /\ pos[CLIENT] \in Nat /\ written[SERVER] \in Nat
        BY <1>1, StepNumbers DEF RecvSize, FixedSize, TypeOK
      <3>2. pos[CLIENT] + n <= written[SERVER] /\ status[CLIENT] = "run" /\ phase[CLIENT] = "recv"
        BY <1>1, <2>3, <3>1 DEF Receive
      <3>3. rcv'[CLIENT][SigX2] \in Content(SERVER, pos[CLIENT], n)
        BY <1>1, <2>3 DEF Receive, Received
      <3>4. PICK g \in stream[SERVER] : g.from = pos[CLIENT]
        BY <3>1, <3>3 DEF Content
      <3>5. pos[CLIENT] = Offset(SERVER, SigX2)
        <4>1. Good(CLIENT)
          BY <1>1, <3>1, <3>2 DEF IInv, PartyInv, ReceiveInv, Bad
        <4> QED BY <1>1, <2>3, <3>2, <4>1 DEF Good, NextReceived
      <3>6. PICK s \in Net : /\ Sends(SERVER, s) /\ Size(SERVER, s) > 0 /\ s <= step[SERVER]
                             /\ g = Segment(SERVER, s)
        BY <3>4 DEF Released
      <3>7. s = SigX2
        <4>1. Offset(SERVER, s) = Offset(SERVER, SigX2)
          BY <3>4, <3>5, <3>6 DEF Segment
        <4>2. SigX2 \in Net /\ Sends(SERVER, SigX2) /\ Size(SERVER, SigX2) > 0
          BY StepNumbers DEF Sends, Size, FixedSize
        <4> QED BY <1>1, <3>6, <4>1, <4>2, OffsetInjective
      <3> QED BY <1>1, <3>6, <3>7, StepNumbers
    <2> QED BY <2>1, <2>2, <2>3
  <1> QED BY <1>2, <1>3

LEMMA ReleasedStep ==
    ASSUME IInv, IInv', [Next]_vars, Released
    PROVE  Released'
  <1>1. ASSUME NEW p \in Role, NEW g \in stream'[p]
        PROVE  \E s \in Net : /\ Sends(p, s) /\ Size(p, s)' > 0 /\ s <= step'[p]
                              /\ g = Segment(p, s)'
    BY <1>1, SegmentStep
  <1>2. rcv'[CLIENT][SigX2] # Junk => step'[SERVER] >= Pts2
    BY SignatureStep, StepMono, StepNumbers
  <1> QED BY <1>1, <1>2 DEF Released, Sends

\* A client that is through with verifying has a signature of round 2.
LEMMA ClientReleased ==
    ASSUME IInv, Released, At(CLIENT, Find, "send")
    PROVE  step[SERVER] >= Pts2
  <1>1. GotAll(CLIENT, Find) /\ TypeOK
    BY DEF IInv, PartyInv, ReceiveInv, At
  <1>2. rcv[CLIENT][SigX2] = Signed(SERVER, Remasked(SERVER), SigX2)
    BY <1>1, StepNumbers DEF GotAll, Receives, Msg, Peer
  <1>3. Remasked(SERVER) \in Seq(Point)
    <2>1. elements[CLIENT] \in Seq(Element) /\ Neles(CLIENT) \in Nat
          /\ DOMAIN elements[CLIENT] = 1..Neles(CLIENT)
          /\ randC[CLIENT] \in Scalar /\ randC[SERVER] \in Scalar
      BY <1>1, NelesNat DEF TypeOK
    <2>2. \A i \in 1..Neles(CLIENT) :
             Mul(randC[SERVER], Mul(randC[CLIENT], HashPoint(elements[CLIENT][i]))) \in Point
      BY <2>1, PointAssumption
    <2>3. Remasked(SERVER) = [i \in 1..Neles(CLIENT) |->
             Mul(randC[SERVER], Mul(randC[CLIENT], HashPoint(elements[CLIENT][i])))]
      BY <2>1 DEF Remasked, Masked, Peer
    <2> QED BY <2>1, <2>2, <2>3
  <1>4. rcv[CLIENT][SigX2] \in Signature
    BY <1>2, <1>3 DEF Signature, Signed
  <1> QED BY <1>4, JunkAssumption DEF Released

\* A step of the two programs is a step of the ideal exchange or none.
LEMMA IdealStep ==
    ASSUME IInv, IInv', Released, AnswerInv', [Next]_vars
    PROVE  [Ideal!Next]_(Ideal!vars)
  <1> DEFINE Same == elements' = elements
             Rel == step[SERVER] >= Pts2
             Rel1 == step'[SERVER] >= Pts2
  <1>1. /\ TypeOK /\ elements' = elements /\ status \in [Role -> {"run", "done", "err", "dead"}]
        /\ step \in [Role -> Read..Find] /\ Alike' = Alike
    BY Shape DEF IInv, TypeOK, inputVars, Alike, FinalTag
  <1>2. CASE UNCHANGED <<status, result>> /\ (Stay \/ \E p \in Role : Advance(p))
    <2>1. Answer' = Answer
      BY <1>1, <1>2 DEF Answer
    <2>2. Rel => Rel1
      BY StepMono, StepNumbers
    <2>3. ~Rel /\ Rel1 => status[SERVER] = "run"
      BY <1>1, <1>2 DEF Stay, Advance
    <2>4. CASE Rel = Rel1
      BY <1>1, <1>2, <2>1, <2>4 DEF Ideal!vars
    <2>5. CASE ~Rel /\ Rel1
      BY <1>1, <1>2, <2>1, <2>3, <2>5 DEF Ideal!Next, Ideal!Release
    <2> QED BY <2>2, <2>4, <2>5
  <1>3. ASSUME NEW p \in Role, status[p] = "run", Stay, result' = result,
               NEW st \in {"err", "dead"}, status' = [status EXCEPT ![p] = st]
        PROVE  Ideal!Next
    <2>1. Ideal!Fail(p)
      BY <1>1, <1>3 DEF Ideal!Fail, Answer, Stay
    <2> QED BY <2>1 DEF Ideal!Next, Ideal!End, Ideal!Role
  <1>4. ASSUME At(SERVER, Find, "send"), Stay, result' = result,
               status' = [status EXCEPT ![SERVER] = "done"]
        PROVE  Ideal!Next
    <2>0. Answer' = Answer /\ Rel /\ Rel1 /\ status[SERVER] = "run"
      BY <1>1, <1>4, StepNumbers DEF Answer, Stay, At
    <2>1. Ideal!Leave
      BY <1>1, <1>4, <2>0 DEF Ideal!Leave
    <2> QED BY <2>1 DEF Ideal!Next, Ideal!End, Ideal!Role
  <1>5. ASSUME At(CLIENT, Find, "send"), Stay, status' = [status EXCEPT ![CLIENT] = "done"]
        PROVE  Ideal!Next
    <2>1. status'[CLIENT] = "done"
      BY <1>1, <1>5
    <2> DEFINE own == [p \in Role |-> Values(elements[p])]
    <2>2. /\ Answer' \in SUBSET Ideal!Shared(own[CLIENT], own[SERVER])
          /\ \A d \in Ideal!Shared(own[CLIENT], own[SERVER]) : \E a \in Answer' : <<d, a>> \in Alike
      <3>1. Ideal!Shared(own[CLIENT], own[SERVER]) =
               {d \in Values(elements[CLIENT]) :
                   \E e \in Values(elements[SERVER]) : <<d, e>> \in Alike}
        BY DEF Ideal!Shared
      <3>2. Values(elements[CLIENT])' = Values(elements[CLIENT])
            /\ Values(elements[SERVER])' = Values(elements[SERVER])
        BY <1>1
      <3> QED BY <1>1, <2>1, <3>1, <3>2 DEF AnswerInv
    <2>3. Rel
      BY <1>5, ClientReleased
    <2>4. Ideal!Learn
      BY <1>1, <1>5, <2>1, <2>2, <2>3 DEF Ideal!Learn, Stay, At
    <2> QED BY <2>4 DEF Ideal!Next, Ideal!End, Ideal!Role
  <1> QED BY <1>2, <1>3, <1>4, <1>5, Shape

\* Every run of the two programs, under any faults, is a run of the ideal
\* exchange, in which the client learns the intersection up to the elements
\* the hash table takes for equal, and only after the server has released it.
THEOREM Refinement == Spec => Implements
  <1>1. Init => Released /\ Ideal!Init
    <2> SUFFICES ASSUME Init PROVE Released /\ Ideal!Init
      OBVIOUS
    <2>1. Released
      BY StepNumbers DEF Init, Released
    <2>2. \A p \in Role : Values(elements[p]) \subseteq Element
      <3>1. \A p \in Role : elements[p] \in Seq(Element)
        BY InputsAssumption DEF Init
      <3> QED BY <3>1 DEF Values
    <2>3. Ideal!Init
      <3>1. Alike \in SUBSET (Element \X Element) /\ Ideal!Equivalence(Alike)
        BY DEF Alike, Ideal!Equivalence
      <3>2. Answer = {}
        BY DEF Init, Answer
      <3> QED BY <2>2, <3>1, <3>2, StepNumbers DEF Init, Ideal!Init, Ideal!Role
    <2> QED BY <2>1, <2>3
  <1>2. IInv /\ IInv' /\ Released /\ [Next]_vars => Released'
    BY ReleasedStep
  <1>3. IInv /\ IInv' /\ Released /\ AnswerInv' /\ [Next]_vars => [Ideal!Next]_(Ideal!vars)
    BY IdealStep
  <1>4. IInv => AnswerInv
    BY AnswerAlike
  <1> QED BY <1>1, <1>2, <1>3, <1>4, Inductive, PTL DEF Spec, Implements, Ideal!Spec
=============================================================================
