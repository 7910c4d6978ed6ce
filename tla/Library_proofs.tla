--------------------------- MODULE Library_proofs ---------------------------
(***************************************************************************)
(* What the parts below the protocol promise, proved: CThread and CEvent   *)
(* for any number of calls and of waiting threads, and the signature       *)
(* functions whichever of their calls fail.                                *)
(***************************************************************************)
EXTENDS CThread, CEvent, Sm2Calls, SequenceTheorems, TLAPS

-----------------------------------------------------------------------------
(* CThread.  Only the thread created last can still be at work, and the    *)
(* flag follows it except while Start has not assigned it yet.             *)

Working(t) == thread[t] \in {"main", "lower"}

ThreadInv ==
    /\ owner \in {"out", "starting", "joining", "exited", "undefined"}
    /\ m_bRunning \in BOOLEAN /\ created \in BOOLEAN
    /\ starts \in 0..MaxStarts /\ m_pThread \in 0..starts
    /\ thread \in [Threads -> {"none", "main", "lower", "ended", "joined"}]
    /\ \A t \in Threads : t > m_pThread => thread[t] = "none"
    /\ \A t \in Threads : Working(t) => t = m_pThread
    /\ owner = "starting" /\ created => m_pThread = starts /\ starts # 0
    /\ owner = "starting" /\ ~created =>
         \A t \in Threads : ~Working(t)
    /\ owner = "starting" /\ created =>
         thread[m_pThread] \in {"main", "lower", "ended"}
    /\ owner = "starting" /\ created /\ thread[m_pThread] = "ended" =>
         m_pThread \in overtaken
    /\ owner \notin {"starting"} => \A t \in Threads : Working(t) => m_bRunning
    /\ owner = "joining" => m_pThread # 0
    /\ owner # "starting" /\ m_bRunning =>
         m_pThread # 0 /\ thread[m_pThread] # "none"
    /\ owner # "starting" /\ m_bRunning /\ ~Working(m_pThread) => m_pThread \in overtaken
    /\ owner = "joining" /\ thread[m_pThread] = "joined" => m_pThread \in overtaken
    /\ owner = "undefined" => m_pThread \in overtaken

LEMMA ThreadInvInit == ThreadInit => ThreadInv
<1> SUFFICES ASSUME ThreadInit PROVE ThreadInv
    OBVIOUS
<1>1. m_bRunning \in BOOLEAN /\ created \in BOOLEAN /\ ~m_bRunning /\ ~created
    BY DEF ThreadInit
<1>2. owner = "out" /\ m_pThread = 0 /\ starts = 0 /\ thread = [t \in Threads |-> "none"]
    BY DEF ThreadInit
<1> QED
    BY <1>1, <1>2, MaxStartsAssumption, SMT DEF ThreadInv, Threads, Working

LEMMA ThreadInvNext == ThreadInv /\ [ThreadNext]_threadVars => ThreadInv'
<1> SUFFICES ASSUME ThreadInv, [ThreadNext]_threadVars PROVE ThreadInv'
    OBVIOUS
<1> USE MaxStartsAssumption DEF Threads
<1>1. ASSUME NEW ok \in BOOLEAN, Create(ok) PROVE ThreadInv'
    BY <1>1, SMT DEF Create, ThreadInv, MayStart, Working
<1>2. CASE Assign
    BY <1>2, SMT DEF Assign, AssignTo, ThreadInv, Working
<1>3. CASE WaitJoins
    BY <1>3, SMT DEF WaitJoins, ThreadInv, Working
<1>4. CASE Join
    BY <1>4, SMT DEF Join, ThreadInv, Working
<1>5. CASE Kill
    BY <1>5, SMT DEF Kill, ThreadInv, Working
<1>6. ASSUME NEW t \in Threads, ThreadMainReturns(t) PROVE ThreadInv'
    BY <1>6, SMT DEF ThreadMainReturns, ThreadInv, Working
<1>7. ASSUME NEW t \in Threads, LowerFlag(t) PROVE ThreadInv'
  <2>1. m_bRunning' \in BOOLEAN /\ ~m_bRunning'
      BY <1>7 DEF LowerFlag
  <2>2. /\ thread[t] = "lower" /\ thread' = [thread EXCEPT ![t] = "ended"]
        /\ overtaken' = IF owner = "starting" THEN overtaken \cup {t} ELSE overtaken
        /\ UNCHANGED <<owner, created, m_pThread, starts>>
      BY <1>7 DEF LowerFlag
  <2> QED
      BY <2>1, <2>2, SMT DEF ThreadInv, Working
<1>8. CASE UNCHANGED threadVars
    BY <1>8, SMT DEF threadVars, ThreadInv, Working
<1> QED
    BY <1>1, <1>2, <1>3, <1>4, <1>5, <1>6, <1>7, <1>8 DEF ThreadNext, WaitAtOnce

LEMMA ThreadInvWaitSound == ThreadInv => WaitSound
BY MaxStartsAssumption, SMT DEF ThreadInv, WaitSound, Threads, Working

\* Outside its calls, CThread's flag is up while ThreadMain runs, and stays up
\* after it only if the handler ended before Start assigned it (thread.h).
THEOREM WaitAlwaysSound == ThreadSpec => []WaitSound
<1>1. ThreadSpec => []ThreadInv
    BY ThreadInvInit, ThreadInvNext, PTL DEF ThreadSpec
<1> QED
    BY <1>1, ThreadInvWaitSound, PTL

-----------------------------------------------------------------------------
(* CEvent.                                                                 *)

EventInv ==
    /\ m_bManual \in BOOLEAN /\ m_bSet \in BOOLEAN /\ passed \in BOOLEAN
    /\ EventWakes

\* A set event lets someone through, is waking someone or, manual, has let
\* someone through already (thread.h, CEvent::Set and Wait).
THEOREM EventAlwaysWakes == EventSpec => []EventWakes
<1>1. ASSUME NEW manual \in BOOLEAN, NEW initial \in BOOLEAN, EventInit(manual, initial)
      PROVE EventInv
    BY <1>1 DEF EventInit, EventInv, EventWakes
<1>2. EventInv /\ [EventNext]_eventVars => EventInv'
  <2> SUFFICES ASSUME EventInv, [EventNext]_eventVars PROVE EventInv'
      OBVIOUS
  <2>1. ASSUME NEW S, SetWaking(S), sleeping = {} \/ S # {} PROVE EventInv'
    <3>1. CASE m_bSet
        BY <2>1, <3>1 DEF SetWaking, EventInv, EventWakes
    <3>2. CASE ~m_bSet
      <4>1. /\ m_bSet' = TRUE /\ passed' = FALSE /\ m_bManual' = m_bManual
            /\ woken' = woken \cup S /\ sleeping' = sleeping \ S
          BY <2>1, <3>2 DEF SetWaking
      <4>2. sleeping' # {} => woken' # {}
          BY <2>1, <4>1
      <4> QED
          BY <4>1, <4>2 DEF EventInv, EventWakes
    <3> QED
        BY <3>1, <3>2
  <2>2. CASE Reset
    <3>1. m_bSet' = FALSE /\ UNCHANGED <<m_bManual, sleeping, woken, passed>>
        BY <2>2 DEF Reset
    <3> QED
        BY <3>1, Zenon DEF EventInv, EventWakes
  <2>3. ASSUME NEW w \in Waiters, Pass(w) PROVE EventInv'
    <3>1. passed' = TRUE /\ m_bSet' = m_bManual /\ m_bManual' = m_bManual
        BY <2>3 DEF Pass
    <3> QED
        BY <3>1, Zenon DEF EventInv, EventWakes
  <2>4. ASSUME NEW w \in Waiters, Sleep(w) PROVE EventInv'
      BY <2>4 DEF Sleep, EventInv, EventWakes
  <2>5. ASSUME NEW w \in Waiters, WakeSpuriously(w) PROVE EventInv'
    <3>1. w \in woken'
        BY <2>5 DEF WakeSpuriously
    <3> QED
        BY <2>5, <3>1 DEF WakeSpuriously, EventInv, EventWakes
  <2>6. CASE UNCHANGED eventVars
      BY <2>6, SMT DEF eventVars, EventInv, EventWakes
  <2>7. Set => EventInv'
      BY <2>1 DEF Set
  <2> QED
      BY <2>2, <2>3, <2>4, <2>5, <2>6, <2>7 DEF EventNext, Wait
<1>3. EventSpec => EventInv
    BY <1>1 DEF EventSpec
<1> QED
    BY <1>2, <1>3, PTL DEF EventSpec, EventInv

-----------------------------------------------------------------------------
(* Sm2Calls.  What the proof needs of the tables, for each function.       *)

Constructors == {"new_ECC_sm2", "new_ECC_Point", "new_BN"}
Safe == {"newRandBN", "newPRNG", "IppBNStoIpp8u"}     \* return no error
Called == Constructors \cup Safe \cup Loops
Calling == {"make", "try", "do"}
Unseen(f) == (IF f = "sign_and_verify" THEN {"pBBSSignX", "pBBSSignY"} ELSE {})
             \cup (IF f = "sign_verify_init" THEN {"pX", "pY"} ELSE {})

\* The pointers of the functions that cannot fail.
SafeBlocks(f) == IF f = "newRandBN" THEN {"pBuffer", "it"}
                 ELSE IF f = "newPRNG" THEN {"seed", "augm", "it", "pTmp"}
                 ELSE {"dBNR", "BigNum", "it"}

Blocks ==
    {"it", "seed", "augm", "pTmp", "pBuffer", "dBNR", "BigNum", "hash_handle", "pECCPS",
     "ephPrivateKey", "ephPublicKey", "regPrivateKey", "regPublicKey", "pPRNGS",
     "pX", "pY", "pMsg", "pSignX", "pSignY", "signX", "signY", "ipp8uSignX", "ipp8uSignY",
     "pBBSSignX", "pBBSSignY", "pukSendBuffer", "pukRecvBuffer", "px", "py", "pkx", "pky"}
Step == [op : {"check", "malloc", "new", "make", "try", "do", "follow", "verify"},
         fn : Called \cup {""}, ptr : Blocks \cup {""}]

\* What the invariant needs of the steps of f: whom they call, which pointers
\* they leave unchecked, what they allocate.
StepsOf(f) ==
    {s \in Step :
        /\ s.op \in Calling => s.fn \in Called
        /\ s.op = "do" => s.fn \in Loops
        /\ s.op = "try" => s.ptr \in Unseen(f)
        /\ s.op \in {"malloc", "new", "make", "try"} => s.ptr # ""
        /\ f \in Constructors => s.op \in {"check", "malloc"} /\ s.ptr \in {"", "it"}
        /\ f \in Safe => s.op = "new" /\ s.ptr \in SafeBlocks(f)}

\* Sequences of steps of a set.
LEMMA ChecksSeq ==
    ASSUME NEW S, Check \in S, NEW n \in Nat
    PROVE  Checks(n) \in Seq(S) /\ Len(Checks(n)) = n
BY IsASeq DEF Checks

LEMMA Joined ==
    ASSUME NEW S, NEW s \in Seq(S), NEW t \in Seq(S)
    PROVE  s \o t \in Seq(S)
BY ConcatProperties

\* The tables have such steps only, one kind of function after the other.
LEMMA StepsOfCallers ==
    ASSUME NEW f \in Loops \cup Entered
    PROVE  /\ Check \in StepsOf(f) /\ VerifySM2 \in StepsOf(f)
           /\ \A p \in Blocks : /\ Malloc(p) \in StepsOf(f) /\ New(p) \in StepsOf(f)
                               /\ Follow(p) \in StepsOf(f)
           /\ \A g \in Called, p \in Blocks : Make(g, p) \in StepsOf(f)
           /\ \A g \in Loops : Do(g) \in StepsOf(f)
           /\ \A p \in Unseen(f) : Try("new_BN", p) \in StepsOf(f)
<1>1. f \notin Safe /\ f \notin Constructors
    BY DEF Loops, Entered, Safe, Constructors
<1>2. "" \notin Blocks /\ Unseen(f) \subseteq Blocks /\ "new_BN" \in Called /\ Loops \subseteq Called
    BY DEF Blocks, Unseen, Called, Constructors
<1> HIDE DEF Blocks, Called, Loops, Unseen, Safe, Constructors
<1>3. Check \in StepsOf(f) /\ VerifySM2 \in StepsOf(f)
  <2>1. Check \in StepsOf(f)
      BY <1>1 DEF StepsOf, Step, Calling, Check
  <2>2. VerifySM2 \in StepsOf(f)
      BY <1>1 DEF StepsOf, Step, Calling, VerifySM2
  <2> QED
      BY <2>1, <2>2
<1>4. ASSUME NEW p \in Blocks 
      PROVE  Malloc(p) \in StepsOf(f) /\ New(p) \in StepsOf(f) /\ Follow(p) \in StepsOf(f)
  <2>1. Malloc(p) \in StepsOf(f)
      BY <1>1, <1>2 DEF StepsOf, Step, Calling, Malloc
  <2>2. New(p) \in StepsOf(f)
      BY <1>1, <1>2 DEF StepsOf, Step, Calling, New
  <2>3. Follow(p) \in StepsOf(f)
      BY <1>1, <1>2 DEF StepsOf, Step, Calling, Follow
  <2> QED
      BY <2>1, <2>2, <2>3
<1>5. ASSUME NEW g \in Called, NEW p \in Blocks PROVE Make(g, p) \in StepsOf(f)
    BY <1>1, <1>2 DEF StepsOf, Step, Calling, Make
<1>6. ASSUME NEW g \in Loops PROVE Do(g) \in StepsOf(f)
    BY <1>1, <1>2 DEF StepsOf, Step, Calling, Do
<1>7. ASSUME NEW p \in Unseen(f) PROVE Try("new_BN", p) \in StepsOf(f)
    BY <1>1, <1>2 DEF StepsOf, Step, Calling, Try
<1> QED
    BY <1>3, <1>4, <1>5, <1>6, <1>7

LEMMA ConstructorSteps ==
    ASSUME NEW f \in Constructors
    PROVE  Check \in StepsOf(f) /\ Malloc("it") \in StepsOf(f)
<1>1. f \notin Safe
    BY DEF Safe, Constructors
<1>2. "it" \in Blocks
    BY DEF Blocks
<1> HIDE DEF Blocks, Safe, Constructors
<1>3. Check \in StepsOf(f)
    BY <1>1 DEF StepsOf, Step, Calling, Check
<1>4. Malloc("it") \in StepsOf(f)
    BY <1>1, <1>2 DEF StepsOf, Step, Calling, Malloc
<1> QED
    BY <1>3, <1>4

LEMMA SafeSteps ==
    ASSUME NEW f \in Safe, NEW p \in SafeBlocks(f)
    PROVE  New(p) \in StepsOf(f)
<1>1. f \notin Constructors /\ p \in Blocks /\ "" \notin Blocks
    BY DEF Safe, Constructors, SafeBlocks, Blocks
<1> HIDE DEF Safe, Constructors, SafeBlocks, Blocks
<1> QED
    BY <1>1 DEF StepsOf, Step, Calling, New

LEMMA Bodies ==
    ASSUME NEW f \in Called \cup Entered
    PROVE  Body(f) \in Seq(StepsOf(f))
<1> DEFINE S == StepsOf(f)
<1>1. CASE f \in Constructors
  <2>1. Check \in S /\ Malloc("it") \in S
      BY <1>1, ConstructorSteps
  <2>2. Body(f) \in {Constructor(1), Constructor(2)}
      BY <1>1 DEF Body, Constructors
  <2> HIDE DEF S
  <2>3. <<Check, Malloc("it")>> \in Seq(S)
      BY <2>1
  <2>4. Checks(1) \in Seq(S) /\ Checks(2) \in Seq(S)
      BY <2>1, ChecksSeq
  <2>5. Constructor(1) \in Seq(S) /\ Constructor(2) \in Seq(S)
      BY <2>3, <2>4, Joined DEF Constructor
  <2> QED
      BY <2>2, <2>5 DEF S
<1>2. CASE f \in Safe
  <2>1. \A p \in SafeBlocks(f) : New(p) \in S
      BY <1>2, SafeSteps
  <2>2. Body(f) = IF f = "newRandBN" THEN <<New("pBuffer"), New("it")>>
                  ELSE IF f = "newPRNG"
                  THEN <<New("seed"), New("augm"), New("it"), New("pTmp")>>
                  ELSE <<New("dBNR"), New("BigNum"), New("it")>>
      BY <1>2 DEF Body, Safe, NewPRNG, ToOctets
  <2> HIDE DEF S
  <2>3. CASE f = "newRandBN"
    <3>1. New("pBuffer") \in S /\ New("it") \in S
        BY <2>1, <2>3 DEF SafeBlocks
    <3> QED
        BY <2>2, <2>3, <3>1 DEF S
  <2>4. CASE f = "newPRNG"
    <3>1. New("seed") \in S /\ New("augm") \in S /\ New("it") \in S /\ New("pTmp") \in S
        BY <2>1, <2>4 DEF SafeBlocks
    <3> QED
        BY <2>2, <2>4, <3>1 DEF S
  <2>5. CASE f = "IppBNStoIpp8u"
    <3>1. New("dBNR") \in S /\ New("BigNum") \in S /\ New("it") \in S
        BY <2>1, <2>5 DEF SafeBlocks
    <3> QED
        BY <2>2, <2>5, <3>1 DEF S
  <2> QED
      BY <1>2, <2>3, <2>4, <2>5 DEF Safe
<1>3. ASSUME f \in Loops \cup Entered PROVE Body(f) \in Seq(S)
  <2>1. Check \in S /\ VerifySM2 \in S
      BY <1>3, StepsOfCallers
  <2>2. \A p \in Blocks : Malloc(p) \in S /\ New(p) \in S /\ Follow(p) \in S
      BY <1>3, StepsOfCallers
  <2>3. \A g \in Called, p \in Blocks : Make(g, p) \in S
      BY <1>3, StepsOfCallers
  <2>4. \A g \in Loops : Do(g) \in S
      BY <1>3, StepsOfCallers
  <2>5. \A p \in Unseen(f) : Try("new_BN", p) \in S
      BY <1>3, StepsOfCallers
  <2>6. f \in Loops => Body(f) \in {DigestZ, Digest, DoSign, DoVerify}
      BY DEF Body, Loops
  <2>7. /\ f = "sign_and_verify server" => Body(f) = SignAndSend
        /\ f = "sign_and_verify" => Body(f) = SignAndVerify
        /\ f = "sign_verify_init" => Body(f) = SignVerifyInit
      BY DEF Body
  <2> HIDE DEF S
  <2> USE DEF Called, Constructors, Safe, Loops
  <2>8. Checks(10) \in Seq(S) /\ Checks(3) \in Seq(S) /\ Checks(4) \in Seq(S)
      BY <2>1, ChecksSeq
  <2>9. DigestZ \in Seq(S)
    <3>1. <<Malloc("hash_handle")>> \in Seq(S)
        BY <2>2 DEF Blocks
    <3> QED
        BY <3>1, <2>8, Joined DEF DigestZ
  <2>10. Digest \in Seq(S)
    <3>1. <<Do("hash_digest_z"), Check, Malloc("hash_handle")>> \in Seq(S)
        BY <2>1, <2>2, <2>4 DEF Blocks
    <3> QED
        BY <3>1, <2>8, Joined DEF Digest
  <2>11. DoVerify \in Seq(S)
      BY <2>1, <2>3, <2>4 DEF DoVerify, Blocks
  <2>12. DoSign \in Seq(S)
    <3> DEFINE first == <<Make("new_ECC_sm2", "pECCPS"), Make("new_BN", "ephPrivateKey"),
                 Make("new_ECC_Point", "ephPublicKey"),
                 Make("new_ECC_Point", "regPublicKey"),
                 Check, Make("newPRNG", "pPRNGS"), Check,
                 Make("new_BN", "pX"), Make("new_BN", "pY"), Check,
                 Do("hash_digest_with_preprocess"), Make("new_BN", "pMsg")>>
    <3>1. first \in Seq(S)
        BY <2>1, <2>3, <2>4 DEF Blocks
    <3>2. DoSign = first \o Checks(3)
        BY DEF DoSign
    <3> HIDE DEF first
    <3> QED
        BY <3>1, <3>2, <2>8, Joined
  <2>13. SignAndSend \in Seq(S)
      BY <2>2, <2>3, <2>4 DEF SignAndSend, Blocks
  <2>14. CASE f \in Loops
      BY <2>6, <2>9, <2>10, <2>11, <2>12, <2>14
  <2>15. CASE f = "sign_and_verify server"
      BY <2>7, <2>13, <2>15
  <2>16. CASE f = "sign_and_verify"
    <3> DEFINE tail == <<Try("new_BN", "pBBSSignX"), Try("new_BN", "pBBSSignY"),
                         Do("sm2_do_verify")>>
    <3>1. tail \in Seq(S)
        BY <2>4, <2>5, <2>16 DEF Unseen
    <3>2. SignAndVerify = SignAndSend \o tail
        BY DEF SignAndVerify
    <3> HIDE DEF tail
    <3> QED
        BY <2>7, <2>13, <2>16, <3>1, <3>2, Joined
  <2>17. CASE f = "sign_verify_init"
    <3>1. Try("new_BN", "pX") \in S /\ Try("new_BN", "pY") \in S
        BY <2>5, <2>17 DEF Unseen
    <3>2. SignVerifyInit \in Seq(S)
        BY <2>1, <2>2, <2>3, <3>1 DEF SignVerifyInit, Blocks
    <3> QED
        BY <2>7, <2>17, <3>2
  <2> QED
      BY <1>3, <2>14, <2>15, <2>16, <2>17 DEF Entered
<1> QED
    BY <1>1, <1>2, <1>3 DEF Called

LEMMA StepFacts ==
    ASSUME NEW f \in Called \cup Entered
    PROVE  /\ Len(Body(f)) \in Nat
           /\ \A k \in 1 .. Len(Body(f)) :
                /\ Body(f)[k] \in StepsOf(f)
                /\ Body(f)[k].ptr \in Pointers(f)
<1>1. Body(f) \in Seq(StepsOf(f))
    BY Bodies
<1>2. DOMAIN Body(f) = 1 .. Len(Body(f)) /\ Len(Body(f)) \in Nat
    BY <1>1
<1> QED
    BY <1>1, <1>2 DEF Pointers

\* The last step of a verification looks at the pointers, and that of
\* sign_and_verify is the verification.
LEMMA LastSteps ==
    /\ Len(Body("sm2_do_verify")) = 9
    /\ Body("sm2_do_verify")[9].op = "verify"
    /\ Len(Body("sign_and_verify")) = 10
    /\ Body("sign_and_verify")[10].fn = "sm2_do_verify"
    /\ Body("sign_and_verify")[10].op = "do"
<1>0. VerifySM2.op = "verify" /\ Do("sm2_do_verify").fn = "sm2_do_verify"
      /\ Do("sm2_do_verify").op = "do"
    BY DEF VerifySM2, Do
<1>1. Body("sm2_do_verify") = DoVerify /\ Body("sign_and_verify") = SignAndVerify
    BY DEF Body
<1>2. Len(DoVerify) = 9 /\ DoVerify[9] = VerifySM2
    BY DEF DoVerify
<1>3. Len(SignAndSend) = 7 /\ SignAndSend \in Seq({SignAndSend[k] : k \in 1 .. 7})
    BY DEF SignAndSend
<1> DEFINE tail == <<Try("new_BN", "pBBSSignX"), Try("new_BN", "pBBSSignY"),
                     Do("sm2_do_verify")>>
           All == {SignAndSend[k] : k \in 1 .. 7} \cup {tail[k] : k \in 1 .. 3}
<1>4. Len(tail) = 3 /\ tail[3] = Do("sm2_do_verify") /\ tail \in Seq({tail[k] : k \in 1 .. 3})
    OBVIOUS
<1>5. SignAndVerify = SignAndSend \o tail
    BY DEF SignAndVerify
<1> HIDE DEF tail
<1>6. SignAndSend \in Seq(All) /\ tail \in Seq(All)
    BY <1>3, <1>4, SeqMonotonic
<1> HIDE DEF All
<1>7. /\ Len(SignAndSend \o tail) = Len(SignAndSend) + Len(tail)
      /\ \A i \in 1 .. Len(SignAndSend) + Len(tail) :
            (SignAndSend \o tail)[i] = IF i <= Len(SignAndSend) THEN SignAndSend[i]
                                       ELSE tail[i - Len(SignAndSend)]
    BY ONLY <1>6, ConcatProperties
<1>8. Len(SignAndVerify) = 10 /\ SignAndVerify[10] = tail[3]
    BY <1>3, <1>4, <1>5, <1>7
<1> QED
    BY <1>1, <1>2, <1>4, <1>8, <1>0, Zenon

\* What a function still holds when it has returned.
LEMMA Leaves ==
    /\ \A f \in Loops, e \in BOOLEAN : Pointers(f) \subseteq Releases(f, e)
    /\ \A f \in Constructors : Pointers(f) \subseteq Releases(f, TRUE) \cup {""}
    /\ \A f \in Constructors \cup Safe, e \in BOOLEAN :
          Pointers(f) \subseteq Releases(f, e) \cup {"", "it", "dBNR"}
    /\ \A f \in Entered : Pointers(f) \subseteq Releases(f, FALSE) \cup Kept
<1>1. ASSUME NEW f \in Loops, NEW e \in BOOLEAN PROVE Pointers(f) \subseteq Releases(f, e)
  <2>1. ReleasesAtEnd(f, e) = Pointers(f)
      BY DEF ReleasesAtEnd, Loops
  <2> QED
      BY <2>1 DEF Releases
<1>2. ASSUME NEW f \in Constructors \cup Safe
      PROVE  /\ f \in Constructors => Pointers(f) \subseteq {"", "it"}
             /\ f \in Safe => Pointers(f) \subseteq SafeBlocks(f)
  <2>1. Body(f) \in Seq(StepsOf(f)) /\ DOMAIN Body(f) = 1 .. Len(Body(f))
      BY Bodies DEF Called
  <2>2. \A k \in DOMAIN Body(f) : Body(f)[k] \in StepsOf(f)
      BY <2>1
  <2>3. /\ f \in Constructors => \A s \in StepsOf(f) : s.ptr \in {"", "it"}
        /\ f \in Safe => \A s \in StepsOf(f) : s.ptr \in SafeBlocks(f)
      BY DEF StepsOf, SafeBlocks, Safe
  <2> QED
      BY <2>2, <2>3 DEF Pointers
<1>3. ASSUME NEW f \in Constructors PROVE Pointers(f) \subseteq Releases(f, TRUE) \cup {""}
    BY <1>2 DEF Releases, ReleasesAtEnd, Constructors, Loops
<1>4. ASSUME NEW f \in Constructors \cup Safe, NEW e \in BOOLEAN
      PROVE  Pointers(f) \subseteq Releases(f, e) \cup {"", "it", "dBNR"}
  <2>1. CASE f \in Constructors
      BY <1>2, <2>1
  <2>2. CASE f \in Safe
      BY <1>2, <2>2 DEF Releases, ReleasesAtEnd, SafeBlocks, Safe, Loops
  <2> QED
      BY <2>1, <2>2
<1>5. ASSUME NEW f \in Entered PROVE Pointers(f) \subseteq Releases(f, FALSE) \cup Kept
    BY DEF Releases, ReleasesAtEnd, Entered, Loops, Kept
<1> QED
    BY <1>1, <1>3, <1>4, <1>5

-----------------------------------------------------------------------------
(* The inductive invariant: the stack is a chain of calls, each block has    *)
(* an owner on it, and a failure nobody saw has left a null pointer.         *)

Frame == [fn : Called \cup Entered, at : Nat \ {0}]

CallTypes ==
    /\ stack \in Seq(Frame)
    /\ heap \subseteq (Nat \ {0}) \X Blocks
    /\ null \subseteq Blocks
    /\ failing \in BOOLEAN /\ crashed \in BOOLEAN /\ faults \in BOOLEAN

\* Each function but the top one is at the step that called the next.
StackInv ==
    /\ \A i \in 1 .. Len(stack) :
          LET body == Body(stack[i].fn)
          IN  /\ stack[i].at <= Len(body) + 1
              /\ i = 1 <=> stack[i].fn \in Entered
              /\ i < Len(stack) => /\ stack[i].at <= Len(body)
                                   /\ body[stack[i].at].op \in Calling
                                   /\ body[stack[i].at].fn = stack[i + 1].fn
    /\ failing /\ stack # <<>> => Top.fn \notin Safe

\* Each block belongs to a function on the stack, or may be left.
HeapInv ==
    \A b \in heap :
        \/ b[2] = "dBNR"
        \/ b[1] \in 1 .. Len(stack) /\ b[2] \in Pointers(stack[b[1]].fn)
        \/ stack = <<>> /\ b[1] = 1 /\ (failing \/ b[2] \in Kept)

\* A failure nobody looked at has left a null pointer, and a verification does
\* not get past its last step with one.
NullInv ==
    /\ failing => faults
    /\ faults /\ ~failing => null # {}
    /\ stack # <<>> => null \subseteq Unseen(stack[1].fn)
    /\ stack = <<>> /\ ~failing => null \subseteq {"pX", "pY"}
    /\ \A i \in 1 .. Len(stack) :
          stack[i].fn = "sm2_do_verify" /\ stack[i].at = 10 => null = {}
    /\ stack # <<>> /\ ~failing =>
          (stack[1].fn = "sign_and_verify" /\ stack[1].at = 11 => null = {})

CallInv == CallTypes /\ StackInv /\ HeapInv /\ NullInv

LEMMA CallInvInit == (\E f \in Entered : CallInit(f)) => CallInv
<1> SUFFICES ASSUME NEW f \in Entered, CallInit(f) PROVE CallInv
    OBVIOUS
<1>1. stack = <<[fn |-> f, at |-> 1]>> /\ heap = {} /\ null = {} /\ faults = FALSE
      /\ failing = FALSE /\ crashed = FALSE
    BY DEF CallInit
<1>2. [fn |-> f, at |-> 1] \in Frame
    BY DEF Frame
<1>3. CallTypes
  <2>1. <<[fn |-> f, at |-> 1]>> \in Seq(Frame)
      BY <1>2
  <2> QED
      BY <1>1, <2>1 DEF CallTypes
<1>4. Len(stack) = 1 /\ stack[1] = [fn |-> f, at |-> 1] /\ stack # <<>>
    BY <1>1
<1>5. Len(Body(f)) \in Nat
    BY StepFacts
<1>6. StackInv
    BY <1>1, <1>4, <1>5 DEF StackInv
<1>7. HeapInv /\ NullInv
    BY <1>1, <1>4 DEF HeapInv, NullInv
<1> QED
    BY <1>3, <1>6, <1>7 DEF CallInv

\* What a step does to the stack.
LEMMA PastFacts ==
    ASSUME NEW s \in Seq(Frame), s # <<>>
    PROVE  /\ Past(s) \in Seq(Frame) /\ Len(Past(s)) = Len(s) /\ Past(s) # <<>>
           /\ \A i \in 1 .. Len(s) : Past(s)[i].fn = s[i].fn
           /\ \A i \in 1 .. Len(s) - 1 : Past(s)[i] = s[i]
           /\ Past(s)[Len(s)].at = s[Len(s)].at + 1
<1> DEFINE n == Len(s)
           e == [s[n] EXCEPT !.at = @ + 1]
<1>1. n \in 1 .. Len(s) /\ s[n] \in Frame /\ n \in Nat
    BY EmptySeq, ElementOfSeq
<1>2. e \in Frame /\ e.fn = s[n].fn /\ e.at = s[n].at + 1
    BY <1>1 DEF Frame
<1>3. Past(s) = [s EXCEPT ![n] = e]
    BY DEF Past
<1> HIDE DEF e, n
<1>4. /\ Past(s) \in Seq(Frame) /\ Len(Past(s)) = Len(s)
      /\ \A j \in 1 .. Len(s) : Past(s)[j] = IF j = n THEN e ELSE s[j]
    BY <1>1, <1>2, <1>3, ExceptSeq
<1> QED
    BY <1>1, <1>2, <1>4 DEF n

\* The step at hand.
LEMMA TopFacts ==
    ASSUME CallTypes, StackInv, Running
    PROVE  /\ Depth \in Nat \ {0} /\ Depth \in 1 .. Len(stack)
           /\ Top \in Frame /\ Top.at <= Len(Body(Top.fn)) + 1
           /\ Len(Body(Top.fn)) \in Nat
           /\ Top.at <= Len(Body(Top.fn)) =>
                /\ StepNow \in StepsOf(Top.fn)
                /\ StepNow.ptr \in Pointers(Top.fn)
<1>1. Depth \in Nat \ {0} /\ Depth \in 1 .. Len(stack)
    BY EmptySeq DEF CallTypes, Running, Depth
<1>2. Top \in Frame
    BY <1>1, ElementOfSeq DEF CallTypes, Top
<1>3. Top.at <= Len(Body(Top.fn)) + 1
    BY <1>1 DEF StackInv, Top
<1>4. Top.fn \in Called \cup Entered /\ Top.at \in Nat \ {0}
    BY <1>2 DEF Frame
<1>5. /\ Len(Body(Top.fn)) \in Nat
      /\ \A k \in 1 .. Len(Body(Top.fn)) : /\ Body(Top.fn)[k] \in StepsOf(Top.fn)
                                           /\ Body(Top.fn)[k].ptr \in Pointers(Top.fn)
    BY <1>4, StepFacts
<1> QED
    BY <1>1, <1>2, <1>3, <1>4, <1>5 DEF StepNow

\* One lemma for each way to go on.
LEMMA CallSucceed == CallInv /\ Succeed => CallInv'
<1> SUFFICES ASSUME CallInv, Succeed PROVE CallInv'
    OBVIOUS
<1> USE DEF CallInv
<1>1. /\ Running /\ ~failing /\ Top.at <= Len(Body(Top.fn))
      /\ StepNow.op \in {"check", "malloc", "new", "verify", "follow"}
      /\ StepNow.op = "verify" => null = {}
      /\ stack' = Past(stack)
      /\ heap' = IF StepNow.op \in {"malloc", "new"} THEN heap \cup {<<Depth, StepNow.ptr>>}
                                                     ELSE heap
      /\ UNCHANGED <<null, failing, crashed, faults>>
    BY DEF Succeed, AtStep
<1>2. stack \in Seq(Frame) /\ stack # <<>>
    BY <1>1 DEF CallTypes, Running
<1>3. /\ stack' \in Seq(Frame) /\ Len(stack') = Len(stack) /\ stack' # <<>>
      /\ \A i \in 1 .. Len(stack) : stack'[i].fn = stack[i].fn
      /\ \A i \in 1 .. Len(stack) - 1 : stack'[i] = stack[i]
      /\ stack'[Len(stack)].at = stack[Len(stack)].at + 1
    BY <1>1, <1>2, PastFacts
<1>4. /\ Depth \in Nat \ {0} /\ Depth = Len(stack) /\ Top = stack[Len(stack)] /\ Top \in Frame
      /\ StepNow \in StepsOf(Top.fn) /\ StepNow.ptr \in Pointers(Top.fn)
      /\ Len(Body(Top.fn)) \in Nat
    BY <1>1, TopFacts DEF Depth, Top
<1>5. CallTypes'
  <2>1. StepNow.op \in {"malloc", "new"} => StepNow.ptr \in Blocks
      BY <1>4 DEF StepsOf, Step
  <2>2. heap' \subseteq (Nat \ {0}) \X Blocks
      BY <1>1, <1>4, <2>1 DEF CallTypes
  <2> QED
      BY <1>1, <1>3, <2>2 DEF CallTypes
<1>6. StackInv'
  <2>1. ASSUME NEW i \in 1 .. Len(stack)
        PROVE  /\ stack'[i].at <= Len(Body(stack'[i].fn)) + 1
               /\ i = 1 <=> stack'[i].fn \in Entered
               /\ i < Len(stack) => /\ stack'[i].at <= Len(Body(stack'[i].fn))
                                    /\ Body(stack'[i].fn)[stack'[i].at].op \in Calling
                                    /\ Body(stack'[i].fn)[stack'[i].at].fn = stack'[i + 1].fn
    <3>1. CASE i = Len(stack)
      <4>1. Top.at \in Nat /\ stack'[i].at = Top.at + 1 /\ stack'[i].fn = Top.fn
          BY <1>3, <1>4, <3>1 DEF Frame
      <4>2. i = 1 <=> Top.fn \in Entered
          BY <1>4, <3>1 DEF StackInv
      <4> QED
          BY <1>1, <1>4, <3>1, <4>1, <4>2
    <3>2. CASE i < Len(stack)
      <4>1. i \in 1 .. Len(stack) - 1 /\ i + 1 \in 1 .. Len(stack)
          BY <1>4, <3>2
      <4> QED
          BY <1>3, <3>2, <4>1 DEF StackInv
    <3> QED
        BY <1>4, <3>1, <3>2
  <2> QED
      BY <1>1, <1>3, <2>1 DEF StackInv
<1>7. HeapInv'
  <2> SUFFICES ASSUME NEW b \in heap'
               PROVE  \/ b[2] = "dBNR"
                      \/ b[1] \in 1 .. Len(stack') /\ b[2] \in Pointers(stack'[b[1]].fn)
      BY DEF HeapInv
  <2>1. CASE b \in heap
      BY <1>2, <1>3, <2>1 DEF HeapInv
  <2>2. CASE b = <<Depth, StepNow.ptr>>
      BY <1>3, <1>4, <2>2
  <2> QED
      BY <1>1, <2>1, <2>2
<1>8. NullInv'
  <2>0. 1 \in 1 .. Len(stack) /\ stack'[1].fn = stack[1].fn
      BY <1>3, <1>4
  <2>1. ASSUME NEW i \in 1 .. Len(stack), stack'[i].fn = "sm2_do_verify", stack'[i].at = 10
        PROVE  null = {}
    <3>1. CASE i = Len(stack)
      <4>1. Top.fn = "sm2_do_verify" /\ Top.at = 9
          BY <1>3, <1>4, <2>1, <3>1 DEF Frame
      <4> QED
          BY <1>1, <4>1, LastSteps DEF StepNow
    <3>2. CASE i # Len(stack)
      <4>1. i \in 1 .. Len(stack) - 1
          BY <1>4, <3>2
      <4> QED
          BY <1>3, <2>1, <4>1 DEF NullInv
    <3> QED
        BY <3>1, <3>2
  <2>2. ASSUME stack'[1].fn = "sign_and_verify", stack'[1].at = 11 PROVE null = {}
    <3>1. CASE Len(stack) = 1
      <4>1. Top.fn = "sign_and_verify" /\ Top.at = 10
          BY <1>3, <1>4, <2>2, <3>1 DEF Frame
      <4> QED
          BY <1>1, <4>1, LastSteps DEF StepNow
    <3>2. CASE Len(stack) # 1
      <4>1. 1 \in 1 .. Len(stack) - 1
          BY <1>4, <3>2
      <4> QED
          BY <1>1, <1>2, <1>3, <2>2, <4>1 DEF NullInv
    <3> QED
        BY <3>1, <3>2
  <2> QED
      BY <1>1, <1>2, <1>3, <2>0, <2>1, <2>2 DEF NullInv
<1> QED
    BY <1>5, <1>6, <1>7, <1>8

LEMMA CallFail == CallInv /\ (Fail \/ Crash) => CallInv'
<1> SUFFICES ASSUME CallInv, Fail \/ Crash PROVE CallInv'
    OBVIOUS
<1> USE DEF CallInv
<1>1. CASE Fail
  <2>1. /\ Running /\ Top.at <= Len(Body(Top.fn))
        /\ StepNow.op \in {"check", "malloc", "verify"}
        /\ failing' = TRUE /\ faults' = TRUE
        /\ UNCHANGED <<stack, heap, null, crashed>>
      BY <1>1 DEF Fail, AtStep
  <2>2. stack # <<>> /\ StepNow \in StepsOf(Top.fn)
      BY <2>1, TopFacts DEF Running
  <2>3. Top.fn \notin Safe
      BY <2>1, <2>2 DEF StepsOf
  <2>4. CallTypes'
      BY <2>1 DEF CallTypes
  <2>5. StackInv'
      BY <2>1, <2>3 DEF StackInv, Top, Depth
  <2>6. HeapInv'
      BY <2>1, <2>2 DEF HeapInv
  <2>7. NullInv'
      BY <2>1, <2>2 DEF NullInv
  <2> QED
      BY <2>4, <2>5, <2>6, <2>7
<1>2. CASE Crash
  <2>1. crashed' = TRUE /\ UNCHANGED <<stack, heap, null, failing, faults>>
      BY <1>2 DEF Crash
  <2>2. CallTypes'
      BY <2>1 DEF CallTypes
  <2>3. StackInv' /\ HeapInv' /\ NullInv'
      BY <2>1 DEF StackInv, HeapInv, NullInv, Top, Depth
  <2> QED
      BY <2>2, <2>3
<1> QED
    BY <1>1, <1>2

LEMMA CallEnter == CallInv /\ Enter => CallInv'
<1> SUFFICES ASSUME CallInv, Enter PROVE CallInv'
    OBVIOUS
<1> USE DEF CallInv
<1> DEFINE e == [fn |-> StepNow.fn, at |-> 1]
<1>1. /\ Running /\ ~failing /\ Top.at <= Len(Body(Top.fn))
      /\ StepNow.op \in Calling
      /\ stack' = Append(stack, e)
      /\ UNCHANGED <<heap, null, failing, crashed, faults>>
    BY DEF Enter, AtStep, Calling
<1>2. /\ Depth \in Nat \ {0} /\ Depth = Len(stack) /\ Top = stack[Len(stack)]
      /\ StepNow \in StepsOf(Top.fn) /\ StepNow = Body(Top.fn)[Top.at]
    BY <1>1, TopFacts DEF Depth, Top, StepNow
<1>3. StepNow.fn \in Called
    BY <1>1, <1>2 DEF StepsOf
<1>4. e \in Frame /\ e.fn \in Called /\ e.fn = StepNow.fn /\ e.at = 1
    BY <1>3 DEF Frame
<1>5. stack \in Seq(Frame)
    BY DEF CallTypes
<1> HIDE DEF e
<1>6. /\ stack' \in Seq(Frame) /\ Len(stack') = Len(stack) + 1 /\ stack' # <<>>
      /\ \A i \in 1 .. Len(stack) : stack'[i] = stack[i]
      /\ stack'[Len(stack) + 1] = e
    BY <1>1, <1>2, <1>4, <1>5, AppendProperties
<1>7. CallTypes'
    BY <1>1, <1>6 DEF CallTypes
<1>8. StackInv'
  <2>1. ASSUME NEW i \in 1 .. Len(stack')
        PROVE  /\ stack'[i].at <= Len(Body(stack'[i].fn)) + 1
               /\ i = 1 <=> stack'[i].fn \in Entered
               /\ i < Len(stack') => /\ stack'[i].at <= Len(Body(stack'[i].fn))
                                     /\ Body(stack'[i].fn)[stack'[i].at].op \in Calling
                                     /\ Body(stack'[i].fn)[stack'[i].at].fn = stack'[i + 1].fn
    <3>1. CASE i = Len(stack) + 1
      <4>1. Len(Body(e.fn)) \in Nat /\ e.fn \notin Entered
          BY <1>4, StepFacts DEF Called, Constructors, Safe, Loops, Entered
      <4> QED
          BY <1>2, <1>4, <1>6, <3>1, <4>1
    <3>2. CASE i = Len(stack)
      <4>1. stack'[i] = Top /\ stack'[i + 1] = e
          BY <1>2, <1>6, <3>2
      <4>2. i = 1 <=> Top.fn \in Entered
          BY <1>2, <3>2 DEF StackInv
      <4> QED
          BY <1>1, <1>2, <1>4, <4>1, <4>2, TopFacts
    <3>3. CASE i < Len(stack)
      <4>1. i \in 1 .. Len(stack) /\ i + 1 \in 1 .. Len(stack)
          BY <1>2, <1>6, <3>3
      <4> QED
          BY <1>6, <3>3, <4>1 DEF StackInv
    <3> QED
        BY <1>2, <1>6, <3>1, <3>2, <3>3
  <2> QED
      BY <1>1, <2>1 DEF StackInv
<1>9. HeapInv'
  <2>1. \A b \in heap : b[1] \in 1 .. Len(stack) => b[1] \in 1 .. Len(stack')
      BY <1>2, <1>6
  <2>2. stack # <<>>
      BY <1>1 DEF Running
  <2> QED
      BY <1>1, <1>6, <2>1, <2>2 DEF HeapInv
<1>10. NullInv'
  <2>1. stack # <<>> /\ stack'[1] = stack[1]
      BY <1>1, <1>2, <1>6 DEF Running
  <2>2. ASSUME NEW i \in 1 .. Len(stack'), stack'[i].fn = "sm2_do_verify", stack'[i].at = 10
        PROVE  null = {}
    <3>1. i \in 1 .. Len(stack)
        BY <1>2, <1>4, <1>6, <2>2
    <3> QED
        BY <1>6, <2>2, <3>1 DEF NullInv
  <2> QED
      BY <1>1, <1>6, <2>1, <2>2 DEF NullInv
<1> QED
    BY <1>7, <1>8, <1>9, <1>10

\* What the last return leaves.
LEMMA CallReturnsLast == CallInv /\ Return /\ Depth = 1 => CallInv'
<1> SUFFICES ASSUME CallInv, Return, Depth = 1 PROVE CallInv'
    OBVIOUS
<1> USE DEF CallInv
<1>1. /\ Running /\ (failing \/ Top.at > Len(Body(Top.fn)))
      /\ stack' = <<>>
      /\ heap' = heap \ ({Depth} \X Releases(Top.fn, failing))
      /\ UNCHANGED <<null, failing, crashed, faults>>
    BY DEF Return
<1>2. /\ Len(stack) = 1 /\ stack # <<>> /\ Top = stack[1] /\ 1 \in 1 .. Len(stack)
      /\ Top \in Frame /\ Top.at <= Len(Body(Top.fn)) + 1 /\ Len(Body(Top.fn)) \in Nat
    BY <1>1, TopFacts DEF Depth, Top, Running
<1>3. Top.fn \in Entered
    BY <1>2 DEF StackInv
<1>4. CallTypes'
  <2>1. <<>> \in Seq(Frame)
      OBVIOUS
  <2> QED
      BY <1>1, <2>1 DEF CallTypes
<1>5. StackInv'
    BY <1>1 DEF StackInv
<1>6. HeapInv'
  <2> SUFFICES ASSUME NEW b \in heap', b[2] # "dBNR"
               PROVE  b[1] = 1 /\ (failing \/ b[2] \in Kept)
      BY <1>1 DEF HeapInv
  <2>1. b \in heap /\ b \notin {Depth} \X Releases(Top.fn, failing)
      BY <1>1
  <2>2. b = <<b[1], b[2]>>
      BY <2>1 DEF CallTypes
  <2>3. b[1] = 1 /\ b[2] \in Pointers(Top.fn)
      BY <1>2, <2>1 DEF HeapInv
  <2>4. b[2] \notin Releases(Top.fn, failing)
      BY <2>1, <2>2, <2>3
  <2>5. ASSUME ~failing PROVE b[2] \in Kept
    <3>1. failing = FALSE
        BY <2>5 DEF CallTypes
    <3>2. Pointers(Top.fn) \subseteq Releases(Top.fn, FALSE) \cup Kept
        BY <1>3, Leaves
    <3> QED
        BY <2>3, <2>4, <3>1, <3>2
  <2> QED
      BY <2>3, <2>5
<1>7. NullInv'
  <2>1. ASSUME ~failing PROVE null \subseteq {"pX", "pY"}
    <3>1. null \subseteq Unseen(Top.fn)
        BY <1>2 DEF NullInv
    <3>2. Top.fn = "sign_and_verify" => null = {}
      <4>1. ASSUME Top.fn = "sign_and_verify" PROVE Top.at = 11
        <5>1. Len(Body(Top.fn)) = 10
            BY <4>1, LastSteps
        <5>2. Top.at \in Nat /\ Top.at > Len(Body(Top.fn)) /\ Top.at <= Len(Body(Top.fn)) + 1
            BY <1>1, <1>2, <2>1 DEF Frame
        <5> QED
            BY <5>1, <5>2
      <4> QED
          BY <1>2, <2>1, <4>1 DEF NullInv
    <3> QED
        BY <1>3, <3>1, <3>2 DEF Entered, Unseen
  <2>2. (failing => faults) /\ (faults /\ ~failing => null # {})
      BY DEF NullInv
  <2>3. Len(<<>>) = 0
      OBVIOUS
  <2> QED
      BY <1>1, <2>1, <2>2, <2>3 DEF NullInv
<1> QED
    BY <1>4, <1>5, <1>6, <1>7

\* A function that returns to its caller leaves nothing but what it hands over
\* and the dBNR of IppBNStoIpp8u.
LEMMA CallReturns == CallInv /\ Return /\ Depth # 1 => CallInv'
<1> SUFFICES ASSUME CallInv, Return, Depth # 1 PROVE CallInv'
    OBVIOUS
<1> USE DEF CallInv
<1> DEFINE d == Depth - 1
           left == heap \ ({Depth} \X Releases(Top.fn, failing))
           caller == Front(stack)
           step == Body(Last(caller).fn)[Last(caller).at]
           handed == {<<Depth, "it">>} \cap left
<1>1. /\ Running /\ (failing \/ Top.at > Len(Body(Top.fn)))
      /\ stack' = Past(caller)
      /\ heap' = (left \ handed) \cup {<<d, step.ptr>> : b \in handed}
      /\ failing' = (failing /\ step.op # "try")
      /\ null' = IF failing /\ step.op = "try" THEN null \cup {step.ptr} ELSE null
      /\ UNCHANGED <<crashed, faults>>
    BY DEF Return
<1>2. /\ Depth \in Nat \ {0} /\ Depth = Len(stack) /\ Top = stack[Len(stack)]
      /\ Top \in Frame /\ Top.at <= Len(Body(Top.fn)) + 1 /\ Len(Body(Top.fn)) \in Nat
    BY <1>1, TopFacts DEF Depth, Top
<1>3. d \in Nat \ {0} /\ Len(stack) = d + 1 /\ d \in 1 .. Len(stack) /\ Len(stack) \in 1 .. Len(stack)
    BY <1>2
<1>4. stack \in Seq(Frame) /\ stack # <<>>
    BY <1>1 DEF CallTypes, Running
<1> HIDE DEF d
<1>5. /\ caller \in Seq(Frame) /\ Len(caller) = d /\ caller # <<>>
      /\ \A i \in 1 .. d : caller[i] = stack[i]
  <2>1. caller = SubSeq(stack, 1, d)
      BY <1>2, <1>3 DEF Front
  <2>2. /\ SubSeq(stack, 1, d) \in Seq(Frame)
        /\ Len(SubSeq(stack, 1, d)) = d
        /\ \A i \in 1 .. d : SubSeq(stack, 1, d)[i] = stack[i]
      BY <1>3, <1>4
  <2>3. SubSeq(stack, 1, d) # <<>>
      BY <1>3, <2>2
  <2> QED
      BY <2>1, <2>2, <2>3
<1> DEFINE top == stack[d]
<1>6. Last(caller) = top /\ step = Body(top.fn)[top.at]
    BY <1>3, <1>5 DEF Last
<1>7. /\ top \in Frame /\ top.at <= Len(Body(top.fn)) /\ Len(Body(top.fn)) \in Nat
      /\ step.op \in Calling /\ step.fn = Top.fn
      /\ d = 1 <=> top.fn \in Entered
      /\ Top.fn \notin Entered
  <2>1. top \in Frame
      BY <1>3, <1>4, ElementOfSeq
  <2>2. top.fn \in Called \cup Entered
      BY <2>1 DEF Frame
  <2>3. Len(Body(top.fn)) \in Nat
      BY <2>2, StepFacts
  <2>4. d < Len(stack) /\ Len(stack) # 1
      BY <1>3
  <2>5. /\ top.at <= Len(Body(top.fn)) /\ Body(top.fn)[top.at].op \in Calling
        /\ Body(top.fn)[top.at].fn = stack[d + 1].fn
        /\ d = 1 <=> top.fn \in Entered
      BY <1>3, <2>4 DEF StackInv
  <2>6. Top.fn \notin Entered
      BY <1>2, <1>3, <2>4 DEF StackInv
  <2> QED
      BY <1>2, <1>3, <1>6, <2>1, <2>3, <2>5, <2>6
<1>8. step \in StepsOf(top.fn) /\ step.ptr \in Pointers(top.fn)
  <2>1. top.fn \in Called \cup Entered /\ top.at \in 1 .. Len(Body(top.fn))
      BY <1>7 DEF Frame
  <2> QED
      BY <1>6, <2>1, StepFacts
<1>9. /\ stack' \in Seq(Frame) /\ Len(stack') = d /\ stack' # <<>>
      /\ \A i \in 1 .. d : stack'[i].fn = stack[i].fn
      /\ \A i \in 1 .. d - 1 : stack'[i] = stack[i]
      /\ stack'[d].at = top.at + 1
  <2> HIDE DEF caller
  <2>1. /\ Past(caller) \in Seq(Frame) /\ Len(Past(caller)) = Len(caller)
        /\ Past(caller) # <<>>
        /\ \A i \in 1 .. Len(caller) : Past(caller)[i].fn = caller[i].fn
        /\ \A i \in 1 .. Len(caller) - 1 : Past(caller)[i] = caller[i]
        /\ Past(caller)[Len(caller)].at = caller[Len(caller)].at + 1
      BY <1>5, PastFacts
  <2> QED
      BY <1>1, <1>3, <1>5, <2>1
<1> HIDE DEF caller, step, left, handed, top
<1>10. Top.fn \in Called /\ (failing => Top.fn \notin Safe)
    BY <1>2, <1>4, <1>7 DEF Frame, StackInv
<1>11. ASSUME NEW b \in left
       PROVE  \/ b[2] = "dBNR"
              \/ b[1] \in 1 .. d /\ b[2] \in Pointers(stack[b[1]].fn)
              \/ b = <<Depth, "it">> /\ ~failing /\ Top.fn \in Constructors \cup Safe
  <2> SUFFICES ASSUME b[2] # "dBNR", b[1] \notin 1 .. d
               PROVE  b = <<Depth, "it">> /\ ~failing /\ Top.fn \in Constructors \cup Safe
      BY <1>4 DEF HeapInv, left
  <2>1. b \in heap /\ b \notin {Depth} \X Releases(Top.fn, failing)
      BY DEF left
  <2>2. b = <<b[1], b[2]>> /\ b[2] \in Blocks
      BY <2>1 DEF CallTypes
  <2>3. b[1] = Depth /\ b[2] \in Pointers(Top.fn)
      BY <1>2, <1>3, <1>4, <2>1 DEF HeapInv
  <2>4. b[2] \notin Releases(Top.fn, failing) /\ b[2] # ""
      BY <2>1, <2>2, <2>3 DEF Blocks
  <2>5. failing \in BOOLEAN
      BY DEF CallTypes
  <2>6. Top.fn \notin Loops
      BY <2>3, <2>4, <2>5, Leaves
  <2>7. Top.fn \in Constructors \cup Safe
      BY <1>10, <2>6 DEF Called
  <2>8. ~failing
    <3> SUFFICES ASSUME failing PROVE FALSE
        OBVIOUS
    <3>1. Top.fn \in Constructors /\ failing = TRUE
        BY <1>10, <2>5, <2>7
    <3> QED
        BY <2>3, <2>4, <3>1, Leaves
  <2>9. b[2] = "it"
      BY <2>3, <2>4, <2>5, <2>7, Leaves
  <2> QED
      BY <2>2, <2>3, <2>7, <2>8, <2>9
<1>12. step.op = "try" => step.ptr \in Unseen(top.fn) /\ d = 1
    BY <1>7, <1>8 DEF StepsOf, Unseen, Entered
<1>13. ASSUME handed # {} PROVE step.ptr \in Blocks
  <2>1. <<Depth, "it">> \in left
      BY <1>13 DEF handed
  <2>2. Top.fn \in Constructors \cup Safe
      BY <1>3, <1>2, <1>11, <2>1
  <2>3. step.op # "do"
      BY <1>7, <1>8, <2>2 DEF StepsOf, Constructors, Safe, Loops
  <2> QED
      BY <1>7, <1>8, <2>3 DEF StepsOf, Step, Calling
<1>14. CallTypes'
  <2>1. heap' \subseteq (Nat \ {0}) \X Blocks
      BY <1>1, <1>3, <1>13 DEF CallTypes, left
  <2>2. step.op = "try" => step.ptr \in Blocks
      BY <1>12 DEF Unseen, Blocks
  <2>3. null' \subseteq Blocks /\ failing' \in BOOLEAN
      BY <1>1, <2>2 DEF CallTypes
  <2> QED
      BY <1>1, <1>9, <2>1, <2>3 DEF CallTypes
<1>15. StackInv'
  <2>1. ASSUME NEW i \in 1 .. Len(stack')
        PROVE  /\ stack'[i].at <= Len(Body(stack'[i].fn)) + 1
               /\ i = 1 <=> stack'[i].fn \in Entered
               /\ i < Len(stack') => /\ stack'[i].at <= Len(Body(stack'[i].fn))
                                     /\ Body(stack'[i].fn)[stack'[i].at].op \in Calling
                                     /\ Body(stack'[i].fn)[stack'[i].at].fn = stack'[i + 1].fn
    <3>1. CASE i = d
      <4>1. stack'[i].at = top.at + 1 /\ stack'[i].fn = top.fn /\ top.at \in Nat
          BY <1>3, <1>7, <1>9, <3>1 DEF Frame, top
      <4> QED
          BY <1>3, <1>7, <1>9, <3>1, <4>1
    <3>2. CASE i # d
      <4>1. i \in 1 .. d - 1 /\ i \in 1 .. Len(stack) /\ i + 1 \in 1 .. d /\ i < Len(stack)
          BY <1>3, <1>9, <3>2
      <4>2. stack'[i] = stack[i] /\ stack'[i + 1].fn = stack[i + 1].fn
          BY <1>9, <4>1
      <4> QED
          BY <4>1, <4>2 DEF StackInv
    <3> QED
        BY <3>1, <3>2
  <2>2. failing' => stack'[d].fn \notin Safe
    <3>1. top.fn \notin Safe
        BY <1>7, <1>8 DEF StepsOf, Calling
    <3> QED
        BY <1>3, <1>9, <3>1 DEF top
  <2> QED
      BY <1>9, <2>1, <2>2 DEF StackInv, Top, Depth
<1>16. HeapInv'
  <2> SUFFICES ASSUME NEW b \in heap', b[2] # "dBNR"
               PROVE  b[1] \in 1 .. Len(stack') /\ b[2] \in Pointers(stack'[b[1]].fn)
      BY DEF HeapInv
  <2>1. CASE b \in left \ handed
      BY <1>3, <1>9, <1>11, <2>1 DEF handed
  <2>2. CASE b = <<d, step.ptr>>
      BY <1>3, <1>8, <1>9, <2>2 DEF top
  <2> QED
      BY <1>1, <2>1, <2>2
<1>17. NullInv'
  <2>0. stack[1].fn = stack'[1].fn /\ 1 \in 1 .. d
      BY <1>3, <1>9
  <2>1. failing' => faults'
      BY <1>1 DEF NullInv
  <2>2. faults' /\ ~failing' => null' # {}
      BY <1>1 DEF NullInv
  <2>3. null' \subseteq Unseen(stack'[1].fn)
    <3>1. null \subseteq Unseen(stack[1].fn)
        BY <1>4 DEF NullInv
    <3>2. step.op = "try" => step.ptr \in Unseen(stack[1].fn)
        BY <1>12 DEF top
    <3> QED
        BY <1>1, <2>0, <3>1, <3>2
  <2>4. ASSUME NEW i \in 1 .. Len(stack'), stack'[i].fn = "sm2_do_verify", stack'[i].at = 10
        PROVE  null' = {}
    <3>1. stack[i].fn = "sm2_do_verify" /\ i \in 1 .. d
        BY <1>9, <2>4
    <3>2. CASE i = d
      <4>1. top.at = 9
          BY <1>7, <1>9, <2>4, <3>2 DEF Frame
      <4> QED
          BY <1>6, <1>7, <3>1, <3>2, <4>1, LastSteps DEF Calling, top
    <3>3. CASE i # d
      <4>1. i \in 1 .. d - 1 /\ i \in 1 .. Len(stack) /\ i < Len(stack)
          BY <1>3, <3>1, <3>3
      <4>2. 10 <= Len(Body("sm2_do_verify"))
          BY <1>9, <2>4, <3>1, <4>1 DEF StackInv
      <4>3. Len(Body("sm2_do_verify")) = 9
          BY LastSteps
      <4> QED
          BY <4>2, <4>3
    <3> QED
        BY <3>2, <3>3
  <2>5. ASSUME ~failing', stack'[1].fn = "sign_and_verify", stack'[1].at = 11
        PROVE  null' = {}
    <3>1. CASE d = 1
      <4>1. top.fn = "sign_and_verify" /\ top.at = 10
          BY <1>7, <1>9, <2>0, <2>5, <3>1 DEF Frame, top
      <4>2. Top.fn = "sm2_do_verify" /\ step.op = "do"
          BY <1>6, <1>7, <4>1, LastSteps
      <4>3. ~failing /\ null' = null
          BY <1>1, <2>5, <4>2
      <4>4. Top.at = 10
        <5>1. Len(Body(Top.fn)) = 9
            BY <4>2, LastSteps
        <5>2. Top.at \in Nat /\ Top.at > Len(Body(Top.fn)) /\ Top.at <= Len(Body(Top.fn)) + 1
            BY <1>1, <1>2, <4>3 DEF Frame
        <5> QED
            BY <5>1, <5>2
      <4> QED
          BY <1>2, <1>3, <4>2, <4>3, <4>4 DEF NullInv
    <3>2. CASE d # 1
      <4>1. 1 \in 1 .. d - 1 /\ 1 \in 1 .. Len(stack) /\ 1 < Len(stack)
          BY <1>3, <3>2
      <4>2. 11 <= Len(Body("sign_and_verify"))
          BY <1>9, <2>0, <2>5, <4>1 DEF StackInv
      <4>3. Len(Body("sign_and_verify")) = 10
          BY LastSteps
      <4> QED
          BY <4>2, <4>3
    <3> QED
        BY <3>1, <3>2
  <2> QED
      BY <1>9, <2>1, <2>2, <2>3, <2>4, <2>5 DEF NullInv
<1> QED
    BY <1>14, <1>15, <1>16, <1>17

LEMMA CallInvNext == CallInv /\ [CallNext]_callVars => CallInv'
<1> SUFFICES ASSUME CallInv, [CallNext]_callVars PROVE CallInv'
    OBVIOUS
<1>1. CASE Succeed
    BY <1>1, CallSucceed
<1>2. CASE Fail \/ Crash
    BY <1>2, CallFail
<1>3. CASE Enter
    BY <1>3, CallEnter
<1>4. CASE Return
    BY <1>4, CallReturnsLast, CallReturns
<1>5. CASE UNCHANGED callVars
    BY <1>5 DEF callVars, CallInv, CallTypes, StackInv, HeapInv, NullInv, Top, Depth
<1> QED
    BY <1>1, <1>2, <1>3, <1>4, <1>5 DEF CallNext

\* Whichever calls of the signature functions of crypto.cpp fail, all they
\* allocated is released but the blocks Released names, and a failure comes out
\* as one unless it was that of a pointer sign_verify_init does not look at.
THEOREM AlwaysReleased == CallSpec => []Released
<1>1. CallInv => Released
  <2> SUFFICES ASSUME CallInv PROVE Released
      OBVIOUS
  <2> USE DEF CallInv
  <2>1. ASSUME NEW b \in heap, b[1] > Len(stack)
        PROVE  \/ b[2] = "dBNR"
               \/ stack = <<>> /\ b[1] = 1 /\ (failing \/ b[2] \in Kept)
    <3>1. Len(stack) \in Nat
        BY DEF CallTypes
    <3> QED
        BY <2>1, <3>1 DEF HeapInv
  <2> QED
      BY <2>1 DEF Released, NullInv, Kept
<1> QED
    BY <1>1, CallInvInit, CallInvNext, PTL DEF CallSpec
=============================================================================
