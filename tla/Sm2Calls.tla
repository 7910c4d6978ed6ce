------------------------------ MODULE Sm2Calls ------------------------------
(***************************************************************************)
(* The functions of gmCrypto/crypto.cpp around the signature: which calls  *)
(* they make in which order, which results they look at, what they         *)
(* allocate and what they release on which return.  A function is a table  *)
(* of steps, and the actions run the tables on a stack.  What the library  *)
(* computes is in DhPsi.                                                   *)
(***************************************************************************)
EXTENDS Integers, Sequences, SequencesExt

VARIABLES
    stack,     \* the functions entered: [fn, at], at the step it is at
    heap,      \* the blocks allocated: depth of the function and pointer
    null,      \* the pointers that are null although nobody looked
    failing,   \* the function on top returns, or the first returned, an error
    crashed,   \* the undefined size of a null number ended the program
    faults     \* whether any call of the library or of malloc failed (history)

callVars == <<stack, heap, null, failing, crashed, faults>>

(* The steps.  The pointer a function returns is called "it" in its own body. *)
Check == [op |-> "check", fn |-> "", ptr |-> ""]        \* a call whose status is checked
Malloc(p) == [op |-> "malloc", fn |-> "", ptr |-> p]    \* checked for null
New(p) == [op |-> "new", fn |-> "", ptr |-> p]          \* never null
Make(f, p) == [op |-> "make", fn |-> f, ptr |-> p]      \* p = f(), checked for null
Try(f, p) == [op |-> "try", fn |-> f, ptr |-> p]        \* p = f(), not checked
Do(f) == [op |-> "do", fn |-> f, ptr |-> ""]            \* f() returns 0 or an error
Follow(p) == [op |-> "follow", fn |-> "", ptr |-> p]    \* the size of p is used
VerifySM2 == [op |-> "verify", fn |-> "", ptr |-> ""]   \* fails on null pointers

Checks(n) == [k \in 1..n |-> Check]

Constructor(n) == <<Check, Malloc("it")>> \o Checks(n)
NewPRNG == <<New("seed"), New("augm"), New("it"), New("pTmp")>>
ToOctets == <<New("dBNR"), New("BigNum"), New("it")>>
DigestZ == Checks(3) \o <<Malloc("hash_handle")>> \o Checks(10)
Digest == <<Do("hash_digest_z"), Check, Malloc("hash_handle")>> \o Checks(4)

DoSign ==
    <<Make("new_ECC_sm2", "pECCPS"), Make("new_BN", "ephPrivateKey"),
      Make("new_ECC_Point", "ephPublicKey"), Make("new_ECC_Point", "regPublicKey"),
      Check, Make("newPRNG", "pPRNGS"), Check,
      Make("new_BN", "pX"), Make("new_BN", "pY"), Check,
      Do("hash_digest_with_preprocess"), Make("new_BN", "pMsg")>> \o Checks(3)
DoVerify ==
    <<Make("new_ECC_sm2", "pECCPS"), Make("new_BN", "pX"), Make("new_BN", "pY"), Check,
      Do("hash_digest_with_preprocess"), Make("new_BN", "pMsg"), Check, Check, VerifySM2>>

SignAndSend ==
    <<New("pSignX"), New("pSignY"), Make("new_BN", "signX"), Make("new_BN", "signY"),
      Do("sm2_do_sign"),
      Make("IppBNStoIpp8u", "ipp8uSignX"), Make("IppBNStoIpp8u", "ipp8uSignY")>>
SignAndVerify ==
    SignAndSend \o <<Try("new_BN", "pBBSSignX"), Try("new_BN", "pBBSSignY"),
                     Do("sm2_do_verify")>>

SignVerifyInit ==
    <<Make("new_ECC_sm2", "pECCPS"), Make("newRandBN", "regPrivateKey"),
      Make("new_ECC_Point", "regPublicKey"), Check,
      Try("new_BN", "pX"), Try("new_BN", "pY"),
      New("pukSendBuffer"), New("pukRecvBuffer"),
      Follow("pX"), Make("IppBNStoIpp8u", "px"),
      Follow("pY"), Make("IppBNStoIpp8u", "py"), New("pkx"), New("pky")>>

Body(f) ==
    CASE f = "new_ECC_sm2" -> Constructor(2)
      [] f \in {"new_ECC_Point", "new_BN"} -> Constructor(1)
      [] f = "newRandBN" -> <<New("pBuffer"), New("it")>>
      [] f = "newPRNG" -> NewPRNG
      [] f = "IppBNStoIpp8u" -> ToOctets
      [] f = "hash_digest_z" -> DigestZ
      [] f = "hash_digest_with_preprocess" -> Digest
      [] f = "sm2_do_sign" -> DoSign
      [] f = "sm2_do_verify" -> DoVerify
      [] f = "sign_and_verify" -> SignAndVerify
      [] f = "sign_and_verify server" -> SignAndSend   \* round 2 of the server
      [] f = "sign_verify_init" -> SignVerifyInit

\* The pointers a function releases before it returns.  The loops that run
\* once release the same on every way out; the others release only when they
\* return 0, or, where they return a pointer, only when that is null.
Loops == {"hash_digest_z", "hash_digest_with_preprocess", "sm2_do_sign", "sm2_do_verify"}
Pointers(f) == {Body(f)[k].ptr : k \in DOMAIN Body(f)}
ReleasesAtEnd(f, error) ==
    CASE f \in Loops -> Pointers(f)
      [] f \in {"new_ECC_sm2", "new_ECC_Point", "new_BN"} -> IF error THEN {"it"} ELSE {}
      [] f = "newRandBN" -> {"pBuffer"}
      [] f = "newPRNG" -> {"seed", "augm", "pTmp"}
      [] f = "IppBNStoIpp8u" -> {"BigNum"}
      [] f \in {"sign_and_verify", "sign_and_verify server"} ->
            IF error THEN {} ELSE Pointers(f) \ {"signX", "signY"}
      [] f = "sign_verify_init" ->
            IF error THEN {} ELSE Pointers(f) \ {"pECCPS", "regPrivateKey", "regPublicKey"}

\* Variant: a loop that is left by return and not by break.
ReleasesNot(f, error) ==
    IF f = "hash_digest_z" /\ error THEN {} ELSE ReleasesAtEnd(f, error)
Releases(f, error) == ReleasesAtEnd(f, error)

\* The functions that dh_psi and its caller enter, by themselves.
Entered == {"sign_and_verify", "sign_and_verify server", "sign_verify_init"}

CallInit(f) ==
    /\ stack = <<[fn |-> f, at |-> 1]>>
    /\ heap = {}
    /\ null = {}
    /\ failing = FALSE
    /\ crashed = FALSE
    /\ faults = FALSE

Depth == Len(stack)
Top == stack[Depth]
Running == stack # <<>> /\ ~crashed
StepNow == Body(Top.fn)[Top.at]
AtStep(ops) ==
    /\ Running /\ ~failing
    /\ Top.at <= Len(Body(Top.fn))
    /\ StepNow.op \in ops

Past(s) == [s EXCEPT ![Len(s)].at = @ + 1]

Succeed ==
    /\ AtStep({"check", "malloc", "new", "verify", "follow"})
    /\ StepNow.op = "verify" => null = {}
    /\ stack' = Past(stack)
    /\ heap' = IF StepNow.op \in {"malloc", "new"} THEN heap \cup {<<Depth, StepNow.ptr>>}
                                                   ELSE heap
    /\ UNCHANGED <<null, failing, crashed, faults>>

Fail ==
    /\ AtStep({"check", "malloc", "verify"})
    /\ failing' = TRUE
    /\ faults' = TRUE
    /\ UNCHANGED <<stack, heap, null, crashed>>

\* ippsGetSize_BN sets no size for a null pointer: the octets of a size that was
\* never set are allocated and copied, if that is possible.
Crash ==
    /\ AtStep({"follow"}) /\ StepNow.ptr \in null
    /\ crashed' = TRUE
    /\ UNCHANGED <<stack, heap, null, failing, faults>>

Enter ==
    /\ AtStep({"make", "try", "do"})
    /\ stack' = Append(stack, [fn |-> StepNow.fn, at |-> 1])
    /\ UNCHANGED <<heap, null, failing, crashed, faults>>

\* The function on top returns: it releases what it releases, and hands its
\* pointer to the caller, who looks at an error unless it only tries.
Return ==
    /\ Running
    /\ failing \/ Top.at > Len(Body(Top.fn))
    /\ LET left == heap \ ({Depth} \X Releases(Top.fn, failing))
           caller == Front(stack)
           step == Body(Last(caller).fn)[Last(caller).at]
           handed == {<<Depth, "it">>} \cap left
       IN  IF Depth = 1
             THEN stack' = <<>> /\ heap' = left /\ UNCHANGED <<null, failing>>
             ELSE /\ stack' = Past(caller)
                  /\ heap' = (left \ handed) \cup {<<Depth - 1, step.ptr>> : b \in handed}
                  /\ failing' = (failing /\ step.op # "try")
                  /\ null' = IF failing /\ step.op = "try" THEN null \cup {step.ptr}
                                                           ELSE null
    /\ UNCHANGED <<crashed, faults>>

CallNext ==
    \/ Succeed \/ Fail \/ Crash \/ Enter \/ Return
    \/ ~Running /\ UNCHANGED callVars

CallSpec == (\E f \in Entered : CallInit(f)) /\ [][CallNext]_callVars

\* The blocks of sign_and_verify and sign_verify_init that outlive them.
Kept == {"signX", "signY", "pECCPS", "regPrivateKey", "regPublicKey"}

-----------------------------------------------------------------------------
\* On every way through them, and whatever fails, the signature and digest
\* functions release all they allocated before they return, so that no block of
\* a function outlives it but those that IppBNStoIpp8u (dBNR) and an erring or
\* finished sign_and_verify leave.  A function returns an error only if some
\* call failed, and 0 only if none did, the unchecked ones of sign_and_verify
\* included: a signature that is null makes the verification fail.  But
\* sign_verify_init may return 0 although it had no memory for a coordinate.
Released ==
    /\ \A b \in heap : b[1] > Len(stack) =>
         \/ b[2] = "dBNR"
         \/ stack = <<>> /\ b[1] = 1 /\ (failing \/ b[2] \in Kept)
    /\ stack = <<>> /\ failing => faults
    /\ stack = <<>> /\ ~failing /\ faults => null # {} /\ null \subseteq {"pX", "pY"}
=============================================================================
