------------------------------ MODULE MCLibrary ------------------------------
(* The parts that share no state with each other, for TLC: each behaviour is  *)
(* one of one part, while the others rest in an initial state.                *)
EXTENDS CThread, CEvent, Sm2Calls, BigNumbers

VARIABLE part

Parts == {"thread", "event", "calls", "numbers"}

MCInit ==
    /\ part \in Parts
    /\ ThreadInit
    /\ \E manual, initial \in IF part = "event" THEN BOOLEAN ELSE {FALSE} :
          EventInit(manual, initial)
    /\ \E f \in IF part = "calls" THEN Entered ELSE {"sign_verify_init"} :
          CallInit(f)
    /\ \E a \in IF part = "numbers" THEN -15 .. 15 ELSE {0},
          b \in IF part = "numbers" THEN -15 .. 15 ELSE {0} :
          NumberInit(a, b)

MCNext ==
    /\ UNCHANGED part
    /\ \/ part = "thread" /\ ThreadNext /\ UNCHANGED <<eventVars, callVars, numberVars>>
       \/ part = "event" /\ EventNext /\ UNCHANGED <<threadVars, callVars, numberVars>>
       \/ part = "calls" /\ CallNext /\ UNCHANGED <<threadVars, eventVars, numberVars>>
       \/ part = "numbers" /\ NumberNext /\ UNCHANGED <<threadVars, eventVars, callVars>>

MCSpec ==
    MCInit /\ [][MCNext]_<<part, threadVars, eventVars, callVars, numberVars>>
=============================================================================
