------------------------------- MODULE CThread -------------------------------
(***************************************************************************)
(* Class CThread of util/thread.h, as it is without WIN32.  One thread,    *)
(* the owner, calls the operations of one object; the threads it starts    *)
(* run ThreadMainHandler.  The flag m_bRunning is written by both sides    *)
(* without a lock, each access taken as one step.                          *)
(***************************************************************************)
EXTENDS Integers, FiniteSets

CONSTANT MaxStarts   \* a bound: how often Start is called

ASSUME MaxStartsAssumption == MaxStarts \in Nat

VARIABLES
    owner,       \* "out", "starting", "joining", "exited" or "undefined"
    created,     \* the result of pthread_create, while "starting"
    m_bRunning,
    m_pThread,   \* the thread created last; threads are numbered from 1
    thread,      \* thread[t]: where thread t is
    starts,      \* how often Start was called
    overtaken    \* the threads that ended their handler within Start (history)

threadVars ==
    <<owner, created, m_bRunning, m_pThread, thread, starts, overtaken>>

Threads == 1..MaxStarts

ThreadInit ==
    /\ owner = "out"
    /\ created = FALSE
    /\ m_bRunning = FALSE
    /\ m_pThread = 0
    /\ thread = [t \in Threads |-> "none"]
    /\ starts = 0
    /\ overtaken = {}

\* Start is called again only when the thread before it has ended: the object
\* has room for one.
MayStart == \A t \in Threads : thread[t] \in {"none", "ended", "joined"}

\* Start: pthread_create, which may fail, and then the assignment.
Create(ok) ==
    /\ owner = "out" /\ starts < MaxStarts /\ MayStart
    /\ owner' = "starting"
    /\ created' = ok
    /\ starts' = starts + 1
    /\ IF ok THEN /\ m_pThread' = starts'
                  /\ thread' = [thread EXCEPT ![starts'] = "main"]
             ELSE UNCHANGED <<m_pThread, thread>>
    /\ UNCHANGED <<m_bRunning, overtaken>>

AssignTo(flag) ==
    /\ owner = "starting"
    /\ m_bRunning' = flag
    /\ owner' = "out"
    /\ UNCHANGED <<created, m_pThread, thread, starts, overtaken>>

\* Variant: the result of pthread_create, which is 0 for success, not negated.
AssignUnnegated == AssignTo(~created)
Assign == AssignTo(created)

\* Wait: nothing to do if the flag is down, else pthread_join.
WaitAtOnce ==
    /\ owner = "out" /\ ~m_bRunning
    /\ UNCHANGED threadVars
WaitJoins ==
    /\ owner = "out" /\ m_bRunning
    /\ owner' = "joining"
    /\ UNCHANGED <<created, m_bRunning, m_pThread, thread, starts, overtaken>>

\* pthread_join of a thread that was joined already is undefined.
Join ==
    /\ owner = "joining" /\ thread[m_pThread] \in {"ended", "joined"}
    /\ owner' = IF thread[m_pThread] = "joined" THEN "undefined" ELSE "out"
    /\ thread' = [thread EXCEPT ![m_pThread] = "joined"]
    /\ UNCHANGED <<created, m_bRunning, m_pThread, starts, overtaken>>

\* Kill: pthread_exit ends the thread that calls it, which is the owner.
Kill ==
    /\ owner = "out" /\ m_bRunning
    /\ owner' = "exited"
    /\ UNCHANGED <<created, m_bRunning, m_pThread, thread, starts, overtaken>>

\* ThreadMainHandler: ThreadMain, then the flag, then the end.
ThreadMainReturns(t) ==
    /\ thread[t] = "main"
    /\ thread' = [thread EXCEPT ![t] = "lower"]
    /\ UNCHANGED <<owner, created, m_bRunning, m_pThread, starts, overtaken>>
LowerFlag(t) ==
    /\ thread[t] = "lower"
    /\ thread' = [thread EXCEPT ![t] = "ended"]
    /\ m_bRunning' = FALSE
    /\ overtaken' = IF owner = "starting" THEN overtaken \cup {t} ELSE overtaken
    /\ UNCHANGED <<owner, created, m_pThread, starts>>

ThreadNext ==
    \/ \E ok \in BOOLEAN : Create(ok)
    \/ Assign \/ WaitAtOnce \/ WaitJoins \/ Join \/ Kill
    \/ \E t \in Threads : ThreadMainReturns(t) \/ LowerFlag(t)
    \/ owner \in {"exited", "undefined"} /\ UNCHANGED threadVars

ThreadSpec == ThreadInit /\ [][ThreadNext]_threadVars

-----------------------------------------------------------------------------
\* Outside the calls, the flag is up while ThreadMain runs, so that a Wait
\* that finds it down, or one that joined, returns only when ThreadMain is
\* over.  The flag may stay up for ever when the handler ended within Start;
\* only then does a second Wait join a thread twice.
WaitSound ==
    /\ owner = "out" /\ ~m_bRunning => \A t \in Threads : thread[t] # "main"
    /\ owner = "out" /\ m_bRunning =>
         m_pThread # 0 /\ (thread[m_pThread] \in {"ended", "joined"}
                             => m_pThread \in overtaken)
    /\ owner = "undefined" => m_pThread \in overtaken
=============================================================================
