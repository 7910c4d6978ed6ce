------------------------------- MODULE CEvent -------------------------------
(***************************************************************************)
(* Class CEvent of util/thread.h, without WIN32: a flag, a mutex and a     *)
(* condition variable.  What is done under the mutex is one step; CLock    *)
(* and CGrabLock are such a mutex and no more.                             *)
(***************************************************************************)
EXTENDS FiniteSets

CONSTANT Waiters   \* the threads that call Wait

VARIABLES
    m_bManual,   \* never changes
    m_bSet,
    sleeping,    \* in pthread_cond_wait, not woken
    woken,       \* in pthread_cond_wait, woken and in want of the mutex
    passed       \* some Wait returned since the flag was last raised (history)

eventVars == <<m_bManual, m_bSet, sleeping, woken, passed>>

EventInit(manual, initial) ==
    /\ m_bManual = manual
    /\ m_bSet = initial
    /\ sleeping = {}
    /\ woken = {}
    /\ passed = FALSE

\* Set, with the waiters that its signal wakes.
SetWaking(S) ==
    /\ IF m_bSet THEN UNCHANGED <<m_bSet, sleeping, woken, passed>>
       ELSE /\ m_bSet' = TRUE
            /\ passed' = FALSE
            /\ woken' = woken \cup S
            /\ sleeping' = sleeping \ S
    /\ UNCHANGED m_bManual

\* Variant: no signal.
SetSilent == SetWaking({})
Set ==
    \/ sleeping = {} /\ SetWaking({})
    \/ \E w \in sleeping : SetWaking({w})

Reset ==
    /\ m_bSet' = FALSE
    /\ UNCHANGED <<m_bManual, sleeping, woken, passed>>

\* A Wait that finds the flag up returns, and lowers it unless it is manual.
Pass(w) ==
    /\ m_bSet
    /\ m_bSet' = m_bManual
    /\ passed' = TRUE
    /\ woken' = woken \ {w}
    /\ UNCHANGED <<m_bManual, sleeping>>

\* One that finds it down sleeps, for the first time or again.
Sleep(w) ==
    /\ ~m_bSet
    /\ sleeping' = sleeping \cup {w}
    /\ woken' = woken \ {w}
    /\ UNCHANGED <<m_bManual, m_bSet, passed>>

Wait(w) == w \notin sleeping /\ (Pass(w) \/ Sleep(w))

\* pthread_cond_wait may return without a signal.
WakeSpuriously(w) ==
    /\ w \in sleeping
    /\ sleeping' = sleeping \ {w}
    /\ woken' = woken \cup {w}
    /\ UNCHANGED <<m_bManual, m_bSet, passed>>

EventNext ==
    \/ Set \/ Reset
    \/ \E w \in Waiters : Wait(w) \/ WakeSpuriously(w)

EventSpec ==
    /\ \E manual, initial \in BOOLEAN : EventInit(manual, initial)
    /\ [][EventNext]_eventVars

-----------------------------------------------------------------------------
\* No wake-up is lost on an event that resets itself: while it is set and some
\* thread sleeps, another is on its way to it.  A manual event promises less
\* than its name: it may stay set over sleepers once one Wait has returned.
EventWakes ==
    m_bSet /\ sleeping # {} => woken # {} \/ (m_bManual /\ passed)
=============================================================================
