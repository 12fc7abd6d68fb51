------------------------------ MODULE Semaphore ------------------------------
(***************************************************************************)
(* Semaphore.hpp: a semaphore made of a mutex, a condition variable and    *)
(* two counters.  wait() and wakeup() run under the mutex, so each is one  *)
(* action up to the point where wait() blocks; the condition variable      *)
(* gives the mutex up there, may wake a thread for no reason, and a woken  *)
(* thread competes for the mutex with new callers, which may take the      *)
(* wakeup it was notified for.                                             *)
(***************************************************************************)
EXTENDS Integers, FiniteSets

CONSTANTS
  Threads,  \* threads that call wait()
  MaxWait   \* bound: wakeups ahead of the waits

\* What the theorems assume of the constants.
ThreadAssumption == IsFiniteSet(Threads) /\ MaxWait \in Nat

VARIABLES
  wait,     \* Semaphore::_wait
  wakeup,   \* Semaphore::_wakeup
  blocked,  \* threads in the wait set of _cv
  woken     \* threads that left it and have yet to test the predicate

vars == <<wait, wakeup, blocked, woken>>

Waiting == blocked \cup woken

TypeOK ==
  /\ wait \in Int /\ wait <= MaxWait /\ wakeup \in Nat
  /\ blocked \subseteq Threads /\ woken \subseteq Threads
  /\ blocked \cap woken = {}

Init == wait = 0 /\ wakeup = 0 /\ blocked = {} /\ woken = {}

\* wait() with --_wait >= 0 returns at once.
WaitPasses(t) ==
  /\ t \notin Waiting /\ wait - 1 >= 0
  /\ wait' = wait - 1
  /\ UNCHANGED <<wakeup, blocked, woken>>

\* wait() tests the predicate before it blocks and may find a wakeup that
\* another thread was notified for.
WaitTakes(t) ==
  /\ t \notin Waiting /\ wait - 1 < 0 /\ wakeup > 0
  /\ wait' = wait - 1 /\ wakeup' = wakeup - 1
  /\ UNCHANGED <<blocked, woken>>

WaitBlocks(t) ==
  /\ t \notin Waiting /\ wait - 1 < 0 /\ wakeup = 0
  /\ wait' = wait - 1
  /\ blocked' = blocked \cup {t}
  /\ UNCHANGED <<wakeup, woken>>

\* A woken thread has the mutex again: take a wakeup and return ...
Resume(t) ==
  /\ t \in woken /\ wakeup > 0
  /\ wakeup' = wakeup - 1
  /\ woken' = woken \ {t}
  /\ UNCHANGED <<wait, blocked>>

\* ... or block again.
BlockAgain(t) ==
  /\ t \in woken /\ wakeup = 0
  /\ woken' = woken \ {t} /\ blocked' = blocked \cup {t}
  /\ UNCHANGED <<wait, wakeup>>

Spurious(t) ==
  /\ t \in blocked
  /\ blocked' = blocked \ {t} /\ woken' = woken \cup {t}
  /\ UNCHANGED <<wait, wakeup>>

NotifyOne_Missing == UNCHANGED <<blocked, woken>>
NotifyOne ==
  IF blocked = {} THEN UNCHANGED <<blocked, woken>>
  ELSE \E t \in blocked : blocked' = blocked \ {t} /\ woken' = woken \cup {t}

MustWake_Always == wait + 1 <= 1
MustWake == wait + 1 <= 0

\* wakeup(): with nobody to wake the permit stays in _wait.
Wakeup ==
  /\ wait < MaxWait
  /\ wait' = wait + 1
  /\ IF MustWake THEN wakeup' = wakeup + 1 /\ NotifyOne
     ELSE UNCHANGED <<wakeup, blocked, woken>>

Wait(t) == WaitPasses(t) \/ WaitTakes(t) \/ WaitBlocks(t)
Continue(t) == Resume(t) \/ BlockAgain(t)

Next == Wakeup \/ \E t \in Threads : Wait(t) \/ Continue(t) \/ Spurious(t)

Spec == Init /\ [][Next]_vars

\* A woken thread gets the mutex and tests the predicate.
Fairness == \A t \in Threads : WF_vars(Continue(t))

FairSpec == Spec /\ Fairness

-----------------------------------------------------------------------------
(* Properties                                                              *)

Debt == IF wait < 0 THEN -wait ELSE 0

\* The two counters say how many threads wait: those that no wakeup() was
\* called for yet, and those whose wakeup is still to be taken, whoever
\* took what.
WaitersCounted == Cardinality(Waiting) = Debt + wakeup

\* A wakeup is never left behind: there is a woken thread for each, although
\* notify_one is lost when every thread is awake already.
NoLostWakeup == wakeup <= Cardinality(woken)

\* Permits: what is left in _wait and the wakeups not yet taken.
Avail == (IF wait > 0 THEN wait ELSE 0) + wakeup

Counting == INSTANCE CountingSemaphore WITH avail <- Avail, waiting <- Waiting

\* The class is a counting semaphore, in what it does and in that threads
\* get the permits there are.
ImplementsCounting == Counting!Spec
=============================================================================
