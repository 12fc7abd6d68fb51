-------------------------- MODULE CountingSemaphore --------------------------
(***************************************************************************)
(* What Semaphore.hpp promises: a counting semaphore.  wakeup() makes one  *)
(* permit, a call of wait() returns by taking one, and as long as there    *)
(* are permits the threads that wait do not wait for ever.                 *)
(***************************************************************************)
EXTENDS Naturals, FiniteSets

CONSTANTS Threads

VARIABLES avail,    \* permits made and not yet taken
          waiting   \* threads inside wait()

svars == <<avail, waiting>>

Init == avail = 0 /\ waiting = {}

Post == avail' = avail + 1 /\ UNCHANGED waiting

\* A call of wait() that finds no permit blocks.
Enter(t) == avail = 0 /\ t \notin waiting /\ waiting' = waiting \cup {t} /\ UNCHANGED avail

\* wait() returns, whether it had to block or not.
Acquire(t) == avail > 0 /\ avail' = avail - 1 /\ waiting' = waiting \ {t}

Next == Post \/ \E t \in Threads : Enter(t) \/ Acquire(t)

\* Some thread that waits gets a permit, when there is one.
Progress == WF_svars(\E t \in waiting : Acquire(t))

Safety == Init /\ [][Next]_svars
Spec == Safety /\ Progress
=============================================================================
