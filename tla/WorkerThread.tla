----------------------------- MODULE WorkerThread -----------------------------
(***************************************************************************)
(* Thread.hpp: an object whose owner starts a detached thread, closes it   *)
(* and may delete the object or start another thread with it.  Close()     *)
(* holds the object's mutex while it waits for the semaphore the thread    *)
(* posts at its end; the thread itself reads and writes _isRun without the *)
(* mutex, except in Exit().  The semaphore _sem is the one of              *)
(* Semaphore.hpp, with its counters and its condition variable; the owner  *)
(* is the only thread that ever waits on it.                               *)
(***************************************************************************)
EXTENDS Naturals, FiniteSets

CONSTANTS
  MaxStarts,  \* bound: threads the owner starts with one object
  MayReturn   \* does it return by itself (the command threads of both programs)?

ASSUME StartAssumption ==
  MaxStarts \in Nat /\ MayReturn \in BOOLEAN

Workers == 1..MaxStarts

VARIABLES
  isRun,    \* Thread::_isRun
  owner,    \* the owner: "idle", "closing" (inside Close, holding _mutex),
            \* "closed" (Close returned), "disposed" (object deleted)
  started,  \* threads started so far
  wpc,      \* where thread w is in OnWork
  wait, wakeup, blocked, woken,  \* _sem: see Semaphore
  mayExit   \* does the working function of this object call Exit(), as those
            \* of Server and TcpServer do?  It never changes

sem == <<wait, wakeup, blocked, woken>>
vars == <<isRun, owner, started, wpc, sem, mayExit>>

\* Each thread posts once, so no more wakeups than threads are ever ahead.
Sem == INSTANCE Semaphore WITH Threads <- {"owner"}, MaxWait <- MaxStarts

TypeOK ==
  /\ isRun \in BOOLEAN
  /\ owner \in {"idle", "closing", "closed", "disposed"}
  /\ started \in 0..MaxStarts
  /\ wpc \in [Workers -> {"none", "run", "exit", "destroy", "wake", "clear", "end"}]
  /\ Sem!TypeOK
  /\ mayExit \in BOOLEAN

Init ==
  /\ isRun = FALSE /\ owner = "idle" /\ started = 0
  /\ wpc = [w \in Workers |-> "none"]
  /\ Sem!Init
  /\ mayExit \in BOOLEAN

MutexFree == owner # "closing"

-----------------------------------------------------------------------------
(* The owner                                                               *)

Start ==
  /\ owner \in {"idle", "closed"} /\ started < MaxStarts
  /\ ~isRun
  /\ isRun' = TRUE
  /\ started' = started + 1
  /\ wpc' = [wpc EXCEPT ![started + 1] = "run"]
  /\ owner' = "idle"
  /\ UNCHANGED <<sem, mayExit>>

\* Close() of a thread that does not run returns at once.
CloseStopped ==
  /\ owner = "idle" /\ ~isRun
  /\ owner' = "closed"
  /\ UNCHANGED <<isRun, started, wpc, sem, mayExit>>

CloseBegin_NoWait ==
  /\ owner = "idle" /\ isRun
  /\ isRun' = FALSE
  /\ owner' = "closed"
  /\ UNCHANGED <<started, wpc, sem, mayExit>>

CloseBegin ==
  /\ owner = "idle" /\ isRun
  /\ isRun' = FALSE
  /\ owner' = "closing"
  /\ UNCHANGED <<started, wpc, sem, mayExit>>

\* _sem.wait(): it returns at once, or the owner blocks in it ...
CloseWaits ==
  /\ owner = "closing" /\ Sem!Wait("owner")
  /\ owner' = IF "owner" \in blocked' THEN "closing" ELSE "closed"
  /\ UNCHANGED <<isRun, started, wpc, mayExit>>

\* ... and, woken, takes a wakeup or blocks again.
CloseContinues ==
  /\ owner = "closing" /\ Sem!Continue("owner")
  /\ owner' = IF "owner" \in blocked' THEN "closing" ELSE "closed"
  /\ UNCHANGED <<isRun, started, wpc, mayExit>>

Spurious == Sem!Spurious("owner") /\ UNCHANGED <<isRun, owner, started, wpc, mayExit>>

\* The object is deleted after Close (client.cpp, ~Server).
Dispose ==
  /\ owner = "closed"
  /\ owner' = "disposed"
  /\ UNCHANGED <<isRun, started, wpc, sem, mayExit>>

-----------------------------------------------------------------------------
(* Thread w: OnWork                                                        *)

Goto(w, from, to) == wpc[w] = from /\ wpc' = [wpc EXCEPT ![w] = to]

\* The loop of the working function sees that isRun() is false.
LoopEnds(w) ==
  /\ ~isRun /\ Goto(w, "run", "destroy")
  /\ UNCHANGED <<isRun, owner, started, sem, mayExit>>

Returns(w) ==
  /\ MayReturn /\ Goto(w, "run", "destroy")
  /\ UNCHANGED <<isRun, owner, started, sem, mayExit>>

\* Exit() tests _isRun without the mutex ...
ExitTest(w) ==
  /\ mayExit /\ Goto(w, "run", IF isRun THEN "exit" ELSE "destroy")
  /\ UNCHANGED <<isRun, owner, started, sem, mayExit>>

\* ... and takes the mutex to clear it.
ExitClear(w) ==
  /\ MutexFree /\ Goto(w, "exit", "destroy")
  /\ isRun' = FALSE
  /\ UNCHANGED <<owner, started, sem, mayExit>>

\* onDestory runs.
Destroy(w) ==
  /\ Goto(w, "destroy", "wake")
  /\ UNCHANGED <<isRun, owner, started, sem, mayExit>>

WakeUp_OnlyRunning(w) ==
  /\ Goto(w, "wake", "clear")
  /\ IF isRun THEN Sem!Wakeup ELSE UNCHANGED sem
  /\ UNCHANGED <<isRun, owner, started, mayExit>>

\* _sem.wakeup()
WakeUp(w) ==
  /\ Goto(w, "wake", "clear")
  /\ Sem!Wakeup
  /\ UNCHANGED <<isRun, owner, started, mayExit>>

\* The last statement of OnWork.
ClearRun(w) ==
  /\ Goto(w, "clear", "end")
  /\ isRun' = FALSE
  /\ UNCHANGED <<owner, started, sem, mayExit>>

-----------------------------------------------------------------------------
Owner ==
  \/ Start \/ CloseStopped \/ CloseBegin \/ CloseWaits \/ CloseContinues
  \/ Spurious \/ Dispose
Worker(w) ==
  \/ LoopEnds(w) \/ Returns(w) \/ ExitTest(w) \/ ExitClear(w)
  \/ Destroy(w) \/ WakeUp(w) \/ ClearRun(w)

Next == Owner \/ \E w \in Workers : Worker(w)

Spec == Init /\ [][Next]_vars

\* A Close that began goes on; a thread goes on, but need not exit or
\* return by itself.
Fairness ==
  /\ WF_vars(CloseWaits \/ CloseContinues)
  /\ \A w \in Workers :
       WF_vars(LoopEnds(w) \/ ExitClear(w) \/ Destroy(w) \/ WakeUp(w) \/ ClearRun(w))

FairSpec == Spec /\ Fairness

-----------------------------------------------------------------------------
(* Properties                                                              *)

\* The callbacks of thread w are over.
CallbacksDone(w) == wpc[w] \in {"none", "clear", "end"}

\* When the Close of the first thread returns, its working function and its
\* onDestory have ended: what they use may be destroyed, which ~Server and
\* TcpServer::Close do.  It does not hold for a thread that calls Exit, which
\* clears _isRun before onDestory runs.
CloseWaited == started = 1 /\ owner \in {"closed", "disposed"} => CallbacksDone(1)
FirstCloseWaits == ~mayExit => CloseWaited

\* A Close that waits is never forgotten: a permit is there or a thread is
\* on its way to making one, whatever permits earlier threads left behind
\* and whoever cleared _isRun.
CloserHasWaker ==
  owner = "closing" =>
    Sem!Avail > 0 \/ \E w \in Workers : wpc[w] \in {"run", "exit", "destroy", "wake"}

\* Close returns, unless the thread has tested _isRun in Exit just before
\* Close cleared it: then it waits for the mutex that Close holds.
InExit == \E w \in Workers : wpc[w] = "exit"
CloseReturns == owner = "closing" ~> (owner = "closed" \/ InExit)

\* Used by a thread and its owner, the class is the counting semaphore that
\* Close needs: a wakeup of an earlier thread is kept for the next Close, a
\* spurious one lets nobody pass, and a wakeup wakes the owner.
SemIsCounting == Sem!ImplementsCounting

\* isRun() tells whether the thread runs: between Start and Close nobody
\* clears it under a thread that is in its working function.  Does not hold:
\* the last statement of the thread before does.
IsRunTellsRunning ==
  owner = "idle" /\ started > 0 /\ wpc[started] = "run" => isRun

\* Nobody uses the object when it is deleted.  Does not hold: Close returns
\* with the wakeup, and the thread still has its last statement to do.
NoUseAfterDispose ==
  owner = "disposed" => \A w \in Workers : wpc[w] \in {"none", "end"}
=============================================================================
