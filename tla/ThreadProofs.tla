----------------------------- MODULE ThreadProofs -----------------------------
(***************************************************************************)
(* Theorems about threads.  WorkerThread, for any number of starts: what   *)
(* Close of a Thread may rely on, over the semaphore as it is coded; the   *)
(* semaphore alone, for any threads that use it; and ClientProgram, for    *)
(* every number of threads and of clients per thread, with losses, failed  *)
(* waits and an exit at any time.                                          *)
(***************************************************************************)
EXTENDS WorkerThread, ClientProgram, FiniteSetTheorems, TLAPS

CONSTANTS
  Callers,  \* threads that call wait() of a semaphore
  MaxAhead  \* wakeups ahead of the waits

\* A semaphore that any threads use.
AnySem == INSTANCE Semaphore WITH Threads <- Callers, MaxWait <- MaxAhead

\* Places where a thread has yet to make its permit.
Live == {"run", "exit", "destroy", "wake"}

\* Threads are started in turn, and _isRun is only set with one of them.
StartsInTurn ==
  /\ \A w \in Workers : wpc[w] = "none" <=> w > started
  /\ started = 0 => ~isRun /\ owner # "closing"

\* The permit of the newest thread is there until somebody closes it.
PermitKept ==
  owner = "idle" /\ started > 0 =>
    /\ wpc[started] \in {"clear", "end"} => Sem!Avail > 0
    /\ isRun => wpc[started] # "end"

\* A first thread that does not call Exit: it alone makes a permit, and it
\* alone clears _isRun before Close does.
FirstThread ==
  /\ \A w \in Workers : wpc[w] # "exit"
  /\ started = 0 => Sem!Avail = 0
  /\ started = 1 =>
       /\ Sem!Avail > 0 => CallbacksDone(1)
       /\ owner = "idle" /\ ~isRun => wpc[1] = "end"

ThreadInv ==
  /\ TypeOK /\ StartsInTurn /\ PermitKept /\ CloserHasWaker
  /\ ~mayExit => FirstThread
  /\ FirstCloseWaits

\* What the semaphore does to the permits and to its own types.
LEMMA SemSteps ==
  ASSUME Sem!TypeOK, MaxStarts \in Nat
  PROVE  /\ Sem!Avail \in Nat
         /\ Sem!Wakeup => Sem!Avail' = Sem!Avail + 1 /\ Sem!TypeOK'
         /\ Sem!Wait("owner") =>
              /\ Sem!TypeOK'
              /\ "owner" \in blocked' => Sem!Avail = 0 /\ Sem!Avail' = 0
              /\ "owner" \notin blocked' => Sem!Avail > 0 /\ Sem!Avail' = Sem!Avail - 1
         /\ Sem!Continue("owner") =>
              /\ Sem!TypeOK'
              /\ "owner" \in blocked' => Sem!Avail' = Sem!Avail
              /\ "owner" \notin blocked' => Sem!Avail > 0 /\ Sem!Avail' = Sem!Avail - 1
         /\ Sem!Spurious("owner") => Sem!TypeOK' /\ Sem!Avail' = Sem!Avail
         /\ UNCHANGED sem => Sem!TypeOK' /\ Sem!Avail' = Sem!Avail
<1>1. Sem!Avail \in Nat
  BY DEF Sem!TypeOK, Sem!Avail
<1>2. ASSUME Sem!Wakeup PROVE Sem!Avail' = Sem!Avail + 1 /\ Sem!TypeOK'
  <2>1. Sem!Avail' = Sem!Avail + 1
    BY <1>2 DEF Sem!TypeOK, Sem!Avail, Sem!Wakeup, Sem!MustWake
  <2>2. wait' \in Int /\ wait' <= MaxStarts /\ wakeup' \in Nat
    BY <1>2 DEF Sem!TypeOK, Sem!Wakeup
  <2>3. blocked' \subseteq {"owner"} /\ woken' \subseteq {"owner"} /\ blocked' \cap woken' = {}
    BY <1>2 DEF Sem!TypeOK, Sem!Wakeup, Sem!NotifyOne
  <2> QED BY <2>1, <2>2, <2>3 DEF Sem!TypeOK
<1>3. ASSUME Sem!Wait("owner")
      PROVE  /\ Sem!TypeOK'
             /\ "owner" \in blocked' => Sem!Avail = 0 /\ Sem!Avail' = 0
             /\ "owner" \notin blocked' => Sem!Avail > 0 /\ Sem!Avail' = Sem!Avail - 1
  <2>1. CASE Sem!WaitPasses("owner")
    BY <2>1 DEF Sem!TypeOK, Sem!Avail, Sem!WaitPasses, Sem!Waiting
  <2>2. CASE Sem!WaitTakes("owner")
    BY <2>2 DEF Sem!TypeOK, Sem!Avail, Sem!WaitTakes, Sem!Waiting
  <2>3. CASE Sem!WaitBlocks("owner")
    BY <2>3 DEF Sem!TypeOK, Sem!Avail, Sem!WaitBlocks, Sem!Waiting
  <2> QED BY <1>3, <2>1, <2>2, <2>3 DEF Sem!Wait
<1>4. ASSUME Sem!Continue("owner")
      PROVE  /\ Sem!TypeOK'
             /\ "owner" \in blocked' => Sem!Avail' = Sem!Avail
             /\ "owner" \notin blocked' => Sem!Avail > 0 /\ Sem!Avail' = Sem!Avail - 1
  <2>1. CASE Sem!Resume("owner")
    BY <2>1 DEF Sem!TypeOK, Sem!Avail, Sem!Resume
  <2>2. CASE Sem!BlockAgain("owner")
    BY <2>2 DEF Sem!TypeOK, Sem!Avail, Sem!BlockAgain
  <2> QED BY <1>4, <2>1, <2>2 DEF Sem!Continue
<1>5. ASSUME Sem!Spurious("owner") PROVE Sem!TypeOK' /\ Sem!Avail' = Sem!Avail
  BY <1>5 DEF Sem!TypeOK, Sem!Avail, Sem!Spurious
<1>6. ASSUME UNCHANGED sem PROVE Sem!TypeOK' /\ Sem!Avail' = Sem!Avail
  BY <1>6 DEF Sem!TypeOK, Sem!Avail, sem
<1> QED BY <1>1, <1>2, <1>3, <1>4, <1>5, <1>6

\* The invariant holds when nothing has been started.
LEMMA ThreadInit == Init => ThreadInv
<1> SUFFICES ASSUME Init PROVE ThreadInv
  OBVIOUS
<1>1. Sem!TypeOK /\ Sem!Avail = 0
  BY StartAssumption DEF Init, Sem!Init, Sem!TypeOK, Sem!Avail
<1>2. /\ isRun = FALSE /\ owner = "idle" /\ started = 0 /\ mayExit \in BOOLEAN
      /\ wpc = [w \in Workers |-> "none"]
  BY DEF Init
<1>3. TypeOK
  <2>1. started \in 0..MaxStarts
    BY <1>2, StartAssumption
  <2>2. isRun \in BOOLEAN /\ wpc \in [Workers -> {"none", "run", "exit", "destroy", "wake", "clear", "end"}]
    BY <1>2
  <2> QED BY <1>1, <1>2, <2>1, <2>2 DEF TypeOK
<1>4. StartsInTurn /\ PermitKept /\ CloserHasWaker /\ FirstCloseWaits
  BY <1>2, StartAssumption DEF StartsInTurn, PermitKept, CloserHasWaker, FirstCloseWaits,
     CloseWaited, Workers
<1>5. FirstThread
  BY <1>1, <1>2 DEF FirstThread
<1> QED BY <1>3, <1>4, <1>5 DEF ThreadInv

-----------------------------------------------------------------------------
(* The owner's steps.                                                      *)

\* Start, Close and Dispose keep the invariant.
LEMMA OwnerStep == ThreadInv /\ Owner => ThreadInv'
<1> SUFFICES ASSUME ThreadInv, Owner PROVE ThreadInv'
  OBVIOUS
<1> USE StartAssumption DEF Workers
<1>0. /\ TypeOK /\ StartsInTurn /\ PermitKept /\ CloserHasWaker /\ FirstCloseWaits
      /\ ~mayExit => FirstThread
      /\ Sem!TypeOK /\ Sem!Avail \in Nat
      /\ started \in 0..MaxStarts
      /\ wpc \in [Workers -> {"none", "run", "exit", "destroy", "wake", "clear", "end"}]
  BY SemSteps DEF ThreadInv, TypeOK
<1>1. CASE Start
  <2>1. Sem!TypeOK' /\ Sem!Avail' = Sem!Avail
    BY <1>0, <1>1, SemSteps DEF Start
  <2>2. /\ owner' = "idle" /\ isRun' = TRUE /\ started' = started + 1 /\ started + 1 \in Workers
        /\ wpc' = [wpc EXCEPT ![started + 1] = "run"] /\ mayExit' = mayExit
    BY <1>0, <1>1 DEF Start
  <2>3. TypeOK'
    BY <1>0, <2>1, <2>2 DEF TypeOK
  <2>4. StartsInTurn' /\ PermitKept' /\ CloserHasWaker' /\ FirstCloseWaits'
    BY <1>0, <2>1, <2>2 DEF StartsInTurn, PermitKept, CloserHasWaker, FirstCloseWaits, CloseWaited
  <2>5. ~mayExit => FirstThread'
    BY <1>0, <2>1, <2>2 DEF FirstThread, CallbacksDone
  <2> QED BY <2>2, <2>3, <2>4, <2>5 DEF ThreadInv
<1>2. CASE CloseStopped
  <2>1. Sem!TypeOK' /\ Sem!Avail' = Sem!Avail
    BY <1>0, <1>2, SemSteps DEF CloseStopped
  <2>2. /\ owner = "idle" /\ ~isRun /\ owner' = "closed"
        /\ UNCHANGED <<isRun, started, wpc, mayExit>>
    BY <1>2 DEF CloseStopped
  <2>3. FirstCloseWaits'
    BY <1>0, <2>2 DEF FirstThread, FirstCloseWaits, CloseWaited, CallbacksDone
  <2> QED BY <1>0, <2>1, <2>2, <2>3 DEF ThreadInv, TypeOK, StartsInTurn, PermitKept, CloserHasWaker,
       FirstThread, CallbacksDone
<1>3. CASE CloseBegin
  <2>1. Sem!TypeOK' /\ Sem!Avail' = Sem!Avail
    BY <1>0, <1>3, SemSteps DEF CloseBegin
  <2>2. /\ owner = "idle" /\ isRun /\ owner' = "closing" /\ isRun' = FALSE
        /\ UNCHANGED <<started, wpc, mayExit>>
    BY <1>3 DEF CloseBegin
  <2>3. started > 0 /\ started \in Workers /\ wpc[started] # "none"
    BY <1>0, <2>2 DEF StartsInTurn
  <2>4. CloserHasWaker'
    BY <1>0, <2>1, <2>2, <2>3 DEF PermitKept, CloserHasWaker
  <2> QED BY <1>0, <2>1, <2>2, <2>3, <2>4 DEF ThreadInv, TypeOK, StartsInTurn, PermitKept,
       FirstThread, FirstCloseWaits, CloseWaited, CallbacksDone
<1>4. ASSUME owner = "closing", UNCHANGED <<isRun, started, wpc, mayExit>>, Sem!TypeOK',
             \/ owner' = "closing" /\ Sem!Avail' = Sem!Avail
             \/ owner' = "closed" /\ Sem!Avail > 0 /\ Sem!Avail' = Sem!Avail - 1
      PROVE  ThreadInv'
  <2>1. FirstCloseWaits'
    BY <1>0, <1>4 DEF FirstThread, FirstCloseWaits, CloseWaited, CallbacksDone
  <2>2. ~mayExit => FirstThread'
    BY <1>0, <1>4 DEF FirstThread, CallbacksDone, StartsInTurn
  <2>3. TypeOK' /\ StartsInTurn' /\ PermitKept' /\ CloserHasWaker'
    BY <1>0, <1>4 DEF TypeOK, StartsInTurn, PermitKept, CloserHasWaker
  <2> QED BY <1>4, <2>1, <2>2, <2>3 DEF ThreadInv
<1>5. CASE CloseWaits
  BY <1>0, <1>4, <1>5, SemSteps DEF CloseWaits
<1>6. CASE CloseContinues
  BY <1>0, <1>4, <1>6, SemSteps DEF CloseContinues
<1>7. CASE Spurious
  <2>1. Sem!TypeOK' /\ Sem!Avail' = Sem!Avail /\ UNCHANGED <<isRun, owner, started, wpc, mayExit>>
    BY <1>0, <1>7, SemSteps DEF Spurious
  <2> QED BY <1>0, <2>1 DEF ThreadInv, TypeOK, StartsInTurn, PermitKept, CloserHasWaker,
       FirstThread, FirstCloseWaits, CloseWaited, CallbacksDone
<1>8. CASE Dispose
  <2>1. Sem!TypeOK' /\ Sem!Avail' = Sem!Avail
    BY <1>0, <1>8, SemSteps DEF Dispose
  <2>2. owner = "closed" /\ owner' = "disposed" /\ UNCHANGED <<isRun, started, wpc, mayExit>>
    BY <1>8 DEF Dispose
  <2> QED BY <1>0, <2>1, <2>2 DEF ThreadInv, TypeOK, StartsInTurn, PermitKept, CloserHasWaker,
       FirstThread, FirstCloseWaits, CloseWaited, CallbacksDone
<1> QED BY <1>1, <1>2, <1>3, <1>5, <1>6, <1>7, <1>8 DEF Owner

-----------------------------------------------------------------------------
(* The thread's steps.                                                     *)

\* OnWork and Exit keep the invariant.
LEMMA WorkerStep == ASSUME NEW w \in Workers PROVE ThreadInv /\ Worker(w) => ThreadInv'
<1> SUFFICES ASSUME ThreadInv, Worker(w) PROVE ThreadInv'
  OBVIOUS
<1> USE StartAssumption DEF Workers
<1>0. /\ TypeOK /\ StartsInTurn /\ PermitKept /\ CloserHasWaker /\ FirstCloseWaits
      /\ ~mayExit => FirstThread
      /\ Sem!TypeOK /\ Sem!Avail \in Nat
      /\ started \in 0..MaxStarts
      /\ wpc \in [Workers -> {"none", "run", "exit", "destroy", "wake", "clear", "end"}]
  BY SemSteps DEF ThreadInv, TypeOK
\* A step before the wakeup that leaves _isRun as it is.
<1>1. ASSUME NEW to \in {"exit", "destroy", "wake"}, to = "exit" => mayExit,
             wpc[w] \in {"run", "exit", "destroy"}, wpc' = [wpc EXCEPT ![w] = to],
             isRun' \in {isRun, FALSE}, ~mayExit => isRun' = isRun,
             UNCHANGED <<owner, started, sem, mayExit>>
      PROVE  ThreadInv'
  <2>1. Sem!TypeOK' /\ Sem!Avail' = Sem!Avail
    BY <1>0, <1>1, SemSteps
  <2>2. w <= started
    BY <1>0, <1>1 DEF StartsInTurn, TypeOK
  <2>3. TypeOK'
    BY <1>0, <1>1, <2>1 DEF TypeOK
  <2>6. wpc' = [wpc EXCEPT ![w] = to] /\ to \in Live /\ UNCHANGED <<owner, started>>
    BY <1>1 DEF Live
  <2>7. isRun' => isRun
    BY <1>1, Zenon
  <2>8. StartsInTurn'
    BY <1>0, <2>2, <2>6, <2>7 DEF StartsInTurn, Live
  <2>9. PermitKept'
    BY <1>0, <2>1, <2>2, <2>6, <2>7 DEF PermitKept, Live
  <2>10. CloserHasWaker'
    BY <1>0, <2>1, <2>6 DEF CloserHasWaker, Live
  <2>4. StartsInTurn' /\ PermitKept' /\ CloserHasWaker'
    BY <2>8, <2>9, <2>10
  <2>5. ASSUME ~mayExit PROVE FirstThread' /\ FirstCloseWaits'
    <3>1. FirstThread /\ isRun' = isRun /\ to # "exit"
      BY <1>0, <1>1, <2>5
    <3>2. started = 1 => w = 1 /\ Sem!Avail = 0
      BY <1>0, <1>1, <2>2, <3>1 DEF FirstThread, CallbacksDone
    <3>3. started = 1 => owner \notin {"closed", "disposed"}
      BY <1>0, <1>1, <2>5, <3>2 DEF FirstCloseWaits, CloseWaited, CallbacksDone
    <3>4. FirstThread'
      BY <1>0, <1>1, <2>1, <3>1, <3>2 DEF FirstThread
    <3> QED BY <1>1, <3>3, <3>4 DEF FirstCloseWaits, CloseWaited
  <2> QED BY <1>1, <2>3, <2>4, <2>5 DEF ThreadInv, FirstCloseWaits, TypeOK
<1>2. CASE LoopEnds(w)
  <2>1. /\ wpc[w] = "run" /\ wpc' = [wpc EXCEPT ![w] = "destroy"]
        /\ UNCHANGED <<isRun, owner, started, sem, mayExit>>
    BY <1>2 DEF LoopEnds, Goto
  <2>2. /\ UNCHANGED <<owner, started, sem, mayExit>>
        /\ isRun' \in {isRun, FALSE} /\ isRun' = isRun
    BY <2>1
  <2> QED BY <1>1, <2>1, <2>2
<1>3. CASE Returns(w)
  <2>1. /\ wpc[w] = "run" /\ wpc' = [wpc EXCEPT ![w] = "destroy"]
        /\ UNCHANGED <<isRun, owner, started, sem, mayExit>>
    BY <1>3 DEF Returns, Goto
  <2>2. /\ UNCHANGED <<owner, started, sem, mayExit>>
        /\ isRun' \in {isRun, FALSE} /\ isRun' = isRun
    BY <2>1
  <2> QED BY <1>1, <2>1, <2>2
<1>4. CASE ExitTest(w)
  BY <1>1, <1>4 DEF ExitTest, Goto
<1>5. CASE ExitClear(w)
  <2>1. wpc[w] = "exit" /\ wpc' = [wpc EXCEPT ![w] = "destroy"] /\ isRun' = FALSE
        /\ UNCHANGED <<owner, started, sem, mayExit>>
    BY <1>5 DEF ExitClear, Goto
  <2>2. mayExit
    BY <1>0, <2>1 DEF FirstThread, TypeOK
  <2> QED BY <1>1, <2>1, <2>2
<1>6. CASE Destroy(w)
  <2>1. /\ wpc[w] = "destroy" /\ wpc' = [wpc EXCEPT ![w] = "wake"]
        /\ UNCHANGED <<isRun, owner, started, sem, mayExit>>
    BY <1>6 DEF Destroy, Goto
  <2>2. /\ UNCHANGED <<owner, started, sem, mayExit>>
        /\ isRun' \in {isRun, FALSE} /\ isRun' = isRun
    BY <2>1
  <2> QED BY <1>1, <2>1, <2>2
<1>7. CASE WakeUp(w)
  <2>1. Sem!TypeOK' /\ Sem!Avail' = Sem!Avail + 1
    BY <1>0, <1>7, SemSteps DEF WakeUp
  <2>2. /\ wpc[w] = "wake" /\ wpc' = [wpc EXCEPT ![w] = "clear"]
        /\ UNCHANGED <<isRun, owner, started, mayExit>>
    BY <1>7 DEF WakeUp, Goto
  <2>3. w <= started
    BY <1>0, <2>2 DEF StartsInTurn, TypeOK
  <2>4. TypeOK'
    BY <1>0, <2>1, <2>2 DEF TypeOK
  <2>7. StartsInTurn' /\ PermitKept' /\ CloserHasWaker'
    BY <1>0, <2>1, <2>2, <2>3 DEF StartsInTurn, PermitKept, CloserHasWaker
  <2>5. FirstCloseWaits'
    BY <1>0, <2>2 DEF FirstCloseWaits, CloseWaited, CallbacksDone
  <2>6. ~mayExit => FirstThread'
    BY <1>0, <2>2, <2>3 DEF FirstThread, CallbacksDone
  <2> QED BY <2>2, <2>4, <2>5, <2>6, <2>7 DEF ThreadInv
<1>8. CASE ClearRun(w)
  <2>1. Sem!TypeOK' /\ Sem!Avail' = Sem!Avail
    BY <1>0, <1>8, SemSteps DEF ClearRun
  <2>2. /\ wpc[w] = "clear" /\ wpc' = [wpc EXCEPT ![w] = "end"] /\ isRun' = FALSE
        /\ UNCHANGED <<owner, started, mayExit>>
    BY <1>8 DEF ClearRun, Goto
  <2>3. w <= started
    BY <1>0, <2>2 DEF StartsInTurn, TypeOK
  <2>4. TypeOK'
    BY <1>0, <2>1, <2>2 DEF TypeOK
  <2>7. StartsInTurn' /\ PermitKept' /\ CloserHasWaker'
    BY <1>0, <2>1, <2>2, <2>3 DEF StartsInTurn, PermitKept, CloserHasWaker
  <2>5. FirstCloseWaits'
    BY <1>0, <2>2 DEF FirstCloseWaits, CloseWaited, CallbacksDone
  <2>6. ~mayExit => FirstThread'
    BY <1>0, <2>1, <2>2, <2>3 DEF FirstThread, CallbacksDone
  <2> QED BY <2>2, <2>4, <2>5, <2>6, <2>7 DEF ThreadInv
<1> QED BY <1>2, <1>3, <1>4, <1>5, <1>6, <1>7, <1>8 DEF Worker

\* The invariant holds in every behaviour.
LEMMA ThreadInvHolds == Spec => []ThreadInv
<1>1. ThreadInv /\ [Next]_vars => ThreadInv'
  <2> SUFFICES ASSUME ThreadInv, [Next]_vars PROVE ThreadInv'
    OBVIOUS
  <2>1. CASE UNCHANGED vars
    <3>1. Sem!TypeOK' /\ Sem!Avail' = Sem!Avail /\ UNCHANGED <<isRun, owner, started, wpc, mayExit>>
      BY <2>1, SemSteps, StartAssumption DEF vars, sem, ThreadInv, TypeOK
    <3> QED BY <3>1 DEF ThreadInv, TypeOK, StartsInTurn, PermitKept, CloserHasWaker,
         FirstThread, FirstCloseWaits, CloseWaited, CallbacksDone
  <2> QED BY <2>1, OwnerStep, WorkerStep DEF Next
<1> QED BY <1>1, ThreadInit, PTL DEF Spec

\* A Close that waits always has a permit or a thread that will make one,
\* however many threads the object had and whatever permits and whatever
\* writes of _isRun the earlier ones left behind.
THEOREM CloserAlwaysHasWaker == Spec => []CloserHasWaker
BY ThreadInvHolds, PTL DEF ThreadInv

\* When the Close of a first thread that does not call Exit returns, the
\* thread is out of its callbacks.
THEOREM FirstCloseAlwaysWaits == Spec => []FirstCloseWaits
BY ThreadInvHolds, PTL DEF ThreadInv

\* What a step does to the semaphore is a step of a counting semaphore or none.
LEMMA OwnerCounts ==
  ASSUME Sem!TypeOK, Sem!Wakeup \/ Sem!Wait("owner") \/ Sem!Continue("owner") \/ Sem!Spurious("owner")
                     \/ UNCHANGED sem
  PROVE  [Sem!Counting!Next]_<<Sem!Avail, Sem!Waiting>>
<1>0. wait \in Int /\ wakeup \in Nat
  BY DEF Sem!TypeOK
<1>1. ASSUME Sem!WaitPasses("owner") \/ Sem!WaitTakes("owner") PROVE Sem!Counting!Acquire("owner")
  BY <1>0, <1>1 DEF Sem!WaitPasses, Sem!WaitTakes, Sem!Counting!Acquire, Sem!Avail, Sem!Waiting
<1>2. ASSUME Sem!WaitBlocks("owner") PROVE Sem!Counting!Enter("owner")
  BY <1>0, <1>2 DEF Sem!WaitBlocks, Sem!Counting!Enter, Sem!Avail, Sem!Waiting
<1>3. ASSUME Sem!Resume("owner") PROVE Sem!Counting!Acquire("owner")
  BY <1>0, <1>3 DEF Sem!Resume, Sem!Counting!Acquire, Sem!Avail, Sem!Waiting, Sem!TypeOK
<1>4. ASSUME Sem!BlockAgain("owner") \/ Sem!Spurious("owner")
      PROVE  Sem!Avail' = Sem!Avail /\ Sem!Waiting' = Sem!Waiting
  BY <1>4 DEF Sem!BlockAgain, Sem!Spurious, Sem!Avail, Sem!Waiting
<1>5. CASE Sem!Wakeup
  <2>1. Sem!Waiting' = Sem!Waiting
    BY <1>5 DEF Sem!Wakeup, Sem!NotifyOne, Sem!Waiting
  <2>2. Sem!Avail' = Sem!Avail + 1
    BY <1>0, <1>5 DEF Sem!Wakeup, Sem!MustWake, Sem!Avail
  <2> QED BY <2>1, <2>2 DEF Sem!Counting!Post, Sem!Counting!Next
<1>6. CASE UNCHANGED sem
  BY <1>6 DEF sem, Sem!Avail, Sem!Waiting
<1> QED BY <1>1, <1>2, <1>3, <1>4, <1>5, <1>6 DEF Sem!Wait, Sem!Continue, Sem!Counting!Next

\* Every step of the owner and of the threads uses the semaphore at most once.
LEMMA UsesSem ==
  [Next]_vars => Sem!Wakeup \/ Sem!Wait("owner") \/ Sem!Continue("owner") \/ Sem!Spurious("owner")
                 \/ UNCHANGED sem
<1>1. Owner => Sem!Wait("owner") \/ Sem!Continue("owner") \/ Sem!Spurious("owner") \/ UNCHANGED sem
  BY DEF Owner, Start, CloseStopped, CloseBegin, CloseWaits, CloseContinues, Spurious, Dispose
<1>2. ASSUME NEW w \in Workers, Worker(w) PROVE Sem!Wakeup \/ UNCHANGED sem
  BY <1>2 DEF Worker, LoopEnds, Returns, ExitTest, ExitClear, Destroy, WakeUp, ClearRun
<1> QED BY <1>1, <1>2 DEF Next, vars

\* Used by threads that are started and closed in turn, the class does nothing
\* a counting semaphore could not do: SemIsCounting without its progress.
THEOREM SemCountsSafely == Spec => Sem!Counting!Safety
<1>1. Init => Sem!Counting!Init
  BY DEF Init, Sem!Init, Sem!Counting!Init, Sem!Avail, Sem!Waiting
<1>2. ThreadInv /\ [Next]_vars => [Sem!Counting!Next]_<<Sem!Avail, Sem!Waiting>>
  BY OwnerCounts, UsesSem DEF ThreadInv, TypeOK
<1> QED BY <1>1, <1>2, ThreadInvHolds, PTL DEF Spec, Sem!Counting!Safety, Sem!Counting!svars

-----------------------------------------------------------------------------
(* Semaphore, for every finite set of threads that wait and any number of  *)
(* wakeups ahead.                                                          *)

\* The instance has copies of the operators on finite sets.
LEMMA SameCounts ==
  \A S : (AnySem!IsFiniteSet(S) <=> IsFiniteSet(S)) /\ AnySem!Cardinality(S) = Cardinality(S)
BY DEF AnySem!IsFiniteSet, IsFiniteSet, AnySem!Cardinality, Cardinality

WaitersInv == Cardinality(AnySem!Waiting) = AnySem!Debt + wakeup
WakeupsInv == wakeup <= Cardinality(woken)
SemInv == AnySem!TypeOK /\ WaitersInv /\ WakeupsInv

\* The two sets of threads are finite, and one thread counts for one.
LEMMA SemCounts ==
  ASSUME AnySem!ThreadAssumption, AnySem!TypeOK
  PROVE  /\ IsFiniteSet(AnySem!Waiting) /\ IsFiniteSet(woken)
         /\ Cardinality(AnySem!Waiting) \in Nat /\ Cardinality(woken) \in Nat
<1>1. AnySem!Waiting \subseteq Callers /\ woken \subseteq Callers
  BY DEF AnySem!TypeOK, AnySem!Waiting
<1>2. IsFiniteSet(AnySem!Waiting) /\ IsFiniteSet(woken)
  BY <1>1, SameCounts, FS_Subset DEF AnySem!ThreadAssumption
<1> QED BY <1>2, FS_CardinalityType

\* One thread more in wait().
LEMMA OneMore ==
  ASSUME NEW S, IsFiniteSet(S), NEW t, t \notin S
  PROVE  Cardinality(S \cup {t}) = Cardinality(S) + 1
BY FS_AddElement

\* One thread less in wait().
LEMMA OneLess ==
  ASSUME NEW S, IsFiniteSet(S), NEW t, t \in S
  PROVE  Cardinality(S \ {t}) = Cardinality(S) - 1
BY FS_RemoveElement

\* Nobody waits in a new semaphore.
LEMMA SemInit == ASSUME AnySem!ThreadAssumption PROVE AnySem!Init => SemInv
<1> SUFFICES ASSUME AnySem!Init PROVE SemInv
  OBVIOUS
<1>1. AnySem!TypeOK
  BY DEF AnySem!ThreadAssumption, AnySem!Init, AnySem!TypeOK
<1>2. AnySem!Waiting = {} /\ woken = {} /\ AnySem!Debt = 0 /\ wakeup = 0
  BY DEF AnySem!Init, AnySem!Waiting, AnySem!Debt
<1>3. Cardinality(AnySem!Waiting) = 0 /\ Cardinality(woken) = 0
  BY <1>2, FS_EmptySet
<1> QED BY <1>1, <1>2, <1>3 DEF SemInv, WaitersInv, WakeupsInv

\* Entering wait(), wakeup(), a spurious wakeup and returning all keep the
\* two counters in step with the threads.
LEMMA SemStep == ASSUME AnySem!ThreadAssumption PROVE SemInv /\ [AnySem!Next]_AnySem!vars => SemInv'
<1> SUFFICES ASSUME SemInv, [AnySem!Next]_AnySem!vars PROVE SemInv'
  OBVIOUS
<1>0. /\ AnySem!TypeOK /\ WaitersInv /\ WakeupsInv
      /\ wait \in Int /\ wakeup \in Nat
      /\ IsFiniteSet(AnySem!Waiting) /\ IsFiniteSet(woken)
      /\ Cardinality(AnySem!Waiting) \in Nat /\ Cardinality(woken) \in Nat
  BY SemCounts DEF SemInv, AnySem!TypeOK
<1>1. ASSUME NEW t \in Callers, AnySem!WaitPasses(t) PROVE SemInv'
  <2>1. AnySem!Waiting' = AnySem!Waiting /\ woken' = woken /\ wakeup' = wakeup /\ AnySem!Debt' = AnySem!Debt
    BY <1>0, <1>1 DEF AnySem!WaitPasses, AnySem!Waiting, AnySem!Debt
  <2>2. AnySem!TypeOK'
    BY <1>0, <1>1 DEF AnySem!ThreadAssumption, AnySem!WaitPasses, AnySem!TypeOK
  <2> QED BY <1>0, <2>1, <2>2 DEF SemInv, WaitersInv, WakeupsInv
<1>2. ASSUME NEW t \in Callers, AnySem!WaitTakes(t) PROVE SemInv'
  <2>1. AnySem!Waiting' = AnySem!Waiting /\ woken' = woken
    BY <1>2 DEF AnySem!WaitTakes, AnySem!Waiting
  <2>2. AnySem!Debt' = AnySem!Debt + 1 /\ wakeup' = wakeup - 1 /\ wakeup > 0
    BY <1>0, <1>2 DEF AnySem!WaitTakes, AnySem!Debt
  <2>3. AnySem!TypeOK'
    BY <1>0, <1>2 DEF AnySem!ThreadAssumption, AnySem!WaitTakes, AnySem!TypeOK
  <2> QED BY <1>0, <2>1, <2>2, <2>3 DEF SemInv, WaitersInv, WakeupsInv, AnySem!Debt
<1>3. ASSUME NEW t \in Callers, AnySem!WaitBlocks(t) PROVE SemInv'
  <2>1. AnySem!Waiting' = AnySem!Waiting \cup {t} /\ t \notin AnySem!Waiting
    BY <1>3 DEF AnySem!WaitBlocks, AnySem!Waiting
  <2>2. Cardinality(AnySem!Waiting') = Cardinality(AnySem!Waiting) + 1
    BY <1>0, <2>1, OneMore
  <2>3. AnySem!Debt' = AnySem!Debt + 1 /\ wakeup' = wakeup /\ woken' = woken
    BY <1>0, <1>3 DEF AnySem!WaitBlocks, AnySem!Debt
  <2>4. AnySem!TypeOK'
    BY <1>0, <1>3 DEF AnySem!ThreadAssumption, AnySem!WaitBlocks, AnySem!TypeOK, AnySem!Waiting
  <2> QED BY <1>0, <2>2, <2>3, <2>4 DEF SemInv, WaitersInv, WakeupsInv, AnySem!Debt
<1>4. ASSUME NEW t \in Callers, AnySem!Resume(t) PROVE SemInv'
  <2>1. AnySem!Waiting' = AnySem!Waiting \ {t} /\ t \in AnySem!Waiting /\ woken' = woken \ {t} /\ t \in woken
    BY <1>0, <1>4 DEF AnySem!Resume, AnySem!Waiting, AnySem!TypeOK
  <2>2. /\ Cardinality(AnySem!Waiting') = Cardinality(AnySem!Waiting) - 1
        /\ Cardinality(woken') = Cardinality(woken) - 1
    BY <1>0, <2>1, OneLess
  <2>3. AnySem!Debt' = AnySem!Debt /\ wakeup' = wakeup - 1
    BY <1>4 DEF AnySem!Resume, AnySem!Debt
  <2>4. AnySem!TypeOK'
    BY <1>0, <1>4 DEF AnySem!Resume, AnySem!TypeOK
  <2> QED BY <1>0, <2>2, <2>3, <2>4 DEF SemInv, WaitersInv, WakeupsInv, AnySem!Debt
<1>5. ASSUME NEW t \in Callers, AnySem!BlockAgain(t) PROVE SemInv'
  <2>1. AnySem!Waiting' = AnySem!Waiting /\ woken' = woken \ {t} /\ t \in woken
    BY <1>5 DEF AnySem!BlockAgain, AnySem!Waiting
  <2>2. Cardinality(woken') = Cardinality(woken) - 1
    BY <1>0, <2>1, OneLess
  <2>3. AnySem!TypeOK' /\ AnySem!Debt' = AnySem!Debt /\ wakeup' = 0 /\ wakeup = 0
    BY <1>0, <1>5 DEF AnySem!BlockAgain, AnySem!TypeOK, AnySem!Debt
  <2>4. Cardinality(woken) # 0
    BY <1>0, <2>1, FS_EmptySet
  <2> QED BY <1>0, <2>1, <2>2, <2>3, <2>4 DEF SemInv, WaitersInv, WakeupsInv
<1>6. ASSUME NEW t \in blocked, blocked' = blocked \ {t}, woken' = woken \cup {t}
      PROVE  /\ AnySem!Waiting' = AnySem!Waiting /\ Cardinality(woken') = Cardinality(woken) + 1
             /\ blocked' \subseteq Callers /\ woken' \subseteq Callers /\ blocked' \cap woken' = {}
  <2>1. t \notin woken
    BY <1>0 DEF AnySem!TypeOK
  <2> QED BY <1>0, <1>6, <2>1, OneMore DEF AnySem!Waiting, AnySem!TypeOK
<1>7. ASSUME NEW t \in Callers, AnySem!Spurious(t) PROVE SemInv'
  <2>1. wait' = wait /\ wakeup' = wakeup
    BY <1>7 DEF AnySem!Spurious
  <2>2. /\ AnySem!Waiting' = AnySem!Waiting /\ Cardinality(woken') = Cardinality(woken) + 1
        /\ blocked' \subseteq Callers /\ woken' \subseteq Callers /\ blocked' \cap woken' = {}
    BY <1>6, <1>7 DEF AnySem!Spurious
  <2> QED BY <1>0, <2>1, <2>2 DEF SemInv, AnySem!TypeOK, WaitersInv, WakeupsInv, AnySem!Debt
<1>8. CASE AnySem!Wakeup
  <2>1. CASE ~AnySem!MustWake
    <3>1. wait' = wait + 1 /\ wait < MaxAhead /\ UNCHANGED <<wakeup, blocked, woken>> /\ wait + 1 > 0
      BY <1>0, <1>8, <2>1 DEF AnySem!Wakeup, AnySem!MustWake
    <3>2. AnySem!Waiting' = AnySem!Waiting /\ AnySem!Debt' = AnySem!Debt
      BY <1>0, <3>1 DEF AnySem!Waiting, AnySem!Debt
    <3> QED BY <1>0, <3>1, <3>2 DEF AnySem!ThreadAssumption, SemInv, AnySem!TypeOK, WaitersInv, WakeupsInv
  <2>2. CASE AnySem!MustWake
    <3>1. /\ wait' = wait + 1 /\ wait < MaxAhead /\ wakeup' = wakeup + 1 /\ AnySem!NotifyOne
          /\ wait + 1 <= 0
      BY <1>8, <2>2 DEF AnySem!Wakeup, AnySem!MustWake
    <3>2. AnySem!Debt' = AnySem!Debt - 1 /\ AnySem!Debt \in Nat \ {0}
      BY <1>0, <3>1 DEF AnySem!Debt
    <3>3. /\ AnySem!Waiting' = AnySem!Waiting /\ wakeup' <= Cardinality(woken')
          /\ blocked' \subseteq Callers /\ woken' \subseteq Callers /\ blocked' \cap woken' = {}
      <4>1. CASE blocked = {}
        <5>1. blocked' = blocked /\ woken' = woken /\ AnySem!Waiting = woken
          BY <3>1, <4>1 DEF AnySem!NotifyOne, AnySem!Waiting
        <5>2. Cardinality(woken) = AnySem!Debt + wakeup
          BY <1>0, <5>1 DEF WaitersInv
        <5>3. wakeup' <= Cardinality(woken')
          BY <1>0, <3>1, <3>2, <5>1, <5>2
        <5> QED BY <1>0, <5>1, <5>3 DEF AnySem!TypeOK, AnySem!Waiting
      <4>2. CASE blocked # {}
        <5>1. PICK t \in blocked : blocked' = blocked \ {t} /\ woken' = woken \cup {t}
          BY <3>1, <4>2 DEF AnySem!NotifyOne
        <5>2. /\ AnySem!Waiting' = AnySem!Waiting /\ Cardinality(woken') = Cardinality(woken) + 1
              /\ blocked' \subseteq Callers /\ woken' \subseteq Callers /\ blocked' \cap woken' = {}
          BY <1>6, <5>1
        <5> QED BY <1>0, <3>1, <5>2 DEF WakeupsInv
      <4> QED BY <4>1, <4>2
    <3>4. AnySem!TypeOK'
      BY <1>0, <3>1, <3>3 DEF AnySem!ThreadAssumption, AnySem!TypeOK
    <3> QED BY <1>0, <3>1, <3>2, <3>3, <3>4 DEF SemInv, WaitersInv, WakeupsInv
  <2> QED BY <2>1, <2>2
<1>9. CASE UNCHANGED AnySem!vars
  BY <1>0, <1>9 DEF AnySem!vars, SemInv, AnySem!TypeOK, WaitersInv, WakeupsInv, AnySem!Waiting, AnySem!Debt
<1> QED BY <1>1, <1>2, <1>3, <1>4, <1>5, <1>7, <1>8, <1>9 DEF AnySem!Next, AnySem!Wait, AnySem!Continue

\* The invariant holds in every behaviour.
LEMMA SemInvHolds == ASSUME AnySem!ThreadAssumption PROVE AnySem!Spec => []SemInv
BY SemInit, SemStep, PTL DEF AnySem!Spec

\* The two counters of the semaphore account for every thread inside wait().
THEOREM WaitersAreCounted == ASSUME AnySem!ThreadAssumption PROVE AnySem!Spec => []AnySem!WaitersCounted
<1>1. SemInv => AnySem!WaitersCounted
  BY SameCounts DEF SemInv, WaitersInv, AnySem!WaitersCounted
<1> QED BY <1>1, SemInvHolds, PTL

\* A wakeup() that finds a waiting thread always has a woken thread to take
\* it, whatever spurious wakeups and overtaking callers do.
THEOREM WakeupsAreNotLost == ASSUME AnySem!ThreadAssumption PROVE AnySem!Spec => []AnySem!NoLostWakeup
<1>1. SemInv => AnySem!NoLostWakeup
  BY SameCounts DEF SemInv, WakeupsInv, AnySem!NoLostWakeup
<1> QED BY <1>1, SemInvHolds, PTL

-----------------------------------------------------------------------------
(* Refinement                                                              *)

\* One step of the class is one step of a counting semaphore, or none.
LEMMA CountingStep == SemInv /\ [AnySem!Next]_AnySem!vars => [AnySem!Counting!Next]_<<AnySem!Avail, AnySem!Waiting>>
<1> SUFFICES ASSUME SemInv, [AnySem!Next]_AnySem!vars PROVE [AnySem!Counting!Next]_<<AnySem!Avail, AnySem!Waiting>>
  OBVIOUS
<1>0. wait \in Int /\ wakeup \in Nat
  BY DEF SemInv, AnySem!TypeOK
<1> DEFINE Stutter == AnySem!Avail' = AnySem!Avail /\ AnySem!Waiting' = AnySem!Waiting
<1>1. ASSUME NEW t \in Callers, AnySem!WaitPasses(t) \/ AnySem!WaitTakes(t) PROVE AnySem!Counting!Acquire(t)
  BY <1>0, <1>1 DEF AnySem!WaitPasses, AnySem!WaitTakes, AnySem!Counting!Acquire, AnySem!Avail, AnySem!Waiting
<1>2. ASSUME NEW t \in Callers, AnySem!WaitBlocks(t) PROVE AnySem!Counting!Enter(t)
  BY <1>0, <1>2 DEF AnySem!WaitBlocks, AnySem!Counting!Enter, AnySem!Avail, AnySem!Waiting
<1>3. ASSUME NEW t \in Callers, AnySem!Resume(t) PROVE AnySem!Counting!Acquire(t)
  BY <1>0, <1>3 DEF AnySem!Resume, AnySem!Counting!Acquire, AnySem!Avail, AnySem!Waiting, SemInv, AnySem!TypeOK
<1>4. ASSUME NEW t \in Callers, AnySem!BlockAgain(t) \/ AnySem!Spurious(t) PROVE Stutter
  BY <1>4 DEF AnySem!BlockAgain, AnySem!Spurious, AnySem!Avail, AnySem!Waiting
<1>5. CASE AnySem!Wakeup
  <2>1. AnySem!Waiting' = AnySem!Waiting
    BY <1>5 DEF AnySem!Wakeup, AnySem!NotifyOne, AnySem!Waiting
  <2>2. AnySem!Avail' = AnySem!Avail + 1
    BY <1>0, <1>5 DEF AnySem!Wakeup, AnySem!MustWake, AnySem!Avail
  <2> QED BY <2>1, <2>2 DEF AnySem!Counting!Post, AnySem!Counting!Next
<1>6. CASE UNCHANGED AnySem!vars
  BY <1>6 DEF AnySem!vars, AnySem!Avail, AnySem!Waiting
<1> QED BY <1>1, <1>2, <1>3, <1>4, <1>5, <1>6 DEF AnySem!Next, AnySem!Wait, AnySem!Continue, AnySem!Counting!Next

\* The class does nothing a counting semaphore could not do: wait() never
\* returns without a permit of its own and wakeup() makes exactly one.
THEOREM ImplementsCountingSafety == ASSUME AnySem!ThreadAssumption PROVE AnySem!Spec => AnySem!Counting!Safety
<1>1. AnySem!Init => AnySem!Counting!Init
  BY DEF AnySem!Init, AnySem!Counting!Init, AnySem!Avail, AnySem!Waiting
<1> QED BY <1>1, CountingStep, SemInvHolds, PTL DEF AnySem!Spec, AnySem!Counting!Safety, AnySem!Counting!svars

-----------------------------------------------------------------------------
(* The threads of the client program                                       *)

\* The threads that readyCount stands for, and those past their Connect loop.
Counted == {t \in Threads : pc[t] \in Working \cup {"crashed"}}
Started(t) == pc[t] \notin {"create", "connect", "ready"}

\* A thread that sends, or is about to, has seen all the others started;
\* none ever goes back.
BarrierInv ==
  /\ readyCount = Cardinality(Counted)
  /\ \A t \in Threads : pc[t] = "poll" \/ (pc[t] = "work" /\ run[t]) => \A u \in Threads : Started(u)

\* Is there a client of thread t that was not created?
Uncreated(t) == \E n \in 1..NClient : client[t][n] = "null"

\* The clients of a thread at each of its places.  A thread that exit kept
\* from creating a client has connected none.
ClientsInv(t) ==
  /\ pc[t] = "create" => \A n \in 1..NClient : client[t][n] = IF n < idx[t] THEN "new" ELSE "null"
  /\ pc[t] # "create" /\ Uncreated(t) =>
       ~run[t] /\ \A n \in 1..NClient : client[t][n] \notin {"open", "closed"}
  /\ pc[t] = "close" => \A n \in 1..NClient : n < idx[t] => client[t][n] = "deleted"
  /\ pc[t] = "end" => \A n \in 1..NClient : client[t][n] = "deleted"
  /\ t < main => pc[t] = "end"
  /\ ~run[t] => ~cmdRun
  /\ ~earlyExit => /\ pc[t] # "create" => ~Uncreated(t)
                   /\ ~cmdRun => pc[t] # "create"
                   /\ pc[t] # "crashed"

Opened == {p \in Threads \X (1..NClient) : client[p[1]][p[2]] = "open"}

\* A thread that closes clients it never connected does not disturb the count.
CountInv ==
  ~waitErrors /\ (\A t \in Threads : pc[t] \in {"close", "end"} => Uncreated(t)) =>
    nConnect = Cardinality(Opened)

ProgramInv == ProgramTypeOK /\ BarrierInv /\ CountInv /\ \A t \in Threads : ClientsInv(t)

Places == Working \cup {"create", "connect", "ready", "end", "crashed"}
States == {"null", "new", "open", "closed", "deleted"}

-----------------------------------------------------------------------------
\* There are finitely many threads and clients.
LEMMA Finite ==
  ASSUME NEW S, S \subseteq Threads \/ S \subseteq Threads \X (1..NClient)
  PROVE  IsFiniteSet(S) /\ Cardinality(S) \in Nat
<1>1. IsFiniteSet(Threads) /\ IsFiniteSet(1..NClient)
  BY ProgramAssumption, FS_Interval DEF Threads
<1>2. IsFiniteSet(Threads \X (1..NClient))
  BY <1>1, FS_Product
<1>3. IsFiniteSet(S)
  BY <1>1, <1>2, FS_Subset
<1> QED BY <1>3, FS_CardinalityType

\* As many threads are counted as there are: each of them is.
LEMMA AllCounted ==
  ASSUME Cardinality(Counted) >= NThread
  PROVE  Counted = Threads
<1>1. IsFiniteSet(Threads) /\ Cardinality(Threads) = NThread
  BY ProgramAssumption, FS_Interval DEF Threads
<1>2. SUFFICES ASSUME NEW t \in Threads, t \notin Counted PROVE FALSE
  BY DEF Counted
<1>3. Counted \subseteq Threads \ {t}
  BY <1>2 DEF Counted
<1>4. IsFiniteSet(Threads \ {t}) /\ Cardinality(Threads \ {t}) = NThread - 1
  BY <1>1, FS_RemoveElement
<1>5. Cardinality(Counted) <= NThread - 1
  BY <1>3, <1>4, FS_Subset
<1>6. Cardinality(Counted) \in Nat
  BY Finite DEF Counted
<1> QED BY <1>5, <1>6, ProgramAssumption

\* What a turn of a loop does.
LEMMA TurnEffect ==
  ASSUME ProgramTypeOK, NEW t \in Threads, NEW s \in States, Turn(t, s), idx[t] <= NClient
  PROVE  /\ idx[t] \in 1..NClient
         /\ client' \in [Threads -> [1..NClient -> States]] /\ idx' \in [Threads -> 1..(NClient + 1)]
         /\ client'[t][idx[t]] = s /\ idx'[t] = idx[t] + 1
         /\ \A n \in 1..NClient : n # idx[t] => client'[t][n] = client[t][n]
         /\ \A u \in Threads : u # t => client'[u] = client[u] /\ idx'[u] = idx[u]
         /\ UNCHANGED <<cmdRun, main, run, pc, modes>>
BY ProgramAssumption DEF Turn, ProgramTypeOK, States

\* What the step to another loop does.
LEMMA GotoEffect ==
  ASSUME ProgramTypeOK, NEW t \in Threads, NEW from, NEW to \in Places, NextLoop(t, from, to)
  PROVE  /\ pc[t] = from /\ pc'[t] = to /\ idx'[t] = 1
         /\ pc' \in [Threads -> Places] /\ idx' \in [Threads -> 1..(NClient + 1)]
         /\ \A u \in Threads : u # t => pc'[u] = pc[u] /\ idx'[u] = idx[u]
BY ProgramAssumption DEF NextLoop, ProgramTypeOK, Places

\* The turns of the loops and what they do to a client.
Turns(t) ==
  \E s \in States : Turn(t, s) /\
    \/ Create(t) /\ s = "new"
    \/ Connect(t) /\ s = "open"
    \/ PollOk(t) /\ s = client[t][idx[t]]
    \/ PollLost(t) /\ s = "closed"
    \/ PollError(t) /\ s = "open"
    \/ DeleteClient(t) /\ s = "deleted"

\* The ways from one loop to the next.
Goes(t) ==
  \/ CreateDone(t) \/ ConnectDone(t) \/ Ready(t) \/ WaitOthers(t) \/ SendTests(t) \/ PollDone(t)
  \/ MainLoopEnds(t) \/ CloseNull(t) \/ ThreadEnds(t)

\* A thread takes a turn or goes on to its next loop.
LEMMA TurnsOrGoes ==
  ASSUME ProgramTypeOK, NEW t \in Threads, WorkThread(t)
  PROVE  Turns(t) \/ Goes(t)
<1>1. ASSUME PollOk(t) PROVE Turn(t, client[t][idx[t]]) /\ client[t][idx[t]] \in States
  BY <1>1 DEF PollOk, AtClient, States
<1>2. Create(t) \/ Connect(t) \/ PollLost(t) \/ PollError(t) \/ DeleteClient(t) => Turns(t)
  BY DEF Turns, States, Create, Connect, PollLost, PollError, DeleteClient
<1>3. PollOk(t) => Turns(t)
  BY <1>1 DEF Turns
<1> QED BY <1>2, <1>3 DEF WorkThread, Goes

-----------------------------------------------------------------------------
\* A turn of one of the loops.
LEMMA TurnOk == ASSUME ProgramInv, NEW t \in Threads, Turns(t) PROVE ProgramInv'
<1> DEFINE i == idx[t]
<1>0. ProgramTypeOK /\ BarrierInv /\ CountInv /\ ClientsInv(t)
  BY DEF ProgramInv
<1>1. PICK s \in States : Turn(t, s) /\
        \/ Create(t) /\ s = "new"
        \/ Connect(t) /\ s = "open"
        \/ PollOk(t) /\ s = client[t][idx[t]]
        \/ PollLost(t) /\ s = "closed"
        \/ PollError(t) /\ s = "open"
        \/ DeleteClient(t) /\ s = "deleted"
  BY DEF Turns
<1>2. i <= NClient
  BY <1>1 DEF Create, Connect, PollOk, PollLost, PollError, DeleteClient, AtClient
<1>3. /\ i \in 1..NClient
      /\ client' \in [Threads -> [1..NClient -> States]] /\ idx' \in [Threads -> 1..(NClient + 1)]
      /\ client'[t][i] = s /\ idx'[t] = i + 1
      /\ \A n \in 1..NClient : n # i => client'[t][n] = client[t][n]
      /\ \A u \in Threads : u # t => client'[u] = client[u] /\ idx'[u] = idx[u]
      /\ UNCHANGED <<cmdRun, main, run, pc, modes>>
  BY <1>0, <1>1, <1>2, TurnEffect
<1>4. readyCount' = readyCount /\ nConnect' \in Int
  BY <1>0, <1>1 DEF Create, Connect, PollOk, PollLost, PollError, DeleteClient, shared, ProgramTypeOK
<1>5. ProgramTypeOK'
  BY <1>0, <1>3, <1>4 DEF ProgramTypeOK, modes, States
<1>6. BarrierInv'
  BY <1>0, <1>3, <1>4 DEF BarrierInv, Counted, Started
\* Which client turns into what, and where the thread is.
<1> HIDE DEF i
<1>7. \/ pc[t] = "create" /\ client[t][i] = "null" /\ s = "new" /\ nConnect' = nConnect
      \/ pc[t] = "connect" /\ client[t][i] = "new" /\ s = "open" /\ nConnect' = nConnect + 1 /\ run[t]
      \/ pc[t] = "poll" /\ client[t][i] \in {"new", "open", "closed"} /\ s = client[t][i] /\ nConnect' = nConnect
      \/ pc[t] = "poll" /\ client[t][i] = "open" /\ s = "closed" /\ nConnect' = nConnect - 1
      \/ pc[t] = "poll" /\ client[t][i] = "open" /\ s = "open" /\ waitErrors
      \/ pc[t] = "close" /\ client[t][i] \in {"new", "open", "closed"} /\ s = "deleted" /\ nConnect' = nConnect
  BY <1>1 DEF Create, Connect, PollOk, PollLost, PollError, DeleteClient, AtClient, shared, i
<1>8. Uncreated(t)' => Uncreated(t)
  BY <1>3, <1>7 DEF Uncreated
<1>9. \A u \in Threads : u # t => (Uncreated(u)' <=> Uncreated(u))
  BY <1>3 DEF Uncreated
<1>10. ASSUME NEW u \in Threads, u # t PROVE ClientsInv(u)'
  <2>1. ClientsInv(u)
    BY DEF ProgramInv
  <2> QED BY <1>3, <1>9, <1>10, <2>1 DEF ClientsInv, modes
<1>11. ClientsInv(t)'
  <2>0. \A n \in 1..NClient : n < idx'[t] <=> n < idx[t] \/ n = i
    BY <1>3, ProgramAssumption DEF i
  <2>1. pc'[t] = "create" => \A n \in 1..NClient : client'[t][n] = IF n < idx'[t] THEN "new" ELSE "null"
    BY <1>0, <1>3, <1>7, <2>0 DEF ClientsInv
  <2>2. pc'[t] # "create" /\ Uncreated(t)' =>
          ~run'[t] /\ \A n \in 1..NClient : client'[t][n] \notin {"open", "closed"}
    BY <1>0, <1>3, <1>7, <1>8 DEF ClientsInv
  <2>3. pc'[t] = "close" => \A n \in 1..NClient : n < idx'[t] => client'[t][n] = "deleted"
    BY <1>0, <1>3, <1>7, <2>0 DEF ClientsInv
  <2>4. pc'[t] # "end" /\ ~(t < main')
    BY <1>0, <1>3, <1>7 DEF ClientsInv
  <2> QED BY <1>0, <1>3, <1>8, <2>1, <2>2, <2>3, <2>4 DEF ClientsInv, modes
<1>12. CountInv'
  <2> SUFFICES ASSUME ~waitErrors', \A u \in Threads : pc'[u] \in {"close", "end"} => Uncreated(u)'
               PROVE  nConnect' = Cardinality(Opened')
    BY DEF CountInv
  <2>1. nConnect = Cardinality(Opened) /\ ~waitErrors
    BY <1>0, <1>3, <1>8, <1>9 DEF CountInv, modes
  <2>2. IsFiniteSet(Opened) /\ Cardinality(Opened) \in Nat
    BY Finite DEF Opened
  <2> DEFINE p == <<t, i>>
  <2>3. p \in Threads \X (1..NClient) /\ p[1] = t /\ p[2] = i
    BY <1>3
  <2>4. \A q \in Threads \X (1..NClient) : q # p =>
          (client'[q[1]][q[2]] = "open" <=> client[q[1]][q[2]] = "open")
    BY <1>3
  <2>5. Opened' = IF s = "open" THEN Opened \cup {p} ELSE Opened \ {p}
    BY <1>3, <2>3, <2>4 DEF Opened
  <2>6. p \in Opened <=> client[t][i] = "open"
    BY <2>3 DEF Opened
  <2> HIDE DEF p
  <2>7. CASE s = "open" /\ client[t][i] # "open"
    <3>1. nConnect' = nConnect + 1
      BY <1>7, <2>7
    <3> QED BY <2>1, <2>2, <2>5, <2>6, <2>7, <3>1, FS_AddElement
  <2>8. CASE (s = "open") <=> (client[t][i] = "open")
    <3>1. nConnect' = nConnect
      BY <1>7, <2>1, <2>8
    <3>2. Opened' = Opened
      BY <2>5, <2>6, <2>8
    <3> QED BY <2>1, <3>1, <3>2
  <2>9. CASE s # "open" /\ client[t][i] = "open"
    <3>1. pc[t] # "close"
      BY <1>0, <1>3, <1>8, <2>9 DEF ClientsInv
    <3>2. nConnect' = nConnect - 1
      BY <1>7, <2>9, <3>1
    <3> QED BY <2>1, <2>2, <2>5, <2>6, <2>9, <3>2, FS_RemoveElement
  <2> QED BY <2>7, <2>8, <2>9
<1> QED BY <1>5, <1>6, <1>10, <1>11, <1>12 DEF ProgramInv

-----------------------------------------------------------------------------
\* Where a thread goes, what it knows there, and the barrier.
LEMMA GoesWhere ==
  ASSUME ProgramTypeOK, NEW t \in Threads, Goes(t)
  PROVE  /\ UNCHANGED <<cmdRun, main, run, client, nConnect, modes>>
         /\ \E to \in Places :
              /\ NextLoop(t, pc[t], to)
              /\ \/ pc[t] = "create" /\ to = "connect" /\ readyCount' = readyCount
                      /\ (~run[t] \/ idx[t] > NClient)
                 \/ pc[t] = "connect" /\ to = "ready" /\ readyCount' = readyCount
                 \/ pc[t] = "ready" /\ to = "wait" /\ readyCount' = readyCount + 1
                 \/ pc[t] = "wait" /\ to = "work" /\ readyCount' = readyCount /\ AllReady(t)
                 \/ pc[t] = "work" /\ to = "poll" /\ readyCount' = readyCount /\ run[t]
                 \/ pc[t] = "poll" /\ to = "work" /\ readyCount' = readyCount
                 \/ pc[t] = "work" /\ to = "close" /\ readyCount' = readyCount /\ ~run[t]
                 \/ pc[t] = "close" /\ to = "crashed" /\ readyCount' = readyCount /\ Uncreated(t)
                 \/ pc[t] = "close" /\ to = "end" /\ readyCount' = readyCount - 1 /\ idx[t] > NClient
<1>1. /\ UNCHANGED <<cmdRun, main, run, client, nConnect, modes>>
  BY DEF Goes, CreateDone, ConnectDone, Ready, WaitOthers, SendTests, PollDone, MainLoopEnds, CloseNull,
         ThreadEnds, shared
<1>2. CloseNull(t) => Uncreated(t)
  BY DEF CloseNull, AtClient, Uncreated, ProgramTypeOK
<1> QED BY <1>1, <1>2
     DEF Goes, CreateDone, ConnectDone, Ready, WaitOthers, SendTests, PollDone, MainLoopEnds, CloseNull,
         ThreadEnds, NextLoop, Places, Working, shared

\* The step from one loop to the next.
LEMMA GoOk == ASSUME ProgramInv, NEW t \in Threads, Goes(t) PROVE ProgramInv'
<1>0. ProgramTypeOK /\ BarrierInv /\ CountInv /\ ClientsInv(t)
  BY DEF ProgramInv
<1>1. UNCHANGED <<cmdRun, main, run, client, nConnect, modes>>
  BY <1>0, GoesWhere
<1>2. PICK to \in Places :
        /\ NextLoop(t, pc[t], to)
        /\ \/ pc[t] = "create" /\ to = "connect" /\ readyCount' = readyCount
                /\ (~run[t] \/ idx[t] > NClient)
           \/ pc[t] = "connect" /\ to = "ready" /\ readyCount' = readyCount
           \/ pc[t] = "ready" /\ to = "wait" /\ readyCount' = readyCount + 1
           \/ pc[t] = "wait" /\ to = "work" /\ readyCount' = readyCount /\ AllReady(t)
           \/ pc[t] = "work" /\ to = "poll" /\ readyCount' = readyCount /\ run[t]
           \/ pc[t] = "poll" /\ to = "work" /\ readyCount' = readyCount
           \/ pc[t] = "work" /\ to = "close" /\ readyCount' = readyCount /\ ~run[t]
           \/ pc[t] = "close" /\ to = "crashed" /\ readyCount' = readyCount /\ Uncreated(t)
           \/ pc[t] = "close" /\ to = "end" /\ readyCount' = readyCount - 1 /\ idx[t] > NClient
  BY <1>0, GoesWhere
<1>3. /\ pc'[t] = to /\ idx'[t] = 1
      /\ pc' \in [Threads -> Places] /\ idx' \in [Threads -> 1..(NClient + 1)]
      /\ \A u \in Threads : u # t => pc'[u] = pc[u] /\ idx'[u] = idx[u]
  BY <1>0, <1>2, GotoEffect
<1>4. \A u \in Threads : Uncreated(u)' <=> Uncreated(u)
  BY <1>1 DEF Uncreated
<1>5. readyCount' = Cardinality(Counted')
  <2> DEFINE C == Working \cup {"crashed"}
  <2>1. Counted' = IF to \in C THEN Counted \cup {t} ELSE Counted \ {t}
    BY <1>3 DEF Counted
  <2>2. t \in Counted <=> pc[t] \in C
    BY DEF Counted
  <2>3. readyCount = Cardinality(Counted) /\ IsFiniteSet(Counted) /\ Cardinality(Counted) \in Nat
    BY <1>0, Finite DEF BarrierInv, Counted
  <2>4. CASE pc[t] = "ready"
    <3>1. Counted' = Counted \cup {t} /\ t \notin Counted /\ readyCount' = readyCount + 1
      BY <1>2, <2>1, <2>2, <2>4 DEF Working
    <3> QED BY <2>3, <3>1, FS_AddElement
  <2>5. CASE to = "end"
    <3>1. Counted' = Counted \ {t} /\ t \in Counted /\ readyCount' = readyCount - 1
      BY <1>2, <2>1, <2>2, <2>5 DEF Working
    <3> QED BY <2>3, <3>1, FS_RemoveElement
  <2>6. CASE pc[t] # "ready" /\ to # "end"
    <3>1. Counted' = Counted /\ readyCount' = readyCount
      BY <1>2, <2>1, <2>2, <2>6 DEF Working
    <3> QED BY <2>3, <3>1
  <2> QED BY <2>4, <2>5, <2>6
<1>6. \A u \in Threads : Started(u) => Started(u)'
  BY <1>2, <1>3 DEF Started
<1>7. \A u \in Threads : pc'[u] = "poll" \/ (pc'[u] = "work" /\ run'[u]) => \A v \in Threads : Started(v)'
  <2> SUFFICES ASSUME NEW u \in Threads, pc'[u] = "poll" \/ (pc'[u] = "work" /\ run'[u]),
                      ~ \A v \in Threads : Started(v)
               PROVE  FALSE
    BY <1>6
  <2>1. u = t /\ pc[t] = "wait" /\ AllReady(t) /\ run[t]
    BY <1>0, <1>1, <1>2, <1>3 DEF BarrierInv
  <2>2. Cardinality(Counted) >= NThread
    BY <1>0, <2>1 DEF AllReady, BarrierInv
  <2>3. Counted = Threads
    BY <2>2, AllCounted
  <2> QED BY <2>3 DEF Counted, Started, Working
<1>8. readyCount' \in 0..NThread
  <2>1. IsFiniteSet(Threads) /\ Cardinality(Threads) = NThread
    BY ProgramAssumption, FS_Interval DEF Threads
  <2>2. Cardinality(Counted') \in Nat /\ Cardinality(Counted') <= NThread
    BY <2>1, Finite, FS_Subset DEF Counted
  <2> QED BY <1>5, <2>2, ProgramAssumption
<1>9. ProgramTypeOK'
  BY <1>0, <1>1, <1>3, <1>8 DEF ProgramTypeOK, modes, Places
<1>10. ASSUME NEW u \in Threads, u # t PROVE ClientsInv(u)'
  <2>1. ClientsInv(u)
    BY DEF ProgramInv
  <2> QED BY <1>1, <1>3, <1>4, <1>10, <2>1 DEF ClientsInv, modes
<1>11. ClientsInv(t)'
  <2>1. pc'[t] # "create" /\ ~(t < main)
    BY <1>0, <1>2, <1>3 DEF ClientsInv
  <2>2. Uncreated(t) => ~run[t] /\ \A n \in 1..NClient : client[t][n] \notin {"open", "closed"}
    <3>1. CASE pc[t] = "create"
      <4>1. \A n \in 1..NClient : client[t][n] \in {"null", "new"}
        BY <1>0, <3>1 DEF ClientsInv
      <4>2. idx[t] > NClient => ~Uncreated(t)
        BY <1>0, <3>1, ProgramAssumption DEF ClientsInv, Uncreated, ProgramTypeOK
      <4> QED BY <1>2, <3>1, <4>1, <4>2
    <3> QED BY <1>0, <3>1 DEF ClientsInv
  <2>3. pc'[t] = "end" => \A n \in 1..NClient : client'[t][n] = "deleted"
    BY <1>0, <1>1, <1>2, <1>3, ProgramAssumption DEF ClientsInv, ProgramTypeOK
  <2>4. ~earlyExit => ~Uncreated(t)
    <3>1. CASE pc[t] = "create"
      <4>1. idx[t] > NClient => ~Uncreated(t)
        BY <1>0, <3>1, ProgramAssumption DEF ClientsInv, Uncreated, ProgramTypeOK
      <4>2. ~earlyExit => run[t]
        BY <1>0, <3>1 DEF ClientsInv
      <4> QED BY <1>2, <3>1, <4>1, <4>2
    <3> QED BY <1>0, <3>1 DEF ClientsInv
  <2>5. ~earlyExit => to # "crashed"
    BY <1>2, <2>4
  <2>6. pc'[t] = "close" => \A n \in 1..NClient : n < idx'[t] => client'[t][n] = "deleted"
    BY <1>3
  <2>7. ~run[t] => ~cmdRun
    BY <1>0 DEF ClientsInv
  <2> QED BY <1>1, <1>3, <1>4, <2>1, <2>2, <2>3, <2>4, <2>5, <2>6, <2>7 DEF ClientsInv, modes
<1>12. CountInv'
  <2>1. Opened' = Opened
    BY <1>1 DEF Opened
  <2>2. (\A u \in Threads : pc'[u] \in {"close", "end"} => Uncreated(u)) =>
        (\A u \in Threads : pc[u] \in {"close", "end"} => Uncreated(u))
    BY <1>2, <1>3
  <2> QED BY <1>0, <1>1, <1>4, <2>1, <2>2 DEF CountInv, modes
<1> QED BY <1>5, <1>7, <1>9, <1>10, <1>11, <1>12 DEF ProgramInv, BarrierInv

-----------------------------------------------------------------------------
\* main and the command thread.
LEMMA MainOk == ASSUME ProgramInv, ExitCommand \/ Main PROVE ProgramInv'
<1>0. ProgramTypeOK /\ BarrierInv /\ CountInv
  BY DEF ProgramInv
<1>1. UNCHANGED <<pc, idx, client, shared, modes>>
  BY DEF ExitCommand, Main, MainEnds, CloseThread
<1>2. \A u \in Threads : (Uncreated(u)' <=> Uncreated(u)) /\ (Started(u)' <=> Started(u))
  BY <1>1 DEF Uncreated, Started
<1>3. Counted' = Counted /\ Opened' = Opened
  BY <1>1 DEF Counted, Opened
<1>4. CountInv'
  BY <1>0, <1>1, <1>2, <1>3 DEF CountInv, shared, modes
<1>5. /\ cmdRun' \in BOOLEAN /\ main' \in 0..(NThread + 1) /\ run' \in [Threads -> BOOLEAN]
      /\ \A u \in Threads : run'[u] => run[u]
  <2>1. /\ cmdRun \in BOOLEAN /\ main \in 0..(NThread + 1) /\ run \in [Threads -> BOOLEAN]
        /\ NThread \in Nat
    BY <1>0, ProgramAssumption DEF ProgramTypeOK
  <2>2. CASE ExitCommand
    BY <2>1, <2>2 DEF ExitCommand
  <2>3. CASE MainEnds
    BY <2>1, <2>3 DEF MainEnds
  <2>4. ASSUME NEW t \in Threads, CloseThread(t)
        PROVE  /\ cmdRun' = cmdRun /\ main' = t
               /\ run' \in [Threads -> BOOLEAN] /\ \A u \in Threads : run'[u] => run[u]
    BY <2>1, <2>4 DEF CloseThread
  <2>5. \A t \in Threads : t \in 0..(NThread + 1)
    BY <2>1 DEF Threads
  <2> QED BY <2>1, <2>2, <2>3, <2>4, <2>5 DEF Main
<1>6. ProgramTypeOK'
  BY <1>0, <1>1, <1>5 DEF ProgramTypeOK, shared, modes
<1>7. BarrierInv'
  BY <1>0, <1>1, <1>2, <1>3, <1>5 DEF BarrierInv, shared
<1>8. ASSUME NEW u \in Threads PROVE ClientsInv(u)'
  <2>1. ClientsInv(u)
    BY DEF ProgramInv
  <2>2. ~run'[u] => ~cmdRun'
    BY <1>0, <2>1 DEF ExitCommand, Main, MainEnds, CloseThread, ClientsInv, ProgramTypeOK
  <2>3. u < main' => pc[u] = "end"
    <3>1. CASE ExitCommand
      BY <2>1, <3>1 DEF ExitCommand, ClientsInv
    <3>2. CASE MainEnds
      BY <2>1, <3>2, ProgramAssumption DEF MainEnds, ClientsInv, Threads
    <3>3. ASSUME NEW t \in Threads, CloseThread(t) PROVE u < main' => pc[u] = "end"
      BY <2>1, <3>3, ProgramAssumption DEF CloseThread, Closable, ClientsInv, Threads
    <3> QED BY <3>1, <3>2, <3>3 DEF Main
  <2>4. ~earlyExit /\ ~cmdRun' => pc[u] # "create"
    BY <2>1 DEF ExitCommand, Creating, Main, MainEnds, CloseThread, ClientsInv
  <2> QED BY <1>1, <1>2, <1>5, <2>1, <2>2, <2>3, <2>4 DEF ClientsInv, modes
<1> QED BY <1>4, <1>6, <1>7, <1>8 DEF ProgramInv

\* Nothing has been created, connected or counted at the start.
LEMMA ProgramStarts == ProgramInit => ProgramInv
<1> SUFFICES ASSUME ProgramInit PROVE ProgramInv
  OBVIOUS
<1>1. ProgramTypeOK
  BY ProgramAssumption DEF ProgramInit, ProgramTypeOK, Working
<1>2. Counted = {} /\ Opened = {} /\ Cardinality({}) = 0
  BY FS_EmptySet DEF ProgramInit, Counted, Opened, Working, Threads
<1>3. BarrierInv /\ CountInv
  BY <1>2 DEF ProgramInit, BarrierInv, CountInv
<1>4. \A t \in Threads : ClientsInv(t)
  BY ProgramAssumption DEF ProgramInit, ClientsInv, Threads
<1> QED BY <1>1, <1>3, <1>4 DEF ProgramInv

\* Every step of the threads, of main and of the command thread keeps it.
LEMMA ProgramStep == ProgramInv /\ [ProgramNext]_programVars => ProgramInv'
<1>1. ProgramInv /\ (ExitCommand \/ Main) => ProgramInv'
  BY MainOk
<1>2. ASSUME ProgramInv, NEW t \in Threads, WorkThread(t) PROVE ProgramInv'
  <2>1. Turns(t) \/ Goes(t)
    BY <1>2, TurnsOrGoes DEF ProgramInv
  <2> QED BY <1>2, <2>1, TurnOk, GoOk
<1>3. ProgramInv /\ UNCHANGED programVars => ProgramInv'
  BY DEF programVars, shared, modes, ProgramInv, ProgramTypeOK, BarrierInv, Counted, Started, CountInv, Opened, ClientsInv, Uncreated
<1> QED BY <1>1, <1>2, <1>3 DEF ProgramNext

\* The invariant holds in every behaviour.
LEMMA ProgramHolds == ProgramSpec => []ProgramInv
BY ProgramStarts, ProgramStep, PTL DEF ProgramSpec

\* Every variable keeps its type; in particular readyCount stays between 0
\* and the number of threads, although threads leave the barrier and the
\* program while others arrive.
THEOREM ProgramTypeCorrect == ProgramSpec => []ProgramTypeOK
BY ProgramHolds, PTL DEF ProgramInv

\* The barrier of client.cpp:192 holds for any number of threads, also when
\* exit comes while some wait at it.
THEOREM BarrierHolds == ProgramSpec => []NobodySendsEarly
<1>1. ProgramInv => NobodySendsEarly
  BY DEF ProgramInv, BarrierInv, NobodySendsEarly, Started
<1> QED BY <1>1, ProgramHolds, PTL

\* nConnect is the number of open connections as long as no wait fails and
\* no thread deletes its clients.
THEOREM ConnectsAreCounted == ProgramSpec => []ConnectsCounted
<1>1. ProgramInv => ConnectsCounted
  BY DEF ProgramInv, CountInv, Opened, ConnectsCounted
<1> QED BY <1>1, ProgramHolds, PTL

\* Unless exit comes during start-up, no thread touches a client it never
\* created, and none is left when main ends.
THEOREM ClientsAreDeleted == ProgramSpec => []ClientsDeleted
<1>1. ASSUME ProgramInv PROVE ClientsDeleted
  <2>1. \A t \in Threads : main > NThread => t < main
    BY <1>1, ProgramAssumption DEF ProgramInv, ProgramTypeOK, Threads
  <2> QED BY <1>1, <2>1 DEF ProgramInv, ClientsInv, ClientsDeleted
<1> QED BY <1>1, ProgramHolds, PTL
=============================================================================
