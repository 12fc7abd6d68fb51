------------------------------ MODULE TaskServer ------------------------------
(***************************************************************************)
(* Task.hpp: any thread adds tasks to a buffer under a mutex, one thread   *)
(* moves the buffer to its own list, runs the list and, when it is         *)
(* stopped, runs what is left in the buffer, this time without the mutex.  *)
(* Its user is Log, which EXTENDS this module.                             *)
(* The thread is started once: WorkerThread models starting and closing.   *)
(***************************************************************************)
EXTENDS Naturals, Sequences

CONSTANTS Tasks   \* tasks the program may ever add, each once

VARIABLES
  tasksBuf,  \* TaskServer::_tasksBuf
  tasks,     \* TaskServer::_tasks
  next,      \* the loop over one of the lists: index of the next task
  isRun,     \* Thread::_isRun
  pc,        \* where OnRun is
  closer,    \* who closes the server: "open", "closing", "closed"
  added, ran,  \* history: the tasks in the order of addTask, and as they ran
  before     \* history: how many tasks had been added when Close began

vars == <<tasksBuf, tasks, next, isRun, pc, closer, added, ran, before>>

InSeq(t, q) == \E i \in 1..Len(q) : q[i] = t

TypeOK ==
  /\ tasksBuf \in Seq(Tasks) /\ tasks \in Seq(Tasks)
  /\ next \in Nat \ {0} /\ isRun \in BOOLEAN
  /\ pc \in {"top", "run", "drain", "end"}
  /\ closer \in {"open", "closing", "closed"}
  /\ added \in Seq(Tasks) /\ ran \in Seq(Tasks) /\ before \in Nat

Init ==
  /\ tasksBuf = <<>> /\ tasks = <<>> /\ next = 1
  /\ isRun = TRUE /\ pc = "top" /\ closer = "open"
  /\ added = <<>> /\ ran = <<>> /\ before = 0

AddTask(t) ==
  /\ ~InSeq(t, added)
  /\ tasksBuf' = Append(tasksBuf, t)
  /\ added' = Append(added, t)
  /\ UNCHANGED <<tasks, next, isRun, pc, closer, ran, before>>

\* A turn without any task: the loop sleeps.
Idle == pc = "top" /\ isRun /\ tasksBuf = <<>> /\ UNCHANGED vars

Moved_Reversed == [i \in 1..Len(tasksBuf) |-> tasksBuf[Len(tasksBuf) + 1 - i]]
Moved == tasks \o tasksBuf

\* The buffer is moved to the list under the mutex.
TakeTasks ==
  /\ pc = "top" /\ isRun /\ tasksBuf # <<>>
  /\ tasks' = Moved /\ tasksBuf' = <<>>
  /\ next' = 1 /\ pc' = "run"
  /\ UNCHANGED <<isRun, closer, added, ran, before>>

RunTask ==
  /\ pc = "run" /\ next <= Len(tasks)
  /\ ran' = Append(ran, tasks[next]) /\ next' = next + 1
  /\ UNCHANGED <<tasksBuf, tasks, isRun, pc, closer, added, before>>

ClearTasks ==
  /\ pc = "run" /\ next > Len(tasks)
  /\ tasks' = <<>> /\ pc' = "top"
  /\ UNCHANGED <<tasksBuf, next, isRun, closer, added, ran, before>>

Stop_NoDrain ==
  /\ pc = "top" /\ ~isRun
  /\ next' = 1 /\ pc' = "end"
  /\ UNCHANGED <<tasksBuf, tasks, isRun, closer, added, ran, before>>

Stop ==
  /\ pc = "top" /\ ~isRun
  /\ next' = 1 /\ pc' = "drain"
  /\ UNCHANGED <<tasksBuf, tasks, isRun, closer, added, ran, before>>

\* The last loop looks at the buffer itself, and sees a task added by now.
DrainTask ==
  /\ pc = "drain" /\ next <= Len(tasksBuf)
  /\ ran' = Append(ran, tasksBuf[next]) /\ next' = next + 1
  /\ UNCHANGED <<tasksBuf, tasks, isRun, pc, closer, added, before>>

DrainEnd ==
  /\ pc = "drain" /\ next > Len(tasksBuf)
  /\ pc' = "end"
  /\ UNCHANGED <<tasksBuf, tasks, next, isRun, closer, added, ran, before>>

\* Close() clears _isRun and waits for the thread.
CloseBegin ==
  /\ closer = "open"
  /\ isRun' = FALSE /\ closer' = "closing"
  /\ before' = Len(added)
  /\ UNCHANGED <<tasksBuf, tasks, next, pc, added, ran>>

CloseEnd ==
  /\ closer = "closing" /\ pc = "end"
  /\ closer' = "closed"
  /\ UNCHANGED <<tasksBuf, tasks, next, isRun, pc, added, ran, before>>

Work == Idle \/ TakeTasks \/ RunTask \/ ClearTasks \/ Stop \/ DrainTask \/ DrainEnd

Next == Work \/ CloseBegin \/ CloseEnd \/ \E t \in Tasks : AddTask(t)

Spec == Init /\ [][Next]_vars

\* The thread runs and a Close that began goes on.
Fairness == WF_vars(Work) /\ WF_vars(CloseEnd)

FairSpec == Spec /\ Fairness

-----------------------------------------------------------------------------
(* Properties                                                              *)

Queue == INSTANCE TaskQueue

\* The tasks run one after the other, each once, in the order of addTask,
\* also those that the last loop takes from the buffer.
ImplementsQueue == Queue!Spec

\* Every task that was added runs.  Does not hold for one that is added
\* after the last loop, as the line that ~Log adds after Close.
EveryTaskRuns == \A t \in Tasks : InSeq(t, added) ~> InSeq(t, ran)
=============================================================================
