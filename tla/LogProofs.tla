------------------------------ MODULE LogProofs ------------------------------
(***************************************************************************)
(* Theorems about TaskServer and Log, for every set of tasks: the list and *)
(* the buffer are one queue, and the file of the log gets all of it.       *)
(***************************************************************************)
EXTENDS Log, TLAPS

\* How many tasks the thread has yet to run before the first of its buffer;
\* negative in the last loop, which does not empty the buffer.
Left ==
  CASE pc = "run" -> Len(tasks) + 1 - next
    [] pc = "drain" -> 1 - next
    [] OTHER -> 0

\* What ran, what is in the list and what is in the buffer are, one after the
\* other, what was added.
QueueInv ==
  /\ Len(ran) <= Len(added) /\ \A i \in 1..Len(ran) : ran[i] = added[i]
  /\ pc = "top" => tasks = <<>>
  /\ pc = "run" => /\ next <= Len(tasks) + 1
                   /\ \A i \in next..Len(tasks) : tasks[i] = added[Len(ran) + 1 + i - next]
  /\ pc = "drain" => next <= Len(tasksBuf) + 1
  /\ pc # "end" => /\ Len(added) = Len(ran) + Left + Len(tasksBuf)
                   /\ \A i \in 1..Len(tasksBuf) : Len(ran) + Left + i >= 1 =>
                        tasksBuf[i] = added[Len(ran) + Left + i]

\* The thread ends after Close began and when all of that has run.
CloseInv ==
  /\ isRun <=> closer = "open"
  /\ pc \in {"drain", "end"} => ~isRun
  /\ closer # "open" => before <= Len(added)
  /\ pc = "end" => before <= Len(ran)
  /\ closer = "closed" => pc = "end"

TaskInv == TypeOK /\ QueueInv /\ CloseInv

-----------------------------------------------------------------------------
\* One element more at the end of a sequence.
LEMMA AppendLast ==
  ASSUME NEW S, NEW q \in Seq(S), NEW x \in S
  PROVE  /\ Append(q, x) \in Seq(S) /\ Len(Append(q, x)) = Len(q) + 1 /\ Len(q) \in Nat
         /\ \A i \in 1..Len(q) : Append(q, x)[i] = q[i]
         /\ Append(q, x)[Len(q) + 1] = x
OBVIOUS

\* The task that runs next is the first of those that were added and did not run.
LEMMA NextIsFirst ==
  ASSUME TaskInv, HasTask
  PROVE  Len(ran) < Len(added) /\ Line = added[Len(ran) + 1] /\ Line \in Tasks
<1>1. /\ Len(ran) \in Nat /\ Len(added) \in Nat /\ Len(tasks) \in Nat /\ Len(tasksBuf) \in Nat
      /\ next \in Nat /\ next >= 1
  BY DEF TaskInv, TypeOK
<1>2. CASE pc = "run"
  <2>1. next \in next..Len(tasks) /\ Line = tasks[next]
    BY <1>1, <1>2 DEF HasTask, Line
  <2>2. tasks[next] = added[Len(ran) + 1 + next - next]
    BY <1>2, <2>1 DEF TaskInv, QueueInv
  <2>3. Len(added) = Len(ran) + (Len(tasks) + 1 - next) + Len(tasksBuf)
    BY <1>2 DEF TaskInv, QueueInv, Left
  <2>4. tasks[next] \in Tasks
    BY <1>1, <2>1 DEF TaskInv, TypeOK
  <2> QED BY <1>1, <2>1, <2>2, <2>3, <2>4
<1>3. CASE pc = "drain"
  <2>1. next \in 1..Len(tasksBuf) /\ Line = tasksBuf[next]
    BY <1>1, <1>3 DEF HasTask, Line
  <2>2. Left = 1 - next
    BY <1>3 DEF Left
  <2>3. Len(added) = Len(ran) + Left + Len(tasksBuf)
    BY <1>3 DEF TaskInv, QueueInv
  <2>4. Len(ran) + Left + next = Len(ran) + 1
    BY <1>1, <2>2
  <2>5. tasksBuf[next] = added[Len(ran) + Left + next]
    BY <1>1, <1>3, <2>1, <2>4 DEF TaskInv, QueueInv
  <2>6. tasksBuf[next] \in Tasks
    BY <2>1 DEF TaskInv, TypeOK
  <2> QED BY <1>1, <2>1, <2>2, <2>3, <2>4, <2>5, <2>6
<1> QED BY <1>2, <1>3 DEF HasTask

\* addTask by any thread, at any time.
LEMMA AddOk == ASSUME TaskInv, NEW t \in Tasks, AddTask(t) PROVE TaskInv'
<1>1. /\ tasksBuf' = Append(tasksBuf, t) /\ added' = Append(added, t)
      /\ UNCHANGED <<tasks, next, isRun, pc, closer, ran, before>>
  BY DEF AddTask
<1>2. /\ tasksBuf' \in Seq(Tasks) /\ Len(tasksBuf') = Len(tasksBuf) + 1 /\ Len(tasksBuf) \in Nat
      /\ \A i \in 1..Len(tasksBuf) : tasksBuf'[i] = tasksBuf[i]
      /\ tasksBuf'[Len(tasksBuf) + 1] = t
  BY <1>1, AppendLast DEF TaskInv, TypeOK
<1>3. /\ added' \in Seq(Tasks) /\ Len(added') = Len(added) + 1 /\ Len(added) \in Nat
      /\ \A i \in 1..Len(added) : added'[i] = added[i]
      /\ added'[Len(added) + 1] = t
  BY <1>1, AppendLast DEF TaskInv, TypeOK
<1>4. TypeOK'
  BY <1>1, <1>2, <1>3 DEF TaskInv, TypeOK
<1>5. CloseInv'
  BY <1>1, <1>3 DEF TaskInv, TypeOK, CloseInv
<1>6. QueueInv'
  <2>1. /\ Len(ran) \in Nat /\ Len(tasks) \in Nat /\ next \in Nat /\ next >= 1 /\ Left \in Int
    BY DEF TaskInv, TypeOK, Left
  <2>2. Left' = Left
    BY <1>1 DEF Left
  <2>3. Len(ran') <= Len(added') /\ \A i \in 1..Len(ran') : ran'[i] = added'[i]
    BY <1>1, <1>3, <2>1 DEF TaskInv, QueueInv
  <2>4. pc' = "run" => /\ next' <= Len(tasks') + 1
                       /\ \A i \in next'..Len(tasks') : tasks'[i] = added'[Len(ran') + 1 + i - next']
    <3> SUFFICES ASSUME pc = "run", NEW i \in next..Len(tasks)
                 PROVE  tasks[i] = added'[Len(ran) + 1 + i - next]
      BY <1>1 DEF TaskInv, QueueInv
    <3>1. Len(added) = Len(ran) + (Len(tasks) + 1 - next) + Len(tasksBuf)
      BY DEF TaskInv, QueueInv, Left
    <3>2. Len(ran) + 1 + i - next \in 1..Len(added)
      BY <1>2, <1>3, <2>1, <3>1
    <3> QED BY <1>3, <3>2 DEF TaskInv, QueueInv
  <2>5. pc' = "drain" => next' <= Len(tasksBuf') + 1
    BY <1>1, <1>2, <2>1 DEF TaskInv, QueueInv
  <2>6. ASSUME pc # "end"
        PROVE  /\ Len(added') = Len(ran') + Left' + Len(tasksBuf')
               /\ \A i \in 1..Len(tasksBuf') : Len(ran') + Left' + i >= 1 =>
                    tasksBuf'[i] = added'[Len(ran') + Left' + i]
    <3>1. Len(added) = Len(ran) + Left + Len(tasksBuf)
      BY <2>6 DEF TaskInv, QueueInv
    <3>2. Len(added') = Len(ran') + Left' + Len(tasksBuf')
      BY <1>1, <1>2, <1>3, <2>1, <2>2, <3>1
    <3>3. ASSUME NEW i \in 1..Len(tasksBuf'), Len(ran) + Left + i >= 1
          PROVE  tasksBuf'[i] = added'[Len(ran) + Left + i]
      <4>1. CASE i = Len(tasksBuf) + 1
        BY <1>2, <1>3, <2>1, <3>1, <4>1
      <4>2. CASE i # Len(tasksBuf) + 1
        <5>1. i \in 1..Len(tasksBuf) /\ Len(ran) + Left + i \in 1..Len(added)
          BY <1>2, <1>3, <2>1, <3>1, <3>3, <4>2
        <5>2. tasksBuf[i] = added[Len(ran) + Left + i]
          BY <2>6, <3>3, <5>1 DEF TaskInv, QueueInv
        <5> QED BY <1>2, <1>3, <5>1, <5>2
      <4> QED BY <4>1, <4>2
    <3> QED BY <1>1, <2>2, <3>2, <3>3
  <2> QED BY <1>1, <2>3, <2>4, <2>5, <2>6 DEF TaskInv, QueueInv
<1> QED BY <1>4, <1>5, <1>6 DEF TaskInv

\* The next task runs, from the list or in the last loop from the buffer.
LEMMA RunOk ==
  ASSUME TaskInv, RunLine
  PROVE  TaskInv' /\ HasTask /\ ran' = Append(ran, Line) /\ UNCHANGED added
<1>1. /\ HasTask /\ ran' = Append(ran, Line) /\ next' = next + 1
      /\ UNCHANGED <<tasksBuf, tasks, isRun, pc, closer, added, before>>
      /\ pc \in {"run", "drain"}
  BY DEF RunLine, RunTask, DrainTask, HasTask, Line
<1>2. Len(ran) < Len(added) /\ Line = added[Len(ran) + 1] /\ Line \in Tasks
  BY <1>1, NextIsFirst
<1>3. /\ ran' \in Seq(Tasks) /\ Len(ran') = Len(ran) + 1 /\ Len(ran) \in Nat
      /\ \A i \in 1..Len(ran) : ran'[i] = ran[i]
      /\ ran'[Len(ran) + 1] = Line
  <2>1. ran \in Seq(Tasks)
    BY DEF TaskInv, TypeOK
  <2> QED BY <1>1, <1>2, <2>1, AppendLast
<1>4. TypeOK'
  BY <1>1, <1>3 DEF TaskInv, TypeOK
<1>5. CloseInv'
  BY <1>1, <1>3 DEF TaskInv, TypeOK, CloseInv
<1>6. QueueInv'
  <2>1. /\ Len(tasks) \in Nat /\ Len(tasksBuf) \in Nat /\ Len(added) \in Nat
        /\ next \in Nat /\ next >= 1 /\ Left \in Int
    BY DEF TaskInv, TypeOK, Left
  <2>2. Left' = Left - 1
    BY <1>1, <2>1 DEF Left
  <2>3. Len(ran') <= Len(added') /\ \A i \in 1..Len(ran') : ran'[i] = added'[i]
    <3>1. \A i \in 1..Len(ran') : i \in 1..Len(ran) \/ i = Len(ran) + 1
      BY <1>3
    <3> QED BY <1>1, <1>2, <1>3, <2>1, <3>1 DEF TaskInv, QueueInv
  <2>4. pc' = "run" => next' <= Len(tasks') + 1
    BY <1>1, <2>1 DEF HasTask
  <2>5. ASSUME pc' = "run", NEW i \in next'..Len(tasks')
        PROVE  tasks'[i] = added'[Len(ran') + 1 + i - next']
    <3>0. i \in (next + 1)..Len(tasks) /\ next' = next + 1
      BY <1>1, <2>5
    <3>1. i \in next..Len(tasks) /\ Len(ran') + 1 + i - next' = Len(ran) + 1 + i - next
      BY <1>3, <2>1, <3>0
    <3> QED BY <1>1, <2>5, <3>1 DEF TaskInv, QueueInv
  <2>6. pc' = "drain" => next' <= Len(tasksBuf') + 1
    BY <1>1, <2>1 DEF HasTask
  <2>7. Len(ran') + Left' = Len(ran) + Left
    BY <1>3, <2>1, <2>2
  <2>8. /\ Len(added') = Len(ran') + Left' + Len(tasksBuf')
        /\ \A i \in 1..Len(tasksBuf') : Len(ran') + Left' + i >= 1 =>
             tasksBuf'[i] = added'[Len(ran') + Left' + i]
    BY <1>1, <2>7 DEF TaskInv, QueueInv
  <2> QED BY <1>1, <2>3, <2>4, <2>5, <2>6, <2>8 DEF QueueInv
<1> QED BY <1>1, <1>4, <1>5, <1>6 DEF TaskInv

\* The buffer becomes the list.
LEMMA TakeOk == ASSUME TaskInv, TakeTasks PROVE TaskInv'
<1>1. /\ pc = "top" /\ tasks' = tasks \o tasksBuf /\ tasksBuf' = <<>> /\ next' = 1 /\ pc' = "run"
      /\ UNCHANGED <<isRun, closer, added, ran, before>>
  BY DEF TakeTasks, Moved
<1>2. tasks' = tasksBuf /\ tasksBuf \in Seq(Tasks)
  BY <1>1 DEF TaskInv, QueueInv, TypeOK
<1>3. TypeOK' /\ CloseInv'
  BY <1>1, <1>2 DEF TaskInv, TypeOK, CloseInv
<1>4. QueueInv'
  <2>1. Left = 0 /\ Left' = Len(tasksBuf) /\ Len(tasksBuf') = 0
    BY <1>1, <1>2 DEF Left
  <2>2. /\ Len(ran) \in Nat /\ Len(tasksBuf) \in Nat
        /\ Len(added) = Len(ran) + Len(tasksBuf)
    BY <1>1, <2>1 DEF TaskInv, TypeOK, QueueInv
  <2>3. \A i \in 1..Len(tasksBuf) : Len(ran) + Left + i >= 1 /\ Len(ran) + Left + i = Len(ran) + 1 + i - 1
    BY <2>1, <2>2
  <2>4. \A i \in 1..Len(tasksBuf) : tasksBuf[i] = added[Len(ran) + 1 + i - 1]
    BY <1>1, <2>3 DEF TaskInv, QueueInv
  <2> QED BY <1>1, <1>2, <2>1, <2>2, <2>4 DEF TaskInv, QueueInv
<1> QED BY <1>3, <1>4 DEF TaskInv

\* The turns of OnRun that run nothing, and Close.
LEMMA ControlOk ==
  ASSUME TaskInv, Idle \/ ClearTasks \/ Stop \/ DrainEnd \/ CloseBegin \/ CloseEnd
  PROVE  TaskInv'
<1>0. /\ Len(ran) \in Nat /\ Len(tasks) \in Nat /\ Len(tasksBuf) \in Nat /\ Len(added) \in Nat
      /\ next \in Nat /\ next >= 1 /\ TypeOK /\ QueueInv /\ CloseInv
  BY DEF TaskInv, TypeOK
<1>1. CASE Idle
  BY <1>0, <1>1 DEF Idle, vars, TaskInv, TypeOK, QueueInv, Left, CloseInv
<1>2. CASE ClearTasks
  <2>1. Left = 0 /\ Left' = 0
    BY <1>0, <1>2 DEF ClearTasks, QueueInv, Left
  <2>2. TypeOK' /\ CloseInv'
    BY <1>0, <1>2 DEF ClearTasks, TypeOK, CloseInv
  <2>3. QueueInv'
    BY <1>0, <1>2, <2>1 DEF ClearTasks, QueueInv
  <2> QED BY <2>2, <2>3 DEF TaskInv
<1>3. CASE Stop
  <2>1. Left = 0 /\ Left' = 0
    BY <1>0, <1>3 DEF Stop, Left
  <2>2. TypeOK' /\ CloseInv'
    BY <1>0, <1>3 DEF Stop, TypeOK, CloseInv
  <2>3. QueueInv'
    BY <1>0, <1>3, <2>1 DEF Stop, QueueInv
  <2> QED BY <2>2, <2>3 DEF TaskInv
<1>4. CASE DrainEnd
  <2>1. Len(ran) = Len(added)
    BY <1>0, <1>4 DEF DrainEnd, QueueInv, Left
  <2>2. TypeOK' /\ CloseInv'
    BY <1>0, <1>4, <2>1 DEF DrainEnd, TypeOK, CloseInv
  <2>3. QueueInv'
    BY <1>0, <1>4 DEF DrainEnd, QueueInv
  <2> QED BY <2>2, <2>3 DEF TaskInv
<1>5. CASE CloseBegin
  <2>1. Left' = Left /\ UNCHANGED <<tasksBuf, tasks, next, pc, added, ran>>
    BY <1>5 DEF CloseBegin, Left
  <2>2. TypeOK'
    BY <1>0, <1>5 DEF CloseBegin, TypeOK
  <2>3. pc \notin {"drain", "end"} /\ before' = Len(added)
    BY <1>0, <1>5 DEF CloseBegin, CloseInv
  <2>4. CloseInv'
    BY <1>0, <1>5, <2>1, <2>3 DEF CloseBegin, CloseInv
  <2> QED BY <1>0, <2>1, <2>2, <2>4 DEF TaskInv, QueueInv
<1>6. CASE CloseEnd
  <2>1. Left' = Left /\ UNCHANGED <<tasksBuf, tasks, next, isRun, pc, added, ran, before>>
    BY <1>6 DEF CloseEnd, Left
  <2>2. TypeOK' /\ CloseInv'
    BY <1>0, <1>6 DEF CloseEnd, TypeOK, CloseInv
  <2> QED BY <1>0, <2>1, <2>2 DEF TaskInv, QueueInv
<1> QED BY <1>1, <1>2, <1>3, <1>4, <1>5, <1>6

\* The task server starts empty and open.
LEMMA TaskInit == Init => TaskInv
BY DEF Init, TaskInv, TypeOK, QueueInv, CloseInv, Left

\* Every step of the task server keeps its invariant.
LEMMA TaskStep == TaskInv /\ [Next]_vars => TaskInv'
<1>1. TaskInv /\ (RunTask \/ DrainTask) => TaskInv'
  BY RunOk DEF RunLine
<1>2. TaskInv /\ UNCHANGED vars => TaskInv'
  BY DEF vars, TaskInv, TypeOK, QueueInv, CloseInv, Left
<1> QED BY <1>1, <1>2, AddOk, TakeOk, ControlOk DEF Next, Work

\* A step of the log is a step of its task server, or leaves it alone.
LEMMA LogStepIsTaskStep == [LogNext]_logVars => [Next]_vars
<1>1. Info => Next
  BY DEF Info, Next
<1>2. LogThread => [Next]_vars
  BY DEF LogThread, EchoNoFile, EchoTest, EchoWrite, Turn, RunLine, Next, Work
<1>3. Main => [Next]_vars
  <2>1. Destroying => [Next]_vars
    BY <1>1 DEF Destroying, TasksClosed, LateInfo, CloseFile, Next
  <2>2. SetLogPath \/ SetLogPathAgain \/ CloseOld \/ OpenNew \/ DestroyLog => [Next]_vars
    BY <1>1 DEF SetLogPath, SetLogPathAgain, CloseOld, OpenNew, DestroyLog, Next
  <2> QED BY <2>1, <2>2 DEF Main
<1> QED BY <1>1, <1>2, <1>3 DEF LogNext, Echo, logVars

\* With one setLogPath: the file, if it could be opened, holds what ran, and
\* the thread that writes has a line to write to it.
FileInv ==
  ~reopens =>
    /\ mpc \notin {"reclose", "reopen", "run2"}
    /\ mpc = "start" =>
         logFile = 0 /\ openFiles = {} /\ lines[1] = <<>> /\ ran = <<>> /\ added = <<>>
    /\ logFile \in {0, 1}
    /\ logFile = 1 => openFiles = {1} /\ lines[1] = ran
    /\ mpc \in {"late", "fclose"} => logFile = 1
    /\ mpc \in {"late", "fclose", "end"} => closer = "closed"
    /\ echo => logFile = 1 /\ HasTask

FileTypes ==
  /\ logFile \in Files \cup {0} /\ openFiles \subseteq Files
  /\ lines \in [Files -> Seq(Tasks)]
  /\ echo \in BOOLEAN /\ reopens \in BOOLEAN
  /\ mpc \in {"start", "run", "run2", "reclose", "reopen", "closing", "late", "fclose", "end"}

LogInv == TaskInv /\ FileTypes /\ FileInv

-----------------------------------------------------------------------------
\* A line more in the buffer takes no task away from the thread.
LEMMA InfoEffect ==
  ASSUME TaskInv, Info
  PROVE  /\ UNCHANGED <<tasks, next, isRun, pc, closer, ran, before>>
         /\ HasTask => HasTask'
<1>1. PICK t \in Tasks : AddTask(t)
  BY DEF Info
<1>2. Len(tasksBuf') = Len(tasksBuf) + 1 /\ Len(tasksBuf) \in Nat
  BY <1>1, AppendLast DEF AddTask, TaskInv, TypeOK
<1> QED BY <1>1, <1>2 DEF AddTask, HasTask, TaskInv, TypeOK

\* Before setLogPath the thread has nothing to run.
LEMMA NothingToRun ==
  ASSUME TaskInv, added = <<>>
  PROVE  ~HasTask
BY NextIsFirst DEF TaskInv, TypeOK

\* What main does to the files.
LEMMA MainKeepsFiles == ASSUME LogInv, Main PROVE FileTypes' /\ FileInv'
<1>0. TaskInv /\ FileTypes /\ FileInv /\ echo' = echo /\ reopens' = reopens
  BY DEF LogInv, Main, Destroying, SetLogPath, SetLogPathAgain, CloseOld, OpenNew, DestroyLog,
         TasksClosed, LateInfo, CloseFile
<1>1. FileTypes'
  BY <1>0 DEF FileTypes, Files, Main, Destroying, SetLogPath, SetLogPathAgain, CloseOld, OpenNew,
         DestroyLog, TasksClosed, LateInfo, CloseFile, Fopen, Fclose, fileVars
<1> SUFFICES ASSUME ~reopens PROVE FileInv'
  BY <1>0, <1>1 DEF FileInv
<1>2. CASE SetLogPath
  <2>1. /\ Fopen(1) /\ mpc' = "run" /\ ran = <<>> /\ lines[1] = <<>> /\ ~echo
        /\ UNCHANGED <<ran, closer, echo>>
    BY <1>0, <1>2, InfoEffect, NothingToRun DEF SetLogPath, FileInv, FileTypes
  <2>2. openFiles = {} /\ mpc = "start"
    BY <1>0, <1>2 DEF SetLogPath, FileInv
  <2> QED BY <1>0, <2>1, <2>2 DEF FileInv, Fopen
<1>3. CASE SetLogPathAgain \/ CloseOld \/ OpenNew
  BY <1>0, <1>3 DEF SetLogPathAgain, CloseOld, OpenNew, FileInv
<1>4. CASE DestroyLog
  <2>1. /\ mpc \in {"run", "run2"} /\ mpc' = "closing" /\ UNCHANGED fileVars
        /\ UNCHANGED <<tasksBuf, tasks, next, pc, added, ran>>
    BY <1>4 DEF DestroyLog, CloseBegin
  <2>2. HasTask' <=> HasTask
    BY <2>1 DEF HasTask
  <2> QED BY <1>0, <2>1, <2>2 DEF FileInv, fileVars
<1>5. CASE TasksClosed
  <2>1. /\ mpc = "closing" /\ closer' = "closed" /\ UNCHANGED fileVars
        /\ mpc' = (IF logFile # 0 THEN "late" ELSE "end")
        /\ UNCHANGED <<tasksBuf, tasks, next, pc, added, ran>>
    BY <1>5 DEF TasksClosed, CloseEnd
  <2>2. HasTask' <=> HasTask
    BY <2>1 DEF HasTask
  <2> QED BY <1>0, <2>1, <2>2 DEF FileInv, fileVars
<1>6. CASE LateInfo
  <2>1. mpc = "late" /\ mpc' = "fclose" /\ UNCHANGED fileVars /\ Info
    BY <1>6 DEF LateInfo
  <2>2. UNCHANGED <<ran, closer>> /\ (HasTask => HasTask')
    BY <1>0, <2>1, InfoEffect
  <2> QED BY <1>0, <2>1, <2>2 DEF FileInv, fileVars
<1>7. CASE CloseFile
  <2>1. mpc = "fclose" /\ mpc' = "end" /\ logFile' = 0 /\ UNCHANGED <<ran, closer>>
    BY <1>7 DEF CloseFile, Fclose, vars
  \* The thread has ended, so that it is not about to write.
  <2>2. pc = "end" /\ ~HasTask /\ closer = "closed"
    BY <1>0, <2>1 DEF FileInv, TaskInv, CloseInv, HasTask
  <2> QED BY <1>0, <2>1, <2>2 DEF FileInv
<1> QED BY <1>2, <1>3, <1>4, <1>5, <1>6, <1>7 DEF Main, Destroying

\* What the thread does to them.
LEMMA ThreadKeepsFiles == ASSUME LogInv, LogThread PROVE FileTypes' /\ FileInv'
<1>0. TaskInv /\ FileTypes /\ FileInv
  BY DEF LogInv
<1>1. CASE EchoNoFile
  <2>1. logFile = 0 /\ RunLine /\ ~echo /\ UNCHANGED <<fileVars, echo, mpc, reopens>>
    BY <1>1 DEF EchoNoFile
  <2>2. HasTask /\ closer' = closer
    BY <1>0, <2>1, RunOk DEF RunLine, RunTask, DrainTask
  <2>3. FileTypes'
    BY <1>0, <2>1 DEF FileTypes, fileVars
  <2>4. ~reopens => mpc # "start"
    BY <1>0, <2>2, NothingToRun DEF FileInv
  <2> QED BY <1>0, <2>1, <2>2, <2>3, <2>4 DEF FileInv, fileVars
<1>2. CASE EchoTest
  <2>1. logFile # 0 /\ HasTask /\ echo' /\ UNCHANGED <<vars, fileVars, mpc, reopens>>
    BY <1>0, <1>2 DEF EchoTest, FileTypes
  <2>2. HasTask'
    BY <2>1 DEF HasTask, vars
  <2>3. FileTypes'
    BY <1>0, <1>2 DEF EchoTest, FileTypes, fileVars
  <2> QED BY <1>0, <2>1, <2>2, <2>3 DEF FileInv, fileVars, vars
<1>3. CASE EchoWrite
  <2>1. /\ echo /\ RunLine /\ ~echo' /\ UNCHANGED <<logFile, openFiles, mpc, reopens>>
        /\ lines' = IF logFile \in openFiles THEN [lines EXCEPT ![logFile] = Append(@, Line)] ELSE lines
    BY <1>0, <1>3 DEF EchoWrite, FileTypes
  <2>2. HasTask /\ ran' = Append(ran, Line) /\ closer' = closer /\ Line \in Tasks /\ added' = added
    BY <1>0, <2>1, RunOk, NextIsFirst DEF RunLine, RunTask, DrainTask
  <2>3. FileTypes'
    <3>1. \A f \in Files : Append(lines[f], Line) \in Seq(Tasks)
      BY <1>0, <2>2 DEF FileTypes
    <3>2. lines' \in [Files -> Seq(Tasks)]
      BY <1>0, <2>1, <3>1 DEF FileTypes
    <3> QED BY <1>0, <1>3, <2>1, <3>2 DEF FileTypes, EchoWrite
  <2>4. ~reopens => logFile = 1 /\ openFiles = {1} /\ lines'[1] = ran' /\ mpc # "start"
    BY <1>0, <2>1, <2>2 DEF FileInv, FileTypes, Files
  <2> QED BY <1>0, <2>1, <2>2, <2>3, <2>4 DEF FileInv
<1>4. CASE Turn
  <2>1. /\ Idle \/ TakeTasks \/ ClearTasks \/ Stop \/ DrainEnd
        /\ UNCHANGED <<fileVars, echo, mpc, reopens>> /\ UNCHANGED <<added, ran, closer>>
    BY <1>4 DEF Turn, Idle, TakeTasks, ClearTasks, Stop, DrainEnd, vars
  <2>2. HasTask => HasTask'
    <3>1. Len(tasks) \in Nat /\ Len(tasksBuf) \in Nat /\ next \in Nat
      BY <1>0 DEF TaskInv, TypeOK
    <3>2. TakeTasks \/ ClearTasks \/ Stop \/ DrainEnd => ~HasTask
      BY <3>1 DEF HasTask, TakeTasks, ClearTasks, Stop, DrainEnd
    <3>3. Idle => (HasTask' <=> HasTask)
      BY DEF Idle, HasTask, vars
    <3> QED BY <2>1, <3>2, <3>3
  <2>3. FileTypes'
    BY <1>0, <2>1 DEF FileTypes, fileVars
  <2> QED BY <1>0, <2>1, <2>2, <2>3 DEF FileInv, fileVars
<1> QED BY <1>1, <1>2, <1>3, <1>4 DEF LogThread

\* Every step of the log keeps the whole invariant.
LEMMA LogStep == LogInv /\ [LogNext]_logVars => LogInv'
<1> SUFFICES ASSUME LogInv, [LogNext]_logVars PROVE LogInv'
  OBVIOUS
<1>1. TaskInv'
  BY LogStepIsTaskStep, TaskStep DEF LogInv
<1>2. CASE Echo
  <2>1. mpc # "start" /\ Info /\ UNCHANGED <<fileVars, echo, mpc, reopens>>
    BY <1>2 DEF Echo
  <2>2. UNCHANGED <<ran, closer>> /\ (HasTask => HasTask')
    BY <2>1, InfoEffect DEF LogInv
  <2> QED BY <1>1, <2>1, <2>2 DEF LogInv, FileTypes, FileInv, fileVars
<1>3. CASE UNCHANGED logVars
  BY <1>1, <1>3 DEF LogInv, FileTypes, FileInv, HasTask, logVars, vars, fileVars
<1> QED BY <1>1, <1>2, <1>3, MainKeepsFiles, ThreadKeepsFiles DEF LogNext, LogInv

\* The log starts without a file and without a line.
LEMMA LogInitOk == LogInit => LogInv
<1> SUFFICES ASSUME LogInit PROVE LogInv
  OBVIOUS
<1>1. TaskInv
  BY TaskInit DEF LogInit
<1>2. <<>> \in Seq(Tasks)
  OBVIOUS
<1>3. FileTypes
  BY <1>2 DEF LogInit, FileTypes
<1>4. FileInv
  BY DEF LogInit, Init, FileInv, Files
<1> QED BY <1>1, <1>3, <1>4 DEF LogInv

\* The invariant holds in every behaviour.
LEMMA LogInvHolds == LogSpec => []LogInv
BY LogInitOk, LogStep, PTL DEF LogSpec

-----------------------------------------------------------------------------
\* Every variable of the log and of its task server keeps its type.
THEOREM TypeCorrect == LogSpec => []LogTypeOK
<1>1. LogInv => LogTypeOK
  BY DEF LogInv, TaskInv, FileTypes, LogTypeOK
<1> QED BY <1>1, LogInvHolds, PTL

\* When the destructor has closed the task server, the file holds every line
\* that was logged before, in order, whatever was logged while it closed.
THEOREM LinesAreKept == LogSpec => []LinesKept
<1>1. ASSUME LogInv, mpc \in {"late", "fclose"}, ~reopens
      PROVE  IsPrefix(SubSeq(added, 1, before), lines[logFile])
  <2>1. lines[logFile] = ran /\ before <= Len(ran) /\ before <= Len(added)
    BY <1>1 DEF LogInv, FileInv, TaskInv, CloseInv
  <2>2. /\ ran \in Seq(Tasks) /\ added \in Seq(Tasks) /\ before \in Nat
        /\ \A i \in 1..Len(ran) : ran[i] = added[i]
    BY <1>1 DEF LogInv, TaskInv, TypeOK, QueueInv
  <2> DEFINE s == SubSeq(added, 1, before)
  <2>3. s \in Seq(Tasks) /\ Len(s) = before /\ \A i \in 1..before : s[i] = added[i]
    BY <2>1, <2>2
  <2> HIDE DEF s
  <2>4. SubSeq(s, 1, Len(s)) = SubSeq(ran, 1, Len(s))
    <3> DEFINE a == SubSeq(s, 1, before)
               b == SubSeq(ran, 1, before)
    <3>1. a \in Seq(Tasks) /\ Len(a) = before /\ \A i \in 1..before : a[i] = s[i]
      BY <2>2, <2>3
    <3>2. b \in Seq(Tasks) /\ Len(b) = before /\ \A i \in 1..before : b[i] = ran[i]
      BY <2>1, <2>2
    <3>3. \A i \in 1..before : a[i] = b[i]
      BY <2>1, <2>2, <2>3, <3>1, <3>2
    <3> HIDE DEF a, b
    <3>4. a = b
      BY <3>1, <3>2, <3>3
    <3> QED BY <2>3, <3>4 DEF a, b
  <2> QED BY <2>1, <2>3, <2>4 DEF IsPrefix, s
<1>2. LogInv => LinesKept
  BY <1>1 DEF LinesKept
<1> QED BY <1>2, LogInvHolds, PTL

\* The thread of the log never writes to a file that the destructor closed.
THEOREM NeverWritesToClosed == LogSpec => []NoWriteAfterClose
<1>1. LogInv => NoWriteAfterClose
  BY DEF LogInv, FileInv, NoWriteAfterClose
<1> QED BY <1>1, LogInvHolds, PTL

-----------------------------------------------------------------------------
(* Refinement                                                              *)

\* A step of the task server is a step of the queue or leaves it alone.
LEMMA QueueStep == TaskInv /\ [Next]_vars => [Queue!Next]_<<added, ran>>
<1> SUFFICES ASSUME TaskInv, [Next]_vars PROVE [Queue!Next]_<<added, ran>>
  OBVIOUS
<1>1. ASSUME NEW t \in Tasks, AddTask(t) PROVE Queue!Add(t)
  BY <1>1 DEF AddTask, Queue!Add
<1>2. CASE RunTask \/ DrainTask
  BY <1>2, RunOk, NextIsFirst DEF RunLine, Queue!Run, Queue!Next
<1>3. CASE Idle \/ TakeTasks \/ ClearTasks \/ Stop \/ DrainEnd \/ CloseBegin \/ CloseEnd \/ UNCHANGED vars
  BY <1>3 DEF Idle, TakeTasks, ClearTasks, Stop, DrainEnd, CloseBegin, CloseEnd, vars
<1> QED BY <1>1, <1>2, <1>3 DEF Next, Work, Queue!Next

\* The buffer, the list and the loop without the lock together are a queue:
\* every line is handled at most once and in the order in which it was logged,
\* also while the program ends.
THEOREM LogIsQueue == LogSpec => ImplementsQueue
<1>1. LogInit => Queue!Init
  BY DEF LogInit, Init, Queue!Init
<1>2. TaskInv /\ [LogNext]_logVars => [Queue!Next]_<<added, ran>>
  BY LogStepIsTaskStep, QueueStep
<1>3. LogInv => TaskInv
  BY DEF LogInv
<1> QED BY <1>1, <1>2, <1>3, LogInvHolds, PTL DEF LogSpec, ImplementsQueue, Queue!Spec
=============================================================================
