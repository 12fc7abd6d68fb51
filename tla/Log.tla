--------------------------------- MODULE Log ---------------------------------
(***************************************************************************)
(* Log.hpp: one object for the whole program.  A line of the log is a task *)
(* of its TaskServer, which writes it to the file, if there is one, and to *)
(* the console; setLogPath opens the file and the destructor, when main    *)
(* has returned, closes the TaskServer and then the file.  Both programs   *)
(* call setLogPath once, before anything else.                             *)
(***************************************************************************)
EXTENDS TaskServer, FiniteSets, SequencesExt

VARIABLES
  logFile,    \* Log::_logFile: 0 (null) or the number of the FILE
  openFiles,  \* FILEs between fopen and fclose
  lines,      \* what was written to each FILE
  echo,       \* is the task that runs between its test of _logFile and the
              \* end of its fprintf?
  mpc,        \* where main is: "start", "run" (setLogPath was called), in a
              \* second setLogPath ("reclose", "reopen") or past it ("run2"),
              \* in ~Log ("closing", "late", "fclose"), "end"
  reopens     \* may main call setLogPath a second time?  It never changes

Files == {1, 2}
fileVars == <<logFile, openFiles, lines>>
logVars == <<vars, fileVars, echo, mpc, reopens>>

LogTypeOK ==
  /\ TypeOK
  /\ logFile \in Files \cup {0} /\ openFiles \subseteq Files
  /\ lines \in [Files -> Seq(Tasks)]
  /\ echo \in BOOLEAN /\ reopens \in BOOLEAN
  /\ mpc \in {"start", "run", "run2", "reclose", "reopen", "closing", "late", "fclose", "end"}

LogInit ==
  /\ Init
  /\ logFile = 0 /\ openFiles = {} /\ lines = [f \in Files |-> <<>>]
  /\ echo = FALSE /\ mpc = "start" /\ reopens \in BOOLEAN

\* Bound: the tasks that are left for the lines of setLogPath and ~Log.
Owed ==
  CASE mpc = "run" /\ reopens -> 3
    [] mpc \in {"reclose", "reopen"} -> 2
    [] mpc \in {"fclose", "end"} -> 0
    [] OTHER -> 1

Info == \E t \in Tasks : AddTask(t)

\* Log::Echo by any thread of the program, which may outlive main.
Echo ==
  /\ mpc # "start" /\ Len(added) + Owed < Cardinality(Tasks)
  /\ Info
  /\ UNCHANGED <<fileVars, echo, mpc, reopens>>

-----------------------------------------------------------------------------
(* main: setLogPath and, at the end of the program, ~Log                   *)

\* fopen may fail.
Fopen(f) ==
  \/ logFile' = f /\ openFiles' = openFiles \cup {f} /\ UNCHANGED lines
  \/ logFile' = 0 /\ UNCHANGED <<openFiles, lines>>

Fclose == openFiles' = openFiles \ {logFile} /\ logFile' = 0 /\ UNCHANGED lines

SetLogPath ==
  /\ mpc = "start" /\ Fopen(1) /\ Info
  /\ mpc' = "run" /\ UNCHANGED <<echo, reopens>>

\* A second call: a line to the file there is ...
SetLogPathAgain ==
  /\ mpc = "run" /\ reopens
  /\ IF logFile # 0 THEN Info /\ mpc' = "reclose" ELSE UNCHANGED vars /\ mpc' = "reopen"
  /\ UNCHANGED <<fileVars, echo, reopens>>

\* ... which is closed whatever the task server is doing ...
CloseOld ==
  /\ mpc = "reclose" /\ Fclose
  /\ mpc' = "reopen" /\ UNCHANGED <<vars, echo, reopens>>

\* ... and another is opened.
OpenNew ==
  /\ mpc = "reopen" /\ Fopen(2) /\ Info
  /\ mpc' = "run2" /\ UNCHANGED <<echo, reopens>>

DestroyLog ==
  /\ mpc \in {"run", "run2"} /\ CloseBegin
  /\ mpc' = "closing" /\ UNCHANGED <<fileVars, echo, reopens>>

TasksClosed_Unwaited ==
  /\ mpc = "closing"
  /\ mpc' = (IF logFile # 0 THEN "late" ELSE "end")
  /\ UNCHANGED <<vars, fileVars, echo, reopens>>

\* TaskServer::Close has returned.
TasksClosed ==
  /\ mpc = "closing" /\ CloseEnd
  /\ mpc' = (IF logFile # 0 THEN "late" ELSE "end")
  /\ UNCHANGED <<fileVars, echo, reopens>>

\* ~Log logs a line before it closes the file.
LateInfo ==
  /\ mpc = "late" /\ Info
  /\ mpc' = "fclose" /\ UNCHANGED <<fileVars, echo, reopens>>

CloseFile ==
  /\ mpc = "fclose" /\ Fclose
  /\ mpc' = "end" /\ UNCHANGED <<vars, echo, reopens>>

-----------------------------------------------------------------------------
(* The thread of the TaskServer                                            *)

HasTask ==
  \/ pc = "run" /\ next <= Len(tasks)
  \/ pc = "drain" /\ next <= Len(tasksBuf)
Line == IF pc = "run" THEN tasks[next] ELSE tasksBuf[next]
RunLine == RunTask \/ DrainTask

\* EchoReal finds no file: the line only goes to the console.
EchoNoFile ==
  /\ ~echo /\ logFile = 0 /\ RunLine
  /\ UNCHANGED <<fileVars, echo, mpc, reopens>>

\* EchoReal finds a file ...
EchoTest ==
  /\ ~echo /\ logFile # 0 /\ HasTask
  /\ echo' = TRUE /\ UNCHANGED <<vars, fileVars, mpc, reopens>>

\* ... and writes to what _logFile is by then.  A line that is written to a
\* closed FILE or to null is lost at best.
EchoWrite ==
  /\ echo /\ RunLine
  /\ echo' = FALSE
  /\ lines' = IF logFile \in openFiles THEN [lines EXCEPT ![logFile] = Append(@, Line)] ELSE lines
  /\ UNCHANGED <<logFile, openFiles, mpc, reopens>>

\* The rest of OnRun.
Turn ==
  /\ Idle \/ TakeTasks \/ ClearTasks \/ Stop \/ DrainEnd
  /\ UNCHANGED <<fileVars, echo, mpc, reopens>>

-----------------------------------------------------------------------------
LogThread == EchoNoFile \/ EchoTest \/ EchoWrite \/ Turn
Destroying == TasksClosed \/ LateInfo \/ CloseFile
Main == SetLogPath \/ SetLogPathAgain \/ CloseOld \/ OpenNew \/ DestroyLog \/ Destroying

LogNext == LogThread \/ Main \/ Echo

LogSpec == LogInit /\ [][LogNext]_logVars

\* The thread runs, and a destructor that began goes on.
LogFairness == WF_logVars(LogThread) /\ WF_logVars(Destroying)
LogFairSpec == LogSpec /\ LogFairness

-----------------------------------------------------------------------------
(* Properties                                                              *)

\* When ~Log closes the file, every line that was handed to the log before
\* the destructor is in it, in order, also those that only the last loop
\* found.  Not so the lines that come later, as the destructor's own.
LinesKept ==
  mpc \in {"late", "fclose"} /\ ~reopens =>
    IsPrefix(SubSeq(added, 1, before), lines[logFile])

\* The log thread never writes to a FILE that was closed under it: the
\* destructor closes the file only when TaskServer::Close has waited for the
\* thread.  A second setLogPath does not wait, and is left out.
NoWriteAfterClose == ~reopens /\ echo => logFile \in openFiles
=============================================================================
