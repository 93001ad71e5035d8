-------------------------------- MODULE TaskPoll --------------------------------
(***************************************************************************)
(* Waiting for a task on a PVE or PBS: poll_task of                         *)
(* backend/app/connectors/_tasks.py with the log tailer of the two clients  *)
(* and the stop of a cancelled run (_wait_or_stop, jobs/backup_cycle.py).   *)
(*                                                                         *)
(* Between any two requests the task may write lines or end.  Any request   *)
(* may fail, and takes up to MaxCall units of time; a unit is the poll      *)
(* interval.  Instants are kept as distances from now, so that time needs   *)
(* no bound: `left` is the time to the deadline, the ages count upwards.    *)
(***************************************************************************)
EXTENDS Integers, SequencesExt

CONSTANTS
  Timeout,    \* task_silence_timeout
  Grace,      \* _ERROR_GRACE
  MaxCall,    \* bound: units of time one request may take
  Batch,      \* limit of one log request
  MaxLines    \* bound: lines the task writes

ASSUME PollAssumption ==
  /\ {Timeout, Grace, Batch} \subseteq Nat \ {0}
  /\ {MaxCall, MaxLines} \subseteq Nat

VARIABLES
  task,         \* the task on the server (external)
  lines,        \* lines in its log (external)
  cancelled,    \* the stop flag, should_cancel()
  pc,           \* where poll_task is
  answer,       \* status as last read
  seen,         \* highest line number handed on
  left,         \* deadline - now, 0 when it has passed
  lost,         \* lost_at is not None
  lostFor,      \* now - lost_at
  result,       \* how the wait ended
  handed,       \* history: the lines given to on_lines; 0 is PVE's "no content"
  age,          \* history: how long ago each line was written; age[0]: the wait began
  sinceAnswer   \* history: time since a poll was answered in full

vars == <<task, lines, cancelled, pc, answer, seen, left, lost, lostFor, result, handed, age,
          sinceAnswer>>
serverVars == <<task, lines>>
waitVars == <<answer, seen, left, lost, lostFor, result>>
histVars == <<handed, age, sinceAnswer>>

TaskState == {"running", "ok", "bad"}
Result == {"none", "ok", "bad", "timeout", "lost", "cancelled"}
PollPlaces == {"check", "status", "drain", "test", "sleep", "last_drain", "stop", "done"}

TypeOK ==
  /\ task \in TaskState /\ lines \in 0 .. MaxLines /\ cancelled \in BOOLEAN
  /\ pc \in PollPlaces /\ answer \in TaskState /\ result \in Result
  /\ seen \in 0 .. MaxLines /\ left \in 0 .. Timeout
  /\ lost \in BOOLEAN /\ lostFor \in 0 .. Grace
  /\ handed \in Seq(0 .. MaxLines)
  /\ age \in [0 .. MaxLines -> 0 .. Timeout] /\ sinceAnswer \in 0 .. Grace

Init ==
  /\ task = "running" /\ lines = 0 /\ cancelled = FALSE
  /\ pc = "check" /\ answer = "running" /\ result = "none"
  /\ seen = 0 /\ left = Timeout /\ lost = FALSE /\ lostFor = 0
  /\ handed = <<>> /\ age = [n \in 0 .. MaxLines |-> 0] /\ sinceAnswer = 0

-----------------------------------------------------------------------------
AtMost(n, m) == IF n <= m THEN n ELSE m

\* d units of time go by: for what is measured up, and for the deadline.
Pass(d) ==
  /\ age' = [n \in 0 .. MaxLines |-> IF n <= lines THEN AtMost(age[n] + d, Timeout) ELSE 0]
  /\ sinceAnswer' = AtMost(sinceAnswer + d, Grace)
LeftAfter(d) == IF d < left THEN left - d ELSE 0
LostAfter(d) == IF lost THEN AtMost(lostFor + d, Grace) ELSE 0

\* Mutant: the wait gives up only when the deadline passes, which nobody looks at meanwhile.
NeverGivesUp(d) == FALSE
GivesUp(d) == lost /\ LostAfter(d) >= Grace

\* An ApiError from the status or the log request: the first one opens the grace window.
Failed(d) ==
  /\ Pass(d)
  /\ left' = LeftAfter(d)
  /\ lost' = TRUE
  /\ lostFor' = LostAfter(d)
  /\ IF GivesUp(d) THEN pc' = "done" /\ result' = "lost" ELSE pc' = "sleep" /\ UNCHANGED result
  /\ UNCHANGED <<handed, seen, answer>>

Check ==
  /\ pc = "check"
  /\ pc' = IF cancelled THEN "last_drain" ELSE "status"
  /\ UNCHANGED <<serverVars, cancelled, waitVars, histVars>>

Status ==
  /\ pc = "status"
  /\ \E d \in 0 .. MaxCall :
       \/ /\ Pass(d)
          /\ left' = LeftAfter(d)
          /\ lostFor' = LostAfter(d)
          /\ answer' = task
          /\ pc' = "drain"
          /\ UNCHANGED <<handed, seen, lost, result>>
       \/ Failed(d)
  /\ UNCHANGED <<serverVars, cancelled>>

\* Mutant: the placeholder of a log that is still empty is taken for its first line.
LogWithPlaceholder(from) ==
  IF lines = 0 /\ from = 0 THEN <<0>> ELSE [i \in 1 .. AtMost(lines - from, Batch) |-> from + i]
\* task_log(): the lines numbered from + 1 upwards, at most Batch of them.
Log(from) == [i \in 1 .. AtMost(lines - from, Batch) |-> from + i]

\* Mutant: the clock does not restart with the task's output.
KeepDeadline(d) == LeftAfter(d)
Restarted(d) == Timeout

\* drain(): one request of it; the loop ends with an empty batch.  The drain of a cancelled
\* wait is best effort.
Fetch ==
  /\ pc \in {"drain", "last_drain"}
  /\ \E d \in 0 .. MaxCall :
       \/ /\ Log(seen) # <<>>
          /\ handed' = handed \o Log(seen)
          /\ seen' = seen + Len(Log(seen))
          /\ Pass(d)
          /\ left' = Restarted(d)
          /\ lostFor' = LostAfter(d)
          /\ UNCHANGED <<pc, answer, lost, result>>
       \/ /\ Log(seen) = <<>>
          /\ Pass(d)
          /\ left' = LeftAfter(d)
          /\ lostFor' = LostAfter(d)
          /\ pc' = IF pc = "drain" THEN "test" ELSE "stop"
          /\ UNCHANGED <<handed, seen, answer, lost, result>>
       \/ pc = "drain" /\ Failed(d)
       \/ /\ pc = "last_drain"
          /\ Pass(d)
          /\ left' = LeftAfter(d)
          /\ lostFor' = LostAfter(d)
          /\ pc' = "stop"
          /\ UNCHANGED <<handed, seen, answer, lost, result>>
  /\ UNCHANGED <<serverVars, cancelled>>

\* Mutant: an answer does not close the window an earlier drop opened.
KeepWindow == UNCHANGED <<lost, lostFor>>
CloseWindow == lost' = FALSE /\ lostFor' = 0

\* Mutant: a task that has stopped has succeeded.
StoppedIsOk == "ok"
Outcome == answer

\* The poll was answered in full: believe the status, or look at the deadline.
Test ==
  /\ pc = "test"
  /\ CloseWindow
  /\ sinceAnswer' = 0
  /\ \/ answer # "running" /\ pc' = "done" /\ result' = Outcome
     \/ answer = "running" /\ left = 0 /\ pc' = "done" /\ result' = "timeout"
     \/ answer = "running" /\ left > 0 /\ pc' = "sleep" /\ UNCHANGED result
  /\ UNCHANGED <<serverVars, cancelled, answer, seen, left, handed, age>>

Sleep ==
  /\ pc = "sleep"
  /\ Pass(1)
  /\ left' = LeftAfter(1)
  /\ lostFor' = LostAfter(1)
  /\ pc' = "check"
  /\ UNCHANGED <<serverVars, cancelled, answer, seen, lost, result, handed>>

\* TaskCancelled: the server is asked to stop the task; it may refuse or be out of reach.
StopTask ==
  /\ pc = "stop"
  /\ task' \in {task, IF task = "running" THEN "bad" ELSE task}
  /\ pc' = "done"
  /\ result' = "cancelled"
  /\ UNCHANGED <<lines, cancelled, answer, seen, left, lost, lostFor, histVars>>

PollStep == Check \/ Status \/ Fetch \/ Test \/ Sleep \/ StopTask

-----------------------------------------------------------------------------
\* The task and the user.
WriteLine ==
  /\ task = "running" /\ lines < MaxLines /\ pc # "done"
  /\ lines' = lines + 1
  /\ UNCHANGED <<task, cancelled, pc, waitVars, histVars>>

EndTask ==
  /\ task = "running" /\ pc # "done"
  /\ task' \in {"ok", "bad"}
  /\ UNCHANGED <<lines, cancelled, pc, waitVars, histVars>>

Cancel ==
  /\ ~cancelled /\ pc # "done"
  /\ cancelled' = TRUE
  /\ UNCHANGED <<serverVars, pc, waitVars, histVars>>

Next == PollStep \/ WriteLine \/ EndTask \/ Cancel

Spec == Init /\ [][Next]_vars

\* The waiting thread runs; every request ends, since the client has a timeout of its own.
\* Neither the task nor the user owes anything.
FairSpec == Spec /\ WF_vars(PollStep)

-----------------------------------------------------------------------------
\* Lines are handed on in the log's order, each once, and none is lost once the task has
\* ended ("the final poll drains the remaining tail, so no lines are lost").
LinesInOrder ==
  /\ handed = [i \in 1 .. seen |-> i]
  /\ result \in {"ok", "bad"} => seen = lines

\* How a wait ends is true of the task.  Only the task's own end counts as its outcome.  The
\* run is failed for lost contact only when for the whole grace window no poll was answered
\* ("losing contact is not a failure on its own").  A task that talks never runs into the
\* timeout: the newest line handed on, or the start of the wait, is at least that old ("a
\* healthy 30-hour first sync never trips it").
OutcomeIsTrue ==
  /\ result \in {"ok", "bad"} => result = task
  /\ result = "lost" => sinceAnswer >= Grace
  /\ result = "timeout" => age[seen] >= Timeout

\* Every wait ends, whatever the task and the network do.
WaitEnds == <>(pc = "done")
=============================================================================
