----------------------------- MODULE ExternalWatch -----------------------------
(***************************************************************************)
(* Watching tasks that someone else schedules: watch_external_tasks of      *)
(* backend/app/jobs/backup_cycle.py, as _external_body of                   *)
(* jobs/route_cycle.py uses it to hold a PBS awake.                         *)
(*                                                                         *)
(* A unit of time is the poll interval.  A request takes up to WatchCall    *)
(* units to reach the server and up to WatchCall to come back; tasks start  *)
(* and end between any two steps.                                           *)
(***************************************************************************)
EXTENDS Integers, FiniteSets

CONSTANTS
  WatchedTask,    \* the tasks the schedules on PVE and PBS start, each once
  FirstTaskWait,  \* first_task_wait
  IdleWait,       \* idle_wait
  WatchCall       \* bound: units of time one half of a request may take

ASSUME WatchAssumption ==
  /\ IsFiniteSet(WatchedTask) /\ WatchCall \in Nat
  /\ {FirstTaskWait, IdleWait} \subseteq Nat \ {0}

VARIABLES
  ext,         \* each task on the server (external)
  wpc,         \* where the watch is
  busy,        \* bool(tasks) of the last answer
  wseen,       \* the upids seen
  wleft,       \* deadline - clock(), 0 when it has passed
  quiet,       \* clock() - quiet_since; NotQuiet stands for None
  wresult,     \* how the watch ended: "none" is None, "count" the number of wseen
  ran,         \* history: how long each task has run
  gone         \* history: how long ago each task ended

watchVars == <<ext, wpc, busy, wseen, wleft, quiet, wresult, ran, gone>>

NotQuiet == -1
\* The longest stretch between two looks at the server.
Gap == 1 + 2 * WatchCall
WatchPlaces == {"first_ask", "first_answer", "ask", "answer", "sleep", "done"}

WatchTypeOK ==
  /\ ext \in [WatchedTask -> {"to_come", "running", "over"}]
  /\ wpc \in WatchPlaces /\ busy \in BOOLEAN /\ wseen \subseteq WatchedTask
  /\ wleft \in 0 .. FirstTaskWait /\ quiet \in NotQuiet .. IdleWait
  /\ wresult \in {"no", "none", "count", "raised"}
  /\ ran \in [WatchedTask -> 0 .. Gap + 1] /\ gone \in [WatchedTask -> 0 .. IdleWait]

\* The box has just been woken.  A schedule may have started its task during the boot.
WatchInit ==
  /\ ext \in [WatchedTask -> {"to_come", "running"}]
  /\ wpc = "first_ask" /\ busy = FALSE /\ wseen = {} /\ wleft = FirstTaskWait
  /\ quiet = NotQuiet /\ wresult = "no"
  /\ ran = [t \in WatchedTask |-> 0] /\ gone = [t \in WatchedTask |-> 0]

-----------------------------------------------------------------------------
Capped(n, m) == IF n <= m THEN n ELSE m
RunningTasks == {t \in WatchedTask : ext[t] = "running"}

\* d units of time go by.
WatchPass(d) ==
  /\ ran' = [t \in WatchedTask |-> IF ext[t] = "running" THEN Capped(ran[t] + d, Gap + 1) ELSE ran[t]]
  /\ gone' = [t \in WatchedTask |-> IF ext[t] = "over" THEN Capped(gone[t] + d, IdleWait) ELSE 0]
  /\ wleft' = IF d < wleft THEN wleft - d ELSE 0

QuietAfter(d) == IF quiet = NotQuiet THEN NotQuiet ELSE Capped(quiet + d, IdleWait)

Raise == wpc' = "done" /\ wresult' = "raised"

\* poll(), the request on its way: a cancelled run and a failed request end the watch.
Ask ==
  /\ wpc \in {"first_ask", "ask"}
  /\ \E d \in 0 .. WatchCall :
       /\ WatchPass(d)
       /\ quiet' = QuietAfter(d)
       /\ \/ /\ busy' = (RunningTasks # {})
             /\ wseen' = wseen \union RunningTasks
             /\ wpc' = IF wpc = "ask" THEN "answer" ELSE "first_answer"
             /\ UNCHANGED wresult
          \/ Raise /\ UNCHANGED <<busy, wseen>>
  /\ UNCHANGED ext

\* Mutant: the watch gives up at the deadline before it looks at the last answer.
DeadlineFirst(left) == left = 0
GivesUpWaiting(left) == ~busy /\ left = 0

\* Phase one: the first task ends it, the deadline gives it up.
FirstAnswer ==
  /\ wpc = "first_answer"
  /\ \E d \in 0 .. WatchCall :
       /\ WatchPass(d)
       /\ \/ GivesUpWaiting(wleft') /\ wpc' = "done" /\ wresult' = "none"
          \/ ~GivesUpWaiting(wleft') /\ busy /\ wpc' = "ask" /\ UNCHANGED wresult
          \/ ~GivesUpWaiting(wleft') /\ ~busy /\ wpc' = "sleep" /\ UNCHANGED wresult
  /\ UNCHANGED <<ext, busy, wseen, quiet>>

\* Mutant: the countdown starts afresh with every answer.
RestartedCountdown(d) == 0
\* Mutant: a new task does not restart the countdown.
KeptCountdown(d) == IF quiet = NotQuiet THEN IF busy THEN NotQuiet ELSE 0 ELSE QuietAfter(d)
\* quiet_since when the answer is in.
Countdown(d) ==
  IF busy THEN NotQuiet ELSE IF quiet = NotQuiet THEN 0 ELSE QuietAfter(d)

\* Phase two: idle_wait of silence ends it.
Answer ==
  /\ wpc = "answer"
  /\ \E d \in 0 .. WatchCall :
       /\ WatchPass(d)
       /\ quiet' = Countdown(d)
       /\ \/ quiet' >= IdleWait /\ wpc' = "done" /\ wresult' = "count"
          \/ quiet' < IdleWait /\ wpc' = "sleep" /\ UNCHANGED wresult
  /\ UNCHANGED <<ext, busy, wseen>>

WatchSleep ==
  /\ wpc = "sleep"
  /\ WatchPass(1)
  /\ quiet' = QuietAfter(1)
  /\ wpc' = IF wseen = {} THEN "first_ask" ELSE "ask"
  /\ UNCHANGED <<ext, busy, wseen, wresult>>

WatchStep == Ask \/ FirstAnswer \/ Answer \/ WatchSleep

-----------------------------------------------------------------------------
\* The schedules.
TaskStarts(t) ==
  /\ ext[t] = "to_come" /\ wpc # "done"
  /\ ext' = [ext EXCEPT ![t] = "running"]
  /\ UNCHANGED <<wpc, busy, wseen, wleft, quiet, wresult, ran, gone>>

TaskEnds(t) ==
  /\ ext[t] = "running" /\ wpc # "done"
  /\ ext' = [ext EXCEPT ![t] = "over"]
  /\ UNCHANGED <<wpc, busy, wseen, wleft, quiet, wresult, ran, gone>>

WatchNext == WatchStep \/ \E t \in WatchedTask : TaskStarts(t) \/ TaskEnds(t)

-----------------------------------------------------------------------------
\* What the watch reports is what happened on the box.  "No task appeared" is said only when
\* the whole of first_task_wait went by and no task ran for longer than the gap between two
\* looks.  A count is given only when every such task was counted, has ended, and ended at
\* least idle_wait ago: a job that follows another within idle_wait keeps the box awake.
WatchIsTrue ==
  LET Long == {t \in WatchedTask : ran[t] > Gap} IN
  /\ wresult = "none" => wleft = 0 /\ Long = {} /\ wseen = {}
  /\ wresult = "count" =>
       \A t \in Long \union wseen : t \in wseen /\ ext[t] = "over" /\ gone[t] >= IdleWait

\* Once the schedules are through, the watch ends, and the box can be powered off.
WatchEnds == <>[](RunningTasks = {}) => <>(wpc = "done")
=============================================================================
