------------------------------- MODULE MissedRun -------------------------------
(***************************************************************************)
(* Which scheduled fires a restart reports as missed: core/catchup.py,      *)
(* core/heartbeat.py, the fires of core/scheduler.py, the history prune of  *)
(* db/prune.py and the lifespan of main.py, under backend/app.              *)
(*                                                                         *)
(* Time is counted in units of at least a second, and schedules fire on     *)
(* whole units.  One worker runs what is queued (JobService has its         *)
(* detail); of the rows only the start of each route's last finished run    *)
(* and the row still RUNNING matter here.                                   *)
(***************************************************************************)
EXTENDS Integers, FiniteSets, FiniteSetsExt

CONSTANTS
  RouteId,     \* the routes
  Schedule,    \* the schedules a route may have: sets of instants
  Interval,    \* INTERVAL_SECONDS of the heartbeat
  Retention,   \* retention_days
  Horizon,     \* bound: the last instant
  MaxActs,     \* bound: what the user does, edits of routes and runs by hand
  MaxBoots,    \* bound: starts of the process
  LateClock,   \* whether time may pass between the arming and the check's reading of the clock
  TouchFails   \* whether the heartbeat file may fail to be written

ASSUME MissedAssumption ==
  /\ IsFiniteSet(RouteId) /\ Schedule \subseteq SUBSET Nat
  /\ {Interval, Retention, Horizon} \subseteq Nat \ {0} /\ {MaxActs, MaxBoots} \subseteq Nat
  /\ {LateClock, TouchFails} \subseteq BOOLEAN

VARIABLES
  now,        \* the clock
  pc,         \* the process: "down", "up", or "stopping"
  bootAt,     \* when it was armed
  config,     \* each route's schedule in config.yaml; NoFires when it is disabled
  armed,      \* the jobs of the scheduler
  hb,         \* the mtime of the heartbeat file, or Never
  anchor,     \* start of each route's last finished run on record, or Never
  row,        \* the row that says RUNNING: its route and start, or NoRow
  running,    \* the worker is on that run
  queue,      \* what waits for the worker: each route at most once, with the fire it serves
  lastSeen,   \* the stamp read at the start, or Never
  chkNow,     \* the check's now, or Never before it has begun
  chkTodo,    \* the armed routes the check has yet to look at
  reports,    \* what this process reported: route and fire, with what history says of them
  acts,       \* what the user has done so far, counted
  boots,      \* starts so far
  died,       \* history: when the last process stopped firing
  lived,      \* history: the instants the process was up at and for an interval after
  served      \* history: the fires whose run was started

vars == <<now, pc, bootAt, config, armed, hb, anchor, row, running, queue, lastSeen, chkNow,
          chkTodo, reports, acts, boots, died, lived, served>>
checkVars == <<lastSeen, chkNow, chkTodo, reports>>
runVars == <<anchor, row, running, queue, served>>
schedVars == <<config, armed, acts>>
histVars == <<died, lived>>

Never == -1
Manual == 0
NoFires == {}
NoRow == [route |-> {}, start |-> Never]

TypeOK ==
  /\ now \in 0 .. Horizon /\ pc \in {"down", "up", "stopping"} /\ {bootAt, died} \subseteq 0 .. Horizon
  /\ {config, armed} \subseteq [RouteId -> Schedule \union {NoFires}]
  /\ {hb, lastSeen, chkNow} \subseteq Never .. Horizon
  /\ anchor \in [RouteId -> Never .. Horizon]
  /\ chkTodo \subseteq RouteId /\ acts \in 0 .. MaxActs /\ boots \in 0 .. MaxBoots
  /\ running \in BOOLEAN /\ lived \subseteq 0 .. Horizon

Init ==
  /\ now = 0 /\ pc = "down" /\ bootAt = 0
  /\ config \in [RouteId -> Schedule] /\ armed = [r \in RouteId |-> NoFires]
  /\ hb \in {Never, 0} /\ anchor \in [RouteId -> {Never, 0}]
  /\ row = NoRow /\ running = FALSE /\ queue = {}
  /\ lastSeen = Never /\ chkNow = Never /\ chkTodo = {} /\ reports = {}
  /\ acts = 0 /\ boots = 0 /\ died = 0 /\ lived = {} /\ served = {}

-----------------------------------------------------------------------------
\* heartbeat.touch()
Touched(t) == {t} \union IF TouchFails THEN {hb} ELSE {}

\* The queue takes a route once, and not while it runs.
Enqueued(r, fire) ==
  IF (running /\ row.route = {r}) \/ \E e \in queue : e.route = r THEN {}
  ELSE {[route |-> r, fire |-> fire]}

\* Time goes on.  A process that is up fires what is due, and stamps the file at every interval.
CheckHasItsClock == chkNow # Never \/ LateClock
Due == {r \in RouteId : now + 1 \in armed[r]}

Tick ==
  /\ now < Horizon /\ (pc = "up" => CheckHasItsClock)
  /\ now' = now + 1
  /\ IF pc = "up"
       THEN /\ queue' = queue \union UNION {Enqueued(r, now + 1) : r \in Due}
            /\ hb' \in IF (now + 1 - bootAt) % Interval = 0 THEN Touched(now + 1) ELSE {hb}
            /\ lived' = lived \union {t \in {now + 1 - Interval} : t > bootAt}
       ELSE UNCHANGED <<queue, hb, lived>>
  /\ UNCHANGED <<pc, boots, bootAt, schedVars, anchor, row, running, served, checkVars, died>>

\* Mutant: only a run that succeeded counts as an attempt, and a swept one has failed.
SweptCountsNot == anchor
\* sweep_orphaned_runs: the row left RUNNING becomes that of a failed, finished run.
Swept == [r \in RouteId |-> IF row.route = {r} THEN row.start ELSE anchor[r]]

\* The lifespan up to the start of the threads.
Boot ==
  /\ pc = "down" /\ boots < MaxBoots
  /\ pc' = "up" /\ bootAt' = now /\ boots' = boots + 1
  /\ anchor' = Swept /\ row' = NoRow
  /\ lastSeen' = hb /\ chkNow' = Never /\ reports' = {}
  /\ armed' = config /\ chkTodo' = {r \in RouteId : config[r] # NoFires}
  /\ UNCHANGED <<now, config, hb, running, queue, acts, histVars, served>>

\* check_missed_runs reads the clock, and the file again when there was no stamp.
StartCheck ==
  /\ pc # "down" /\ chkNow = Never
  /\ chkNow' = now
  /\ lastSeen' = IF lastSeen = Never THEN hb ELSE lastSeen
  /\ chkTodo' = IF lastSeen' = Never THEN {} ELSE {r \in RouteId : armed[r] # NoFires}
  /\ UNCHANGED <<now, pc, boots, bootAt, schedVars, hb, runVars, reports, histVars>>

\* Mutant: the stamp is read when it is needed.
SeenNow == hb
Seen == lastSeen

\* Mutant: the window opens at the last run alone.
SinceAnchor(r) == anchor[r]
WindowOpens(r) == IF anchor[r] > Seen THEN anchor[r] ELSE Seen

\* missed_run_since: the first fire of the job now armed after the window opens, if it is past.
MissedFires(r) ==
  LET after == {f \in armed[r] : f > WindowOpens(r)} IN
  IF after # {} /\ Min(after) <= chkNow THEN {Min(after)} ELSE {}

\* send_missed_backup says which route missed which fire; the rest is history.
Report(r, f) ==
  [route |-> r, fire |-> f, lived |-> f \in lived, served |-> [route |-> r, fire |-> f] \in served]

\* The check looks at one route; between two of them a notification may take its time.
CheckRoute(r) ==
  /\ pc # "down" /\ chkNow # Never /\ r \in chkTodo
  /\ chkTodo' = chkTodo \ {r}
  /\ reports' = reports \union
       {Report(r, f) : f \in IF anchor[r] = Never THEN {} ELSE MissedFires(r)}
  /\ UNCHANGED <<now, pc, boots, bootAt, schedVars, hb, runVars, lastSeen, chkNow, histVars>>

-----------------------------------------------------------------------------
\* The worker.
StartRun ==
  /\ pc # "down" /\ ~running
  /\ \E e \in queue :
       /\ queue' = queue \ {e}
       /\ row' = [route |-> {e.route}, start |-> now]
       /\ served' = served \union ({e} \ {[route |-> e.route, fire |-> Manual]})
  /\ running' = TRUE
  /\ UNCHANGED <<now, pc, boots, bootAt, schedVars, hb, anchor, checkVars, histVars>>

EndRun ==
  /\ pc # "down" /\ running
  /\ anchor' = [r \in RouteId |-> IF row.route = {r} THEN row.start ELSE anchor[r]]
  /\ row' = NoRow /\ running' = FALSE
  /\ UNCHANGED <<now, pc, boots, bootAt, schedVars, hb, queue, served, checkVars, histVars>>

\* The user asks for a run.
RunNow(r) ==
  /\ pc = "up" /\ acts < MaxActs /\ Enqueued(r, Manual) # {}
  /\ queue' = queue \union Enqueued(r, Manual) /\ acts' = acts + 1
  /\ UNCHANGED <<now, pc, boots, bootAt, config, armed, hb, anchor, row, running, served, checkVars, histVars>>

\* run_prune: a finished run past the cutoff is deleted, and no older one is left then.  Runs
\* are aged by their end in the code; here by their start, which can only be earlier.
Prune ==
  /\ pc = "up"
  /\ LET old == {r \in RouteId : anchor[r] # Never /\ anchor[r] < now - Retention} IN
     old # {} /\ anchor' = [r \in RouteId |-> IF r \in old THEN Never ELSE anchor[r]]
  /\ UNCHANGED <<now, pc, boots, bootAt, schedVars, hb, row, running, queue, served, checkVars, histVars>>

\* A route is enabled, disabled or given another schedule, and rearmed.
Edit(r, s) ==
  /\ pc = "up" /\ acts < MaxActs /\ s # config[r]
  /\ config' = [config EXCEPT ![r] = s] /\ armed' = [armed EXCEPT ![r] = s]
  /\ acts' = acts + 1
  /\ UNCHANGED <<now, pc, boots, bootAt, hb, runVars, checkVars, histVars>>

-----------------------------------------------------------------------------
\* The lifespan's end: no more fires, the last stamp; the threads are waited for.
Stop ==
  /\ pc = "up"
  /\ pc' = "stopping" /\ hb' \in Touched(now) /\ died' = now
  /\ armed' = [r \in RouteId |-> NoFires]
  /\ UNCHANGED <<now, boots, bootAt, config, acts, runVars, checkVars, lived>>

\* The end of the process, killed or stopped: queue and jobs are memory, rows and file are not.
Down ==
  /\ pc # "down"
  /\ pc' = "down" /\ died' = IF pc = "up" THEN now ELSE died
  /\ armed' = [r \in RouteId |-> NoFires]
  /\ queue' = {} /\ running' = FALSE
  /\ lastSeen' = Never /\ chkNow' = Never /\ chkTodo' = {} /\ reports' = {}
  /\ UNCHANGED <<now, bootAt, config, acts, boots, hb, anchor, row, served, lived>>

Next ==
  \/ Tick \/ Boot \/ StartCheck \/ StartRun \/ EndRun \/ Prune \/ Stop \/ Down
  \/ \E r \in RouteId : CheckRoute(r) \/ RunNow(r) \/ \E s \in Schedule \union {NoFires} : Edit(r, s)

Spec == Init /\ [][Next]_vars

-----------------------------------------------------------------------------
\* "We were down" is a fact when it is said: no route is reported for a fire the process was up
\* for, but for the last interval before its end, nor for one whose run was started ("a slot
\* that fired but failed/aborted was attempted"), whatever is edited meanwhile.
NoFalseAlarm == \A rep \in reports : ~rep.lived /\ ~rep.served

\* Every fire that fell into the time the process was down is noticed: a route the check looks
\* at, with a finished run on record and none since, is reported if it had a fire
\* after the end of the last process and no later than this one's start.
MissedIsReported ==
  [][\A r \in chkTodo \ chkTodo' :
       /\ pc = "up" /\ pc' = "up" /\ lastSeen # Never
       /\ anchor[r] \in 0 .. died /\ \E f \in config[r] : died < f /\ f <= bootAt
       => \E rep \in reports' : rep.route = r]_vars
=============================================================================
