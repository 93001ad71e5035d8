------------------------------ MODULE JobService ------------------------------
(***************************************************************************)
(* The job service of backend/app/jobs/service.py: a queue of runs drained  *)
(* by one worker thread, the single-run lock, the stop request, the run row *)
(* of jobs/recorder.py and, through PowerLease, the machines.  Beside the   *)
(* worker act the API threads (enqueue, dequeue, stop, manual power, route  *)
(* and device edits), the machines, and restarts of the process.            *)
(*                                                                         *)
(* Each step of the worker is what it does between two points where another *)
(* thread can see or change shared state.  A commit of the run's session    *)
(* may fail (MaxFaults of them): the exception path is then taken.          *)
(***************************************************************************)
EXTENDS PowerLease, SequencesExt

CONSTANTS
  Worker,         \* the queue worker, the one thread that uses the lease
  Routes,         \* route ids
  Maints,         \* keys of ad-hoc maintenance runs, "pbs:<id>:<action>"
  MaintDevice,    \* [Maints -> Devices]
  RouteNeeds,     \* what a route may point at: <<target>> or <<target, source_pbs>>
  FirstNeeds,     \* the routes' devices at start, [Routes -> RouteNeeds]
  Stoppers,       \* API threads that stop runs
  Clickers,       \* API threads that use the manual power-off
  NoKey, NoDevice,\* None
  UserActs,       \* which of the optional user acts happen in this instance
  MaxRuns,        \* bound: runs queued over the behaviour
  MaxFaults       \* bound: failed database commits

Keys == Routes \cup Maints
Needs == RouteNeeds \cup {<<>>}       \* <<>>: no such route

ASSUME ServiceAssumption ==
  /\ Threads = {Worker}
  /\ Routes \cap Maints = {}
  /\ NoKey \notin Keys /\ NoDevice \notin Devices
  /\ MaintDevice \in [Maints -> Devices]
  /\ RouteNeeds \subseteq {<<d>> : d \in Devices} \cup (Devices \X Devices)
  /\ FirstNeeds \in [Routes -> RouteNeeds]
  /\ MaxRuns \in Nat
  /\ MaxFaults \in Nat

VARIABLES
  needs,            \* config.routes: the devices each route points at
  pbss,             \* config.pbss: the devices configured
  queue,            \* _queue
  current,          \* _current
  pc,               \* where the worker is; "none" when _worker is None
  lock,             \* _lock: "free", or who took it
  cancelled,        \* _cancel, the event
  cancelPowerOff,   \* _cancel_power_off
  currentRunId,     \* _current_run_id, 0 for None
  todo,             \* devices the running loop has still to acquire or release
  held,             \* held, the devices whose lease the run took
  policy,           \* power_off as computed by _release_all
  status,           \* recorder.run.status as the worker knows it
  recording,        \* still inside "with recorder:"
  rows,             \* the runs table; a run's id is its position
  faults,           \* failed commits so far
  stop,             \* the stop request each stopper is executing
  click,            \* the device each clicker is powering off
  hits,             \* history: stop requests that raised the flag since it was cleared
  crossing,         \* history: runs named by stop requests under way when it was cleared
  early,            \* history: keys queued since the last pending check
  word,             \* history: the run record's last word on each machine
  notified          \* history: runs whose result was sent out

cfgVars == <<needs, pbss>>
queueVars == <<queue, current>>
lockVars == <<lock, cancelled, cancelPowerOff, currentRunId>>
runVars == <<todo, held, policy, status, recording>>
dbVars == <<rows, faults>>
userVars == <<stop, click>>
histVars == <<hits, crossing, early, word, notified>>
vars == <<leaseVars, cfgVars, queueVars, pc, lockVars, runVars, dbVars, userVars, histVars>>

-----------------------------------------------------------------------------
RunStatus == {"running", "success", "failure", "aborted", "cancelled"}
Item == [key : Keys, powerOff : BOOLEAN]
NoItem == [key |-> NoKey, powerOff |-> FALSE]
WorkerPlaces ==
  {"none", "drain", "resolve", "lock", "clear", "clear_power_off", "insert", "set_id",
   "acquire", "acquiring", "unreachable", "check", "job", "job_failed", "policy", "release",
   "releasing", "unwind", "retry", "unlock", "cleanup"}
StopPlaces == {"idle", "power_off", "set", "sweep"}
Stop == [at : StopPlaces, id : 0 .. MaxRuns, powerOff : BOOLEAN]
NoStop == [at |-> "idle", id |-> 0, powerOff |-> FALSE]

DevicesOf(k) == IF k \in Routes THEN ToSet(needs[k]) ELSE {MaintDevice[k]}
KeysOf(devs) == {LeaseKey[d] : d \in devs}
QueuedKeys == {queue[i].key : i \in DOMAIN queue}

\* _resolve finds the subject and its devices.
Exists(k) == IF k \in Routes THEN needs[k] # <<>> ELSE MaintDevice[k] \in pbss

\* Devices sharing a machine are collapsed to the first of them.
Collapse(s) ==
  IF Len(s) = 2 /\ LeaseKey[s[1]] = LeaseKey[s[2]] THEN <<s[1]>> ELSE s
Resolved(k) == IF k \in Routes THEN Collapse(needs[k]) ELSE <<MaintDevice[k]>>

\* Mutants: a device holds only itself, not its machine; the running subject counts too.
PendingByDevice ==
  KeysOf({call[Worker].dev} \cap UNION {DevicesOf(k) : k \in QueuedKeys})
PendingWithCurrent == KeysOf(UNION {DevicesOf(k) : k \in QueuedKeys \cup {current.key}})

\* _pending_pbs_keys: the queue and the live config.
PendingKeys == KeysOf(pbss \cap UNION {DevicesOf(k) : k \in QueuedKeys})

RunId == Len(rows)
Fault == faults < MaxFaults /\ faults' = faults + 1
SetRow(i, s) == rows' = [rows EXCEPT ![i] = s]
GoTo(p) == pc' = p

Init ==
  /\ LeaseInit
  /\ needs = FirstNeeds /\ pbss = Devices
  /\ queue = <<>> /\ current = NoItem /\ pc = "none"
  /\ lock = "free" /\ cancelled = FALSE /\ cancelPowerOff = FALSE /\ currentRunId = 0
  /\ todo = <<>> /\ held = <<>> /\ policy = FALSE
  /\ status = "running" /\ recording = FALSE
  /\ rows = <<>> /\ faults = 0
  /\ stop = [u \in Stoppers |-> NoStop] /\ click = [u \in Clickers |-> NoDevice]
  /\ hits = {} /\ crossing = {} /\ early = {} /\ word = [k \in LeaseKeys |-> "none"] /\ notified = {}

-----------------------------------------------------------------------------
(***************************************************************************)
(* The queue's operations, each atomic under _state_lock.                   *)
(***************************************************************************)
RunsAskedFor ==
  RunId + Len(queue)
  + (IF pc \in {"resolve", "lock", "clear", "clear_power_off", "insert"} THEN 1 ELSE 0)

\* Mutant: only the queue is looked at.
TakenInQueue(k) == k \in QueuedKeys
Taken(k) == current.key = k \/ k \in QueuedKeys

\* Mutant: the handle of a worker that has ended is taken for a running one.
TrustWorker == UNCHANGED pc
EnsureWorker == pc' = IF pc = "none" THEN "drain" ELSE pc

\* run_route and run_maintenance look the subject up, then enqueue() refuses a key that is
\* queued or running, makes sure there is a worker and appends.
Enqueue(k, powerOff) ==
  /\ Exists(k)
  /\ RunsAskedFor < MaxRuns
  /\ ~Taken(k)
  /\ EnsureWorker
  /\ queue' = Append(queue, [key |-> k, powerOff |-> powerOff])
  /\ UNCHANGED <<leaseVars, cfgVars, current, lockVars, runVars, dbVars, userVars, histVars>>

Dequeue(i) ==
  /\ "dequeue" \in UserActs
  /\ queue' = RemoveAt(queue, i)
  /\ early' = early \ {queue[i].key}
  /\ UNCHANGED <<leaseVars, cfgVars, current, pc, lockVars, runVars, dbVars, userVars,
                 hits, crossing, word, notified>>

\* Mutant: the newest run goes first.
PopLast == current' = Last(queue) /\ queue' = Front(queue)
Pop == current' = Head(queue) /\ queue' = Tail(queue)

\* _drain: take the head, or stop being the worker.
Drain ==
  /\ pc = "drain"
  /\ \/ /\ queue = <<>>
        /\ GoTo("none")
        /\ UNCHANGED <<queueVars, early>>
     \/ /\ queue # <<>>
        /\ Pop
        /\ early' = early \ {current'.key}
        /\ GoTo("resolve")
  /\ UNCHANGED <<leaseVars, cfgVars, lockVars, runVars, dbVars, userVars, hits, crossing, word,
                 notified>>

\* _execute: the subject and its devices from one config, or the run is dropped.
Resolve ==
  /\ pc = "resolve"
  /\ IF Exists(current.key)
     THEN todo' = Resolved(current.key) /\ GoTo("lock")
     ELSE UNCHANGED todo /\ GoTo("cleanup")
  /\ UNCHANGED <<leaseVars, cfgVars, queueVars, lockVars, held, policy, status, recording,
                 dbVars, userVars, histVars>>

-----------------------------------------------------------------------------
(***************************************************************************)
(* _start: wait for the lock, forget earlier stop requests, insert the row. *)
(***************************************************************************)
TakeLock ==
  /\ pc = "lock"
  /\ lock = "free"
  /\ lock' = "worker"
  /\ GoTo("clear")
  /\ UNCHANGED <<leaseVars, cfgVars, queueVars, cancelled, cancelPowerOff, currentRunId,
                 runVars, dbVars, userVars, histVars>>

\* Mutant: the flag of an earlier stop stays up.
KeepFlag == UNCHANGED cancelled
ClearFlag == cancelled' = FALSE

ClearCancel ==
  /\ pc = "clear"
  /\ ClearFlag
  /\ hits' = {}
  /\ crossing' = {stop[u].id : u \in {v \in Stoppers : stop[v].at \in {"power_off", "set"}}}
  /\ GoTo("clear_power_off")
  /\ UNCHANGED <<leaseVars, cfgVars, queueVars, lock, cancelPowerOff, currentRunId,
                 runVars, dbVars, userVars, early, word, notified>>

ClearPowerOff ==
  /\ pc = "clear_power_off"
  /\ cancelPowerOff' = FALSE
  /\ GoTo("insert")
  /\ UNCHANGED <<leaseVars, cfgVars, queueVars, lock, cancelled, currentRunId,
                 runVars, dbVars, userVars, histVars>>

\* Mutant: the lock is not given back when the row cannot be written.
KeepLock == UNCHANGED lock
GiveLockBack == lock' = "free"

\* A row that cannot be written gives the lock back; the failure is notified without a row.
InsertRow ==
  /\ pc = "insert"
  /\ \/ /\ rows' = Append(rows, "running")
        /\ status' = "running"
        /\ recording' = TRUE
        /\ GoTo("set_id")
        /\ UNCHANGED <<faults, lock>>
     \/ /\ Fault
        /\ GiveLockBack
        /\ GoTo("cleanup")
        /\ UNCHANGED <<rows, status, recording>>
  /\ UNCHANGED <<leaseVars, cfgVars, queueVars, cancelled, cancelPowerOff, currentRunId,
                 todo, held, policy, userVars, histVars>>

SetRunId ==
  /\ pc = "set_id"
  /\ currentRunId' = RunId
  /\ held' = <<>>
  /\ GoTo("acquire")
  /\ UNCHANGED <<leaseVars, cfgVars, queueVars, lock, cancelled, cancelPowerOff,
                 todo, policy, status, recording, dbVars, userVars, histVars>>

-----------------------------------------------------------------------------
(***************************************************************************)
(* _execute, the WAIT steps: open the step, acquire, close the step.        *)
(***************************************************************************)
AcquireNext ==
  /\ pc = "acquire"
  /\ \/ /\ todo = <<>> /\ GoTo("check") /\ UNCHANGED <<faults, leaseVars>>
     \/ /\ todo # <<>>
        /\ \/ AcquireCall(Worker, Head(todo)) /\ GoTo("acquiring") /\ UNCHANGED faults
           \/ Fault /\ GoTo("unreachable") /\ UNCHANGED leaseVars
  /\ UNCHANGED <<cfgVars, queueVars, lockVars, runVars, rows, userVars, histVars>>

\* A step that cannot be closed raises although the lease was taken.
AcquireDone ==
  LET d == call[Worker].dev IN
  /\ pc = "acquiring"
  /\ call[Worker].at = "done"
  /\ Finish(Worker)
  /\ \/ /\ call[Worker].result = "acquired"
        /\ held' = Append(held, d)
        /\ todo' = Tail(todo)
        /\ GoTo("acquire")
        /\ UNCHANGED <<faults, word>>
     \/ /\ call[Worker].result = "acquired" /\ Fault
        /\ GoTo("unreachable")
        /\ UNCHANGED <<held, todo, word>>
     \/ /\ call[Worker].result = "unreachable"
        /\ word' = [word EXCEPT ![LeaseKey[d]] = "unreachable"]
        /\ GoTo("unreachable")
        /\ UNCHANGED <<held, todo, faults>>
  /\ UNCHANGED <<box, holders, cfgVars, queueVars, lockVars, policy, status, recording,
                 rows, userVars, hits, crossing, early, notified>>

\* recorder.finish(s); when its commit fails the exception goes to onFault.
FinishRun(s, onFault) ==
  \/ /\ SetRow(RunId, s)
     /\ status' = s
     /\ GoTo("policy")
     /\ UNCHANGED faults
  \/ Fault /\ GoTo(onFault) /\ UNCHANGED <<rows, status>>

\* Mutant: the failed wake is raised again, past the notification.
AcquireFailedRaises ==
  /\ pc = "unreachable" /\ GoTo("unwind")
  /\ UNCHANGED <<leaseVars, cfgVars, queueVars, lockVars, runVars, dbVars, userVars, histVars>>

AcquireFailed ==
  /\ pc = "unreachable"
  /\ FinishRun(IF cancelled THEN "cancelled" ELSE "failure", "unwind")
  /\ UNCHANGED <<leaseVars, cfgVars, queueVars, lockVars, todo, held, policy, recording,
                 userVars, histVars>>

\* Stopped while the boxes were coming up: there is nothing left to run.
CheckCancel ==
  /\ pc = "check"
  /\ \/ cancelled /\ FinishRun("cancelled", "unwind")
     \/ ~cancelled /\ GoTo("job") /\ UNCHANGED <<rows, faults, status>>
  /\ UNCHANGED <<leaseVars, cfgVars, queueVars, lockVars, todo, held, policy, recording,
                 userVars, histVars>>

\* item.job: sets the final status itself.  It may miss a stop request that comes late, and
\* ends "cancelled" only when it saw one; "aborted" is a CycleAbort.  A success that cannot be
\* written is caught with the job's other failures.
JobEnd ==
  /\ pc = "job"
  /\ \E s \in {"success", "failure", "aborted"} \cup (IF cancelled THEN {"cancelled"} ELSE {}) :
       FinishRun(s, IF s = "success" THEN "job_failed" ELSE "unwind")
  /\ UNCHANGED <<leaseVars, cfgVars, queueVars, lockVars, todo, held, policy, recording,
                 userVars, histVars>>

JobFailed ==
  /\ pc = "job_failed"
  /\ FinishRun("failure", "unwind")
  /\ UNCHANGED <<leaseVars, cfgVars, queueVars, lockVars, todo, held, policy, recording,
                 userVars, histVars>>

-----------------------------------------------------------------------------
(***************************************************************************)
(* _release_all: the policy once, then a POWEROFF step per device; on the   *)
(* crash path (recorder=None) nothing is recorded and nothing succeeded.    *)
(***************************************************************************)
\* Mutant: a stopped run is treated as any run that did not succeed.
PolicyIgnoringStop == current.powerOff /\ recording /\ status = "success"

PowerOffPolicy ==
  /\ current.powerOff
  /\ IF cancelled THEN cancelPowerOff ELSE recording /\ status = "success"

\* Mutant: a failed run leaves its leases behind.
HeldIfSucceeded == IF status = "success" THEN held ELSE <<>>
ToRelease == held

DecidePolicy ==
  /\ pc = "policy"
  /\ policy' = PowerOffPolicy
  /\ todo' = ToRelease
  /\ GoTo("release")
  /\ UNCHANGED <<leaseVars, cfgVars, queueVars, lockVars, held, status, recording,
                 dbVars, userVars, histVars>>

ReleaseNext ==
  /\ pc = "release"
  /\ todo # <<>>
  /\ \/ ReleaseCall(Worker, Head(todo), policy) /\ GoTo("releasing") /\ UNCHANGED faults
     \/ recording /\ Fault /\ GoTo("unwind") /\ UNCHANGED leaseVars
  /\ UNCHANGED <<cfgVars, queueVars, lockVars, runVars, rows, userVars, histVars>>

ReleaseDone ==
  /\ pc = "releasing"
  /\ call[Worker].at = "done"
  /\ Finish(Worker)
  /\ \/ /\ todo' = Tail(todo)
        /\ word' = IF recording
                   THEN [word EXCEPT ![Key(Worker)] = call[Worker].result]
                   ELSE word
        /\ GoTo("release")
        /\ UNCHANGED faults
     \/ recording /\ Fault /\ GoTo("unwind") /\ UNCHANGED <<todo, word>>
  /\ UNCHANGED <<box, holders, cfgVars, queueVars, lockVars, held, policy, status,
                 recording, rows, userVars, hits, crossing, early, notified>>

\* All released: notify, unless the user stopped the run (or the row is out of reach).
Released ==
  /\ pc = "release"
  /\ todo = <<>>
  /\ held' = <<>>
  /\ notified' = IF recording /\ status # "cancelled" THEN notified \cup {RunId} ELSE notified
  /\ recording' = FALSE
  /\ GoTo("unlock")
  /\ UNCHANGED <<leaseVars, cfgVars, queueVars, lockVars, todo, policy, status,
                 dbVars, userVars, hits, crossing, early, word>>

\* Mutants: a finished run is finished again; no second try.
AlwaysUnfinished == TRUE
GiveUp == "policy"

Unfinished == status = "running"
AfterFailedFinish == IF pc = "unwind" THEN "retry" ELSE "policy"

\* RunRecorder.__exit__ on an exception: fail the run unless it was finished, with a second
\* try on a fresh session; then the finally clause releases what is still held.
Unwind ==
  /\ pc \in {"unwind", "retry"}
  /\ recording' = FALSE
  /\ \/ ~Unfinished /\ GoTo("policy") /\ UNCHANGED <<rows, faults, status>>
     \/ /\ Unfinished
        /\ SetRow(RunId, "failure")
        /\ status' = "failure"
        /\ GoTo("policy")
        /\ UNCHANGED faults
     \/ Unfinished /\ Fault /\ GoTo(AfterFailedFinish) /\ UNCHANGED <<rows, status>>
  /\ UNCHANGED <<leaseVars, cfgVars, queueVars, lockVars, todo, held, policy,
                 userVars, histVars>>

Unlock ==
  /\ pc = "unlock"
  /\ lock' = "free"
  /\ GoTo("cleanup")
  /\ UNCHANGED <<leaseVars, cfgVars, queueVars, cancelled, cancelPowerOff, currentRunId,
                 runVars, dbVars, userVars, histVars>>

\* Mutant: the id of the run that ended stays.
KeepRunId == UNCHANGED currentRunId
ForgetRunId == currentRunId' = 0

\* _drain's finally clause.
Cleanup ==
  /\ pc = "cleanup"
  /\ current' = NoItem
  /\ ForgetRunId
  /\ GoTo("drain")
  /\ UNCHANGED <<leaseVars, cfgVars, queue, lock, cancelled, cancelPowerOff, runVars,
                 dbVars, userVars, histVars>>

\* The lease call in progress; early notes which runs its pending check could see.
LeaseStep ==
  /\ CallStep(Worker, cancelled, PendingKeys)
  /\ early' = IF call[Worker].at = "pending" THEN QueuedKeys ELSE early
  /\ UNCHANGED <<cfgVars, queueVars, pc, lockVars, runVars, dbVars, userVars,
                 hits, crossing, word, notified>>

WorkerStep ==
  \/ Drain \/ Resolve \/ TakeLock \/ ClearCancel \/ ClearPowerOff \/ InsertRow \/ SetRunId
  \/ AcquireNext \/ AcquireDone \/ AcquireFailed \/ CheckCancel \/ JobEnd
  \/ JobFailed
  \/ DecidePolicy \/ ReleaseNext \/ ReleaseDone \/ Released \/ Unwind \/ Unlock \/ Cleanup
  \/ LeaseStep

-----------------------------------------------------------------------------
(***************************************************************************)
(* POST /api/runs/{id}/stop: cancel() checks, then writes; a refused stop   *)
(* closes a row that still says RUNNING.                                    *)
(***************************************************************************)
StopVars == <<leaseVars, cfgVars, queueVars, pc, lock, currentRunId, runVars, faults, click,
              crossing, early, word, notified>>

\* Mutant: whatever is running is stopped.
AnyInFlight(i) == lock # "free"
InFlight(i) == currentRunId = i /\ lock # "free"

StopCheck(u, i, powerOff) ==
  /\ stop[u].at = "idle"
  /\ stop' = [stop EXCEPT ![u] =
                [at |-> IF InFlight(i) THEN "power_off" ELSE "sweep",
                 id |-> i, powerOff |-> powerOff]]
  /\ UNCHANGED <<StopVars, cancelled, cancelPowerOff, rows, hits>>

StopPowerOff(u) ==
  /\ stop[u].at = "power_off"
  /\ cancelPowerOff' = stop[u].powerOff
  /\ stop' = [stop EXCEPT ![u].at = "set"]
  /\ UNCHANGED <<StopVars, cancelled, rows, hits>>

StopSet(u) ==
  /\ stop[u].at = "set"
  /\ cancelled' = TRUE
  /\ hits' = hits \cup {[id |-> stop[u].id, powerOff |-> stop[u].powerOff]}
  /\ stop' = [stop EXCEPT ![u] = NoStop]
  /\ UNCHANGED <<StopVars, cancelPowerOff, rows>>

StopSweep(u) ==
  /\ stop[u].at = "sweep"
  /\ IF rows[stop[u].id] = "running"
     THEN SetRow(stop[u].id, "failure")
     ELSE UNCHANGED rows
  /\ stop' = [stop EXCEPT ![u] = NoStop]
  /\ UNCHANGED <<StopVars, cancelled, cancelPowerOff, hits>>

StopStep ==
  \E u \in Stoppers :
    \/ \E i \in DOMAIN rows, b \in BOOLEAN : StopCheck(u, i, b)
    \/ StopPowerOff(u) \/ StopSet(u) \/ StopSweep(u)

-----------------------------------------------------------------------------
(***************************************************************************)
(* POST /api/devices/pbss/{id}/power: the power-off under exclusive() and   *)
(* only when nobody holds a lease; the wake without any lock.               *)
(***************************************************************************)
\* Mutant: refused only while the job itself works.
ExclusiveOfJob == pc # "job" /\ lock' = "manual"
Exclusive == lock = "free" /\ lock' = "manual"

Click(u, d) ==
  /\ click[u] = NoDevice
  /\ d \in pbss \cap Managed
  /\ Exclusive
  /\ click' = [click EXCEPT ![u] = d]
  /\ UNCHANGED <<leaseVars, cfgVars, queueVars, pc, cancelled, cancelPowerOff, currentRunId,
                 runVars, dbVars, stop, histVars>>

PowerOffNow(u) ==
  /\ click[u] # NoDevice
  /\ \/ holders[LeaseKey[click[u]]] = 0 /\ LostPowerOff(LeaseKey[click[u]])
     \/ holders[LeaseKey[click[u]]] > 0 /\ UNCHANGED box
  /\ lock' = "free"
  /\ click' = [click EXCEPT ![u] = NoDevice]
  /\ UNCHANGED <<holders, call, cfgVars, queueVars, pc, cancelled, cancelPowerOff,
                 currentRunId, runVars, dbVars, stop, histVars>>

Wake(d) ==
  /\ "wake" \in UserActs
  /\ d \in pbss \cap Managed
  /\ box[LeaseKey[d]] = "off"
  /\ box' = [box EXCEPT ![LeaseKey[d]] = "booting"]
  /\ UNCHANGED <<holders, call, cfgVars, queueVars, pc, lockVars, runVars, dbVars, userVars,
                 histVars>>

-----------------------------------------------------------------------------
\* Config edits: a route is created, re-pointed or deleted; a device that no route uses is
\* deleted, or created again.
EditRoute(r, n) ==
  /\ "edit" \in UserActs
  /\ ToSet(n) \subseteq pbss
  /\ needs' = [needs EXCEPT ![r] = n]
  /\ UNCHANGED <<leaseVars, pbss, queueVars, pc, lockVars, runVars, dbVars, userVars, histVars>>

EditDevice(d) ==
  /\ "edit" \in UserActs
  /\ \A r \in Routes : d \notin ToSet(needs[r])
  /\ pbss' = IF d \in pbss THEN pbss \ {d} ELSE pbss \cup {d}
  /\ UNCHANGED <<leaseVars, needs, queueVars, pc, lockVars, runVars, dbVars, userVars, histVars>>

\* The process dies and starts again: everything in memory is gone, the rows left RUNNING
\* are swept to FAILURE and alerted about, the machines stay as they are.
Restart ==
  LET swept == {i \in DOMAIN rows : rows[i] = "running"} IN
  /\ "restart" \in UserActs
  /\ rows' = [i \in DOMAIN rows |-> IF i \in swept THEN "failure" ELSE rows[i]]
  /\ notified' = notified \cup swept
  /\ holders' = [k \in LeaseKeys |-> 0]
  /\ call' = [t \in Threads |-> NoCall]
  /\ queue' = <<>> /\ current' = NoItem /\ pc' = "none"
  /\ lock' = "free" /\ cancelled' = FALSE /\ cancelPowerOff' = FALSE /\ currentRunId' = 0
  /\ todo' = <<>> /\ held' = <<>> /\ policy' = FALSE
  /\ status' = "running" /\ recording' = FALSE
  /\ stop' = [u \in Stoppers |-> NoStop] /\ click' = [u \in Clickers |-> NoDevice]
  /\ hits' = {} /\ crossing' = {} /\ early' = {}
  /\ UNCHANGED <<box, cfgVars, faults, word>>

UserStep ==
  \/ \E k \in Keys, b \in BOOLEAN : Enqueue(k, b)
  \/ \E i \in DOMAIN queue : Dequeue(i)
  \/ StopStep
  \/ \E u \in Clickers, d \in Devices : Click(u, d)
  \/ \E u \in Clickers : PowerOffNow(u)
  \/ \E d \in Devices : Wake(d)
  \/ \E r \in Routes, n \in Needs : EditRoute(r, n)
  \/ \E d \in Devices : EditDevice(d)

Machines ==
  /\ BoxStep
  /\ UNCHANGED <<cfgVars, queueVars, pc, lockVars, runVars, dbVars, userVars, histVars>>

Next == WorkerStep \/ UserStep \/ Machines \/ Restart

Spec == Init /\ [][Next]_vars

(***************************************************************************)
(* Fairness.  The worker thread keeps running: every wait in it has a       *)
(* deadline and the jobs poll under deadlines of their own.  It gets the    *)
(* single-run lock when that is free again and again: a click holds it for  *)
(* the seconds of one SSH connect.  A click and a stop request run to their *)
(* end, and a machine told to boot or halt does.  Users owe nothing.        *)
(***************************************************************************)
Fairness ==
  /\ WF_vars(WorkerStep)
  /\ SF_vars(TakeLock)
  /\ \A u \in Clickers : WF_vars(PowerOffNow(u))
  /\ \A u \in Stoppers : WF_vars(StopPowerOff(u) \/ StopSet(u) \/ StopSweep(u))
  /\ \A k \in LeaseKeys : WF_vars(Machines /\ (BoxBoots(k) \/ BoxHalts(k)))

FairSpec == Spec /\ Fairness

-----------------------------------------------------------------------------
(***************************************************************************)
(* Properties.                                                             *)
(***************************************************************************)

ConfigTypeOK == needs \in [Routes -> Needs] /\ pbss \subseteq Devices

QueueTypeOK == queue \in Seq(Item) /\ current \in Item \cup {NoItem} /\ pc \in WorkerPlaces

LockTypeOK ==
  /\ lock \in {"free", "worker", "manual"}
  /\ cancelled \in BOOLEAN /\ cancelPowerOff \in BOOLEAN /\ currentRunId \in 0 .. MaxRuns

RunTypeOK ==
  /\ todo \in Seq(Devices) /\ held \in Seq(Devices) /\ policy \in BOOLEAN
  /\ status \in RunStatus /\ recording \in BOOLEAN

DbTypeOK == rows \in Seq(RunStatus) /\ faults \in 0 .. MaxFaults

UserTypeOK == stop \in [Stoppers -> Stop] /\ click \in [Clickers -> Devices \cup {NoDevice}]

HistTypeOK ==
  /\ hits \subseteq [id : 0 .. MaxRuns, powerOff : BOOLEAN]
  /\ crossing \subseteq 0 .. MaxRuns /\ early \subseteq Keys
  /\ word \in [LeaseKeys -> ReleaseOutcome \cup {"none", "unreachable"}]
  /\ notified \subseteq 1 .. MaxRuns

\* Every variable keeps its type.
TypeOK ==
  /\ LeaseTypeOK /\ ConfigTypeOK /\ QueueTypeOK /\ LockTypeOK /\ RunTypeOK /\ DbTypeOK
  /\ UserTypeOK /\ HistTypeOK

\* The worker is between TakeLock and Unlock.
InRun == pc \notin {"none", "drain", "resolve", "lock", "cleanup"}
AtRest == pc = "none" /\ lock = "free"

\* One subject is never queued twice, nor queued while it runs: two overlapping runs of a
\* route would fight over the same snapshots (enqueue()).
NoDuplicateSubject ==
  /\ current.key \notin QueuedKeys
  /\ \A i, j \in DOMAIN queue : queue[i].key = queue[j].key => i = j

\* Work is never handed to a worker that has already stopped (_ensure_worker, _drain).
QueueIsServed == queue # <<>> => pc # "none"

\* What enqueue() promises its callers, whatever the worker and other threads are doing: the run
\* it accepted is waiting just once, and there is a worker to take it.
QueueIsSound == NoDuplicateSubject /\ QueueIsServed

\* The single-run lock is the worker's exactly while it executes a run, and a manual
\* power-off has it exactly while it lasts, one at a time (_start, exclusive()).
LockDiscipline ==
  /\ lock = "worker" <=> InRun
  /\ \A u \in Clickers : click[u] # NoDevice => lock = "manual"
  /\ \A u, v \in Clickers : click[u] # NoDevice /\ click[v] # NoDevice => u = v

\* While the job works, every machine it leased is up: no power-off -- the run before, a
\* manual click, a release -- takes it away (PowerLease, exclusive()).
LeasedBoxIsUp == pc = "job" => \A k \in KeysOf(ToSet(held)) : box[k] = "up"

\* No lease outlives its run: between runs nothing is held ("the leases must still be
\* dropped", _release_all).
NoLeaseLeft == ~InRun => \A k \in LeaseKeys : holders[k] = 0

\* A run is stopped only by requests that name it, and by those that had passed cancel()'s check
\* for an earlier run and were still on their way to the flag as this run cleared it.  A request
\* that was over by then, or that comes later with the id of a run that has ended, stops nothing
\* (cancel(), _start, _drain).
NoStaleStop ==
  recording /\ status = "cancelled" =>
    hits # {} /\ \A h \in hits : h.id \in crossing \cup {RunId}

\* What cancel() and stop_run say of the run id: "a click landing as one run ends and the next
\* begins must not stop the wrong job" (api/jobs.py).
OnlyAskedRunsStop ==
  recording /\ status = "cancelled" => \E h \in hits : h.id = RunId

\* A stopped run honours the toggle of the stop dialog: when every request that reached it
\* chose the same, the power-off policy is that choice.
StopChoiceHonoured ==
  [][\A b \in BOOLEAN :
       /\ DecidePolicy
       /\ status = "cancelled" /\ current.powerOff
       /\ \A h \in hits : h.id = RunId /\ h.powerOff = b
       /\ \A u \in Stoppers : stop[u].at # "set"
       => policy' = b]_vars

\* A machine is not powered off at the end of a run when a run that was already
\* queued at that release needs it (release(), _pending_pbs_keys).
NoPowerOffUnderEarlyRun ==
  [][\A k \in LeaseKeys :
       pc = "releasing" /\ box[k] = "up" /\ box'[k] = "stopping"
       => k \notin KeysOf(UNION {DevicesOf(q) : q \in early \cap QueuedKeys})]_vars

\* A machine is not powered off at the end of a run while any queued run needs it.
NoPowerOffUnderQueuedRun ==
  [][\A k \in LeaseKeys :
       pc = "releasing" /\ box[k] = "up" /\ box'[k] = "stopping"
       => k \notin PendingKeys]_vars

\* Once everything is quiet, no machine is up of which the last record says "still needed by
\* another run": the outcomes that cost no power are those somebody will still fix.
NothingLeftOnSilently ==
  AtRest /\ queue = <<>> =>
    \A k \in LeaseKeys : box[k] = "up" => word[k] # "still_needed"

\* Two failed commits never strand a run as RUNNING (_commit, __exit__ and its second try).
NoOrphanRow == ~InRun => \A i \in DOMAIN rows : rows[i] # "running"

\* Whatever ends a run that the user did not stop is sent out (_execute, the startup alert).
EveryEndIsNotified ==
  ~InRun => \A i \in DOMAIN rows : rows[i] # "cancelled" => i \in notified

\* A row that has its final status keeps it (finish, sweep_orphaned_runs).
FinalRowsStay ==
  [][\A i \in DOMAIN rows : rows[i] # "running" => rows'[i] = rows[i]]_vars

\* The stop request closes only rows whose worker is gone ("its worker died without closing it
\* out", stop_run): the sweep never touches the run in progress.
SweptRunIsDead ==
  [][\A i \in DOMAIN rows :
       rows[i] = "running" /\ rows'[i] = "failure" /\ pc' = pc => ~(recording /\ i = RunId)]_vars

\* Every run ends, and every queued run leaves the queue, whatever machines, clicks, failed
\* commits and edits do: the worker neither stops nor blocks for ever (_drain, _start).
EveryRunEnds ==
  /\ InRun ~> ~InRun
  /\ \A k \in Keys : (k \in QueuedKeys) ~> (k \notin QueuedKeys)

-----------------------------------------------------------------------------
(***************************************************************************)
(* The broker this service implements.  A run waits until the worker has    *)
(* the lock for it, and has the fleet as long as the worker has the lock.   *)
(***************************************************************************)
CONSTANTS Nobody, User

ASSUME OwnerAssumption == Nobody # User /\ {Nobody, User} \cap Keys = {}

WaitingKeys ==
  (IF pc \in {"resolve", "lock"} THEN <<current.key>> ELSE <<>>)
  \o [i \in DOMAIN queue |-> queue[i].key]

FleetOwner == CASE lock = "worker" -> current.key
                [] lock = "manual" -> User
                [] OTHER -> Nobody

Broker == INSTANCE RunBroker WITH line <- WaitingKeys, busy <- FleetOwner

\* Runs are served first come, first served, one at a time, none twice in the line, and
\* never together with a manual power-off (enqueue, _drain, _start, exclusive()).
ImplementsBroker == Broker!BrokerSpec
=============================================================================
