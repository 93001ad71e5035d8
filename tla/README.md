# Joulenap in TLA+

Joulenap wakes Proxmox Backup Servers (PBS) for the time a backup, sync, verify or garbage
collection needs them, and powers them off afterwards. This directory holds TLA+ models of the
program in `backend/app/`, the TLC runs that check them, and TLAPS proofs of their safety properties.
`PROJECT.json` lists the components, runs, mutants, findings, hazards and theorems, and maps
every definition to the lines it models.

    tlc -config JobsSync.cfg MCJobService     # one run
    tlapm JobRuns_proofs.tla                  # the proofs of one module

## The system

One process: FastAPI handlers on a thread pool, APScheduler's thread, one queue worker, threads
of the start, SQLite, one `config.yaml`. It drives machines it does not control.

| component | state it keeps | operations | hard because |
|---|---|---|---|
| job service (`jobs/service.py`) | `_queue`, `_current`, `_worker`, `_lock`, `_cancel`, `_cancel_power_off`, `_current_run_id` | `enqueue`, `dequeue`, `cancel`, `exclusive`, the worker's `_drain`/`_execute`/`_start`/`_release_all` | two locks and an event, read and written by the worker and any API thread; every commit may raise |
| power leases (`jobs/lease.py`) | holders per physical machine | `acquire`, `release`, `power_off_now` | waits of minutes between a look and an act; several datastores on one machine; machines that answer late or while going down |
| run rows (`jobs/recorder.py`, `db/startup.py`) | status of each run and its steps | `step`, `finish`, `__exit__`, the startup sweep | a failing database at the moment a run must be closed; a crash at any point |
| stop and power buttons (`api/jobs.py`, `api/devices.py`) | none | check, toggle, flag, sweep; `exclusive`, `power_off_now` | requests that cross the end of one run and the start of the next |
| route cycle (`jobs/backup_cycle.py`, `jobs/route_cycle.py`) | tally, claims, failed sources | sources, nodes, vzdump, prune, gc, verify, sync, watch | partial failure on three levels; a cancel anywhere |
| sync configuration (`jobs/route_cycle.py`, `connectors/pbs.py`) | a remote with a credential and a job on *another* server | sweep, replace, run, drop | requests half done; tasks that outlive runs; deleted routes; crashes |
| polling (`connectors/_tasks.py`, `watch_external_tasks`) | offset, deadline, start of a silence | `poll_task`, the two phases of the watch | tasks, a network and a user, each at its own pace |
| configuration (`core/config_store.py`, `api/routes.py`, `api/devices.py`, `config.py`) | the current `Config`, the file | edit, replace, save, reload | no lock around read-modify-write; failed and torn writes |
| settings and account (`api/config.py`, `api/auth.py`, `core/security.py`) | the same `Config`; a cookie per browser | PUT of a whole form, key, setup, account, login | forms with masked secrets, as old as their tab |
| migration (`config_migrate.py`) | a copy of the 0.9 file | convert, copy, write | killed, refused or unable to write, and tried again |
| scheduler (`core/scheduler.py`) | armed jobs | `rearm`, fires | `rearm` is many calls without a lock; two numberings of the week; downtime |
| missed runs (`core/catchup.py`, `core/heartbeat.py`, `db/prune.py`) | a timestamp file | touch, check at the start, prune | downtime inferred from a file's age, a row that may be gone, and the jobs armed by then |
| notifications (`notify/`) | none; one process-wide logger | dispatch to channels, alerts of the start | three threads over one logger; what a crash left on is read from rows |
| adding a PBS (`frontend/src/wizard`, `core/wizard.py`, `connectors/provision.py`, `sshkey.py`) | the wizard's draft; a key file; tokens and keys on the server | create, replace, grant, keygen, install, save | secrets shown once; requests half done; several wizards |
| caches (`db/guest_backups.py`, `db/datastore_stats.py`) | last backup per guest | upsert | must not date guests nobody backed up |
| read-only endpoints, the rest of the frontend | little or none | | |

Interactions: the scheduler and the run endpoints *enqueue*; the worker takes the single-run
lock, *acquires* the leases of the run's machines, runs the *route cycle*, which waits for tasks
with *poll_task*, *releases* the leases (which look back into the queue through a callback),
closes the row and notifies. A stop request raises a flag the waits look at. A manual power-off
takes the single-run lock. Edits replace the configuration under a run; a run keeps the snapshot
it began with, the queue and the release read the live one. A start migrates the file, sweeps the
rows, arms the jobs, and then checks for missed fires and sends alerts in threads of their own.

What makes each part correct:

- *job service*: a queue with work has a worker; no subject twice; one run or one manual
  power-off at a time; a stop request stops the run it names; every queued run leaves the queue and ends;
  every end that is not the user's own stop is announced.
- *leases*: a leased machine is up for as long as the job works; no lease outlives its run; a
  machine a queued run needs stays on; a machine left on is one somebody was told of.
- *rows*: no row stays RUNNING without a run; a final status is final.
- *route cycle*: success means that nothing failed, was lost or is still running; a failed
  node or source costs no other its turn; the numbers add up; a cancel starts nothing new.
- *sync configuration*: no credential is left behind without a word; leftovers are collected;
  nothing is taken from a task that runs, or from the user.
- *polling*: lines in order, none lost; only the task's own end is its outcome; a box is not given
  up under a job; every wait and every watch ends.
- *configuration*: every configuration in memory or on disk is valid; memory, file and armed
  jobs agree; an edit changes what it names; an acknowledged edit stays.
- *settings*: a secret belongs to the device it was typed for; a form changes what it says.
- *migration*: the user's original survives; what ran on some days goes on running on them.
- *missed runs*: what is reported was missed, and what was missed is reported.
- *notifications*: a result is about its own message; a machine left on is told of, and no other.
- *adding a PBS*: a saved device works; nobody's token is replaced unasked.

## Modules

| module | models | relation |
|---|---|---|
| `PowerLease` | `jobs/lease.py`, probes and power of `connectors/` | extended by `JobService` |
| `JobService` | `jobs/service.py` with recorder rows, stop, power, edits, restarts | implements `RunBroker` |
| `RunBroker` | what the service promises: one line, one grant at a time | abstract specification |
| `RouteCycle` | one run between its leases | uses the outcomes `TaskPoll` establishes |
| `TaskPoll` | one wait for a task, over discrete time | |
| `ExternalWatch` | the watch over a PBS's own tasks, over discrete time | |
| `Polls` | a run that waits or watches | joins the two modules above |
| `SyncConfig` | the remote and job of a sync, over many runs | uses the outcomes of `TaskPoll` |
| `ConfigEdit` | concurrent edits, save, rearm | |
| `CronDays` | the days of the week a schedule fires on; pure operators with a reference definition | extended by `Migrate` |
| `Migrate` | starts on a 0.9 file | |
| `Settings` | `PUT /api/config`, account, sessions | |
| `Wizard` | the wizard that adds a PBS, and the server it talks to | |
| `Configuring` | a behaviour of `Settings`, `Wizard` or `Migrate` | joins the three |
| `MissedRun` | fires, heartbeat, runs, prune, restarts and the check | |
| `Notify` | a run's steps, its message, the alert of a restart, and dispatches | |
| `StartUp` | a behaviour of `MissedRun` or `Notify` | joins the two |
| `MC*` | the constants of the runs | extend the module of their name |
| `JobService_proofs`, `JobRuns_proofs` | proofs about the core | the second extends the first, and that `JobService` |
| `ConfigEdit_proofs`, `RouteCycle_proofs`, `SyncConfig_proofs`, `Polls_proofs`, `StartUp_proofs`, `Configuring_proofs` | proofs about the other parts | extend the module of their name |

**PowerLease.** `holders` is `_state` by lease key, `call[t]` the frame of a thread inside
`acquire` or `release`. Everything done outside `PowerLease._lock` is a step of its own: the
probe, the magic packet, the waits, the look at the queue, the wait for idle, the command. The
two callbacks are parameters. `box` is the machine: off, booting, up, stopping. `LingerAnswers`
says whether a machine that shuts down still answers.

**JobService.** `pc` is the worker's place; a step is what the worker does between two points
where another thread can see or change something. `Fault` is a commit that raises, and the
exception's way through `_execute`, `__exit__` and `_drain` is followed. A stop request
is four steps (`StopCheck`, `StopPowerOff`, `StopSet`, `StopSweep`), because `cancel()` has no lock. The
job itself is one place, `"job"`, left with a status; `RouteCycle` is its inside. A status
`"cancelled"` is ABORTED by the user's stop, which the code tells from other aborts by not
notifying. `hits`, `crossing`, `early`, `word` and
`notified` are history variables; `crossing` holds the runs that requests under way had named when a run
cleared the flag.

**RouteCycle.** The loops over sources and nodes, then the plan of single tasks of each kind.
`backedUp` and `running` are what the servers really did; `covered`, `ok`, `lostGuests` and
`status` what Joulenap believes. A log is read as sets of guests done and failed. Which guests a task
covers is PVE's to say (the modes *all* and *exclude* leave it to vzdump): a task that ends well may pass
over any it was to cover, one that is excluded from backups, gone or moved, and `leftOut` keeps them. So
success means that every listed guest is backed up *or passed over by PVE itself*, and a claim is a guest
of a task that ended well; that claimed guests are backed up (`ClaimsAreBackedUp`) does not hold, as the table
of limits tells. `RecordIsTrue` compares belief and fact.

**TaskPoll, ExternalWatch.** Time passes only in requests and sleeps; instants are kept as
distances from now, so no clock needs a bound. In the watch a request takes time on the way out
and on the way back, and the server looks in between; `ran` and `gone` say how long each task has
run and been over. `Polls` lets a behaviour be one or the other, since they share nothing.

**SyncConfig.** One executing PBS; requests act or raise, and one that raises may have acted.
A name is its route. `PartOf` says which route's name is a substring of another's, since the
sweep compares substrings.

**ConfigEdit.** `acked` is what the answers to a route's edits allow it to be; `overlapped` and
`unsaved` remember two requests at a time and a write that failed. A request looks its item up, dumps the list, builds the document, replaces,
saves, and rearms job by job; each of these reads the store anew, as the code does. The
kill-switch changes the current object in place.

**Settings.** A tab's form is the configuration it was given, masked, with one change of the
user's; it may be sent long after. A PUT is three steps: merge with the store, set the fields only
the server sets, replace. A secret is a record of the id it was typed for and a number, so that
one in the wrong place shows. `tab[t].overtaken` remembers a store changed under a PUT. A setup signs
its author in with the password that came with the request, a change of the account with the one that is
stored (`SignsWith`): of two setups that both find no account the later one stands, and the earlier author
has to sign in again.

**Wizard.** The server is part of the model: tokens by name, with secret and roles, and the
authorized keys. Every request may fail with or without having acted, and the user may go back,
try again or leave. A token's name is qualified by its datastore and cleaned of what PBS refuses
(`pbs_token_name`), so that two datastores may have tokens of one name: the constant `TokenName` is any
function, and the runs have `"nas 1"` and `"nas-1"` share `joulenap-nas-1`. A server whose power is not
managed has no key steps. The key is installed, or the command is left to the user: by choice
(`Toggle`), or because sshd refused the password, after which the wizard goes on without
(`Install`, `LeaveToUser`). A device keeps whether the report said the key is installed, and only of
those `SavedDeviceWorks` says that the server obeys it.

**CronDays, Migrate.** A field is a set of tokens `first-last/step`. `CronMeans` says what
crontab(5) makes of it, and is written without the translations it is compared with. `Migrate` is
`load_config` step by step, twice per start as `run()` does, on a file that can be renamed over or
only be overwritten. The file and the copy hold a whole configuration, nothing, or a torn one.

**MissedRun.** The clock ticks while the process is up, stopping or down; fires and heartbeats
happen in the tick. The check reads the clock once and then looks at one route at a time, while
runs, edits, prunes and a stop go on. `lived` and `served` are what the process was really there for.

**Notify.** The run is followed commit by commit (`steps` is what a restart would find); the
machines are modelled, so that what the alert says can be compared with what is on. A dispatch walks
the channels; `Hears` decides which handler gets a record of the logger. `StartUp` lets a behaviour be
about missed fires or about a run, as their threads share no state.

## Runs

Bounds are named in each module. They count environment acts: requests, failures, restarts.
The processes themselves are not cut short, so every behaviour with that few acts is explored.

| run | question | bounds, and why they are enough |
|---|---|---|
| `JobsQueue` | queue, hand-off and lock; is a row left RUNNING, or rewritten; does every run end; `RunBroker` | one machine that answers while it shuts down, two routes and an ad-hoc run, so that one runs and another waits and is asked for again; two failed commits (the one that closes a run and its second try), a click, dequeues, restarts |
| `JobsOneBox` | is a machine taken from a queued run, or left on silently; which requests can stop a run; is the toggle honoured? | two datastores of one machine, two runs, one of them queued behind the other's release; one stopper that may stop again and again, a click, wakes |
| `JobsSync` | are leased machines up, leases returned, ends announced? | a sync over two machines beside another run, edits and one wake retry; the first machine may be had and the second not |
| `Polls` | lines and outcome of a wait; what a watch reports; do both end? | three lines in batches of two (a full, a partial and an empty batch); requests as long as half the timeout, the grace window shorter than it; two watched tasks, so that one may follow the other at any distance |
| `SyncConfig` | credentials, leftovers, the user's own objects | two routes with nested names, two faults (both steps of one pair), a restart, a PBS that goes away |
| `RouteCycle` | the record, claims, numbers, cancel | two PVEs of two nodes, up to two guests on one node, any of them passed over by PVE, and one created late; all kinds, all subsets of steps |
| `ConfigEdit` | validity, torn files, file against memory against jobs, acknowledged edits | two edits one by one or at a time, a failed write (with an edit after it), a restart, the file renamed over or overwritten in place |
| `Configuring` | secrets, forms and the account; saved devices and consent; the original and the schedules | two tabs and three acts (one form overtaken by another, or by a change of key or account; two setups at a time), two devices of three ids; two wizards, three datastores of which two have tokens of one name, three secrets (two tokens and the key, so that the second wizard finds a key, or a token and its replacement), one failed request, a token of somebody else's under either name; every 0.9 configuration over four day-of-week fields (a star, a list with both Sundays, a range ending in 7, a step), kills between any two steps |
| `StartUp` | false and missing reports of missed fires; results of channels; warnings of machines left on | two routes, one that fires often and one that fires seldom, three starts, five units of time at a heartbeat of two and a retention of three, one act; one or two machines, two channels, two log records a channel, a test message beside the run's and the alert's |

Symmetry is used where it is sound: the tabs and wizards of `Configuring`, and the routes and
devices of `StartUp`, are told apart by nothing, and those runs check invariants and step
properties only. `CHECK_DEADLOCK` is off because every model stops when its bounds are used
up or its run is over. Each run takes less than three minutes with two workers.

Three runs are expected to find a violation. Each is a disagreement between the code and what its
own text says; the lines are quoted in `PROJECT.json`.

| run | what TLC shows |
|---|---|
| `QueuedRunLosesBox` | the queue is looked at before the wait for idle and the command; a run queued meanwhile has its machine powered off |
| `CrashUntold` | the final status is committed before the power-off; a process killed in between leaves the machine on, and the next start, which looks at RUNNING rows, tells nobody |
| `ConsentCarries` | the consent to replace a token is a flag of the wizard; after Back and another datastore it is spent on another token |

Further limits of the code show when a condition or a constant of a run is changed; they were
met that way and are not kept as runs:

| change | what TLC shows |
|---|---|
| `OnlyAskedRunsStop` in `JobsOneBox.cfg` | `cancel()` checks the run id, the run ends, the next one clears the flag, then the flag is raised: the next run is stopped, which "must not" happen in the words of `cancel()` and `stop_run` (`jobs/service.py:116-119`, `api/jobs.py:37-38`) |
| `ClaimsAreBackedUp` in `RouteCycle.cfg` | a guest that PVE passes over, because it is excluded from backups or gone since the listing, is counted and claimed with the others of its node; `backup_cycle.py:456` says "the vmids it actually backed up", and line 260 "the vmids each successful node backed up" |
| `NoLeaseLeft` with `MaxFaults = 1` in `JobsSync.cfg` | a commit that fails between the lease's count and the list of held devices leaks the lease |
| `NothingLeftOnSilently` in `JobsSync.cfg` | a release says "still needed" because of a queued sync; the sync fails on its other machine first, never acquires this one, and it stays on with nobody told |
| `LingerAnswers = TRUE` in `JobsSync.cfg` | a probe answered by a machine that is shutting down counts as awake (`LeasedBoxIsUp`) |
| `SweptRunIsDead` in `JobsOneBox.cfg` | a stop request between the row's insert and the publication of its id closes the row of the live run |
| `NoSilentLeftover` in `SyncConfig.cfg` | a run that fails between `ensure_remote` and the `try` leaves the credential without a warning, until the next run's sweep |
| `RecordIsTrue` without `lateGuests` | a node that fails counts guests created since the listing: the notification tells of more guests than there are |
| `InStep` without `~unsaved` | an edit answered 500 stays in memory, and is saved with the next edit or lost at the next start |
| `ArmedIsConfigured` in `ConfigEdit.cfg` | of two edits at a time the older one's `rearm` may come last |
| `AckedEditStays` or `OnlyTheNamedItemChanges` without `~overlapped` | of two edits of one list at a time one is lost; a position looked up in one list is used in a later one and the neighbour is edited |
| `FormsSayWhatTheyChange` with `"setup_session"` beside `"resession"` | of two setups that both find no account the earlier one's session carries a password the later one has replaced |
| `Seeded = {FALSE}` in `Configuring.cfg` | a migration that could not be written is followed by the write of the seeded key: an empty 1.0 file takes the place of a 0.9 one that was refused, and the next start no longer says so (`ScheduleIsKept`) |
| `OverlapKeygen = TRUE` in `Configuring.cfg` | two keygen requests at a time make two keys; the server that was given the first no longer obeys (`SavedDeviceWorks`), what the docstring of `ssh_keygen` sets out to prevent |
| `LateClock = TRUE` in `StartUp.cfg` | a fire served between the arming and the check's reading of the clock is reported as missed (`NoFalseAlarm`) |
| `TouchFails = TRUE` in `StartUp.cfg` | a heartbeat file that cannot be written goes stale, not absent: the check reports fires the process was up for |

Every property of a passing run has at least one mutant, a definition of the same module that is
the code with a plausible mistake; with it TLC finds the property violated.

### Fairness

- `JobService`: weak fairness of the worker's step: the worker is a thread, every wait in it has a
  deadline, and so have its HTTP and SSH calls. Strong fairness of taking the single-run lock,
  which a click holds for the seconds of one SSH connect, again and again. A click and a
  stop request that have begun run to their end, and a machine told to boot or halt does. No
  fairness for users or restarts. Nothing says a woken machine answers: a wait may always end
  without it.
- `Polls`, `SyncConfig`: weak fairness of the run's thread, whose requests have timeouts; the
  tasks, the user and the network owe nothing. `WatchEnds` and `LeftoversAreCollected` have their
  conditions in the formula (the schedules are through; syncs go on being run and the PBS stays
  in reach), because no code promises them.
- `ConfigEdit` states weak fairness of each request (a lock is only held across a file write);
  none of the properties its run checks is about liveness.
- `RouteCycle`, `Configuring` and `StartUp` have none: nothing live is claimed of them.

## Proofs

For all constants that meet the named assumptions of the modules (`LeaseAssumption`,
`ServiceAssumption`, `OwnerAssumption`, `SyncAssumption`, `PollAssumption`, `WatchAssumption`,
`SettingsAssumption`, `WizardAssumption`, `MigrateAssumption`, `MissedAssumption`,
`NotifyAssumption`, `CycleAssumption`, `EditAssumption`, `TornAssumption`): any number of machines,
devices, routes, threads, tabs, wizards, sources, nodes, guests, tasks and channels, any timeouts, any
bounds. Each `[]P` is proved from an inductive invariant, of which the
table says what it adds to `P`; the lemmas of a module go action by action through its steps.

**The core** (`JobService_proofs`: types, queue, lock, stop, leases, rows; `JobRuns_proofs`: the ends of
runs and the broker).

| theorem | statement | argument |
|---|---|---|
| `TypeCorrect` | `Spec => []TypeOK` | `TypeOK` is not inductive alone: that a device is released needs the loop not to be empty, a result of a lease call needs the call to be of the kind the worker made, an id needs the bound on runs. `TypeInv` adds these as `WorkerInv` |
| `QueueKeepsItsPromise` | `[]QueueIsSound` | the conjunction of the next two |
| `QueueServed` | `[]QueueIsServed` | the queue only grows together with `EnsureWorker`, and the worker only ends on an empty queue |
| `SubjectsAreUnique` | `[]NoDuplicateSubject` | `Taken` covers the queue and the current run; popping moves a key from one to the other |
| `LockIsExclusive` | `[]LockDiscipline` | inductive with `TypeInv`; `LockSteps` reduces `Next` to the actions that touch lock or clicks |
| `StopsDoNotLinger` | `[]NoStaleStop` | a run is stopped by requests that name it, or that were under way for an earlier one as it cleared the flag. `StopInv`: a raised flag past the point where it is cleared has a hit since then; every hit, and every request past `cancel()`'s check, names the run whose id is out or one of `crossing`; the id is out from `SetRunId` to the reset in `_drain` only |
| `LeasedBoxStaysUp` | if machines that shut down do not answer, `[]LeasedBoxIsUp` | `LeaseInv`: what each place of a lease call implies for its machine, and that held machines are up; a manual power-off is excluded by `LockDiscipline` |
| `RowsAreClosed` | with at most two failed commits, `[]NoOrphanRow` | `RowInv`: how many failures each place of the unwinding has used up |
| `FinalStatusStays` | without stop requests, `FinalRowsStay` | `StatusInv`: wherever the worker may still write a status, the row is RUNNING; the recorder's status and the row agree in between |
| `EndsAreNotified` | with `MaxFaults = 0` and no restarts, `[]EveryEndIsNotified` | `EndInv`: a run is recorded from its insert to the notification, which finds the row as the worker believes it; every earlier run has been told of |
| `ToggleIsHonoured` | `StopChoiceHonoured` | `ChoiceInv`: once the run has its row, the toggle is what some request that raised the flag, or is about to, has written, or no request has named this run; requests only name runs that have begun |
| `EarlyRunsKeepTheirMachine` | without edits, `NoPowerOffUnderEarlyRun` | `EarlyInv`: between the look at the queue and the command, the runs it saw are still queued and none needs the machine; the command can only come from the lease call |
| `LeasesAreReturned` | with `MaxFaults = 0`, `[]NoLeaseLeft` | `HoldInv`: place by place, the refcount of a machine is 1 or 0 as it is in the list of held devices, in what is left to release, or in the lease just granted; a run's list has no machine twice (`ResolvedOnce`), so no count reaches 2 |
| `NobodyIsLeftWaiting` | if every run needs one machine and nothing fails, restarts, is edited or dequeued, `[]NothingLeftOnSilently` | `WordInv`: a machine last called "still needed" is one that a queued run needs, or the run in progress has yet to speak of; rests on `HoldInv`, `EndInv` and `EarlyInv` |
| `ServiceImplementsBroker` | `Spec => ImplementsBroker` | the line is the popped run before the queue, the owner follows from the lock; every action is a broker step or a stutter, with `LockDiscipline` to tell which |

**Waits and watches** (`Polls_proofs`), about `PollsSpec`.

| theorem | statement | argument |
|---|---|---|
| `PollsTypeCorrect` | `[](TypeOK /\ WatchTypeOK)` | part of `PollInv` and `WatchInv` |
| `LinesAreInOrder` | `[]LinesInOrder` | `DrainInv`: what was handed on is the head of the log, and an outcome once read freezes the log, so that the empty batch after it means nothing is left |
| `OutcomeIsTheTasks` | `[]OutcomeIsTrue` | `ClockInv`: the window a failed request opens is no longer than the time without an answer, and the time to the deadline no shorter than the newest line leaves of it |
| `WatchReportsTruth` | `[]WatchIsTrue` | `WatchInv`: a task no look has seen was not there at the last one, and how old that look is follows from the place of the loop (`UnseenInv`); the countdown of silence is never longer than each task seen has been over (`QuietInv`) |

**Sync configuration** (`SyncConfig_proofs`), about its `Spec`; one invariant, `PairInv`.

| theorem | statement | argument |
|---|---|---|
| `SyncTypeCorrect` | `[]TypeOK` | part of `PairInv` |
| `NoRequestIsRefused` | `[]NothingIsRefused` | `OrderInv`: by the time a remote is deleted or replaced its job is gone, and stays gone until the run makes it |
| `PairsAreAccountedFor` | `[]CleanedOrTold` | `ToldInv`: a run that has not asked for its sync does not count as started |
| `SweepSparesOthers` | `OthersAreSpared` | `SparedInv`: what the sweep has listed belongs to no running task, and no task starts until it is through |

**Starts and messages** (`StartUp_proofs`), about `StartUpSpec`; one invariant, `StartUpInv`.

| theorem | statement | argument |
|---|---|---|
| `StartUpTypeCorrect` | `[](TypeOK /\ (news # "missed" => CycleTypeOK))` | part of `StartUpInv` |
| `ReportsAreTrue` | if the clock is read before a fire can be served and the heartbeat can be written, `[]NoFalseAlarm` | `LivedInv`: whatever the process was up for is covered by the stamp, and the stamp found at the start covers what earlier processes were up for; `ServedInv`: a fire that was served has left a row or an anchor no older than it, unless the row was pruned |
| `NothingMissedIsSilent` | if the clock is read before a fire can be served, `MissedIsReported` | `CheckInv` and `StampInv`: a checking process has its routes armed as configured, its clock is past the arming, and the stamp it found is no younger than the end of the last process; a stale stamp only makes the gap longer |
| `ReportsAreTheirOwn` | `[]EachChannelOnItsOwn` | `DeliveryInv`: `CaptureInv`, what a handler has captured was logged by its own thread's channel; `IdleInv`, nothing is captured outside a notify call |
| `MachinesLeftOnAreTold` | `[]LeftOnIsTold` | `StepsInv` and `TakenInv`: a machine was taken exactly when a committed step says so, so that rows cut off anywhere still tell; `HeldInv`: every machine taken is still held or settled, and left on and handed on exclude one another |

**Configuration** (`Configuring_proofs`), about `ConfiguringSpec`.

| theorem | statement | argument |
|---|---|---|
| `EverySecretIsItsOwn` | `[]SecretsAreTheirs` | `SettingsInv`: the stored secrets, those a form has typed and those of a form already merged are each of the id they stand at; a mask is only filled in from a device of the same id |
| `SavingChangesWhatTheFormSays` | `FormsSayWhatTheyChange` | `Says`, kept from the merge to the replacement of a PUT nobody overtook, and `PhasesAreTheirs`: which step of whom moves a tab. Whoever changes an account that exists stays signed in; of a setup nothing is said |
| `SavedDeviceCanBeUsed` | with `~MovesOn` and `~OverlapKeygen`, `[]SavedDeviceWorks` | `WizardInv`: a wizard past its token still has that token and the roles granted so far, or another user agreed to lose the token of its name, for any `TokenName`; a key that was installed, and not left to the user, is the one in the file |
| `TokensAreReplacedWithConsent` | with `~MovesOn`, `ReplacedWithConsent` | from the types of the drafts and the place a wizard deletes at |
| `TheOriginalIsKept` | `[]OriginalIsKept` | `KeptInv`: while there is no copy the file is the original, and every place past the copy has one |
| `TheScheduleIsKept` | for fields `validate_cron` accepts and a file with a `secret_key`, `[]ScheduleIsKept` | `ConversionKeepsDays`: `FireDays(ParseCron(f)) = CronMeans(f)` for every valid field, two numberings of the week against crontab's; `ConversionKeepsJobs` lifts it to configurations; `ScheduleInv` follows it through file, memory and copy |

**Edits** (`ConfigEdit_proofs`), about its `Spec`; one invariant, `EditInv`.

| theorem | statement | argument |
|---|---|---|
| `EditTypeCorrect` | `[]TypeOK` | `TypeInv` adds what the places of a request imply for its locals: one that drops an item has found it, and a built list is one of the section's items |
| `ConfigStaysValid` | `[]ConfigIsValid` | `ValidInv`: every object ever built is valid, the superseded ones included, since a request in flight may still put its own in place; a write in place is the only way to a torn file. However many requests overlap |
| `MemoryFileAndJobsAgree` | `[]InStep` | `SoloInv`, as long as no two requests have overlapped: the position, list and document of the request in progress are those of the current configuration (`LocalsAreCurrent`), the file and the jobs are as far as its place says (`JobsFollow`), and all agree when none has been applied (`Settled`). `OneJobEach`: no route has two jobs, even when requests overlap |
| `AcknowledgedEditsStay` | `[]AckedEditStays` | `SoloInv`: a route in memory is as it was answered, or one that the request in progress names (`RoutesAreAcked`); an older file is answered for too, since a restart may load it (`FileIsAcked`) |
| `OthersKeepTheirItems` | `OnlyTheNamedItemChanges` | `EditedItems`: in a list without duplicates, setting or dropping the item at the position of an id leaves what every other id finds; `ValidInv` and `LocalsAreCurrent` give the duplicates and the position |

**The route cycle** (`RouteCycle_proofs`), about its `Spec`; one invariant, `RunInv`, and `LateInv`.

| theorem | statement | argument |
|---|---|---|
| `CycleTypeCorrect` | `[]TypeOK` | `TypeInv`: there is a source while one is backed up, a step while one is asked for, and every set that is counted is finite |
| `AtMostOneMoreTask` | `[]AtMostOneLateStart` | `LateInv`: after the late task has been asked for, the run waits for it, and every path from there leads to the end |
| `NoNodeIsPassedOver` | `[]EveryNodeGetsItsTurn` | `TurnInv`: a node still listed has its guests as they were listed, one taken off the list has been asked for a task, and later sources are untouched; `EndInv`: where the loop stands when a run ends |
| `TheRecordIsTrue` | `[]RecordIsTrue` | `TaskInv` and `ReportInv`: a task that runs is the one waited for or is in the timeline, and what is in the timeline is an error counted or about to be; `ClaimInv`: claims are backed up or left out by PVE, and both were listed; `TallyInv`: the guests done, lost and at hand are no more than those of the nodes taken up and those created late, and exactly the first while nothing has failed. A source without an error is covered by `TurnInv` |

The hypotheses are not decoration. Each is a value of a constant under which TLC refutes the
property: by a run (`ConsentCarries` for `MovesOn`), as the table of limits tells (`LingerAnswers`,
`MaxFaults`, `OverlapKeygen`, `Seeded`, `LateClock`, `TouchFails`), or when it is tried: with stop
requests `FinalRowsStay` fails in `JobsOneBox.cfg` (the mistaken sweep of a live run's row, which the
run then closes again), with restarts `EveryEndIsNotified` fails in `JobsSync.cfg` (the process ends
between the commit of the final status and the message), and a third failed commit does leave a row RUNNING until
the next start.
Without any one of its five hypotheses TLC refutes `NobodyIsLeftWaiting` too: a run of two
machines may fail on the first and never take the second; a queued run may be dequeued, or its route
edited away; a failed commit or a restart may take its word. A passing run has each of them,
so no theorem is about nothing.

Only model-checked:

- *Liveness* (`WaitEnds`, `WatchEnds`, `LeftoversAreCollected`, and the progress of the queue): it
  rests on fairness and ENABLED, out of the prover's reach.
- *The assumptions themselves*: TLC evaluates each on the instances of the runs.

Every invariant and every step property that a passing run checks is the statement of a theorem.
No definition is recursive.

## What the models leave out

- *In the core.* Lengths of waits in `PowerLease` (a wait may end at any moment); log text;
  per-step rows, but for those `Notify` has. A machine that answers after the wait for a
  cancelled wake stays on, and the record's last word on it is "unreachable"; that an aborted wait
  means the machine is off (`notify/messages.py:528`) is likewise not claimed. `EveryEndIsNotified`
  is checked without failed commits: one failure at the POWEROFF step loses the notification.
  `NoPowerOffUnderEarlyRun` assumes no route is pointed elsewhere between the look at the queue
  and the command. The queue's liveness is checked without edits of routes, which `JobsSync` has.
- *In tasks and syncs.* `TaskPoll` bounds the lines, so a task that writes for ever is not covered.
  `WatchIsTrue` is about tasks that run for longer than the gap between two looks; a shorter one
  may go unseen. `SyncConfig` leaves out a user's own job that references one of Joulenap's
  remotes, and sweeps in any order where the code goes by name.
- *In the configuration.* `ConfigEdit` leaves out renamed ids, schedules that do not parse, and
  devices other than PBSs; what overlapping edits leave behind is only claimed to be valid
  (`ConfigIsValid`). `Settings` has one list of devices and stands for the merge of every list by
  id; `FormsSayWhatTheyChange` says nothing of a form saved while the store is changed under it,
  where the last PUT wins. `CronDays` has numbers only: names of days pass through unchanged.
  `ScheduleIsKept` is about a 0.9 file with a `secret_key` of its own, like the one
  in `backend/tests/fixtures/`; what becomes of one without is in the table above.
- *In adding a PBS.* `Wizard` is about a user who has root's password; one who brings a token is asked
  for nothing by the server. That the host key is trusted before the password goes over SSH only delays.
  Whether the user pastes the command a wizard leaves them is not known, so a key left to the user is not
  claimed. Each wizard has an id of its own for its device (`createDevice` refuses one that is taken), and
  there is one server: names of tokens and keys of different servers do not meet.
  `docs/CONFIG-WIZARD.md:96-97` and `wizardFlow.ts:312-313` say that two datastores of one server share
  a token; the code qualifies the name by the datastore, and they do so only when the cleaned names
  coincide.
- *In the start.* `MissedRun` has whole units of time and no daylight saving; a run's age for the
  prune is taken from its start. `Notify` follows one run; of an ad-hoc run, whose machine the
  rows do not name, `LeftOnIsTold` allows a warning too many, as the code's comment does.
- *Parts.* The flow that adds a PVE, the grant for a sync route, discovery; the counter of failed
  logins; wording, URLs and routing of notifications; read-only endpoints; the rest of the
  frontend: no order of steps that matters, or pure I/O; `PROJECT.json` says why for each.

## Plan

Done: `PowerLease`, `JobService`, `RunBroker` and their proofs; `RouteCycle`, `TaskPoll`,
`ExternalWatch`, `SyncConfig`, `ConfigEdit`; `Settings`, `Wizard`, `CronDays`, `Migrate`;
`MissedRun`, `Notify`.

What could follow:

1. An abstract `EditLog` for `ConfigEdit` with one request at a time (each edit takes
   effect at once), and a composition of `RouteCycle` with `TaskPoll`.
2. The flow that adds a PVE, which provisions two machines and resumes after a partial failure.
3. The login limiter, if the state it keeps earns a module.

The runs are meant to stay few: a new module brings one run, and takes the place of a run whose
disagreement the code has resolved, or of a property a deeper one covers.

Proofs next: what holds of `ConfigEdit` when requests overlap beyond validity (a route not named by
any of them keeps its item only if no list was replaced by an older one), and that `RouteCycle` needs
of its waits no more than `Polls_proofs` establishes.
