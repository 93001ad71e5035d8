------------------------------- MODULE SyncConfig -------------------------------
(***************************************************************************)
(* The remote and the sync job Joulenap keeps on the PBS that executes a     *)
(* sync, for the length of the sync: _sync_body, _sweep_sync_config and      *)
(* _drop_sync_config (backend/app/jobs/route_cycle.py) with the requests of  *)
(* backend/app/connectors/pbs.py.  A remote holds a working credential of    *)
(* the other PBS, so what matters is when it goes away.                      *)
(*                                                                         *)
(* One executing PBS.  A pair bears the name of its route, so a name is      *)
(* written as the route.  Runs are serialised (JobService).  A request may   *)
(* fail before or after the PBS acted on it; the listing a deletion starts   *)
(* with is one step with it, since nobody else edits these objects.          *)
(***************************************************************************)
EXTENDS Naturals

CONSTANTS
  Routes,      \* sync routes executed on this PBS: they name the joulenap-* pairs
  Foreign,     \* names of remotes and jobs the user keeps on that PBS
  PartOf,      \* pairs <<r, s>>: the name of r is a substring of the name of s
  Deadline,    \* _CLEANUP_DEADLINE
  MaxAttempt,  \* bound: time one attempt of the cleanup and its pause take
  MaxFaults,   \* bound: requests that fail
  MaxRestarts  \* bound: restarts of Joulenap

ASSUME SyncAssumption ==
  /\ Routes \cap Foreign = {}
  /\ PartOf \subseteq Routes \X Routes
  /\ {Deadline, MaxAttempt} \subseteq Nat \ {0}
  /\ {MaxFaults, MaxRestarts} \subseteq Nat

VARIABLES
  jobs,       \* names of the sync jobs on the PBS (external)
  remotes,    \* names of its remotes (external)
  tasks,      \* routes a sync task is running for (external)
  routes,     \* routes still configured
  pc,         \* where the run is; "idle" also once its pair is dealt with
  cur,        \* the route of the run
  listed,     \* sync_config_names(), as read by the sweep
  todo,       \* the loop of the sweep: stale names the sweep has not handled
  sweeping,   \* the one it is at
  elapsed,    \* time the cleanup has spent
  told,       \* history: routes whose pair the timeline says could not be removed
  started,    \* history: routes whose last run got as far as run_sync_job
  abandoned,  \* history: routes whose run ended with the process
  refused,    \* history: the PBS refused a request
  gone,       \* the PBS is out of reach for good (external)
  faults, restarts

vars == <<jobs, remotes, tasks, routes, pc, cur, listed, todo, sweeping, elapsed, told, started,
          abandoned, refused, gone, faults, restarts>>
histVars == <<told, started, abandoned>>
sweepVars == <<listed, todo, sweeping>>
bounds == <<gone, faults, restarts>>

Names == Routes \cup Foreign
Places == {"idle", "list", "busy", "sweep", "sweep_remote", "own_job", "remote", "job", "start",
           "wait", "clean_job", "clean_remote"}

TypeOK ==
  /\ jobs \subseteq Names /\ remotes \subseteq Names /\ tasks \subseteq Routes
  /\ routes \subseteq Routes /\ pc \in Places /\ cur \in Routes
  /\ listed \in [jobs : SUBSET Names, remotes : SUBSET Names] /\ todo \subseteq Routes
  /\ sweeping \in Routes
  /\ elapsed \in 0 .. Deadline
  /\ told \subseteq Routes /\ started \subseteq Routes /\ abandoned \subseteq Routes
  /\ refused \in BOOLEAN /\ gone \in BOOLEAN
  /\ faults \in 0 .. MaxFaults /\ restarts \in 0 .. MaxRestarts

Init ==
  /\ jobs = Foreign /\ remotes = Foreign /\ tasks = {} /\ routes = Routes
  /\ pc = "idle" /\ cur \in Routes
  /\ listed = [jobs |-> {}, remotes |-> {}] /\ todo = {} /\ sweeping = cur /\ elapsed = 0
  /\ told = {} /\ started = {} /\ abandoned = {} /\ refused = FALSE
  /\ gone = FALSE /\ faults = 0 /\ restarts = 0

-----------------------------------------------------------------------------
\* Requests.  An answered one acts.  One that raises ApiError was not heard, or its answer was
\* lost after the PBS had acted.
Answered == ~gone /\ UNCHANGED bounds
Fault == ~gone /\ faults < MaxFaults /\ faults' = faults + 1 /\ UNCHANGED <<gone, restarts>>
Unheard == Fault \/ (gone /\ UNCHANGED bounds)
AnswerLost == Fault

JobGone(n) == jobs' = jobs \ {n} /\ UNCHANGED <<remotes, refused>>
NoChange == UNCHANGED <<jobs, remotes, refused>>

\* PBS does not delete a remote that a job still points at.
Referenced(n) == n \in remotes \cap jobs
RemoteGone(n) == ~Referenced(n) /\ remotes' = remotes \ {n} /\ UNCHANGED <<jobs, refused>>
RemoteRefused(n) == Referenced(n) /\ refused' = TRUE /\ UNCHANGED <<jobs, remotes>>

\* delete_sync_job() and delete_remote(): done, or an exception.
JobDeleted(n) == Answered /\ JobGone(n)
JobDeletionRaises(n) == (AnswerLost /\ JobGone(n)) \/ (Unheard /\ NoChange)
RemoteDeleted(n) == Answered /\ RemoteGone(n)
RemoteDeletionRaises(n) ==
  (AnswerLost /\ RemoteGone(n)) \/ (Unheard /\ NoChange) \/ (Answered /\ RemoteRefused(n))

-----------------------------------------------------------------------------
\* The run before the sync: _sweep_sync_config, then the pair of its own.
StartRun ==
  /\ pc = "idle"
  /\ cur' \in routes
  /\ pc' = "list"
  /\ told' = told \ {cur'} /\ started' = started \ {cur'} /\ abandoned' = abandoned \ {cur'}
  /\ UNCHANGED <<jobs, remotes, tasks, routes, sweepVars, elapsed, refused, bounds>>

\* Mutant: only the jobs are looked at, so a remote without its job is never seen again.
StaleJobs(l) == l.jobs \cap Routes
\* Mutant: whatever the run does not need itself is taken for a leftover.
StaleAny(l) == l.jobs \cup l.remotes
Stale(l) == (l.jobs \cup l.remotes) \cap Routes

ListConfig ==
  /\ pc = "list"
  /\ \/ /\ Answered
        /\ listed' = [jobs |-> jobs, remotes |-> remotes]
        /\ pc' = IF Stale(listed') = {} THEN "own_job" ELSE "busy"
     \/ Unheard /\ pc' = "own_job" /\ UNCHANGED listed
  /\ UNCHANGED <<jobs, remotes, tasks, routes, cur, todo, sweeping, elapsed, histVars, refused>>

\* Mutant: the escaped ids are not decoded, so no task names anything.
NothingIsBusy == {}
\* `name in busy`: a task names every name that is a substring of its id.
Busy == tasks \cup {r \in Routes : \E s \in tasks : <<r, s>> \in PartOf}

ReadTasks ==
  /\ pc = "busy"
  /\ \/ Answered /\ todo' = (Stale(listed) \ {cur}) \ Busy /\ pc' = "sweep"
     \/ Unheard /\ pc' = "own_job" /\ UNCHANGED todo
  /\ UNCHANGED <<jobs, remotes, tasks, routes, cur, listed, sweeping, elapsed, histVars, refused>>

\* One leftover: its job, then its remote.  The code goes by name; any order is allowed here.
\* The first failure ends the sweep.
SweepJob ==
  /\ pc = "sweep"
  /\ sweeping' \in todo
  /\ \/ sweeping' \in listed.jobs /\ JobDeleted(sweeping') /\ pc' = "sweep_remote"
     \/ sweeping' \in listed.jobs /\ JobDeletionRaises(sweeping') /\ pc' = "own_job"
     \/ sweeping' \notin listed.jobs /\ UNCHANGED bounds /\ NoChange /\ pc' = "sweep_remote"
  /\ UNCHANGED <<tasks, routes, cur, listed, todo, elapsed, histVars>>

SweepRemote ==
  /\ pc = "sweep_remote"
  /\ \/ sweeping \in listed.remotes /\ RemoteDeleted(sweeping) /\ pc' = "sweep"
     \/ sweeping \in listed.remotes /\ RemoteDeletionRaises(sweeping) /\ pc' = "own_job"
     \/ sweeping \notin listed.remotes /\ UNCHANGED bounds /\ NoChange /\ pc' = "sweep"
  /\ todo' = IF pc' = "sweep" THEN todo \ {sweeping} ELSE todo
  /\ UNCHANGED <<tasks, routes, cur, listed, sweeping, elapsed, histVars>>

SweepDone ==
  /\ pc = "sweep" /\ todo = {}
  /\ pc' = "own_job"
  /\ UNCHANGED <<jobs, remotes, tasks, routes, cur, sweepVars, elapsed, histVars, refused, bounds>>

\* The sweep's locals go out of scope.
SweepForgotten == listed' = [jobs |-> {}, remotes |-> {}] /\ todo' = {} /\ sweeping' = cur

\* An exception before the try block of the sync ends the run, and nothing is cleaned up.
DeleteOwnJob ==
  /\ pc = "own_job"
  /\ \/ JobDeleted(cur) /\ pc' = "remote"
     \/ JobDeletionRaises(cur) /\ pc' = "idle"
  /\ SweepForgotten
  /\ UNCHANGED <<tasks, routes, cur, elapsed, histVars>>

\* _replace(): delete what is there, then create; it may stop in between.
EnsureRemote ==
  /\ pc = "remote"
  /\ \/ /\ ~Referenced(cur) /\ Answered
        /\ remotes' = remotes \cup {cur} /\ pc' = "job" /\ UNCHANGED refused
     \/ /\ ~Referenced(cur) /\ AnswerLost
        /\ remotes' \in {remotes \ {cur}, remotes \cup {cur}}
        /\ pc' = "idle" /\ UNCHANGED refused
     \/ Unheard /\ pc' = "idle" /\ UNCHANGED <<remotes, refused>>
     \/ /\ Referenced(cur) /\ Answered
        /\ refused' = TRUE /\ pc' = "idle" /\ UNCHANGED remotes
  /\ UNCHANGED <<jobs, tasks, routes, cur, sweepVars, elapsed, histVars>>

EnsureSyncJob ==
  /\ pc = "job"
  /\ \/ Answered /\ jobs' = jobs \cup {cur} /\ pc' = "start"
     \/ AnswerLost /\ jobs' \in {jobs \ {cur}, jobs \cup {cur}} /\ pc' = "idle"
     \/ Unheard /\ pc' = "idle" /\ UNCHANGED jobs
  /\ UNCHANGED <<remotes, tasks, routes, cur, sweepVars, elapsed, histVars, refused>>

-----------------------------------------------------------------------------
\* The sync itself, under try ... finally _drop_sync_config.
RunSyncJob ==
  /\ pc = "start"
  /\ started' = started \cup {cur}
  /\ elapsed' = 0
  /\ \/ Answered /\ tasks' = tasks \cup {cur} /\ pc' = "wait"
     \/ AnswerLost /\ tasks' = tasks \cup {cur} /\ pc' = "clean_job"
     \/ Unheard /\ UNCHANGED tasks /\ pc' = "clean_job"
     \/ cur \in tasks /\ Answered /\ UNCHANGED tasks /\ pc' = "clean_job"   \* it runs already
  /\ UNCHANGED <<jobs, remotes, routes, cur, sweepVars, told, abandoned, refused>>

\* The wait ends with the task, or before it: cancelled, silent for too long, out of reach
\* (TaskPoll).
WaitEnds ==
  /\ pc = "wait"
  /\ pc' = "clean_job"
  /\ UNCHANGED <<jobs, remotes, tasks, routes, cur, sweepVars, elapsed, histVars, refused, bounds>>

\* Mutant: one attempt, and nothing said.
OneSilentAttempt == pc' = "idle" /\ UNCHANGED <<elapsed, told>>
\* Mutant: the attempts never come to an end.
RetryForEver == pc' = "clean_job" /\ UNCHANGED <<elapsed, told>>
\* After a failed attempt: give up past the deadline, with a warning, or pause and try again.
RetryOrGiveUp ==
  \E d \in 1 .. MaxAttempt :
    \/ /\ elapsed + d >= Deadline
       /\ pc' = "idle" /\ told' = told \cup {cur} /\ elapsed' = Deadline
    \/ /\ elapsed + d < Deadline
       /\ pc' = "clean_job" /\ elapsed' = elapsed + d /\ UNCHANGED told

\* Mutant: the remote goes first.
RemoteFirst ==
  /\ pc = "clean_job"
  /\ \/ RemoteDeleted(cur) /\ pc' = "clean_remote" /\ UNCHANGED <<elapsed, told>>
     \/ RemoteDeletionRaises(cur) /\ RetryOrGiveUp
  /\ UNCHANGED <<tasks, routes, cur, sweepVars, started, abandoned>>
CleanJob ==
  /\ pc = "clean_job"
  /\ \/ JobDeleted(cur) /\ pc' = "clean_remote" /\ UNCHANGED <<elapsed, told>>
     \/ JobDeletionRaises(cur) /\ RetryOrGiveUp
  /\ UNCHANGED <<tasks, routes, cur, sweepVars, started, abandoned>>

CleanRemote ==
  /\ pc = "clean_remote"
  /\ \/ RemoteDeleted(cur) /\ pc' = "idle" /\ UNCHANGED <<elapsed, told>>
     \/ RemoteDeletionRaises(cur) /\ RetryOrGiveUp
  /\ UNCHANGED <<tasks, routes, cur, sweepVars, started, abandoned>>

RunStep ==
  \/ ListConfig \/ ReadTasks \/ SweepJob \/ SweepRemote \/ SweepDone
  \/ DeleteOwnJob \/ EnsureRemote \/ EnsureSyncJob \/ RunSyncJob \/ WaitEnds
  \/ CleanJob \/ CleanRemote

-----------------------------------------------------------------------------
\* The world around the run.
TaskEnds ==
  /\ \E r \in tasks : tasks' = tasks \ {r}
  /\ UNCHANGED <<jobs, remotes, routes, pc, cur, sweepVars, elapsed, histVars, refused, bounds>>

\* delete_route(): no guard; a run in flight keeps the snapshot it started with.
DeleteRoute ==
  /\ \E r \in routes : routes' = routes \ {r}
  /\ UNCHANGED <<jobs, remotes, tasks, pc, cur, sweepVars, elapsed, histVars, refused, bounds>>

Restart ==
  /\ pc # "idle" /\ restarts < MaxRestarts
  /\ restarts' = restarts + 1
  /\ pc' = "idle" /\ abandoned' = abandoned \cup {cur}
  /\ SweepForgotten
  /\ UNCHANGED <<jobs, remotes, tasks, routes, cur, elapsed, told, started, refused, gone, faults>>

BoxGoesAway ==
  /\ ~gone /\ gone' = TRUE
  /\ UNCHANGED <<jobs, remotes, tasks, routes, pc, cur, sweepVars, elapsed, histVars, refused,
                 faults, restarts>>

Next == StartRun \/ RunStep \/ TaskEnds \/ DeleteRoute \/ Restart \/ BoxGoesAway

Spec == Init /\ [][Next]_vars

\* The run's thread goes on, and its requests and its wait end.  Nobody owes a new sync.
FairSpec == Spec /\ WF_vars(RunStep)

-----------------------------------------------------------------------------
\* A route's pair, or half of it, is on the PBS although no run of the route is at work.
Left(r) == r \in jobs \cup remotes /\ ~(pc # "idle" /\ cur = r)

\* The order of the requests is one PBS accepts: no request is refused because of a remote
\* that a job still references ("the route breaks on its second run").
NothingIsRefused == ~refused

\* Once its sync was asked for, a pair is removed at the end of the run, or the timeline
\* says that it was not; only the end of the process prevents both.
CleanedOrTold == \A r \in started \ abandoned : Left(r) => r \in told

\* The same of every run: no credential is left behind without a word.  Not so: a run that
\* fails between ensure_remote and run_sync_job leaves its remote silently.
NoSilentLeftover == \A r \in remotes \cap Routes : Left(r) => r \in told \cup abandoned

\* The sweep takes nothing from a task that is still running, and whatever happens the user's
\* own jobs and remotes are never touched.
OthersAreSpared ==
  [][/\ (pc \in {"sweep", "sweep_remote"}) =>
          ((jobs \ jobs') \cup (remotes \ remotes')) \cap tasks = {}
     /\ Foreign \subseteq jobs' \cap remotes']_vars

\* What a run or a deleted route leaves behind is collected, if syncs go on being run on this
\* PBS, it stays in reach and no running task names it.
LeftoversAreCollected ==
  ([]<>(pc = "list") /\ []~gone) =>
    \A r \in Routes : Left(r) ~> (r \notin jobs \cup remotes \/ r \in Busy \/ cur = r)

\* Every run is done with its pair at some time, whatever requests fail.
RunEnds == pc # "idle" ~> pc = "idle"
=============================================================================
