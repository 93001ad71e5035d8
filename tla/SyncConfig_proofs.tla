--------------------------- MODULE SyncConfig_proofs ---------------------------
(***************************************************************************)
(* The safety properties of SyncConfig for any routes and any names of the  *)
(* user's own, any number of failed requests and restarts.                  *)
(***************************************************************************)
EXTENDS SyncConfig, TLAPS

-----------------------------------------------------------------------------
(***************************************************************************)
(* What the places of a run know.                                           *)
(***************************************************************************)
SweepPlaces == {"busy", "sweep", "sweep_remote"}
BeforeSync == {"list", "own_job", "remote", "job", "start"} \union SweepPlaces

\* The order of the requests: a remote is only deleted or replaced once its job is gone.  The
\* sweep trusts its listing, which no step outdates meanwhile.
OrderInv ==
  /\ ~refused
  /\ pc \in SweepPlaces => jobs \cap Routes \subseteq listed.jobs
  /\ pc = "sweep_remote" => sweeping \notin jobs
  /\ pc \in {"remote", "clean_remote"} => cur \notin jobs

\* What the sweep may take: leftovers of Joulenap's that no task names.
SparedInv ==
  /\ Foreign \subseteq jobs \cap remotes
  /\ pc \in {"sweep", "sweep_remote"} => todo \cap tasks = {}
  /\ pc = "sweep_remote" => sweeping \notin tasks

\* A run that has not asked for its sync yet does not count as started.
ToldInv ==
  /\ CleanedOrTold
  /\ pc \in BeforeSync => cur \notin started

PairInv == TypeOK /\ OrderInv /\ SparedInv /\ ToldInv

\* A listing names what is there; a forgotten one names nothing.
Listing == [jobs : SUBSET Names, remotes : SUBSET Names]

LEMMA Listed ==
  ASSUME NEW j \in SUBSET Names, NEW r \in SUBSET Names
  PROVE  [jobs |-> j, remotes |-> r] \in Listing
BY DEF Listing

LEMMA NothingListed == [jobs |-> {}, remotes |-> {}] \in Listing
BY Listed

LEMMA RoutesAreNames == Routes \subseteq Names
BY DEF Names

LEMMA PairInit == Init => PairInv
<1> SUFFICES ASSUME Init PROVE PairInv
  OBVIOUS
<1> USE SyncAssumption DEF Init
<1>1. TypeOK
  <2>1. Foreign \subseteq Names /\ pc \in Places
    BY DEF Names, Places
  <2>2. elapsed \in 0 .. Deadline /\ faults \in 0 .. MaxFaults /\ restarts \in 0 .. MaxRestarts
    OBVIOUS
  <2> QED BY <2>1, <2>2, NothingListed DEF TypeOK, Listing
<1>2. OrderInv
  BY DEF OrderInv, SweepPlaces
<1>3. SparedInv
  BY DEF SparedInv
<1>4. ToldInv
  BY DEF ToldInv, CleanedOrTold
<1> QED BY <1>1, <1>2, <1>3, <1>4 DEF PairInv

-----------------------------------------------------------------------------
\* Besides the run, only the tasks, the routes, the reach of the PBS and the counters change.
LEMMA WorldStep ==
  ASSUME PairInv, TaskEnds \/ DeleteRoute \/ BoxGoesAway \/ UNCHANGED vars
  PROVE  PairInv'
<1>1. /\ tasks' \subseteq tasks /\ routes' \subseteq routes /\ gone' \in BOOLEAN
      /\ UNCHANGED <<jobs, remotes, pc, cur, listed, todo, sweeping, elapsed, told, started,
                     abandoned, refused, faults, restarts>>
  BY DEF TaskEnds, DeleteRoute, BoxGoesAway, vars, sweepVars, histVars, bounds, PairInv, TypeOK
<1>2. TypeOK'
  BY <1>1 DEF PairInv, TypeOK
<1>3. OrderInv'
  BY <1>1 DEF PairInv, OrderInv
<1>4. SparedInv'
  BY <1>1 DEF PairInv, SparedInv
<1>5. ToldInv'
  BY <1>1 DEF PairInv, ToldInv, CleanedOrTold, Left
<1> QED BY <1>2, <1>3, <1>4, <1>5 DEF PairInv

LEMMA StartStep ==
  ASSUME PairInv, StartRun \/ Restart
  PROVE  PairInv'
<1> USE SyncAssumption DEF PairInv, sweepVars, histVars, bounds, BeforeSync, SweepPlaces
<1>1. CASE StartRun
  <2>1. TypeOK'
    BY <1>1 DEF StartRun, TypeOK, Places
  <2>2. OrderInv' /\ SparedInv'
    BY <1>1 DEF StartRun, OrderInv, SparedInv
  <2>3. ToldInv'
    BY <1>1 DEF StartRun, ToldInv, CleanedOrTold, Left
  <2> QED BY <2>1, <2>2, <2>3
<1>2. CASE Restart
  <2>1. TypeOK'
    BY <1>2, NothingListed DEF Restart, TypeOK, Listing, Places, SweepForgotten
  <2>2. OrderInv' /\ SparedInv'
    BY <1>2 DEF Restart, OrderInv, SparedInv
  <2>3. ToldInv'
    BY <1>2 DEF Restart, ToldInv, CleanedOrTold, Left
  <2> QED BY <2>1, <2>2, <2>3
<1> QED BY <1>1, <1>2

\* The sweep: the listing, the tasks, then one leftover after the other.
LEMMA SweepStep ==
  ASSUME PairInv, ListConfig \/ ReadTasks \/ SweepJob \/ SweepRemote \/ SweepDone
  PROVE  PairInv'
<1> USE SyncAssumption DEF PairInv, sweepVars, histVars, bounds, BeforeSync, SweepPlaces
<1> USE DEF Answered, Unheard, AnswerLost, Fault, NoChange, JobGone, JobDeleted, JobDeletionRaises,
            RemoteGone, RemoteRefused, RemoteDeleted, RemoteDeletionRaises, Referenced
<1>1. CASE ListConfig
  <2>1. TypeOK'
    <3>1. listed' \in Listing
      BY <1>1, Listed DEF ListConfig, TypeOK, Listing
    <3> QED BY <1>1, <3>1 DEF ListConfig, TypeOK, Listing, Places
  <2>2. OrderInv' /\ SparedInv'
    BY <1>1 DEF ListConfig, OrderInv, SparedInv, Stale
  <2>3. ToldInv'
    BY <1>1 DEF ListConfig, ToldInv, CleanedOrTold, Left
  <2> QED BY <2>1, <2>2, <2>3
<1>2. CASE ReadTasks
  <2>1. TypeOK'
    BY <1>2 DEF ReadTasks, TypeOK, Places, Stale
  <2>2. OrderInv' /\ SparedInv'
    BY <1>2 DEF ReadTasks, OrderInv, SparedInv, Stale, Busy
  <2>3. ToldInv'
    BY <1>2 DEF ReadTasks, ToldInv, CleanedOrTold, Left
  <2> QED BY <2>1, <2>2, <2>3
<1>3. CASE SweepJob
  <2>0. sweeping' \in Routes
    BY <1>3 DEF SweepJob, TypeOK
  <2>1. TypeOK'
    BY <1>3, <2>0, RoutesAreNames DEF SweepJob, TypeOK, Places
  <2>2. OrderInv'
    BY <1>3, <2>0 DEF SweepJob, OrderInv
  <2>3. SparedInv'
    BY <1>3, <2>0 DEF SweepJob, SparedInv
  <2>4. ToldInv'
    BY <1>3 DEF SweepJob, ToldInv, CleanedOrTold, Left
  <2> QED BY <2>1, <2>2, <2>3, <2>4
<1>4. CASE SweepRemote
  <2>0. refused' = refused
    BY <1>4 DEF SweepRemote, OrderInv
  <2>1. TypeOK'
    BY <1>4, <2>0 DEF SweepRemote, TypeOK, Places
  <2>2. OrderInv'
    BY <1>4 DEF SweepRemote, OrderInv, TypeOK
  <2>3. SparedInv'
    BY <1>4 DEF SweepRemote, SparedInv, TypeOK
  <2>4. ToldInv'
    BY <1>4 DEF SweepRemote, ToldInv, CleanedOrTold, Left
  <2> QED BY <2>1, <2>2, <2>3, <2>4
<1>5. CASE SweepDone
  BY <1>5 DEF SweepDone, TypeOK, Places, OrderInv, SparedInv, ToldInv, CleanedOrTold, Left
<1> QED BY <1>1, <1>2, <1>3, <1>4, <1>5

\* The pair of the run's own, up to the sync.
LEMMA OwnPairStep ==
  ASSUME PairInv, DeleteOwnJob \/ EnsureRemote \/ EnsureSyncJob \/ RunSyncJob \/ WaitEnds
  PROVE  PairInv'
<1> USE SyncAssumption DEF PairInv, sweepVars, histVars, bounds, BeforeSync, SweepPlaces
<1> USE DEF Answered, Unheard, AnswerLost, Fault, NoChange, JobGone, JobDeleted, JobDeletionRaises,
            Referenced
<1>1. CASE DeleteOwnJob
  <2>1. TypeOK'
    BY <1>1, NothingListed DEF DeleteOwnJob, TypeOK, Listing, Places, SweepForgotten
  <2>2. OrderInv' /\ SparedInv'
    BY <1>1 DEF DeleteOwnJob, OrderInv, SparedInv, TypeOK
  <2>3. ToldInv'
    BY <1>1 DEF DeleteOwnJob, ToldInv, CleanedOrTold, Left
  <2> QED BY <2>1, <2>2, <2>3
<1>2. CASE EnsureRemote
  <2>0. refused' = refused
    BY <1>2 DEF EnsureRemote, OrderInv
  <2>1. TypeOK'
    BY <1>2, RoutesAreNames, <2>0 DEF EnsureRemote, TypeOK, Places
  <2>2. OrderInv' /\ SparedInv'
    BY <1>2 DEF EnsureRemote, OrderInv, SparedInv, TypeOK
  <2>3. ToldInv'
    BY <1>2 DEF EnsureRemote, ToldInv, CleanedOrTold, Left
  <2> QED BY <2>1, <2>2, <2>3
<1>3. CASE EnsureSyncJob
  <2>1. TypeOK'
    BY <1>3, RoutesAreNames DEF EnsureSyncJob, TypeOK, Places
  <2>2. OrderInv' /\ SparedInv'
    BY <1>3 DEF EnsureSyncJob, OrderInv, SparedInv, TypeOK
  <2>3. ToldInv'
    BY <1>3 DEF EnsureSyncJob, ToldInv, CleanedOrTold, Left
  <2> QED BY <2>1, <2>2, <2>3
<1>4. CASE RunSyncJob
  <2>1. TypeOK'
    BY <1>4 DEF RunSyncJob, TypeOK, Places
  <2>2. OrderInv' /\ SparedInv'
    BY <1>4 DEF RunSyncJob, OrderInv, SparedInv
  <2>3. ToldInv'
    BY <1>4 DEF RunSyncJob, ToldInv, CleanedOrTold, Left
  <2> QED BY <2>1, <2>2, <2>3
<1>5. CASE WaitEnds
  BY <1>5 DEF WaitEnds, TypeOK, Places, OrderInv, SparedInv, ToldInv, CleanedOrTold, Left
<1> QED BY <1>1, <1>2, <1>3, <1>4, <1>5

\* The cleanup: it ends with the pair gone, or with a word.
LEMMA CleanStep ==
  ASSUME PairInv, CleanJob \/ CleanRemote
  PROVE  PairInv'
<1> USE SyncAssumption DEF PairInv, sweepVars, histVars, bounds, BeforeSync, SweepPlaces
<1> USE DEF Answered, Unheard, AnswerLost, Fault, NoChange, JobGone, JobDeleted, JobDeletionRaises,
            RemoteGone, RemoteRefused, RemoteDeleted, RemoteDeletionRaises, Referenced
<1>0. ASSUME RetryOrGiveUp
      PROVE  \/ pc' = "idle" /\ told' = told \cup {cur} /\ elapsed' \in 0 .. Deadline
             \/ pc' = "clean_job" /\ told' = told /\ elapsed' \in 0 .. Deadline
  BY <1>0 DEF RetryOrGiveUp, TypeOK
<1>1. CASE CleanJob
  <2>1. TypeOK'
    BY <1>0, <1>1 DEF CleanJob, TypeOK, Places
  <2>2. OrderInv' /\ SparedInv'
    BY <1>0, <1>1 DEF CleanJob, OrderInv, SparedInv, TypeOK
  <2>3. ToldInv'
    BY <1>0, <1>1 DEF CleanJob, ToldInv, CleanedOrTold, Left
  <2> QED BY <2>1, <2>2, <2>3
<1>2. CASE CleanRemote
  <2>0. refused' = refused
    BY <1>2 DEF CleanRemote, OrderInv
  <2>1. TypeOK'
    BY <1>0, <1>2, <2>0 DEF CleanRemote, TypeOK, Places
  <2>2. OrderInv' /\ SparedInv'
    BY <1>0, <1>2 DEF CleanRemote, OrderInv, SparedInv, TypeOK
  <2>3. ToldInv'
    BY <1>0, <1>2 DEF CleanRemote, ToldInv, CleanedOrTold, Left, OrderInv
  <2> QED BY <2>1, <2>2, <2>3
<1> QED BY <1>1, <1>2

LEMMA PairNext == PairInv /\ [Next]_vars => PairInv'
BY WorldStep, StartStep, SweepStep, OwnPairStep, CleanStep DEF Next, RunStep

LEMMA PairInvariant == Spec => []PairInv
BY PairInit, PairNext, PTL DEF Spec

-----------------------------------------------------------------------------
\* Every variable keeps its type.
THEOREM SyncTypeCorrect == Spec => []TypeOK
<1>1. PairInv => TypeOK
  BY DEF PairInv
<1> QED BY <1>1, PairInvariant, PTL

\* The PBS never refuses a request of a run, whichever fail before (pbs.py, _replace and
\* delete_remote after delete_sync_job).
THEOREM NoRequestIsRefused == Spec => []NothingIsRefused
<1>1. PairInv => NothingIsRefused
  BY DEF PairInv, OrderInv, NothingIsRefused
<1> QED BY <1>1, PairInvariant, PTL

\* A pair whose sync was asked for is removed, or the timeline says that it was not
\* (_drop_sync_config).
THEOREM PairsAreAccountedFor == Spec => []CleanedOrTold
<1>1. PairInv => CleanedOrTold
  BY DEF PairInv, ToldInv
<1> QED BY <1>1, PairInvariant, PTL

\* The sweep takes nothing from a running task, and nobody takes what is the user's
\* (_sweep_sync_config).
THEOREM SweepSparesOthers == Spec => OthersAreSpared
<1> DEFINE Spared == /\ pc \in {"sweep", "sweep_remote"} =>
                           ((jobs \ jobs') \cup (remotes \ remotes')) \cap tasks = {}
                     /\ Foreign \subseteq jobs' \cap remotes'
<1>1. ASSUME PairInv, PairInv', [Next]_vars
      PROVE  Spared
  <2>1. Foreign \subseteq jobs' \cap remotes'
    BY <1>1 DEF PairInv, SparedInv
  <2>2. ASSUME pc \in {"sweep", "sweep_remote"}
        PROVE  ((jobs \ jobs') \cup (remotes \ remotes')) \cap tasks = {}
    <3>1. CASE UNCHANGED <<jobs, remotes>>
      BY <3>1
    <3>2. CASE SweepJob
      <4>1. jobs' \in {jobs, jobs \ {sweeping'}} /\ remotes' = remotes /\ sweeping' \in todo
        BY <3>2 DEF SweepJob, JobDeleted, JobDeletionRaises, JobGone, NoChange
      <4> QED BY <1>1, <2>2, <4>1 DEF PairInv, SparedInv
    <3>3. CASE SweepRemote
      <4>1. remotes' \in {remotes, remotes \ {sweeping}} /\ jobs' = jobs /\ pc = "sweep_remote"
        BY <3>3 DEF SweepRemote, RemoteDeleted, RemoteDeletionRaises, RemoteGone, RemoteRefused,
                    NoChange
      <4> QED BY <1>1, <4>1 DEF PairInv, SparedInv
    <3> QED
      BY <1>1, <2>2, <3>1, <3>2, <3>3
      DEF Next, RunStep, StartRun, ListConfig, ReadTasks, SweepDone, DeleteOwnJob, EnsureRemote,
          EnsureSyncJob, RunSyncJob, WaitEnds, CleanJob, CleanRemote, TaskEnds, DeleteRoute,
          Restart, BoxGoesAway, vars
  <2> QED BY <2>1, <2>2
<1> QED BY <1>1, PairInvariant, PTL DEF Spec, OthersAreSpared
=============================================================================
