--------------------------- MODULE JobRuns_proofs ---------------------------
(***************************************************************************)
(* What JobService promises of each run: how it ends and what is told of    *)
(* it, that its stop is honoured, that its machines are given back and left *)
(* on or powered off as the queue says, and its place in line: the          *)
(* refinement of RunBroker.                                                 *)
(***************************************************************************)
EXTENDS JobService_proofs

-----------------------------------------------------------------------------
(***************************************************************************)
(* How a run ends: its row, and what is told of it.                        *)
(***************************************************************************)
\* Places of a run that is not closed yet, and of one that is being given back.
Working == {"set_id", "acquire", "acquiring", "unreachable", "check", "job", "job_failed"}
Closing == {"policy", "release", "releasing"}

\* Besides these steps none touches a row, the status, the recorder or what was sent out; they
\* lead from a place to one of its kind, but for a failed commit during the release.
LEMMA EndFrame ==
  ASSUME TypeInv, [Next]_vars
  PROVE  \/ InsertRow \/ AcquireFailed \/ CheckCancel \/ JobEnd \/ JobFailed \/ Unwind \/ Released
         \/ Restart
         \/ \E u \in Stoppers : StopSweep(u)
         \/ /\ UNCHANGED <<rows, status, recording, notified>>
            /\ pc' \in Working => pc \in Working
            /\ pc' \in Closing => pc \in Closing
            /\ pc' \in {"unwind", "retry"} => pc' = pc \/ (pc \in Closing /\ recording /\ Fault)
            /\ pc' # "job_failed"  \/ pc' = pc
<1> USE DEF Working, Closing, GoTo, runVars, dbVars, histVars
<1> DEFINE Quiet ==
      /\ UNCHANGED <<rows, status, recording, notified>>
      /\ pc' \in Working => pc \in Working
      /\ pc' \in Closing => pc \in Closing
      /\ pc' \in {"unwind", "retry"} => pc' = pc \/ (pc \in Closing /\ recording /\ Fault)
      /\ pc' # "job_failed"  \/ pc' = pc
<1>1. ASSUME Drain \/ Resolve \/ TakeLock \/ ClearCancel \/ ClearPowerOff \/ Unlock \/ Cleanup
      PROVE  Quiet
  BY <1>1 DEF Drain, Resolve, TakeLock, ClearCancel, ClearPowerOff, Unlock, Cleanup
<1>2. ASSUME SetRunId \/ AcquireNext \/ AcquireDone
      PROVE  Quiet
  BY <1>2 DEF SetRunId, AcquireNext, AcquireDone
<1>3. ASSUME DecidePolicy \/ ReleaseNext \/ ReleaseDone
      PROVE  Quiet
  BY <1>3 DEF DecidePolicy, ReleaseNext, ReleaseDone
<1>4. ASSUME \/ LeaseStep \/ Machines \/ UNCHANGED vars
             \/ \E u \in Stoppers :
                  \/ \E i \in DOMAIN rows, b \in BOOLEAN : StopCheck(u, i, b)
                  \/ StopPowerOff(u) \/ StopSet(u)
      PROVE  Quiet
  BY <1>4 DEF LeaseStep, StopCheck, StopPowerOff, StopSet, StopVars, Machines, vars
<1>5. ASSUME \/ \E k \in Keys, b \in BOOLEAN : Enqueue(k, b)
             \/ \E i \in DOMAIN queue : Dequeue(i)
      PROVE  Quiet
  <2>1. /\ UNCHANGED <<rows, status, recording, notified>>
        /\ pc' # pc => pc' = "drain"
    BY <1>5 DEF Enqueue, EnsureWorker, Dequeue
  <2> QED BY <2>1
<1>6. ASSUME \/ \E u \in Clickers, d \in Devices : Click(u, d)
             \/ \E u \in Clickers : PowerOffNow(u)
             \/ \E d \in Devices : Wake(d)
             \/ \E r \in Routes, n \in Needs : EditRoute(r, n)
             \/ \E d \in Devices : EditDevice(d)
      PROVE  Quiet
  <2>1. UNCHANGED <<rows, status, recording, notified, pc>>
    BY <1>6 DEF Click, PowerOffNow, Wake, EditRoute, EditDevice
  <2> QED BY <2>1
<1> QED BY <1>1, <1>2, <1>3, <1>4, <1>5, <1>6 DEF Next, WorkerStep, UserStep, StopStep

\* The steps that close the row of a run that is not closed: with its status, or with a failed
\* commit and the place for that.
LEMMA ClosingSteps ==
  ASSUME TypeInv, AcquireFailed \/ CheckCancel \/ JobEnd \/ JobFailed
  PROVE  /\ UNCHANGED <<recording, notified, cancelled, hits, stop, cancelPowerOff>>
         /\ pc \in Working /\ pc # "set_id"
         /\ \/ /\ \E s \in RunStatus \ {"running"} :
                    /\ SetRow(RunId, s) /\ status' = s
                    /\ s = "cancelled" => cancelled
               /\ pc' = "policy"
            \/ Fault /\ pc' \in {"unwind", "job_failed"} /\ UNCHANGED <<rows, status>>
            \/ pc' = "job" /\ UNCHANGED <<rows, status>>
<1> USE DEF Working, GoTo, runVars, histVars, lockVars, userVars, RunStatus
<1>1. CASE AcquireFailed
  BY <1>1 DEF AcquireFailed, FinishRun
<1>2. CASE CheckCancel
  BY <1>2 DEF CheckCancel, FinishRun
<1>3. CASE JobEnd
  BY <1>3 DEF JobEnd, FinishRun
<1>4. CASE JobFailed
  BY <1>4 DEF JobFailed, FinishRun
<1> QED BY <1>1, <1>2, <1>3, <1>4

\* Where no stop request sweeps rows, the row of a run that is not closed says RUNNING, as its
\* worker believes; a recorded run is closed before its machines are given back.
StatusInv ==
  /\ pc \in Working => status = "running" /\ rows[RunId] = "running"
  /\ pc \in {"unwind", "retry"} /\ status = "running" => rows[RunId] = "running"
  /\ pc \in Closing /\ recording => status # "running"

\* Every step keeps it.
LEMMA StatusNext ==
  ASSUME Stoppers = {}, TypeInv, StatusInv, [Next]_vars
  PROVE  /\ StatusInv'
         /\ \A i \in DOMAIN rows : rows[i] # "running" => rows'[i] = rows[i]
<1> DEFINE Goal == /\ StatusInv'
                   /\ \A i \in DOMAIN rows : rows[i] # "running" => rows'[i] = rows[i]
<1> USE DEF StatusInv
<1>0. /\ rows \in Seq(RunStatus) /\ RunId \in Nat /\ DOMAIN rows = 1 .. RunId
      /\ (HasRow => rows # <<>>) /\ (recording => HasRow)
  BY DEF TypeInv, TypeOK, DbTypeOK, RunId, WorkerInv, RowIsThere
<1>1. CASE InsertRow
  <2>1. CASE /\ rows' = Append(rows, "running") /\ status' = "running" /\ pc' = "set_id"
    <3>1. /\ RunId' = RunId + 1 /\ rows'[RunId + 1] = "running"
          /\ \A i \in 1 .. RunId : rows'[i] = rows[i]
      BY <1>0, <2>1 DEF RunId, RunStatus
    <3> QED BY <1>0, <2>1, <3>1 DEF Working, Closing
  <2>2. CASE UNCHANGED rows /\ pc' = "cleanup"
    BY <2>2 DEF Working, Closing
  <2> QED BY <1>1, <2>1, <2>2 DEF InsertRow, GoTo
<1>2. CASE AcquireFailed \/ CheckCancel \/ JobEnd \/ JobFailed
  <2>1. rows[RunId] = "running" /\ status = "running" /\ pc \in Working /\ recording' = recording
    BY <1>2, ClosingSteps
  <2>2. ASSUME NEW s \in RunStatus \ {"running"}, SetRow(RunId, s), status' = s, pc' = "policy"
        PROVE  Goal
    <3>1. \A i \in DOMAIN rows : i # RunId => rows'[i] = rows[i]
      BY <1>0, <2>2 DEF SetRow
    <3> QED BY <2>1, <2>2, <3>1 DEF Working, Closing
  <2>3. CASE UNCHANGED <<rows, status>> /\ pc' \in {"unwind", "job_failed", "job"}
    BY <2>1, <2>3 DEF Working, Closing, RunId
  <2> QED BY <1>2, <2>2, <2>3, ClosingSteps
<1>3. CASE Unwind
  <2>1. CASE SetRow(RunId, "failure") /\ Unfinished /\ pc' = "policy"
    <3>1. \A i \in DOMAIN rows : i # RunId => rows'[i] = rows[i]
      BY <1>0, <2>1 DEF SetRow
    <3> QED BY <1>3, <2>1, <3>1 DEF Unwind, Working, Closing, Unfinished
  <2>2. CASE UNCHANGED <<rows, status>> /\ pc' \in {"policy", "retry"} /\ recording' = FALSE
    BY <1>3, <2>2 DEF Unwind, Working, Closing, RunId
  <2> QED BY <1>3, <2>1, <2>2 DEF Unwind, GoTo, AfterFailedFinish
<1>4. CASE Released
  BY <1>4 DEF Released, GoTo, Working, Closing, dbVars
<1>5. CASE Restart
  BY <1>0, <1>5 DEF Restart, Working, Closing
<1>6. CASE /\ UNCHANGED <<rows, status, recording, notified>>
           /\ pc' \in Working => pc \in Working
           /\ pc' \in Closing => pc \in Closing
           /\ pc' \in {"unwind", "retry"} => pc' = pc \/ (pc \in Closing /\ recording /\ Fault)
  BY <1>6 DEF RunId
<1> QED BY <1>1, <1>2, <1>3, <1>4, <1>5, <1>6, EndFrame

\* A row that has its final status keeps it: the finish, the recorder's exit and the sweep of a
\* start touch rows that say RUNNING only.  The sweep of a refused stop is another matter, so it
\* is so of a service nobody stops (finish, __exit__, sweep_orphaned_runs).
THEOREM FinalStatusStays ==
  ASSUME Stoppers = {} PROVE Spec => FinalRowsStay
<1> DEFINE Stays == \A i \in DOMAIN rows : rows[i] # "running" => rows'[i] = rows[i]
<1>1. Init => StatusInv
  BY DEF Init, StatusInv, Working, Closing
<1>2. TypeInv /\ StatusInv /\ [Next]_vars => StatusInv'
  BY StatusNext
<1>3. TypeInv /\ StatusInv /\ [Next]_vars => [Stays]_vars
  BY StatusNext
<1> QED BY <1>1, <1>2, <1>3, TypeInvariant, PTL DEF Spec, FinalRowsStay

-----------------------------------------------------------------------------
\* Without failed commits a run is recorded until it is told of, the record says how it ended
\* while it is given back, and every earlier end is the user's own or was sent out.
EndInv ==
  /\ pc \notin {"unwind", "retry", "job_failed"}
  /\ pc \in Working \union Closing => recording
  /\ pc \in Closing => rows[RunId] = status
  /\ pc \in Closing => status # "running"
  /\ \A i \in DOMAIN rows : rows[i] # "cancelled" => i \in notified \/ (i = RunId /\ recording)

\* Every step keeps it.
LEMMA EndNext ==
  ASSUME MaxFaults = 0, "restart" \notin UserActs, TypeInv, EndInv, [Next]_vars
  PROVE  EndInv'
<1> USE DEF EndInv
<1>0. /\ rows \in Seq(RunStatus) /\ RunId \in Nat /\ DOMAIN rows = 1 .. RunId
      /\ (HasRow => rows # <<>>) /\ (recording => HasRow) /\ ~Fault
  BY DEF TypeInv, TypeOK, DbTypeOK, RunId, WorkerInv, RowIsThere, Fault
<1>1. CASE InsertRow
  <2>1. ~recording /\ rows' = Append(rows, "running") /\ recording' /\ pc' = "set_id"
        /\ notified' = notified
    BY <1>0, <1>1 DEF InsertRow, HasRow, GoTo, histVars
  <2>2. /\ DOMAIN rows' = 1 .. RunId + 1 /\ RunId' = RunId + 1
        /\ \A i \in 1 .. RunId : rows'[i] = rows[i]
    BY <1>0, <2>1 DEF RunId, RunStatus
  <2>3. \A i \in DOMAIN rows' : rows'[i] # "cancelled" => i \in notified \/ i = RunId + 1
    BY <1>0, <2>1, <2>2
  <2> QED BY <2>1, <2>2, <2>3 DEF Working, Closing
<1>2. CASE AcquireFailed \/ CheckCancel \/ JobEnd \/ JobFailed
  <2>1. recording /\ pc \in Working /\ UNCHANGED <<recording, notified>>
    BY <1>2, ClosingSteps
  <2>2. ASSUME NEW s \in RunStatus \ {"running"}, SetRow(RunId, s), status' = s, pc' = "policy"
        PROVE  EndInv'
    <3>1. DOMAIN rows' = DOMAIN rows /\ RunId' = RunId
      BY <1>0, <2>2 DEF SetRow, RunId
    <3>2. \A i \in DOMAIN rows : i # RunId => rows'[i] = rows[i]
      BY <1>0, <2>2 DEF SetRow
    <3>3. rows'[RunId] = s
      BY <1>0, <2>1, <2>2 DEF SetRow, HasRow
    <3> QED BY <2>1, <2>2, <3>1, <3>2, <3>3 DEF Working, Closing
  <2>3. CASE UNCHANGED <<rows, status>> /\ pc' = "job"
    BY <2>1, <2>3 DEF Working, Closing, RunId
  <2> QED BY <1>0, <1>2, <2>2, <2>3, ClosingSteps
<1>3. CASE Unwind
  BY <1>3 DEF Unwind
<1>4. CASE Released
  <2>1. /\ recording /\ rows[RunId] = status /\ pc' = "unlock" /\ ~recording' /\ UNCHANGED rows
        /\ notified' = IF status # "cancelled" THEN notified \union {RunId} ELSE notified
    BY <1>4 DEF Released, GoTo, Working, Closing, dbVars
  <2> QED BY <2>1 DEF Working, Closing, RunId
<1>5. CASE \E u \in Stoppers : StopSweep(u)
  <2>1. PICK u \in Stoppers : StopSweep(u)
    BY <1>5
  <2>2. /\ UNCHANGED <<pc, status, recording, notified>>
        /\ \/ rows' = rows
           \/ rows[stop[u].id] = "running" /\ SetRow(stop[u].id, "failure")
    BY <2>1 DEF StopSweep, StopVars, runVars
  <2>3. CASE rows[stop[u].id] = "running" /\ SetRow(stop[u].id, "failure")
    <3>1. /\ DOMAIN rows' = DOMAIN rows /\ RunId' = RunId
          /\ \A i \in DOMAIN rows :
               rows'[i] = IF i = stop[u].id THEN "failure" ELSE rows[i]
      BY <1>0, <2>3 DEF SetRow, RunId
    <3>2. pc \in Closing => RunId \in DOMAIN rows /\ RunId # stop[u].id
      BY <1>0, <2>3 DEF HasRow, Working, Closing
    <3> QED BY <2>2, <2>3, <3>1, <3>2
  <2> QED BY <2>2, <2>3 DEF RunId
<1>6. CASE Restart
  BY <1>6 DEF Restart
<1>7. CASE /\ UNCHANGED <<rows, status, recording, notified>>
           /\ pc' \in Working => pc \in Working
           /\ pc' \in Closing => pc \in Closing
           /\ pc' \in {"unwind", "retry"} => pc' = pc \/ (pc \in Closing /\ recording /\ Fault)
           /\ pc' # "job_failed"  \/ pc' = pc
  BY <1>0, <1>7 DEF RunId
<1> QED BY <1>1, <1>2, <1>3, <1>4, <1>5, <1>6, <1>7, EndFrame

\* Whatever ends a run that the user did not stop is sent out.  A failed commit at the last step
\* of a run loses its message, and so does a process that ends after a final status was written,
\* so it is so of a service without either (_execute, _release_all).
THEOREM EndsAreNotified ==
  ASSUME MaxFaults = 0, "restart" \notin UserActs PROVE Spec => []EveryEndIsNotified
<1>1. Init => EndInv
  BY DEF Init, EndInv, Working, Closing
<1>2. TypeInv /\ EndInv /\ [Next]_vars => EndInv'
  BY EndNext
<1>3. TypeInv /\ EndInv => EveryEndIsNotified
  BY DEF TypeInv, WorkerInv, RowIsThere, HasRow, EndInv, EveryEndIsNotified
<1> QED BY <1>1, <1>2, <1>3, TypeInvariant, PTL DEF Spec

-----------------------------------------------------------------------------
(***************************************************************************)
(* The toggle of the stop dialog.                                          *)
(***************************************************************************)
\* A request that reached the flag, or is about to, chose what the toggle says; or none of this
\* run's has.
Chosen(b) ==
  \/ \E h \in hits : h.powerOff = b
  \/ \E u \in Stoppers : stop[u].at = "set" /\ stop[u].powerOff = b
NoneYet ==
  /\ \A h \in hits : h.id # RunId
  /\ \A u \in Stoppers : stop[u].at = "set" => stop[u].id # RunId

\* Requests name runs that have begun, and a run ends as cancelled while the flag is up.
ChoiceInv ==
  /\ \A h \in hits : h.id \in 1 .. RunId
  /\ \A u \in Stoppers : stop[u].at # "idle" => stop[u].id \in 1 .. RunId
  /\ HasRow => Chosen(cancelPowerOff) \/ NoneYet
  /\ HasRow /\ status = "cancelled" => cancelled

\* Besides these steps none touches what a stop request is about, nor enters a run.
LEMMA ChoiceFrame ==
  ASSUME TypeInv, [Next]_vars
  PROVE  \/ ClearCancel \/ ClearPowerOff \/ InsertRow \/ Restart \/ StopStep
         \/ AcquireFailed \/ CheckCancel \/ JobEnd \/ JobFailed \/ Unwind
         \/ /\ UNCHANGED <<hits, stop, cancelled, cancelPowerOff, rows, status>>
            /\ HasRow' => HasRow
<1> USE DEF HasRow, InRun, GoTo, runVars, lockVars, userVars, histVars, dbVars
<1> DEFINE Quiet == /\ UNCHANGED <<hits, stop, cancelled, cancelPowerOff, rows, status>>
                    /\ HasRow' => HasRow
<1>1. ASSUME Drain \/ Resolve \/ TakeLock \/ SetRunId \/ Unlock \/ Cleanup
      PROVE  Quiet
  BY <1>1 DEF Drain, Resolve, TakeLock, SetRunId, Unlock, Cleanup
<1>2. ASSUME AcquireNext \/ AcquireDone \/ DecidePolicy \/ ReleaseNext \/ ReleaseDone \/ Released
      PROVE  Quiet
  BY <1>2 DEF AcquireNext, AcquireDone, DecidePolicy, ReleaseNext, ReleaseDone, Released
<1>3. ASSUME LeaseStep \/ Machines \/ UNCHANGED vars
      PROVE  Quiet
  BY <1>3 DEF LeaseStep, Machines, vars
<1>4. ASSUME \/ \E k \in Keys, b \in BOOLEAN : Enqueue(k, b)
             \/ \E i \in DOMAIN queue : Dequeue(i)
      PROVE  Quiet
  BY <1>4 DEF Enqueue, EnsureWorker, Dequeue
<1>5. ASSUME \/ \E u \in Clickers, d \in Devices : Click(u, d)
             \/ \E u \in Clickers : PowerOffNow(u)
             \/ \E d \in Devices : Wake(d)
             \/ \E r \in Routes, n \in Needs : EditRoute(r, n)
             \/ \E d \in Devices : EditDevice(d)
      PROVE  Quiet
  BY <1>5 DEF Click, PowerOffNow, Wake, EditRoute, EditDevice
<1> QED BY <1>1, <1>2, <1>3, <1>4, <1>5 DEF Next, WorkerStep, UserStep

\* A stop request's steps keep it.
LEMMA ChoiceStop ==
  ASSUME TypeInv, ChoiceInv, StopStep
  PROVE  ChoiceInv'
<1> USE DEF ChoiceInv
<1>0. /\ rows \in Seq(RunStatus) /\ RunId \in Nat /\ DOMAIN rows = 1 .. RunId
      /\ stop \in [Stoppers -> Stop] /\ \A u \in Stoppers : stop[u] \in Stop
  BY DEF TypeInv, TypeOK, DbTypeOK, UserTypeOK, RunId
<1>1. PICK u \in Stoppers :
        \/ \E i \in DOMAIN rows, b \in BOOLEAN : StopCheck(u, i, b)
        \/ StopPowerOff(u) \/ StopSet(u) \/ StopSweep(u)
  BY DEF StopStep
<1>2. UNCHANGED <<pc, status>> /\ RunId' = RunId /\ (HasRow' <=> HasRow)
  BY <1>0, <1>1 DEF StopCheck, StopPowerOff, StopSet, StopSweep, StopVars, runVars, SetRow, RunId,
                    HasRow, InRun
<1>3. ASSUME NEW i \in DOMAIN rows, NEW b \in BOOLEAN, StopCheck(u, i, b)
      PROVE  ChoiceInv'
  <2>1. UNCHANGED <<hits, cancelled, cancelPowerOff>>
    BY <1>3 DEF StopCheck
  <2>2. stop'[u].at \in {"power_off", "sweep"} /\ stop'[u].id = i /\ stop[u].at = "idle"
    BY <1>0, <1>3 DEF StopCheck
  <2>3. \A v \in Stoppers : v # u => stop'[v] = stop[v]
    BY <1>0, <1>3 DEF StopCheck
  <2>4. Chosen(cancelPowerOff) => Chosen(cancelPowerOff)'
    BY <2>1, <2>2, <2>3 DEF Chosen
  <2>5. NoneYet => NoneYet'
    BY <1>2, <2>1, <2>2, <2>3 DEF NoneYet
  <2> QED BY <1>0, <1>2, <2>1, <2>2, <2>3, <2>4, <2>5
<1>4. CASE StopPowerOff(u)
  <2>1. /\ UNCHANGED <<hits, cancelled>> /\ cancelPowerOff' = stop[u].powerOff
        /\ stop[u].at = "power_off" /\ stop'[u].at = "set"
        /\ stop'[u].powerOff = stop[u].powerOff /\ stop'[u].id = stop[u].id
    BY <1>0, <1>4 DEF StopPowerOff, Stop
  <2>2. \A v \in Stoppers : v # u => stop'[v] = stop[v]
    BY <1>0, <1>4 DEF StopPowerOff
  <2>3. Chosen(cancelPowerOff)'
    BY <2>1 DEF Chosen
  <2> QED BY <1>2, <2>1, <2>2, <2>3
<1>5. CASE StopSet(u)
  <2> DEFINE h == [id |-> stop[u].id, powerOff |-> stop[u].powerOff]
  <2>1. /\ hits' = hits \union {h} /\ cancelled' = TRUE /\ cancelPowerOff' = cancelPowerOff
        /\ stop[u].at = "set" /\ stop'[u] = NoStop /\ NoStop.at = "idle"
    BY <1>0, <1>5 DEF StopSet, NoStop
  <2>2. \A v \in Stoppers : v # u => stop'[v] = stop[v]
    BY <1>0, <1>5 DEF StopSet
  <2>3. h.id = stop[u].id /\ h.powerOff = stop[u].powerOff
    OBVIOUS
  <2> HIDE DEF h
  <2>4. Chosen(cancelPowerOff) => Chosen(cancelPowerOff)'
    BY <2>1, <2>2, <2>3 DEF Chosen
  <2>5. NoneYet => NoneYet'
    BY <1>2, <2>1, <2>2, <2>3 DEF NoneYet
  <2> QED BY <1>0, <1>2, <2>1, <2>2, <2>3, <2>4, <2>5
<1>6. CASE StopSweep(u)
  <2>1. /\ UNCHANGED <<hits, cancelled, cancelPowerOff>>
        /\ stop[u].at = "sweep" /\ stop'[u] = NoStop /\ NoStop.at = "idle"
    BY <1>0, <1>6 DEF StopSweep, NoStop
  <2>2. \A v \in Stoppers : v # u => stop'[v] = stop[v]
    BY <1>0, <1>6 DEF StopSweep
  <2>4. Chosen(cancelPowerOff) => Chosen(cancelPowerOff)'
    BY <2>1, <2>2 DEF Chosen
  <2>5. NoneYet => NoneYet'
    BY <1>2, <2>1, <2>2 DEF NoneYet
  <2> QED BY <1>0, <1>2, <2>1, <2>2, <2>4, <2>5
<1> QED BY <1>1, <1>3, <1>4, <1>5, <1>6

\* ... and so does every other.
LEMMA ChoiceNext ==
  ASSUME TypeInv, ChoiceInv, [Next]_vars
  PROVE  ChoiceInv'
<1> USE DEF ChoiceInv
<1>0. /\ rows \in Seq(RunStatus) /\ RunId \in Nat /\ DOMAIN rows = 1 .. RunId
      /\ (HasRow => rows # <<>>)
  BY DEF TypeInv, TypeOK, DbTypeOK, RunId, WorkerInv, RowIsThere
<1>1. CASE ClearCancel \/ ClearPowerOff
  BY <1>1 DEF ClearCancel, ClearPowerOff, GoTo, HasRow, InRun, dbVars, userVars, histVars, RunId
<1>2. CASE InsertRow
  <2>1. UNCHANGED <<hits, stop, cancelPowerOff, cancelled>>
    BY <1>2 DEF InsertRow, histVars, userVars
  <2>2. CASE rows' = Append(rows, "running") /\ status' = "running"
    <3>1. RunId' = RunId + 1
      BY <1>0, <2>2 DEF RunId
    <3>2. NoneYet'
      BY <1>0, <2>1, <3>1 DEF NoneYet
    <3> QED BY <1>0, <2>1, <2>2, <3>1, <3>2
  <2>3. CASE UNCHANGED rows /\ pc' = "cleanup"
    BY <2>1, <2>3 DEF HasRow, InRun, RunId
  <2> QED BY <1>2, <2>2, <2>3 DEF InsertRow, GoTo
<1>3. CASE Restart
  <2>1. hits' = {} /\ stop' = [u \in Stoppers |-> NoStop] /\ pc' = "none"
    BY <1>3 DEF Restart
  <2> QED BY <2>1 DEF NoStop, HasRow, InRun
<1>4. CASE StopStep
  BY <1>4, ChoiceStop
<1>5. CASE AcquireFailed \/ CheckCancel \/ JobEnd \/ JobFailed
  <2>1. UNCHANGED <<cancelled, hits, stop, cancelPowerOff>> /\ HasRow
    BY <1>5, ClosingSteps DEF Working, HasRow, InRun
  <2>2. RunId' = RunId /\ (status' = "cancelled" => cancelled)
    BY <1>0, <1>5, <2>1, ClosingSteps DEF SetRow, RunId
  <2> QED BY <1>0, <2>1, <2>2 DEF Chosen, NoneYet
<1>6. CASE Unwind
  <2>1. UNCHANGED <<cancelled, hits, stop, cancelPowerOff>> /\ HasRow
    BY <1>6 DEF Unwind, lockVars, userVars, histVars, HasRow, InRun
  <2>2. RunId' = RunId /\ (status' = "cancelled" => status = "cancelled")
    BY <1>0, <1>6 DEF Unwind, SetRow, RunId
  <2> QED BY <1>0, <2>1, <2>2 DEF Chosen, NoneYet
<1>7. CASE /\ UNCHANGED <<hits, stop, cancelled, cancelPowerOff, rows, status>>
           /\ HasRow' => HasRow
  BY <1>7 DEF Chosen, NoneYet, RunId
<1> QED BY <1>1, <1>2, <1>3, <1>4, <1>5, <1>6, <1>7, ChoiceFrame

\* A stopped run honours the toggle of the stop dialog, whatever earlier requests, clears of the
\* flag and writes of the toggle lie between: when every request that reached it chose the same,
\* the power-off policy is that choice (cancel(), _start, _release_all).
THEOREM ToggleIsHonoured == Spec => StopChoiceHonoured
<1> DEFINE Honoured(b) ==
      /\ DecidePolicy
      /\ status = "cancelled" /\ current.powerOff
      /\ \A h \in hits : h.id = RunId /\ h.powerOff = b
      /\ \A u \in Stoppers : stop[u].at # "set"
      => policy' = b
<1>1. Init => ChoiceInv
  BY DEF Init, ChoiceInv, HasRow, InRun, NoStop
<1>2. TypeInv /\ ChoiceInv /\ [Next]_vars => ChoiceInv'
  BY ChoiceNext
<1>3. TypeInv /\ StopInv /\ ChoiceInv => \A b \in BOOLEAN : Honoured(b)
  <2> SUFFICES ASSUME TypeInv, StopInv, ChoiceInv, NEW b \in BOOLEAN, DecidePolicy,
                      status = "cancelled", current.powerOff,
                      \A h \in hits : h.id = RunId /\ h.powerOff = b,
                      \A u \in Stoppers : stop[u].at # "set"
               PROVE  policy' = b
    OBVIOUS
  <2>1. HasRow
    BY DEF DecidePolicy, HasRow, InRun
  <2>2. cancelled /\ hits # {}
    BY <2>1 DEF ChoiceInv, StopInv
  <2>3. cancelPowerOff = b
    BY <2>1, <2>2 DEF ChoiceInv, Chosen, NoneYet
  <2>4. PowerOffPolicy = b
    <3>1. CASE b
      BY <2>2, <2>3, <3>1, Zenon DEF PowerOffPolicy
    <3>2. CASE ~b
      BY <2>2, <2>3, <3>2, Zenon DEF PowerOffPolicy
    <3> QED BY <3>1, <3>2
  <2> QED BY <2>4 DEF DecidePolicy
<1>4. TypeInv /\ StopInv /\ ChoiceInv /\ [Next]_vars => [\A b \in BOOLEAN : Honoured(b)]_vars
  BY <1>3
<1> QED BY <1>1, <1>2, <1>4, TypeInvariant, StopInvariant, PTL DEF Spec, StopChoiceHonoured

-----------------------------------------------------------------------------
(***************************************************************************)
(* The look at the queue before a power-off.                               *)
(***************************************************************************)
\* Without edits: the runs a release could see are still queued, and when it goes on to power the
\* machine off none of them needs it.
EarlyInv ==
  /\ pbss = Devices
  /\ early \subseteq QueuedKeys
  /\ call[Worker].at \in {"wait_idle", "poweroff"} =>
       \A q \in early : Key(Worker) \notin KeysOf(DevicesOf(q))

\* Besides these steps none touches the configuration, the queue, what was seen of it, or the
\* lease call.
LEMMA EarlyFrame ==
  ASSUME "edit" \notin UserActs, TypeInv, [Next]_vars
  PROVE  \/ AcquireNext \/ AcquireDone \/ ReleaseNext \/ ReleaseDone \/ LeaseStep
         \/ Drain \/ Restart
         \/ \E k \in Keys, b \in BOOLEAN : Enqueue(k, b)
         \/ \E i \in DOMAIN queue : Dequeue(i)
         \/ UNCHANGED <<call, needs, pbss, queue, early>>
<1> USE DEF leaseVars, cfgVars, queueVars, histVars
<1> DEFINE Quiet == UNCHANGED <<call, needs, pbss, queue, early>>
<1>1. ASSUME Resolve \/ TakeLock \/ ClearCancel \/ ClearPowerOff \/ InsertRow \/ SetRunId
      PROVE  Quiet
  BY <1>1 DEF Resolve, TakeLock, ClearCancel, ClearPowerOff, InsertRow, SetRunId
<1>2. ASSUME AcquireFailed \/ CheckCancel \/ JobEnd \/ JobFailed
      PROVE  Quiet
  BY <1>2 DEF AcquireFailed, CheckCancel, JobEnd, JobFailed
<1>3. ASSUME DecidePolicy \/ Released \/ Unwind \/ Unlock \/ Cleanup
      PROVE  Quiet
  BY <1>3 DEF DecidePolicy, Released, Unwind, Unlock, Cleanup
<1>4. ASSUME StopStep \/ Machines \/ UNCHANGED vars
      PROVE  Quiet
  BY <1>4 DEF StopStep, StopCheck, StopPowerOff, StopSet, StopSweep, StopVars, Machines, BoxStep, vars
<1>5. ASSUME \/ \E u \in Clickers, d \in Devices : Click(u, d)
             \/ \E u \in Clickers : PowerOffNow(u)
             \/ \E d \in Devices : Wake(d)
             \/ \E r \in Routes, n \in Needs : EditRoute(r, n)
             \/ \E d \in Devices : EditDevice(d)
      PROVE  Quiet
  BY <1>5 DEF Click, PowerOffNow, Wake, EditRoute, EditDevice
<1> QED BY <1>1, <1>2, <1>3, <1>4, <1>5 DEF Next, WorkerStep, UserStep

\* What a queued run waits on is configured.
LEMMA QueuedDevices ==
  ASSUME TypeInv, NEW q \in Keys
  PROVE  DevicesOf(q) \subseteq Devices
<1>1. CASE q \in Routes
  <2>1. needs[q] \in Needs
    BY <1>1 DEF TypeInv, TypeOK, ConfigTypeOK
  <2>2. CASE needs[q] = <<>>
    BY <1>1, <2>2 DEF DevicesOf, ToSet
  <2>3. CASE needs[q] \in RouteNeeds
    <3>1. needs[q] \in {<<d>> : d \in Devices} \/ needs[q] \in Devices \X Devices
      BY <2>3, ServiceAssumption
    <3>2. ToSet(needs[q]) \subseteq Devices
      BY <3>1 DEF ToSet
    <3> QED BY <1>1, <3>2 DEF DevicesOf
  <2> QED BY <2>1, <2>2, <2>3 DEF Needs
<1>2. CASE q \notin Routes
  BY <1>2, ServiceAssumption DEF DevicesOf, Keys
<1> QED BY <1>1, <1>2

\* The look at the queue, and the lease call's other steps.
LEMMA EarlyLease ==
  ASSUME TypeInv, EarlyInv, LeaseStep
  PROVE  EarlyInv'
<1> USE DEF EarlyInv
<1> DEFINE c == call[Worker]
           k == Key(Worker)
<1>0. /\ Worker \in Threads /\ call \in [Threads -> Call]
      /\ UNCHANGED <<needs, pbss, queue>> /\ QueuedKeys' = QueuedKeys
      /\ early' = IF c.at = "pending" THEN QueuedKeys ELSE early
  BY WorkerKey DEF TypeInv, TypeOK, LeaseTypeOK, LeaseStep, cfgVars, queueVars, QueuedKeys
<1>1. \A q : DevicesOf(q)' = DevicesOf(q)
  BY <1>0 DEF DevicesOf
<1>2. \A q \in QueuedKeys : q \in Keys
  <2>1. queue \in Seq(Item)
    BY DEF TypeInv, TypeOK, QueueTypeOK
  <2>2. \A i \in DOMAIN queue : queue[i] \in Item
    BY <2>1
  <2> QED BY <2>2 DEF QueuedKeys, Item
<1>3. CASE PendingCheck(Worker, PendingKeys)
  <2>1. c.at = "pending" /\ early' = QueuedKeys
    BY <1>0, <1>3 DEF PendingCheck
  <2>2. CASE k \notin PendingKeys
    <3>1. \A q \in QueuedKeys : KeysOf(DevicesOf(q)) \subseteq PendingKeys
      BY <1>2, QueuedDevices DEF PendingKeys, KeysOf
    <3>2. call'[Worker].dev = c.dev
      BY <1>0, <1>3, GotoType, ReturnType DEF PendingCheck, TypeInv, TypeOK, Places, ReleaseOutcome
    <3>3. \A q \in early' : Key(Worker)' \notin KeysOf(DevicesOf(q))
      BY <2>1, <2>2, <3>1, <3>2 DEF Key
    <3> QED BY <1>0, <1>1, <2>1, <3>3 DEF KeysOf
  <2>3. CASE Return(Worker, "still_needed")
    <3>1. call'[Worker].at = "done"
      BY <1>0, <2>3 DEF Return
    <3> QED BY <1>0, <2>1, <3>1
  <2> QED BY <1>3, <2>2, <2>3 DEF PendingCheck
<1>4. CASE WaitIdle(Worker) \/ PowerOffCmd(Worker)
  <2>1. /\ c.at \in {"wait_idle", "poweroff"} /\ early' = early
        /\ call'[Worker].dev = c.dev
    BY <1>0, <1>4, GotoType, ReturnType
       DEF WaitIdle, PowerOffCmd, TypeInv, TypeOK, Places, ReleaseOutcome
  <2> QED BY <1>0, <1>1, <2>1 DEF Key, KeysOf
<1>5. CASE \/ Probe(Worker) \/ Decide(Worker, cancelled) \/ SendWol(Worker)
           \/ WaitAnswered(Worker, cancelled) \/ WaitEnded(Worker, cancelled)
           \/ Grace(Worker) \/ Count(Worker)
  <2>1. cancelled \in BOOLEAN /\ LeaseTypeOK
    BY DEF TypeInv, TypeOK, LockTypeOK
  <2>2. /\ c.at \in AcquirePlaces
        /\ call'[Worker].at \in AcquirePlaces \/ call'[Worker].at = "done"
    BY <1>0, <1>5, <2>1, AcquireStepType
  <2>3. early' = early
    BY <1>0, <2>2 DEF AcquirePlaces
  <2> QED BY <1>0, <2>2, <2>3 DEF AcquirePlaces
<1> QED BY <1>3, <1>4, <1>5 DEF LeaseStep, CallStep

\* Every step keeps it.
LEMMA EarlyNext ==
  ASSUME "edit" \notin UserActs, TypeInv, NoDuplicateSubject, EarlyInv, [Next]_vars
  PROVE  EarlyInv'
<1> USE DEF EarlyInv
<1>0. /\ Worker \in Threads /\ call \in [Threads -> Call]
      /\ queue \in Seq(Item) /\ Len(queue) \in Nat /\ DOMAIN queue = 1 .. Len(queue)
  BY WorkerKey DEF TypeInv, TypeOK, LeaseTypeOK, QueueTypeOK
<1>1. CASE \/ AcquireNext \/ AcquireDone \/ ReleaseNext \/ ReleaseDone
  <2>1. UNCHANGED <<needs, pbss, queue, early>>
    BY <1>1 DEF AcquireNext, AcquireDone, ReleaseNext, ReleaseDone, cfgVars, queueVars, histVars
  <2>2. call' = call \/ call'[Worker].at \in {"done", "probe", "pending", "idle"}
    BY <1>0, <1>1 DEF AcquireNext, AcquireDone, ReleaseNext, ReleaseDone, AcquireCall, ReleaseCall,
                      Finish, NoCall, Frame, leaseVars
  <2> QED BY <2>1, <2>2 DEF QueuedKeys, DevicesOf, Key
<1>2. CASE LeaseStep
  BY <1>2, EarlyLease
<1>3. ASSUME NEW k \in Keys, NEW b \in BOOLEAN, Enqueue(k, b)
      PROVE  EarlyInv'
  <2>1. UNCHANGED <<needs, pbss, early, call>>
    BY <1>3 DEF Enqueue, leaseVars, cfgVars, histVars
  <2>2. QueuedKeys \subseteq QueuedKeys'
    <3> DEFINE e == [key |-> k, powerOff |-> b]
    <3>1. queue' = Append(queue, e) /\ e \in Item
      BY <1>3 DEF Enqueue, Item
    <3> HIDE DEF e
    <3>2. DOMAIN queue' = 1 .. Len(queue) + 1 /\ \A i \in 1 .. Len(queue) : queue'[i] = queue[i]
      BY <1>0, <3>1
    <3> QED BY <1>0, <3>2 DEF QueuedKeys
  <2> QED BY <2>1, <2>2 DEF DevicesOf, Key
<1>4. ASSUME NEW n \in DOMAIN queue, Dequeue(n)
      PROVE  EarlyInv'
  <2>1. UNCHANGED <<needs, pbss, call>> /\ early' = early \ {queue[n].key}
    BY <1>4 DEF Dequeue, leaseVars, cfgVars
  <2>2. /\ DOMAIN queue' = 1 .. Len(queue) - 1
        /\ \A j \in 1 .. Len(queue) - 1 : queue'[j] = IF j < n THEN queue[j] ELSE queue[j + 1]
    BY <1>0, <1>4, RemoveAtSeq DEF Dequeue
  <2>3. ASSUME NEW i \in DOMAIN queue, i # n
        PROVE  queue[i].key \in QueuedKeys'
    <3>1. \E j \in DOMAIN queue' : queue'[j] = queue[i]
      <4>1. CASE i < n
        BY <1>0, <2>2, <2>3, <4>1
      <4>2. CASE i > n
        <5>1. i - 1 \in DOMAIN queue' /\ queue'[i - 1] = queue[i]
          BY <1>0, <2>2, <2>3, <4>2
        <5> QED BY <5>1
      <4> QED BY <1>0, <2>3, <4>1, <4>2
    <3> QED BY <3>1 DEF QueuedKeys
  <2>4. early' \subseteq QueuedKeys'
    BY <2>1, <2>3 DEF QueuedKeys
  <2> QED BY <2>1, <2>4 DEF DevicesOf, Key
<1>5. CASE Drain
  <2>1. UNCHANGED <<needs, pbss, call>>
    BY <1>5 DEF Drain, leaseVars, cfgVars
  <2>2. CASE UNCHANGED <<queue, early>>
    BY <2>1, <2>2 DEF QueuedKeys, DevicesOf, Key
  <2>3. CASE queue # <<>> /\ Pop /\ early' = early \ {current'.key}
    <3>1. /\ current' = queue[1]
          /\ DOMAIN queue' = 1 .. Len(queue) - 1
          /\ \A j \in 1 .. Len(queue) - 1 : queue'[j] = queue[j + 1]
      BY <1>0, <2>3, HeadTailProperties DEF Pop
    <3>2. ASSUME NEW i \in DOMAIN queue, i # 1
          PROVE  queue[i].key \in QueuedKeys'
      <4>1. i - 1 \in DOMAIN queue' /\ queue'[i - 1] = queue[i]
        BY <1>0, <3>1, <3>2
      <4> QED BY <4>1 DEF QueuedKeys
    <3>3. early' \subseteq QueuedKeys'
      BY <2>3, <3>1, <3>2 DEF QueuedKeys
    <3> QED BY <2>1, <2>3, <3>3 DEF DevicesOf, Key
  <2> QED BY <1>5, <2>2, <2>3 DEF Drain, queueVars
<1>6. CASE Restart
  <2>1. early' = {} /\ pbss' = pbss
    BY <1>6 DEF Restart, cfgVars
  <2> QED BY <2>1
<1>7. CASE UNCHANGED <<call, needs, pbss, queue, early>>
  BY <1>7 DEF QueuedKeys, DevicesOf, Key
<1> QED BY <1>1, <1>2, <1>3, <1>4, <1>5, <1>6, <1>7, EarlyFrame

\* A machine is not powered off at the end of a run when a run that was already queued at that
\* release needs it, even if it was dequeued and queued again, or the machine belongs to another
\* datastore: as long as routes stay as they are (release(), _pending_pbs_keys).
THEOREM EarlyRunsKeepTheirMachine ==
  ASSUME "edit" \notin UserActs PROVE Spec => NoPowerOffUnderEarlyRun
<1> DEFINE Kept == \A k \in LeaseKeys :
              pc = "releasing" /\ box[k] = "up" /\ box'[k] = "stopping"
              => k \notin KeysOf(UNION {DevicesOf(q) : q \in early \cap QueuedKeys})
<1>1. Init => EarlyInv
  <2> SUFFICES ASSUME Init PROVE EarlyInv
    OBVIOUS
  <2>1. call[Worker].at = "idle"
    BY NoCallType, ServiceAssumption DEF Init, LeaseInit
  <2> QED BY <2>1 DEF Init, EarlyInv
<1>2. TypeInv /\ NoDuplicateSubject /\ EarlyInv /\ [Next]_vars => EarlyInv'
  BY EarlyNext
<1>3. TypeInv /\ LockDiscipline /\ EarlyInv /\ [Next]_vars => [Kept]_vars
  <2> SUFFICES ASSUME TypeInv, LockDiscipline, EarlyInv, Next, NEW k \in LeaseKeys,
                      pc = "releasing", box[k] = "up", box'[k] = "stopping"
               PROVE  k \notin KeysOf(UNION {DevicesOf(q) : q \in early \cap QueuedKeys})
    OBVIOUS
  <2>0. Worker \in Threads /\ call \in [Threads -> Call] /\ box \in [LeaseKeys -> BoxState]
    BY WorkerKey DEF TypeInv, TypeOK, LeaseTypeOK
  <2>1. PowerOffCmd(Worker) /\ k = Key(Worker)
    <3>1. CASE LeaseStep
      <4>1. CASE PowerOffCmd(Worker)
        BY <2>0, <4>1, WorkerKey DEF PowerOffCmd, SentPowerOff, LostPowerOff, TypeInv
      <4>2. CASE SendWol(Worker)
        BY <2>0, <4>2, WorkerKey DEF SendWol, TypeInv
      <4>3. CASE UNCHANGED box
        BY <4>3
      <4> QED BY <3>1, <4>1, <4>2, <4>3
              DEF LeaseStep, CallStep, Probe, Decide, WaitAnswered, WaitEnded, Grace, Count,
                  PendingCheck, WaitIdle
    <3>2. CASE \/ Machines \/ \E d \in Devices : Wake(d)
      BY <2>0, <3>2 DEF Machines, BoxStep, BoxBoots, BoxHalts, Wake
    <3>3. CASE \E u \in Clickers : PowerOffNow(u)
      BY <3>3 DEF PowerOffNow, LockDiscipline, InRun
    <3>4. CASE AcquireNext \/ AcquireDone \/ ReleaseNext \/ ReleaseDone \/ SetRunId \/ Restart
      BY <3>4 DEF AcquireNext, AcquireDone, ReleaseNext, ReleaseDone, SetRunId, Restart,
                  AcquireCall, ReleaseCall, leaseVars
    <3>5. CASE UNCHANGED leaseVars
      BY <3>5 DEF leaseVars
    <3> QED BY <3>1, <3>2, <3>3, <3>4, <3>5, LeaseFrame
  <2>2. \A q \in early : k \notin KeysOf(DevicesOf(q))
    BY <2>1 DEF PowerOffCmd, EarlyInv
  <2> QED BY <2>2 DEF KeysOf
<1> QED BY <1>1, <1>2, <1>3, TypeInvariant, SubjectsAreUnique, LockIsExclusive, PTL
        DEF Spec, NoPowerOffUnderEarlyRun

-----------------------------------------------------------------------------
(***************************************************************************)
(* The leases of a run.                                                    *)
(***************************************************************************)
\* No machine is in a list twice.
OneEach(s) == \A i, j \in DOMAIN s : LeaseKey[s[i]] = LeaseKey[s[j]] => i = j
Machine(s) == KeysOf(ToSet(s))

Taking == {"lock", "clear", "clear_power_off", "insert", "set_id", "acquire", "acquiring"}
Holding == {"acquire", "acquiring", "unreachable", "check", "job", "policy", "release", "releasing"}
HasLease == call[Worker].at = "done" /\ call[Worker].result = "acquired"

\* The machines the run holds: those it has noted, the one it is just given, and at the end those
\* it has not returned yet.
HeldKeys ==
  CASE pc = "release" -> Machine(todo)
    [] pc = "releasing" -> Machine(Tail(todo))
    [] pc = "acquiring" /\ HasLease -> Machine(held) \union {Key(Worker)}
    [] OTHER -> Machine(held)

\* Without failed commits: every lease is one of the run's, and it has one of each machine.
HoldInv ==
  /\ pc \notin {"unwind", "retry", "job_failed"}
  /\ \A k \in LeaseKeys : holders[k] = IF k \in HeldKeys THEN 1 ELSE 0
  /\ pc \notin Holding => held = <<>>
  /\ pc \in Taking => OneEach(todo) /\ Machine(held) \cap Machine(todo) = {}
  /\ pc \notin {"release", "releasing"} => OneEach(held)
  /\ pc \in {"release", "releasing"} => OneEach(todo)
  /\ pc = "acquiring" => call[Worker].dev = Head(todo)

\* Besides these steps none touches the leases, the lists of devices or the lease call; they lead
\* from a place to one where as much is known.
LEMMA HoldFrame ==
  ASSUME MaxFaults = 0, TypeInv, [Next]_vars
  PROVE  \/ Resolve \/ SetRunId \/ AcquireNext \/ AcquireDone \/ DecidePolicy
         \/ ReleaseNext \/ ReleaseDone \/ Released \/ LeaseStep \/ Unwind \/ Restart
         \/ /\ UNCHANGED <<holders, call, todo, held>>
            /\ pc' \notin {"unwind", "retry", "job_failed"} \/ pc' = pc
            /\ pc' \in Taking => pc \in Taking
            /\ pc' \notin Holding => pc \notin Holding
            /\ (pc' \in {"release", "releasing", "acquiring"} \/
                pc \in {"release", "releasing", "acquiring"}) => pc' = pc
<1> USE DEF leaseVars, runVars, GoTo, Taking, Holding
<1> DEFINE Quiet == /\ UNCHANGED <<holders, call, todo, held>>
                    /\ pc' \notin {"unwind", "retry", "job_failed"} \/ pc' = pc
                    /\ pc' \in Taking => pc \in Taking
                    /\ pc' \notin Holding => pc \notin Holding
                    /\ (pc' \in {"release", "releasing", "acquiring"} \/
                        pc \in {"release", "releasing", "acquiring"}) => pc' = pc
<1>0. ~Fault
  BY DEF Fault, TypeInv, TypeOK, DbTypeOK
<1>1. ASSUME Drain \/ TakeLock \/ ClearCancel \/ ClearPowerOff \/ InsertRow \/ Unlock \/ Cleanup
      PROVE  Quiet
  BY <1>0, <1>1 DEF Drain, TakeLock, ClearCancel, ClearPowerOff, InsertRow, Unlock, Cleanup
<1>2. ASSUME AcquireFailed \/ CheckCancel \/ JobEnd \/ JobFailed
      PROVE  Quiet
  BY <1>0, <1>2 DEF AcquireFailed, CheckCancel, JobEnd, JobFailed, FinishRun
<1>3. ASSUME StopStep \/ Machines \/ UNCHANGED vars
      PROVE  Quiet
  <2>1. UNCHANGED <<holders, call, todo, held, pc>>
    BY <1>3 DEF StopStep, StopCheck, StopPowerOff, StopSet, StopSweep, StopVars, Machines, BoxStep, vars
  <2> QED BY <2>1
<1>4. ASSUME \/ \E k \in Keys, b \in BOOLEAN : Enqueue(k, b)
             \/ \E i \in DOMAIN queue : Dequeue(i)
      PROVE  Quiet
  <2>1. UNCHANGED <<holders, call, todo, held>>
    BY <1>4 DEF Enqueue, Dequeue
  <2>2. CASE \E k \in Keys, b \in BOOLEAN : Enqueue(k, b)
    <3>1. pc' = IF pc = "none" THEN "drain" ELSE pc
      BY <2>2 DEF Enqueue, EnsureWorker
    <3> QED BY <2>1, <3>1
  <2>3. CASE \E i \in DOMAIN queue : Dequeue(i)
    <3>1. pc' = pc
      BY <2>3 DEF Dequeue
    <3> QED BY <2>1, <3>1
  <2> QED BY <1>4, <2>2, <2>3
<1>5. ASSUME \/ \E u \in Clickers, d \in Devices : Click(u, d)
             \/ \E u \in Clickers : PowerOffNow(u)
             \/ \E d \in Devices : Wake(d)
             \/ \E r \in Routes, n \in Needs : EditRoute(r, n)
             \/ \E d \in Devices : EditDevice(d)
      PROVE  Quiet
  <2>1. UNCHANGED <<holders, call, todo, held, pc>>
    BY <1>5 DEF Click, PowerOffNow, Wake, EditRoute, EditDevice
  <2> QED BY <2>1
<1> QED BY <1>1, <1>2, <1>3, <1>4, <1>5 DEF Next, WorkerStep, UserStep

\* The first of a list and the rest.
LEMMA MachineOfTail ==
  ASSUME NEW s \in Seq(Devices), s # <<>>
  PROVE  /\ Machine(s) = {LeaseKey[Head(s)]} \union Machine(Tail(s))
         /\ OneEach(s) => OneEach(Tail(s)) /\ LeaseKey[Head(s)] \notin Machine(Tail(s))
<1>1. /\ Len(s) \in Nat \ {0} /\ DOMAIN s = 1 .. Len(s) /\ Head(s) = s[1]
      /\ Tail(s) \in Seq(Devices) /\ DOMAIN Tail(s) = 1 .. Len(s) - 1
      /\ \A i \in 1 .. Len(s) - 1 : Tail(s)[i] = s[i + 1]
  BY HeadTailProperties
<1>2. ASSUME NEW i \in DOMAIN s, i # 1
      PROVE  i - 1 \in DOMAIN Tail(s) /\ Tail(s)[i - 1] = s[i]
  BY <1>1, <1>2
<1>3. ToSet(s) = {Head(s)} \union ToSet(Tail(s))
  <2>1. ASSUME NEW i \in DOMAIN s PROVE s[i] \in {Head(s)} \union ToSet(Tail(s))
    BY <1>1, <1>2 DEF ToSet
  <2>2. ASSUME NEW i \in DOMAIN Tail(s) PROVE Tail(s)[i] \in ToSet(s)
    <3>1. i + 1 \in DOMAIN s /\ Tail(s)[i] = s[i + 1]
      BY <1>1
    <3> QED BY <3>1 DEF ToSet
  <2>3. Head(s) \in ToSet(s)
    BY <1>1 DEF ToSet
  <2> QED BY <2>1, <2>2, <2>3 DEF ToSet
<1>4. Machine(s) = {LeaseKey[Head(s)]} \union Machine(Tail(s))
  BY <1>3 DEF Machine, KeysOf
<1>5. ASSUME OneEach(s)
      PROVE  OneEach(Tail(s)) /\ LeaseKey[Head(s)] \notin Machine(Tail(s))
  <2>1. OneEach(Tail(s))
    <3> SUFFICES ASSUME NEW i \in DOMAIN Tail(s), NEW j \in DOMAIN Tail(s),
                        LeaseKey[Tail(s)[i]] = LeaseKey[Tail(s)[j]]
                 PROVE  i = j
      BY DEF OneEach
    <3>1. i + 1 \in DOMAIN s /\ j + 1 \in DOMAIN s /\ i \in Nat /\ j \in Nat
      BY <1>1
    <3>2. Tail(s)[i] = s[i + 1] /\ Tail(s)[j] = s[j + 1]
      BY <1>1
    <3>3. i + 1 = j + 1
      BY <1>5, <3>1, <3>2 DEF OneEach
    <3> QED BY <3>1, <3>3
  <2>2. ASSUME NEW i \in DOMAIN Tail(s), LeaseKey[Tail(s)[i]] = LeaseKey[Head(s)]
        PROVE  FALSE
    <3>1. i + 1 \in DOMAIN s /\ 1 \in DOMAIN s /\ i \in Nat /\ i + 1 # 1
      BY <1>1
    <3>2. Tail(s)[i] = s[i + 1] /\ Head(s) = s[1]
      BY <1>1
    <3> QED BY <1>5, <2>2, <3>1, <3>2 DEF OneEach
  <2> QED BY <2>1, <2>2 DEF Machine, KeysOf, ToSet
<1> QED BY <1>4, <1>5

\* A list with one more at its end.
LEMMA MachineOfAppend ==
  ASSUME NEW s \in Seq(Devices), NEW d \in Devices
  PROVE  /\ Machine(Append(s, d)) = Machine(s) \union {LeaseKey[d]}
         /\ OneEach(s) /\ LeaseKey[d] \notin Machine(s) => OneEach(Append(s, d))
<1>1. /\ Len(s) \in Nat /\ DOMAIN s = 1 .. Len(s) /\ DOMAIN Append(s, d) = 1 .. Len(s) + 1
      /\ \A i \in 1 .. Len(s) : Append(s, d)[i] = s[i]
      /\ Append(s, d)[Len(s) + 1] = d
  OBVIOUS
<1>2. ToSet(Append(s, d)) = ToSet(s) \union {d}
  <2>1. ASSUME NEW i \in DOMAIN Append(s, d) PROVE Append(s, d)[i] \in ToSet(s) \union {d}
    BY <1>1 DEF ToSet
  <2>2. ASSUME NEW i \in DOMAIN s PROVE s[i] \in ToSet(Append(s, d))
    <3>1. i \in DOMAIN Append(s, d) /\ Append(s, d)[i] = s[i]
      BY <1>1
    <3> QED BY <3>1 DEF ToSet
  <2>3. d \in ToSet(Append(s, d))
    <3>1. Len(s) + 1 \in DOMAIN Append(s, d)
      BY <1>1
    <3> QED BY <1>1, <3>1 DEF ToSet
  <2> QED BY <2>1, <2>2, <2>3 DEF ToSet
<1>3. Machine(Append(s, d)) = Machine(s) \union {LeaseKey[d]}
  BY <1>2 DEF Machine, KeysOf
<1>4. ASSUME OneEach(s), LeaseKey[d] \notin Machine(s)
      PROVE  OneEach(Append(s, d))
  <2>1. \A i \in DOMAIN s : LeaseKey[s[i]] # LeaseKey[d]
    BY <1>4 DEF Machine, KeysOf, ToSet
  <2> QED BY <1>1, <1>4, <2>1 DEF OneEach
<1> QED BY <1>3, <1>4

\* What a run needs awake is each machine once: devices of one machine are collapsed to one.
LEMMA ResolvedOnce ==
  ASSUME TypeInv, NEW k \in Keys, Exists(k)
  PROVE  OneEach(Resolved(k))
<1>1. CASE k \in Routes
  <2>1. needs[k] \in RouteNeeds
    BY <1>1 DEF TypeInv, TypeOK, ConfigTypeOK, Needs, Exists
  <2>2. CASE needs[k] \in {<<d>> : d \in Devices}
    <3>1. PICK d \in Devices : needs[k] = <<d>>
      BY <2>2
    <3>2. OneEach(<<d>>) /\ Len(<<d>>) = 1
      BY DEF OneEach
    <3>3. Resolved(k) = <<d>>
      BY <1>1, <3>1, <3>2 DEF Resolved, Collapse
    <3> QED BY <3>2, <3>3
  <2>3. CASE needs[k] \in Devices \X Devices
    <3>1. PICK d \in Devices, e \in Devices : needs[k] = <<d, e>>
      BY <2>3
    <3>2. OneEach(<<d>>)
      BY DEF OneEach
    <3>3. LeaseKey[d] # LeaseKey[e] => OneEach(<<d, e>>)
      BY DEF OneEach
    <3>4. Resolved(k) = IF LeaseKey[d] = LeaseKey[e] THEN <<d>> ELSE <<d, e>>
      BY <1>1, <3>1 DEF Resolved, Collapse
    <3> QED BY <3>2, <3>3, <3>4
  <2> QED BY <2>1, <2>2, <2>3, ServiceAssumption
<1>2. CASE k \notin Routes
  <2>1. Resolved(k) = <<MaintDevice[k]>>
    BY <1>2 DEF Resolved
  <2> QED BY <2>1 DEF OneEach
<1> QED BY <1>1, <1>2

\* An empty list.
LEMMA MachineOfNone == Machine(<<>>) = {} /\ OneEach(<<>>)
  BY DEF Machine, KeysOf, ToSet, OneEach

\* A step of the lease call stays with its device; a lease is taken by Count and by nothing else.
LEMMA CallHolds ==
  ASSUME TypeInv, LeaseStep
  PROVE  /\ call'[Worker].dev = call[Worker].dev
         /\ \/ Count(Worker) /\ pc = "acquiring" /\ HasLease'
            \/ UNCHANGED holders /\ ~HasLease' /\ ~HasLease
<1> USE DEF HasLease
<1>0. /\ Worker \in Threads /\ LeaseTypeOK /\ cancelled \in BOOLEAN
      /\ pc \notin {"acquiring", "releasing"} => call[Worker].at = "idle"
      /\ pc = "releasing" => call[Worker].at \in ReleasePlaces \cup {"done"}
  BY WorkerKey DEF TypeInv, TypeOK, WorkerInv, CallMatchesPc, LockTypeOK
<1> DEFINE Moved(p) == UNCHANGED holders /\ Goto(Worker, p) /\ call[Worker].at # "done"
<1> DEFINE Ended(r) == UNCHANGED holders /\ Return(Worker, r) /\ call[Worker].at # "done"
<1>1. ASSUME NEW p \in Places \ {"done"}, Moved(p)
      PROVE  call'[Worker].dev = call[Worker].dev /\ UNCHANGED holders /\ ~HasLease' /\ ~HasLease
  BY <1>0, <1>1, GotoType
<1>2. ASSUME NEW r \in (ReleaseOutcome \cup AcquireResult) \ {"acquired"}, Ended(r)
      PROVE  call'[Worker].dev = call[Worker].dev /\ UNCHANGED holders /\ ~HasLease' /\ ~HasLease
  BY <1>0, <1>2, ReturnType
<1>3. CASE Count(Worker)
  <2>1. /\ call'[Worker].dev = call[Worker].dev
        /\ call'[Worker].at = "done" /\ call'[Worker].result = "acquired"
    BY <1>0, <1>3, ReturnType DEF Count, AcquireResult
  <2>2. pc = "acquiring"
    BY <1>0, <1>3 DEF Count, ReleasePlaces
  <2> QED BY <1>3, <2>1, <2>2
<1>4. CASE Probe(Worker) \/ WaitAnswered(Worker, cancelled)
  <2>1. \E p \in Places \ {"done"} : Moved(p)
    BY <1>4 DEF Probe, WaitAnswered, Places
  <2> QED BY <1>1, <2>1
<1>5. CASE Decide(Worker, cancelled) \/ SendWol(Worker) \/ Grace(Worker)
  <2>1. (\E p \in Places \ {"done"} : Moved(p)) \/ Ended("unreachable")
    BY <1>5 DEF Decide, SendWol, Grace, Places
  <2>2. "unreachable" \in (ReleaseOutcome \cup AcquireResult) \ {"acquired"}
    BY DEF AcquireResult
  <2> QED BY <1>1, <1>2, <2>1, <2>2
<1>6. CASE WaitEnded(Worker, cancelled)
  <2>1. CASE call' = [call EXCEPT ![Worker].at = "wol", ![Worker].attempt = @ + 1]
    <3>1. call'[Worker].dev = call[Worker].dev /\ call'[Worker].at = "wol"
      BY <1>0, <2>1 DEF LeaseTypeOK, Call
    <3> QED BY <1>6, <3>1 DEF WaitEnded
  <2>2. CASE Moved("grace") \/ Ended("unreachable")
    <3>1. "grace" \in Places \ {"done"} /\ "unreachable" \in (ReleaseOutcome \cup AcquireResult) \ {"acquired"}
      BY DEF AcquireResult, Places
    <3> QED BY <1>1, <1>2, <2>2, <3>1
  <2> QED BY <1>6, <2>1, <2>2 DEF WaitEnded
<1>7. CASE PendingCheck(Worker, PendingKeys) \/ WaitIdle(Worker)
  <2>1. (\E p \in Places \ {"done"} : Moved(p)) \/
        \E r \in (ReleaseOutcome \cup AcquireResult) \ {"acquired"} : Ended(r)
    BY <1>7 DEF PendingCheck, WaitIdle, Places, ReleaseOutcome
  <2> QED BY <1>1, <1>2, <2>1
<1>8. CASE PowerOffCmd(Worker)
  <2>1. \E r \in (ReleaseOutcome \cup AcquireResult) \ {"acquired"} : Ended(r)
    BY <1>8 DEF PowerOffCmd, ReleaseOutcome
  <2> QED BY <1>2, <2>1
<1> QED BY <1>3, <1>4, <1>5, <1>6, <1>7, <1>8 DEF LeaseStep, CallStep

\* Where the worker takes leases.
LEMMA HoldAcquire ==
  ASSUME MaxFaults = 0, TypeInv, HoldInv, Resolve \/ SetRunId \/ AcquireNext \/ AcquireDone
  PROVE  HoldInv'
<1> USE DEF Taking, Holding, HasLease, GoTo
<1>0. /\ ~Fault /\ WorkerInv /\ LeaseTypeOK /\ Worker \in Threads
      /\ todo \in Seq(Devices) /\ held \in Seq(Devices)
      /\ holders \in [LeaseKeys -> Nat]
  BY WorkerKey DEF Fault, TypeInv, TypeOK, DbTypeOK, RunTypeOK, LeaseTypeOK
<1>1. CASE Resolve
  <2>1. held = <<>> /\ UNCHANGED <<held, call, holders>>
    BY <1>1 DEF Resolve, HoldInv, leaseVars
  <2>2. HeldKeys = {} /\ HeldKeys' = {}
    BY <1>1, <2>1, MachineOfNone DEF Resolve, HeldKeys
  <2>3. CASE Exists(current.key)
    <3>1. current.key \in Keys
      BY <1>0, <1>1 DEF WorkerInv, CurrentIsSet, Resolve, Item
    <3>2. pc' = "lock" /\ todo' = Resolved(current.key)
      BY <1>1, <2>3 DEF Resolve
    <3>3. OneEach(todo')
      BY <2>3, <3>1, <3>2, ResolvedOnce
    <3> QED BY <2>1, <2>2, <3>2, <3>3, MachineOfNone DEF HoldInv
  <2>4. CASE ~Exists(current.key)
    <3>1. pc' = "cleanup"
      BY <1>1, <2>4 DEF Resolve
    <3> QED BY <2>1, <2>2, <3>1, MachineOfNone DEF HoldInv
  <2> QED BY <2>3, <2>4
<1>2. CASE SetRunId
  <2>1. /\ held = <<>> /\ held' = <<>> /\ UNCHANGED <<todo, call, holders>>
        /\ pc = "set_id" /\ pc' = "acquire"
    BY <1>2 DEF SetRunId, HoldInv, leaseVars
  <2>2. HeldKeys' = HeldKeys
    BY <2>1 DEF HeldKeys
  <2> QED BY <2>1, <2>2 DEF HoldInv
<1>3. CASE AcquireNext
  <2>1. CASE todo = <<>> /\ pc' = "check" /\ UNCHANGED leaseVars
    <3>1. pc = "acquire" /\ UNCHANGED <<holders, call, held, todo>>
      BY <1>3, <2>1 DEF AcquireNext, leaseVars, runVars
    <3>2. HeldKeys' = HeldKeys
      BY <2>1, <3>1 DEF HeldKeys
    <3> QED BY <2>1, <3>1, <3>2 DEF HoldInv
  <2>2. CASE todo # <<>> /\ AcquireCall(Worker, Head(todo)) /\ pc' = "acquiring"
    <3>1. /\ pc = "acquire" /\ UNCHANGED <<held, todo>>
          /\ Machine(held) \cap Machine(todo) = {}
          /\ OneEach(held) /\ OneEach(todo)
      BY <1>3, <2>2 DEF AcquireNext, runVars, HoldInv
    <3>2. Head(todo) \in Devices /\ LeaseKey[Head(todo)] \in LeaseKeys
      BY <1>0, <2>2, LeaseAssumption
    <3>3. LeaseKey[Head(todo)] \in Machine(todo)
      BY <1>0, <2>2, MachineOfTail
    <3>4. HeldKeys = Machine(held)
      BY <3>1 DEF HeldKeys
    <3>5. holders[LeaseKey[Head(todo)]] = 0
      BY <3>1, <3>2, <3>3, <3>4 DEF HoldInv
    <3>6. UNCHANGED holders /\ call' = [call EXCEPT ![Worker] = Frame(Head(todo), "probe")]
      BY <2>2, <3>5 DEF AcquireCall
    <3>7. call'[Worker].dev = Head(todo) /\ call'[Worker].at = "probe"
      BY <1>0, <3>6 DEF Frame, LeaseTypeOK
    <3>8. HeldKeys' = HeldKeys
      BY <2>2, <3>1, <3>4, <3>7 DEF HeldKeys
    <3> QED BY <2>2, <3>1, <3>6, <3>7, <3>8 DEF HoldInv
  <2> QED BY <1>0, <1>3, <2>1, <2>2 DEF AcquireNext
<1>4. CASE AcquireDone
  <2>0. /\ pc = "acquiring" /\ call[Worker].at = "done" /\ UNCHANGED holders
        /\ call[Worker].dev = Head(todo) /\ todo # <<>> /\ call[Worker].dev \in Devices
        /\ OneEach(held) /\ OneEach(todo) /\ Machine(held) \cap Machine(todo) = {}
    BY <1>0, <1>4 DEF AcquireDone, HoldInv, WorkerInv, LoopHasElement
  <2>1. CASE call[Worker].result = "acquired" /\ held' = Append(held, call[Worker].dev)
             /\ todo' = Tail(todo) /\ pc' = "acquire"
    <3> DEFINE d == call[Worker].dev
    <3>1. HeldKeys = Machine(held) \union {LeaseKey[d]}
      BY <2>0, <2>1 DEF HeldKeys, Key
    <3>2. /\ Machine(todo) = {LeaseKey[d]} \union Machine(Tail(todo))
          /\ OneEach(Tail(todo)) /\ LeaseKey[d] \notin Machine(Tail(todo))
      BY <1>0, <2>0, MachineOfTail
    <3>3. LeaseKey[d] \notin Machine(held)
      BY <2>0, <3>2
    <3>4. Machine(Append(held, d)) = Machine(held) \union {LeaseKey[d]} /\ OneEach(Append(held, d))
      BY <1>0, <2>0, <3>3, MachineOfAppend
    <3>5. HeldKeys' = HeldKeys
      BY <2>1, <3>1, <3>4 DEF HeldKeys
    <3>6. Machine(held') \cap Machine(todo') = {}
      BY <2>0, <2>1, <3>2, <3>4
    <3> QED BY <2>0, <2>1, <3>2, <3>4, <3>5, <3>6 DEF HoldInv
  <2>2. CASE call[Worker].result = "unreachable" /\ pc' = "unreachable" /\ UNCHANGED <<held, todo>>
    <3>1. HeldKeys' = HeldKeys
      BY <2>0, <2>2 DEF HeldKeys
    <3> QED BY <2>0, <2>2, <3>1 DEF HoldInv
  <2> QED BY <1>0, <1>4, <2>1, <2>2 DEF AcquireDone
<1> QED BY <1>1, <1>2, <1>3, <1>4

\* Where it returns them.
LEMMA HoldRelease ==
  ASSUME MaxFaults = 0, TypeInv, HoldInv,
         DecidePolicy \/ ReleaseNext \/ ReleaseDone \/ Released \/ Unwind
  PROVE  HoldInv'
<1> USE DEF Taking, Holding, HasLease, GoTo
<1>0. /\ ~Fault /\ WorkerInv /\ LeaseTypeOK /\ Worker \in Threads
      /\ todo \in Seq(Devices) /\ held \in Seq(Devices)
      /\ holders \in [LeaseKeys -> Nat]
  BY WorkerKey DEF Fault, TypeInv, TypeOK, DbTypeOK, RunTypeOK, LeaseTypeOK
<1>1. CASE DecidePolicy
  <2>1. pc = "policy" /\ pc' = "release" /\ todo' = held /\ UNCHANGED <<held, holders, call>>
    BY <1>1 DEF DecidePolicy, ToRelease, leaseVars
  <2>2. HeldKeys' = HeldKeys
    BY <2>1 DEF HeldKeys
  <2> QED BY <2>1, <2>2 DEF HoldInv
<1>2. CASE ReleaseNext
  <2>1. /\ pc = "release" /\ pc' = "releasing" /\ todo # <<>> /\ UNCHANGED <<todo, held>>
        /\ ReleaseCall(Worker, Head(todo), policy)
    BY <1>0, <1>2 DEF ReleaseNext, runVars
  <2> DEFINE k == LeaseKey[Head(todo)]
  <2>2. k \in LeaseKeys
    BY <1>0, <2>1, LeaseAssumption
  <2>3. Machine(todo) = {k} \union Machine(Tail(todo)) /\ k \notin Machine(Tail(todo)) /\ OneEach(todo)
    BY <1>0, <2>1, MachineOfTail DEF HoldInv
  <2>4. HeldKeys = Machine(todo) /\ HeldKeys' = Machine(Tail(todo))
    BY <2>1 DEF HeldKeys
  <2>5. holders[k] = 1
    BY <2>2, <2>3, <2>4 DEF HoldInv
  <2>6. holders' = [holders EXCEPT ![k] = @ - 1]
    BY <2>1, <2>5 DEF ReleaseCall, Unheld
  <2>7. \A m \in LeaseKeys : holders'[m] = IF m \in HeldKeys' THEN 1 ELSE 0
    BY <1>0, <2>2, <2>3, <2>4, <2>5, <2>6 DEF HoldInv
  <2> QED BY <2>1, <2>3, <2>7 DEF HoldInv
<1>3. CASE ReleaseDone
  <2>1. /\ pc = "releasing" /\ pc' = "release" /\ todo' = Tail(todo) /\ UNCHANGED <<holders, held>>
    BY <1>0, <1>3 DEF ReleaseDone
  <2>2. HeldKeys' = HeldKeys
    BY <2>1 DEF HeldKeys
  <2>3. OneEach(Tail(todo))
    BY <1>0, <2>1, MachineOfTail DEF HoldInv, WorkerInv, LoopHasElement
  <2> QED BY <2>1, <2>2, <2>3 DEF HoldInv
<1>4. CASE Released
  <2>1. /\ pc = "release" /\ pc' = "unlock" /\ todo = <<>> /\ held' = <<>>
        /\ UNCHANGED <<holders, call, todo>>
    BY <1>4 DEF Released, leaseVars
  <2>2. HeldKeys' = {} /\ HeldKeys = {}
    BY <2>1, MachineOfNone DEF HeldKeys
  <2> QED BY <2>1, <2>2, MachineOfNone DEF HoldInv
<1>5. CASE Unwind
  BY <1>5 DEF Unwind, HoldInv
<1> QED BY <1>1, <1>2, <1>3, <1>4, <1>5

\* Every step keeps the account.
LEMMA HoldNext ==
  ASSUME MaxFaults = 0, TypeInv, HoldInv, [Next]_vars
  PROVE  HoldInv'
<1>1. CASE LeaseStep
  <2>0. /\ call'[Worker].dev = call[Worker].dev /\ UNCHANGED <<todo, held, pc>>
        /\ Key(Worker)' = Key(Worker) /\ Key(Worker) \in LeaseKeys
        /\ holders \in [LeaseKeys -> Nat]
    <3>1. call'[Worker].dev = call[Worker].dev /\ UNCHANGED <<todo, held, pc>>
      BY <1>1, CallHolds DEF LeaseStep, runVars
    <3> QED BY <3>1, WorkerKey DEF Key, TypeInv, TypeOK, LeaseTypeOK
  <2>1. CASE Count(Worker) /\ pc = "acquiring" /\ HasLease'
    <3> DEFINE k == Key(Worker)
    <3>1. call[Worker].dev = Head(todo) /\ todo \in Seq(Devices) /\ todo # <<>>
      BY <2>1 DEF HoldInv, TypeInv, TypeOK, RunTypeOK, WorkerInv, LoopHasElement
    <3>2. k \in Machine(todo)
      BY <3>1, MachineOfTail DEF Key
    <3>3. k \notin Machine(held)
      BY <2>1, <3>2 DEF HoldInv, Taking
    <3>4. HeldKeys = Machine(held) /\ HeldKeys' = Machine(held) \union {k}
      BY <2>0, <2>1 DEF HeldKeys, HasLease, Count
    <3>5. holders' = [holders EXCEPT ![k] = @ + 1]
      BY <2>1 DEF Count
    <3>6. \A m \in LeaseKeys : holders'[m] = IF m \in HeldKeys' THEN 1 ELSE 0
      BY <2>0, <3>3, <3>4, <3>5 DEF HoldInv
    <3> QED BY <2>0, <2>1, <3>6 DEF HoldInv, Taking, Holding
  <2>2. CASE UNCHANGED holders /\ ~HasLease' /\ ~HasLease
    <3>1. HeldKeys' = HeldKeys
      BY <2>0, <2>2 DEF HeldKeys
    <3> QED BY <2>0, <2>2, <3>1 DEF HoldInv
  <2> QED BY <1>1, <2>1, <2>2, CallHolds
<1>2. CASE Restart
  <2>1. /\ pc' = "none" /\ held' = <<>> /\ \A k \in LeaseKeys : holders'[k] = 0
    BY <1>2 DEF Restart
  <2>2. HeldKeys' = {}
    BY <2>1, MachineOfNone DEF HeldKeys
  <2> QED BY <2>1, <2>2, MachineOfNone DEF HoldInv, Taking, Holding
<1>3. CASE /\ UNCHANGED <<holders, call, todo, held>>
           /\ pc' \notin {"unwind", "retry", "job_failed"} \/ pc' = pc
           /\ pc' \in Taking => pc \in Taking
           /\ pc' \notin Holding => pc \notin Holding
           /\ (pc' \in {"release", "releasing", "acquiring"} \/
               pc \in {"release", "releasing", "acquiring"}) => pc' = pc
  <2>1. HasLease' <=> HasLease
    BY <1>3 DEF HasLease
  <2>2. HeldKeys' = HeldKeys
    BY <1>3, <2>1 DEF HeldKeys, Key
  <2> QED BY <1>3, <2>2 DEF HoldInv
<1> QED BY <1>1, <1>2, <1>3, HoldFrame, HoldAcquire, HoldRelease

\* No lease outlives its run: between runs nothing is held, whatever machines, stop requests, edits
\* and restarts do, as long as no commit fails (_release_all).
THEOREM LeasesAreReturned ==
  ASSUME MaxFaults = 0
  PROVE  Spec => []NoLeaseLeft
<1>1. Init => HoldInv
  BY MachineOfNone DEF Init, LeaseInit, HoldInv, HeldKeys, Taking, Holding
<1>2. TypeInv /\ HoldInv /\ [Next]_vars => HoldInv'
  BY HoldNext
<1>3. HoldInv => NoLeaseLeft
  <2> SUFFICES ASSUME HoldInv, ~InRun PROVE \A k \in LeaseKeys : holders[k] = 0
    BY DEF NoLeaseLeft
  <2>1. HeldKeys = {}
    BY MachineOfNone DEF HoldInv, HeldKeys, InRun, Holding
  <2> QED BY <2>1 DEF HoldInv
<1> QED BY <1>1, <1>2, <1>3, TypeInvariant, PTL DEF Spec

-----------------------------------------------------------------------------
(***************************************************************************)
(* The last word on a machine.                                             *)
(***************************************************************************)
\* Every run needs one machine; nobody edits or dequeues, nothing fails or restarts.
OneMachineEach == \A n \in RouteNeeds : Len(Collapse(n)) = 1
Undisturbed == MaxFaults = 0 /\ UserActs \cap {"edit", "dequeue", "restart"} = {}

Holdable == {"unreachable", "check", "job", "policy"}

\* The machines the run in progress has still to say the last word on, and those of queued runs.
Unsaid ==
  CASE pc = "resolve" -> KeysOf(DevicesOf(current.key))
    [] pc \in Taking -> Machine(todo) \union Machine(held)
    [] pc \in Holdable -> Machine(held)
    [] pc \in {"release", "releasing"} -> Machine(todo)
    [] OTHER -> {}
QueuedMachines == KeysOf(UNION {DevicesOf(q) : q \in QueuedKeys})

\* Whoever said "still needed" leaves the machine to a run that has yet to speak.
WordInv ==
  /\ \A k \in LeaseKeys : word[k] = "still_needed" => k \in Unsaid \union QueuedMachines
  /\ pc \in Taking => Len(todo) <= 1
  /\ pc = "releasing" =>
       /\ call[Worker].dev = Head(todo)
       /\ call[Worker].at = "done" /\ call[Worker].result = "still_needed" =>
            Key(Worker) \in QueuedMachines
  /\ \A q \in QueuedKeys : Exists(q)
  /\ pc = "resolve" => Exists(current.key)

\* Besides these steps none touches a word, the queue, the lists of devices or the lease call; they
\* lead from a place to one where the run has as much to say.
LEMMA WordFrame ==
  ASSUME Undisturbed, TypeInv, HoldInv, [Next]_vars
  PROVE  \/ \E k \in Keys, b \in BOOLEAN : Enqueue(k, b)
         \/ Drain \/ Resolve \/ AcquireNext \/ AcquireDone \/ DecidePolicy
         \/ ReleaseNext \/ ReleaseDone \/ Released \/ LeaseStep
         \/ /\ UNCHANGED <<word, needs, pbss, queue, call, todo, held>>
            /\ \/ UNCHANGED <<pc, current>>
               \/ pc \in Taking /\ pc' \in Taking
               \/ pc \in Holdable /\ pc' \in Holdable
               \/ pc \in {"unlock", "cleanup", "drain"} /\ pc' \in {"unlock", "cleanup", "drain"}
<1> USE DEF leaseVars, cfgVars, queueVars, runVars, histVars, GoTo, Taking, Holdable, Holding
<1> DEFINE Quiet ==
      /\ UNCHANGED <<word, needs, pbss, queue, call, todo, held>>
      /\ \/ UNCHANGED <<pc, current>>
         \/ pc \in Taking /\ pc' \in Taking
         \/ pc \in Holdable /\ pc' \in Holdable
         \/ pc \in {"unlock", "cleanup", "drain"} /\ pc' \in {"unlock", "cleanup", "drain"}
<1>0. ~Fault
  BY DEF Fault, TypeInv, TypeOK, DbTypeOK, Undisturbed
<1>1. ASSUME TakeLock \/ ClearCancel \/ ClearPowerOff \/ InsertRow \/ Unlock \/ Cleanup
      PROVE  Quiet
  BY <1>0, <1>1 DEF TakeLock, ClearCancel, ClearPowerOff, InsertRow, Unlock, Cleanup
<1>2. ASSUME SetRunId
      PROVE  Quiet
  BY <1>2 DEF SetRunId, HoldInv
<1>3. ASSUME AcquireFailed \/ CheckCancel \/ JobEnd
      PROVE  Quiet
  BY <1>0, <1>3 DEF AcquireFailed, CheckCancel, JobEnd, FinishRun
<1>4. ASSUME JobFailed \/ Unwind
      PROVE  FALSE
  BY <1>4 DEF JobFailed, Unwind, HoldInv
<1>5. ASSUME StopStep \/ Machines \/ UNCHANGED vars
      PROVE  Quiet
  <2>1. UNCHANGED <<word, needs, pbss, queue, call, todo, held, pc, current>>
    BY <1>5 DEF StopStep, StopCheck, StopPowerOff, StopSet, StopSweep, StopVars, Machines, BoxStep, vars
  <2> QED BY <2>1
<1>6. ASSUME \/ \E u \in Clickers, d \in Devices : Click(u, d)
             \/ \E u \in Clickers : PowerOffNow(u)
             \/ \E d \in Devices : Wake(d)
      PROVE  Quiet
  <2>1. UNCHANGED <<word, needs, pbss, queue, call, todo, held, pc, current>>
    BY <1>6 DEF Click, PowerOffNow, Wake
  <2> QED BY <2>1
<1>7. ASSUME \/ \E i \in DOMAIN queue : Dequeue(i)
             \/ \E r \in Routes, n \in Needs : EditRoute(r, n)
             \/ \E d \in Devices : EditDevice(d)
             \/ Restart
      PROVE  FALSE
  BY <1>7 DEF Dequeue, EditRoute, EditDevice, Restart, Undisturbed
<1> QED BY <1>1, <1>2, <1>3, <1>4, <1>5, <1>6, <1>7 DEF Next, WorkerStep, UserStep

\* A run that needs one machine resolves to one device of it.
LEMMA ResolvedAll ==
  ASSUME OneMachineEach, TypeInv, NEW k \in Keys, Exists(k)
  PROVE  Len(Resolved(k)) = 1 /\ Machine(Resolved(k)) = KeysOf(DevicesOf(k))
<1>0. ASSUME NEW d \in Devices
      PROVE  Len(<<d>>) = 1 /\ ToSet(<<d>>) = {d} /\ Machine(<<d>>) = {LeaseKey[d]}
  BY DEF ToSet, Machine, KeysOf
<1>1. CASE k \in Routes
  <2>1. needs[k] \in RouteNeeds
    BY <1>1 DEF TypeInv, TypeOK, ConfigTypeOK, Needs, Exists
  <2>2. CASE needs[k] \in {<<d>> : d \in Devices}
    <3>1. PICK d \in Devices : needs[k] = <<d>>
      BY <2>2
    <3>2. Resolved(k) = <<d>> /\ DevicesOf(k) = {d}
      BY <1>0, <1>1, <3>1 DEF Resolved, Collapse, DevicesOf
    <3> QED BY <1>0, <3>2 DEF KeysOf
  <2>3. CASE needs[k] \in Devices \X Devices
    <3>1. PICK d \in Devices, e \in Devices : needs[k] = <<d, e>>
      BY <2>3
    <3>2. Len(<<d, e>>) = 2 /\ ToSet(<<d, e>>) = {d, e}
      BY DEF ToSet
    <3>3. LeaseKey[d] = LeaseKey[e]
      BY <2>1, <3>1, <3>2 DEF OneMachineEach, Collapse
    <3>4. Resolved(k) = <<d>> /\ DevicesOf(k) = {d, e}
      BY <1>1, <3>1, <3>2, <3>3 DEF Resolved, Collapse, DevicesOf
    <3> QED BY <1>0, <3>3, <3>4 DEF KeysOf
  <2> QED BY <2>1, <2>2, <2>3, ServiceAssumption
<1>2. CASE k \notin Routes
  <2>1. MaintDevice[k] \in Devices
    BY <1>2, ServiceAssumption DEF Keys
  <2>2. Resolved(k) = <<MaintDevice[k]>> /\ DevicesOf(k) = {MaintDevice[k]}
    BY <1>2 DEF Resolved, DevicesOf
  <2> QED BY <1>0, <2>1, <2>2 DEF KeysOf
<1> QED BY <1>1, <1>2

\* A step of the lease call ends with "still needed" only because of a queued run.
LEMMA StillNeededByQueue ==
  ASSUME TypeInv, EarlyInv, LeaseStep,
         call'[Worker].at = "done", call'[Worker].result = "still_needed"
  PROVE  Key(Worker) \in QueuedMachines
<1>0. /\ Worker \in Threads /\ LeaseTypeOK /\ cancelled \in BOOLEAN
  BY WorkerKey DEF TypeInv, TypeOK, LockTypeOK
<1>1. PendingKeys \subseteq QueuedMachines
  BY DEF PendingKeys, QueuedMachines, KeysOf
<1>2. CASE \/ Probe(Worker) \/ Decide(Worker, cancelled) \/ SendWol(Worker)
           \/ WaitAnswered(Worker, cancelled) \/ WaitEnded(Worker, cancelled)
           \/ Grace(Worker) \/ Count(Worker)
  BY <1>0, <1>2, AcquireStepType DEF AcquirePlaces, AcquireResult
<1>3. CASE PendingCheck(Worker, PendingKeys)
  <2>1. ASSUME NEW p \in {"wait_idle", "poweroff"}, Goto(Worker, p) PROVE FALSE
    BY <1>0, <2>1, GotoType DEF Places
  <2>2. ~Return(Worker, "left_on")
    BY <1>0, ReturnType DEF ReleaseOutcome
  <2> QED BY <1>1, <1>3, <2>1, <2>2 DEF PendingCheck
<1>4. CASE WaitIdle(Worker) \/ PowerOffCmd(Worker)
  <2>1. ~Goto(Worker, "poweroff")
    BY <1>0, GotoType DEF Places
  <2>2. ASSUME NEW r \in {"busy", "powered_off", "poweroff_failed"}, Return(Worker, r) PROVE FALSE
    BY <1>0, <2>2, ReturnType DEF ReleaseOutcome
  <2> QED BY <1>4, <2>1, <2>2 DEF WaitIdle, PowerOffCmd
<1> QED BY <1>2, <1>3, <1>4 DEF LeaseStep, CallStep

\* The queue's steps.
LEMMA WordQueue ==
  ASSUME TypeInv, HoldInv, WordInv,
         Drain \/ \E k \in Keys, b \in BOOLEAN : Enqueue(k, b)
  PROVE  WordInv'
<1> USE DEF WordInv
<1>0. queue \in Seq(Item) /\ Len(queue) \in Nat /\ DOMAIN queue = 1 .. Len(queue)
  BY DEF TypeInv, TypeOK, QueueTypeOK
<1>1. CASE Drain
  <2>0. /\ pc = "drain" /\ UNCHANGED <<word, needs, pbss, call, todo, held>>
        /\ Unsaid = {}
    BY <1>1 DEF Drain, leaseVars, cfgVars, runVars, Unsaid, Taking, Holdable
  <2>1. CASE pc' = "none" /\ UNCHANGED queueVars
    <3>1. Unsaid' = {} /\ QueuedKeys' = QueuedKeys /\ QueuedMachines' = QueuedMachines
      BY <2>0, <2>1 DEF Unsaid, Taking, Holdable, queueVars, QueuedKeys, QueuedMachines, DevicesOf
    <3> QED BY <2>0, <2>1, <3>1 DEF Exists, Taking
  <2>2. CASE queue # <<>> /\ Pop /\ pc' = "resolve"
    <3>1. /\ current' = queue[1]
          /\ DOMAIN queue' = 1 .. Len(queue) - 1
          /\ \A j \in 1 .. Len(queue) - 1 : queue'[j] = queue[j + 1]
      BY <1>0, <2>2, HeadTailProperties DEF Pop
    <3>2. QueuedKeys = {current'.key} \union QueuedKeys'
      <4>1. ASSUME NEW i \in DOMAIN queue
            PROVE  queue[i].key \in {current'.key} \union QueuedKeys'
        <5>1. CASE i = 1
          BY <3>1, <5>1
        <5>2. CASE i # 1
          <6>1. i - 1 \in DOMAIN queue' /\ queue'[i - 1] = queue[i]
            BY <1>0, <3>1, <5>2
          <6> QED BY <6>1 DEF QueuedKeys
        <5> QED BY <5>1, <5>2
      <4>2. ASSUME NEW i \in DOMAIN queue'
            PROVE  queue'[i].key \in QueuedKeys
        <5>1. i + 1 \in DOMAIN queue /\ queue'[i] = queue[i + 1]
          BY <1>0, <3>1
        <5> QED BY <5>1 DEF QueuedKeys
      <4>3. current'.key \in QueuedKeys
        <5>1. 1 \in DOMAIN queue
          BY <1>0, <2>2
        <5> QED BY <3>1, <5>1 DEF QueuedKeys
      <4> QED BY <4>1, <4>2, <4>3 DEF QueuedKeys
    <3>3. \A q : DevicesOf(q)' = DevicesOf(q)
      BY <2>0 DEF DevicesOf
    <3>4. Unsaid' = KeysOf(DevicesOf(current'.key))
      <4>1. needs' = needs /\ pc' = "resolve"
        BY <2>0, <2>2
      <4> QED BY <4>1 DEF Unsaid, KeysOf, DevicesOf, Taking, Holdable
    <3>5. QueuedMachines \subseteq Unsaid' \union QueuedMachines'
      BY <3>2, <3>3, <3>4 DEF QueuedMachines, KeysOf
    <3>6. /\ \A q \in QueuedKeys' : Exists(q)'
          /\ Exists(current.key)'
      BY <2>0, <3>2 DEF Exists
    <3> QED BY <2>0, <2>2, <3>5, <3>6 DEF Taking
  <2> QED BY <1>1, <2>1, <2>2 DEF Drain, GoTo
<1>2. ASSUME NEW k \in Keys, NEW b \in BOOLEAN, Enqueue(k, b)
      PROVE  WordInv'
  <2> DEFINE e == [key |-> k, powerOff |-> b]
  <2>1. /\ UNCHANGED <<word, needs, pbss, call, todo, held, current>>
        /\ pc' = pc \/ (pc = "none" /\ pc' = "drain")
        /\ Exists(k)
    <3>1. pc' = IF pc = "none" THEN "drain" ELSE pc
      BY <1>2 DEF Enqueue, EnsureWorker
    <3>2. UNCHANGED <<word, needs, pbss, call, todo, held, current>> /\ Exists(k)
      BY <1>2 DEF Enqueue, leaseVars, cfgVars, runVars, histVars
    <3> QED BY <3>1, <3>2
  <2>2. queue' = Append(queue, e) /\ e.key = k
    BY <1>2 DEF Enqueue
  <2>3. e \in Item
    BY DEF Item
  <2> HIDE DEF e
  <2>4. /\ DOMAIN queue' = 1 .. Len(queue) + 1 /\ queue'[Len(queue) + 1] = e
        /\ \A i \in 1 .. Len(queue) : queue'[i] = queue[i]
    BY <1>0, <2>2, <2>3
  <2>5. QueuedKeys' = QueuedKeys \union {k}
    <3>1. QueuedKeys \subseteq QueuedKeys'
      BY <1>0, <2>4 DEF QueuedKeys
    <3>2. ASSUME NEW i \in DOMAIN queue' PROVE queue'[i].key \in QueuedKeys \union {k}
      BY <1>0, <2>2, <2>4 DEF QueuedKeys
    <3>3. k \in QueuedKeys'
      <4>1. Len(queue) + 1 \in DOMAIN queue'
        BY <1>0, <2>4
      <4> QED BY <2>2, <2>4, <4>1 DEF QueuedKeys
    <3> QED BY <3>1, <3>2, <3>3 DEF QueuedKeys
  <2>6. \A q : DevicesOf(q)' = DevicesOf(q)
    BY <2>1 DEF DevicesOf
  <2>7. QueuedMachines \subseteq QueuedMachines'
    BY <2>5, <2>6 DEF QueuedMachines, KeysOf
  <2>8. Unsaid' = Unsaid
    BY <2>1 DEF Unsaid, DevicesOf, Taking, Holdable
  <2>9. \A q \in QueuedKeys' : Exists(q)'
    BY <2>1, <2>5 DEF Exists
  <2>10. Key(Worker)' = Key(Worker) /\ (pc = "resolve" => Exists(current.key)')
    BY <2>1 DEF Key, Exists
  <2> QED BY <2>1, <2>7, <2>8, <2>9, <2>10 DEF Taking
<1> QED BY <1>1, <1>2

\* The machines of a run's list and of what it holds, while it takes them.
LEMMA WordTake ==
  ASSUME Undisturbed, OneMachineEach, TypeInv, HoldInv, WordInv,
         Resolve \/ AcquireNext \/ AcquireDone
  PROVE  WordInv'
<1> USE DEF WordInv, Holdable, Taking, GoTo
<1>0. /\ ~Fault /\ Worker \in Threads /\ call \in [Threads -> Call]
      /\ todo \in Seq(Devices) /\ held \in Seq(Devices) /\ Len(todo) \in Nat
      /\ word \in [LeaseKeys -> ReleaseOutcome \cup {"none", "unreachable"}]
  BY WorkerKey DEF Undisturbed, Fault, TypeInv, TypeOK, DbTypeOK, RunTypeOK, LeaseTypeOK, HistTypeOK
<1>1. UNCHANGED <<needs, pbss, queue>>
  BY DEF Resolve, AcquireNext, AcquireDone, cfgVars, queueVars
<1>2. /\ QueuedKeys' = QueuedKeys /\ QueuedMachines' = QueuedMachines
      /\ \A q \in QueuedKeys : Exists(q)'
  <2>1. QueuedKeys' = QueuedKeys /\ \A q : Exists(q)' = Exists(q)
    BY <1>1 DEF QueuedKeys, Exists
  <2>2. QueuedMachines' = QueuedMachines
    BY <1>1 DEF QueuedMachines, KeysOf, DevicesOf, QueuedKeys
  <2> QED BY <2>1, <2>2
<1>3. CASE Resolve
  <2>1. current.key \in Keys /\ Exists(current.key)
    BY <1>3 DEF Resolve, TypeInv, WorkerInv, CurrentIsSet, Item
  <2>2. /\ pc = "resolve" /\ pc' = "lock" /\ todo' = Resolved(current.key) /\ UNCHANGED word
        /\ held' = held
    BY <1>3, <2>1 DEF Resolve, histVars
  <2>3. Len(todo') = 1 /\ Machine(todo') = Unsaid
    BY <2>1, <2>2, ResolvedAll DEF Unsaid
  <2>4. Unsaid \subseteq Unsaid'
    BY <2>2, <2>3 DEF Unsaid
  <2> QED BY <1>2, <2>2, <2>3, <2>4
<1>4. CASE AcquireNext
  <2>1. pc = "acquire" /\ UNCHANGED <<todo, held, word>>
    BY <1>4 DEF AcquireNext, runVars, histVars
  <2>2. CASE todo = <<>> /\ pc' = "check"
    <3>1. Unsaid' = Machine(held) /\ Unsaid = Machine(held)
      BY <2>1, <2>2, MachineOfNone DEF Unsaid
    <3> QED BY <1>2, <2>1, <2>2, <3>1
  <2>3. CASE pc' = "acquiring"
    <3>1. Unsaid' = Unsaid
      BY <2>1, <2>3 DEF Unsaid
    <3> QED BY <1>2, <2>1, <2>3, <3>1
  <2> QED BY <1>0, <1>4, <2>2, <2>3 DEF AcquireNext
<1>5. CASE AcquireDone
  <2> DEFINE d == call[Worker].dev
  <2>1. /\ pc = "acquiring" /\ d = Head(todo) /\ todo # <<>> /\ d \in Devices
        /\ Unsaid = Machine(todo) \union Machine(held)
    BY <1>0, <1>5 DEF AcquireDone, HoldInv, TypeInv, WorkerInv, LoopHasElement, Unsaid
  <2>2. Machine(todo) = {LeaseKey[d]} \union Machine(Tail(todo)) /\ Len(Tail(todo)) = 0
    <3>1. Len(todo) = 1
      <4>1. Len(todo) <= 1
        BY <2>1
      <4>2. Len(todo) # 0
        BY <1>0, <2>1, EmptySeq
      <4>3. \A n \in Nat : n <= 1 /\ n # 0 => n = 1
        OBVIOUS
      <4> QED BY ONLY <1>0, <4>1, <4>2, <4>3
    <3>2. Len(Tail(todo)) = 0
      BY <1>0, <2>1, <3>1, HeadTailProperties
    <3> QED BY <1>0, <2>1, <3>2, MachineOfTail
  <2>3. Tail(todo) = <<>>
    <3>1. Tail(todo) \in Seq(Devices)
      BY <1>0, <2>1, HeadTailProperties
    <3> QED BY <2>2, <3>1, EmptySeq
  <2>4. CASE held' = Append(held, d) /\ todo' = Tail(todo) /\ pc' = "acquire" /\ UNCHANGED word
    <3>1. Machine(held') = Machine(held) \union {LeaseKey[d]}
      BY <1>0, <2>1, <2>4, MachineOfAppend
    <3>2. Unsaid' = Machine(todo') \union Machine(held')
      BY <2>4 DEF Unsaid
    <3> QED BY <1>2, <2>1, <2>2, <2>4, <3>1, <3>2
  <2>5. CASE /\ word' = [word EXCEPT ![LeaseKey[d]] = "unreachable"]
             /\ pc' = "unreachable" /\ UNCHANGED <<held, todo>>
    <3>1. Unsaid' = Machine(held)
      BY <2>5 DEF Unsaid
    <3>2. Unsaid \subseteq Unsaid' \union {LeaseKey[d]}
      BY <2>1, <2>2, <2>3, <3>1, MachineOfNone
    <3>3. ASSUME NEW k \in LeaseKeys, word'[k] = "still_needed"
          PROVE  word[k] = "still_needed" /\ k # LeaseKey[d]
      BY <1>0, <2>5, <3>3
    <3> QED BY <1>2, <2>1, <2>5, <3>2, <3>3
  <2> QED BY <1>0, <1>5, <2>4, <2>5 DEF AcquireDone
<1> QED BY <1>3, <1>4, <1>5

\* ... and while it returns them: each gets its word.
LEMMA WordGive ==
  ASSUME Undisturbed, TypeInv, HoldInv, EndInv, WordInv,
         DecidePolicy \/ ReleaseNext \/ ReleaseDone \/ Released
  PROVE  WordInv'
<1> USE DEF WordInv, Holdable, Taking, GoTo
<1>0. /\ ~Fault /\ Worker \in Threads /\ call \in [Threads -> Call]
      /\ todo \in Seq(Devices) /\ held \in Seq(Devices) /\ holders \in [LeaseKeys -> Nat]
      /\ word \in [LeaseKeys -> ReleaseOutcome \cup {"none", "unreachable"}]
  BY WorkerKey DEF Undisturbed, Fault, TypeInv, TypeOK, DbTypeOK, RunTypeOK, LeaseTypeOK, HistTypeOK
<1>1. UNCHANGED <<needs, pbss, queue>>
  BY DEF DecidePolicy, ReleaseNext, ReleaseDone, Released, cfgVars, queueVars
<1>2. /\ QueuedKeys' = QueuedKeys /\ QueuedMachines' = QueuedMachines
      /\ \A q \in QueuedKeys : Exists(q)'
  <2>1. QueuedKeys' = QueuedKeys /\ \A q : Exists(q)' = Exists(q)
    BY <1>1 DEF QueuedKeys, Exists
  <2>2. QueuedMachines' = QueuedMachines
    BY <1>1 DEF QueuedMachines, KeysOf, DevicesOf, QueuedKeys
  <2> QED BY <2>1, <2>2
<1>3. CASE DecidePolicy
  <2>1. pc = "policy" /\ pc' = "release" /\ todo' = held /\ UNCHANGED word
    BY <1>3 DEF DecidePolicy, ToRelease, histVars
  <2>2. Unsaid' = Unsaid
    BY <2>1 DEF Unsaid
  <2> QED BY <1>2, <2>1, <2>2
<1>4. CASE ReleaseNext
  <2>1. /\ pc = "release" /\ pc' = "releasing" /\ todo # <<>> /\ UNCHANGED <<todo, word>>
        /\ ReleaseCall(Worker, Head(todo), policy)
    BY <1>0, <1>4 DEF ReleaseNext, runVars, histVars
  <2> DEFINE k == LeaseKey[Head(todo)]
  <2>2. k \in LeaseKeys /\ Head(todo) \in Devices
    BY <1>0, <2>1, LeaseAssumption
  <2>3. holders[k] = 1
    <3>1. k \in Machine(todo)
      BY <1>0, <2>1, MachineOfTail
    <3> QED BY <2>1, <2>2, <3>1 DEF HoldInv, HeldKeys
  <2>4. holders'[k] = 0
    BY <1>0, <2>1, <2>2, <2>3 DEF ReleaseCall, Unheld
  <2>5. /\ call'[Worker].dev = Head(todo)
        /\ call'[Worker].at = "done" => call'[Worker].result # "still_needed"
    BY <1>0, <2>1, <2>2, <2>3, <2>4 DEF ReleaseCall, Unheld, Frame
  <2>6. Unsaid' = Unsaid
    BY <2>1 DEF Unsaid
  <2> QED BY <1>2, <2>1, <2>5, <2>6
<1>5. CASE ReleaseDone
  <2>1. /\ pc = "releasing" /\ pc' = "release" /\ todo' = Tail(todo) /\ todo # <<>>
        /\ call[Worker].dev = Head(todo) /\ call[Worker].at = "done"
        /\ word' = [word EXCEPT ![Key(Worker)] = call[Worker].result]
    BY <1>0, <1>5 DEF ReleaseDone, TypeInv, WorkerInv, LoopHasElement, EndInv, Closing
  <2>2. Unsaid = {Key(Worker)} \union Unsaid'
    <3>1. Unsaid = Machine(todo) /\ Unsaid' = Machine(Tail(todo))
      BY <2>1 DEF Unsaid
    <3> QED BY <1>0, <2>1, <3>1, MachineOfTail DEF Key
  <2>3. ASSUME NEW k \in LeaseKeys, word'[k] = "still_needed"
        PROVE  k \in Unsaid' \union QueuedMachines
    <3>1. CASE k = Key(Worker)
      BY <1>0, <2>1, <2>3, <3>1
    <3>2. CASE k # Key(Worker)
      BY <1>0, <2>1, <2>2, <2>3, <3>2
    <3> QED BY <3>1, <3>2
  <2> QED BY <1>2, <2>1, <2>3
<1>6. CASE Released
  <2>1. pc = "release" /\ pc' = "unlock" /\ todo = <<>> /\ UNCHANGED word
    BY <1>6 DEF Released
  <2>2. Unsaid = {} /\ Unsaid' = {}
    BY <2>1, MachineOfNone DEF Unsaid
  <2> QED BY <1>2, <2>1, <2>2
<1> QED BY <1>3, <1>4, <1>5, <1>6

\* Every step leaves such a machine to a run that has yet to speak.
LEMMA WordNext ==
  ASSUME Undisturbed, OneMachineEach, TypeInv, HoldInv, EndInv, EarlyInv, WordInv, [Next]_vars
  PROVE  WordInv'
<1>1. CASE LeaseStep
  <2>1. /\ UNCHANGED <<word, needs, pbss, queue, todo, held, pc, current>>
        /\ call'[Worker].dev = call[Worker].dev
    BY <1>1, CallHolds DEF LeaseStep, cfgVars, queueVars, runVars
  <2>2. Unsaid' = Unsaid /\ Key(Worker)' = Key(Worker)
    BY <2>1 DEF Unsaid, KeysOf, DevicesOf, Key, Taking, Holdable
  <2>3. QueuedKeys' = QueuedKeys /\ QueuedMachines' = QueuedMachines
    BY <2>1 DEF QueuedKeys, QueuedMachines, KeysOf, DevicesOf
  <2>4. \A q : Exists(q)' = Exists(q)
    BY <2>1 DEF Exists
  <2>5. (call[Worker].at = "done" /\ call[Worker].result = "still_needed")' =>
          Key(Worker) \in QueuedMachines
    BY <1>1, StillNeededByQueue
  <2> QED BY <2>1, <2>2, <2>3, <2>4, <2>5 DEF WordInv, Taking
<1>2. CASE /\ UNCHANGED <<word, needs, pbss, queue, call, todo, held>>
           /\ \/ UNCHANGED <<pc, current>>
              \/ pc \in Taking /\ pc' \in Taking
              \/ pc \in Holdable /\ pc' \in Holdable
              \/ pc \in {"unlock", "cleanup", "drain"} /\ pc' \in {"unlock", "cleanup", "drain"}
  <2>1. Unsaid' = Unsaid
    BY <1>2 DEF Unsaid, KeysOf, DevicesOf, Taking, Holdable
  <2>2. QueuedKeys' = QueuedKeys /\ QueuedMachines' = QueuedMachines
    BY <1>2 DEF QueuedKeys, QueuedMachines, KeysOf, DevicesOf
  <2>3. \A q : Exists(q)' = Exists(q)
    BY <1>2 DEF Exists
  <2>4. /\ pc' \in Taking => pc \in Taking
        /\ pc' = "releasing" => pc = "releasing"
        /\ pc' = "resolve" => pc = "resolve" /\ current' = current
    BY <1>2 DEF Taking, Holdable
  <2>5. Key(Worker)' = Key(Worker)
    BY <1>2 DEF Key
  <2> QED BY <1>2, <2>1, <2>2, <2>3, <2>4, <2>5 DEF WordInv
<1> QED BY <1>1, <1>2, WordFrame, WordQueue, WordTake, WordGive

\* Once everything is quiet, no machine is up of which the last record says "still needed by
\* another run".  TLC refutes it without any one of the hypotheses: a run of two machines may fail
\* on the one before it takes the other, a queued run may be dequeued or edited away, a failed
\* commit or a restart may take its word (release(), _release_all).
THEOREM NobodyIsLeftWaiting ==
  ASSUME Undisturbed, OneMachineEach
  PROVE  Spec => []NothingLeftOnSilently
<1>1. Init => HoldInv /\ EndInv /\ EarlyInv /\ WordInv
  <2>1. Init => HoldInv
    BY MachineOfNone DEF Init, LeaseInit, HoldInv, HeldKeys, Taking, Holding
  <2>2. Init => EndInv
    BY DEF Init, EndInv, Working, Closing
  <2>3. Init => EarlyInv
    BY WorkerKey, NoCallType DEF Init, LeaseInit, EarlyInv
  <2>4. Init => WordInv
    BY DEF Init, WordInv, QueuedKeys, Taking
  <2> QED BY <2>1, <2>2, <2>3, <2>4
<1>2. /\ TypeInv /\ NoDuplicateSubject
      /\ HoldInv /\ EndInv /\ EarlyInv /\ WordInv /\ [Next]_vars
      => (HoldInv /\ EndInv /\ EarlyInv /\ WordInv)'
  <2>1. MaxFaults = 0 /\ "edit" \notin UserActs /\ "restart" \notin UserActs
    BY DEF Undisturbed
  <2> QED BY <2>1, HoldNext, EndNext, EarlyNext, WordNext
<1>3. WordInv => NothingLeftOnSilently
  <2> SUFFICES ASSUME WordInv, AtRest, queue = <<>>, NEW k \in LeaseKeys
               PROVE  word[k] # "still_needed"
    BY DEF NothingLeftOnSilently
  <2>1. Unsaid = {} /\ QueuedKeys = {}
    BY DEF AtRest, Unsaid, QueuedKeys, Taking, Holdable
  <2>2. QueuedMachines = {}
    BY <2>1 DEF QueuedMachines, KeysOf
  <2> QED BY <2>1, <2>2 DEF WordInv
<1> QED BY <1>1, <1>2, <1>3, TypeInvariant, SubjectsAreUnique, PTL DEF Spec

-----------------------------------------------------------------------------
(***************************************************************************)
(* The line: the popped run first, if it still waits for the lock.          *)
(***************************************************************************)
Waits == pc \in {"resolve", "lock"}
QueueKeys == [i \in DOMAIN queue |-> queue[i].key]

\* The queue's keys are a sequence of keys as long as the queue.
LEMMA QueueKeysType ==
  ASSUME TypeInv
  PROVE  /\ queue \in Seq(Item) /\ Len(queue) \in Nat /\ DOMAIN queue = 1 .. Len(queue)
         /\ QueueKeys \in Seq(Keys) /\ Len(QueueKeys) = Len(queue)
         /\ \A i \in 1 .. Len(queue) : queue[i] \in Item /\ QueueKeys[i] = queue[i].key
<1>1. queue \in Seq(Item)
  BY DEF TypeInv, TypeOK, QueueTypeOK
<1>2. \A i \in 1 .. Len(queue) : queue[i] \in Item
  BY <1>1
<1>3. \A e \in Item : e.key \in Keys
  BY DEF Item
<1>4. Len(queue) \in Nat /\ DOMAIN queue = 1 .. Len(queue)
  BY <1>1
<1>5. QueueKeys \in [1 .. Len(queue) -> Keys]
  BY <1>2, <1>3, <1>4 DEF QueueKeys
<1>6. QueueKeys \in Seq(Keys) /\ Len(QueueKeys) = Len(queue)
  BY <1>4, <1>5
<1>7. \A i \in 1 .. Len(queue) : QueueKeys[i] = queue[i].key
  BY <1>4 DEF QueueKeys
<1> QED BY <1>1, <1>2, <1>4, <1>6, <1>7

\* The line, element by element.
LineFacts ==
  /\ WaitingKeys \in Seq(Keys) /\ queue \in Seq(Item)
  /\ QueueKeys \in Seq(Keys) /\ Len(QueueKeys) = Len(queue)
  /\ \A i \in 1 .. Len(queue) : QueueKeys[i] = queue[i].key
  /\ Waits => /\ Len(WaitingKeys) = Len(queue) + 1
              /\ WaitingKeys[1] = current.key
              /\ \A i \in 1 .. Len(queue) : WaitingKeys[i + 1] = queue[i].key
  /\ ~Waits => WaitingKeys = QueueKeys

\* The facts hold wherever the types do.
LEMMA LineShape == TypeInv => LineFacts
<1> SUFFICES ASSUME TypeInv PROVE LineFacts
  OBVIOUS
<1>1. CASE Waits
  <2>1. current.key \in Keys
    BY <1>1 DEF Waits, Item, TypeInv, WorkerInv, CurrentIsSet
  <2> DEFINE h == <<current.key>>
             n == Len(h)
             m == Len(QueueKeys)
  <2>2. h \in Seq(Keys) /\ n = 1 /\ h[1] = current.key
    BY <2>1
  <2>3. WaitingKeys = h \o QueueKeys
    BY <1>1 DEF WaitingKeys, Waits, QueueKeys
  <2>a. QueueKeys \in Seq(Keys) /\ m = Len(queue) /\ m \in Nat
    BY QueueKeysType
  <2> HIDE DEF h
  <2>4. /\ h \o QueueKeys \in Seq(Keys)
        /\ Len(h \o QueueKeys) = n + m
        /\ \A i \in 1 .. n + m : (h \o QueueKeys)[i] = IF i <= n THEN h[i] ELSE QueueKeys[i - n]
    BY <2>2, <2>a, ConcatProperties
  <2> HIDE DEF n, m
  <2>5. WaitingKeys[1] = current.key
    BY <2>2, <2>3, <2>4, <2>a
  <2>6. ASSUME NEW i \in 1 .. Len(queue) PROVE WaitingKeys[i + 1] = queue[i].key
    <3>1. i + 1 \in 1 .. n + m /\ ~(i + 1 <= n) /\ (i + 1) - n = i
      BY <2>2, <2>a, QueueKeysType
    <3>2. WaitingKeys[i + 1] = QueueKeys[(i + 1) - n]
      BY <2>3, <2>4, <3>1
    <3> QED BY <3>1, <3>2, QueueKeysType
  <2>7. Len(WaitingKeys) = Len(queue) + 1
    BY <2>2, <2>3, <2>4, <2>a
  <2> QED BY <1>1, <2>3, <2>4, <2>5, <2>6, <2>7, QueueKeysType DEF LineFacts
<1>2. CASE ~Waits
  <2>1. WaitingKeys = <<>> \o QueueKeys
    BY <1>2 DEF WaitingKeys, Waits, QueueKeys
  <2> QED BY <1>2, <2>1, QueueKeysType DEF LineFacts
<1> QED BY <1>1, <1>2

\* The same in the next state.
LEMMA LineShapeNext == TypeInv' => LineFacts'
  BY LineShape, PTL

-----------------------------------------------------------------------------
(***************************************************************************)
(* What each operation does to the line and to the fleet.                   *)
(***************************************************************************)
BrokerStep == [Broker!BrokerNext]_<<WaitingKeys, FleetOwner>>

\* These steps leave the line and the fleet as they are.
LEMMA BrokerFrame ==
  ASSUME TypeInv, [Next]_vars
  PROVE  \/ \E k \in Keys, b \in BOOLEAN : Enqueue(k, b)
         \/ \E i \in DOMAIN queue : Dequeue(i)
         \/ Drain \/ Resolve \/ TakeLock \/ InsertRow \/ Unlock \/ Cleanup \/ Restart
         \/ \E u \in Clickers, d \in Devices : Click(u, d)
         \/ \E u \in Clickers : PowerOffNow(u)
         \/ UNCHANGED <<queue, current, lock>> /\ (Waits' <=> Waits)
<1> DEFINE Quiet == UNCHANGED <<queue, current, lock>> /\ (Waits' <=> Waits)
<1> USE DEF Waits, GoTo, queueVars, lockVars
<1>1. ASSUME ClearCancel \/ ClearPowerOff \/ SetRunId
      PROVE  Quiet
  BY <1>1 DEF ClearCancel, ClearPowerOff, SetRunId
<1>2. ASSUME AcquireNext \/ AcquireDone \/ AcquireFailed \/ CheckCancel \/ JobEnd \/ JobFailed
      PROVE  Quiet
  BY <1>2 DEF AcquireNext, AcquireDone, AcquireFailed, CheckCancel, JobEnd, JobFailed, FinishRun
<1>3. ASSUME DecidePolicy \/ ReleaseNext \/ ReleaseDone \/ Released \/ Unwind
      PROVE  Quiet
  BY <1>3 DEF DecidePolicy, ReleaseNext, ReleaseDone, Released, Unwind, AfterFailedFinish
<1>4. ASSUME LeaseStep \/ StopStep \/ Machines \/ UNCHANGED vars
      PROVE  Quiet
  BY <1>4 DEF LeaseStep, StopStep, StopCheck, StopPowerOff, StopSet, StopSweep, StopVars, Machines, vars
<1>5. ASSUME \/ \E d \in Devices : Wake(d)
             \/ \E r \in Routes, n \in Needs : EditRoute(r, n)
             \/ \E d \in Devices : EditDevice(d)
      PROVE  Quiet
  BY <1>5 DEF Wake, EditRoute, EditDevice
<1> QED BY <1>1, <1>2, <1>3, <1>4, <1>5 DEF Next, WorkerStep, UserStep

\* A run is asked for: it goes to the end of the line.
LEMMA EnqueueSubmits ==
  ASSUME TypeInv, TypeInv', NEW k \in Keys, NEW b \in BOOLEAN, Enqueue(k, b)
  PROVE  Broker!Submit(k)
<1> DEFINE e == [key |-> k, powerOff |-> b]
<1>1. e \in Item /\ e.key = k
  BY DEF Item
<1>2. queue' = Append(queue, e) /\ UNCHANGED <<current, lock>> /\ ~Taken(k) /\ (Waits' <=> Waits)
  BY DEF Enqueue, lockVars, EnsureWorker, Waits
<1> HIDE DEF e
<1>3. LineFacts /\ LineFacts' /\ Len(queue) \in Nat
  BY LineShape, LineShapeNext, QueueKeysType
<1>4. /\ Len(queue') = Len(queue) + 1 /\ queue'[Len(queue) + 1].key = k
      /\ \A i \in 1 .. Len(queue) : queue'[i] = queue[i]
  BY <1>1, <1>2, <1>3 DEF LineFacts
<1>5. WaitingKeys' = Append(WaitingKeys, k)
  <2> DEFINE t == Append(WaitingKeys, k)
             n == Len(WaitingKeys)
  <2>1. n \in Nat /\ t \in Seq(Keys) /\ Len(t) = n + 1 /\ t[n + 1] = k
        /\ \A i \in 1 .. n : t[i] = WaitingKeys[i]
    BY <1>3 DEF LineFacts
  <2>2. Len(WaitingKeys') = n + 1 /\ \A i \in 1 .. n + 1 : WaitingKeys'[i] = t[i]
    <3>1. CASE Waits
      <4>1. n = Len(queue) + 1 /\ Len(WaitingKeys') = n + 1
        BY <1>2, <1>3, <1>4, <3>1 DEF LineFacts
      <4>2. ASSUME NEW i \in 1 .. n + 1 PROVE WaitingKeys'[i] = t[i]
        <5>1. CASE i = 1
          BY <1>2, <1>3, <2>1, <3>1, <4>1, <5>1 DEF LineFacts
        <5>2. CASE i # 1
          <6> DEFINE j == i - 1
          <6>1. j \in 1 .. Len(queue) + 1 /\ i = j + 1
            BY <1>3, <4>1, <5>2
          <6> HIDE DEF j
          <6>2. WaitingKeys'[j + 1] = queue'[j].key
            BY <1>2, <1>3, <1>4, <3>1, <6>1 DEF LineFacts
          <6>3. j \in 1 .. Len(queue) => t[j + 1] = queue[j].key
            <7>1. j \in 1 .. Len(queue) => j + 1 \in 1 .. n
              BY <1>3, <4>1
            <7>2. j \in 1 .. Len(queue) => t[j + 1] = WaitingKeys[j + 1]
              BY <2>1, <7>1
            <7> QED BY <1>3, <3>1, <7>2 DEF LineFacts
          <6> QED BY <1>3, <1>4, <2>1, <4>1, <6>1, <6>2, <6>3
        <5> QED BY <5>1, <5>2
      <4> QED BY <4>1, <4>2
    <3>2. CASE ~Waits
      <4>1. n = Len(queue) /\ Len(WaitingKeys') = n + 1
        BY <1>2, <1>3, <1>4, <3>2 DEF LineFacts
      <4>2. ASSUME NEW i \in 1 .. n + 1 PROVE WaitingKeys'[i] = t[i]
        <5>1. WaitingKeys'[i] = queue'[i].key
          BY <1>2, <1>3, <1>4, <3>2, <4>1, <4>2 DEF LineFacts
        <5>2. i \in 1 .. n => t[i] = queue[i].key
          BY <1>3, <2>1, <3>2, <4>1 DEF LineFacts
        <5> QED BY <1>3, <1>4, <2>1, <4>1, <5>1, <5>2
      <4> QED BY <4>1, <4>2
    <3> QED BY <3>1, <3>2
  <2>3. t \in Seq(Keys) /\ WaitingKeys' \in Seq(Keys)
    BY <1>3, <2>1 DEF LineFacts
  <2> HIDE DEF t, n
  <2>4. WaitingKeys' = t
    BY <2>1, <2>2, <2>3, SeqEqual
  <2> QED BY <2>4 DEF t
<1>6. k \notin Broker!ToSet(WaitingKeys)
  <2> SUFFICES ASSUME NEW i \in DOMAIN WaitingKeys, WaitingKeys[i] = k PROVE FALSE
    BY DEF Broker!ToSet
  <2>1. current.key # k /\ \A j \in 1 .. Len(queue) : queue[j].key # k
    <3>1. DOMAIN queue = 1 .. Len(queue)
      BY QueueKeysType
    <3> QED BY <1>2, <3>1 DEF Taken, QueuedKeys
  <2>2. i \in 1 .. Len(WaitingKeys)
    BY <1>3 DEF LineFacts
  <2>3. CASE Waits
    <3>1. CASE i = 1
      BY <1>3, <2>1, <2>3, <3>1 DEF LineFacts
    <3>2. CASE i # 1
      <4> DEFINE j == i - 1
      <4>1. j \in 1 .. Len(queue) /\ i = j + 1
        BY <1>3, <2>2, <2>3, <3>2 DEF LineFacts
      <4> HIDE DEF j
      <4> QED BY <1>3, <2>1, <2>3, <4>1 DEF LineFacts
    <3> QED BY <3>1, <3>2
  <2>4. CASE ~Waits
    BY <1>3, <2>1, <2>2, <2>4 DEF LineFacts
  <2> QED BY <2>3, <2>4
<1>7. FleetOwner' = FleetOwner /\ k # FleetOwner
  BY <1>2, OwnerAssumption DEF FleetOwner, Taken
<1> QED BY <1>5, <1>6, <1>7 DEF Broker!Submit

\* A waiting run is taken out of the queue: it leaves the line where it stood.
LEMMA DequeueWithdraws ==
  ASSUME TypeInv, TypeInv', NEW q \in DOMAIN queue, Dequeue(q)
  PROVE  \E i \in DOMAIN WaitingKeys : Broker!Withdraw(i)
<1> DEFINE p == IF Waits THEN q + 1 ELSE q
           t == RemoveAt(WaitingKeys, p)
<1>1. LineFacts /\ LineFacts' /\ Len(queue) \in Nat /\ q \in 1 .. Len(queue)
  BY LineShape, LineShapeNext, QueueKeysType
<1>2. UNCHANGED <<current, lock, pc>> /\ (Waits' <=> Waits) /\ FleetOwner' = FleetOwner
  BY DEF Dequeue, lockVars, Waits, FleetOwner
<1>3. /\ Len(queue') = Len(queue) - 1
      /\ \A j \in 1 .. Len(queue) - 1 : queue'[j] = IF j < q THEN queue[j] ELSE queue[j + 1]
  BY <1>1, RemoveAtSeq DEF Dequeue, LineFacts
<1>4. p \in DOMAIN WaitingKeys
  BY <1>1 DEF LineFacts
<1>5. /\ t \in Seq(Keys) /\ Len(t) = Len(WaitingKeys) - 1
      /\ \A j \in 1 .. Len(WaitingKeys) - 1 :
            t[j] = IF j < p THEN WaitingKeys[j] ELSE WaitingKeys[j + 1]
  BY <1>1, <1>4, RemoveAtSeq DEF LineFacts
<1>6. WaitingKeys' \in Seq(Keys)
  BY <1>1 DEF LineFacts
<1> HIDE DEF t
<1>7. Len(WaitingKeys') = Len(t) /\ \A i \in 1 .. Len(t) : WaitingKeys'[i] = t[i]
  <2>1. CASE Waits
    <3>1. /\ p = q + 1 /\ Len(WaitingKeys) = Len(queue) + 1 /\ Len(t) = Len(queue)
          /\ Len(WaitingKeys') = Len(queue)
      BY <1>1, <1>2, <1>3, <1>5, <2>1 DEF LineFacts
    <3>2. ASSUME NEW i \in 1 .. Len(queue) PROVE WaitingKeys'[i] = t[i]
      <4>1. CASE i = 1
        BY <1>1, <1>2, <1>5, <2>1, <3>1, <4>1 DEF LineFacts
      <4>2. CASE i # 1
        <5> DEFINE j == i - 1
        <5>1. j \in 1 .. Len(queue) - 1 /\ i = j + 1
          BY <1>1, <4>2
        <5> HIDE DEF j, p
        <5>2. WaitingKeys'[j + 1] = IF j < q THEN queue[j].key ELSE queue[j + 1].key
          BY <1>1, <1>2, <1>3, <2>1, <5>1 DEF LineFacts
        <5>3. t[j + 1] = IF j < q THEN WaitingKeys[j + 1] ELSE WaitingKeys[(j + 1) + 1]
          BY <1>1, <1>5, <3>1, <5>1
        <5>4. WaitingKeys[j + 1] = queue[j].key /\ WaitingKeys[(j + 1) + 1] = queue[j + 1].key
          BY <1>1, <2>1, <5>1 DEF LineFacts
        <5> QED BY <5>1, <5>2, <5>3, <5>4
      <4> QED BY <4>1, <4>2
    <3> QED BY <3>1, <3>2
  <2>2. CASE ~Waits
    <3>1. /\ p = q /\ Len(WaitingKeys) = Len(queue) /\ Len(t) = Len(queue) - 1
          /\ Len(WaitingKeys') = Len(queue) - 1
      BY <1>1, <1>2, <1>3, <1>5, <2>2 DEF LineFacts
    <3>2. ASSUME NEW i \in 1 .. Len(queue) - 1 PROVE WaitingKeys'[i] = t[i]
      <4> HIDE DEF p
      <4>1. WaitingKeys'[i] = IF i < q THEN queue[i].key ELSE queue[i + 1].key
        BY <1>1, <1>2, <1>3, <2>2, <3>1 DEF LineFacts
      <4>2. t[i] = IF i < q THEN WaitingKeys[i] ELSE WaitingKeys[i + 1]
        BY <1>5, <3>1
      <4>3. WaitingKeys[i] = queue[i].key /\ WaitingKeys[i + 1] = queue[i + 1].key
        BY <1>1, <2>2 DEF LineFacts
      <4> QED BY <4>1, <4>2, <4>3
    <3> QED BY <3>1, <3>2
  <2> QED BY <2>1, <2>2
<1>8. WaitingKeys' = t
  BY <1>5, <1>6, <1>7, SeqEqual
<1>9. Broker!Withdraw(p)
  BY <1>2, <1>8 DEF t, RemoveAt, Broker!Withdraw, Broker!RemoveAt
<1> QED BY <1>4, <1>9

\* The head is popped: it waits for the lock now, still first in the line.
LEMMA DrainStutters ==
  ASSUME TypeInv, TypeInv', LockDiscipline, Drain
  PROVE  UNCHANGED <<WaitingKeys, FleetOwner>>
<1>1. LineFacts /\ LineFacts' /\ Len(queue) \in Nat /\ QueueKeys \in Seq(Keys) /\ ~Waits
  BY LineShape, LineShapeNext, QueueKeysType DEF LineFacts, Drain, Waits
<1>2. FleetOwner' = FleetOwner
  BY DEF Drain, lockVars, FleetOwner, LockDiscipline, InRun
<1>3. CASE UNCHANGED queueVars /\ pc' = "none"
  <2>1. ~Waits' /\ QueueKeys' = QueueKeys
    BY <1>3 DEF Waits, queueVars, QueueKeys
  <2> QED BY <1>1, <1>2, <2>1 DEF LineFacts
<1>4. CASE queue # <<>> /\ Pop /\ pc' = "resolve"
  <2>1. Waits' /\ current' = queue[1] /\ queue' = Tail(queue)
    BY <1>4 DEF Waits, Pop
  <2>2. /\ Len(queue') = Len(queue) - 1 /\ Len(queue) >= 1
        /\ \A j \in 1 .. Len(queue) - 1 : queue'[j] = queue[j + 1]
    BY <1>1, <1>4, <2>1, HeadTailProperties DEF LineFacts
  <2>3. ASSUME NEW i \in 1 .. Len(queue) PROVE WaitingKeys'[i] = WaitingKeys[i]
    <3>1. WaitingKeys[i] = queue[i].key
      BY <1>1 DEF LineFacts
    <3>2. CASE i = 1
      BY <1>1, <2>1, <3>1, <3>2 DEF LineFacts
    <3>3. CASE i # 1
      <4> DEFINE j == i - 1
      <4>1. j \in 1 .. Len(queue) - 1 /\ i = j + 1
        BY <1>1, <3>3
      <4> HIDE DEF j
      <4>2. WaitingKeys'[j + 1] = queue'[j].key
        BY <1>1, <2>1, <2>2, <4>1 DEF LineFacts
      <4> QED BY <2>2, <3>1, <4>1, <4>2
    <3> QED BY <3>2, <3>3
  <2>4. /\ WaitingKeys \in Seq(Keys) /\ WaitingKeys' \in Seq(Keys)
        /\ Len(WaitingKeys) = Len(queue) /\ Len(WaitingKeys') = Len(queue)
    BY <1>1, <2>1, <2>2 DEF LineFacts
  <2>5. WaitingKeys' = WaitingKeys
    BY <2>3, <2>4, SeqEqual
  <2> QED BY <1>2, <2>5
<1> QED BY <1>3, <1>4 DEF Drain, GoTo

\* The popped run is the first of the line, the queue the rest.
LEMMA FirstOfLine ==
  ASSUME TypeInv, Waits
  PROVE  /\ WaitingKeys # <<>> /\ Head(WaitingKeys) = current.key
         /\ 1 \in DOMAIN WaitingKeys
         /\ Tail(WaitingKeys) = QueueKeys
         /\ RemoveAt(WaitingKeys, 1) = QueueKeys
<1>1. LineFacts /\ Len(queue) \in Nat
  BY LineShape, QueueKeysType
<1>2. /\ WaitingKeys # <<>> /\ Head(WaitingKeys) = current.key
      /\ 1 \in DOMAIN WaitingKeys
  BY <1>1 DEF LineFacts
<1>3. /\ Tail(WaitingKeys) \in Seq(Keys) /\ Len(Tail(WaitingKeys)) = Len(queue)
      /\ \A i \in 1 .. Len(queue) : Tail(WaitingKeys)[i] = WaitingKeys[i + 1]
  BY <1>1, <1>2, HeadTailProperties DEF LineFacts
<1>4. /\ QueueKeys \in Seq(Keys) /\ Len(QueueKeys) = Len(queue)
      /\ \A i \in 1 .. Len(queue) : QueueKeys[i] = WaitingKeys[i + 1]
  BY <1>1 DEF LineFacts
<1>5. /\ RemoveAt(WaitingKeys, 1) \in Seq(Keys) /\ Len(RemoveAt(WaitingKeys, 1)) = Len(queue)
      /\ \A i \in 1 .. Len(queue) : RemoveAt(WaitingKeys, 1)[i] = WaitingKeys[i + 1]
  <2>1. Len(WaitingKeys) - 1 = Len(queue)
    BY <1>1 DEF LineFacts
  <2>2. WaitingKeys \in Seq(Keys)
    BY <1>1 DEF LineFacts
  <2>3. \A i \in 1 .. Len(queue) : ~(i < 1)
    BY <1>1
  <2> QED BY <1>2, <2>1, <2>2, <2>3, RemoveAtSeq
<1>6. Tail(WaitingKeys) = QueueKeys
  <2>1. \A i \in 1 .. Len(queue) : Tail(WaitingKeys)[i] = QueueKeys[i]
    BY <1>3, <1>4
  <2> QED BY <1>3, <1>4, <2>1, SeqEqual
<1>7. RemoveAt(WaitingKeys, 1) = QueueKeys
  <2>1. \A i \in 1 .. Len(queue) : RemoveAt(WaitingKeys, 1)[i] = QueueKeys[i]
    BY <1>4, <1>5
  <2> QED BY <1>4, <1>5, <2>1, SeqEqual
<1> QED BY <1>2, <1>6, <1>7

\* Resolve keeps its place in the line, or leaves it; the lock grants it the fleet.
LEMMA WorkerServes ==
  ASSUME TypeInv, TypeInv', LockDiscipline, Resolve \/ TakeLock
  PROVE  BrokerStep
<1>1. LineFacts /\ LineFacts'
  BY LineShape, LineShapeNext
<1>2. QueueKeys' = QueueKeys /\ Waits /\ current' = current /\ current.key \in Keys
  BY DEF Resolve, TakeLock, queueVars, Waits, QueueKeys, TypeInv, WorkerInv, CurrentIsSet, Item
<1>3. CASE Resolve
  <2>1. FleetOwner' = FleetOwner
    BY <1>2, <1>3 DEF Resolve, lockVars, FleetOwner
  <2>2. CASE pc' = "lock"
    BY <1>2, <1>3, <2>1, <2>2
    DEF BrokerStep, Resolve, WaitingKeys, queueVars
  <2>3. CASE pc' = "cleanup"
    <3>1. WaitingKeys' = RemoveAt(WaitingKeys, 1) /\ 1 \in DOMAIN WaitingKeys
      BY <1>1, <1>2, <2>3, FirstOfLine DEF LineFacts, Waits
    <3>2. Broker!Withdraw(1)
      BY <2>1, <3>1 DEF RemoveAt, Broker!Withdraw, Broker!RemoveAt
    <3> QED BY <3>1, <3>2 DEF BrokerStep, Broker!BrokerNext
  <2> QED BY <1>3, <2>2, <2>3 DEF Resolve, GoTo
<1>4. CASE TakeLock
  <2>1. FleetOwner = Nobody /\ FleetOwner' = Head(WaitingKeys)
    BY <1>2, <1>4, FirstOfLine DEF TakeLock, FleetOwner
  <2>2. WaitingKeys' = Tail(WaitingKeys) /\ WaitingKeys # <<>>
    <3>1. ~Waits'
      BY <1>4 DEF TakeLock, GoTo, Waits
    <3> QED BY <1>1, <1>2, <3>1, FirstOfLine DEF LineFacts
  <2>3. Broker!Grant
    BY <2>1, <2>2 DEF Broker!Grant
  <2> QED BY <2>3 DEF BrokerStep, Broker!BrokerNext
<1> QED BY <1>3, <1>4

\* The fleet is given back, or taken for a click, with nobody moving in the line.
LEMMA FleetChangesHands ==
  ASSUME TypeInv, TypeInv', LockDiscipline,
         \/ InsertRow \/ Unlock \/ Cleanup
         \/ \E u \in Clickers, d \in Devices : Click(u, d)
         \/ \E u \in Clickers : PowerOffNow(u)
  PROVE  BrokerStep
<1> USE DEF BrokerStep, Broker!BrokerNext, FleetOwner
<1>1. UNCHANGED queue /\ (Waits' <=> Waits) /\ (Waits => UNCHANGED current)
  BY DEF InsertRow, Unlock, Cleanup, Click, PowerOffNow, queueVars, Waits, GoTo
<1>2. WaitingKeys' = WaitingKeys
  BY <1>1 DEF WaitingKeys, Waits
<1>3. CASE InsertRow \/ Unlock
  <2>1. current.key \in Keys /\ current' = current /\ lock = "worker"
    BY <1>3 DEF InsertRow, Unlock, queueVars, TypeInv, WorkerInv, CurrentIsSet, Item,
                LockDiscipline, InRun
  <2>2. lock' \in {"worker", "free"}
    BY <1>3, <2>1 DEF InsertRow, GiveLockBack, Unlock
  <2>3. lock' = "free" => Broker!GiveBack
    BY <1>2, <2>1 DEF Broker!GiveBack
  <2> QED BY <1>2, <2>1, <2>2, <2>3
<1>4. CASE Cleanup
  BY <1>2, <1>4 DEF Cleanup, LockDiscipline, InRun
<1>5. CASE \E u \in Clickers, d \in Devices : Click(u, d)
  BY <1>2, <1>5 DEF Click, Exclusive, Broker!UserTakes
<1>6. CASE \E u \in Clickers : PowerOffNow(u)
  BY <1>2, <1>6 DEF PowerOffNow, LockDiscipline, Broker!UserLeaves
<1> QED BY <1>3, <1>4, <1>5, <1>6

-----------------------------------------------------------------------------
\* Runs are served first come, first served, one at a time, none twice in the line, and never
\* together with a manual power-off (enqueue, _drain, _start, exclusive()).
THEOREM ServiceImplementsBroker == Spec => ImplementsBroker
<1>1. Init => Broker!BrokerInit
  <2> SUFFICES ASSUME Init PROVE Broker!BrokerInit
    OBVIOUS
  <2>1. WaitingKeys = <<>>
    <3>1. WaitingKeys = <<>> \o [i \in {} |-> queue[i].key]
      BY DEF Init, WaitingKeys
    <3>2. [i \in {} |-> queue[i].key] = <<>>
      OBVIOUS
    <3> QED BY <3>1, <3>2
  <2>2. FleetOwner = Nobody
    BY DEF Init, FleetOwner
  <2> QED BY <2>1, <2>2 DEF Broker!BrokerInit
<1>2. ASSUME TypeInv, TypeInv', LockDiscipline, [Next]_vars
      PROVE  BrokerStep
  <2> USE DEF BrokerStep, Broker!BrokerNext
  <2>1. ASSUME NEW k \in Keys, NEW b \in BOOLEAN, Enqueue(k, b)
        PROVE  BrokerStep
    BY <1>2, <2>1, EnqueueSubmits
  <2>2. ASSUME NEW i \in DOMAIN queue, Dequeue(i)
        PROVE  BrokerStep
    BY <1>2, <2>2, DequeueWithdraws
  <2>3. CASE Drain
    BY <1>2, <2>3, DrainStutters
  <2>4. CASE Restart
    <3>1. ~Waits' /\ QueueKeys' = <<>> /\ FleetOwner' = Nobody
      BY <2>4 DEF Restart, Waits, QueueKeys, FleetOwner
    <3>2. WaitingKeys' = <<>>
      BY <1>2, <3>1, LineShapeNext DEF LineFacts
    <3> QED BY <3>1, <3>2 DEF Broker!Forget
  <2>5. CASE UNCHANGED <<queue, current, lock>> /\ (Waits' <=> Waits)
    BY <2>5 DEF WaitingKeys, FleetOwner, Waits
  <2> QED BY <1>2, <2>1, <2>2, <2>3, <2>4, <2>5, BrokerFrame, WorkerServes, FleetChangesHands
<1>3. TypeInv /\ [Next]_vars => TypeInv'
  BY NextType
<1> QED BY <1>1, <1>2, <1>3, TypeInvariant, LockIsExclusive, PTL
   DEF Spec, ImplementsBroker, Broker!BrokerSpec, BrokerStep, Broker!brokerVars
==============================================================================
