-------------------------- MODULE JobService_proofs --------------------------
(***************************************************************************)
(* Type correctness of JobService and of the leases it extends, and the     *)
(* safety invariants of its queue, its lock, its stop requests, its leases  *)
(* and its rows: for every fleet, every set of routes, every number of API  *)
(* threads and every bound on runs and failed commits.                      *)
(***************************************************************************)
EXTENDS JobService, SequenceTheorems, TLAPS

-----------------------------------------------------------------------------
(***************************************************************************)
(* What one step of a lease call does: the types it keeps, the places it    *)
(* leads to, when it takes a lease and when it powers a machine off.        *)
(***************************************************************************)
\* The places of an acquire() and of a release() under way.
AcquirePlaces == {"probe", "decide", "wol", "wait", "grace", "count"}
ReleasePlaces == {"pending", "wait_idle", "poweroff"}

\* The first device, of which NoCall is made, is one.
LEMMA AnyDeviceIsDevice == AnyDevice \in Devices
  BY LeaseAssumption DEF AnyDevice

\* A fresh frame is a call record.
LEMMA FrameType ==
  ASSUME NEW d \in Devices, NEW p \in Places
  PROVE  Frame(d, p) \in Call /\ Frame(d, p).at = p
  BY LeaseAssumption DEF Frame, Call, NoResult

LEMMA NoCallType == NoCall \in Call /\ NoCall.at = "idle"
  BY AnyDeviceIsDevice, FrameType DEF NoCall, Places

\* A call moved to another place, or ended with a result, is a call record, of the same device.
LEMMA GotoType ==
  ASSUME LeaseTypeOK, NEW t \in Threads, NEW p \in Places, Goto(t, p)
  PROVE  call' \in [Threads -> Call] /\ call'[t].at = p /\ call'[t].dev = call[t].dev
  BY DEF Goto, LeaseTypeOK, Call

LEMMA ReturnType ==
  ASSUME LeaseTypeOK, NEW t \in Threads, NEW r \in ReleaseOutcome \cup AcquireResult, Return(t, r)
  PROVE  /\ call' \in [Threads -> Call] /\ call'[t].at = "done" /\ call'[t].result = r
         /\ call'[t].dev = call[t].dev
  BY DEF Return, LeaseTypeOK, Call, Places

\* A machine's state stays a state.
LEMMA KeyType ==
  ASSUME LeaseTypeOK, NEW t \in Threads
  PROVE  Key(t) \in LeaseKeys
  BY LeaseAssumption DEF Key, LeaseTypeOK, Call

-----------------------------------------------------------------------------
\* One step of acquire() keeps the types; it stays an acquire(), or ends with its result.
LEMMA AcquireStepType ==
  ASSUME LeaseTypeOK, NEW t \in Threads, NEW c \in BOOLEAN,
         \/ Probe(t) \/ Decide(t, c) \/ SendWol(t) \/ WaitAnswered(t, c) \/ WaitEnded(t, c)
         \/ Grace(t) \/ Count(t)
  PROVE  /\ LeaseTypeOK'
         /\ call[t].at \in AcquirePlaces
         /\ \/ call'[t].at \in AcquirePlaces
            \/ call'[t].at = "done" /\ call'[t].result \in AcquireResult
<1> DEFINE Acquiring == \/ call'[t].at \in AcquirePlaces
                        \/ call'[t].at = "done" /\ call'[t].result \in AcquireResult
<1>1. ASSUME NEW p \in AcquirePlaces, Goto(t, p)
      PROVE  call' \in [Threads -> Call] /\ Acquiring
  BY <1>1, GotoType DEF AcquirePlaces, Places
<1>2. ASSUME NEW r \in AcquireResult, Return(t, r)
      PROVE  call' \in [Threads -> Call] /\ Acquiring
  BY <1>2, ReturnType DEF AcquireResult
<1>3. CASE Probe(t)
  BY <1>1, <1>3 DEF Probe, AcquirePlaces, LeaseTypeOK
<1>4. CASE Decide(t, c)
  BY <1>1, <1>2, <1>4 DEF Decide, AcquirePlaces, AcquireResult, LeaseTypeOK
<1>5. CASE SendWol(t)
  <2>1. box' \in [LeaseKeys -> BoxState]
    BY <1>5, KeyType DEF SendWol, LeaseTypeOK, BoxState
  <2> QED BY <1>1, <1>2, <1>5, <2>1 DEF SendWol, AcquirePlaces, AcquireResult, LeaseTypeOK
<1>6. CASE WaitAnswered(t, c)
  BY <1>1, <1>6 DEF WaitAnswered, AcquirePlaces, LeaseTypeOK
<1>7. CASE WaitEnded(t, c)
  <2>1. CASE /\ call[t].attempt <= WolRetries
             /\ call' = [call EXCEPT ![t].at = "wol", ![t].attempt = @ + 1]
    BY <1>7, <2>1, LeaseAssumption DEF WaitEnded, AcquirePlaces, LeaseTypeOK, Call, Places
  <2>2. CASE Goto(t, "grace") \/ Return(t, "unreachable")
    BY <1>1, <1>2, <1>7, <2>2 DEF WaitEnded, AcquirePlaces, AcquireResult, LeaseTypeOK
  <2> QED BY <1>7, <2>1, <2>2 DEF WaitEnded
<1>8. CASE Grace(t)
  BY <1>1, <1>2, <1>8 DEF Grace, AcquirePlaces, AcquireResult, LeaseTypeOK
<1>9. CASE Count(t)
  <2>1. holders' \in [LeaseKeys -> Nat]
    BY <1>9, KeyType DEF Count, LeaseTypeOK
  <2> QED BY <1>2, <1>9, <2>1 DEF Count, AcquirePlaces, AcquireResult, LeaseTypeOK
<1> QED BY <1>3, <1>4, <1>5, <1>6, <1>7, <1>8, <1>9

\* One step of release() keeps the types; it stays a release(), or ends with an outcome.
LEMMA ReleaseStepType ==
  ASSUME LeaseTypeOK, NEW t \in Threads, NEW pending,
         PendingCheck(t, pending) \/ WaitIdle(t) \/ PowerOffCmd(t)
  PROVE  /\ LeaseTypeOK'
         /\ call[t].at \in ReleasePlaces
         /\ \/ call'[t].at \in ReleasePlaces
            \/ call'[t].at = "done" /\ call'[t].result \in ReleaseOutcome
<1> DEFINE Releasing == \/ call'[t].at \in ReleasePlaces
                        \/ call'[t].at = "done" /\ call'[t].result \in ReleaseOutcome
<1>1. ASSUME NEW p \in ReleasePlaces, Goto(t, p)
      PROVE  call' \in [Threads -> Call] /\ Releasing
  BY <1>1, GotoType DEF ReleasePlaces, Places
<1>2. ASSUME NEW r \in ReleaseOutcome, Return(t, r)
      PROVE  call' \in [Threads -> Call] /\ Releasing
  BY <1>2, ReturnType DEF ReleaseOutcome
<1>3. CASE PendingCheck(t, pending)
  BY <1>1, <1>2, <1>3 DEF PendingCheck, ReleasePlaces, ReleaseOutcome, LeaseTypeOK
<1>4. CASE WaitIdle(t)
  BY <1>1, <1>2, <1>4 DEF WaitIdle, ReleasePlaces, ReleaseOutcome, LeaseTypeOK
<1>5. CASE PowerOffCmd(t)
  <2>1. box' \in [LeaseKeys -> BoxState]
    BY <1>5, KeyType DEF PowerOffCmd, SentPowerOff, LostPowerOff, LeaseTypeOK, BoxState
  <2> QED BY <1>2, <1>5, <2>1 DEF PowerOffCmd, ReleasePlaces, ReleaseOutcome, LeaseTypeOK
<1> QED BY <1>3, <1>4, <1>5

\* A machine's own steps keep the types.
LEMMA BoxStepType ==
  ASSUME LeaseTypeOK, BoxStep
  PROVE  LeaseTypeOK'
  BY DEF BoxStep, BoxBoots, BoxHalts, LeaseTypeOK, BoxState

-----------------------------------------------------------------------------
(***************************************************************************)
(* What the type invariant leans on: where the worker may be in a lease     *)
(* call, which variables are meaningful there, and the bound on runs.       *)
(***************************************************************************)
\* A lease call is under way exactly where the worker made one, and of that kind.
CallMatchesPc ==
  LET c == call[Worker] IN
  /\ pc = "acquiring" => /\ c.at \in AcquirePlaces \cup {"done"}
                         /\ c.at = "done" => c.result \in AcquireResult
  /\ pc = "releasing" => /\ c.at \in ReleasePlaces \cup {"done"}
                         /\ c.at = "done" => c.result \in ReleaseOutcome
  /\ pc \notin {"acquiring", "releasing"} => c.at = "idle"

\* The loop variables are not empty while an element is worked on.
LoopHasElement == pc \in {"acquiring", "releasing"} => todo # <<>>

\* A popped run is the current one until the worker takes the next.
CurrentIsSet == IF pc \in {"none", "drain"} THEN current = NoItem ELSE current \in Item

\* Places where the run has its row.
HasRow == InRun /\ pc \notin {"clear", "clear_power_off", "insert"}
RowIsThere == (HasRow => rows # <<>>) /\ (recording => HasRow /\ pc # "unlock")

\* No more runs than the bound, those still without a row included.
RunsBounded == RunsAskedFor <= MaxRuns

WorkerInv == CallMatchesPc /\ LoopHasElement /\ CurrentIsSet /\ RowIsThere /\ RunsBounded
TypeInv == TypeOK /\ WorkerInv
-----------------------------------------------------------------------------
(***************************************************************************)
(* Lemmas on the operators.                                                *)
(***************************************************************************)
\* The bounds, without the other assumptions.
LEMMA Bounds == MaxRuns \in Nat /\ MaxFaults \in Nat
  BY ServiceAssumption

\* A failed commit is counted up to its bound.
LEMMA FaultType ==
  ASSUME TypeOK
  PROVE  Fault \/ UNCHANGED faults => faults' \in 0 .. MaxFaults
  BY Bounds DEF Fault, TypeOK, DbTypeOK

\* Removing one element of a sequence.
LEMMA RemoveAtSeq ==
  ASSUME NEW S, NEW s \in Seq(S), NEW i \in DOMAIN s
  PROVE  /\ RemoveAt(s, i) \in Seq(S)
         /\ Len(RemoveAt(s, i)) = Len(s) - 1
         /\ \A j \in 1 .. Len(s) - 1 :
               RemoveAt(s, i)[j] = IF j < i THEN s[j] ELSE s[j + 1]
<1> DEFINE a == SubSeq(s, 1, i - 1)
           b == SubSeq(s, i + 1, Len(s))
<1>1. i \in 1 .. Len(s) /\ Len(s) \in Nat /\ \A j \in 1 .. Len(s) : s[j] \in S
  OBVIOUS
<1>2. a \in Seq(S) /\ Len(a) = i - 1 /\ \A j \in 1 .. i - 1 : a[j] = s[j]
  <2>1. \A j \in 1 .. i - 1 : s[j] \in S
    BY <1>1
  <2> QED BY <1>1, <2>1, SubSeqProperties
<1>3. b \in Seq(S) /\ Len(b) = Len(s) - i /\ \A j \in 1 .. Len(s) - i : b[j] = s[j + i]
  <2>1. \A j \in i + 1 .. Len(s) : s[j] \in S
    BY <1>1
  <2> QED BY <1>1, <2>1, SubSeqProperties
<1>4. RemoveAt(s, i) = a \o b
  BY DEF RemoveAt
<1> HIDE DEF a, b
<1>5. /\ a \o b \in Seq(S)
      /\ Len(a \o b) = Len(a) + Len(b)
      /\ \A j \in 1 .. Len(a) + Len(b) :
           (a \o b)[j] = IF j <= Len(a) THEN a[j] ELSE b[j - Len(a)]
  BY <1>2, <1>3, ConcatProperties
<1>6. Len(RemoveAt(s, i)) = Len(s) - 1
  BY <1>1, <1>2, <1>3, <1>4, <1>5
<1>7. ASSUME NEW j \in 1 .. Len(s) - 1
      PROVE  RemoveAt(s, i)[j] = IF j < i THEN s[j] ELSE s[j + 1]
  <2> DEFINE la == Len(a)
             lb == Len(b)
  <2>0. la = i - 1 /\ la + lb = Len(s) - 1 /\ i \in Nat
    BY <1>1, <1>2, <1>3
  <2>a. RemoveAt(s, i)[j] = IF j <= la THEN a[j] ELSE b[j - la]
    BY <1>4, <1>5, <2>0
  <2> HIDE DEF la, lb
  <2>1. RemoveAt(s, i)[j] = IF j <= i - 1 THEN a[j] ELSE b[j - (i - 1)]
    BY <2>0, <2>a
  <2>2. CASE j < i
    BY <1>1, <1>2, <2>1, <2>2
  <2>3. CASE j >= i
    <3>1. j - (i - 1) \in 1 .. Len(s) - i
      BY <1>1, <2>3
    <3>2. b[j - (i - 1)] = s[(j - (i - 1)) + i]
      BY <1>3, <3>1
    <3> QED BY <1>1, <2>1, <2>3, <3>2
  <2> QED BY <1>1, <2>2, <2>3
<1> QED
  BY <1>4, <1>5, <1>6, <1>7

\* What a route or a maintenance run needs awake is a sequence of devices.
LEMMA ResolvedType ==
  ASSUME TypeOK, NEW k \in Keys, Exists(k)
  PROVE  Resolved(k) \in Seq(Devices)
<1>1. CASE k \in Routes
  <2>1. needs[k] \in RouteNeeds
    BY <1>1 DEF TypeOK, ConfigTypeOK, Needs, Exists
  <2>2. needs[k] \in Seq(Devices)
    <3>1. CASE needs[k] \in {<<d>> : d \in Devices}
      <4>1. PICK d \in Devices : needs[k] = <<d>>
        BY <3>1
      <4> QED BY <4>1
    <3>2. CASE needs[k] \in Devices \X Devices
      <4>1. PICK d \in Devices, e \in Devices : needs[k] = <<d, e>>
        BY <3>2
      <4> QED BY <4>1
    <3> QED BY <2>1, <3>1, <3>2, ServiceAssumption
  <2>3. Len(needs[k]) = 2 => <<needs[k][1]>> \in Seq(Devices)
    BY <2>2
  <2> QED BY <1>1, <2>2, <2>3 DEF Resolved, Collapse
<1>2. CASE k \notin Routes
  BY <1>2, ServiceAssumption DEF Resolved, Keys
<1> QED BY <1>1, <1>2

\* Closing the row keeps its type and the number of rows.
LEMMA FinishRunType ==
  ASSUME TypeOK, NEW s \in RunStatus, NEW p, FinishRun(s, p)
  PROVE  DbTypeOK' /\ status' \in RunStatus /\ Len(rows') = Len(rows) /\ pc' \in {"policy", p}
  BY ServiceAssumption
  DEF FinishRun, SetRow, Fault, GoTo, RunId, TypeOK, DbTypeOK, RunTypeOK

-----------------------------------------------------------------------------
(***************************************************************************)
(* The initial states.                                                     *)
(***************************************************************************)
LEMMA InitTypeInv == Init => TypeInv
<1> SUFFICES ASSUME Init PROVE TypeInv
  OBVIOUS
<1>1. LeaseTypeOK
  BY NoCallType
  DEF Init, LeaseInit, LeaseTypeOK, BoxState, Places
<1>2. ConfigTypeOK /\ QueueTypeOK /\ LockTypeOK
  <2>1. FirstNeeds \in [Routes -> Needs]
    BY ServiceAssumption DEF Needs
  <2>2. 0 \in 0 .. MaxRuns
    BY ServiceAssumption
  <2>3. <<>> \in Seq(Item)
    OBVIOUS
  <2>4. ConfigTypeOK
    BY <2>1 DEF Init, ConfigTypeOK
  <2>5. QueueTypeOK
    BY <2>3 DEF Init, QueueTypeOK, WorkerPlaces
  <2>6. LockTypeOK
    BY <2>2 DEF Init, LockTypeOK
  <2> QED BY <2>4, <2>5, <2>6
<1>3. RunTypeOK /\ DbTypeOK
  <2>1. <<>> \in Seq(Devices) /\ <<>> \in Seq(RunStatus)
    OBVIOUS
  <2>2. MaxFaults \in Nat
    BY ServiceAssumption
  <2>3. RunTypeOK
    BY <2>1 DEF Init, RunTypeOK, RunStatus
  <2> QED BY <2>1, <2>2, <2>3 DEF Init, DbTypeOK
<1>4. UserTypeOK
  BY ServiceAssumption DEF Init, UserTypeOK, NoStop, Stop, StopPlaces
<1>5. HistTypeOK
  BY ServiceAssumption DEF Init, HistTypeOK
<1>6. WorkerInv
  BY NoCallType, ServiceAssumption
  DEF Init, LeaseInit, WorkerInv, CallMatchesPc, LoopHasElement, CurrentIsSet, HasRow, InRun, RowIsThere,
      RunsBounded, RunsAskedFor, RunId, Places
<1> QED BY <1>1, <1>2, <1>3, <1>4, <1>5, <1>6 DEF TypeInv, TypeOK

-----------------------------------------------------------------------------
(***************************************************************************)
(* The queue.                                                              *)
(***************************************************************************)
LEMMA EnqueueType ==
  ASSUME TypeInv, NEW k \in Keys, NEW b \in BOOLEAN, Enqueue(k, b)
  PROVE  TypeInv'
<1> USE DEF TypeInv, Enqueue, leaseVars, cfgVars, lockVars, runVars, dbVars, userVars, histVars
<1>1. queue' \in Seq(Item) /\ Len(queue') = Len(queue) + 1
  BY DEF TypeOK, QueueTypeOK, Item
<1>2. TypeOK'
  BY <1>1 DEF TypeOK, LeaseTypeOK, ConfigTypeOK, QueueTypeOK, WorkerPlaces, EnsureWorker, LockTypeOK,
              RunTypeOK, DbTypeOK, UserTypeOK, HistTypeOK
<1>3. WorkerInv'
  BY <1>1, ServiceAssumption DEF TypeOK, QueueTypeOK, DbTypeOK, EnsureWorker, WorkerInv, CallMatchesPc, LoopHasElement, CurrentIsSet, HasRow, InRun, RowIsThere,
      RunsBounded, RunsAskedFor, RunId
<1> QED BY <1>2, <1>3

LEMMA DequeueType ==
  ASSUME TypeInv, NEW i \in DOMAIN queue, Dequeue(i)
  PROVE  TypeInv'
<1> USE DEF TypeInv, Dequeue, leaseVars, cfgVars, lockVars, runVars, dbVars, userVars
<1>1. queue' \in Seq(Item) /\ Len(queue') = Len(queue) - 1
  BY RemoveAtSeq DEF TypeOK, QueueTypeOK
<1>2. TypeOK'
  BY <1>1 DEF TypeOK, LeaseTypeOK, ConfigTypeOK, QueueTypeOK, LockTypeOK, RunTypeOK, DbTypeOK,
              UserTypeOK, HistTypeOK
<1>3. WorkerInv'
  BY <1>1, ServiceAssumption DEF TypeOK, QueueTypeOK, DbTypeOK, WorkerInv, CallMatchesPc, LoopHasElement, CurrentIsSet, HasRow, InRun, RowIsThere,
      RunsBounded, RunsAskedFor, RunId
<1> QED BY <1>2, <1>3

LEMMA DrainType ==
  ASSUME TypeInv, Drain
  PROVE  TypeInv'
<1> USE DEF TypeInv, Drain, GoTo, leaseVars, cfgVars, lockVars, runVars, dbVars, userVars
<1>1. /\ queue' \in Seq(Item) /\ Len(queue') <= Len(queue)
      /\ pc' = "none" => current' = current
      /\ pc' = "resolve" => current' \in Item /\ Len(queue') = Len(queue) - 1
      /\ pc' \in {"none", "resolve"}
      /\ early' \subseteq Keys
  BY HeadTailProperties DEF Pop, queueVars, TypeOK, QueueTypeOK, HistTypeOK
<1>2. TypeOK'
  BY <1>1 DEF TypeOK, LeaseTypeOK, ConfigTypeOK, QueueTypeOK, WorkerPlaces, LockTypeOK, RunTypeOK,
              DbTypeOK, UserTypeOK, HistTypeOK
<1>3. WorkerInv'
  BY <1>1, ServiceAssumption DEF TypeOK, QueueTypeOK, DbTypeOK, WorkerInv, CallMatchesPc, LoopHasElement, CurrentIsSet, HasRow, InRun, RowIsThere,
      RunsBounded, RunsAskedFor, RunId
<1> QED BY <1>2, <1>3

LEMMA ResolveType ==
  ASSUME TypeInv, Resolve
  PROVE  TypeInv'
<1> USE DEF TypeInv, Resolve, GoTo, leaseVars, cfgVars, queueVars, lockVars, dbVars, userVars, histVars
<1>1. todo' \in Seq(Devices)
  <2>1. current.key \in Keys
    BY DEF WorkerInv, CurrentIsSet, Item
  <2> QED BY <2>1, ResolvedType DEF TypeOK, RunTypeOK
<1>2. TypeOK'
  BY <1>1 DEF TypeOK, LeaseTypeOK, ConfigTypeOK, QueueTypeOK, WorkerPlaces, LockTypeOK, RunTypeOK,
              DbTypeOK, UserTypeOK, HistTypeOK
<1>3. WorkerInv'
  BY <1>1, ServiceAssumption DEF TypeOK, QueueTypeOK, DbTypeOK, WorkerInv, CallMatchesPc, LoopHasElement, CurrentIsSet, HasRow, InRun, RowIsThere,
      RunsBounded, RunsAskedFor, RunId
<1> QED BY <1>2, <1>3

-----------------------------------------------------------------------------
(***************************************************************************)
(* Starting a run.                                                         *)
(***************************************************************************)
LEMMA StartType ==
  ASSUME TypeInv, TakeLock \/ ClearCancel \/ ClearPowerOff \/ InsertRow \/ SetRunId
  PROVE  TypeInv'
<1> USE DEF TypeInv, GoTo, leaseVars, cfgVars, queueVars, runVars, dbVars, userVars, histVars
<1>1. CASE TakeLock
  <2>1. TypeOK'
    BY <1>1 DEF TakeLock, TypeOK, LeaseTypeOK, ConfigTypeOK, QueueTypeOK, WorkerPlaces, LockTypeOK,
                RunTypeOK, DbTypeOK, UserTypeOK, HistTypeOK
  <2>2. WorkerInv'
    BY <1>1, ServiceAssumption DEF TakeLock, TypeOK, QueueTypeOK, DbTypeOK, WorkerInv, CallMatchesPc, LoopHasElement, CurrentIsSet, HasRow, InRun, RowIsThere,
      RunsBounded, RunsAskedFor, RunId
  <2> QED BY <2>1, <2>2
<1>2. CASE ClearCancel
  <2>1. TypeOK'
    <3>1. crossing' \subseteq 0 .. MaxRuns
      BY <1>2 DEF ClearCancel, TypeOK, UserTypeOK, Stop
    <3>2. UNCHANGED <<leaseVars, cfgVars, queueVars, runVars, dbVars, userVars, lock, cancelPowerOff,
                      currentRunId, early, word, notified>>
          /\ cancelled' = FALSE /\ hits' = {} /\ pc' = "clear_power_off"
      BY <1>2 DEF ClearCancel, ClearFlag
    <3> QED BY <3>1, <3>2 DEF TypeOK, LeaseTypeOK, ConfigTypeOK, QueueTypeOK, WorkerPlaces,
                LockTypeOK, RunTypeOK, DbTypeOK, UserTypeOK, HistTypeOK
  <2>2. WorkerInv'
    BY <1>2, ServiceAssumption DEF ClearCancel, TypeOK, QueueTypeOK, DbTypeOK, WorkerInv, CallMatchesPc, LoopHasElement, CurrentIsSet, HasRow, InRun, RowIsThere,
      RunsBounded, RunsAskedFor, RunId
  <2> QED BY <2>1, <2>2
<1>3. CASE ClearPowerOff
  <2>1. TypeOK'
    BY <1>3 DEF ClearPowerOff, TypeOK, LeaseTypeOK, ConfigTypeOK, QueueTypeOK, WorkerPlaces, LockTypeOK,
                RunTypeOK, DbTypeOK, UserTypeOK, HistTypeOK
  <2>2. WorkerInv'
    BY <1>3, ServiceAssumption DEF ClearPowerOff, TypeOK, QueueTypeOK, DbTypeOK, WorkerInv, CallMatchesPc, LoopHasElement, CurrentIsSet, HasRow, InRun, RowIsThere,
      RunsBounded, RunsAskedFor, RunId
  <2> QED BY <2>1, <2>2
<1>4. CASE InsertRow
  <2>1. /\ rows' \in Seq(RunStatus) /\ faults' \in 0 .. MaxFaults
        /\ pc' = "set_id" => Len(rows') = Len(rows) + 1 /\ rows' # <<>>
        /\ pc' = "cleanup" => rows' = rows /\ recording' = recording
        /\ pc' \in {"set_id", "cleanup"}
    BY <1>4, ServiceAssumption DEF InsertRow, Fault, TypeOK, DbTypeOK, RunStatus
  <2>2. TypeOK'
    BY <1>4, <2>1
    DEF InsertRow, GiveLockBack, TypeOK, LeaseTypeOK, ConfigTypeOK, QueueTypeOK, WorkerPlaces,
        LockTypeOK, RunTypeOK, RunStatus, DbTypeOK, UserTypeOK, HistTypeOK
  <2>3. WorkerInv'
    BY <1>4, <2>1, ServiceAssumption DEF InsertRow, TypeOK, QueueTypeOK, DbTypeOK, WorkerInv, CallMatchesPc, LoopHasElement, CurrentIsSet, HasRow, InRun, RowIsThere,
      RunsBounded, RunsAskedFor, RunId
  <2> QED BY <2>2, <2>3
<1>5. CASE SetRunId
  <2>1. currentRunId' \in 0 .. MaxRuns
    BY <1>5, ServiceAssumption
    DEF SetRunId, TypeOK, QueueTypeOK, DbTypeOK, WorkerInv, RunsBounded, RunsAskedFor, RunId
  <2>2. TypeOK'
    BY <1>5, <2>1 DEF SetRunId, TypeOK, LeaseTypeOK, ConfigTypeOK, QueueTypeOK, WorkerPlaces, LockTypeOK,
                RunTypeOK, DbTypeOK, UserTypeOK, HistTypeOK
  <2>3. WorkerInv'
    BY <1>5, ServiceAssumption DEF SetRunId, TypeOK, QueueTypeOK, DbTypeOK, WorkerInv, CallMatchesPc, LoopHasElement, CurrentIsSet, HasRow, InRun, RowIsThere,
      RunsBounded, RunsAskedFor, RunId
  <2> QED BY <2>2, <2>3
<1> QED BY <1>1, <1>2, <1>3, <1>4, <1>5
-----------------------------------------------------------------------------
(***************************************************************************)
(* Acquiring, the job, closing the row.                                    *)
(***************************************************************************)
LEMMA AcquireNextType ==
  ASSUME TypeInv, AcquireNext
  PROVE  TypeInv'
<1> USE DEF TypeInv, GoTo, cfgVars, queueVars, lockVars, runVars, userVars, histVars
<1>1. CASE todo = <<>> /\ pc' = "check" /\ UNCHANGED <<faults, leaseVars>>
  <2>1. TypeOK'
    BY <1>1 DEF AcquireNext, leaseVars, TypeOK, LeaseTypeOK, ConfigTypeOK, QueueTypeOK, WorkerPlaces, LockTypeOK,
              RunTypeOK, DbTypeOK, UserTypeOK, HistTypeOK
  <2>2. WorkerInv'
    BY <1>1, ServiceAssumption DEF AcquireNext, leaseVars, TypeOK, QueueTypeOK, DbTypeOK, WorkerInv, CallMatchesPc, LoopHasElement, CurrentIsSet, HasRow, InRun, RowIsThere,
      RunsBounded, RunsAskedFor, RunId
  <2> QED BY <2>1, <2>2
<1>2. CASE todo # <<>> /\ AcquireCall(Worker, Head(todo)) /\ pc' = "acquiring" /\ UNCHANGED faults
  <2> DEFINE d == Head(todo)
  <2>1. d \in Devices /\ LeaseKey[d] \in LeaseKeys
    BY <1>2, HeadTailProperties, LeaseAssumption DEF TypeOK, RunTypeOK
  <2>2. /\ Frame(d, "probe") \in Call /\ Frame(d, "probe").at = "probe"
        /\ Frame(d, "done") \in Call /\ Frame(d, "done").at = "done"
    BY <2>1, FrameType DEF Places
  <2>3. /\ [Frame(d, "done") EXCEPT !.result = "acquired"] \in Call
        /\ [Frame(d, "done") EXCEPT !.result = "acquired"].at = "done"
        /\ [Frame(d, "done") EXCEPT !.result = "acquired"].result = "acquired"
    BY <2>2 DEF Call, AcquireResult, Frame
  <2> HIDE DEF d
  <2>4. /\ call' \in [Threads -> Call]
        /\ call'[Worker].at \in {"probe", "done"}
        /\ call'[Worker].at = "done" => call'[Worker].result = "acquired"
    BY <1>2, <2>2, <2>3, ServiceAssumption DEF AcquireCall, TypeOK, LeaseTypeOK, d
  <2>5. holders' \in [LeaseKeys -> Nat]
    BY <1>2, <2>1 DEF AcquireCall, TypeOK, LeaseTypeOK, d
  <2>6. TypeOK'
    BY <1>2, <2>4, <2>5 DEF AcquireCall, AcquireNext, TypeOK, LeaseTypeOK, ConfigTypeOK, QueueTypeOK, WorkerPlaces, LockTypeOK,
              RunTypeOK, DbTypeOK, UserTypeOK, HistTypeOK
  <2>7. WorkerInv'
    BY <1>2, <2>4, ServiceAssumption
    DEF AcquireNext, AcquirePlaces, AcquireResult, TypeOK, QueueTypeOK, DbTypeOK, WorkerInv, CallMatchesPc, LoopHasElement, CurrentIsSet, HasRow, InRun, RowIsThere,
      RunsBounded, RunsAskedFor, RunId
  <2> QED BY <2>6, <2>7
<1>3. CASE Fault /\ pc' = "unreachable" /\ UNCHANGED leaseVars
  <2>1. TypeOK'
    BY <1>3, ServiceAssumption DEF Fault, AcquireNext, leaseVars, TypeOK, LeaseTypeOK, ConfigTypeOK, QueueTypeOK, WorkerPlaces, LockTypeOK,
              RunTypeOK, DbTypeOK, UserTypeOK, HistTypeOK
  <2>2. WorkerInv'
    BY <1>3, ServiceAssumption DEF AcquireNext, leaseVars, TypeOK, QueueTypeOK, DbTypeOK, WorkerInv, CallMatchesPc, LoopHasElement, CurrentIsSet, HasRow, InRun, RowIsThere,
      RunsBounded, RunsAskedFor, RunId
  <2> QED BY <2>1, <2>2
<1> QED BY <1>1, <1>2, <1>3 DEF AcquireNext

LEMMA AcquireDoneType ==
  ASSUME TypeInv, AcquireDone
  PROVE  TypeInv'
<1> USE DEF TypeInv
<1>1. /\ todo # <<>>
      /\ pc = "acquiring"
      /\ call[Worker] \in Call
      /\ call[Worker].dev \in Devices
      /\ LeaseKey[call[Worker].dev] \in LeaseKeys
      /\ Tail(todo) \in Seq(Devices)
  BY ServiceAssumption, LeaseAssumption, HeadTailProperties
  DEF AcquireDone, WorkerInv, LoopHasElement, TypeOK, LeaseTypeOK, RunTypeOK, Call
<1>2. call' \in [Threads -> Call] /\ call'[Worker].at = "idle"
  BY <1>1, ServiceAssumption, NoCallType DEF AcquireDone, Finish, TypeOK, LeaseTypeOK
<1>3. /\ pc' \in {"acquire", "unreachable"}
      /\ faults' \in 0 .. MaxFaults
      /\ held' \in Seq(Devices) /\ todo' \in Seq(Devices)
  <2>1. faults' \in 0 .. MaxFaults
    BY FaultType DEF AcquireDone
  <2>2. Append(held, call[Worker].dev) \in Seq(Devices)
    BY <1>1 DEF TypeOK, RunTypeOK
  <2> QED BY <1>1, <2>1, <2>2 DEF AcquireDone, GoTo, TypeOK, RunTypeOK
<1>4. word' \in [LeaseKeys -> ReleaseOutcome \cup {"none", "unreachable"}]
  BY <1>1 DEF AcquireDone, TypeOK, HistTypeOK
<1>5. TypeOK'
  BY <1>2, <1>3, <1>4
  DEF AcquireDone, cfgVars, queueVars, lockVars, userVars, TypeOK, LeaseTypeOK, ConfigTypeOK, QueueTypeOK, WorkerPlaces, LockTypeOK,
              RunTypeOK, DbTypeOK, UserTypeOK, HistTypeOK
<1>6. WorkerInv'
  BY <1>1, <1>2, <1>3, ServiceAssumption
  DEF AcquireDone, queueVars, TypeOK, QueueTypeOK, DbTypeOK, WorkerInv, CallMatchesPc, LoopHasElement, CurrentIsSet, HasRow, InRun, RowIsThere,
      RunsBounded, RunsAskedFor, RunId
<1> QED BY <1>5, <1>6

LEMMA FinishingType ==
  ASSUME TypeInv, AcquireFailed \/ CheckCancel \/ JobEnd \/ JobFailed
  PROVE  TypeInv'
<1> USE DEF TypeInv
<1>1. /\ UNCHANGED <<leaseVars, cfgVars, queueVars, lockVars, todo, held, policy, recording,
                     userVars, histVars>>
      /\ pc \in {"unreachable", "check", "job", "job_failed"}
      /\ \/ pc' = "job" /\ UNCHANGED <<rows, faults, status>>
         \/ \E s \in RunStatus, p \in {"unwind", "job_failed"} : FinishRun(s, p)
  BY DEF AcquireFailed, CheckCancel, JobEnd, JobFailed, GoTo, RunStatus
<1>2. /\ DbTypeOK' /\ status' \in RunStatus /\ Len(rows') = Len(rows)
      /\ pc' \in {"job", "job_failed", "policy", "unwind"}
  <2>1. CASE pc' = "job" /\ UNCHANGED <<rows, faults, status>>
    BY <2>1 DEF TypeOK, DbTypeOK, RunTypeOK
  <2>2. ASSUME NEW s \in RunStatus, NEW p \in {"unwind", "job_failed"}, FinishRun(s, p)
        PROVE  /\ DbTypeOK' /\ status' \in RunStatus /\ Len(rows') = Len(rows)
               /\ pc' \in {"job", "job_failed", "policy", "unwind"}
    BY <2>2, FinishRunType
  <2> QED BY <1>1, <2>1, <2>2
<1>3. TypeOK'
  BY <1>1, <1>2 DEF leaseVars, cfgVars, queueVars, lockVars, userVars, histVars, TypeOK, LeaseTypeOK, ConfigTypeOK, QueueTypeOK, WorkerPlaces, LockTypeOK,
              RunTypeOK, DbTypeOK, UserTypeOK, HistTypeOK
<1>4. WorkerInv'
  <2>1. rows' # <<>>
    BY <1>1, <1>2 DEF TypeOK, DbTypeOK, WorkerInv, RowIsThere, HasRow, InRun
  <2> QED BY <1>1, <1>2, <2>1, ServiceAssumption
     DEF leaseVars, queueVars, TypeOK, QueueTypeOK, DbTypeOK, WorkerInv, CallMatchesPc, LoopHasElement, CurrentIsSet, HasRow, InRun, RowIsThere,
      RunsBounded, RunsAskedFor, RunId
<1> QED BY <1>3, <1>4

-----------------------------------------------------------------------------
(***************************************************************************)
(* Releasing and the ways out of a run.                                    *)
(***************************************************************************)
LEMMA DecidePolicyType ==
  ASSUME TypeInv, DecidePolicy
  PROVE  TypeInv'
<1> USE DEF TypeInv, DecidePolicy, GoTo, leaseVars, cfgVars, queueVars, lockVars, dbVars, userVars, histVars
<1>1. policy' \in BOOLEAN
  <2>1. current.powerOff \in BOOLEAN
    BY DEF WorkerInv, CurrentIsSet, Item
  <2> QED BY <2>1 DEF PowerOffPolicy, TypeOK, LockTypeOK, RunTypeOK
<1>2. TypeOK'
  BY <1>1 DEF ToRelease, TypeOK, LeaseTypeOK, ConfigTypeOK, QueueTypeOK, WorkerPlaces, LockTypeOK,
              RunTypeOK, DbTypeOK, UserTypeOK, HistTypeOK
<1>3. WorkerInv'
  BY ServiceAssumption DEF TypeOK, QueueTypeOK, DbTypeOK, WorkerInv, CallMatchesPc, LoopHasElement, CurrentIsSet, HasRow, InRun, RowIsThere,
      RunsBounded, RunsAskedFor, RunId
<1> QED BY <1>2, <1>3

LEMMA ReleaseNextType ==
  ASSUME TypeInv, ReleaseNext
  PROVE  TypeInv'
<1> USE DEF TypeInv, GoTo, cfgVars, queueVars, lockVars, runVars, userVars, histVars
<1>1. CASE ReleaseCall(Worker, Head(todo), policy) /\ pc' = "releasing" /\ UNCHANGED faults
  <2> DEFINE d == Head(todo)
             k == LeaseKey[d]
  <2>1. d \in Devices /\ k \in LeaseKeys /\ holders[k] \in Nat
    BY HeadTailProperties, LeaseAssumption DEF ReleaseNext, TypeOK, RunTypeOK, LeaseTypeOK
  <2>2. /\ Frame(d, "pending") \in Call /\ Frame(d, "pending").at = "pending"
        /\ Frame(d, "done") \in Call /\ Frame(d, "done").at = "done"
    BY <2>1, FrameType DEF Places
  <2>3. /\ [Frame(d, "pending") EXCEPT !.powerOff = policy] \in Call
        /\ [Frame(d, "pending") EXCEPT !.powerOff = policy].at = "pending"
    BY <2>2 DEF Call, Frame, TypeOK, RunTypeOK
  <2>4. ASSUME NEW r \in ReleaseOutcome
        PROVE  /\ [Frame(d, "done") EXCEPT !.result = r] \in Call
               /\ [Frame(d, "done") EXCEPT !.result = r].at = "done"
               /\ [Frame(d, "done") EXCEPT !.result = r].result = r
    BY <2>2 DEF Call, Frame
  <2>5. /\ holders' \in [LeaseKeys -> Nat]
        /\ \/ call' = [call EXCEPT ![Worker] = [Frame(d, "pending") EXCEPT !.powerOff = policy]]
           \/ \E r \in ReleaseOutcome :
                call' = [call EXCEPT ![Worker] = [Frame(d, "done") EXCEPT !.result = r]]
    <3>1. CASE Unheld(k)
      BY <1>1, <2>1, <3>1 DEF ReleaseCall, Unheld, ReleaseOutcome, TypeOK, LeaseTypeOK
    <3>2. CASE ~Unheld(k)
      <4>1. holders' = [holders EXCEPT ![k] = @ - 1] /\ holders[k] > 0
        BY <1>1, <2>1, <3>2 DEF ReleaseCall, Unheld
      <4>2. holders' \in [LeaseKeys -> Nat]
        BY <2>1, <4>1 DEF TypeOK, LeaseTypeOK
      <4> QED BY <1>1, <3>2, <4>2 DEF ReleaseCall, ReleaseOutcome
    <3> QED BY <3>1, <3>2
  <2> HIDE DEF d, k
  <2>6. /\ call' \in [Threads -> Call]
        /\ call'[Worker].at \in {"pending", "done"}
        /\ call'[Worker].at = "done" => call'[Worker].result \in ReleaseOutcome
    <3>1. call \in [Threads -> Call] /\ Worker \in Threads
      BY ServiceAssumption DEF TypeOK, LeaseTypeOK
    <3>2. CASE call' = [call EXCEPT ![Worker] = [Frame(d, "pending") EXCEPT !.powerOff = policy]]
      BY <2>3, <3>1, <3>2
    <3>3. ASSUME NEW r \in ReleaseOutcome,
                 call' = [call EXCEPT ![Worker] = [Frame(d, "done") EXCEPT !.result = r]]
          PROVE  /\ call' \in [Threads -> Call]
                 /\ call'[Worker].at \in {"pending", "done"}
                 /\ call'[Worker].at = "done" => call'[Worker].result \in ReleaseOutcome
      BY <2>4, <3>1, <3>3
    <3> QED BY <2>5, <3>2, <3>3
  <2>7. TypeOK'
    BY <1>1, <2>5, <2>6 DEF ReleaseNext, ReleaseCall, TypeOK, LeaseTypeOK, ConfigTypeOK, QueueTypeOK, WorkerPlaces, LockTypeOK,
              RunTypeOK, DbTypeOK, UserTypeOK, HistTypeOK
  <2>8. WorkerInv'
    BY <1>1, <2>6, ServiceAssumption
    DEF ReleaseNext, ReleasePlaces, TypeOK, QueueTypeOK, DbTypeOK, WorkerInv, CallMatchesPc, LoopHasElement, CurrentIsSet, HasRow, InRun, RowIsThere,
      RunsBounded, RunsAskedFor, RunId
  <2> QED BY <2>7, <2>8
<1>2. CASE recording /\ Fault /\ pc' = "unwind" /\ UNCHANGED leaseVars
  <2>1. TypeOK'
    BY <1>2, ServiceAssumption DEF Fault, ReleaseNext, leaseVars, TypeOK, LeaseTypeOK, ConfigTypeOK, QueueTypeOK, WorkerPlaces, LockTypeOK,
              RunTypeOK, DbTypeOK, UserTypeOK, HistTypeOK
  <2>2. WorkerInv'
    BY <1>2, ServiceAssumption DEF ReleaseNext, leaseVars, TypeOK, QueueTypeOK, DbTypeOK, WorkerInv, CallMatchesPc, LoopHasElement, CurrentIsSet, HasRow, InRun, RowIsThere,
      RunsBounded, RunsAskedFor, RunId
  <2> QED BY <2>1, <2>2
<1> QED BY <1>1, <1>2 DEF ReleaseNext

LEMMA ReleaseDoneType ==
  ASSUME TypeInv, ReleaseDone
  PROVE  TypeInv'
<1> USE DEF TypeInv
<1>1. /\ todo # <<>>
      /\ pc = "releasing"
      /\ call[Worker] \in Call
      /\ call[Worker].result \in ReleaseOutcome
      /\ Key(Worker) \in LeaseKeys
      /\ Tail(todo) \in Seq(Devices)
  BY ServiceAssumption, LeaseAssumption, HeadTailProperties
  DEF ReleaseDone, WorkerInv, LoopHasElement, CallMatchesPc, TypeOK, LeaseTypeOK, RunTypeOK, Call, Key
<1>2. call' \in [Threads -> Call] /\ call'[Worker].at = "idle"
  BY <1>1, ServiceAssumption, NoCallType DEF ReleaseDone, Finish, TypeOK, LeaseTypeOK
<1>3. /\ pc' \in {"release", "unwind"}
      /\ faults' \in 0 .. MaxFaults
      /\ todo' \in Seq(Devices)
  <2>1. faults' \in 0 .. MaxFaults
    BY FaultType DEF ReleaseDone
  <2> QED BY <1>1, <2>1 DEF ReleaseDone, GoTo, TypeOK, RunTypeOK
<1>4. word' \in [LeaseKeys -> ReleaseOutcome \cup {"none", "unreachable"}]
  BY <1>1 DEF ReleaseDone, TypeOK, HistTypeOK
<1>5. TypeOK'
  BY <1>2, <1>3, <1>4
  DEF ReleaseDone, cfgVars, queueVars, lockVars, userVars, TypeOK, LeaseTypeOK, ConfigTypeOK, QueueTypeOK, WorkerPlaces, LockTypeOK,
              RunTypeOK, DbTypeOK, UserTypeOK, HistTypeOK
<1>6. WorkerInv'
  BY <1>1, <1>2, <1>3, ServiceAssumption
  DEF ReleaseDone, queueVars, TypeOK, QueueTypeOK, DbTypeOK, WorkerInv, CallMatchesPc, LoopHasElement, CurrentIsSet, HasRow, InRun, RowIsThere,
      RunsBounded, RunsAskedFor, RunId
<1> QED BY <1>5, <1>6

LEMMA ReleasedType ==
  ASSUME TypeInv, Released
  PROVE  TypeInv'
<1> USE DEF TypeInv, Released, GoTo, leaseVars, cfgVars, queueVars, lockVars, dbVars, userVars
<1>1. recording => RunId \in 1 .. MaxRuns
  BY ServiceAssumption DEF TypeOK, QueueTypeOK, DbTypeOK, WorkerInv, CallMatchesPc, LoopHasElement, CurrentIsSet, HasRow, InRun, RowIsThere,
      RunsBounded, RunsAskedFor, RunId
<1>2. notified' \subseteq 1 .. MaxRuns
  BY <1>1 DEF TypeOK, HistTypeOK
<1>3. TypeOK'
  BY <1>2 DEF TypeOK, LeaseTypeOK, ConfigTypeOK, QueueTypeOK, WorkerPlaces, LockTypeOK,
              RunTypeOK, DbTypeOK, UserTypeOK, HistTypeOK
<1>4. WorkerInv'
  BY ServiceAssumption DEF TypeOK, QueueTypeOK, DbTypeOK, WorkerInv, CallMatchesPc, LoopHasElement, CurrentIsSet, HasRow, InRun, RowIsThere,
      RunsBounded, RunsAskedFor, RunId
<1> QED BY <1>3, <1>4

LEMMA UnwindType ==
  ASSUME TypeInv, Unwind
  PROVE  TypeInv'
<1> USE DEF TypeInv, Unwind, GoTo, leaseVars, cfgVars, queueVars, lockVars, userVars, histVars
<1>1. /\ DbTypeOK' /\ status' \in RunStatus /\ Len(rows') = Len(rows)
      /\ pc' \in {"policy", "retry"}
  <2>1. faults' \in 0 .. MaxFaults
    BY FaultType
  <2>2. /\ rows' = rows \/ rows' = [rows EXCEPT ![RunId] = "failure"]
        /\ status' = status \/ status' = "failure"
        /\ pc' \in {"policy", "retry"}
    BY DEF SetRow, AfterFailedFinish
  <2>3. rows' \in Seq(RunStatus) /\ Len(rows') = Len(rows)
    BY <2>2 DEF TypeOK, DbTypeOK, RunStatus
  <2> QED BY <2>1, <2>2, <2>3 DEF DbTypeOK, TypeOK, RunTypeOK, RunStatus
<1>2. TypeOK'
  BY <1>1 DEF TypeOK, LeaseTypeOK, ConfigTypeOK, QueueTypeOK, WorkerPlaces, LockTypeOK,
              RunTypeOK, DbTypeOK, UserTypeOK, HistTypeOK
<1>3. rows' # <<>>
  BY <1>1 DEF TypeOK, DbTypeOK, WorkerInv, RowIsThere, HasRow, InRun
<1>4. WorkerInv'
  BY <1>1, <1>3, ServiceAssumption DEF TypeOK, QueueTypeOK, DbTypeOK, WorkerInv, CallMatchesPc, LoopHasElement, CurrentIsSet, HasRow, InRun, RowIsThere,
      RunsBounded, RunsAskedFor, RunId
<1> QED BY <1>2, <1>4

LEMMA EndType ==
  ASSUME TypeInv, Unlock \/ Cleanup
  PROVE  TypeInv'
<1> USE DEF TypeInv, GoTo, leaseVars, cfgVars, queueVars, runVars, dbVars, userVars, histVars
<1>0. 0 \in 0 .. MaxRuns
  BY Bounds
<1>1. CASE Unlock
  <2>1. TypeOK'
    <3>1. LockTypeOK'
      BY <1>1 DEF Unlock, TypeOK, LockTypeOK
    <3> QED BY <1>1, <3>1 DEF Unlock, TypeOK, LeaseTypeOK, ConfigTypeOK, QueueTypeOK, WorkerPlaces, LockTypeOK,
              RunTypeOK, DbTypeOK, UserTypeOK, HistTypeOK
  <2>2. WorkerInv'
    BY <1>1, ServiceAssumption DEF Unlock, TypeOK, QueueTypeOK, DbTypeOK, WorkerInv, CallMatchesPc, LoopHasElement, CurrentIsSet, HasRow, InRun, RowIsThere,
      RunsBounded, RunsAskedFor, RunId
  <2> QED BY <2>1, <2>2
<1>2. CASE Cleanup
  <2>1. TypeOK'
    BY <1>0, <1>2 DEF Cleanup, ForgetRunId, TypeOK, LeaseTypeOK, ConfigTypeOK, QueueTypeOK, WorkerPlaces, LockTypeOK,
              RunTypeOK, DbTypeOK, UserTypeOK, HistTypeOK
  <2>2. WorkerInv'
    BY <1>2, ServiceAssumption DEF Cleanup, TypeOK, QueueTypeOK, DbTypeOK, WorkerInv, CallMatchesPc, LoopHasElement, CurrentIsSet, HasRow, InRun, RowIsThere,
      RunsBounded, RunsAskedFor, RunId
  <2> QED BY <2>1, <2>2
<1> QED BY <1>1, <1>2
LEMMA LeaseStepType ==
  ASSUME TypeInv, LeaseStep
  PROVE  TypeInv'
<1> USE DEF TypeInv, LeaseStep, cfgVars, queueVars, lockVars, runVars, dbVars, userVars
<1>1. Worker \in Threads /\ cancelled \in BOOLEAN /\ LeaseTypeOK
  BY ServiceAssumption DEF TypeOK, LockTypeOK
<1>2. /\ LeaseTypeOK'
      /\ \/ /\ call[Worker].at \in AcquirePlaces
            /\ \/ call'[Worker].at \in AcquirePlaces
               \/ call'[Worker].at = "done" /\ call'[Worker].result \in AcquireResult
         \/ /\ call[Worker].at \in ReleasePlaces
            /\ \/ call'[Worker].at \in ReleasePlaces
               \/ call'[Worker].at = "done" /\ call'[Worker].result \in ReleaseOutcome
  <2>1. CASE \/ Probe(Worker) \/ Decide(Worker, cancelled) \/ SendWol(Worker)
             \/ WaitAnswered(Worker, cancelled) \/ WaitEnded(Worker, cancelled)
             \/ Grace(Worker) \/ Count(Worker)
    BY <1>1, <2>1, AcquireStepType
  <2>2. CASE PendingCheck(Worker, PendingKeys) \/ WaitIdle(Worker) \/ PowerOffCmd(Worker)
    BY <1>1, <2>2, ReleaseStepType
  <2> QED BY <2>1, <2>2 DEF CallStep
<1>3. early' \subseteq Keys
  <2>1. \A i \in DOMAIN queue : queue[i] \in Item
    BY DEF TypeOK, QueueTypeOK
  <2>2. QueuedKeys \subseteq Keys
    BY <2>1 DEF QueuedKeys, Item
  <2> QED BY <2>2 DEF TypeOK, HistTypeOK
<1>4. TypeOK'
  BY <1>2, <1>3 DEF TypeOK, ConfigTypeOK, QueueTypeOK, LockTypeOK, RunTypeOK, DbTypeOK,
                    UserTypeOK, HistTypeOK
<1>5. CallMatchesPc'
  BY <1>2 DEF WorkerInv, CallMatchesPc, AcquirePlaces, ReleasePlaces
<1>6. WorkerInv'
  BY <1>5 DEF WorkerInv, LoopHasElement, CurrentIsSet, HasRow, InRun, RowIsThere,
              RunsBounded, RunsAskedFor, RunId
<1> QED BY <1>4, <1>6

-----------------------------------------------------------------------------
(***************************************************************************)
(* The users, the machines, the restart.                                   *)
(***************************************************************************)
LEMMA StopType ==
  ASSUME TypeInv, NEW u \in Stoppers,
         \/ \E i \in DOMAIN rows, b \in BOOLEAN : StopCheck(u, i, b)
         \/ StopPowerOff(u) \/ StopSet(u) \/ StopSweep(u)
  PROVE  TypeInv'
<1> USE DEF TypeInv, StopVars
<1>1. DOMAIN rows \subseteq 0 .. MaxRuns
  BY ServiceAssumption DEF TypeOK, QueueTypeOK, DbTypeOK, WorkerInv, RunsBounded, RunsAskedFor, RunId
<1>2. stop[u] \in Stop /\ NoStop \in Stop
  BY Bounds DEF TypeOK, UserTypeOK, Stop, NoStop, StopPlaces
<1>3. stop' \in [Stoppers -> Stop]
  BY <1>1, <1>2
  DEF StopCheck, StopPowerOff, StopSet, StopSweep, Stop, StopPlaces, TypeOK, UserTypeOK
<1>4. rows' \in Seq(RunStatus) /\ Len(rows') = Len(rows)
  BY DEF StopCheck, StopPowerOff, StopSet, StopSweep, SetRow, TypeOK, DbTypeOK, RunStatus
<1>5. cancelled' \in BOOLEAN /\ cancelPowerOff' \in BOOLEAN
  BY <1>2 DEF StopCheck, StopPowerOff, StopSet, StopSweep, TypeOK, LockTypeOK, Stop
<1>6. hits' \subseteq [id : 0 .. MaxRuns, powerOff : BOOLEAN]
  BY <1>2 DEF StopCheck, StopPowerOff, StopSet, StopSweep, TypeOK, HistTypeOK, Stop
<1>7. UNCHANGED <<StopVars>>
  BY DEF StopCheck, StopPowerOff, StopSet, StopSweep
<1>8. TypeOK'
  BY <1>3, <1>4, <1>5, <1>6, <1>7
  DEF leaseVars, cfgVars, queueVars, runVars, TypeOK, LeaseTypeOK, ConfigTypeOK, QueueTypeOK, WorkerPlaces, LockTypeOK,
              RunTypeOK, DbTypeOK, UserTypeOK, HistTypeOK
<1>9. WorkerInv'
  <2>1. rows = <<>> <=> rows' = <<>>
    BY <1>4 DEF TypeOK, DbTypeOK
  <2> QED BY <1>4, <1>7, <2>1
     DEF leaseVars, queueVars, runVars, WorkerInv, CallMatchesPc, LoopHasElement, CurrentIsSet, HasRow, InRun, RowIsThere,
      RunsBounded, RunsAskedFor, RunId
<1> QED BY <1>8, <1>9

\* What WorkerInv is about does not change when these variables do not.
LEMMA WorkerInvStable ==
  ASSUME WorkerInv, UNCHANGED <<call, queueVars, pc, todo, recording, rows>>
  PROVE  WorkerInv'
  BY DEF queueVars, WorkerInv, CallMatchesPc, LoopHasElement, CurrentIsSet, HasRow, InRun, RowIsThere,
      RunsBounded, RunsAskedFor, RunId

LEMMA PowerButtonType ==
  ASSUME TypeInv,
         \/ \E u \in Clickers, d \in Devices : Click(u, d)
         \/ \E u \in Clickers : PowerOffNow(u)
         \/ \E d \in Devices : Wake(d)
  PROVE  TypeInv'
<1> USE DEF TypeInv
<1>1. ASSUME NEW u \in Clickers, NEW d \in Devices, Click(u, d)
      PROVE  TypeInv'
  <2>1. WorkerInv'
    BY <1>1, WorkerInvStable DEF Click, leaseVars, runVars, dbVars
  <2>2. lock' = "manual" /\ click' \in [Clickers -> Devices \cup {NoDevice}]
    BY <1>1 DEF Click, Exclusive, TypeOK, UserTypeOK
  <2> QED BY <1>1, <2>1, <2>2 DEF Click, leaseVars, cfgVars, queueVars, runVars, dbVars, histVars,
              TypeOK, LeaseTypeOK, ConfigTypeOK, QueueTypeOK, WorkerPlaces, LockTypeOK,
              RunTypeOK, DbTypeOK, UserTypeOK, HistTypeOK
<1>2. ASSUME NEW u \in Clickers, PowerOffNow(u)
      PROVE  TypeInv'
  <2>1. WorkerInv'
    BY <1>2, WorkerInvStable DEF PowerOffNow, runVars, dbVars
  <2>2. lock' = "free" /\ click' \in [Clickers -> Devices \cup {NoDevice}]
    BY <1>2 DEF PowerOffNow, TypeOK, UserTypeOK
  <2>3. LeaseKey[click[u]] \in LeaseKeys
    BY <1>2, LeaseAssumption DEF PowerOffNow, TypeOK, UserTypeOK
  <2>4. box' \in [LeaseKeys -> BoxState]
    BY <1>2, <2>3 DEF PowerOffNow, LostPowerOff, SentPowerOff, TypeOK, LeaseTypeOK, BoxState
  <2> QED BY <1>2, <2>1, <2>2, <2>4 DEF PowerOffNow, cfgVars, queueVars, runVars, dbVars, histVars,
              TypeOK, LeaseTypeOK, ConfigTypeOK, QueueTypeOK, WorkerPlaces, LockTypeOK,
              RunTypeOK, DbTypeOK, UserTypeOK, HistTypeOK
<1>3. ASSUME NEW d \in Devices, Wake(d)
      PROVE  TypeInv'
  <2>1. WorkerInv'
    BY <1>3, WorkerInvStable DEF Wake, runVars, dbVars
  <2>2. box' \in [LeaseKeys -> BoxState]
    BY <1>3, LeaseAssumption DEF Wake, TypeOK, LeaseTypeOK, BoxState
  <2> QED BY <1>3, <2>1, <2>2 DEF Wake, cfgVars, queueVars, lockVars, runVars, dbVars, userVars, histVars,
              TypeOK, LeaseTypeOK, ConfigTypeOK, QueueTypeOK, WorkerPlaces, LockTypeOK,
              RunTypeOK, DbTypeOK, UserTypeOK, HistTypeOK
<1> QED BY <1>1, <1>2, <1>3

LEMMA EditType ==
  ASSUME TypeInv,
         \/ \E r \in Routes, n \in Needs : EditRoute(r, n)
         \/ \E d \in Devices : EditDevice(d)
  PROVE  TypeInv'
<1> USE DEF TypeInv
<1>1. ConfigTypeOK'
  BY DEF EditRoute, EditDevice, TypeOK, ConfigTypeOK
<1>2. UNCHANGED <<leaseVars, queueVars, pc, lockVars, runVars, dbVars, userVars, histVars>>
  BY DEF EditRoute, EditDevice
<1>3. WorkerInv'
  BY <1>2, WorkerInvStable DEF leaseVars, runVars, dbVars
<1> QED BY <1>1, <1>2, <1>3
   DEF leaseVars, queueVars, lockVars, runVars, dbVars, userVars, histVars, TypeOK, LeaseTypeOK, ConfigTypeOK, QueueTypeOK, WorkerPlaces, LockTypeOK,
              RunTypeOK, DbTypeOK, UserTypeOK, HistTypeOK

LEMMA MachinesType ==
  ASSUME TypeInv, Machines
  PROVE  TypeInv'
<1> USE DEF TypeInv, Machines
<1>1. LeaseTypeOK'
  BY BoxStepType DEF TypeOK
<1>2. WorkerInv'
  BY WorkerInvStable DEF BoxStep, runVars, dbVars
<1> QED BY <1>1, <1>2
   DEF cfgVars, queueVars, lockVars, runVars, dbVars, userVars, histVars, TypeOK, ConfigTypeOK,
       QueueTypeOK, LockTypeOK, RunTypeOK, DbTypeOK, UserTypeOK, HistTypeOK

LEMMA RestartType ==
  ASSUME TypeInv, Restart
  PROVE  TypeInv'
<1> USE DEF TypeInv
<1>1. rows' \in Seq(RunStatus) /\ Len(rows') = Len(rows)
  BY DEF Restart, TypeOK, DbTypeOK, RunStatus
<1>2. Len(rows) <= MaxRuns
  BY Bounds DEF TypeOK, QueueTypeOK, DbTypeOK, WorkerInv, RunsBounded, RunsAskedFor, RunId
<1>3. notified' \subseteq 1 .. MaxRuns
  <2>1. DOMAIN rows \subseteq 1 .. MaxRuns
    BY <1>2, Bounds DEF TypeOK, DbTypeOK
  <2> QED BY <2>1 DEF Restart, TypeOK, HistTypeOK
<1>4. LeaseTypeOK' /\ (\A t \in Threads : call'[t].at = "idle")
  BY NoCallType DEF Restart, TypeOK, LeaseTypeOK
<1>5. QueueTypeOK' /\ LockTypeOK'
  <2>1. 0 \in 0 .. MaxRuns
    BY Bounds
  <2>2. <<>> \in Seq(Item)
    OBVIOUS
  <2> QED BY <2>1, <2>2 DEF Restart, QueueTypeOK, LockTypeOK, WorkerPlaces
<1>6. RunTypeOK'
  <2>1. <<>> \in Seq(Devices)
    OBVIOUS
  <2> QED BY <2>1 DEF Restart, RunTypeOK, RunStatus
<1>7. UserTypeOK'
  <2>1. NoStop \in Stop
    BY Bounds DEF Stop, NoStop, StopPlaces
  <2> QED BY <2>1 DEF Restart, UserTypeOK
<1>8. TypeOK'
  BY <1>1, <1>3, <1>4, <1>5, <1>6, <1>7
  DEF Restart, cfgVars, TypeOK, ConfigTypeOK, DbTypeOK, HistTypeOK
<1>9. WorkerInv'
  BY <1>1, <1>2, <1>4, ServiceAssumption
  DEF Restart, TypeOK, DbTypeOK, WorkerInv, CallMatchesPc, LoopHasElement, CurrentIsSet, HasRow, InRun, RowIsThere,
      RunsBounded, RunsAskedFor, RunId
<1> QED BY <1>8, <1>9

-----------------------------------------------------------------------------
\* Every step of the service keeps the invariant.
LEMMA NextType ==
  ASSUME TypeInv, [Next]_vars
  PROVE  TypeInv'
<1>1. CASE WorkerStep
  BY <1>1, DrainType, ResolveType, StartType, AcquireNextType, AcquireDoneType, FinishingType,
     DecidePolicyType, ReleaseNextType, ReleaseDoneType, ReleasedType, UnwindType, EndType,
     LeaseStepType
  DEF WorkerStep
<1>2. CASE UserStep
  BY <1>2, EnqueueType, DequeueType, StopType, PowerButtonType, EditType DEF UserStep, StopStep
<1>3. CASE Machines \/ Restart
  BY <1>3, MachinesType, RestartType
<1>4. CASE UNCHANGED vars
  <2>1. WorkerInv'
    BY <1>4, WorkerInvStable DEF vars, leaseVars, runVars, dbVars, TypeInv
  <2> QED BY <1>4, <2>1
     DEF vars, leaseVars, cfgVars, queueVars, lockVars, runVars, dbVars, userVars, histVars, TypeInv,
         TypeOK, LeaseTypeOK, ConfigTypeOK, QueueTypeOK, WorkerPlaces, LockTypeOK,
              RunTypeOK, DbTypeOK, UserTypeOK, HistTypeOK
<1> QED BY <1>1, <1>2, <1>3, <1>4 DEF Next

\* The typing of JobService holds in every reachable state, together with what the worker's
\* place says of its lease call, its loop variables, its current run and its row.
THEOREM TypeInvariant == Spec => []TypeInv
<1>1. Init => TypeInv
  BY InitTypeInv
<1>2. TypeInv /\ [Next]_vars => TypeInv'
  BY NextType
<1> QED BY <1>1, <1>2, PTL DEF Spec

\* Every variable keeps its type, whatever the constants.
THEOREM TypeCorrect == Spec => []TypeOK
<1>1. TypeInv => TypeOK
  BY DEF TypeInv
<1> QED BY <1>1, TypeInvariant, PTL

-----------------------------------------------------------------------------
(***************************************************************************)
(* The queue: who changes it, and where the worker may be meanwhile.        *)
(***************************************************************************)
\* Besides these five operations no step touches the queue or the current run, nor starts or
\* ends the worker.
LEMMA QueueSteps ==
  ASSUME TypeInv, [Next]_vars
  PROVE  \/ \E k \in Keys, b \in BOOLEAN : Enqueue(k, b)
         \/ \E i \in DOMAIN queue : Dequeue(i)
         \/ Drain \/ Cleanup \/ Restart
         \/ UNCHANGED queueVars /\ (pc' = "none" <=> pc = "none")
<1> DEFINE Quiet == UNCHANGED queueVars /\ (pc' = "none" <=> pc = "none")
<1>1. ASSUME Resolve \/ TakeLock \/ ClearCancel \/ ClearPowerOff \/ InsertRow \/ SetRunId
      PROVE  Quiet
  BY <1>1 DEF Resolve, TakeLock, ClearCancel, ClearPowerOff, InsertRow, SetRunId, GoTo
<1>2. ASSUME AcquireNext \/ AcquireDone \/ AcquireFailed \/ CheckCancel \/ JobEnd \/ JobFailed
      PROVE  Quiet
  BY <1>2 DEF AcquireNext, AcquireDone, AcquireFailed, CheckCancel, JobEnd, JobFailed, FinishRun,
              GoTo, queueVars
<1>3. ASSUME DecidePolicy \/ ReleaseNext \/ ReleaseDone \/ Released \/ Unwind \/ Unlock
      PROVE  Quiet
  BY <1>3 DEF DecidePolicy, ReleaseNext, ReleaseDone, Released, Unwind, AfterFailedFinish, Unlock, GoTo
<1>4. ASSUME LeaseStep \/ StopStep
      PROVE  Quiet
  BY <1>4 DEF LeaseStep, StopStep, StopCheck, StopPowerOff, StopSet, StopSweep, StopVars
<1>5. ASSUME \/ \E u \in Clickers, d \in Devices : Click(u, d)
             \/ \E u \in Clickers : PowerOffNow(u)
             \/ \E d \in Devices : Wake(d)
             \/ \E r \in Routes, n \in Needs : EditRoute(r, n)
             \/ \E d \in Devices : EditDevice(d)
             \/ Machines \/ UNCHANGED vars
      PROVE  Quiet
  BY <1>5 DEF Click, PowerOffNow, Wake, EditRoute, EditDevice, Machines, vars
<1> QED BY <1>1, <1>2, <1>3, <1>4, <1>5 DEF Next, WorkerStep, UserStep

\* Work is never handed to a worker that has already stopped (_ensure_worker, _drain).
THEOREM QueueServed == Spec => []QueueIsServed
<1>1. Init => QueueIsServed
  BY DEF Init, QueueIsServed
<1>2. ASSUME TypeInv, QueueIsServed, [Next]_vars
      PROVE  QueueIsServed'
  <2>1. CASE \E k \in Keys, b \in BOOLEAN : Enqueue(k, b)
    BY <2>1 DEF Enqueue, EnsureWorker, QueueIsServed
  <2>2. CASE \E i \in DOMAIN queue : Dequeue(i)
    <3>1. queue # <<>> /\ pc' = pc
      BY <2>2 DEF Dequeue
    <3> QED BY <1>2, <3>1 DEF QueueIsServed
  <2>3. CASE Drain
    BY <2>3 DEF Drain, GoTo, queueVars, QueueIsServed
  <2>4. CASE Cleanup
    BY <2>4 DEF Cleanup, GoTo, QueueIsServed
  <2>5. CASE Restart
    BY <2>5 DEF Restart, QueueIsServed
  <2>6. CASE UNCHANGED queueVars /\ (pc' = "none" <=> pc = "none")
    BY <1>2, <2>6 DEF queueVars, QueueIsServed
  <2> QED BY <1>2, <2>1, <2>2, <2>3, <2>4, <2>5, <2>6, QueueSteps
<1> QED BY <1>1, <1>2, TypeInvariant, PTL DEF Spec

-----------------------------------------------------------------------------
\* One subject is never queued twice, nor queued while it runs (enqueue()).
THEOREM SubjectsAreUnique == Spec => []NoDuplicateSubject
<1>1. Init => NoDuplicateSubject
  BY ServiceAssumption DEF Init, NoDuplicateSubject, QueuedKeys
<1>2. ASSUME TypeInv, NoDuplicateSubject, [Next]_vars
      PROVE  NoDuplicateSubject'
  <2> USE DEF NoDuplicateSubject, QueuedKeys
  <2>0. /\ queue \in Seq(Item) /\ Len(queue) \in Nat /\ DOMAIN queue = 1 .. Len(queue)
        /\ \A i \in 1 .. Len(queue) : queue[i] \in Item /\ queue[i].key \in Keys
    <3>1. queue \in Seq(Item)
      BY <1>2 DEF TypeInv, TypeOK, QueueTypeOK
    <3>2. \A i \in 1 .. Len(queue) : queue[i] \in Item
      BY <3>1
    <3>3. \A e \in Item : e.key \in Keys
      BY DEF Item
    <3> QED BY <3>1, <3>2, <3>3
  <2>1. ASSUME NEW k \in Keys, NEW b \in BOOLEAN, Enqueue(k, b)
        PROVE  NoDuplicateSubject'
    <3> DEFINE e == [key |-> k, powerOff |-> b]
    <3>1. e \in Item /\ e.key = k
      BY DEF Item
    <3> HIDE DEF e
    <3>2. queue' = Append(queue, e) /\ current' = current /\ ~Taken(k)
      BY <2>1 DEF Enqueue, e
    <3>3. /\ Len(queue') = Len(queue) + 1
          /\ DOMAIN queue' = 1 .. Len(queue) + 1
          /\ \A i \in 1 .. Len(queue) : queue'[i] = queue[i]
          /\ queue'[Len(queue) + 1] = e
      BY <2>0, <3>1, <3>2
    <3>4. \A i \in 1 .. Len(queue) : queue[i].key # k
      BY <2>0, <3>2 DEF Taken
    <3>5. current.key # k
      BY <3>2 DEF Taken
    <3>6. \A i, j \in DOMAIN queue' : queue'[i].key = queue'[j].key => i = j
      BY <1>2, <2>0, <3>1, <3>3, <3>4
    <3>7. \A i \in DOMAIN queue' : queue'[i].key # current.key
      BY <1>2, <2>0, <3>1, <3>3, <3>5
    <3> QED BY <3>2, <3>6, <3>7
  <2>2. ASSUME NEW n \in DOMAIN queue, Dequeue(n)
        PROVE  NoDuplicateSubject'
    <3>1. /\ queue' = RemoveAt(queue, n) /\ current' = current
          /\ queue' \in Seq(Item) /\ Len(queue') = Len(queue) - 1
          /\ \A j \in 1 .. Len(queue) - 1 : queue'[j] = IF j < n THEN queue[j] ELSE queue[j + 1]
      BY <2>0, <2>2, RemoveAtSeq DEF Dequeue
    <3>2. DOMAIN queue' = 1 .. Len(queue) - 1
      BY <2>0, <3>1
    <3>3. ASSUME NEW i \in DOMAIN queue', NEW j \in DOMAIN queue', queue'[i].key = queue'[j].key
          PROVE  i = j
      <4> DEFINE From(x) == IF x < n THEN x ELSE x + 1
      <4>1. /\ i \in Int /\ j \in Int /\ n \in Int
            /\ From(i) \in DOMAIN queue /\ From(j) \in DOMAIN queue
        BY <2>0, <3>2
      <4>2. queue'[i] = queue[From(i)] /\ queue'[j] = queue[From(j)]
        BY <3>1, <3>2
      <4>3. From(i) = From(j)
        <5> HIDE DEF From
        <5> QED BY <1>2, <3>3, <4>1, <4>2
      <4> QED BY <4>1, <4>3
    <3>4. ASSUME NEW i \in DOMAIN queue' PROVE queue'[i].key # current.key
      <4>1. PICK j \in DOMAIN queue : queue'[i] = queue[j]
        BY <2>0, <3>1, <3>2
      <4> QED BY <1>2, <4>1
    <3> QED BY <3>1, <3>3, <3>4
  <2>3. CASE Drain
    <3>1. CASE UNCHANGED queueVars
      BY <1>2, <3>1 DEF queueVars
    <3>2. CASE queue # <<>> /\ Pop
      <4>1. /\ current' = queue[1] /\ queue' = Tail(queue)
            /\ DOMAIN queue' = 1 .. Len(queue) - 1
            /\ \A j \in 1 .. Len(queue) - 1 : queue'[j] = queue[j + 1]
        BY <2>0, <3>2, HeadTailProperties DEF Pop
      <4>2. \A i, j \in DOMAIN queue' : queue'[i].key = queue'[j].key => i = j
        BY <1>2, <2>0, <4>1
      <4>3. \A i \in DOMAIN queue' : queue'[i].key # current'.key
        BY <1>2, <2>0, <3>2, <4>1
      <4> QED BY <4>2, <4>3
    <3> QED BY <2>3, <3>1, <3>2 DEF Drain
  <2>4. CASE Cleanup
    <3>1. queue' = queue /\ current'.key = NoKey
      BY <2>4 DEF Cleanup, NoItem
    <3> QED BY <1>2, <2>0, <3>1, ServiceAssumption
  <2>5. CASE Restart
    BY <2>5 DEF Restart
  <2>6. CASE UNCHANGED queueVars
    BY <1>2, <2>6 DEF queueVars
  <2> QED BY <1>2, <2>1, <2>2, <2>3, <2>4, <2>5, <2>6, QueueSteps
<1> QED BY <1>1, <1>2, TypeInvariant, PTL DEF Spec

-----------------------------------------------------------------------------
(***************************************************************************)
(* The single-run lock.                                                    *)
(***************************************************************************)
\* Besides these six operations no step touches the lock or a click, nor enters or leaves a run.
LEMMA LockSteps ==
  ASSUME TypeInv, [Next]_vars
  PROVE  \/ TakeLock \/ InsertRow \/ Unlock \/ Restart
         \/ \E u \in Clickers, d \in Devices : Click(u, d)
         \/ \E u \in Clickers : PowerOffNow(u)
         \/ UNCHANGED <<lock, click>> /\ (InRun' <=> InRun)
<1> DEFINE Quiet == UNCHANGED <<lock, click>> /\ (InRun' <=> InRun)
<1> USE DEF InRun, GoTo, lockVars, userVars
<1>1. ASSUME Drain \/ Resolve \/ ClearCancel \/ ClearPowerOff \/ SetRunId \/ Cleanup
      PROVE  Quiet
  BY <1>1 DEF Drain, Resolve, ClearCancel, ClearPowerOff, SetRunId, Cleanup
<1>2. ASSUME AcquireNext \/ AcquireDone \/ AcquireFailed \/ CheckCancel \/ JobEnd \/ JobFailed
      PROVE  Quiet
  BY <1>2 DEF AcquireNext, AcquireDone, AcquireFailed, CheckCancel, JobEnd, JobFailed, FinishRun
<1>3. ASSUME DecidePolicy \/ ReleaseNext \/ ReleaseDone \/ Released \/ Unwind
      PROVE  Quiet
  BY <1>3 DEF DecidePolicy, ReleaseNext, ReleaseDone, Released, Unwind, AfterFailedFinish
<1>4. ASSUME LeaseStep \/ StopStep \/ Machines \/ UNCHANGED vars
      PROVE  Quiet
  BY <1>4 DEF LeaseStep, StopStep, StopCheck, StopPowerOff, StopSet, StopSweep, StopVars, Machines, vars
<1>5. ASSUME \/ \E k \in Keys, b \in BOOLEAN : Enqueue(k, b)
             \/ \E i \in DOMAIN queue : Dequeue(i)
             \/ \E d \in Devices : Wake(d)
             \/ \E r \in Routes, n \in Needs : EditRoute(r, n)
             \/ \E d \in Devices : EditDevice(d)
      PROVE  Quiet
  BY <1>5 DEF Enqueue, EnsureWorker, Dequeue, Wake, EditRoute, EditDevice
<1> QED BY <1>1, <1>2, <1>3, <1>4, <1>5 DEF Next, WorkerStep, UserStep

\* What enqueue() promises: an accepted run waits just once, and there is a worker to take it.
THEOREM QueueKeepsItsPromise == Spec => []QueueIsSound
<1>1. QueueIsServed /\ NoDuplicateSubject => QueueIsSound
  BY DEF QueueIsSound
<1> QED BY <1>1, QueueServed, SubjectsAreUnique, PTL

\* The single-run lock is the worker's exactly while it executes a run, and a manual power-off
\* has it exactly while it lasts, one at a time (_start, exclusive()).
THEOREM LockIsExclusive == Spec => []LockDiscipline
<1>1. Init => LockDiscipline
  BY DEF Init, LockDiscipline, InRun
<1>2. ASSUME TypeInv, LockDiscipline, [Next]_vars
      PROVE  LockDiscipline'
  <2> USE <1>2 DEF LockDiscipline, InRun, GoTo
  <2>1. CASE TakeLock
    BY <2>1 DEF TakeLock, userVars
  <2>2. CASE InsertRow
    BY <2>2 DEF InsertRow, GiveLockBack, userVars
  <2>3. CASE Unlock
    BY <2>3 DEF Unlock, userVars
  <2>4. CASE Restart
    BY <2>4, ServiceAssumption DEF Restart
  <2>5. CASE \E u \in Clickers, d \in Devices : Click(u, d)
    <3>1. PICK u \in Clickers, d \in Devices : Click(u, d)
      BY <2>5
    <3>2. \A v \in Clickers : click'[v] # NoDevice => v = u
      BY <3>1 DEF Click, Exclusive, TypeInv, TypeOK, UserTypeOK
    <3> QED BY <3>1, <3>2 DEF Click, Exclusive
  <2>6. CASE \E u \in Clickers : PowerOffNow(u)
    <3>1. PICK u \in Clickers : PowerOffNow(u)
      BY <2>6
    <3>2. \A v \in Clickers : click'[v] = NoDevice
      BY <3>1 DEF PowerOffNow, TypeInv, TypeOK, UserTypeOK
    <3> QED BY <3>1, <3>2 DEF PowerOffNow
  <2>7. CASE UNCHANGED <<lock, click>> /\ (InRun' <=> InRun)
    BY <2>7
  <2> QED BY <2>1, <2>2, <2>3, <2>4, <2>5, <2>6, <2>7, LockSteps
<1> QED BY <1>1, <1>2, TypeInvariant, PTL DEF Spec

-----------------------------------------------------------------------------
(***************************************************************************)
(* Stop requests.                                                          *)
(***************************************************************************)
\* The requests whose effect is still to come, and those that raised the flag, name runs of S.
Aimed(S) ==
  /\ \A h \in hits : h.id \in S
  /\ \A u \in Stoppers : stop[u].at \in {"power_off", "set"} => stop[u].id \in S

\* Places between the clear of the flag and the row.
Cleared == {"clear_power_off", "insert"}

\* The flag is up only because of a request that came after it was cleared, and a run ends as
\* cancelled only while that is so.  From the clear on, requests name the runs that were being
\* stopped then, or the run itself once it has its row: the id that cancel() compares with is the
\* id of a run in progress, or of one that is about to make room.
StopInv ==
  /\ cancelled => hits # {}
  /\ recording /\ status = "cancelled" => hits # {}
  /\ currentRunId # 0 => currentRunId = RunId /\ (HasRow \/ pc = "cleanup")
  /\ pc \in Cleared => Aimed(crossing)
  /\ HasRow => Aimed(crossing \cup {RunId})

\* Besides these steps none touches what stop requests go by, nor enters a run.
LEMMA StopFrame ==
  ASSUME TypeInv, [Next]_vars
  PROVE  \/ ClearCancel \/ InsertRow \/ SetRunId \/ Cleanup \/ Restart \/ StopStep
         \/ /\ UNCHANGED <<cancelled, hits, crossing, stop, currentRunId>> /\ RunId' = RunId
            /\ recording' /\ status' = "cancelled" =>
                 recording /\ (status = "cancelled" \/ cancelled)
            /\ HasRow' => HasRow
            /\ pc' \in Cleared => pc \in Cleared
            /\ HasRow \/ pc = "cleanup" => HasRow' \/ pc' = "cleanup"
<1> USE DEF HasRow, InRun, Cleared, GoTo, lockVars, runVars, histVars, userVars, dbVars, RunId
<1> DEFINE Quiet ==
      /\ UNCHANGED <<cancelled, hits, crossing, stop, currentRunId>> /\ RunId' = RunId
      /\ recording' /\ status' = "cancelled" => recording /\ (status = "cancelled" \/ cancelled)
      /\ HasRow' => HasRow
      /\ pc' \in Cleared => pc \in Cleared
      /\ HasRow \/ pc = "cleanup" => HasRow' \/ pc' = "cleanup"
<1>0. rows \in Seq(RunStatus)
  BY DEF TypeInv, TypeOK, DbTypeOK
<1>1. ASSUME Drain \/ Resolve \/ TakeLock \/ ClearPowerOff \/ Unlock
      PROVE  Quiet
  BY <1>1 DEF Drain, Resolve, TakeLock, ClearPowerOff, Unlock
<1>2. ASSUME AcquireNext \/ AcquireDone \/ DecidePolicy \/ ReleaseNext \/ ReleaseDone \/ Released
      PROVE  Quiet
  BY <1>2 DEF AcquireNext, AcquireDone, DecidePolicy, ReleaseNext, ReleaseDone, Released
<1>3. ASSUME LeaseStep \/ Machines \/ UNCHANGED vars
      PROVE  Quiet
  BY <1>3 DEF LeaseStep, Machines, vars
<1>4. ASSUME \/ \E k \in Keys, b \in BOOLEAN : Enqueue(k, b)
             \/ \E i \in DOMAIN queue : Dequeue(i)
      PROVE  Quiet
  <2>1. UNCHANGED <<cancelled, hits, crossing, stop, currentRunId, rows, recording, status>>
    BY <1>4 DEF Enqueue, Dequeue
  <2>2. pc' = pc \/ (pc = "none" /\ pc' = "drain")
    BY <1>4 DEF Enqueue, EnsureWorker, Dequeue
  <2> QED BY <2>1, <2>2
<1>5. ASSUME \/ \E u \in Clickers, d \in Devices : Click(u, d)
             \/ \E u \in Clickers : PowerOffNow(u)
             \/ \E d \in Devices : Wake(d)
             \/ \E r \in Routes, n \in Needs : EditRoute(r, n)
             \/ \E d \in Devices : EditDevice(d)
      PROVE  Quiet
  BY <1>5 DEF Click, PowerOffNow, Wake, EditRoute, EditDevice
<1>6. ASSUME AcquireFailed \/ CheckCancel \/ JobEnd \/ JobFailed
      PROVE  Quiet
  <2>1. /\ UNCHANGED <<cancelled, hits, crossing, stop, currentRunId, recording>>
        /\ pc \in {"unreachable", "check", "job", "job_failed"}
        /\ pc' \in {"policy", "unwind", "job_failed", "job"}
    BY <1>6 DEF AcquireFailed, CheckCancel, JobEnd, JobFailed, FinishRun
  <2>2. status' = "cancelled" => status = "cancelled" \/ cancelled
    BY <1>6 DEF AcquireFailed, CheckCancel, JobEnd, JobFailed, FinishRun
  <2>3. RunId' = RunId
    BY <1>0, <1>6 DEF AcquireFailed, CheckCancel, JobEnd, JobFailed, FinishRun, SetRow
  <2> QED BY <2>1, <2>2, <2>3
<1>7. ASSUME Unwind PROVE Quiet
  <2>1. /\ UNCHANGED <<cancelled, hits, crossing, stop, currentRunId>> /\ recording' = FALSE
        /\ pc \in {"unwind", "retry"} /\ pc' \in {"policy", "retry"}
    BY <1>7 DEF Unwind, AfterFailedFinish
  <2>2. RunId' = RunId
    BY <1>0, <1>7 DEF Unwind, SetRow
  <2> QED BY <2>1, <2>2
<1> QED BY <1>1, <1>2, <1>3, <1>4, <1>5, <1>6, <1>7 DEF Next, WorkerStep, UserStep

\* A stop request passes cancel()'s check only with the id of the run in progress.
LEMMA StopStepKeeps ==
  ASSUME TypeInv, StopInv, StopStep
  PROVE  StopInv'
<1>0. /\ rows \in Seq(RunStatus) /\ DOMAIN rows = 1 .. RunId /\ RunId \in Nat
      /\ \A u \in Stoppers : stop[u] \in Stop /\ stop \in [Stoppers -> Stop]
  BY DEF TypeInv, TypeOK, DbTypeOK, UserTypeOK, RunId
<1>1. PICK u \in Stoppers :
        \/ \E i \in DOMAIN rows, b \in BOOLEAN : StopCheck(u, i, b)
        \/ StopPowerOff(u) \/ StopSet(u) \/ StopSweep(u)
  BY DEF StopStep
<1>2. /\ UNCHANGED <<pc, status, recording, currentRunId, crossing>> /\ RunId' = RunId
      /\ (HasRow' <=> HasRow)
  BY <1>0, <1>1 DEF StopCheck, StopPowerOff, StopSet, StopSweep, StopVars, runVars, SetRow, RunId,
                    HasRow, InRun
<1>3. \A v \in Stoppers : v # u => stop'[v] = stop[v]
  BY <1>0, <1>1 DEF StopCheck, StopPowerOff, StopSet, StopSweep
<1>4. ASSUME NEW i \in DOMAIN rows, NEW b \in BOOLEAN, StopCheck(u, i, b)
      PROVE  StopInv'
  <2>1. /\ UNCHANGED <<hits, cancelled>> /\ stop'[u].id = i
        /\ stop'[u].at \in {"power_off", "sweep"}
        /\ stop'[u].at = "power_off" => currentRunId = i
    BY <1>0, <1>4 DEF StopCheck, InFlight
  <2>2. stop'[u].at = "power_off" => i = RunId /\ pc \notin Cleared
    BY <1>0, <2>1 DEF StopInv, HasRow, Cleared
  <2>3. pc \in Cleared => Aimed(crossing)'
    BY <1>2, <1>3, <2>1, <2>2 DEF StopInv, Aimed
  <2>4. HasRow => Aimed(crossing \cup {RunId})'
    BY <1>2, <1>3, <2>1, <2>2 DEF StopInv, Aimed
  <2> QED BY <1>2, <2>1, <2>3, <2>4 DEF StopInv
<1>5. CASE StopPowerOff(u)
  <2>1. /\ UNCHANGED <<hits, cancelled>> /\ stop[u].at = "power_off" /\ stop'[u].id = stop[u].id
    BY <1>0, <1>5 DEF StopPowerOff, Stop
  <2> QED BY <1>2, <1>3, <2>1 DEF StopInv, Aimed
<1>6. CASE StopSet(u)
  <2> DEFINE h == [id |-> stop[u].id, powerOff |-> stop[u].powerOff]
  <2>1. /\ hits' = hits \union {h} /\ h.id = stop[u].id
        /\ stop[u].at = "set" /\ stop'[u].at = "idle"
    BY <1>0, <1>6 DEF StopSet, NoStop
  <2> HIDE DEF h
  <2> QED BY <1>2, <1>3, <2>1 DEF StopInv, Aimed
<1>7. CASE StopSweep(u)
  <2>1. UNCHANGED <<hits, cancelled>> /\ stop'[u].at = "idle"
    BY <1>0, <1>7 DEF StopSweep, NoStop
  <2> QED BY <1>2, <1>3, <2>1 DEF StopInv, Aimed
<1> QED BY <1>1, <1>4, <1>5, <1>6, <1>7

\* Every step keeps what stop requests are aimed at.
LEMMA StopInvariant == Spec => []StopInv
<1>1. Init => StopInv
  BY DEF Init, StopInv, HasRow, InRun, Cleared
<1>2. ASSUME TypeInv, StopInv, [Next]_vars
      PROVE  StopInv'
  <2>0. rows \in Seq(RunStatus) /\ (recording => HasRow /\ pc # "unlock")
    BY <1>2 DEF TypeInv, TypeOK, DbTypeOK, WorkerInv, RowIsThere
  <2> USE <1>2 DEF lockVars, runVars, histVars, userVars, dbVars, GoTo
  <2>1. CASE ClearCancel
    <3>1. /\ ~recording' /\ hits' = {} /\ cancelled' = FALSE /\ UNCHANGED <<stop, currentRunId, rows>>
          /\ pc = "clear" /\ pc' = "clear_power_off"
          /\ crossing' = {stop[u].id : u \in {v \in Stoppers : stop[v].at \in {"power_off", "set"}}}
      BY <2>0, <2>1 DEF ClearCancel, ClearFlag, HasRow
    <3>2. currentRunId = 0
      BY <3>1 DEF StopInv, HasRow
    <3>3. Aimed(crossing)'
      BY <3>1 DEF Aimed
    <3> QED BY <3>1, <3>2, <3>3 DEF StopInv, HasRow, InRun
  <2>2. CASE InsertRow
    <3>1. UNCHANGED <<cancelled, hits, crossing, stop, currentRunId>> /\ pc = "insert" /\ currentRunId = 0
      BY <2>2 DEF InsertRow, StopInv, HasRow
    <3>2. Aimed(crossing)'
      BY <3>1 DEF StopInv, Aimed, Cleared
    <3>3. CASE pc' = "set_id" /\ status' = "running"
      BY <3>1, <3>2, <3>3 DEF StopInv, Aimed, Cleared
    <3>4. CASE pc' = "cleanup" /\ UNCHANGED <<status, recording>>
      BY <3>1, <3>2, <3>4 DEF StopInv, HasRow, InRun, Cleared
    <3> QED BY <2>2, <3>3, <3>4 DEF InsertRow
  <2>3. CASE SetRunId
    <3>1. /\ UNCHANGED <<cancelled, hits, crossing, stop, rows, recording, status>>
          /\ currentRunId' = RunId /\ pc = "set_id" /\ pc' = "acquire"
      BY <2>3 DEF SetRunId
    <3>2. HasRow /\ HasRow' /\ pc' \notin Cleared /\ RunId' = RunId
      BY <3>1 DEF HasRow, InRun, Cleared, RunId
    <3> QED BY <3>1, <3>2 DEF StopInv, Aimed
  <2>4. CASE Cleanup
    BY <2>4 DEF Cleanup, ForgetRunId, StopInv, HasRow, InRun, Cleared
  <2>5. CASE Restart
    BY <2>5 DEF Restart, StopInv, HasRow, InRun, Cleared
  <2>6. CASE StopStep
    BY <2>6, StopStepKeeps
  <2>7. CASE /\ UNCHANGED <<cancelled, hits, crossing, stop, currentRunId>> /\ RunId' = RunId
             /\ recording' /\ status' = "cancelled" =>
                  recording /\ (status = "cancelled" \/ cancelled)
             /\ HasRow' => HasRow
             /\ pc' \in Cleared => pc \in Cleared
             /\ HasRow \/ pc = "cleanup" => HasRow' \/ pc' = "cleanup"
    BY <2>7 DEF StopInv, Aimed
  <2> QED BY <2>1, <2>2, <2>3, <2>4, <2>5, <2>6, <2>7, StopFrame
<1> QED BY <1>1, <1>2, TypeInvariant, PTL DEF Spec

\* A run is stopped only by requests that name it, or that were under way for an earlier run as it
\* cleared the flag: the id that cancel() checks, the clear in _start and the id's reset in _drain
\* leave no other way in, however many requests, runs and restarts there are.
THEOREM StopsDoNotLinger == Spec => []NoStaleStop
<1>1. TypeInv /\ StopInv => NoStaleStop
  BY DEF TypeInv, WorkerInv, RowIsThere, StopInv, Aimed, NoStaleStop
<1> QED BY <1>1, StopInvariant, TypeInvariant, PTL

-----------------------------------------------------------------------------
(***************************************************************************)
(* Leased machines stay up, if a machine that shuts down answers no probe.  *)
(***************************************************************************)
\* Places from which the job can still be reached with the leases taken so far.
BeforeJob == {"acquire", "acquiring", "unreachable", "check", "job", "job_failed"}

\* A machine somebody holds is up; so is one about to be counted.  The call that may power one
\* off has found it held by nobody.  Until the job is over the run holds what it took.
LeaseInv ==
  LET c == call[Worker] IN
  /\ \A k \in LeaseKeys : holders[k] > 0 => box[k] = "up"
  /\ c.at = "count" => box[Key(Worker)] = "up"
  /\ c.at \in ReleasePlaces => holders[Key(Worker)] = 0
  /\ pc = "acquiring" /\ c.at = "done" /\ c.result = "acquired" => holders[Key(Worker)] > 0
  /\ pc \in BeforeJob => \A d \in ToSet(held) : holders[LeaseKey[d]] > 0

\* Steps that leave the machines, the leases and the lease call alone, and do not come nearer to
\* the job.
LEMMA LeaseFrame ==
  ASSUME TypeInv, [Next]_vars
  PROVE  \/ AcquireNext \/ AcquireDone \/ ReleaseNext \/ ReleaseDone \/ LeaseStep \/ SetRunId
         \/ Machines \/ Restart
         \/ \E u \in Clickers : PowerOffNow(u)
         \/ \E d \in Devices : Wake(d)
         \/ /\ UNCHANGED leaseVars
            /\ pc' = "acquiring" <=> pc = "acquiring"
            /\ pc' \in BeforeJob => pc \in BeforeJob /\ held' = held
<1> USE DEF BeforeJob, GoTo, runVars
<1> DEFINE Quiet == /\ UNCHANGED leaseVars
                    /\ pc' = "acquiring" <=> pc = "acquiring"
                    /\ pc' \in BeforeJob => pc \in BeforeJob /\ held' = held
<1>1. ASSUME Drain \/ Resolve \/ TakeLock \/ ClearCancel \/ ClearPowerOff \/ InsertRow
      PROVE  Quiet
  BY <1>1 DEF Drain, Resolve, TakeLock, ClearCancel, ClearPowerOff, InsertRow
<1>2. ASSUME AcquireFailed \/ CheckCancel \/ JobEnd \/ JobFailed
      PROVE  Quiet
  BY <1>2 DEF AcquireFailed, CheckCancel, JobEnd, JobFailed, FinishRun
<1>3. ASSUME DecidePolicy \/ Released \/ Unwind \/ Unlock \/ Cleanup
      PROVE  Quiet
  BY <1>3 DEF DecidePolicy, Released, Unwind, AfterFailedFinish, Unlock, Cleanup
<1>4. ASSUME StopStep \/ UNCHANGED vars
      PROVE  Quiet
  BY <1>4 DEF StopStep, StopCheck, StopPowerOff, StopSet, StopSweep, StopVars, vars
<1>5. ASSUME \/ \E k \in Keys, b \in BOOLEAN : Enqueue(k, b)
             \/ \E i \in DOMAIN queue : Dequeue(i)
             \/ \E u \in Clickers, d \in Devices : Click(u, d)
             \/ \E r \in Routes, n \in Needs : EditRoute(r, n)
             \/ \E d \in Devices : EditDevice(d)
      PROVE  Quiet
  BY <1>5 DEF Enqueue, EnsureWorker, Dequeue, Click, EditRoute, EditDevice
<1> QED BY <1>1, <1>2, <1>3, <1>4, <1>5 DEF Next, WorkerStep, UserStep

\* The worker is one of the threads the lease knows, and the device of its call has a machine.
LEMMA WorkerKey ==
  ASSUME TypeOK
  PROVE  /\ Worker \in Threads /\ call[Worker] \in Call
         /\ \A d \in Devices : LeaseKey[d] \in LeaseKeys
         /\ Key(Worker) \in LeaseKeys
<1>1. Worker \in Threads /\ LeaseKey \in [Devices -> LeaseKeys]
  BY ServiceAssumption, LeaseAssumption
<1>2. call[Worker] \in Call
  BY <1>1 DEF TypeOK, LeaseTypeOK
<1> QED BY <1>1, <1>2 DEF Key, Call

\* Where leases are taken.
LEMMA LeaseInvAcquire ==
  ASSUME TypeInv, LeaseInv, AcquireNext \/ AcquireDone
  PROVE  LeaseInv'
<1> USE DEF LeaseInv
<1>0. Worker \in Threads /\ call \in [Threads -> Call] /\ LeaseKey \in [Devices -> LeaseKeys]
      /\ holders \in [LeaseKeys -> Nat] /\ call[Worker] \in Call
  BY WorkerKey, LeaseAssumption DEF TypeInv, TypeOK, LeaseTypeOK
<1>1. CASE AcquireNext
  <2>1. CASE UNCHANGED leaseVars /\ pc' \in {"check", "unreachable"}
    BY <1>1, <2>1 DEF AcquireNext, leaseVars, runVars, BeforeJob, Key
  <2>2. CASE todo # <<>> /\ AcquireCall(Worker, Head(todo)) /\ pc' = "acquiring"
    <3> DEFINE d == Head(todo)
    <3>1. d \in Devices
      BY <2>2 DEF TypeInv, TypeOK, RunTypeOK
    <3>2. held' = held /\ pc = "acquire" /\ box' = box
      BY <1>1, <2>2 DEF AcquireNext, runVars, AcquireCall
    <3> HIDE DEF d
    <3>3. CASE holders[LeaseKey[d]] > 0
      <4>1. /\ holders' = [holders EXCEPT ![LeaseKey[d]] = @ + 1]
            /\ call'[Worker].at = "done" /\ call'[Worker].dev = d
        BY <1>0, <2>2, <3>3 DEF AcquireCall, d, Frame
      <4>2. \A k \in LeaseKeys : (holders'[k] > 0 <=> holders[k] > 0)
        BY <1>0, <3>1, <3>3, <4>1
      <4>3. \A e \in ToSet(held) : holders'[LeaseKey[e]] > 0
        <5>1. ToSet(held) \subseteq Devices
          BY DEF TypeInv, TypeOK, RunTypeOK, ToSet
        <5> QED BY <1>0, <3>2, <4>2, <5>1 DEF BeforeJob
      <4>4. holders'[LeaseKey[d]] > 0
        BY <1>0, <3>1, <3>3, <4>2
      <4> QED BY <3>2, <4>1, <4>2, <4>3, <4>4 DEF Key, ReleasePlaces
    <3>4. CASE ~(holders[LeaseKey[d]] > 0)
      <4>1. UNCHANGED holders /\ call'[Worker].at = "probe"
        BY <1>0, <2>2, <3>4 DEF AcquireCall, d, Frame
      <4> QED BY <3>2, <4>1 DEF BeforeJob, ReleasePlaces
    <3> QED BY <3>3, <3>4
  <2> QED BY <1>1, <2>1, <2>2 DEF AcquireNext, GoTo
<1>2. CASE AcquireDone
  <2>1. UNCHANGED <<box, holders>> /\ pc = "acquiring" /\ call[Worker].at = "done"
        /\ call'[Worker].at = "idle" /\ pc' \in {"acquire", "unreachable"}
    BY <1>0, <1>2 DEF AcquireDone, Finish, GoTo, NoCall, Frame
  <2>2. ASSUME NEW e \in ToSet(held') PROVE holders'[LeaseKey[e]] > 0
    <3>1. CASE held' = held
      BY <2>1, <2>2, <3>1 DEF BeforeJob
    <3>2. CASE held' = Append(held, call[Worker].dev) /\ call[Worker].result = "acquired"
      <4>1. e \in ToSet(held) \/ e = call[Worker].dev
        <5>1. held \in Seq(Devices) /\ call[Worker].dev \in Devices
          BY <1>0 DEF TypeInv, TypeOK, RunTypeOK, Call
        <5> QED BY <2>2, <3>2, <5>1 DEF ToSet
      <4> QED BY <2>1, <3>2, <4>1 DEF BeforeJob, Key
    <3> QED BY <1>2, <3>1, <3>2 DEF AcquireDone
  <2> QED BY <2>1, <2>2 DEF ReleasePlaces
<1> QED BY <1>1, <1>2

\* Where they are returned.
LEMMA LeaseInvRelease ==
  ASSUME TypeInv, LeaseInv, ReleaseNext \/ ReleaseDone
  PROVE  LeaseInv'
<1> USE DEF LeaseInv, BeforeJob
<1>0. Worker \in Threads /\ call \in [Threads -> Call] /\ LeaseKey \in [Devices -> LeaseKeys]
      /\ holders \in [LeaseKeys -> Nat] /\ call[Worker] \in Call
  BY WorkerKey, LeaseAssumption DEF TypeInv, TypeOK, LeaseTypeOK
<1>1. CASE ReleaseNext
  <2>1. CASE UNCHANGED leaseVars /\ pc' = "unwind"
    BY <1>1, <2>1 DEF ReleaseNext, leaseVars, Key
  <2>2. CASE todo # <<>> /\ ReleaseCall(Worker, Head(todo), policy) /\ pc' = "releasing"
    <3> DEFINE d == Head(todo)
    <3>1. d \in Devices /\ LeaseKey[d] \in LeaseKeys
      BY <1>0, <2>2 DEF TypeInv, TypeOK, RunTypeOK
    <3>2. box' = box
      BY <2>2 DEF ReleaseCall
    <3> HIDE DEF d
    <3> DEFINE Kept == call'[Worker].at = "done" /\ UNCHANGED holders
               Dropped == /\ holders' = [holders EXCEPT ![LeaseKey[d]] = @ - 1]
                          /\ holders[LeaseKey[d]] # 0
                          /\ call'[Worker].dev = d
                          /\ \/ call'[Worker].at = "done"
                             \/ call'[Worker].at = "pending" /\ holders'[LeaseKey[d]] <= 0
    <3>3. CASE Kept
      BY <2>2, <3>2, <3>3 DEF ReleasePlaces
    <3>4. CASE Dropped
      <4>1. \A k \in LeaseKeys : holders'[k] \in Nat /\ holders'[k] <= holders[k]
        BY <1>0, <3>1, <3>4
      <4>2. \A k \in LeaseKeys : holders'[k] > 0 => box'[k] = "up"
        BY <1>0, <3>2, <4>1
      <4>3. call'[Worker].at = "pending" => holders'[LeaseKey[d]] = 0
        <5>1. holders'[LeaseKey[d]] \in Nat
          BY <3>1, <4>1
        <5>2. call'[Worker].at = "pending" => holders'[LeaseKey[d]] <= 0
          BY <3>4
        <5> QED BY <5>1, <5>2
      <4> QED BY <2>2, <3>4, <4>2, <4>3 DEF Key, ReleasePlaces
    <3>5. Kept \/ Dropped
      BY <1>0, <2>2 DEF ReleaseCall, Unheld, Frame, d
    <3> QED BY <3>3, <3>4, <3>5
  <2> QED BY <1>1, <2>1, <2>2 DEF ReleaseNext, GoTo
<1>2. CASE ReleaseDone
  <2>1. UNCHANGED <<box, holders>> /\ call'[Worker].at = "idle" /\ pc' \in {"release", "unwind"}
    BY <1>0, <1>2 DEF ReleaseDone, Finish, GoTo, NoCall, Frame
  <2> QED BY <2>1 DEF ReleasePlaces
<1> QED BY <1>1, <1>2

\* The steps of a lease call, one at a time.
LEMMA LeaseInvCall ==
  ASSUME TypeInv, LeaseInv, ~LingerAnswers, LeaseStep
  PROVE  LeaseInv'
<1> USE DEF LeaseInv, Answers
<1> DEFINE c == call[Worker]
           k == Key(Worker)
<1>0. /\ Worker \in Threads /\ call \in [Threads -> Call] /\ holders \in [LeaseKeys -> Nat]
      /\ box \in [LeaseKeys -> BoxState] /\ k \in LeaseKeys
      /\ pc' = pc /\ held' = held /\ todo' = todo
  BY WorkerKey DEF TypeInv, TypeOK, LeaseTypeOK, LeaseStep, runVars
<1>1. /\ pc = "acquiring" => c.at \in AcquirePlaces \cup {"done"}
      /\ pc = "releasing" => c.at \in ReleasePlaces \cup {"done"}
      /\ pc \notin {"acquiring", "releasing"} => c.at = "idle"
  BY DEF TypeInv, WorkerInv, CallMatchesPc
<1>2. ASSUME NEW p \in Places, Goto(Worker, p), UNCHANGED <<box, holders>>,
             p = "count" => box[k] = "up",
             p \in ReleasePlaces => c.at \in ReleasePlaces,
             p # "done"
      PROVE  LeaseInv'
  BY <1>0, <1>2 DEF Goto, Key
<1>3. ASSUME NEW r, Return(Worker, r), UNCHANGED <<box, holders>>, r # "acquired"
      PROVE  LeaseInv'
  BY <1>0, <1>3 DEF Return, Key, ReleasePlaces
<1>4. CASE Probe(Worker)
  BY <1>2, <1>4 DEF Probe, ReleasePlaces, Places
<1>5. CASE \E b \in BOOLEAN : Decide(Worker, b) \/ WaitAnswered(Worker, b)
  BY <1>2, <1>3, <1>5 DEF Decide, WaitAnswered, ReleasePlaces, Places
<1>6. CASE SendWol(Worker)
  <2>1. CASE UNCHANGED box
    BY <1>2, <1>3, <1>6, <2>1 DEF SendWol, ReleasePlaces, Places
  <2>2. CASE /\ Goto(Worker, "wait") /\ box[k] = "off" /\ UNCHANGED holders
             /\ box' = [box EXCEPT ![k] = "booting"]
    <3>1. \A j \in LeaseKeys : box[j] = "up" => box'[j] = "up"
      BY <1>0, <2>2
    <3>2. call'[Worker].at = "wait"
      BY <1>0, <2>2 DEF Goto
    <3> QED BY <1>0, <2>2, <3>1, <3>2 DEF ReleasePlaces
  <2> QED BY <1>6, <2>1, <2>2 DEF SendWol
<1>7. CASE \E b \in BOOLEAN : WaitEnded(Worker, b)
  <2>1. CASE call' = [call EXCEPT ![Worker].at = "wol", ![Worker].attempt = @ + 1]
    <3>1. UNCHANGED <<box, holders>> /\ call'[Worker].at = "wol"
      BY <1>0, <1>7, <2>1 DEF WaitEnded
    <3> QED BY <1>0, <3>1 DEF ReleasePlaces
  <2>2. CASE Goto(Worker, "grace") \/ Return(Worker, "unreachable")
    BY <1>2, <1>3, <1>7, <2>2 DEF WaitEnded, ReleasePlaces, Places
  <2> QED BY <1>7, <2>1, <2>2 DEF WaitEnded
<1>8. CASE Grace(Worker)
  BY <1>2, <1>3, <1>8 DEF Grace, ReleasePlaces, Places
<1>9. CASE Count(Worker)
  <2>1. /\ c.at = "count" /\ box[k] = "up" /\ UNCHANGED box
        /\ holders' = [holders EXCEPT ![k] = @ + 1]
        /\ call'[Worker].at = "done" /\ Key(Worker)' = k
    BY <1>0, <1>9 DEF Count, Return, Key
  <2>2. \A j \in LeaseKeys : holders'[j] = IF j = k THEN holders[j] + 1 ELSE holders[j]
    BY <1>0, <2>1
  <2>3. \A j \in LeaseKeys : holders'[j] > 0 => box[j] = "up"
    BY <1>0, <2>1, <2>2
  <2>4. \A e \in ToSet(held) : LeaseKey[e] \in LeaseKeys
    BY WorkerKey DEF TypeInv, TypeOK, RunTypeOK, ToSet
  <2>5. \A j \in LeaseKeys : holders[j] > 0 => holders'[j] > 0
    BY <1>0, <2>2
  <2>6. holders'[k] > 0
    BY <1>0, <2>2
  <2> QED BY <1>0, <2>1, <2>3, <2>4, <2>5, <2>6 DEF ReleasePlaces
<1>10. CASE \E P : PendingCheck(Worker, P)
  BY <1>2, <1>3, <1>10 DEF PendingCheck, ReleasePlaces, Places
<1>11. CASE WaitIdle(Worker)
  BY <1>2, <1>3, <1>11 DEF WaitIdle, ReleasePlaces, Places
<1>12. CASE PowerOffCmd(Worker)
  <2>1. /\ holders[k] = 0 /\ UNCHANGED holders /\ pc = "releasing"
        /\ call'[Worker].at = "done" /\ call'[Worker].result # "acquired"
    <3>1. c.at = "poweroff" /\ UNCHANGED holders
      BY <1>12 DEF PowerOffCmd
    <3>2. holders[k] = 0 /\ pc = "releasing"
      BY <1>0, <1>1, <3>1 DEF ReleasePlaces, AcquirePlaces
    <3>3. call'[Worker].at = "done" /\ call'[Worker].result # "acquired"
      <4>1. PICK r \in {"powered_off", "poweroff_failed"} : Return(Worker, r)
        BY <1>12 DEF PowerOffCmd
      <4> QED BY <1>0, <4>1 DEF Return, Call
    <3> QED BY <3>1, <3>2, <3>3
  <2>2. \A j \in LeaseKeys : j # k => box'[j] = box[j]
    BY <1>0, <1>12 DEF PowerOffCmd, SentPowerOff, LostPowerOff
  <2> QED BY <1>0, <2>1, <2>2 DEF ReleasePlaces, BeforeJob
<1> QED
  <2>1. CallStep(Worker, cancelled, PendingKeys) /\ cancelled \in BOOLEAN
    BY DEF LeaseStep, TypeInv, TypeOK, LockTypeOK
  <2> QED BY <1>4, <1>5, <1>6, <1>7, <1>8, <1>9, <1>10, <1>11, <1>12, <2>1 DEF CallStep

\* Machines, users and restarts: the manual power-off has the lock, so no run is going on.
LEMMA LeaseInvOther ==
  ASSUME TypeInv, LockDiscipline, LeaseInv,
         \/ SetRunId \/ Machines \/ Restart
         \/ \E u \in Clickers : PowerOffNow(u)
         \/ \E d \in Devices : Wake(d)
  PROVE  LeaseInv'
<1> USE DEF LeaseInv
<1>0. /\ Worker \in Threads /\ call \in [Threads -> Call] /\ holders \in [LeaseKeys -> Nat]
      /\ box \in [LeaseKeys -> BoxState] /\ Key(Worker) \in LeaseKeys
      /\ \A d \in Devices : LeaseKey[d] \in LeaseKeys
  BY WorkerKey DEF TypeInv, TypeOK, LeaseTypeOK
<1>1. CASE SetRunId
  BY <1>1 DEF SetRunId, leaseVars, GoTo, Key, ToSet
<1>2. CASE Machines \/ \E d \in Devices : Wake(d)
  <2>1. UNCHANGED <<holders, call, pc, held>>
    BY <1>2 DEF Machines, BoxStep, Wake, runVars
  <2>2. \A k \in LeaseKeys : box[k] = "up" => box'[k] = "up"
    BY <1>0, <1>2 DEF Machines, BoxStep, BoxBoots, BoxHalts, Wake
  <2> QED BY <1>0, <2>1, <2>2 DEF Key
<1>3. CASE \E u \in Clickers : PowerOffNow(u)
  <2>1. PICK u \in Clickers : PowerOffNow(u)
    BY <1>3
  <2>2. ~InRun /\ UNCHANGED <<holders, call, pc, held>>
    BY <2>1 DEF PowerOffNow, LockDiscipline, runVars
  <2>3. \A k \in LeaseKeys : holders[k] > 0 => box'[k] = box[k]
    <3>1. click[u] \in Devices
      BY <2>1 DEF PowerOffNow, TypeInv, TypeOK, UserTypeOK
    <3> QED BY <1>0, <2>1, <3>1 DEF PowerOffNow, SentPowerOff, LostPowerOff
  <2>4. call[Worker].at = "idle"
    BY <2>2 DEF InRun, TypeInv, WorkerInv, CallMatchesPc
  <2> QED BY <1>0, <2>2, <2>3, <2>4 DEF InRun, BeforeJob, ReleasePlaces, Key
<1>4. CASE Restart
  <2>1. call'[Worker].at = "idle" /\ pc' = "none" /\ \A k \in LeaseKeys : holders'[k] = 0
    BY <1>0, <1>4, NoCallType DEF Restart
  <2> QED BY <2>1 DEF BeforeJob, ReleasePlaces
<1> QED BY <1>1, <1>2, <1>3, <1>4

\* While the job works every machine it leased is up: no power-off -- the run before, a manual
\* click, a release -- takes it away.  A machine that answers while it shuts down is excluded.
THEOREM LeasedBoxStaysUp == ~LingerAnswers => (Spec => []LeasedBoxIsUp)
<1> SUFFICES ASSUME ~LingerAnswers PROVE Spec => []LeasedBoxIsUp
  OBVIOUS
<1>1. Init => LeaseInv
  <2> SUFFICES ASSUME Init PROVE LeaseInv
    OBVIOUS
  <2>1. \A k \in LeaseKeys : holders[k] = 0
    BY DEF Init, LeaseInit
  <2>2. call[Worker].at = "idle" /\ pc = "none"
    BY NoCallType, ServiceAssumption DEF Init, LeaseInit
  <2> QED BY <2>1, <2>2 DEF LeaseInv, BeforeJob, ReleasePlaces
<1>2. ASSUME TypeInv, LockDiscipline, LeaseInv, [Next]_vars
      PROVE  LeaseInv'
  <2>1. CASE /\ UNCHANGED leaseVars
             /\ pc' = "acquiring" <=> pc = "acquiring"
             /\ pc' \in BeforeJob => pc \in BeforeJob /\ held' = held
    BY <1>2, <2>1 DEF LeaseInv, leaseVars, Key
  <2> QED BY <1>2, <2>1, LeaseFrame, LeaseInvAcquire, LeaseInvRelease, LeaseInvCall, LeaseInvOther
<1>3. TypeInv /\ LeaseInv => LeasedBoxIsUp
  <2> SUFFICES ASSUME TypeInv, LeaseInv, pc = "job", NEW d \in ToSet(held)
               PROVE  box[LeaseKey[d]] = "up"
    BY DEF LeasedBoxIsUp, KeysOf
  <2>1. d \in Devices
    BY DEF TypeInv, TypeOK, RunTypeOK, ToSet
  <2> QED BY <2>1, WorkerKey DEF TypeInv, LeaseInv, BeforeJob
<1> QED BY <1>1, <1>2, <1>3, TypeInvariant, LockIsExclusive, PTL DEF Spec

-----------------------------------------------------------------------------
(***************************************************************************)
(* The run rows, when at most two commits fail.                            *)
(***************************************************************************)
\* Places from which the run's row is still closed.
RowOpen == {"set_id", "acquire", "acquiring", "unreachable", "check", "job", "job_failed",
            "unwind", "retry"}

\* Only the run in progress has a row that says RUNNING; its recorder knows it, and the way
\* to the last try to close it has cost a failed commit at each stage.
RowInv ==
  \A i \in DOMAIN rows :
    rows[i] = "running" =>
      /\ i = RunId /\ pc \in RowOpen /\ status = "running"
      /\ pc = "unwind" => faults >= 1
      /\ pc = "retry" => faults >= 2

\* The other steps keep every row and the status, and lead from an open place to one.
LEMMA RowFrame ==
  ASSUME TypeInv, [Next]_vars
  PROVE  \/ InsertRow \/ AcquireFailed \/ CheckCancel \/ JobEnd \/ JobFailed \/ Unwind \/ Restart
         \/ \E u \in Stoppers : StopSweep(u)
         \/ /\ UNCHANGED <<rows, status>> /\ faults' >= faults
            /\ pc \in RowOpen => pc' \in RowOpen
            /\ pc \in RowOpen /\ pc' \in {"unwind", "retry"} => pc' = pc
<1> USE DEF RowOpen, GoTo, runVars, dbVars, Fault
<1> DEFINE Quiet == /\ UNCHANGED <<rows, status>> /\ faults' >= faults
                    /\ pc \in RowOpen => pc' \in RowOpen
                    /\ pc \in RowOpen /\ pc' \in {"unwind", "retry"} => pc' = pc
<1>0. faults \in Nat
  BY Bounds DEF TypeInv, TypeOK, DbTypeOK
<1>1. ASSUME Drain \/ Resolve \/ TakeLock \/ ClearCancel \/ ClearPowerOff \/ SetRunId
      PROVE  Quiet
  BY <1>0, <1>1 DEF Drain, Resolve, TakeLock, ClearCancel, ClearPowerOff, SetRunId
<1>2. ASSUME AcquireNext \/ AcquireDone
      PROVE  Quiet
  BY <1>0, <1>2 DEF AcquireNext, AcquireDone
<1>3. ASSUME DecidePolicy \/ ReleaseNext \/ ReleaseDone \/ Released \/ Unlock \/ Cleanup
      PROVE  Quiet
  BY <1>0, <1>3 DEF DecidePolicy, ReleaseNext, ReleaseDone, Released, Unlock, Cleanup
<1>4. ASSUME \/ LeaseStep \/ Machines \/ UNCHANGED vars
             \/ \E u \in Stoppers :
                  \/ \E i \in DOMAIN rows, b \in BOOLEAN : StopCheck(u, i, b)
                  \/ StopPowerOff(u) \/ StopSet(u)
      PROVE  Quiet
  BY <1>0, <1>4 DEF LeaseStep, StopCheck, StopPowerOff, StopSet, StopVars, Machines, vars
<1>5. ASSUME \/ \E k \in Keys, b \in BOOLEAN : Enqueue(k, b)
             \/ \E i \in DOMAIN queue : Dequeue(i)
      PROVE  Quiet
  <2>1. UNCHANGED <<rows, status, faults>> /\ (pc' # pc => pc' = "drain" /\ pc = "none")
    BY <1>5 DEF Enqueue, EnsureWorker, Dequeue
  <2> QED BY <1>0, <2>1
<1>6. ASSUME \/ \E u \in Clickers, d \in Devices : Click(u, d)
             \/ \E u \in Clickers : PowerOffNow(u)
             \/ \E d \in Devices : Wake(d)
             \/ \E r \in Routes, n \in Needs : EditRoute(r, n)
             \/ \E d \in Devices : EditDevice(d)
      PROVE  Quiet
  <2>1. UNCHANGED <<rows, status, faults, pc>>
    BY <1>6 DEF Click, PowerOffNow, Wake, EditRoute, EditDevice
  <2> QED BY <1>0, <2>1
<1> QED BY <1>1, <1>2, <1>3, <1>4, <1>5, <1>6 DEF Next, WorkerStep, UserStep, StopStep

\* Closing the row of the run in progress: it says RUNNING no more, or one more commit failed.
LEMMA RowInvFinish ==
  ASSUME TypeInv, RowInv, NEW s \in RunStatus \ {"running"}, NEW p \in {"unwind", "job_failed"},
         pc \in RowOpen \ {"retry"}, FinishRun(s, p)
  PROVE  RowInv'
<1>0. rows \in Seq(RunStatus) /\ faults \in Nat
  BY Bounds DEF TypeInv, TypeOK, DbTypeOK
<1>1. CASE SetRow(RunId, s)
  <2>1. DOMAIN rows' = DOMAIN rows /\ \A i \in DOMAIN rows : rows'[i] = "running" => i # RunId
    BY <1>0, <1>1 DEF SetRow, RunId
  <2>2. \A i \in DOMAIN rows : i # RunId => rows'[i] = rows[i]
    BY <1>0, <1>1 DEF SetRow, RunId
  <2> QED BY <2>1, <2>2 DEF RowInv
<1>2. CASE Fault /\ GoTo(p) /\ UNCHANGED <<rows, status>>
  <2>1. faults' >= 1 /\ pc' \in RowOpen \ {"retry"}
    BY <1>0, <1>2 DEF Fault, GoTo, RowOpen
  <2> QED BY <1>2, <2>1 DEF RowInv, RunId
<1> QED BY <1>1, <1>2 DEF FinishRun

\* Two failed commits never strand a run as RUNNING: the finish, the recorder's exit and its
\* second try are three (_commit, __exit__).
THEOREM RowsAreClosed == MaxFaults <= 2 => (Spec => []NoOrphanRow)
<1> SUFFICES ASSUME MaxFaults <= 2 PROVE Spec => []NoOrphanRow
  OBVIOUS
<1>1. Init => RowInv
  BY DEF Init, RowInv
<1>2. ASSUME TypeInv, RowInv, [Next]_vars
      PROVE  RowInv'
  <2>0. /\ rows \in Seq(RunStatus) /\ RunId \in Nat /\ faults \in 0 .. MaxFaults
        /\ MaxFaults \in Nat /\ DOMAIN rows = 1 .. RunId
    BY <1>2, Bounds DEF TypeInv, TypeOK, DbTypeOK, RunId
  <2>1. CASE InsertRow
    <3>1. \A i \in DOMAIN rows : rows[i] # "running"
      BY <1>2, <2>1 DEF InsertRow, RowInv, RowOpen
    <3>2. CASE rows' = Append(rows, "running") /\ status' = "running" /\ pc' = "set_id"
      <4>1. /\ DOMAIN rows' = 1 .. RunId + 1 /\ RunId' = RunId + 1
            /\ \A i \in 1 .. RunId : rows'[i] = rows[i]
        BY <2>0, <3>2 DEF RunId, RunStatus
      <4>2. \A i \in DOMAIN rows' : rows'[i] = "running" => i = RunId'
        BY <2>0, <3>1, <4>1
      <4> QED BY <3>2, <4>2 DEF RowInv, RowOpen
    <3>3. CASE UNCHANGED rows
      BY <3>1, <3>3 DEF RowInv
    <3> QED BY <2>1, <3>2, <3>3 DEF InsertRow, GoTo
  <2>2. CASE AcquireFailed \/ CheckCancel
    <3>1. CASE AcquireFailed
      BY <1>2, <3>1, RowInvFinish DEF AcquireFailed, RowOpen, RunStatus
    <3>2. CASE CheckCancel /\ cancelled
      BY <1>2, <3>2, RowInvFinish DEF CheckCancel, RowOpen, RunStatus
    <3>3. CASE CheckCancel /\ ~cancelled
      BY <1>2, <3>3 DEF CheckCancel, GoTo, RowInv, RowOpen, RunId
    <3> QED BY <2>2, <3>1, <3>2, <3>3
  <2>3. CASE JobEnd \/ JobFailed
    BY <1>2, <2>3, RowInvFinish DEF JobEnd, JobFailed, RowOpen, RunStatus
  <2>4. CASE Unwind
    <3>1. CASE SetRow(RunId, "failure")
      <4>1. /\ DOMAIN rows' = DOMAIN rows
            /\ \A i \in DOMAIN rows : rows'[i] = IF i = RunId THEN "failure" ELSE rows[i]
        BY <2>0, <3>1 DEF SetRow
      <4>2. \A i \in DOMAIN rows' : rows'[i] # "running"
        BY <1>2, <4>1 DEF RowInv
      <4> QED BY <4>2 DEF RowInv
    <3>2. CASE ~Unfinished /\ UNCHANGED rows
      BY <1>2, <3>2 DEF Unfinished, RowInv
    <3>3. CASE Fault /\ GoTo(AfterFailedFinish) /\ UNCHANGED <<rows, status>>
      <4>1. CASE \E i \in DOMAIN rows : rows[i] = "running"
        <5>1. pc = "unwind" /\ faults >= 1
          BY <1>2, <2>0, <2>4, <3>3, <4>1 DEF Unwind, RowInv, Fault
        <5>2. pc' = "retry" /\ faults' >= 2
          BY <2>0, <3>3, <5>1 DEF AfterFailedFinish, GoTo, Fault
        <5> QED BY <1>2, <3>3, <5>2 DEF RowInv, RowOpen, RunId
      <4>2. CASE \A i \in DOMAIN rows : rows[i] # "running"
        BY <3>3, <4>2 DEF RowInv
      <4> QED BY <4>1, <4>2
    <3> QED BY <2>4, <3>1, <3>2, <3>3 DEF Unwind
  <2>5. CASE Restart
    BY <2>5 DEF Restart, RowInv
  <2>6. CASE \E u \in Stoppers : StopSweep(u)
    <3>1. PICK u \in Stoppers : StopSweep(u)
      BY <2>6
    <3>2. /\ DOMAIN rows' = DOMAIN rows
          /\ \A i \in DOMAIN rows : rows'[i] = "running" => rows[i] = "running"
      BY <2>0, <3>1 DEF StopSweep, SetRow
    <3>3. UNCHANGED <<pc, status, faults>> /\ RunId' = RunId
      BY <2>0, <3>1 DEF StopSweep, StopVars, runVars, SetRow, RunId
    <3> QED BY <1>2, <3>2, <3>3 DEF RowInv
  <2>7. CASE /\ UNCHANGED <<rows, status>> /\ faults' >= faults
             /\ pc \in RowOpen => pc' \in RowOpen
             /\ pc \in RowOpen /\ pc' \in {"unwind", "retry"} => pc' = pc
    <3>1. faults' \in Nat
      <4>1. TypeOK'
        BY <1>2, NextType DEF TypeInv
      <4> QED BY <4>1, Bounds DEF TypeOK, DbTypeOK
    <3> QED BY <1>2, <2>0, <2>7, <3>1 DEF RowInv, RunId
  <2> QED BY <1>2, <2>2, <2>1, <2>3, <2>4, <2>5, <2>6, <2>7, RowFrame
<1>3. RowInv => NoOrphanRow
  BY DEF RowInv, NoOrphanRow, RowOpen, InRun
<1> QED BY <1>1, <1>2, <1>3, TypeInvariant, PTL DEF Spec
==============================================================================
