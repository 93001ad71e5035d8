--------------------------- MODULE RouteCycle_proofs ---------------------------
(***************************************************************************)
(* Proofs about RouteCycle, for any sources, nodes, listings and bound.     *)
(***************************************************************************)
EXTENDS RouteCycle, SequenceTheorems, FiniteSetTheorems, TLAPS

-----------------------------------------------------------------------------
(***************************************************************************)
(* Types.                                                                  *)
(***************************************************************************)
DumpPlaces == {"dump", "poll_dump", "wait_dump"}
NodePlaces == DumpPlaces \cup {"node"}
BackupPlaces == NodePlaces \cup {"precheck", "source", "list"}

\* What the types lean on: where a source and a step are there, and that sets can be counted.
TypeInv ==
  /\ TypeOK
  /\ \A n \in Nodes : IsFiniteSet(perNode[n])
  /\ IsFiniteSet(lostGuests)
  /\ pc \in NodePlaces \cup {"list"} => src <= Len(Sources)
  /\ pc \in {"ask", "poll_step", "wait_step"} => plan # <<>>
  /\ pc \in BackupPlaces => kind = "backup"
  /\ pc = "done" <=> status # "running"

\* The sources as a list: each has one place in it.
LEMMA SourcesType ==
  /\ Len(Sources) \in Nat /\ DOMAIN Sources = 1 .. Len(Sources)
  /\ \A i \in 1 .. Len(Sources) : Sources[i] \in Source
  /\ \A s \in Source : \E i \in 1 .. Len(Sources) : s = Sources[i]
  /\ \A i, j \in 1 .. Len(Sources) : Sources[i] = Sources[j] => i = j
<1>1. Sources \in Seq(Range(Sources)) /\ IsInjective(Sources)
  BY CycleAssumption
<1>2. Len(Sources) \in Nat /\ DOMAIN Sources = 1 .. Len(Sources)
  BY <1>1
<1>3. \A i, j \in 1 .. Len(Sources) : Sources[i] = Sources[j] => i = j
  BY <1>1, <1>2 DEF IsInjective
<1> QED BY <1>2, <1>3 DEF Source, ToSet

\* The source that is being backed up is one.
LEMMA CurIsSource ==
  ASSUME TypeInv, pc \in NodePlaces \cup {"list"}
  PROVE  src \in 1 .. Len(Sources) /\ cur \in Source
<1>1. src \in 1 .. Len(Sources) + 1 /\ src <= Len(Sources)
  BY DEF TypeInv, TypeOK
<1> QED BY <1>1, SourcesType DEF cur

\* The step that is at hand is one.
LEMMA StepIsTask ==
  ASSUME TypeInv, pc \in {"ask", "poll_step", "wait_step"}
  PROVE  stepTask \in Tasks /\ Tail(plan) \in Seq(MaintenanceSteps)
<1>1. plan \in Seq(MaintenanceSteps) /\ plan # <<>>
  BY DEF TypeInv, TypeOK
<1>2. Head(plan) \in MaintenanceSteps /\ Tail(plan) \in Seq(MaintenanceSteps)
  BY <1>1
<1> QED BY <1>2 DEF stepTask, Tasks

\* A plan is a list of steps.
LEMMA PlansType ==
  ASSUME NEW k \in Kinds, NEW p \in Plans(k) PROVE p \in Seq(MaintenanceSteps)
<1> DEFINE M == MaintenanceSteps
<1>1. ASSUME NEW x \in M PROVE Optional(x) \subseteq Seq(M)
  BY <1>1 DEF Optional
<1>2. /\ Optional("gc") \subseteq Seq(M) /\ Optional("verify") \subseteq Seq(M)
      /\ Optional("prune") \subseteq Seq(M)
      /\ <<"sync">> \in Seq(M) /\ <<"gc">> \in Seq(M) /\ <<"verify">> \in Seq(M)
  BY <1>1 DEF MaintenanceSteps
<1> HIDE DEF M
<1>3. \A a, b \in Seq(M) : a \o b \in Seq(M)
  OBVIOUS
<1>4. CASE k = "backup"
  <2>1. PICK g \in Optional("gc"), v \in Optional("verify") : p = g \o v
    BY <1>4 DEF Plans
  <2> QED BY <1>2, <1>3, <2>1 DEF M
<1>5. CASE k = "sync"
  <2>1. PICK r \in Optional("prune"), g \in Optional("gc"), v \in Optional("verify") :
          p = <<"sync">> \o r \o g \o v
    BY <1>5 DEF Plans
  <2> QED BY <1>2, <1>3, <2>1 DEF M
<1>6. CASE k = "verify"
  <2>1. p = <<"verify">>
    BY <1>6 DEF Plans
  <2> QED BY <1>2, <2>1 DEF M
<1>7. CASE k = "maintenance"
  <2>1. p = <<"gc">> \/ p = <<"verify">>
    BY <1>7 DEF Plans
  <2> QED BY <1>2, <2>1 DEF M
<1> QED BY <1>4, <1>5, <1>6, <1>7 DEF Kinds

\* What a source lists.
LEMMA ListingType ==
  ASSUME NEW l \in Listings
  PROVE  l \in [Nodes -> SUBSET Guests] /\ \A n \in Nodes : IsFiniteSet(l[n])
<1>1. DOMAIN l = Nodes /\ \A n \in Nodes : IsFiniteSet(l[n])
  BY CycleAssumption
<1>2. \A n \in Nodes : l[n] \subseteq Guests
  BY <1>1 DEF Guests, Range
<1>3. l = [n \in Nodes |-> l[n]]
  BY CycleAssumption
<1> QED BY <1>1, <1>2, <1>3

\* The first state has its types.
LEMMA InitType == Init => TypeInv
<1> SUFFICES ASSUME Init PROVE TypeInv
  OBVIOUS
<1>1. plan \in Seq(MaintenanceSteps) /\ kind \in Kinds
  BY PlansType DEF Init
<1>2. perNode = NoGuests /\ perNode \in [Nodes -> SUBSET Guests] /\ \A n \in Nodes : IsFiniteSet(perNode[n])
  BY FS_EmptySet DEF Init, NoGuests
<1>3. node \in Nodes
  BY CycleAssumption DEF Init
<1>4. src \in 1 .. Len(Sources) + 1
  BY SourcesType DEF Init
<1>5. /\ {covered, cache, backedUp, leftOut} \subseteq [Source -> SUBSET Guests]
      /\ wanted \in [Source -> [Nodes -> SUBSET Guests]] /\ asked \in [Source -> SUBSET Nodes]
  BY DEF Init, NoGuests
<1>6. IsFiniteSet(lostGuests)
  BY FS_EmptySet DEF Init
<1>7. /\ pc \in Places /\ pc \in {"precheck", "step"} /\ status = "running"
      /\ pc = "precheck" => kind = "backup"
  BY DEF Init, Places
<1>8. /\ cancelled \in BOOLEAN /\ nodeErrors \in BOOLEAN /\ status \in Status
      /\ failed \subseteq Source /\ lostGuests \subseteq Source \X Guests
      /\ running \subseteq Tasks /\ reported \subseteq Tasks
      /\ {total, ok, lateGuests, lateStarts} \subseteq Nat
  <2>1. /\ cancelled = FALSE /\ nodeErrors = FALSE /\ status = "running"
        /\ failed = {} /\ lostGuests = {} /\ running = {} /\ reported = {}
        /\ total = 0 /\ ok = 0 /\ lateGuests = 0 /\ lateStarts = 0
    BY DEF Init
  <2>2. cancelled \in BOOLEAN /\ nodeErrors \in BOOLEAN
    BY <2>1
  <2>3. status \in Status
    BY <2>1 DEF Status
  <2>4. /\ failed \subseteq Source /\ lostGuests \subseteq Source \X Guests
        /\ running \subseteq Tasks /\ reported \subseteq Tasks
    BY <2>1
  <2>5. {total, ok, lateGuests, lateStarts} \subseteq Nat
    BY <2>1
  <2> QED BY <2>2, <2>3, <2>4, <2>5
<1>9. TypeOK
  BY <1>1, <1>2, <1>3, <1>4, <1>5, <1>7, <1>8 DEF TypeOK
<1> QED BY <1>2, <1>6, <1>7, <1>9 DEF TypeInv, BackupPlaces, NodePlaces, DumpPlaces

\* The next source.
LEMMA AdvanceType ==
  ASSUME TypeInv, pc \in NodePlaces \cup {"list"}, Advance
  PROVE  src' \in 1 .. Len(Sources) + 1
  BY CurIsSource, SourcesType DEF Advance

\* The steps between tasks.
LEMMA BetweenType ==
  ASSUME TypeInv,
         Precheck \/ NextSource \/ CancelBetweenNodes \/ FirstPoll \/ NextStep \/ Cancel
  PROVE  TypeInv'
<1> USE DEF vars, loopVars, tallyVars, serverVars, histVars, TypeInv, TypeOK, Ends,
            BackupPlaces, NodePlaces, DumpPlaces
<1>1. CASE Precheck
  BY <1>1 DEF Precheck, Places, Status
<1>2. CASE NextSource
  BY <1>2, SourcesType DEF NextSource, Places, Status
<1>3. CASE CancelBetweenNodes
  BY <1>3 DEF CancelBetweenNodes, Places, Status
<1>4. CASE FirstPoll
  BY <1>4 DEF FirstPoll, Places
<1>5. CASE NextStep
  BY <1>5 DEF NextStep, Places, Status
<1>6. CASE Cancel
  BY <1>6 DEF Cancel
<1> QED BY <1>1, <1>2, <1>3, <1>4, <1>5, <1>6

\* A listing, or its failure, keeps the types.
LEMMA ListGuestsType ==
  ASSUME TypeInv, ListGuests PROVE TypeInv'
<1>1. pc = "list" /\ cur \in Source /\ src \in 1 .. Len(Sources)
  BY CurIsSource DEF ListGuests
<1>2. CASE /\ perNode' \in Listings \ {NoGuests}
           /\ wanted' = [wanted EXCEPT ![cur] = perNode']
           /\ pc' = "node" /\ nodeErrors' = FALSE /\ UNCHANGED <<failed, src>>
  <2>1. PICK l \in Listings : perNode' = l
    BY <1>2
  <2>2. l \in [Nodes -> SUBSET Guests] /\ \A n \in Nodes : IsFiniteSet(l[n])
    BY ListingType
  <2>3. wanted' \in [Source -> [Nodes -> SUBSET Guests]]
    BY <1>1, <1>2, <2>1, <2>2 DEF TypeInv, TypeOK
  <2> QED BY <1>1, <1>2, <2>1, <2>2, <2>3
          DEF ListGuests, TypeInv, TypeOK, Places, serverVars, BackupPlaces, NodePlaces, DumpPlaces
<1>3. CASE SourceDone(TRUE) /\ UNCHANGED <<perNode, nodeErrors, wanted>>
  <2>1. src' \in 1 .. Len(Sources) + 1
    BY <1>1, <1>3, AdvanceType DEF SourceDone
  <2>2. failed' \subseteq Source /\ pc' = "source"
    BY <1>1, <1>3 DEF SourceDone, TypeInv, TypeOK
  <2> QED BY <1>1, <1>3, <2>1, <2>2
          DEF ListGuests, TypeInv, TypeOK, Places, serverVars, BackupPlaces, NodePlaces, DumpPlaces
<1> QED BY <1>2, <1>3 DEF ListGuests

\* The end of a source keeps the types.
LEMMA NodesDoneType ==
  ASSUME TypeInv, NodesDone PROVE TypeInv'
<1>1. pc = "node" /\ cur \in Source
  BY CurIsSource DEF NodesDone, NodePlaces
<1>2. src' \in 1 .. Len(Sources) + 1
  BY <1>1, AdvanceType DEF NodesDone, SourceDone, NodePlaces
<1>3. failed' \subseteq Source /\ pc' = "source"
  BY <1>1 DEF NodesDone, SourceDone, TypeInv, TypeOK
<1> QED BY <1>1, <1>2, <1>3 DEF NodesDone, TypeInv, TypeOK, Places, serverVars, histVars,
                                BackupPlaces, NodePlaces, DumpPlaces

\* A node that is taken up keeps the types.
LEMMA NextNodeType ==
  ASSUME TypeInv, NextNode PROVE TypeInv'
<1>1. PICK n \in Nodes : node' = n /\ total' = total + Cardinality(perNode[n])
  BY DEF NextNode
<1>2. total' \in Nat
  <2>1. Cardinality(perNode[n]) \in Nat
    BY FS_CardinalityType DEF TypeInv
  <2> QED BY <1>1, <2>1 DEF TypeInv, TypeOK
<1> QED BY <1>1, <1>2 DEF NextNode, TypeInv, TypeOK, Places, serverVars, histVars,
                          BackupPlaces, NodePlaces, DumpPlaces

\* The node that is being backed up.
LEMMA GroupType ==
  ASSUME TypeInv, pc \in DumpPlaces
  PROVE  /\ cur \in Source /\ node \in Nodes /\ dump \in Tasks
         /\ group \subseteq Guests /\ IsFiniteSet(group)
<1>1. cur \in Source /\ node \in Nodes
  BY CurIsSource DEF TypeInv, TypeOK, NodePlaces
<1> QED BY <1>1 DEF TypeInv, TypeOK, dump, group, Tasks

\* The end of a node.
LEMMA NodeDoneType ==
  ASSUME TypeInv, pc \in DumpPlaces, NEW bad \in BOOLEAN, NodeDone(bad)
  PROVE  /\ perNode' \in [Nodes -> SUBSET Guests] /\ \A n \in Nodes : IsFiniteSet(perNode'[n])
         /\ nodeErrors' \in BOOLEAN /\ reported' \subseteq Tasks /\ pc' = "node" /\ status' = status
<1>1. perNode' = [perNode EXCEPT ![node] = {}]
  BY DEF NodeDone, NodesLeft
<1>2. perNode' \in [Nodes -> SUBSET Guests] /\ \A n \in Nodes : IsFiniteSet(perNode'[n])
  BY <1>1, FS_EmptySet DEF TypeInv, TypeOK
<1> QED BY <1>2, GroupType DEF NodeDone, TypeInv, TypeOK

\* The request for a task keeps the types.
LEMMA StartDumpType ==
  ASSUME TypeInv, StartDump PROVE TypeInv'
<1>1. /\ pc = "dump" /\ cur \in Source /\ node \in Nodes /\ dump \in Tasks
      /\ UNCHANGED <<kind, plan, cancelled, src, node, tallyVars, cache, backedUp, leftOut, wanted, lateGuests>>
  BY GroupType DEF StartDump, DumpPlaces
<1>2. asked' \in [Source -> SUBSET Nodes] /\ lateStarts' \in Nat
  BY <1>1 DEF StartDump, LateStart, TypeInv, TypeOK
<1>3. running' \subseteq Tasks
  BY <1>1 DEF StartDump, TypeInv, TypeOK
<1>4. CASE pc' = "poll_dump" /\ UNCHANGED <<perNode, nodeErrors, reported, status>>
  BY <1>1, <1>2, <1>3, <1>4 DEF TypeInv, TypeOK, Places, tallyVars, BackupPlaces, NodePlaces, DumpPlaces
<1>5. CASE NodeDone(TRUE)
  <2>1. /\ perNode' \in [Nodes -> SUBSET Guests] /\ \A n \in Nodes : IsFiniteSet(perNode'[n])
        /\ nodeErrors' \in BOOLEAN /\ reported' \subseteq Tasks /\ pc' = "node" /\ status' = status
    BY <1>1, <1>5, NodeDoneType DEF DumpPlaces
  <2> QED BY <1>1, <1>2, <1>3, <2>1 DEF TypeInv, TypeOK, Places, tallyVars, BackupPlaces, NodePlaces, DumpPlaces
<1> QED BY <1>4, <1>5 DEF StartDump

\* The log of a task.
LEMMA TallyType ==
  ASSUME TypeInv, pc \in DumpPlaces, NEW good \in BOOLEAN,
         NEW done \in SUBSET group, NEW bad \in SUBSET group, Tally(good, done, bad)
  PROVE  /\ {covered', backedUp'} \subseteq [Source -> SUBSET Guests]
         /\ {ok', lateGuests'} \subseteq Nat
         /\ lostGuests' \subseteq Source \X Guests /\ IsFiniteSet(lostGuests')
<1>1. /\ cur \in Source /\ group \subseteq Guests /\ IsFiniteSet(group)
      /\ ok \in Nat /\ lateGuests \in Nat /\ MaxLate \in Nat
      /\ {covered, backedUp} \subseteq [Source -> SUBSET Guests]
      /\ lostGuests \subseteq Source \X Guests /\ IsFiniteSet(lostGuests)
  BY GroupType, CycleAssumption DEF TypeInv, TypeOK
<1>2. /\ IsFiniteSet(done) /\ Cardinality(done) \in Nat /\ IsFiniteSet(bad)
      /\ Cardinality(group) \in Nat
  BY <1>1, FS_Subset, FS_CardinalityType
<1>3. PICK late \in Nat : /\ ok' = OkAfter(good, done) + late
                          /\ lateGuests' = lateGuests + late
  BY <1>1 DEF Tally
<1>4. OkAfter(good, done) \in Nat
  BY <1>1, <1>2 DEF OkAfter
<1>5. ok' \in Nat /\ lateGuests' \in Nat
  BY <1>1, <1>3, <1>4
<1>6. IsFiniteSet({cur} \X bad) /\ {cur} \X bad \subseteq Source \X Guests
  BY <1>1, <1>2, FS_Singleton, FS_Product
<1>7. IsFiniteSet(lostGuests') /\ lostGuests' \subseteq Source \X Guests
  BY <1>1, <1>6, FS_Union DEF Tally
<1>8. covered' \in [Source -> SUBSET Guests] /\ backedUp' \in [Source -> SUBSET Guests]
  BY <1>1 DEF Tally, Claim
<1> QED BY <1>5, <1>7, <1>8

\* The end of a task keeps the types.
LEMMA DumpEndsType ==
  ASSUME TypeInv, DumpEnds \/ DumpLeftBehind PROVE TypeInv'
<1>1. /\ pc \in DumpPlaces
      /\ UNCHANGED <<kind, plan, cancelled, src, node, failed, total, cache, wanted, asked, lateStarts>>
      /\ running' \subseteq running
  BY DEF DumpEnds, DumpLeftBehind, DumpPlaces
<1>5. leftOut' \in [Source -> SUBSET Guests]
  <2>1. leftOut \in [Source -> SUBSET Guests] /\ cur \in Source /\ group \subseteq Guests
    BY <1>1, GroupType DEF TypeInv, TypeOK
  <2>2. CASE DumpEnds
    <3>1. PICK x \in SUBSET group : leftOut' = leftOut \/ leftOut' = [leftOut EXCEPT ![cur] = @ \cup x]
      BY <2>2 DEF DumpEnds
    <3> QED BY <2>1, <3>1
  <2>3. CASE DumpLeftBehind
    BY <2>1, <2>3 DEF DumpLeftBehind
  <2> QED BY <2>2, <2>3
<1>2. PICK good \in BOOLEAN, done \in SUBSET group, bad \in SUBSET group :
        Tally(good, done, bad) /\ NodeDone(~good)
  <2>1. CASE DumpEnds
    BY <2>1 DEF DumpEnds, Raises
  <2>2. CASE DumpLeftBehind
    <3>1. PICK done \in SUBSET group : Tally(FALSE, done, {})
      BY <2>2 DEF DumpLeftBehind
    <3>2. NodeDone(TRUE) /\ {} \in SUBSET group /\ FALSE \in BOOLEAN /\ (~FALSE) = TRUE
      BY <2>2 DEF DumpLeftBehind
    <3> QED BY <3>1, <3>2
  <2> QED BY <2>1, <2>2
<1>3. /\ {covered', backedUp'} \subseteq [Source -> SUBSET Guests]
      /\ {ok', lateGuests'} \subseteq Nat
      /\ lostGuests' \subseteq Source \X Guests /\ IsFiniteSet(lostGuests')
  BY <1>1, <1>2, TallyType
<1>4. /\ perNode' \in [Nodes -> SUBSET Guests] /\ \A n \in Nodes : IsFiniteSet(perNode'[n])
      /\ nodeErrors' \in BOOLEAN /\ reported' \subseteq Tasks /\ pc' = "node" /\ status' = status
  <2>1. PICK b \in BOOLEAN : b = ~good
    OBVIOUS
  <2>2. NodeDone(b)
    BY <1>2, <2>1
  <2> QED BY <1>1, <2>2, NodeDoneType
<1> QED BY <1>1, <1>3, <1>4, <1>5 DEF TypeInv, TypeOK, Places, BackupPlaces, NodePlaces, DumpPlaces

\* A task that is stopped keeps the types.
LEMMA CancelDumpType ==
  ASSUME TypeInv, CancelDump PROVE TypeInv'
<1>1. /\ pc \in DumpPlaces /\ Ends("cancelled")
      /\ UNCHANGED <<kind, plan, cancelled, loopVars, failed, total, cache, leftOut, wanted, asked, lateStarts>>
  BY DEF CancelDump, DumpPlaces
<1>2. PICK done \in SUBSET group : Tally(FALSE, done, {})
  BY DEF CancelDump
<1>3. /\ {covered', backedUp'} \subseteq [Source -> SUBSET Guests]
      /\ {ok', lateGuests'} \subseteq Nat
      /\ lostGuests' \subseteq Source \X Guests /\ IsFiniteSet(lostGuests')
  <2>1. PICK good \in BOOLEAN, bad \in SUBSET group : Tally(good, done, bad)
    BY <1>2
  <2> QED BY <1>1, <2>1, TallyType
<1>4. running' \subseteq Tasks /\ reported' \subseteq Tasks
  BY <1>1, GroupType DEF CancelDump, StopTask, TypeInv, TypeOK
<1> QED BY <1>1, <1>3, <1>4 DEF TypeInv, TypeOK, Places, Status, Ends, loopVars, BackupPlaces,
                                NodePlaces, DumpPlaces

\* The tasks on the target.
LEMMA StepType ==
  ASSUME TypeInv, AskStep \/ StepEnds \/ StepLeftBehind \/ CancelStep PROVE TypeInv'
<1>0. stepTask \in Tasks /\ Tail(plan) \in Seq(MaintenanceSteps)
  BY StepIsTask DEF AskStep, StepEnds, StepLeftBehind, CancelStep
<1> HIDE DEF stepTask
<1> USE DEF loopVars, tallyVars, serverVars, Ends, TypeInv, TypeOK, BackupPlaces, NodePlaces,
            DumpPlaces, Places, Status
<1>1. CASE AskStep
  BY <1>0, <1>1 DEF AskStep, LateStart
<1>2. CASE StepEnds
  BY <1>0, <1>2 DEF StepEnds
<1>3. CASE StepLeftBehind
  BY <1>0, <1>3 DEF StepLeftBehind
<1>4. CASE CancelStep
  BY <1>0, <1>4 DEF CancelStep, StopTask
<1> QED BY <1>1, <1>2, <1>3, <1>4

\* The refresh of the last-backup cache keeps the types.
LEMMA RefreshType ==
  ASSUME TypeInv, Refresh PROVE TypeInv'
<1>1. cache' \in [Source -> SUBSET Guests] /\ status' \in {"success", "failure"} /\ pc' = "done"
  BY DEF Refresh, Ends, TypeInv, TypeOK
<1> QED BY <1>1 DEF Refresh, loopVars, tallyVars, serverVars, histVars, TypeInv, TypeOK,
                    BackupPlaces, NodePlaces, DumpPlaces, Places, Status

\* Every step keeps the types.
LEMMA NextType == TypeInv /\ [Next]_vars => TypeInv'
<1>1. ASSUME TypeInv, UNCHANGED vars PROVE TypeInv'
  BY <1>1 DEF vars, loopVars, tallyVars, serverVars, histVars, TypeInv, TypeOK
<1> QED BY <1>1, BetweenType, ListGuestsType, NodesDoneType, NextNodeType, StartDumpType,
           DumpEndsType, CancelDumpType, StepType, RefreshType DEF Next, RunStep

\* Every variable of a run keeps its type (backup_cycle.py, route_cycle.py): a source is backed up
\* only while there is one, and a step is asked for only while the plan has one.
THEOREM CycleTypeCorrect == Spec => []TypeOK
<1>1. TypeInv => TypeOK
  BY DEF TypeInv
<1> QED BY <1>1, InitType, NextType, PTL DEF Spec

-----------------------------------------------------------------------------
(***************************************************************************)
(* A cancel.                                                               *)
(***************************************************************************)
\* A task asked for after the cancel is the last one.
LateInv ==
  \/ lateStarts = 0
  \/ /\ lateStarts = 1 /\ cancelled
     /\ \/ pc \in {"node", "poll_dump", "source", "poll_step", "done"}
        \/ pc = "step" /\ kind = "backup"

\* Every step keeps the count of tasks asked for after a cancel.
LEMMA LateInv_Inductive == TypeInv /\ LateInv /\ [Next]_vars => LateInv'
<1> SUFFICES ASSUME TypeInv, LateInv, [Next]_vars PROVE LateInv'
  OBVIOUS
<1> USE DEF LateInv, Ends, histVars
<1>0. lateStarts \in Nat
  BY DEF TypeInv, TypeOK
<1>1. ASSUME Precheck \/ NextSource \/ CancelBetweenNodes \/ FirstPoll \/ NextNode PROVE LateInv'
  <2>1. CASE NextSource
    <3>1. kind = "backup"
      BY <2>1 DEF NextSource, TypeInv, BackupPlaces
    <3> QED BY <2>1, <3>1 DEF NextSource
  <2>2. CASE Precheck \/ CancelBetweenNodes \/ FirstPoll \/ NextNode
    BY <2>2 DEF Precheck, CancelBetweenNodes, FirstPoll, NextNode, CancelSeen
  <2> QED BY <1>1, <2>1, <2>2
<1>2. ASSUME NextStep PROVE LateInv'
  BY <1>2 DEF NextStep
<1>3. ASSUME ListGuests \/ NodesDone PROVE LateInv'
  BY <1>3 DEF ListGuests, NodesDone, SourceDone
<1>4. ASSUME StartDump PROVE LateInv'
  <2>1. pc' \in {"poll_dump", "node"}
    BY <1>4 DEF StartDump, NodeDone
  <2> QED BY <1>0, <1>4, <2>1 DEF StartDump, LateStart
<1>5. ASSUME DumpEnds \/ DumpLeftBehind PROVE LateInv'
  BY <1>5 DEF DumpEnds, DumpLeftBehind
<1>6. ASSUME CancelDump \/ CancelStep PROVE LateInv'
  BY <1>6 DEF CancelDump, CancelStep
<1>7. ASSUME AskStep PROVE LateInv'
  <2>1. pc' \in {"poll_step", "done"}
    BY <1>7 DEF AskStep
  <2> QED BY <1>0, <1>7, <2>1 DEF AskStep, LateStart
<1>8. ASSUME StepEnds \/ StepLeftBehind \/ Refresh PROVE LateInv'
  BY <1>8 DEF StepEnds, StepLeftBehind, Refresh
<1>9. ASSUME Cancel PROVE LateInv'
  BY <1>9 DEF Cancel
<1>10. CASE UNCHANGED vars
  BY <1>10 DEF vars
<1> QED BY <1>1, <1>2, <1>3, <1>4, <1>5, <1>6, <1>7, <1>8, <1>9, <1>10 DEF Next, RunStep

\* After a cancel at most one more task is asked for, whatever the run is doing when it comes: no
\* path leads from the start that was under way to another one (_run_route, _wait_or_stop).
THEOREM AtMostOneMoreTask == Spec => []AtMostOneLateStart
<1>1. Init => LateInv
  BY DEF Init, LateInv
<1>2. LateInv => AtMostOneLateStart
  BY DEF LateInv, AtMostOneLateStart
<1> QED BY <1>1, <1>2, InitType, NextType, LateInv_Inductive, PTL DEF Spec

-----------------------------------------------------------------------------
(***************************************************************************)
(* Tasks that outlive the run, and errors.                                 *)
(***************************************************************************)
\* The task the run waits for; any other that runs is one the timeline tells of.
Current == IF pc \in {"poll_dump", "wait_dump"} THEN {dump}
           ELSE IF pc \in {"poll_step", "wait_step"} THEN {stepTask} ELSE {}
TaskInv == running \subseteq reported \cup Current

\* The source at hand has an error that is not counted yet.
ErrorsPending == pc \in NodePlaces /\ nodeErrors
ReportInv == status = "running" /\ reported # {} => failed # {} \/ ErrorsPending

\* What the log of a node may say: of a node that is taken for good, that all went well.
LEMMA DumpOutcome ==
  ASSUME TypeInv, DumpEnds \/ DumpLeftBehind
  PROVE  \E good \in BOOLEAN, raised \in BOOLEAN, done \in SUBSET group, bad \in SUBSET group :
           /\ raised = ~good /\ Tally(good, done, bad) /\ NodeDone(raised)
           /\ done \cap bad = {} /\ (good => bad = {})
           /\ \E skipped \in SUBSET group :
                /\ leftOut' = [leftOut EXCEPT ![cur] = @ \cup skipped]
                /\ good => group = done \cup skipped
<1>0. leftOut = [leftOut EXCEPT ![cur] = @ \cup {}]
  BY DEF TypeInv, TypeOK
<1>1. CASE DumpEnds
  <2>1. PICK exit \in {"OK", "WARNINGS", "job errors"}, done \in SUBSET group, bad \in SUBSET group :
          /\ done \cap bad = {} /\ (exit = "OK" => bad = {})
          /\ leftOut' = IF exit = "job errors" THEN leftOut
                        ELSE [leftOut EXCEPT ![cur] = @ \cup (group \ (done \cup bad))]
          /\ Tally(~Raises(exit, bad), done, bad) /\ NodeDone(Raises(exit, bad))
    BY <1>1 DEF DumpEnds
  <2>2. PICK raised \in BOOLEAN : raised = Raises(exit, bad)
    BY DEF Raises
  <2>3. PICK good \in BOOLEAN : good = ~raised
    OBVIOUS
  <2>4. raised = ~good /\ Tally(good, done, bad) /\ NodeDone(raised)
    BY <2>1, <2>2, <2>3
  <2>5. good => bad = {} /\ exit # "job errors"
    BY <2>1, <2>2, <2>3 DEF Raises
  <2>6. PICK skipped \in SUBSET group : skipped = IF exit = "job errors" THEN {} ELSE group \ (done \cup bad)
    OBVIOUS
  <2>7. leftOut' = [leftOut EXCEPT ![cur] = @ \cup skipped] /\ (good => group = done \cup skipped)
    BY <1>0, <2>1, <2>5, <2>6
  <2> QED BY <2>1, <2>4, <2>5, <2>7
<1>2. CASE DumpLeftBehind
  <2>1. PICK done \in SUBSET group : Tally(FALSE, done, {})
    BY <1>2 DEF DumpLeftBehind
  <2>2. NodeDone(TRUE)
    BY <1>2 DEF DumpLeftBehind
  <2>3. PICK good \in BOOLEAN : good = FALSE
    OBVIOUS
  <2>4. PICK raised \in BOOLEAN : raised = TRUE
    OBVIOUS
  <2>5. raised = ~good /\ ~good /\ Tally(good, done, {}) /\ NodeDone(raised)
    BY <2>1, <2>2, <2>3, <2>4
  <2>6. {} \in SUBSET group /\ done \cap {} = {} /\ leftOut' = [leftOut EXCEPT ![cur] = @ \cup {}]
    BY <1>0, <1>2 DEF DumpLeftBehind
  <2> QED BY <2>5, <2>6
<1> QED BY <1>1, <1>2

\* Every step tells of the tasks it leaves behind, and counts the error they are.
LEMMA TaskInv_Inductive ==
  TypeInv /\ TaskInv /\ ReportInv /\ [Next]_vars => TaskInv' /\ ReportInv'
<1> SUFFICES ASSUME TypeInv, TaskInv, ReportInv, [Next]_vars PROVE TaskInv' /\ ReportInv'
  OBVIOUS
<1> USE DEF TaskInv, ReportInv, ErrorsPending, NodePlaces, DumpPlaces
<1>0. pc = "done" <=> status # "running"
  BY DEF TypeInv
<1> HIDE DEF dump, stepTask
<1>1. ASSUME Precheck \/ NextSource \/ CancelBetweenNodes \/ NextNode \/ NextStep
      PROVE  TaskInv' /\ ReportInv'
  <2>1. /\ UNCHANGED <<running, reported, failed, nodeErrors>>
        /\ Current = {} /\ Current' = {} /\ (status' = "running" => status = "running")
        /\ pc \in {"precheck", "source", "node", "step"}
        /\ pc = "node" => pc' \in {"dump", "done"}
        /\ pc' = "done" => status' # "running"
    BY <1>1 DEF Precheck, NextSource, CancelBetweenNodes, NextNode, NextStep, Ends,
                loopVars, tallyVars, serverVars, histVars, Current
  <2> QED BY <2>1
<1>2. ASSUME ListGuests PROVE TaskInv' /\ ReportInv'
  <2>1. /\ UNCHANGED <<running, reported, status>> /\ Current = {} /\ Current' = {}
        /\ failed \subseteq failed' /\ pc = "list"
    BY <1>2 DEF ListGuests, SourceDone, serverVars, Current
  <2> QED BY <2>1
<1>12. ASSUME NodesDone PROVE TaskInv' /\ ReportInv'
  <2>1. /\ UNCHANGED <<running, reported, status>> /\ Current = {} /\ Current' = {}
        /\ failed \subseteq failed' /\ (nodeErrors => failed' # {}) /\ pc = "node"
    BY <1>12 DEF NodesDone, SourceDone, serverVars, histVars, Current
  <2> QED BY <2>1
<1>3. ASSUME StartDump PROVE TaskInv' /\ ReportInv'
  <2>1. pc = "dump" /\ Current = {} /\ UNCHANGED <<failed, src, node>>
    BY <1>3 DEF StartDump, Current, tallyVars
  <2>2. dump' = dump
    BY <2>1 DEF dump, cur
  <2>3. CASE running' = running \cup {dump} /\ pc' = "poll_dump" /\ UNCHANGED <<nodeErrors, reported, status>>
    BY <2>1, <2>2, <2>3 DEF Current
  <2>4. CASE running' \subseteq running \cup {dump} /\ NodeDone(TRUE)
    BY <2>1, <2>4 DEF NodeDone
  <2> QED BY <1>3, <2>3, <2>4 DEF StartDump
<1>4. ASSUME DumpEnds \/ DumpLeftBehind PROVE TaskInv' /\ ReportInv'
  <2>1. pc = "wait_dump" /\ running' \subseteq running /\ Current = {dump} /\ UNCHANGED failed
    BY <1>4 DEF DumpEnds, DumpLeftBehind, Current
  <2>2. CASE DumpEnds
    <3>1. PICK bad \in BOOLEAN : NodeDone(bad)
      <4>1. \A exit, x : Raises(exit, x) \in BOOLEAN
        BY DEF Raises
      <4> QED BY <2>2, <4>1 DEF DumpEnds
    <3>2. dump \notin running'
      BY <2>2 DEF DumpEnds
    <3> QED BY <2>1, <3>1, <3>2 DEF NodeDone
  <2>3. CASE DumpLeftBehind
    <3>1. NodeDone(TRUE)
      BY <2>3 DEF DumpLeftBehind
    <3> QED BY <2>1, <3>1 DEF NodeDone
  <2> QED BY <1>4, <2>2, <2>3
<1>5. ASSUME CancelDump PROVE TaskInv' /\ ReportInv'
  <2>1. pc' = "done" /\ status' = "cancelled" /\ Current \subseteq {dump} /\ StopTask(dump)
    BY <1>5 DEF CancelDump, Ends, Current
  <2> QED BY <2>1 DEF StopTask
<1>6. ASSUME CancelStep PROVE TaskInv' /\ ReportInv'
  <2>1. pc' = "done" /\ status' = "cancelled" /\ Current \subseteq {stepTask} /\ StopTask(stepTask)
    BY <1>6 DEF CancelStep, Ends, Current
  <2> QED BY <2>1 DEF StopTask
<1>7. ASSUME AskStep PROVE TaskInv' /\ ReportInv'
  <2>1. pc = "ask" /\ Current = {} /\ running' \subseteq running \cup {stepTask} /\ UNCHANGED <<plan, failed>>
    BY <1>7 DEF AskStep, Current, tallyVars
  <2>2. stepTask' = stepTask
    BY <2>1 DEF stepTask
  <2> QED BY <1>7, <2>1, <2>2 DEF AskStep, Ends, Current
<1>8. ASSUME StepEnds PROVE TaskInv' /\ ReportInv'
  <2>1. /\ pc = "wait_step" /\ Current = {stepTask} /\ running' = running \ {stepTask}
        /\ UNCHANGED failed
    BY <1>8 DEF StepEnds, Current, tallyVars
  <2> QED BY <1>8, <2>1 DEF StepEnds, Ends
<1>9. ASSUME StepLeftBehind PROVE TaskInv' /\ ReportInv'
  <2>1. /\ pc = "wait_step" /\ Current = {stepTask} /\ UNCHANGED <<running, failed>>
        /\ reported' = reported \cup {stepTask} /\ status' = "failure"
    BY <1>9 DEF StepLeftBehind, Current, Ends, tallyVars, serverVars
  <2> QED BY <2>1
<1>10. ASSUME Refresh PROVE TaskInv' /\ ReportInv'
  BY <1>10 DEF Refresh, Ends, Current, serverVars, histVars, tallyVars
<1>11. ASSUME FirstPoll \/ Cancel \/ UNCHANGED vars PROVE TaskInv' /\ ReportInv'
  <2>1. UNCHANGED <<src, node, plan, nodeErrors, failed, status, running, reported>>
    BY <1>11 DEF FirstPoll, Cancel, vars, loopVars, tallyVars, serverVars, histVars
  <2>2. dump' = dump /\ stepTask' = stepTask
    BY <2>1 DEF dump, cur, stepTask
  <2>3. \/ UNCHANGED pc
        \/ pc = "poll_dump" /\ pc' = "wait_dump"
        \/ pc = "poll_step" /\ pc' = "wait_step"
    BY <1>11 DEF FirstPoll, Cancel, vars
  <2> QED BY <2>1, <2>2, <2>3 DEF Current
<1> QED BY <1>1, <1>2, <1>3, <1>4, <1>5, <1>6, <1>7, <1>8, <1>9, <1>10, <1>11, <1>12
        DEF Next, RunStep

-----------------------------------------------------------------------------
(***************************************************************************)
(* The loop over sources and nodes.                                        *)
(***************************************************************************)
\* A node of a source has had its turn.
NodeServed(s, n) ==
  /\ wanted[s][n] # {} => n \in asked[s]
  /\ <<s, n>> \notin reported => wanted[s][n] \subseteq covered[s]

\* The guests a source has no more to wait for: backed up, or passed over by PVE.
settled == [s \in Source |-> backedUp[s] \cup leftOut[s]]

\* What is claimed is settled, and what is settled was listed.
ClaimInv ==
  \A s \in Source : /\ settled[s] \subseteq UNION Range(wanted[s])
                    /\ covered[s] \subseteq settled[s] /\ cache[s] \subseteq settled[s]

\* Sources and nodes that are passed have had their turn, and the others are untouched.
TurnInv ==
  /\ \A i \in 1 .. Len(Sources) : i < src => \A n \in Nodes : NodeServed(Sources[i], n)
  /\ pc \in NodePlaces => \A n \in Nodes : \/ perNode[n] = wanted[cur][n]
                                           \/ perNode[n] = {} /\ NodeServed(cur, n)
  /\ pc \in DumpPlaces => perNode[node] = wanted[cur][node]
  /\ pc \in {"poll_dump", "wait_dump"} => node \in asked[cur]
  /\ status = "running" =>
       \A i \in 1 .. Len(Sources) : i > src \/ (i = src /\ pc \notin NodePlaces) =>
         wanted[Sources[i]] = NoGuests /\ asked[Sources[i]] = {} /\ settled[Sources[i]] = {}

\* Where the loop stands when a run ends.
EndInv ==
  /\ pc = "precheck" => src = 1
  /\ kind = "backup" =>
       /\ pc \notin BackupPlaces \cup {"done"} => src > Len(Sources)
       /\ status \in {"success", "failure", "aborted"} =>
            src > Len(Sources) \/ (src = 1 /\ \A s \in Source : asked[s] = {})

WorkInv == ClaimInv /\ TurnInv /\ EndInv

\* A node that has had its turn stays served.
LEMMA ServedStays ==
  ASSUME NEW s \in Source, NEW n \in Nodes, NodeServed(s, n),
         wanted'[s] = wanted[s], asked[s] \subseteq asked'[s],
         covered[s] \subseteq covered'[s], reported \subseteq reported'
  PROVE  NodeServed(s, n)'
  BY DEF NodeServed

\* What leaves the work alone.
LEMMA FrameWork ==
  ASSUME TypeInv, WorkInv,
         UNCHANGED <<kind, src, perNode, node, wanted, asked, covered, settled>>,
         reported \subseteq reported',
         \A s \in Source : cache'[s] \subseteq settled[s],
         pc' \in NodePlaces => pc \in NodePlaces,
         pc' \in DumpPlaces => pc \in DumpPlaces,
         pc' \in {"poll_dump", "wait_dump"} => pc \in {"poll_dump", "wait_dump"},
         status' = "running" => status = "running" /\ (pc \in NodePlaces => pc' \in NodePlaces)
  PROVE  ClaimInv' /\ TurnInv'
<1>1. ClaimInv'
  BY DEF WorkInv, ClaimInv
<1>2. cur' = cur
  BY DEF cur
<1>3. \A s \in Source, n \in Nodes : NodeServed(s, n) => NodeServed(s, n)'
  BY ServedStays
<1>4. ASSUME NEW i \in 1 .. Len(Sources), i < src', NEW n \in Nodes PROVE NodeServed(Sources[i], n)'
  BY <1>3, <1>4, SourcesType DEF WorkInv, TurnInv
<1>5. ASSUME pc' \in NodePlaces, NEW n \in Nodes
      PROVE  \/ perNode'[n] = wanted'[cur'][n]
             \/ perNode'[n] = {} /\ NodeServed(cur, n)'
  <2>1. cur \in Source
    BY <1>5, CurIsSource
  <2> QED BY <1>2, <1>3, <1>5, <2>1 DEF WorkInv, TurnInv
<1>6. /\ pc' \in DumpPlaces => perNode'[node'] = wanted'[cur'][node']
      /\ pc' \in {"poll_dump", "wait_dump"} => node' \in asked'[cur']
  BY <1>2 DEF WorkInv, TurnInv
<1>7. status' = "running" =>
       \A i \in 1 .. Len(Sources) : i > src' \/ (i = src' /\ pc' \notin NodePlaces) =>
         wanted'[Sources[i]] = NoGuests /\ asked'[Sources[i]] = {} /\ settled'[Sources[i]] = {}
  BY DEF WorkInv, TurnInv
<1> QED BY <1>1, <1>2, <1>4, <1>5, <1>6, <1>7 DEF TurnInv

\* The steps between tasks and those on the target leave it alone.
LEMMA BetweenWork ==
  ASSUME TypeInv, WorkInv,
         \/ Precheck \/ NextSource \/ CancelBetweenNodes \/ FirstPoll \/ NextStep \/ Cancel
         \/ AskStep \/ StepEnds \/ StepLeftBehind \/ CancelStep \/ Refresh \/ UNCHANGED vars
  PROVE  WorkInv'
<1> USE DEF loopVars, tallyVars, serverVars, histVars, Ends
<1>0. /\ \A s \in Source : covered[s] \subseteq settled[s] /\ cache[s] \subseteq settled[s]
      /\ pc = "done" <=> status # "running"
  BY DEF WorkInv, ClaimInv, TypeInv
<1> DEFINE Frame ==
      /\ UNCHANGED <<kind, src, perNode, node, wanted, asked, covered, settled>>
      /\ reported \subseteq reported'
      /\ \A s \in Source : cache'[s] \subseteq settled[s]
<1>1. CASE Precheck \/ CancelBetweenNodes \/ NextStep \/ StepLeftBehind
  <2>1. Frame
    BY <1>0, <1>1 DEF Precheck, CancelBetweenNodes, NextStep, StepLeftBehind, settled
  <2>2. /\ pc' \notin NodePlaces /\ (pc \in NodePlaces => pc' = "done" /\ status' # "running")
        /\ status = "running"
    BY <1>0, <1>1 DEF Precheck, CancelBetweenNodes, NextStep, StepLeftBehind, NodePlaces, DumpPlaces
  <2>3. EndInv'
    <3>0. EndInv
      BY DEF WorkInv
    <3>1. CASE Precheck
      <4>1. src = 1 /\ \A s \in Source : asked[s] = {}
        <5>1. src = 1
          BY <3>0, <3>1 DEF EndInv, Precheck
        <5>2. \A i \in 1 .. Len(Sources) : asked[Sources[i]] = {}
          BY <2>2, <3>1, <5>1 DEF WorkInv, TurnInv, Precheck, NodePlaces, DumpPlaces
        <5> QED BY <5>1, <5>2, SourcesType
      <4>2. pc' \in {"source", "done"}
        BY <3>1 DEF Precheck
      <4> QED BY <2>1, <4>1, <4>2 DEF EndInv, BackupPlaces
    <3>2. CASE CancelBetweenNodes
      BY <3>0, <3>2 DEF EndInv, CancelBetweenNodes, BackupPlaces
    <3>3. CASE NextStep
      <4>1. kind = "backup" => src > Len(Sources)
        BY <3>0, <3>3 DEF EndInv, NextStep, BackupPlaces, NodePlaces, DumpPlaces
      <4>2. pc' # "precheck" /\ UNCHANGED <<kind, src>>
        BY <3>3 DEF NextStep
      <4> QED BY <4>1, <4>2 DEF EndInv
    <3>4. CASE StepLeftBehind
      <4>1. kind = "backup" => src > Len(Sources)
        BY <3>0, <3>4 DEF EndInv, StepLeftBehind, BackupPlaces, NodePlaces, DumpPlaces
      <4>2. pc' # "precheck" /\ UNCHANGED <<kind, src>>
        BY <3>4 DEF StepLeftBehind
      <4> QED BY <4>1, <4>2 DEF EndInv
    <3> QED BY <1>1, <3>1, <3>2, <3>3, <3>4
  <2> QED BY <2>1, <2>2, <2>3, FrameWork DEF WorkInv, NodePlaces, DumpPlaces
<1>2. CASE NextSource
  <2>1. Frame /\ pc = "source" /\ pc' \in {"step", "list", "done"} /\ status = "running"
    BY <1>0, <1>2 DEF NextSource, settled
  <2>2. EndInv'
    BY <1>2, <2>1 DEF WorkInv, EndInv, NextSource, BackupPlaces
  <2> QED BY <2>1, <2>2, FrameWork DEF WorkInv, NodePlaces, DumpPlaces
<1>3. CASE FirstPoll \/ Cancel \/ UNCHANGED vars
  <2>1. Frame /\ UNCHANGED status
    BY <1>0, <1>3 DEF FirstPoll, Cancel, vars, settled
  <2>2. \/ UNCHANGED pc
        \/ pc = "poll_dump" /\ pc' = "wait_dump"
        \/ pc = "poll_step" /\ pc' = "wait_step"
    BY <1>3 DEF FirstPoll, Cancel, vars
  <2>3. EndInv'
    BY <2>1, <2>2 DEF WorkInv, EndInv, BackupPlaces, NodePlaces, DumpPlaces
  <2> QED BY <2>1, <2>2, <2>3, FrameWork DEF WorkInv, NodePlaces, DumpPlaces
<1>4. CASE AskStep \/ StepEnds \/ CancelStep \/ Refresh
  <2>1. /\ UNCHANGED <<kind, src, perNode, node, wanted, asked, covered, settled>>
        /\ reported \subseteq reported'
    BY <1>4 DEF AskStep, StepEnds, CancelStep, StopTask, Refresh, settled
  <2>2. \A s \in Source : cache'[s] \subseteq settled[s]
    BY <1>0, <1>4 DEF AskStep, StepEnds, CancelStep, Refresh
  <2>3. /\ pc \in {"ask", "poll_step", "wait_step", "refresh"} /\ status = "running"
        /\ pc' \in {"poll_step", "step", "refresh", "done"}
    BY <1>0, <1>4 DEF AskStep, StepEnds, CancelStep, Refresh
  <2>4. EndInv'
    <3>1. kind = "backup" => src > Len(Sources)
      BY <2>3 DEF WorkInv, EndInv, BackupPlaces, NodePlaces, DumpPlaces
    <3> QED BY <2>1, <2>3, <3>1 DEF EndInv
  <2> QED BY <2>1, <2>2, <2>3, <2>4, FrameWork DEF WorkInv, NodePlaces, DumpPlaces
<1> QED BY <1>1, <1>2, <1>3, <1>4

\* A listing is taken of a source nothing was asked of.
LEMMA ListGuestsWork ==
  ASSUME TypeInv, WorkInv, ListGuests PROVE WorkInv'
<1>0. /\ pc = "list" /\ status = "running" /\ src \in 1 .. Len(Sources) /\ cur \in Source
      /\ UNCHANGED <<kind, node, covered, cache, settled, status, asked, reported>>
      /\ wanted \in [Source -> [Nodes -> SUBSET Guests]]
      /\ kind = "backup"
  BY CurIsSource DEF ListGuests, serverVars, TypeInv, TypeOK, BackupPlaces, settled
<1>1. wanted[cur] = NoGuests /\ asked[cur] = {} /\ settled[cur] = {}
  BY <1>0 DEF WorkInv, TurnInv, cur, NodePlaces, DumpPlaces
<1>2. CASE /\ perNode' \in Listings \ {NoGuests}
           /\ wanted' = [wanted EXCEPT ![cur] = perNode']
           /\ pc' = "node" /\ UNCHANGED src
  <2>1. /\ wanted'[cur] = perNode' /\ \A s \in Source \ {cur} : wanted'[s] = wanted[s]
        /\ cur' = cur
    BY <1>0, <1>2 DEF cur
  <2>2. \A i \in 1 .. Len(Sources) : i # src => Sources[i] \in Source \ {cur}
    BY <1>0, SourcesType DEF cur
  <2>3. ClaimInv'
    <3>1. ASSUME NEW s \in Source PROVE settled[s] \subseteq UNION Range(wanted'[s])
      <4>1. CASE s = cur
        BY <1>1, <4>1
      <4>2. CASE s # cur
        BY <2>1, <4>2 DEF WorkInv, ClaimInv
      <4> QED BY <4>1, <4>2
    <3> QED BY <1>0, <3>1 DEF WorkInv, ClaimInv
  <2>4. ASSUME NEW i \in 1 .. Len(Sources), i < src', NEW n \in Nodes PROVE NodeServed(Sources[i], n)'
    <3>1. NodeServed(Sources[i], n) /\ Sources[i] \in Source \ {cur}
      BY <1>0, <1>2, <2>2, <2>4 DEF WorkInv, TurnInv
    <3> QED BY <1>0, <2>1, <3>1 DEF NodeServed
  <2>5. TurnInv'
    BY <1>0, <1>2, <2>1, <2>2, <2>4 DEF WorkInv, TurnInv, NodePlaces, DumpPlaces
  <2>6. EndInv'
    BY <1>0, <1>2 DEF WorkInv, EndInv, BackupPlaces, NodePlaces
  <2> QED BY <2>3, <2>5, <2>6 DEF WorkInv
<1>3. CASE SourceDone(TRUE) /\ UNCHANGED wanted
  <2>1. src' = src + 1 /\ pc' = "source"
    BY <1>3 DEF SourceDone, Advance
  <2>2. ClaimInv'
    BY <1>0, <1>3 DEF WorkInv, ClaimInv
  <2>3. ASSUME NEW i \in 1 .. Len(Sources), i < src', NEW n \in Nodes PROVE NodeServed(Sources[i], n)'
    <3>1. NodeServed(Sources[i], n)
      <4>1. CASE i < src
        BY <4>1 DEF WorkInv, TurnInv
      <4>2. CASE i = src
        <5>1. Sources[i] = cur /\ wanted[cur][n] = {}
          BY <1>1, <4>2 DEF cur, NoGuests
        <5> QED BY <5>1 DEF NodeServed
      <4> QED BY <1>0, <2>1, <2>3, <4>1, <4>2
    <3> QED BY <1>0, <1>3, <3>1 DEF NodeServed
  <2>4. ASSUME NEW i \in 1 .. Len(Sources), i >= src'
        PROVE  wanted'[Sources[i]] = NoGuests /\ asked'[Sources[i]] = {} /\ settled'[Sources[i]] = {}
    <3>1. i > src
      BY <1>0, <2>1, <2>4
    <3> QED BY <1>0, <1>3, <3>1 DEF WorkInv, TurnInv
  <2>5. TurnInv'
    BY <1>0, <2>1, <2>3, <2>4 DEF TurnInv, NodePlaces, DumpPlaces
  <2>6. EndInv'
    BY <1>0, <2>1 DEF WorkInv, EndInv, BackupPlaces
  <2> QED BY <2>2, <2>5, <2>6 DEF WorkInv
<1> QED BY <1>2, <1>3 DEF ListGuests

\* A node is taken up.
LEMMA NextNodeWork ==
  ASSUME TypeInv, WorkInv, NextNode PROVE WorkInv'
<1>0. /\ pc = "node" /\ pc' = "dump" /\ status = "running"
      /\ UNCHANGED <<kind, src, perNode, covered, cache, settled, status, wanted, asked, reported>>
  BY DEF NextNode, TypeInv, serverVars, histVars, settled
<1>1. PICK m \in Nodes : perNode[m] # {} /\ node' = m
  BY DEF NextNode
<1>2. cur' = cur /\ perNode[m] = wanted[cur][m]
  BY <1>0, <1>1 DEF WorkInv, TurnInv, cur, NodePlaces
<1>3. \A s, n : NodeServed(s, n)' <=> NodeServed(s, n)
  BY <1>0 DEF NodeServed
<1>4. TurnInv'
  BY <1>0, <1>1, <1>2, <1>3 DEF WorkInv, TurnInv, NodePlaces, DumpPlaces, NodeServed
<1>5. ClaimInv' /\ EndInv'
  BY <1>0 DEF WorkInv, ClaimInv, EndInv, BackupPlaces, NodePlaces, DumpPlaces
<1> QED BY <1>4, <1>5 DEF WorkInv

\* All nodes of a source have had their turn.
LEMMA NodesDoneWork ==
  ASSUME TypeInv, WorkInv, NodesDone PROVE WorkInv'
<1>0. /\ pc = "node" /\ pc' = "source" /\ status = "running" /\ src' = src + 1
      /\ src \in 1 .. Len(Sources) /\ perNode = NoGuests
      /\ UNCHANGED <<kind, perNode, covered, cache, settled, status, wanted, asked, reported>>
  BY CurIsSource DEF NodesDone, SourceDone, Advance, TypeInv, serverVars, histVars, NodePlaces, settled
<1>1. \A n \in Nodes : NodeServed(cur, n)
  BY <1>0 DEF WorkInv, TurnInv, NodePlaces, NodeServed, NoGuests
<1>2. ASSUME NEW i \in 1 .. Len(Sources), i < src', NEW n \in Nodes PROVE NodeServed(Sources[i], n)'
  <2>1. NodeServed(Sources[i], n)
    <3>1. CASE i < src
      BY <3>1 DEF WorkInv, TurnInv
    <3>2. CASE i = src
      BY <1>1, <3>2 DEF cur
    <3> QED BY <1>0, <1>2, <3>1, <3>2
  <2> QED BY <1>0, <2>1 DEF NodeServed
<1>3. ASSUME NEW i \in 1 .. Len(Sources), i >= src'
      PROVE  wanted'[Sources[i]] = NoGuests /\ asked'[Sources[i]] = {} /\ settled'[Sources[i]] = {}
  <2>1. i > src
    BY <1>0, <1>3
  <2> QED BY <1>0, <2>1 DEF WorkInv, TurnInv
<1>4. TurnInv'
  BY <1>0, <1>2, <1>3 DEF TurnInv, NodePlaces, DumpPlaces
<1>5. ClaimInv' /\ EndInv'
  BY <1>0 DEF WorkInv, ClaimInv, EndInv, BackupPlaces
<1> QED BY <1>4, <1>5 DEF WorkInv

\* The source at hand is not one of the others.
LEMMA OtherSources ==
  ASSUME TypeInv, pc \in NodePlaces
  PROVE  \A i \in 1 .. Len(Sources) : i # src => Sources[i] \in Source \ {cur}
  BY CurIsSource, SourcesType DEF cur

\* What a step on a node leaves: its own source is in order, and the others are untouched.
LEMMA NodeStepWork ==
  ASSUME TypeInv, WorkInv, pc \in DumpPlaces,
         UNCHANGED <<kind, src, node, wanted, cache>>, reported \subseteq reported',
         \A s \in Source \ {cur} :
            asked'[s] = asked[s] /\ covered'[s] = covered[s] /\ settled'[s] = settled[s],
         asked[cur] \subseteq asked'[cur], covered[cur] \subseteq covered'[cur],
         settled[cur] \subseteq settled'[cur],
         covered'[cur] \subseteq settled'[cur], settled'[cur] \subseteq UNION Range(wanted[cur]),
         pc' \in DumpPlaces \cup {"node", "done"},
         status' = "running" <=> pc' # "done", status' \notin {"success", "failure", "aborted"},
         pc' \in NodePlaces => \A n \in Nodes : \/ perNode'[n] = wanted[cur][n]
                                                \/ perNode'[n] = {} /\ NodeServed(cur, n)',
         pc' \in DumpPlaces => perNode'[node] = wanted[cur][node],
         pc' \in {"poll_dump", "wait_dump"} => node \in asked'[cur]
  PROVE  WorkInv'
<1>0. cur' = cur /\ cur \in Source /\ pc \in NodePlaces /\ status = "running"
  BY CurIsSource DEF cur, NodePlaces, DumpPlaces, TypeInv
<1>1. ClaimInv'
  <2>1. ASSUME NEW s \in Source
        PROVE  /\ settled'[s] \subseteq UNION Range(wanted'[s])
               /\ covered'[s] \subseteq settled'[s] /\ cache'[s] \subseteq settled'[s]
    <3>1. CASE s = cur
      BY <3>1 DEF WorkInv, ClaimInv
    <3>2. CASE s # cur
      BY <3>2 DEF WorkInv, ClaimInv
    <3> QED BY <3>1, <3>2
  <2> QED BY <2>1 DEF ClaimInv
<1>2. ASSUME NEW i \in 1 .. Len(Sources), i < src', NEW n \in Nodes PROVE NodeServed(Sources[i], n)'
  <2>1. NodeServed(Sources[i], n) /\ Sources[i] \in Source \ {cur}
    <3>1. i # src /\ i < src
      BY <1>2 DEF TypeInv, TypeOK
    <3> QED BY <1>0, <3>1, OtherSources DEF WorkInv, TurnInv
  <2>2. PICK s \in Source \ {cur} : s = Sources[i]
    BY <2>1
  <2>3. NodeServed(s, n)'
    BY <2>1, <2>2, ServedStays
  <2> QED BY <2>2, <2>3
<1>3. ASSUME NEW i \in 1 .. Len(Sources), i > src
      PROVE  wanted'[Sources[i]] = NoGuests /\ asked'[Sources[i]] = {} /\ settled'[Sources[i]] = {}
  <2>1. Sources[i] \in Source \ {cur}
    <3>1. i # src
      BY <1>3 DEF TypeInv, TypeOK
    <3> QED BY <1>0, <3>1, OtherSources
  <2> QED BY <1>0, <1>3, <2>1 DEF WorkInv, TurnInv
<1>4. pc' \in DumpPlaces \cup {"node"} => pc' \in NodePlaces
  BY DEF NodePlaces
<1>5. TurnInv'
  BY <1>0, <1>2, <1>3, <1>4 DEF TurnInv
<1>6. EndInv'
  <2>1. pc' # "precheck" /\ (pc' \notin BackupPlaces \cup {"done"} => FALSE)
    BY <1>4 DEF BackupPlaces, DumpPlaces, NodePlaces
  <2> QED BY <2>1 DEF EndInv
<1> QED BY <1>1, <1>5, <1>6 DEF WorkInv

\* What is backed up, of what is listed, before and after a task.
LEMMA GroupWanted ==
  ASSUME TypeInv, WorkInv, pc \in DumpPlaces
  PROVE  /\ group = wanted[cur][node] /\ group \subseteq UNION Range(wanted[cur])
         /\ settled[cur] \subseteq UNION Range(wanted[cur]) /\ covered[cur] \subseteq settled[cur]
<1>1. cur \in Source /\ node \in Nodes
  BY GroupType
<1>2. wanted[cur] \in [Nodes -> SUBSET Guests] /\ group = wanted[cur][node]
  BY <1>1 DEF TypeInv, TypeOK, WorkInv, TurnInv, group
<1>3. wanted[cur][node] \in Range(wanted[cur])
  BY <1>1, <1>2 DEF Range
<1> QED BY <1>1, <1>2, <1>3 DEF WorkInv, ClaimInv

\* A node whose task is asked for, or cannot be.
LEMMA StartDumpWork ==
  ASSUME TypeInv, WorkInv, StartDump PROVE WorkInv'
<1>0. /\ pc = "dump" /\ pc \in DumpPlaces /\ status = "running" /\ cur \in Source /\ node \in Nodes
      /\ UNCHANGED <<kind, src, node, wanted, cache, covered, settled>>
      /\ asked \in [Source -> SUBSET Nodes] /\ asked' = [asked EXCEPT ![cur] = @ \cup {node}]
      /\ perNode \in [Nodes -> SUBSET Guests]
  BY GroupType DEF StartDump, tallyVars, DumpPlaces, TypeInv, TypeOK, settled
<1>1. node \in asked'[cur] /\ asked[cur] \subseteq asked'[cur]
      /\ \A s \in Source \ {cur} : asked'[s] = asked[s]
  BY <1>0
<1>2. \A n \in Nodes : \/ perNode[n] = wanted[cur][n]
                       \/ perNode[n] = {} /\ NodeServed(cur, n)
  BY <1>0 DEF WorkInv, TurnInv, NodePlaces
<1>3. perNode[node] = wanted[cur][node]
  BY <1>0 DEF WorkInv, TurnInv
<1>4. CASE pc' = "poll_dump" /\ UNCHANGED <<perNode, reported, status>>
  <2>1. \A n \in Nodes : NodeServed(cur, n) => (wanted[cur][n] # {} => n \in asked'[cur])
                            /\ (<<cur, n>> \notin reported' => wanted[cur][n] \subseteq covered'[cur])
    BY <1>0, <1>1, <1>4 DEF NodeServed
  <2>2. cur' = cur
    BY <1>0 DEF cur
  <2>3. \A n \in Nodes : perNode'[n] = wanted[cur][n] \/ (perNode'[n] = {} /\ NodeServed(cur, n)')
    BY <1>0, <1>2, <1>4, <2>1, <2>2 DEF NodeServed
  <2> QED BY <1>0, <1>1, <1>3, <1>4, <2>3, GroupWanted, NodeStepWork DEF DumpPlaces
<1>5. CASE NodeDone(TRUE)
  <2>1. /\ perNode' = [perNode EXCEPT ![node] = {}] /\ reported' = reported \cup {dump}
        /\ pc' = "node" /\ UNCHANGED status
    BY <1>5 DEF NodeDone, NodesLeft
  <2>2. cur' = cur
    BY <1>0 DEF cur
  <2>3. ASSUME NEW n \in Nodes PROVE perNode'[n] = wanted[cur][n] \/ (perNode'[n] = {} /\ NodeServed(cur, n)')
    <3>1. CASE n = node
      BY <1>0, <1>1, <2>1, <2>2, <3>1 DEF NodeServed, dump
    <3>2. CASE n # node
      BY <1>0, <1>1, <1>2, <2>1, <2>2, <3>2 DEF NodeServed
    <3> QED BY <3>1, <3>2
  <2> QED BY <1>0, <1>1, <2>1, <2>3, GroupWanted, NodeStepWork DEF DumpPlaces
<1> QED BY <1>4, <1>5 DEF StartDump

\* What the log of a task adds to the claims.
LEMMA TallyWork ==
  ASSUME TypeInv, WorkInv, pc \in DumpPlaces, NEW good \in BOOLEAN,
         NEW done \in SUBSET group, NEW bad, Tally(good, done, bad),
         NEW skipped \in SUBSET group, leftOut' = [leftOut EXCEPT ![cur] = @ \cup skipped],
         good => group = done \cup skipped
  PROVE  /\ \A s \in Source \ {cur} : covered'[s] = covered[s] /\ settled'[s] = settled[s]
         /\ covered[cur] \subseteq covered'[cur] /\ settled[cur] \subseteq settled'[cur]
         /\ covered'[cur] \subseteq settled'[cur] /\ settled'[cur] \subseteq UNION Range(wanted[cur])
         /\ good => wanted[cur][node] \subseteq covered'[cur]
<1>1. /\ cur \in Source
      /\ {covered, backedUp, leftOut} \subseteq [Source -> SUBSET Guests]
  BY GroupType DEF TypeInv, TypeOK
<1>2. /\ covered' = [covered EXCEPT ![cur] = Claim(good)]
      /\ backedUp' = [backedUp EXCEPT ![cur] = @ \cup done]
  BY DEF Tally
<1>3. /\ covered'[cur] = Claim(good) /\ settled'[cur] = settled[cur] \cup done \cup skipped
      /\ \A s \in Source \ {cur} : covered'[s] = covered[s] /\ settled'[s] = settled[s]
  BY <1>1, <1>2 DEF settled
<1>4. Claim(good) \subseteq covered[cur] \cup group /\ covered[cur] \subseteq Claim(good)
      /\ (good => Claim(good) = covered[cur] \cup group) /\ (~good => Claim(good) = covered[cur])
  BY DEF Claim
<1> QED BY <1>1, <1>3, <1>4, GroupWanted

\* A task that ends, well or badly, or that is left behind.
LEMMA DumpEndsWork ==
  ASSUME TypeInv, WorkInv, DumpEnds \/ DumpLeftBehind PROVE WorkInv'
<1>0. /\ pc = "wait_dump" /\ pc \in DumpPlaces /\ status = "running" /\ cur \in Source /\ node \in Nodes
      /\ UNCHANGED <<kind, src, node, wanted, cache, asked>>
      /\ perNode \in [Nodes -> SUBSET Guests]
  BY GroupType DEF DumpEnds, DumpLeftBehind, DumpPlaces, TypeInv, TypeOK
<1>1. PICK good \in BOOLEAN, raised \in BOOLEAN, done \in SUBSET group, bad \in SUBSET group :
        /\ raised = ~good /\ Tally(good, done, bad) /\ NodeDone(raised)
        /\ \E skipped \in SUBSET group :
             /\ leftOut' = [leftOut EXCEPT ![cur] = @ \cup skipped]
             /\ good => group = done \cup skipped
  BY DumpOutcome
<1>2. /\ perNode' = [perNode EXCEPT ![node] = {}] /\ pc' = "node" /\ UNCHANGED status
      /\ reported' = IF raised THEN reported \cup {dump} ELSE reported
  BY <1>1 DEF NodeDone, NodesLeft
<1>3. /\ \A s \in Source \ {cur} : covered'[s] = covered[s] /\ settled'[s] = settled[s]
      /\ covered[cur] \subseteq covered'[cur] /\ settled[cur] \subseteq settled'[cur]
      /\ covered'[cur] \subseteq settled'[cur] /\ settled'[cur] \subseteq UNION Range(wanted[cur])
      /\ good => wanted[cur][node] \subseteq covered'[cur]
  BY <1>0, <1>1, TallyWork
<1>4. cur' = cur /\ reported \subseteq reported'
  BY <1>0, <1>2 DEF cur
<1>5. ASSUME NEW n \in Nodes PROVE perNode'[n] = wanted[cur][n] \/ (perNode'[n] = {} /\ NodeServed(cur, n)')
  <2>1. CASE n = node
    <3>1. node \in asked[cur]
      BY <1>0 DEF WorkInv, TurnInv
    <3>2. <<cur, node>> \notin reported' => good
      BY <1>1, <1>2 DEF dump
    <3> QED BY <1>0, <1>2, <1>3, <1>4, <2>1, <3>1, <3>2 DEF NodeServed
  <2>2. CASE n # node
    <3>1. perNode'[n] = perNode[n]
      BY <1>0, <1>2, <2>2
    <3>2. \/ perNode[n] = wanted[cur][n]
          \/ perNode[n] = {} /\ NodeServed(cur, n)
      BY <1>0 DEF WorkInv, TurnInv, NodePlaces
    <3> QED BY <1>0, <1>3, <1>4, <3>1, <3>2 DEF NodeServed
  <2> QED BY <2>1, <2>2
<1> QED BY <1>0, <1>2, <1>3, <1>4, <1>5, NodeStepWork DEF DumpPlaces

\* A task that is stopped.
LEMMA CancelDumpWork ==
  ASSUME TypeInv, WorkInv, CancelDump PROVE WorkInv'
<1>0. /\ pc \in DumpPlaces /\ status = "running" /\ pc' = "done" /\ status' = "cancelled"
      /\ UNCHANGED <<kind, src, node, wanted, cache, asked>>
      /\ reported \subseteq reported'
  BY DEF CancelDump, DumpPlaces, TypeInv, Ends, loopVars, StopTask
<1>1. PICK done \in SUBSET group : Tally(FALSE, done, {})
  BY DEF CancelDump
<1>2. PICK good \in BOOLEAN, skipped \in SUBSET group :
        ~good /\ Tally(good, done, {}) /\ leftOut' = [leftOut EXCEPT ![cur] = @ \cup skipped]
  <2>1. leftOut' = [leftOut EXCEPT ![cur] = @ \cup {}]
    BY DEF CancelDump, TypeInv, TypeOK
  <2> QED BY <1>1, <2>1
<1>3. /\ \A s \in Source \ {cur} : covered'[s] = covered[s] /\ settled'[s] = settled[s]
      /\ covered[cur] \subseteq covered'[cur] /\ settled[cur] \subseteq settled'[cur]
      /\ covered'[cur] \subseteq settled'[cur] /\ settled'[cur] \subseteq UNION Range(wanted[cur])
  BY <1>0, <1>2, TallyWork
<1> QED BY <1>0, <1>3, NodeStepWork DEF NodePlaces, DumpPlaces

\* Every step keeps the order of the loop.
LEMMA WorkInv_Inductive == TypeInv /\ WorkInv /\ [Next]_vars => WorkInv'
  BY BetweenWork, ListGuestsWork, NextNodeWork, NodesDoneWork, StartDumpWork, DumpEndsWork,
     CancelDumpWork DEF Next, RunStep

\* At the start no source and no node has had its turn.
LEMMA InitWork == Init => WorkInv
<1> SUFFICES ASSUME Init PROVE WorkInv
  OBVIOUS
<1>1. /\ pc \in {"precheck", "step"} /\ src = 1 /\ status = "running"
      /\ covered = [s \in Source |-> {}] /\ cache = covered /\ settled = covered
      /\ wanted = [s \in Source |-> NoGuests] /\ asked = [s \in Source |-> {}]
      /\ kind = "backup" => pc = "precheck"
  BY DEF Init, settled
<1>2. ClaimInv
  BY <1>1 DEF ClaimInv
<1>3. TurnInv
  BY <1>1, SourcesType DEF TurnInv, NodePlaces, DumpPlaces
<1>4. EndInv
  BY <1>1 DEF EndInv, BackupPlaces
<1> QED BY <1>2, <1>3, <1>4 DEF WorkInv

\* The loop passes no node that holds guests, whatever goes wrong on the others, and a run that
\* was not cancelled has gone through all its sources unless its precheck refused it
\* (run_route_backup, _dump_source).
THEOREM NoNodeIsPassedOver == Spec => []EveryNodeGetsItsTurn
<1>1. WorkInv => EveryNodeGetsItsTurn
  BY DEF WorkInv, TurnInv, EndInv, NodeServed, EveryNodeGetsItsTurn
<1> QED BY <1>1, InitType, InitWork, NextType, WorkInv_Inductive, PTL DEF Spec

-----------------------------------------------------------------------------
(***************************************************************************)
(* The numbers.                                                            *)
(***************************************************************************)
\* What the log and the total say of the guests done so far.
Ahead == IF pc \in DumpPlaces THEN Cardinality(group) ELSE 0
TallyInv ==
  status = "running" =>
    /\ ok + Cardinality(lostGuests) + Ahead <= total + lateGuests
    /\ failed = {} /\ ~ErrorsPending => lostGuests = {} /\ lateGuests = 0 /\ ok + Ahead = total

\* The numbers are numbers.
LEMMA CountsType ==
  ASSUME TypeInv
  PROVE  /\ ok \in Nat /\ total \in Nat /\ lateGuests \in Nat
         /\ Cardinality(lostGuests) \in Nat /\ Ahead \in Nat
<1>1. pc \in DumpPlaces => IsFiniteSet(group)
  BY GroupType
<1> QED BY <1>1, FS_CardinalityType DEF TypeInv, TypeOK, Ahead

\* What a task adds to the numbers: no more than the guests of its node, but for those created
\* since the listing; and exactly those when it is taken for good.
LEMMA TallyCount ==
  ASSUME TypeInv, pc \in DumpPlaces, NEW good \in BOOLEAN,
         NEW done \in SUBSET group, NEW bad \in SUBSET group, Tally(good, done, bad),
         done \cap bad = {}, good => bad = {}
  PROVE  \E late \in Nat :
           /\ lateGuests' = lateGuests + late /\ ok' \in Nat /\ Cardinality(lostGuests') \in Nat
           /\ ok' + Cardinality(lostGuests') <= ok + Cardinality(lostGuests) + Cardinality(group) + late
           /\ good => late = 0 /\ ok' = ok + Cardinality(group) /\ lostGuests' = lostGuests
<1>1. /\ IsFiniteSet(group) /\ IsFiniteSet(lostGuests) /\ ok \in Nat /\ lateGuests \in Nat
      /\ MaxLate \in Nat
  BY GroupType, CycleAssumption DEF TypeInv, TypeOK
<1>2. /\ IsFiniteSet(done) /\ IsFiniteSet(bad) /\ IsFiniteSet(done \cup bad)
      /\ Cardinality(done \cup bad) <= Cardinality(group)
  <2>1. done \cup bad \in SUBSET group
    OBVIOUS
  <2> QED BY <1>1, <2>1, FS_Subset
<1>3. Cardinality(done \cup bad) = Cardinality(done) + Cardinality(bad) - Cardinality({})
  BY <1>2, FS_Union
<1>4. /\ Cardinality({}) = 0 /\ Cardinality(done) \in Nat /\ Cardinality(bad) \in Nat
      /\ Cardinality(group) \in Nat /\ Cardinality(lostGuests) \in Nat
  BY <1>1, <1>2, FS_EmptySet, FS_CardinalityType
<1>5. /\ IsFiniteSet({cur} \X bad) /\ Cardinality({cur} \X bad) = Cardinality(bad)
  <2>1. IsFiniteSet({cur}) /\ Cardinality({cur}) = 1
    BY FS_Singleton
  <2>2. Cardinality({cur} \X bad) = Cardinality({cur}) * Cardinality(bad)
    BY <1>2, <2>1, FS_Product
  <2>3. IsFiniteSet({cur} \X bad)
    BY <1>2, <2>1, FS_Product
  <2> QED BY <1>4, <2>1, <2>2, <2>3
<1>6. lostGuests' = lostGuests \cup ({cur} \X bad)
  BY DEF Tally
<1>7. /\ Cardinality(lostGuests') \in Nat
      /\ Cardinality(lostGuests') <= Cardinality(lostGuests) + Cardinality(bad)
  <2> DEFINE P == {cur} \X bad
  <2>1. IsFiniteSet(P) /\ Cardinality(P) = Cardinality(bad)
    BY <1>5
  <2> HIDE DEF P
  <2>2. IsFiniteSet(lostGuests \cap P)
    BY <1>1, FS_Subset
  <2>3. /\ IsFiniteSet(lostGuests \cup P) /\ Cardinality(lostGuests \cap P) \in Nat
        /\ Cardinality(lostGuests \cup P)
             = Cardinality(lostGuests) + Cardinality(P) - Cardinality(lostGuests \cap P)
    BY <1>1, <2>1, <2>2, FS_Union, FS_CardinalityType
  <2>4. lostGuests' = lostGuests \cup P
    BY <1>6 DEF P
  <2>5. Cardinality(lostGuests \cup P) \in Nat
    BY <2>3, FS_CardinalityType
  <2> QED BY <1>4, <2>1, <2>3, <2>4, <2>5
<1>8. PICK late \in 0 .. (IF good THEN 0 ELSE MaxLate) :
        ok' = OkAfter(good, done) + late /\ lateGuests' = lateGuests + late
  BY DEF Tally
<1>9. CASE good
  <2>1. late = 0 /\ OkAfter(good, done) = ok + Cardinality(group) /\ lostGuests' = lostGuests
    <3>1. late \in 0 .. 0
      BY <1>8, <1>9
    <3>2. {cur} \X bad = {}
      BY <1>9
    <3> QED BY <1>6, <1>9, <3>1, <3>2 DEF OkAfter
  <2>2. ok' = ok + Cardinality(group)
    BY <1>1, <1>4, <1>8, <2>1
  <2> QED BY <1>1, <1>4, <1>8, <2>1, <2>2
<1>10. CASE ~good
  <2>1. late \in Nat /\ OkAfter(good, done) = ok + Cardinality(done)
    BY <1>1, <1>8, <1>10 DEF OkAfter
  <2>2. ok' = ok + Cardinality(done) + late
    BY <1>8, <2>1
  <2>3. ok' \in Nat
       /\ ok' + Cardinality(lostGuests') <= ok + Cardinality(lostGuests) + Cardinality(group) + late
    BY <1>1, <1>2, <1>3, <1>4, <1>7, <2>1, <2>2
  <2> QED BY <1>7, <1>8, <1>10, <2>1, <2>3
<1> QED BY <1>9, <1>10

\* Nothing happens after the end of a run.
LEMMA DoneIsFinal ==
  ASSUME TypeInv, status # "running", [Next]_vars PROVE UNCHANGED vars
<1>1. pc = "done"
  BY DEF TypeInv
<1>2. ~RunStep /\ ~Cancel
  BY <1>1 DEF RunStep, Cancel, Precheck, NextSource, ListGuests, NextNode, CancelBetweenNodes,
       NodesDone, StartDump, FirstPoll, DumpEnds, DumpLeftBehind, CancelDump, NextStep, AskStep,
       StepEnds, StepLeftBehind, CancelStep, Refresh
<1> QED BY <1>2 DEF Next

\* The numbers stay true while the run goes on.
LEMMA TallyInv_Inductive == TypeInv /\ TallyInv /\ [Next]_vars => TallyInv'
<1> SUFFICES ASSUME TypeInv, TallyInv, [Next]_vars, status' = "running" PROVE TallyInv'
  BY DEF TallyInv
<1>0. /\ ok \in Nat /\ total \in Nat /\ lateGuests \in Nat
      /\ Cardinality(lostGuests) \in Nat /\ Ahead \in Nat /\ status = "running"
  <2>1. status = "running"
    BY DoneIsFinal DEF vars
  <2> QED BY <2>1, CountsType
<1>1. /\ ok + Cardinality(lostGuests) + Ahead <= total + lateGuests
      /\ failed = {} /\ ~ErrorsPending => lostGuests = {} /\ lateGuests = 0 /\ ok + Ahead = total
  BY <1>0 DEF TallyInv
<1>2. ASSUME UNCHANGED <<tallyVars, lateGuests>>, Ahead' \in Nat, Ahead' <= Ahead,
             ErrorsPending' \/ (Ahead' = Ahead /\ ~ErrorsPending)
      PROVE  TallyInv'
  <2>1. UNCHANGED <<ok, total, lostGuests, lateGuests, failed>>
    BY <1>2 DEF tallyVars
  <2>2. ok + Cardinality(lostGuests) + Ahead' <= total + lateGuests
    BY <1>0, <1>1, <1>2
  <2>3. failed = {} /\ ~ErrorsPending' => lostGuests = {} /\ lateGuests = 0 /\ ok + Ahead' = total
    BY <1>1, <1>2
  <2> QED BY <2>1, <2>2, <2>3 DEF TallyInv
<1>3. ASSUME Precheck \/ NextSource \/ NextStep \/ AskStep \/ StepEnds PROVE TallyInv'
  <2>1. /\ pc \notin NodePlaces /\ pc' \notin NodePlaces /\ UNCHANGED <<tallyVars, lateGuests>>
    BY <1>3 DEF Precheck, NextSource, NextStep, AskStep, StepEnds, NodePlaces, DumpPlaces, Ends, histVars
  <2> QED BY <1>2, <2>1 DEF Ahead, ErrorsPending, NodePlaces
<1>4. ASSUME CancelBetweenNodes \/ CancelDump \/ CancelStep \/ StepLeftBehind \/ Refresh PROVE FALSE
  BY <1>4 DEF CancelBetweenNodes, CancelDump, CancelStep, StepLeftBehind, Refresh, Ends
<1>5. ASSUME ListGuests PROVE TallyInv'
  <2>1. /\ UNCHANGED <<ok, total, lostGuests, lateGuests>> /\ failed \subseteq failed'
        /\ pc = "list" /\ pc' \in {"node", "source"}
    BY <1>5 DEF ListGuests, SourceDone
  <2>2. Ahead = 0 /\ Ahead' = 0 /\ ~ErrorsPending
    BY <2>1 DEF Ahead, ErrorsPending, NodePlaces, DumpPlaces
  <2> QED BY <1>0, <1>1, <2>1, <2>2 DEF TallyInv
<1>6. ASSUME NodesDone PROVE TallyInv'
  <2>1. /\ UNCHANGED <<ok, total, lostGuests, lateGuests>> /\ failed \subseteq failed'
        /\ (nodeErrors => failed' # {}) /\ pc = "node" /\ pc' = "source"
    BY <1>6 DEF NodesDone, SourceDone, histVars
  <2>2. Ahead = 0 /\ Ahead' = 0 /\ (ErrorsPending <=> nodeErrors)
    BY <2>1 DEF Ahead, ErrorsPending, NodePlaces, DumpPlaces
  <2> QED BY <1>0, <1>1, <2>1, <2>2 DEF TallyInv
<1>7. ASSUME NextNode PROVE TallyInv'
  <2>1. PICK n \in Nodes : node' = n /\ total' = total + Cardinality(perNode[n])
    BY <1>7 DEF NextNode
  <2>2. /\ UNCHANGED <<ok, lostGuests, lateGuests, failed, perNode, src, nodeErrors>>
        /\ pc = "node" /\ pc' = "dump"
    BY <1>7 DEF NextNode, histVars
  <2>3. Cardinality(perNode[n]) \in Nat
    BY FS_CardinalityType DEF TypeInv
  <2>4. Ahead = 0 /\ Ahead' = Cardinality(perNode[n]) /\ (ErrorsPending' <=> ErrorsPending)
    BY <2>1, <2>2 DEF Ahead, ErrorsPending, NodePlaces, DumpPlaces, group
  <2> QED BY <1>0, <1>1, <2>1, <2>2, <2>3, <2>4 DEF TallyInv
<1>8. ASSUME StartDump PROVE TallyInv'
  <2>1. UNCHANGED <<tallyVars, lateGuests, src, node>> /\ pc = "dump"
    BY <1>8 DEF StartDump
  <2>2. CASE pc' = "poll_dump" /\ UNCHANGED <<perNode, nodeErrors>>
    <3>1. Ahead' = Ahead /\ (ErrorsPending' <=> ErrorsPending)
      BY <2>1, <2>2 DEF Ahead, ErrorsPending, NodePlaces, DumpPlaces, group
    <3> QED BY <1>0, <1>1, <2>1, <3>1 DEF TallyInv, tallyVars
  <2>3. CASE NodeDone(TRUE)
    <3>1. Ahead' = 0 /\ ErrorsPending'
      BY <2>3 DEF NodeDone, Ahead, ErrorsPending, NodePlaces, DumpPlaces
    <3> QED BY <1>0, <1>2, <2>1, <3>1
  <2> QED BY <1>8, <2>2, <2>3 DEF StartDump
<1>9. ASSUME DumpEnds \/ DumpLeftBehind PROVE TallyInv'
  <2>1. pc = "wait_dump" /\ UNCHANGED <<total, failed>>
    BY <1>9 DEF DumpEnds, DumpLeftBehind
  <2>2. PICK good \in BOOLEAN, raised \in BOOLEAN, done \in SUBSET group, bad \in SUBSET group :
          /\ raised = ~good /\ Tally(good, done, bad) /\ NodeDone(raised)
          /\ done \cap bad = {} /\ (good => bad = {})
    BY <1>9, DumpOutcome
  <2>3. PICK late \in Nat :
           /\ lateGuests' = lateGuests + late /\ ok' \in Nat /\ Cardinality(lostGuests') \in Nat
           /\ ok' + Cardinality(lostGuests') <= ok + Cardinality(lostGuests) + Cardinality(group) + late
           /\ good => late = 0 /\ ok' = ok + Cardinality(group) /\ lostGuests' = lostGuests
    BY <2>1, <2>2, TallyCount DEF DumpPlaces
  <2>4. /\ Ahead = Cardinality(group) /\ Ahead' = 0
        /\ ErrorsPending' <=> (ErrorsPending \/ ~good)
    BY <2>1, <2>2 DEF NodeDone, Ahead, ErrorsPending, NodePlaces, DumpPlaces
  <2>5. ok' + Cardinality(lostGuests') + 0 <= total + lateGuests'
    BY <1>0, <1>1, <2>3, <2>4
  <2>6. failed = {} /\ ~ErrorsPending' => lostGuests' = {} /\ lateGuests' = 0 /\ ok' + 0 = total
    <3>1. CASE good
      <4>1. failed = {} /\ ~ErrorsPending' => failed = {} /\ ~ErrorsPending
        BY <2>4
      <4>2. lateGuests' = lateGuests /\ ok' + 0 = ok + Ahead /\ lostGuests' = lostGuests
        BY <1>0, <2>3, <2>4, <3>1
      <4> QED BY <1>1, <4>1, <4>2
    <3>2. CASE ~good
      BY <2>4, <3>2
    <3> QED BY <3>1, <3>2
  <2> QED BY <2>1, <2>4, <2>5, <2>6 DEF TallyInv
<1>10. ASSUME FirstPoll \/ Cancel \/ UNCHANGED vars PROVE TallyInv'
  <2>1. UNCHANGED <<loopVars, tallyVars, lateGuests>>
    BY <1>10 DEF FirstPoll, Cancel, vars, histVars
  <2>2. \/ UNCHANGED pc
        \/ pc = "poll_dump" /\ pc' = "wait_dump"
        \/ pc = "poll_step" /\ pc' = "wait_step"
    BY <1>10 DEF FirstPoll, Cancel, vars
  <2>3. Ahead' = Ahead /\ (ErrorsPending' <=> ErrorsPending)
    BY <2>1, <2>2 DEF Ahead, ErrorsPending, NodePlaces, DumpPlaces, group, loopVars
  <2> QED BY <1>0, <1>1, <2>1, <2>3 DEF TallyInv, tallyVars
<1> QED BY <1>3, <1>4, <1>5, <1>6, <1>7, <1>8, <1>9, <1>10 DEF Next, RunStep

-----------------------------------------------------------------------------
(***************************************************************************)
(* What a run leaves in the history.                                       *)
(***************************************************************************)
RunInv == TypeInv /\ TaskInv /\ ReportInv /\ WorkInv /\ TallyInv

\* A source that was gone through without an error is settled.
LEMMA ServedIsSettled ==
  ASSUME TypeInv, WorkInv, status = "running", pc \notin NodePlaces, reported = {},
         kind = "backup" => src > Len(Sources)
  PROVE  \A s \in Source : settled[s] = UNION Range(wanted[s])
<1> SUFFICES ASSUME NEW s \in Source PROVE UNION Range(wanted[s]) \subseteq settled[s]
  BY DEF WorkInv, ClaimInv
<1>1. wanted[s] \in [Nodes -> SUBSET Guests]
  BY DEF TypeInv, TypeOK
<1>2. PICK i \in 1 .. Len(Sources) : s = Sources[i]
  BY SourcesType
<1>3. CASE i < src
  <2>1. \A n \in Nodes : wanted[s][n] \subseteq settled[s]
    BY <1>2, <1>3 DEF WorkInv, TurnInv, ClaimInv, NodeServed
  <2> QED BY <1>1, <2>1 DEF Range
<1>4. CASE i >= src
  <2>1. i > src \/ i = src
    BY <1>4 DEF TypeInv, TypeOK
  <2>2. wanted[s] = NoGuests
    BY <1>2, <2>1 DEF WorkInv, TurnInv
  <2> QED BY <2>2 DEF NoGuests, Range
<1> QED BY <1>3, <1>4 DEF TypeInv, TypeOK

\* The record of a run that ends is true.
LEMMA EndIsTrue ==
  ASSUME RunInv, SuccessIsComplete, TallyAddsUp, [Next]_vars
  PROVE  SuccessIsComplete' /\ TallyAddsUp'
<1> USE DEF RunInv
<1>0. /\ ok \in Nat /\ total \in Nat /\ lateGuests \in Nat /\ Cardinality(lostGuests) \in Nat
  BY CountsType
<1>1. CASE status # "running"
  <2>1. UNCHANGED vars
    BY <1>1, DoneIsFinal
  <2>2. UNCHANGED <<status, running, reported, backedUp, leftOut, wanted, ok, lostGuests, total, lateGuests>>
    BY <2>1 DEF vars, tallyVars, serverVars, histVars
  <2> QED BY <2>2 DEF SuccessIsComplete, TallyAddsUp, settled
<1>2. CASE status = "running" /\ status' \notin {"success", "failure"}
  BY <1>2 DEF SuccessIsComplete, TallyAddsUp
<1>3. CASE status = "running" /\ status' \in {"success", "failure"}
  <2>1. Precheck \/ AskStep \/ StepEnds \/ StepLeftBehind \/ Refresh
    <3>1. ~(NextSource \/ CancelBetweenNodes \/ CancelDump \/ NextStep \/ CancelStep)
      BY <1>3 DEF NextSource, CancelBetweenNodes, CancelDump, NextStep, CancelStep, Ends
    <3>2. ~(ListGuests \/ NextNode \/ NodesDone \/ FirstPoll \/ Cancel \/ UNCHANGED vars)
      BY <1>3 DEF ListGuests, NextNode, NodesDone, FirstPoll, Cancel, vars
    <3>3. ~(StartDump \/ DumpEnds \/ DumpLeftBehind)
      BY <1>3 DEF StartDump, DumpEnds, DumpLeftBehind, NodeDone
    <3> QED BY <3>1, <3>2, <3>3 DEF Next, RunStep
  <2>2. /\ UNCHANGED <<ok, total, lostGuests, lateGuests, failed>>
        /\ pc \notin NodePlaces
    BY <2>1 DEF Precheck, AskStep, StepEnds, StepLeftBehind, Refresh, tallyVars, histVars,
                NodePlaces, DumpPlaces
  <2>3. Ahead = 0 /\ ~ErrorsPending
    BY <2>2 DEF Ahead, ErrorsPending, NodePlaces
  <2>4. /\ ok + Cardinality(lostGuests) <= total + lateGuests
        /\ failed = {} => ok = total /\ lostGuests = {} /\ lateGuests = 0
    BY <1>0, <1>3, <2>3 DEF TallyInv
  <2>5. status' = "success" => Refresh /\ failed = {}
    <3>1. status' = "success" => Refresh
      BY <1>3, <2>1 DEF Precheck, AskStep, StepEnds, StepLeftBehind, Ends
    <3>2. Refresh /\ status' = "success" => failed = {}
      BY DEF Refresh, Ends
    <3> QED BY <3>1, <3>2
  <2>6. TallyAddsUp'
    BY <2>2, <2>4, <2>5 DEF TallyAddsUp
  <2>7. ASSUME status' = "success" PROVE SuccessIsComplete'
    <3>1. Refresh /\ failed = {} /\ pc = "refresh"
      BY <2>5, <2>7 DEF Refresh
    <3>2. UNCHANGED <<running, reported, backedUp, leftOut, wanted>>
      BY <3>1 DEF Refresh, serverVars, histVars
    <3>3. reported = {} /\ running = {}
      BY <1>3, <2>3, <3>1 DEF ReportInv, TaskInv, Current
    <3>4. kind = "backup" => src > Len(Sources)
      BY <3>1 DEF WorkInv, EndInv, BackupPlaces, NodePlaces, DumpPlaces
    <3>5. \A s \in Source : settled[s] = UNION Range(wanted[s])
      BY <1>3, <2>2, <3>3, <3>4, ServedIsSettled
    <3> QED BY <3>2, <3>3, <3>5 DEF SuccessIsComplete, settled
  <2> QED BY <2>6, <2>7 DEF SuccessIsComplete
<1> QED BY <1>1, <1>2, <1>3

\* The start.
LEMMA InitRun == Init => RunInv /\ SuccessIsComplete /\ TallyAddsUp
<1> SUFFICES ASSUME Init PROVE RunInv /\ SuccessIsComplete /\ TallyAddsUp
  OBVIOUS
<1>1. /\ status = "running" /\ running = {} /\ reported = {} /\ failed = {}
      /\ total = 0 /\ ok = 0 /\ lostGuests = {} /\ lateGuests = 0
      /\ pc \in {"precheck", "step"}
  BY DEF Init
<1>2. TaskInv /\ ReportInv /\ SuccessIsComplete /\ TallyAddsUp
  BY <1>1 DEF TaskInv, ReportInv, SuccessIsComplete, TallyAddsUp
<1>3. Ahead = 0
  BY <1>1 DEF Ahead, DumpPlaces
<1>4. Cardinality(lostGuests) = 0
  BY <1>1, FS_EmptySet
<1>5. TallyInv
  BY <1>1, <1>3, <1>4 DEF TallyInv
<1> QED BY <1>2, <1>5, InitType, InitWork DEF RunInv

\* What a run records agrees with how its tasks ended: success says that every guest its sources listed is backed
\* up or was passed over by PVE in a task that ended well, and no task is left; the dashboard claims
\* no guest of a task that failed, was lost or never came to it; the numbers add up; and a task that
\* outlives the run is in the timeline (run_route_backup, _run_body, GuestSummary).
THEOREM TheRecordIsTrue == Spec => []RecordIsTrue
<1> DEFINE Inv == RunInv /\ SuccessIsComplete /\ TallyAddsUp
<1>1. Inv /\ [Next]_vars => Inv'
  <2>1. RunInv /\ [Next]_vars => RunInv'
    BY NextType, TaskInv_Inductive, WorkInv_Inductive, TallyInv_Inductive DEF RunInv
  <2> QED BY <2>1, EndIsTrue
<1>2. Inv => RecordIsTrue
  <2>1. RunInv => NothingRunsUnreported
    BY DEF RunInv, TaskInv, Current, NothingRunsUnreported
  <2>2. RunInv => ClaimsAreReal
    <3> SUFFICES ASSUME RunInv PROVE ClaimsAreReal
      OBVIOUS
    <3>1. \A s \in Source : cache[s] \subseteq settled[s]
      BY DEF RunInv, WorkInv, ClaimInv
    <3>2. ASSUME NEW i \in 1 .. Len(Sources), i < src, NEW n \in asked[Sources[i]],
                 <<Sources[i], n>> \notin reported
          PROVE  wanted[Sources[i]][n] \subseteq covered[Sources[i]]
      <4>1. n \in Nodes
        BY SourcesType DEF RunInv, TypeInv, TypeOK
      <4> QED BY <3>2, <4>1 DEF RunInv, WorkInv, TurnInv, NodeServed
    <3> QED BY <3>1, <3>2 DEF ClaimsAreReal, settled
  <2> QED BY <2>1, <2>2 DEF RecordIsTrue
<1>3. Init => Inv
  BY InitRun
<1> HIDE DEF Inv
<1> QED BY <1>1, <1>2, <1>3, PTL DEF Spec
==============================================================================
