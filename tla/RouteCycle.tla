------------------------------- MODULE RouteCycle -------------------------------
(***************************************************************************)
(* One run of a route between the leases of JobService: run_route_backup     *)
(* (backend/app/jobs/backup_cycle.py) and _run_body with the sync, verify    *)
(* and maintenance bodies (backend/app/jobs/route_cycle.py).                 *)
(*                                                                         *)
(* A backup goes through its sources and, in each, through the cluster nodes *)
(* that hold guests, one vzdump task per node; then, like the other kinds,   *)
(* through a plan of single tasks on the target.  How a wait for a task ends *)
(* is TaskPoll's; here a task ends well, ends badly, or is left behind.      *)
(***************************************************************************)
EXTENDS FiniteSetsExt, SequencesExt

CONSTANTS
  Sources,    \* route.sources, a sequence without repetition
  Nodes,      \* cluster nodes of a PVE
  Listings,   \* what a source may turn out to hold: functions from Nodes to sets of guests
  MaxLate     \* bound: guests created on a node between the listing and its vzdump

ASSUME CycleAssumption ==
  /\ Sources \in Seq(Range(Sources)) /\ IsInjective(Sources) /\ Nodes # {}
  /\ \A l \in Listings : l = [n \in Nodes |-> l[n]] /\ \A n \in Nodes : IsFiniteSet(l[n])
  /\ MaxLate \in Nat

VARIABLES
  kind,       \* route.kind, or "maintenance"
  plan,       \* the steps with a task on the target that are still to come
  cancelled,  \* the stop flag
  pc,         \* where the run is
  src,        \* index of the source
  perNode,    \* per_node, without the nodes the loop is done with
  node,       \* the node being backed up
  nodeErrors, \* node_errors # []
  covered,    \* covered: per source the guests of nodes that went well
  failed,     \* failed: sources
  total, ok, lostGuests,   \* GuestSummary
  cache,      \* the last-backup cache, as written by this run
  status,     \* how the run is recorded; "cancelled" is ABORTED by the user
  running,    \* tasks of this run on the servers that it has not seen the end of (external)
  backedUp,   \* per source the guests its tasks have backed up (external)
  leftOut,    \* per source the listed guests a task of PVE's passed over, and ended well (external)
  wanted,     \* history: the listing of each source
  asked,      \* history: per source the nodes a vzdump was asked of
  reported,   \* history: tasks the timeline says went wrong or could not be followed
  lateGuests, \* history: guests counted that no listing had
  lateStarts  \* history: tasks asked for since the cancel

loopVars == <<src, perNode, node, nodeErrors>>
tallyVars == <<covered, failed, total, ok, lostGuests>>
serverVars == <<running, backedUp, leftOut>>
histVars == <<wanted, asked, reported, lateGuests, lateStarts>>
vars == <<kind, plan, cancelled, pc, loopVars, tallyVars, cache, status, serverVars,
          histVars>>

Source == ToSet(Sources)
Guests == UNION {UNION Range(l) : l \in Listings}
NoGuests == [n \in Nodes |-> {}]
MaintenanceSteps == {"sync", "prune", "gc", "verify"}
Tasks == (Source \X Nodes) \cup {<<x>> : x \in MaintenanceSteps}
Kinds == {"backup", "sync", "verify", "maintenance"}
Status == {"running", "success", "failure", "aborted", "cancelled"}
Places == {"precheck", "source", "list", "node", "dump", "poll_dump", "wait_dump", "step", "ask",
           "poll_step", "wait_step", "refresh", "done"}

TypeOK ==
  /\ kind \in Kinds /\ plan \in Seq(MaintenanceSteps)
  /\ cancelled \in BOOLEAN /\ pc \in Places
  /\ src \in 1 .. Len(Sources) + 1 /\ perNode \in [Nodes -> SUBSET Guests] /\ node \in Nodes
  /\ nodeErrors \in BOOLEAN
  /\ {covered, cache, backedUp, leftOut} \subseteq [Source -> SUBSET Guests] /\ failed \subseteq Source
  /\ {total, ok, lateGuests, lateStarts} \subseteq Nat /\ lostGuests \subseteq Source \X Guests
  /\ status \in Status /\ running \subseteq Tasks /\ reported \subseteq Tasks
  /\ wanted \in [Source -> [Nodes -> SUBSET Guests]] /\ asked \in [Source -> SUBSET Nodes]

\* A step that the options may leave out, and the steps a kind takes on its target, in order.
Optional(step) == {<<>>, <<step>>}
Plans(k) ==
  CASE k = "backup" -> {g \o v : g \in Optional("gc"), v \in Optional("verify")}
    [] k = "sync" -> {<<"sync">> \o p \o g \o v :
                        p \in Optional("prune"), g \in Optional("gc"), v \in Optional("verify")}
    [] k = "verify" -> {<<"verify">>}
    [] k = "maintenance" -> {<<"gc">>, <<"verify">>}

Init ==
  /\ kind \in Kinds /\ plan \in Plans(kind)
  /\ pc = IF kind = "backup" THEN "precheck" ELSE "step"
  /\ cancelled = FALSE /\ src = 1 /\ perNode = NoGuests /\ nodeErrors = FALSE
  /\ node = CHOOSE n \in Nodes : TRUE
  /\ covered = [s \in Source |-> {}] /\ cache = covered /\ backedUp = covered
  /\ leftOut = covered /\ failed = {}
  /\ total = 0 /\ ok = 0 /\ lostGuests = {} /\ status = "running" /\ running = {}
  /\ wanted = [s \in Source |-> NoGuests] /\ asked = [s \in Source |-> {}]
  /\ reported = {} /\ lateGuests = 0 /\ lateStarts = 0

-----------------------------------------------------------------------------
\* The run is recorded and ends.
Ends(s) == pc' = "done" /\ status' = s

\* _route_preflight: the free space of the target against the route's floor; a route without one
\* passes.
Precheck ==
  /\ pc = "precheck"
  /\ \/ pc' = "source" /\ UNCHANGED status
     \/ Ends("aborted") \/ Ends("failure")
  /\ UNCHANGED <<kind, plan, cancelled, loopVars, tallyVars, cache, serverVars, histVars>>

cur == Sources[src]
Advance == src' = src + 1
SourceDone(bad) ==
  /\ failed' = IF bad THEN failed \cup {cur} ELSE failed
  /\ pc' = "source" /\ Advance

NextSource ==
  /\ pc = "source"
  /\ \/ src > Len(Sources) /\ pc' = "step" /\ UNCHANGED status
     \/ src <= Len(Sources) /\ cancelled /\ Ends("cancelled")
     \/ src <= Len(Sources) /\ ~cancelled /\ pc' = "list" /\ UNCHANGED status
  /\ UNCHANGED <<kind, plan, cancelled, loopVars, tallyVars, cache, serverVars, histVars>>

\* list_cluster_guests() and _guests_by_node(); an error of any kind fails the source.
ListGuests ==
  /\ pc = "list"
  /\ \/ /\ perNode' \in Listings \ {NoGuests}
        /\ wanted' = [wanted EXCEPT ![cur] = perNode']
        /\ pc' = "node" /\ nodeErrors' = FALSE /\ UNCHANGED <<failed, src>>
     \/ SourceDone(TRUE) /\ UNCHANGED <<perNode, nodeErrors, wanted>>
  /\ UNCHANGED <<kind, plan, cancelled, node, covered, total, ok, lostGuests, cache,
                 status, serverVars, asked, reported, lateGuests, lateStarts>>

\* Mutant: a cancel is left to the waits.
LeftToTheWaits == FALSE
CancelSeen == cancelled

\* The loop over the nodes, in any order: a cancel is looked at before each.
NextNode ==
  /\ pc = "node" /\ perNode # NoGuests /\ ~CancelSeen
  /\ \E n \in Nodes : perNode[n] # {} /\ node' = n /\ total' = total + Cardinality(perNode[n])
  /\ pc' = "dump"
  /\ UNCHANGED <<kind, plan, cancelled, src, perNode, nodeErrors, covered, failed, ok,
                 lostGuests, cache, status, serverVars, histVars>>

CancelBetweenNodes ==
  /\ pc = "node" /\ perNode # NoGuests /\ CancelSeen
  /\ Ends("cancelled")
  /\ UNCHANGED <<kind, plan, cancelled, loopVars, tallyVars, cache, serverVars, histVars>>

NodesDone ==
  /\ pc = "node" /\ perNode = NoGuests
  /\ SourceDone(nodeErrors)
  /\ UNCHANGED <<kind, plan, cancelled, perNode, node, nodeErrors, covered, total, ok,
                 lostGuests, cache, status, serverVars, histVars>>

-----------------------------------------------------------------------------
\* One vzdump.
dump == <<cur, node>>
group == perNode[node]
LateStart == lateStarts' = IF cancelled THEN lateStarts + 1 ELSE lateStarts

\* Mutant: the first node that fails ends the loop.
GiveUpSource(bad) == IF bad THEN NoGuests ELSE [perNode EXCEPT ![node] = {}]
NodesLeft(bad) == [perNode EXCEPT ![node] = {}]

NodeDone(bad) ==
  /\ perNode' = NodesLeft(bad) /\ nodeErrors' = (nodeErrors \/ bad)
  /\ reported' = IF bad THEN reported \cup {dump} ELSE reported
  /\ pc' = "node" /\ UNCHANGED status

StartDump ==
  /\ pc = "dump"
  /\ asked' = [asked EXCEPT ![cur] = @ \cup {node}]
  /\ LateStart
  /\ \/ /\ running' = running \cup {dump} /\ pc' = "poll_dump"
        /\ UNCHANGED <<perNode, nodeErrors, reported, status>>
     \/ running' \in {running, running \cup {dump}} /\ NodeDone(TRUE)
  /\ UNCHANGED <<kind, plan, cancelled, src, node, tallyVars, cache, backedUp, leftOut,
                 wanted, lateGuests>>

\* Mutant: warnings are never an error.
WarningsAreFine(exit, bad) == exit = "job errors"
\* TaskError is raised on, unless vzdump only warned and lost no guest.
Raises(exit, bad) == exit = "job errors" \/ (exit = "WARNINGS" /\ bad # {})

\* Mutant: the guests of a good node are added to those its log has counted already.
CountTwice(good, done) == ok + Cardinality(done) + IF good THEN Cardinality(group) ELSE 0
\* Mutant: what the log has counted is taken back, before it is counted.
TakeBack(good, done) == IF good THEN ok + Cardinality(group) ELSE ok - Cardinality(done)
\* A good node counts in full; a bad one by what its log said of its guests.
OkAfter(good, done) == ok + Cardinality(IF good THEN group ELSE done)

\* Mutant: the guests of a node are claimed before its task has ended.
ClaimAnyway(good) == covered[cur] \cup group
Claim(good) == IF good THEN covered[cur] \cup group ELSE covered[cur]

\* What the log told of: guests that are done, guests that failed, and some nobody had listed.
Tally(good, done, bad) ==
  /\ backedUp' = [backedUp EXCEPT ![cur] = @ \cup done]
  /\ lostGuests' = lostGuests \cup ({cur} \X bad)
  /\ covered' = [covered EXCEPT ![cur] = Claim(good)]
  /\ \E late \in 0 .. (IF good THEN 0 ELSE MaxLate) :
       ok' = OkAfter(good, done) + late /\ lateGuests' = lateGuests + late

\* A wait looks at the flag before it asks for the task's status.
FirstPoll ==
  /\ ~cancelled
  /\ \/ pc = "poll_dump" /\ pc' = "wait_dump"
     \/ pc = "poll_step" /\ pc' = "wait_step"
  /\ UNCHANGED <<kind, plan, cancelled, loopVars, tallyVars, cache, status, serverVars,
                 histVars>>

\* Which guests a task covers is PVE's to say: one it is told to exclude from backups, and one that
\* is gone or has moved since the listing, it passes over and ends as well as without.
DumpEnds ==
  /\ pc = "wait_dump"
  /\ \E exit \in {"OK", "WARNINGS", "job errors"}, done, bad \in SUBSET group :
       /\ done \cap bad = {}
       /\ exit = "OK" => bad = {}
       /\ leftOut' = IF exit = "job errors" THEN leftOut
                     ELSE [leftOut EXCEPT ![cur] = @ \cup (group \ (done \cup bad))]
       /\ Tally(~Raises(exit, bad), done, bad)
       /\ NodeDone(Raises(exit, bad))
  /\ running' = running \ {dump}
  /\ UNCHANGED <<kind, plan, cancelled, src, node, failed, total, cache, wanted, asked,
                 lateStarts>>

\* Contact lost for good, silence for too long, or an error of Joulenap's own: the task goes on.
DumpLeftBehind ==
  /\ pc = "wait_dump"
  /\ \E done \in SUBSET group : Tally(FALSE, done, {})
  /\ NodeDone(TRUE)
  /\ UNCHANGED <<kind, plan, cancelled, src, node, failed, total, cache, running, leftOut,
                 wanted, asked, lateStarts>>

\* Mutant: the run walks away from its task.
WalkAway(t) == UNCHANGED <<running, reported>>
\* stop_task(), best effort.
StopTask(t) ==
  \/ running' = running \ {t} /\ UNCHANGED reported
  \/ reported' = reported \cup {t} /\ UNCHANGED running

CancelDump ==
  /\ pc \in {"poll_dump", "wait_dump"} /\ cancelled
  /\ \E done \in SUBSET group : Tally(FALSE, done, {})
  /\ StopTask(dump) /\ Ends("cancelled")
  /\ UNCHANGED <<kind, plan, cancelled, loopVars, failed, total, cache, leftOut, wanted,
                 asked, lateStarts>>

-----------------------------------------------------------------------------
\* The plan.  Only a backup looks at the flag between its steps; the others leave it to the waits.
NextStep ==
  /\ pc = "step"
  /\ \/ kind = "backup" /\ cancelled /\ Ends("cancelled")
     \/ /\ ~(kind = "backup" /\ cancelled)
        /\ pc' = (IF plan = <<>> THEN "refresh" ELSE "ask") /\ UNCHANGED status
  /\ UNCHANGED <<kind, plan, cancelled, loopVars, tallyVars, cache, serverVars, histVars>>

stepTask == <<Head(plan)>>

AskStep ==
  /\ pc = "ask"
  /\ LateStart
  /\ \/ running' = running \cup {stepTask} /\ pc' = "poll_step" /\ UNCHANGED <<status, reported>>
     \/ /\ running' \in {running, running \cup {stepTask}}
        /\ reported' = reported \cup {stepTask} /\ Ends("failure")
  /\ UNCHANGED <<kind, plan, cancelled, loopVars, tallyVars, cache, backedUp, leftOut,
                 wanted, asked, lateGuests>>

\* Nothing is looked at after a verify: it is the last step of every plan.
StepEnds ==
  /\ pc = "wait_step"
  /\ \/ /\ plan' = Tail(plan) /\ pc' = (IF Head(plan) = "verify" THEN "refresh" ELSE "step")
        /\ UNCHANGED <<status, reported>>
     \/ reported' = reported \cup {stepTask} /\ Ends("failure") /\ UNCHANGED plan
  /\ running' = running \ {stepTask}
  /\ UNCHANGED <<kind, cancelled, loopVars, tallyVars, cache, backedUp, leftOut, wanted, asked,
                 lateGuests, lateStarts>>

StepLeftBehind ==
  /\ pc = "wait_step"
  /\ reported' = reported \cup {stepTask} /\ Ends("failure")
  /\ UNCHANGED <<kind, plan, cancelled, loopVars, tallyVars, cache, serverVars, wanted,
                 asked, lateGuests, lateStarts>>

CancelStep ==
  /\ pc \in {"poll_step", "wait_step"} /\ cancelled
  /\ StopTask(stepTask) /\ Ends("cancelled")
  /\ UNCHANGED <<kind, plan, cancelled, loopVars, tallyVars, cache, backedUp, leftOut,
                 wanted, asked, lateGuests, lateStarts>>

\* _refresh_route_backup_cache, best effort, and the status.
Refresh ==
  /\ pc = "refresh"
  /\ cache' \in {cache, IF kind = "backup" THEN covered ELSE cache}
  /\ Ends(IF failed = {} THEN "success" ELSE "failure")
  /\ UNCHANGED <<kind, plan, cancelled, loopVars, tallyVars, serverVars, histVars>>

RunStep ==
  \/ Precheck \/ NextSource \/ ListGuests \/ NextNode \/ CancelBetweenNodes \/ NodesDone
  \/ StartDump \/ FirstPoll \/ DumpEnds \/ DumpLeftBehind \/ CancelDump
  \/ NextStep \/ AskStep \/ StepEnds \/ StepLeftBehind \/ CancelStep \/ Refresh

Cancel ==
  /\ ~cancelled /\ pc # "done"
  /\ cancelled' = TRUE
  /\ UNCHANGED <<kind, plan, pc, loopVars, tallyVars, cache, status, serverVars, histVars>>

Next == RunStep \/ Cancel

Spec == Init /\ [][Next]_vars

-----------------------------------------------------------------------------
\* Success: every guest the listings named is backed up or was passed over by PVE itself, no task
\* went wrong or was lost sight of, and none is running.
SuccessIsComplete ==
  status = "success" =>
    /\ running = {} /\ reported = {}
    /\ \A s \in Source : backedUp[s] \cup leftOut[s] = UNION Range(wanted[s])

\* The dashboard claims no guest that a task of the run has failed, lost or not come to: each is
\* backed up, or passed over by a task that ended well.  And a node that went well is claimed,
\* whatever the other nodes of its source did.
ClaimsAreReal ==
  /\ \A s \in Source : cache[s] \subseteq backedUp[s] \cup leftOut[s]
  /\ \A i \in 1 .. Len(Sources) : i < src =>
       \A n \in asked[Sources[i]] :
         <<Sources[i], n>> \notin reported => wanted[Sources[i]][n] \subseteq covered[Sources[i]]

\* What _back_up_source and _refresh_route_backup_cache say of the claims: "the vmids each
\* successful node backed up", "the vmids it actually backed up" (backup_cycle.py).  A guest that
\* PVE passes over is claimed with the others of its node.
ClaimsAreBackedUp == \A s \in Source : covered[s] \subseteq backedUp[s]

\* "One unreachable PVE fails the run but the remaining sources still get their backup": the
\* loop passes no node that holds guests, and only a cancel or the precheck ends it early.
EveryNodeGetsItsTurn ==
  /\ \A i \in 1 .. Len(Sources) : i < src =>
       \A n \in Nodes : wanted[Sources[i]][n] # {} => n \in asked[Sources[i]]
  /\ kind = "backup" /\ status \in {"success", "failure", "aborted"} =>
       src > Len(Sources) \/ (src = 1 /\ \A s \in Source : asked[s] = {})

\* The numbers of the notification: all guests done when the run succeeded, those that PVE passed
\* over counted as done; never more done and failed than it set out to back up -- but for guests
\* created since the listing, which the log of a node that then fails adds to the count and which
\* the total does not hold.
TallyAddsUp ==
  /\ status \in {"success", "failure"} =>
       ok + Cardinality(lostGuests) <= total + lateGuests
  /\ status = "success" => ok = total /\ lostGuests = {} /\ lateGuests = 0

\* A task that outlives its run is one the timeline tells of.
NothingRunsUnreported == pc = "done" => running \subseteq reported

\* What a run leaves in the history -- status, timeline, claims and numbers -- agrees with how its
\* tasks ended on the servers: nothing failed, lost or never asked for passes for done.
RecordIsTrue == SuccessIsComplete /\ ClaimsAreReal /\ TallyAddsUp /\ NothingRunsUnreported

\* After a cancel at most one more task is asked for: the one whose start was under way.
AtMostOneLateStart == lateStarts <= 1
=============================================================================
