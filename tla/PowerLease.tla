------------------------------ MODULE PowerLease ------------------------------
(***************************************************************************)
(* The power lease of backend/app/jobs/lease.py: a refcount per physical    *)
(* machine.  The first holder wakes the machine (or finds it awake), the    *)
(* last release powers it off unless a queued run still needs it, the       *)
(* caller wants it on, or a task still runs on it.                          *)
(*                                                                         *)
(* A thread is inside at most one call at a time; call[t] is its frame.     *)
(* Whatever the code does without holding PowerLease._lock -- the probe,    *)
(* the magic packet, the waits, the power-off command -- is an action of    *)
(* its own.  The two callbacks injected into the class (pending_pbs_keys    *)
(* and cancelled) are parameters of the actions that call them.  Waiting    *)
(* time is abstracted: a wait may end without an answer at any moment.      *)
(***************************************************************************)
EXTENDS Naturals

CONSTANTS
  Threads,        \* threads that acquire and release leases
  Devices,        \* configured PBS entries
  LeaseKeys,      \* machines: what lease_key() maps devices to
  LeaseKey,       \* [Devices -> LeaseKeys]; two datastores may share a machine
  Managed,        \* devices with managed_power
  IdleWaited,     \* devices with poweroff_task_wait > 0
  WolRetries,     \* wol_retries, extra wake attempts
  LingerAnswers   \* may a machine that is shutting down still answer a probe?

ASSUME LeaseAssumption ==
  /\ Devices # {}
  /\ LeaseKey \in [Devices -> LeaseKeys]
  /\ Managed \subseteq Devices
  /\ IdleWaited \subseteq Devices
  /\ WolRetries \in Nat
  /\ LingerAnswers \in BOOLEAN

VARIABLES
  box,        \* physical power state of each machine (external)
  holders,    \* LeaseState.holders; 0 stands for no entry in _state
  call        \* the lease call each thread is executing

leaseVars == <<box, holders, call>>

BoxState == {"off", "booting", "up", "stopping"}

\* ReleaseOutcome, and what acquire() returns or raises.
ReleaseOutcome == {"powered_off", "still_needed", "unmanaged", "busy",
                   "poweroff_failed", "left_on"}
AcquireResult == {"acquired", "unreachable"}

Places == {"idle", "probe", "decide", "wol", "wait", "grace", "count",
           "pending", "wait_idle", "poweroff", "done"}

NoResult == "none"
Call == [dev : Devices, at : Places, attempt : 1 .. WolRetries + 1,
         powerOff : BOOLEAN,
         result : ReleaseOutcome \cup AcquireResult \cup {NoResult}]

Frame(d, p) == [dev |-> d, at |-> p, attempt |-> 1, powerOff |-> FALSE,
                result |-> NoResult]
AnyDevice == CHOOSE d \in Devices : TRUE
NoCall == Frame(AnyDevice, "idle")

LeaseTypeOK ==
  /\ box \in [LeaseKeys -> BoxState]
  /\ holders \in [LeaseKeys -> Nat]
  /\ call \in [Threads -> Call]

LeaseInit ==
  /\ box \in [LeaseKeys -> {"off", "up"}]
  /\ holders = [k \in LeaseKeys |-> 0]
  /\ call = [t \in Threads |-> NoCall]

-----------------------------------------------------------------------------
Key(t) == LeaseKey[call[t].dev]
Goto(t, p) == call' = [call EXCEPT ![t].at = p]
Return(t, r) == call' = [call EXCEPT ![t].at = "done", ![t].result = r]

\* The caller takes the result and leaves.
Finish(t) == call' = [call EXCEPT ![t] = NoCall]

\* A TCP probe: a running machine answers; one going down may still answer.
Answers(k) == box[k] = "up" \/ (LingerAnswers /\ box[k] = "stopping")
MayBeSilent(k) == box[k] # "up"

(***************************************************************************)
(* acquire(): the refcount is bumped at once when somebody already holds    *)
(* the machine, otherwise _bring_up runs outside the lock first.            *)
(***************************************************************************)
AcquireCall(t, d) ==
  /\ call[t].at = "idle"
  /\ IF holders[LeaseKey[d]] > 0
     THEN /\ holders' = [holders EXCEPT ![LeaseKey[d]] = @ + 1]
          /\ call' = [call EXCEPT ![t] = [Frame(d, "done") EXCEPT !.result = "acquired"]]
     ELSE /\ call' = [call EXCEPT ![t] = Frame(d, "probe")]
          /\ UNCHANGED holders
  /\ UNCHANGED box

\* _bring_up: one instant probe, without the cancel callback.
Probe(t) ==
  /\ call[t].at = "probe"
  /\ \/ Answers(Key(t)) /\ Goto(t, "count")
     \/ MayBeSilent(Key(t)) /\ Goto(t, "decide")
  /\ UNCHANGED <<box, holders>>

\* Silent machine: never wake an unmanaged one, nor one for a run that is stopping.
NoWake(t, cancelled) == call[t].dev \notin Managed \/ cancelled

\* Mutant: acquiring an unmanaged machine is taken for a no-op.
DecideTrustsUnmanaged(t, cancelled) ==
  /\ call[t].at = "decide"
  /\ Goto(t, IF call[t].dev \in Managed THEN "wol" ELSE "count")
  /\ UNCHANGED <<box, holders>>

Decide(t, cancelled) ==
  /\ call[t].at = "decide"
  /\ IF NoWake(t, cancelled) THEN Return(t, "unreachable") ELSE Goto(t, "wol")
  /\ UNCHANGED <<box, holders>>

\* The magic packet: it may get lost, the send may fail, and only a machine that is
\* off reacts to it.
SendWol(t) ==
  /\ call[t].at = "wol"
  /\ \/ /\ Goto(t, "wait")
        /\ \/ /\ box[Key(t)] = "off"
              /\ box' = [box EXCEPT ![Key(t)] = "booting"]
           \/ UNCHANGED box
     \/ Return(t, "unreachable") /\ UNCHANGED box
  /\ UNCHANGED holders

\* wait_reachable(wait_timeout, cancelled) sees the machine answer.  The cancel
\* callback is asked first, so a stopped run does not get this answer.
WaitAnswered(t, cancelled) ==
  /\ call[t].at = "wait"
  /\ Answers(Key(t))
  /\ ~cancelled
  /\ Goto(t, "count")
  /\ UNCHANGED <<box, holders>>

\* Mutant: the wait has no deadline.
NeverTimesOut(k) == FALSE
\* The deadline passes with the machine silent.
TimedOut(k) == MayBeSilent(k)

\* ... or it ends without one.  Cancelled: see the wake through for what is left of this
\* attempt, which may be nothing.  Timed out: next attempt, until they are used up.
WaitEnded(t, cancelled) ==
  /\ call[t].at = "wait"
  /\ cancelled \/ TimedOut(Key(t))
  /\ \/ cancelled /\ (Goto(t, "grace") \/ Return(t, "unreachable"))
     \/ /\ ~cancelled
        /\ call[t].attempt <= WolRetries
        /\ call' = [call EXCEPT ![t].at = "wol", ![t].attempt = @ + 1]
     \/ /\ ~cancelled
        /\ call[t].attempt = WolRetries + 1
        /\ Return(t, "unreachable")
  /\ UNCHANGED <<box, holders>>

\* The grace wait has no cancel callback.
Grace(t) ==
  /\ call[t].at = "grace"
  /\ \/ Answers(Key(t)) /\ Goto(t, "count")
     \/ MayBeSilent(Key(t)) /\ Return(t, "unreachable")
  /\ UNCHANGED <<box, holders>>

\* Back under the lock: setdefault and increment.
Count(t) ==
  /\ call[t].at = "count"
  /\ holders' = [holders EXCEPT ![Key(t)] = @ + 1]
  /\ Return(t, "acquired")
  /\ UNCHANGED box

-----------------------------------------------------------------------------
(***************************************************************************)
(* release(): the decrement is atomic, the rest happens outside the lock.   *)
(***************************************************************************)
\* Mutant: the check for an unheld lease is missing.
NeverUnheld(k) == FALSE
Unheld(k) == holders[k] = 0

ReleaseCall(t, d, powerOff) ==
  LET k == LeaseKey[d]
      Left(r) == call' = [call EXCEPT ![t] = [Frame(d, "done") EXCEPT !.result = r]]
  IN
  /\ call[t].at = "idle"
  /\ \/ /\ Unheld(k)                            \* a bug, not a policy: ignored
        /\ Left("left_on")
        /\ UNCHANGED holders
     \/ /\ ~Unheld(k)
        /\ holders' = [holders EXCEPT ![k] = @ - 1]
        /\ \/ holders'[k] > 0 /\ Left("still_needed")
           \/ holders'[k] <= 0 /\ d \notin Managed /\ Left("unmanaged")
           \/ /\ holders'[k] <= 0 /\ d \in Managed
              /\ call' = [call EXCEPT ![t] = [Frame(d, "pending") EXCEPT !.powerOff = powerOff]]
  /\ UNCHANGED box

\* The machines that queued runs need are asked for first, the caller's policy last.
PendingCheck(t, pendingKeys) ==
  /\ call[t].at = "pending"
  /\ \/ Key(t) \in pendingKeys /\ Return(t, "still_needed")
     \/ Key(t) \notin pendingKeys /\ ~call[t].powerOff /\ Return(t, "left_on")
     \/ /\ Key(t) \notin pendingKeys /\ call[t].powerOff
        /\ Goto(t, IF call[t].dev \in IdleWaited THEN "wait_idle" ELSE "poweroff")
  /\ UNCHANGED <<box, holders>>

\* _power_off: wait for the box's own tasks; a failing check counts as idle.
WaitIdle(t) ==
  /\ call[t].at = "wait_idle"
  /\ Return(t, "busy") \/ Goto(t, "poweroff")
  /\ UNCHANGED <<box, holders>>

\* The fire-and-forget SSH command.  It reaches a machine that is up (one going down may
\* still accept it); when it raises the machine may or may not have got it.
SentPowerOff(k) ==
  /\ box[k] \in {"up", "stopping"}
  /\ box' = [box EXCEPT ![k] = "stopping"]
LostPowerOff(k) == SentPowerOff(k) \/ UNCHANGED box

PowerOffCmd(t) ==
  /\ call[t].at = "poweroff"
  /\ \/ SentPowerOff(Key(t)) /\ Return(t, "powered_off")
     \/ LostPowerOff(Key(t)) /\ Return(t, "poweroff_failed")
  /\ UNCHANGED holders

-----------------------------------------------------------------------------
\* The machines themselves (external).
BoxBoots(k) == box[k] = "booting" /\ box' = [box EXCEPT ![k] = "up"]
BoxHalts(k) == box[k] = "stopping" /\ box' = [box EXCEPT ![k] = "off"]

BoxStep ==
  /\ \E k \in LeaseKeys : BoxBoots(k) \/ BoxHalts(k)
  /\ UNCHANGED <<holders, call>>

\* Every step of a call already begun.
CallStep(t, cancelled, pendingKeys) ==
  \/ Probe(t)
  \/ Decide(t, cancelled)
  \/ SendWol(t)
  \/ WaitAnswered(t, cancelled)
  \/ WaitEnded(t, cancelled)
  \/ Grace(t)
  \/ Count(t)
  \/ PendingCheck(t, pendingKeys)
  \/ WaitIdle(t)
  \/ PowerOffCmd(t)
=============================================================================
