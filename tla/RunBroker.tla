------------------------------- MODULE RunBroker -------------------------------
(***************************************************************************)
(* What the job service promises its users, without threads, rows or        *)
(* machines: runs wait in one line, in the order they were asked for; the    *)
(* first of the line is granted the fleet when nobody has it; a user may     *)
(* have the fleet for a moment instead, but never together with a run.       *)
(* JobService implements this specification (jobs/service.py, module         *)
(* comment: runs execute strictly one at a time).                           *)
(***************************************************************************)
EXTENDS SequencesExt

CONSTANTS
  Keys,      \* what a run may be about
  Nobody,    \* nobody has the fleet
  User       \* a user's manual power-off has it

VARIABLES
  line,      \* the runs that wait
  busy       \* who has the fleet

brokerVars == <<line, busy>>

BrokerInit == line = <<>> /\ busy = Nobody

\* A run is asked for, unless the same one waits or has the fleet.
Submit(k) == k \notin ToSet(line) \cup {busy} /\ line' = Append(line, k) /\ UNCHANGED busy

\* A waiting run is given up, by the user or because its subject is gone.
Withdraw(i) == line' = RemoveAt(line, i) /\ UNCHANGED busy

Grant == line # <<>> /\ busy = Nobody /\ busy' = Head(line) /\ line' = Tail(line)
GiveBack == busy \in Keys /\ busy' = Nobody /\ UNCHANGED line
UserTakes == busy = Nobody /\ busy' = User /\ UNCHANGED line
UserLeaves == busy = User /\ busy' = Nobody /\ UNCHANGED line

\* The process restarts: nothing waits, nobody has the fleet.
Forget == line' = <<>> /\ busy' = Nobody

BrokerNext ==
  \/ \E k \in Keys : Submit(k)
  \/ \E i \in DOMAIN line : Withdraw(i)
  \/ Grant \/ GiveBack \/ UserTakes \/ UserLeaves \/ Forget

BrokerSpec == BrokerInit /\ [][BrokerNext]_brokerVars
=============================================================================
