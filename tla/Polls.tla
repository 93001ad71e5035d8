--------------------------------- MODULE Polls ---------------------------------
(***************************************************************************)
(* The two polling loops of a run, each on its own: a run waits for its own *)
(* task (TaskPoll) or watches another's (ExternalWatch), never both, and    *)
(* the two share no state.  The loop a behaviour is not about is over from  *)
(* the start.                                                               *)
(***************************************************************************)
EXTENDS TaskPoll, ExternalWatch

WaitInit ==
  /\ Init
  /\ wpc = "done" /\ wresult = "no" /\ busy = FALSE /\ wseen = {}
  /\ wleft = FirstTaskWait /\ quiet = NotQuiet
  /\ ext = [t \in WatchedTask |-> "to_come"]
  /\ ran = [t \in WatchedTask |-> 0] /\ gone = [t \in WatchedTask |-> 0]

WatchOnlyInit ==
  /\ WatchInit
  /\ task = "ok" /\ lines = 0 /\ cancelled = FALSE
  /\ pc = "done" /\ answer = "running" /\ result = "none"
  /\ seen = 0 /\ left = Timeout /\ lost = FALSE /\ lostFor = 0
  /\ handed = <<>> /\ age = [n \in 0 .. MaxLines |-> 0] /\ sinceAnswer = 0

PollsNext ==
  \/ Next /\ UNCHANGED watchVars
  \/ WatchNext /\ UNCHANGED vars

\* Both threads run, and every request ends: the clients have timeouts of their own.  No task
\* owes an end.
PollsSpec ==
  /\ WaitInit \/ WatchOnlyInit
  /\ [][PollsNext]_<<vars, watchVars>>
  /\ WF_<<vars, watchVars>>(PollStep /\ UNCHANGED watchVars)
  /\ WF_<<vars, watchVars>>(WatchStep /\ UNCHANGED vars)
=============================================================================
