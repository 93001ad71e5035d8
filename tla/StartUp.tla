-------------------------------- MODULE StartUp --------------------------------
(***************************************************************************)
(* What the user is told when the process starts: of the scheduled fires it *)
(* slept through (MissedRun), and of the run it was killed in (Notify),     *)
(* beside what a run itself tells.  The lifespan starts the two in threads  *)
(* of their own, which share no state; a behaviour is about one of them.    *)
(***************************************************************************)
EXTENDS MissedRun, Notify

VARIABLE news     \* what this behaviour is about; the state of the other rests

MissedRest ==
  /\ now = 0 /\ pc = "down" /\ bootAt = 0 /\ boots = 0
  /\ config = [r \in RouteId |-> NoFires] /\ armed = config
  /\ hb = Never /\ anchor = [r \in RouteId |-> Never] /\ row = NoRow /\ running = FALSE
  /\ queue = {} /\ lastSeen = Never /\ chkNow = Never /\ chkTodo = {} /\ reports = {}
  /\ acts = 0 /\ died = 0 /\ lived = {} /\ served = {}

NotifyRest ==
  /\ managed = {} /\ subject = [route |-> TRUE, devices |-> <<CHOOSE d \in Device : TRUE>>]
  /\ box = [d \in Device |-> "off"] /\ runRow = "none" /\ steps = <<>> /\ stage = "start"
  /\ at = 1 /\ held = <<>> /\ left = {} /\ restarted = FALSE /\ burning = {}
  /\ acquired = {} /\ handedOn = {} /\ tests = 0
  /\ send = [s \in Sender |-> Idle] /\ fate = [s \in Sender |-> Untouched]

StartUpInit ==
  \/ news = "missed" /\ Init /\ NotifyRest
  \/ news = "runs" /\ MissedRest /\ NotifyInit

StartUpNext ==
  /\ \/ news = "missed" /\ Next /\ UNCHANGED notifyVars
     \/ news = "runs" /\ NotifyNext /\ UNCHANGED vars
  /\ UNCHANGED news

StartUpSpec == StartUpInit /\ [][StartUpNext]_<<vars, notifyVars, news>>
=============================================================================
