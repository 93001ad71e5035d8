-------------------------------- MODULE Notify --------------------------------
(***************************************************************************)
(* What the user is told of a run, and how the telling is done: the steps a *)
(* run leaves in the database, the alert a restart builds from them         *)
(* (notify/messages.py, db/startup.py, main.py), and the deliveries of      *)
(* notify/service.py, which the worker, the start-up thread and a test from *)
(* the UI make at the same time over one process-wide logger.               *)
(*                                                                         *)
(* One run, over one machine or two, is followed through one restart.       *)
(***************************************************************************)
EXTENDS Naturals, SequencesExt

CONSTANTS
  Device,      \* ids of the configured PBSs
  NoLabel,     \* the label of a step that carries none
  NoReason,    \* error=None of a ChannelResult
  Channels,    \* a sequence: the channels build_channels makes of the config
  Unresolved,  \* the channels whose host _dns_hint finds it cannot resolve
  MaxWarn,     \* bound: warnings a plugin logs while it sends
  MaxTests     \* bound: test messages the user sends

Sender == {"worker", "startup", "ui"}        \* threads that call the service

ASSUME NotifyAssumption ==
  /\ NoLabel \notin Device
  /\ Len(Channels) > 0 /\ MaxWarn \in Nat /\ MaxTests \in Nat

VARIABLES
  managed,        \* the devices whose power Joulenap manages
  subject,        \* what the run is about: its devices, target first, and whether it is a route
  box,            \* the machine of each device: off, waking, on
  runRow, steps,  \* the run's row and its steps, as committed
  stage, at,      \* where the worker is, and the device of the acquire loop it is at
  held, left,     \* leases still to be released, and left_on
  restarted,
  send,           \* the dispatch each thread is making
  tests,
  acquired,       \* history: machines whose lease the run recorded taking
  handedOn,       \* history: machines left to a queued run
  burning,        \* history: managed machines a run cut short by the restart leaves on
  fate            \* history: what the channel at hand of each dispatch really did

cycleVars == <<box, runRow, steps, stage, at, held, left, acquired, handedOn>>
fixed == <<managed, subject>>
sendVars == <<send, fate>>
notifyVars == <<fixed, cycleVars, restarted, burning, sendVars, tests>>

Subjects ==
  [route : BOOLEAN, devices : {<<d>> : d \in Device}]
    \cup [route : {TRUE}, devices : {p \in Device \X Device : p[1] # p[2]}]

NoText == [kind |-> "none", left |-> FALSE]
Idle == [pc |-> "idle", k |-> 0, text |-> NoText, captured |-> <<>>, last |-> <<>>]
Untouched == [ended |-> "no", warned |-> 0]

NotifyInit ==
  /\ managed \in SUBSET Device /\ subject \in Subjects
  /\ box \in [Device -> {"off", "on"}]
  /\ runRow = "none" /\ steps = <<>> /\ stage = "start" /\ at = 1 /\ held = <<>> /\ left = {}
  /\ restarted = FALSE /\ burning = {} /\ acquired = {} /\ handedOn = {}
  /\ send = [s \in Sender |-> Idle] /\ fate = [s \in Sender |-> Untouched] /\ tests = 0

-----------------------------------------------------------------------------
\* Delivery.  A channel's result is a sequence: ok alone, or failed and the reason.

\* Mutant: a handler takes every record the logger emits.
HearsAll(owner, thread) == TRUE

Hears(owner, thread) == owner = thread

\* A dispatch starts: the channels are walked, one engine with one URL at a time.  A message
\* the routing toggles or the route's own filter mute is skipped.
Dispatched(text) == [Idle EXCEPT !.pc = "add", !.k = 1, !.text = text]
Skipped(text) == [Idle EXCEPT !.pc = "skipped", !.text = text]

\* The last warning captured, the hint of a name that does not resolve, or nothing.
Reason(d) ==
  IF Channels[d.k] \in Unresolved THEN "dns hint"
  ELSE IF d.captured = <<>> THEN NoReason ELSE Last(d.captured)

\* Mutant: the exception of a channel ends the dispatch.
UnwindIfRaised(d, result) ==
  [d EXCEPT !.last = result, !.captured = <<>>,
            !.pc = IF d.k = Len(Channels) \/ result = <<"failed", "raised">>
                   THEN "sent" ELSE "next"]

Concluded(d, result) ==
  [d EXCEPT !.last = result, !.captured = <<>>,
            !.pc = IF d.k = Len(Channels) THEN "sent" ELSE "next"]

NextChannel(s) ==
  /\ send[s].pc = "next"
  /\ send' = [send EXCEPT ![s].pc = "add", ![s].k = @ + 1, ![s].last = <<>>]
  /\ fate' = [fate EXCEPT ![s] = Untouched]

\* engine.add; when it takes the URL, the handler is put on the logger.
AddChannel(s) ==
  /\ send[s].pc = "add"
  /\ \/ send' = [send EXCEPT ![s].pc = "notify"] /\ UNCHANGED fate
     \/ \E e \in {"invalid URL", "raised"} :
          /\ send' = [send EXCEPT ![s] = Concluded(@, <<"failed", e>>)]
          /\ fate' = [fate EXCEPT ![s].ended = e]

\* The plugin that s runs logs a warning: every handler on the logger is offered the record.
PluginWarns(s) ==
  /\ send[s].pc = "notify" /\ fate[s].warned < MaxWarn
  /\ fate' = [fate EXCEPT ![s].warned = @ + 1]
  /\ send' = [t \in Sender |->
                IF send[t].pc = "notify" /\ Hears(t, s)
                THEN [send[t] EXCEPT !.captured = Append(@, <<s, send[s].k, fate'[s].warned>>)]
                ELSE send[t]]

\* engine.notify comes back: true, false or an exception; the handler leaves the logger.
PluginAnswers(s) ==
  /\ send[s].pc = "notify"
  /\ \E e \in {"ok", "refused", "raised"} :
       /\ fate' = [fate EXCEPT ![s].ended = e]
       /\ send' = [send EXCEPT ![s] =
                     Concluded(@, CASE e = "ok" -> <<"ok">>
                                    [] e = "raised" -> <<"failed", "raised">>
                                    [] OTHER -> <<"failed", Reason(@)>>)]

\* POST /notify/test: no filter applies.
SendTest ==
  /\ tests < MaxTests /\ send["ui"].pc \in {"idle", "sent"}
  /\ tests' = tests + 1
  /\ send' = [send EXCEPT !["ui"] = Dispatched([kind |-> "test", left |-> FALSE])]
  /\ fate' = [fate EXCEPT !["ui"] = Untouched]

DeliveryNext ==
  /\ \/ SendTest
     \/ /\ \E s \in Sender : NextChannel(s) \/ AddChannel(s) \/ PluginWarns(s) \/ PluginAnswers(s)
        /\ UNCHANGED tests
  /\ UNCHANGED <<fixed, cycleVars, restarted, burning>>

-----------------------------------------------------------------------------
\* The run.  A step's row is committed when it starts and when it ends.

Multi == Len(subject.devices) > 1
Label(d) == IF Multi THEN d ELSE NoLabel
Stepped(name, d) == Append(steps, [name |-> name, label |-> Label(d), status |-> "running"])
Closed(status) == [steps EXCEPT ![Len(steps)].status = status]

OutsideRests == UNCHANGED <<fixed, restarted, burning, tests>>
Running(at_pc) == stage = at_pc /\ OutsideRests

BeginRun ==
  /\ Running("start") /\ ~restarted
  /\ runRow' = "running" /\ stage' = "wait"
  /\ UNCHANGED <<box, steps, at, held, left, acquired, handedOn, sendVars>>

StartWait ==
  /\ Running("wait")
  /\ steps' = Stepped("wait", subject.devices[at]) /\ stage' = "probe"
  /\ UNCHANGED <<box, runRow, at, held, left, acquired, handedOn, sendVars>>

\* The instant probe; a silent machine is woken only if its power is managed.
Probe ==
  /\ Running("probe")
  /\ LET d == subject.devices[at]
     IN \/ box[d] = "on" /\ stage' = "up" /\ UNCHANGED box
        \/ box[d] # "on" /\ d \notin managed /\ stage' = "down" /\ UNCHANGED box
        \/ box[d] # "on" /\ d \in managed /\ stage' = "wake" /\ box' = [box EXCEPT ![d] = "waking"]
        \/ box[d] # "on" /\ d \in managed /\ stage' = "down" /\ UNCHANGED box    \* no packet sent
  /\ UNCHANGED <<runRow, steps, at, held, left, acquired, handedOn, sendVars>>

WakeEnds ==
  /\ Running("wake")
  /\ \/ box[subject.devices[at]] = "on" /\ stage' = "up"
     \/ stage' = "down"      \* timed out
  /\ UNCHANGED <<box, runRow, steps, at, held, left, acquired, handedOn, sendVars>>

CloseWait ==
  /\ Running("up")
  /\ steps' = Closed("success")
  /\ held' = Append(held, subject.devices[at])
  /\ acquired' = acquired \cup {subject.devices[at]}
  /\ IF at < Len(subject.devices) THEN at' = at + 1 /\ stage' = "wait"
     ELSE stage' = "work" /\ UNCHANGED at
  /\ UNCHANGED <<box, runRow, left, handedOn, sendVars>>

FailWait ==
  /\ Running("down")
  /\ steps' = Closed("failure") /\ stage' = "unreachable"
  /\ UNCHANGED <<box, runRow, at, held, left, acquired, handedOn, sendVars>>

\* recorder.finish, by the job or for a machine that never came up; the power-off is still to come.
FinishRun ==
  /\ \/ Running("work") /\ runRow' \in {"success", "failure", "aborted"}
     \/ Running("unreachable") /\ runRow' \in {"failure", "aborted"}
  /\ stage' = "release"
  /\ UNCHANGED <<box, steps, at, held, left, acquired, handedOn, sendVars>>

StartPowerOff ==
  /\ Running("release") /\ held # <<>>
  /\ steps' = Stepped("poweroff", Head(held)) /\ stage' = "poweroff"
  /\ UNCHANGED <<box, runRow, at, held, left, acquired, handedOn, sendVars>>

\* PowerLease.release: needed by another run, unmanaged, kept on or still busy, refused, done.
\* A command that came back with an error may have been carried out.
PowerOff ==
  LET d == Head(held)
  IN /\ Running("poweroff")
     /\ \/ UNCHANGED <<box, left>> /\ handedOn' = handedOn \cup {d} /\ stage' = "kept"
        \/ d \notin managed /\ UNCHANGED <<box, left, handedOn>> /\ stage' = "kept"
        \/ /\ d \in managed /\ left' = left \cup {d} /\ stage' = "kept"
           /\ UNCHANGED handedOn
           /\ \E b \in {box[d], "off"} : box' = [box EXCEPT ![d] = b]
        \/ d \in managed /\ box' = [box EXCEPT ![d] = "off"] /\ stage' = "off"
           /\ UNCHANGED <<left, handedOn>>
     /\ UNCHANGED <<runRow, steps, at, held, acquired, sendVars>>

ClosePowerOff ==
  /\ Running("off") \/ Running("kept")
  /\ steps' = Closed(IF stage = "off" THEN "success" ELSE "skipped")
  /\ held' = Tail(held) /\ stage' = "release"
  /\ UNCHANGED <<box, runRow, at, left, acquired, handedOn, sendVars>>

\* build_run_message: of its lines the one about the machines left on.
ResultText == [kind |-> "result", left |-> left # {}]

\* send_run_result; a run the user stopped says nothing.
NotifyResult ==
  /\ Running("release") /\ held = <<>> /\ stage' = "over"
  /\ \/ runRow = "aborted" /\ UNCHANGED send
     \/ runRow # "aborted" /\ \E d \in {Dispatched(ResultText), Skipped(ResultText)} :
                              send' = [send EXCEPT !["worker"] = d]
  /\ UNCHANGED <<box, runRow, steps, at, held, left, acquired, handedOn, fate>>

BoxBoots ==
  /\ OutsideRests
  /\ \E d \in Device : box[d] = "waking" /\ box' = [box EXCEPT ![d] = "on"]
  /\ UNCHANGED <<runRow, steps, stage, at, held, left, acquired, handedOn, sendVars>>

RunNext ==
  \/ BeginRun \/ StartWait \/ Probe \/ WakeEnds \/ CloseWait \/ FailWait \/ FinishRun
  \/ StartPowerOff \/ PowerOff \/ ClosePowerOff \/ NotifyResult \/ BoxBoots

-----------------------------------------------------------------------------
\* The restart.

SweptSteps(s) == [i \in DOMAIN s |->
               IF s[i].status = "running" THEN [s[i] EXCEPT !.status = "failure"] ELSE s[i]]

\* Mutant: a labelled step is not recognised.
StepIsExactly(step, name) == step.name = name /\ step.label = NoLabel

StepIs(step, name) == step.name = name

\* _pbs_left_on: a machine of ours came up and no power-off of it is recorded.  A step without
\* a label is about the route's target, or about a machine nobody can name.
PbsLeftOn(rows) ==
  LET Done(name) == {rows[i].label : i \in {j \in DOMAIN rows :
                       StepIs(rows[j], name) /\ rows[j].status = "success"}}
      Ours(label) == \/ label \in managed
                     \/ label = NoLabel /\ (subject.route => subject.devices[1] \in managed)
  IN \E label \in Done("wait") \ Done("poweroff") : Ours(label)

\* build_interrupted_message
InterruptedText(rows) == [kind |-> "interrupted", left |-> PbsLeftOn(rows)]

\* The process dies, comes back, sweeps the rows and alerts on the runs it swept.
Restart ==
  /\ ~restarted /\ restarted' = TRUE
  /\ stage' = "over" /\ held' = <<>> /\ left' = {}
  /\ burning' = {d \in managed \cap acquired : stage # "over" /\ box[d] = "on"}
  /\ steps' = IF runRow = "running" THEN SweptSteps(steps) ELSE steps
  /\ runRow' = IF runRow = "running" THEN "failure" ELSE runRow
  /\ LET text == InterruptedText(steps')
     IN \E d \in IF runRow = "running" THEN {Dispatched(text), Skipped(text)} ELSE {Idle} :
          send' = [s \in Sender |-> IF s = "startup" THEN d ELSE Idle]
  /\ fate' = [s \in Sender |-> Untouched]
  /\ UNCHANGED <<fixed, box, at, acquired, handedOn, tests>>

NotifyNext == DeliveryNext \/ RunNext \/ Restart

NotifySpec == NotifyInit /\ [][NotifyNext]_notifyVars

-----------------------------------------------------------------------------
\* Each field is in its range.
NotifyTypeOK ==
  /\ managed \subseteq Device /\ subject \in Subjects
  /\ box \in [Device -> {"off", "waking", "on"}]
  /\ runRow \in {"none", "running", "success", "failure", "aborted"}
  /\ acquired \cup handedOn \cup left \cup burning \subseteq Device
  /\ \A s \in Sender : send[s].pc \in {"idle", "skipped", "add", "notify", "next", "sent"}

\* What a channel's result has to be, from what the channel did for this thread's message.
OwnResult(s) ==
  IF fate[s].ended = "ok" THEN <<"ok">>
  ELSE <<"failed", IF fate[s].ended # "refused" THEN fate[s].ended
                   ELSE IF Channels[send[s].k] \in Unresolved THEN "dns hint"
                   ELSE IF fate[s].warned = 0 THEN NoReason
                   ELSE <<s, send[s].k, fate[s].warned>>>>

\* A report is about its own message: every channel has been tried when it is handed back, and
\* the result of each is what this thread's plugin answered, with the last reason this thread's
\* plugin logged, whatever other threads send through the same logger meanwhile.
EachChannelOnItsOwn ==
  \A s \in Sender :
    /\ send[s].pc \in {"next", "sent"} => send[s].last = OwnResult(s)
    /\ send[s].pc = "sent" => send[s].k = Len(Channels)

\* The warning that a machine was left on is in the message exactly when it is due.  A restart's
\* alert carries it when a machine whose power is ours had come up for the run and is on, and
\* never for a run that brought up none, or none but machines that are not ours.  A finished
\* run's message carries it when a machine it leased is on and nobody else will see to it.
LeftOnIsTold ==
  /\ send["startup"].pc # "idle" =>
       /\ burning # {} => send["startup"].text.left
       /\ send["startup"].text.left => acquired # {} /\ (subject.route => acquired \cap managed # {})
  /\ send["worker"].pc # "idle" =>
       LET due == (acquired \cap managed) \ handedOn
       IN /\ (\E d \in due : box[d] = "on") => send["worker"].text.left
          /\ send["worker"].text.left => due # {}

\* What db/startup.py says the alert is for: when a restart cuts a run short and a machine of
\* ours that came up for it is on, the start-up alert says so.
CrashIsTold ==
  restarted /\ burning # {} => send["startup"].text.left
=============================================================================
