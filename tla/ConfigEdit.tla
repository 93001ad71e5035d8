------------------------------- MODULE ConfigEdit -------------------------------
(***************************************************************************)
(* Edits of the configuration by concurrent API requests: the route and      *)
(* device endpoints (backend/app/api/routes.py, devices.py), save_section    *)
(* (_config_edit.py), the kill-switch (scheduler.py), ConfigStore            *)
(* (core/config_store.py), save_config (config.py) and Scheduler.rearm       *)
(* (core/scheduler.py).                                                      *)
(*                                                                         *)
(* store.config is read without the lock and only its replacement takes it;  *)
(* the two lists of the document are edited by position.  A configuration is *)
(* an object: the kill-switch changes the current one in place.              *)
(***************************************************************************)
EXTENDS Naturals, SequencesExt

CONSTANTS
  Threads,      \* API requests in progress at a time
  Routes, Devices, Crons,
  Mounts,       \* whether config.yaml may be mounted by itself, to be overwritten in place
  MaxEdits,     \* bound: requests
  MaxSaveFaults,\* bound: writes that raise OSError
  MaxRestarts   \* bound: ends of the process

CONSTANTS
  Torn,         \* a file cut off in the middle
  Nobody        \* a lock nobody holds

ASSUME EditAssumption ==
  /\ Mounts \subseteq BOOLEAN /\ Nobody \notin Threads
  /\ IsFiniteSet(Routes) /\ IsFiniteSet(Devices) /\ Devices # {} /\ Crons # {}
  /\ {MaxEdits, MaxSaveFaults, MaxRestarts} \subseteq Nat

VARIABLES
  objects,   \* the Config objects there are
  mem,       \* store._config: index of the current one
  disk,      \* config.yaml
  lock,      \* store._lock: its holder, or none
  armed,     \* the scheduler's route jobs: pairs of route and cron
  pc,        \* where each request is
  ask,       \* what each request wants
  index,     \* position of the item, as looked up
  part,      \* the edited list
  new,       \* new_config: index of the object built from it
  todo,      \* rearm's loop: jobs to remove, then routes to arm
  bindMount, \* config.yaml is mounted by itself
  acked,     \* history: what each route may be, by the answers its edits got
  overlapped,\* history: two requests were in progress at a time
  unsaved,   \* history: a write failed, and none has succeeded since
  edits, saveFaults, restarts

reqVars == <<pc, ask, index, part, new, todo>>
history == <<acked, overlapped, unsaved, edits>>
bounds == <<bindMount, saveFaults, restarts>>
vars == <<objects, mem, disk, lock, armed, reqVars, history, bounds>>

NoItem == <<>>   \* an id that is not configured

RouteItem == [id : Routes, dev : Devices, cron : Crons]
DeviceItem == [id : Devices]
Item == RouteItem \cup DeviceItem
Config == [routes : Seq(RouteItem), devices : Seq(DeviceItem), enabled : BOOLEAN]

ASSUME TornAssumption == Torn \notin Config

Section == {"routes", "devices"}
Ids(list) == {list[i].id : i \in DOMAIN list}

\* What may be asked: to set or drop an item of a list, or to set the kill-switch.
Put == {[op |-> "put", sec |-> "routes", item |-> x] : x \in RouteItem}
         \cup {[op |-> "put", sec |-> "devices", item |-> x] : x \in DeviceItem}
Drop == {[op |-> "drop", sec |-> "routes", id |-> r] : r \in Routes}
          \cup {[op |-> "drop", sec |-> "devices", id |-> d] : d \in Devices}
Toggle == {[op |-> "toggle", enabled |-> b] : b \in BOOLEAN}
Ask == Put \cup Drop \cup Toggle
IdOf(a) == IF a.op = "put" THEN a.item.id ELSE a.id

Places == {"idle", "dump", "build", "replace", "write", "overwrite", "list_jobs", "disarm", "arm"}

TypeOK ==
  /\ objects \in Seq(Config) /\ mem \in DOMAIN objects /\ disk \in Config \cup {Torn}
  /\ lock \in Threads \cup {Nobody} /\ armed \subseteq Routes \X Crons
  /\ pc \in [Threads -> Places] /\ ask \in [Threads -> Ask] /\ index \in [Threads -> Nat]
  /\ part \in [Threads -> Seq(Item)] /\ new \in [Threads -> DOMAIN objects]
  /\ todo \in [Threads -> SUBSET (Routes \X Crons)]
  /\ acked \in [Routes -> SUBSET (RouteItem \cup {NoItem})]
  /\ {bindMount, overlapped, unsaved} \subseteq BOOLEAN
  /\ edits \in 0 .. MaxEdits /\ saveFaults \in 0 .. MaxSaveFaults /\ restarts \in 0 .. MaxRestarts

config == objects[mem]

\* _check_references: ids are unique, and a route's device is configured.
Valid(c) ==
  /\ \A s \in Section : Cardinality(Ids(c[s])) = Len(c[s])
  /\ \A i \in DOMAIN c.routes : c.routes[i].dev \in Ids(c.devices)

\* What rearm arms for a configuration.
Armable(c) == IF c.enabled THEN {<<c.routes[i].id, c.routes[i].cron>> : i \in DOMAIN c.routes} ELSE {}

ItemOf(list, id) ==
  IF id \in Ids(list) THEN list[CHOOSE i \in DOMAIN list : list[i].id = id] ELSE NoItem

\* All routes are on one device and one schedule at the start -- which ones makes no difference
\* -- and the process has just read and armed them.
Init ==
  /\ LET d == CHOOSE x \in Devices : TRUE
         n == CHOOSE x \in Crons : TRUE
         c == [routes |-> SetToSeq({[id |-> r, dev |-> d, cron |-> n] : r \in Routes}),
               devices |-> SetToSeq(DeviceItem), enabled |-> TRUE]
     IN  /\ objects = <<c>> /\ disk = c /\ armed = Armable(c)
         /\ acked = [r \in Routes |-> {ItemOf(c.routes, r)}]
  /\ mem = 1 /\ lock = Nobody
  /\ pc = [t \in Threads |-> "idle"]
  /\ ask = [t \in Threads |-> [op |-> "toggle", enabled |-> TRUE]]
  /\ index = [t \in Threads |-> 0] /\ part = [t \in Threads |-> <<>>]
  /\ new = [t \in Threads |-> 1] /\ todo = [t \in Threads |-> {}]
  /\ bindMount \in Mounts /\ overlapped = FALSE /\ unsaved = FALSE
  /\ edits = 0 /\ saveFaults = 0 /\ restarts = 0

-----------------------------------------------------------------------------
Goto(t, p) == pc' = [pc EXCEPT ![t] = p]
\* The request is answered; its locals are gone.
Answer(t) ==
  /\ Goto(t, "idle")
  /\ index' = [index EXCEPT ![t] = 0] /\ part' = [part EXCEPT ![t] = <<>>]
  /\ todo' = [todo EXCEPT ![t] = {}] /\ UNCHANGED <<ask, new>>

\* _routes_using(): a device some route needs is not dropped.
InUse(a) == a.sec = "devices" /\ \E i \in DOMAIN config.routes : config.routes[i].dev = a.id
\* Mutant: the position of an id that is not there is taken for that of the last item.
IndexOrLast(list, id) ==
  IF id \in Ids(list) THEN CHOOSE i \in DOMAIN list : list[i].id = id ELSE Len(list)
\* Position of an id, 0 when there is none.
IndexOf(list, id) ==
  IF id \in Ids(list) THEN CHOOSE i \in DOMAIN list : list[i].id = id ELSE 0

\* The request arrives and looks its item up: _index(), _find(), _routes_using().  404 and 409
\* change nothing and are left out.
Arrive(t) ==
  /\ pc[t] = "idle" /\ edits < MaxEdits
  /\ edits' = edits + 1
  /\ overlapped' = (overlapped \/ \E u \in Threads : pc[u] # "idle")
  /\ \E a \in Ask :
       /\ ask' = [ask EXCEPT ![t] = a]
       /\ IF a.op = "toggle"
          THEN Goto(t, "replace") /\ UNCHANGED index
          ELSE /\ a.op = "drop" => IdOf(a) \in Ids(config[a.sec]) /\ ~InUse(a)
               /\ index' = [index EXCEPT ![t] = IndexOf(config[a.sec], IdOf(a))]
               /\ Goto(t, "dump")
  /\ UNCHANGED <<objects, mem, disk, lock, armed, part, new, todo, acked, unsaved, bounds>>

\* Mutant: what is dropped leaves a hole.
WithHole(list, i) == [list EXCEPT ![i] = NoItem]
Without(list, i) == RemoveAt(list, i)
Edited(list, a, i) ==
  CASE a.op = "drop" -> Without(list, i)
    [] a.op = "put" /\ i = 0 -> Append(list, a.item)
    [] a.op = "put" /\ i > 0 -> [list EXCEPT ![i] = a.item]

\* _dump() reads the list, maybe a newer one than the position was looked up in.
Dump(t) ==
  /\ pc[t] = "dump"
  /\ LET list == config[ask[t].sec]
     IN  IF index[t] <= Len(list)
         THEN /\ part' = [part EXCEPT ![t] = Edited(list, ask[t], index[t])]
              /\ Goto(t, "build") /\ UNCHANGED <<ask, index, new, todo>>
         ELSE Answer(t)   \* IndexError
  /\ UNCHANGED <<objects, mem, disk, lock, armed, history, bounds>>

\* Mutant: the edited list never gets into the document.
OldDocument(t) == config
Document(t) == [config EXCEPT ![ask[t].sec] = part[t]]

\* Mutant: the references between the lists are not looked at.
AcceptsAny(c) == \A s \in Section : Cardinality(Ids(c[s])) = Len(c[s])
Accepts(c) == Valid(c)

\* save_section(): the whole document, with the other list read now, is validated.
Build(t) ==
  /\ pc[t] = "build"
  /\ IF Accepts(Document(t))
     THEN /\ objects' = Append(objects, Document(t))
          /\ new' = [new EXCEPT ![t] = Len(objects')]
          /\ Goto(t, "replace") /\ UNCHANGED <<ask, index, part, todo>>
     ELSE Answer(t) /\ UNCHANGED objects   \* 422
  /\ UNCHANGED <<mem, disk, lock, armed, history, bounds>>

\* ConfigStore.replace() and update(): memory changes first, under the lock.
Replace(t) ==
  /\ pc[t] = "replace" /\ lock = Nobody
  /\ lock' = t
  /\ IF ask[t].op = "toggle"
     THEN /\ objects' = [objects EXCEPT ![mem].enabled = ask[t].enabled]
          /\ new' = [new EXCEPT ![t] = mem] /\ UNCHANGED mem
     ELSE mem' = new[t] /\ UNCHANGED <<objects, new>>
  /\ Goto(t, "write")
  /\ UNCHANGED <<disk, armed, ask, index, part, todo, history, bounds>>

\* Mutant: the text was made before the change.
TextBefore == disk
Text == config

\* Mutant: the file is always overwritten in place.
AlwaysInPlace == TRUE
InPlace == bindMount

\* save_config(): a temporary file renamed over the target, or the target truncated and written.
Saved(t) ==
  /\ disk' = Text /\ lock' = Nobody /\ unsaved' = FALSE
  /\ Goto(t, "list_jobs") /\ UNCHANGED <<ask, index, part, new, todo>>

WriteFile(t) ==
  /\ pc[t] = "write" /\ ~InPlace /\ Saved(t)
  /\ UNCHANGED <<objects, mem, armed, acked, overlapped, edits, bounds>>

Truncate(t) ==
  /\ pc[t] = "write" /\ InPlace
  /\ disk' = Torn /\ Goto(t, "overwrite")
  /\ UNCHANGED <<objects, mem, lock, armed, ask, index, part, new, todo, history, bounds>>

Overwrite(t) ==
  /\ pc[t] = "overwrite" /\ Saved(t)
  /\ UNCHANGED <<objects, mem, armed, acked, overlapped, edits, bounds>>

\* Mutant: the lock is only given back when the file could be written.
KeepLock == lock
Unlocked == Nobody

RouteEdit(a) == a.op # "toggle" /\ a.sec = "routes"
Wish(a) == IF a.op = "put" THEN a.item ELSE NoItem

\* OSError: the request is answered 500, and memory keeps the edit until the next start.
FailWrite(t) ==
  /\ pc[t] \in {"write", "overwrite"} /\ saveFaults < MaxSaveFaults
  /\ saveFaults' = saveFaults + 1
  /\ lock' = Unlocked /\ Answer(t)
  /\ unsaved' = TRUE
  /\ acked' = IF RouteEdit(ask[t])
              THEN [acked EXCEPT ![IdOf(ask[t])] = @ \cup {Wish(ask[t])}] ELSE acked
  /\ UNCHANGED <<objects, mem, disk, armed, overlapped, edits, bindMount, restarts>>

-----------------------------------------------------------------------------
\* Scheduler.rearm(new_config): no lock of its own.

\* Mutant: only the jobs of routes that are still configured are rebuilt.
JobsOfRoutes(t) == {j \in armed : j[1] \in Ids(objects[new[t]].routes)}
JobsToRemove(t) == armed

ListJobs(t) ==
  /\ pc[t] = "list_jobs"
  /\ todo' = [todo EXCEPT ![t] = JobsToRemove(t)] /\ Goto(t, "disarm")
  /\ UNCHANGED <<objects, mem, disk, lock, armed, ask, index, part, new, history, bounds>>

OfRoute(r) == {j \in armed : j[1] = r}

\* remove_job() by id; a job that another request has removed raises, and the rest is left undone.
Disarm(t) ==
  /\ pc[t] = "disarm"
  /\ \/ /\ todo[t] # {}
        /\ \E j \in todo[t] :
             IF OfRoute(j[1]) = {}
             THEN Answer(t) /\ UNCHANGED armed
             ELSE /\ armed' = armed \ OfRoute(j[1])
                  /\ todo' = [todo EXCEPT ![t] = @ \ {j}]
                  /\ UNCHANGED <<pc, ask, index, part, new>>
     \/ /\ todo[t] = {}
        /\ todo' = [todo EXCEPT ![t] = Armable(objects[new[t]])] /\ Goto(t, "arm")
        /\ UNCHANGED <<armed, ask, index, part, new>>
  /\ UNCHANGED <<objects, mem, disk, lock, history, bounds>>

Arm(t) ==
  /\ pc[t] = "arm" /\ todo[t] # {}
  /\ \E j \in todo[t] :
       /\ armed' = (armed \ OfRoute(j[1])) \cup {j}
       /\ todo' = [todo EXCEPT ![t] = @ \ {j}]
  /\ UNCHANGED <<objects, mem, disk, lock, pc, ask, index, part, new, history, bounds>>

\* The request is acknowledged.
Acknowledge(t) ==
  /\ pc[t] = "arm" /\ todo[t] = {}
  /\ Answer(t)
  /\ acked' = IF RouteEdit(ask[t])
              THEN [acked EXCEPT ![IdOf(ask[t])] = {Wish(ask[t])}] ELSE acked
  /\ UNCHANGED <<objects, mem, disk, lock, armed, overlapped, unsaved, edits, bounds>>

Request(t) ==
  \/ Dump(t) \/ Build(t) \/ Replace(t) \/ WriteFile(t) \/ Truncate(t) \/ Overwrite(t)
  \/ FailWrite(t) \/ ListJobs(t) \/ Disarm(t) \/ Arm(t) \/ Acknowledge(t)

\* The process ends and starts again: load_config, then rearm.  An edit in flight may or may not
\* have got to the file; with a file cut off the process does not start.
Restart ==
  /\ restarts < MaxRestarts /\ disk # Torn
  /\ restarts' = restarts + 1
  /\ objects' = <<disk>> /\ mem' = 1 /\ lock' = Nobody /\ armed' = Armable(disk)
  /\ pc' = [t \in Threads |-> "idle"] /\ index' = [t \in Threads |-> 0]
  /\ part' = [t \in Threads |-> <<>>] /\ new' = [t \in Threads |-> 1]
  /\ todo' = [t \in Threads |-> {}]
  /\ acked' = [r \in Routes |-> acked[r] \cup
                 {Wish(ask[t]) : t \in {u \in Threads :
                    pc[u] # "idle" /\ RouteEdit(ask[u]) /\ IdOf(ask[u]) = r}}]
  /\ unsaved' = FALSE
  /\ UNCHANGED <<disk, ask, overlapped, edits, bindMount, saveFaults>>

Next == (\E t \in Threads : Arrive(t) \/ Request(t)) \/ Restart

Spec == Init /\ [][Next]_vars

\* Every request has a thread of the server's pool, and goes on until it is answered.
FairSpec == Spec /\ \A t \in Threads : WF_vars(Request(t))

-----------------------------------------------------------------------------
Quiet == \A t \in Threads : pc[t] = "idle"

\* "An invalid combination" is "impossible to persist rather than merely unlikely": whatever
\* requests overlap, no route in memory or on disk names a device that is gone; and "a crash
\* mid-write can't truncate the live config" where the file can be renamed over.
ConfigIsValid ==
  /\ Valid(config) /\ (disk # Torn => Valid(disk))
  /\ ~bindMount => disk # Torn

\* After edits one at a time memory is "a single source of truth that stays in sync with
\* config.yaml" and nothing is "left armed behind it" -- also when a write has failed, once a
\* later one has succeeded.
InStep == Quiet /\ ~overlapped /\ ~unsaved => disk = config /\ armed = Armable(config)

\* The same of the jobs alone, of any edits.  Not so after two at a time.
ArmedIsConfigured == Quiet => armed = Armable(config)

\* After edits one at a time every route is what its answered edits say, after a restart too: as
\* the last acknowledged one left it, or as one that was answered 500, or cut off, since then.
AckedEditStays == Quiet /\ ~overlapped => \A r \in Routes : ItemOf(config.routes, r) \in acked[r]

\* A request that is alone changes the item it names and no other.  Not so of two at a time, when
\* the list has become shorter between the lookup of the position and the edit.
OnlyTheNamedItemChanges ==
  [][\A t \in Threads : pc[t] = "dump" /\ pc'[t] = "build" /\ ~overlapped =>
       LET list == config[ask[t].sec]
       IN  \A id \in (Ids(list) \cup Ids(part'[t])) \ {IdOf(ask[t])} :
             ItemOf(part'[t], id) = ItemOf(list, id)]_vars

\* Every request is answered.
EveryEditIsAnswered == \A t \in Threads : pc[t] # "idle" ~> pc[t] = "idle"
=============================================================================
