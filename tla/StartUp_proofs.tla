----------------------------- MODULE StartUp_proofs -----------------------------
(***************************************************************************)
(* The safety properties of what a start of the process tells the user: the *)
(* missed-run check for any schedules, interval and retention (MissedRun),  *)
(* the messages about a run for any machines and channels (Notify).         *)
(***************************************************************************)
EXTENDS StartUp, SequenceTheorems, WellFoundedInduction, TLAPS

-----------------------------------------------------------------------------
(***************************************************************************)
(* The missed-run check.                                                   *)
(***************************************************************************)
Entry == [route : RouteId, fire : Nat]

\* What TypeOK leaves open: the row, the queue and the fires served.
RowsOK ==
  /\ row \in [route : {{}} \union {{r} : r \in RouteId}, start : Never .. Horizon]
  /\ queue \subseteq Entry /\ served \subseteq Entry

\* The check of a process that is up has its routes armed as configured; one whose clock is
\* read at once finds the stamp that was there at the start.
CheckInv ==
  /\ pc = "up" => armed = config
  /\ pc # "up" => \A r \in RouteId : armed[r] = {}
  /\ pc = "up" /\ chkNow = Never /\ ~LateClock => hb = lastSeen
  /\ pc = "up" /\ chkNow # Never => chkNow >= bootAt
  /\ bootAt <= now

\* The stamp is never from the future, nor from after the process stopped firing.
StampInv ==
  /\ hb <= now /\ died <= now
  /\ pc # "up" => hb <= died
  /\ pc = "up" /\ ~LateClock => lastSeen <= died

\* With a clock read at once and a stamp that is always written: what the process was up for is
\* stamped, and the stamp it found covers what earlier ones were up for.
LivedInv ==
  /\ pc = "up" => chkNow \in {Never, bootAt} /\ (chkNow = Never => now = bootAt)
  /\ \A t \in lived : t <= hb
  /\ pc = "up" => \A t \in lived : t <= lastSeen \/ t > bootAt
  /\ pc = "up" /\ now - bootAt >= Interval => hb >= now - ((now - bootAt) % Interval)

\* A fire whose run was started is older than the start of that run, and that of a run from
\* before this process is on record, unless the record was pruned.
ServedInv ==
  /\ pc # "down" /\ ~running => row.route = {}
  /\ \A e \in queue : e.fire <= now /\ (e.fire = Manual \/ e.fire > bootAt)
  /\ pc = "down" => queue = {} /\ ~running
  /\ \A e \in served :
       /\ e.fire <= now
       /\ row.route = {e.route} => row.start >= e.fire
       /\ \/ anchor[e.route] = Never \/ anchor[e.route] >= e.fire \/ row.route = {e.route}
       /\ pc # "down" =>
            anchor[e.route] = Never \/ anchor[e.route] >= e.fire \/ e.fire > bootAt

MissedInv == TypeOK /\ RowsOK /\ CheckInv /\ StampInv /\ ServedInv

\* What needs a clock read at once and a stamp that is always written.
AlarmInv == LivedInv /\ NoFalseAlarm

LEMMA BoundsAreNumbers ==
  /\ Interval \in Nat \ {0} /\ Retention \in Nat /\ Horizon \in Nat /\ MaxActs \in Nat
  /\ MaxBoots \in Nat /\ Never = -1 /\ Manual = 0
BY MissedAssumption DEF Never, Manual

LEMMA EnqueuedIsEntry ==
  ASSUME NEW r \in RouteId, NEW f \in Nat
  PROVE  Enqueued(r, f) \subseteq Entry /\ \A e \in Enqueued(r, f) : e.route = r /\ e.fire = f
BY DEF Enqueued, Entry

LEMMA MissedInit == Init \/ MissedRest => MissedInv /\ AlarmInv
<1> SUFFICES ASSUME Init \/ MissedRest
             PROVE  MissedInv /\ AlarmInv
  OBVIOUS
<1>1. /\ now = 0 /\ pc = "down" /\ bootAt = 0 /\ boots = 0
      /\ config \in [RouteId -> Schedule \union {NoFires}]
      /\ armed = [r \in RouteId |-> NoFires]
      /\ hb \in {Never, 0} /\ anchor \in [RouteId -> {Never, 0}]
      /\ row = NoRow /\ running = FALSE /\ queue = {}
      /\ lastSeen = Never /\ chkNow = Never /\ chkTodo = {} /\ reports = {}
      /\ acts = 0 /\ died = 0 /\ lived = {} /\ served = {}
  BY DEF Init, MissedRest
<1>2. running \in BOOLEAN
  BY <1>1, Zenon
<1>3. {0} \subseteq 0 .. Horizon /\ {Never, 0} \subseteq Never .. Horizon
  BY BoundsAreNumbers
<1>4. TypeOK
  <2>1. anchor \in [RouteId -> Never .. Horizon]
    BY <1>1, <1>3
  <2>2. armed \in [RouteId -> Schedule \union {NoFires}]
    BY <1>1
  <2> QED BY <1>1, <1>2, <1>3, <2>1, <2>2, BoundsAreNumbers DEF TypeOK
<1>5. RowsOK
  BY <1>1, <1>3 DEF RowsOK, NoRow
<1>6. CheckInv /\ StampInv
  BY <1>1, BoundsAreNumbers DEF CheckInv, StampInv, NoFires
<1>7. ServedInv
  BY <1>1 DEF ServedInv
<1>8. AlarmInv
  BY <1>1 DEF AlarmInv, LivedInv, NoFalseAlarm
<1> QED BY <1>4, <1>5, <1>6, <1>7, <1>8 DEF MissedInv

-----------------------------------------------------------------------------
\* Time goes on.
LEMMA TickStep == ASSUME MissedInv, Tick PROVE MissedInv'
<1> USE BoundsAreNumbers DEF MissedInv, schedVars, runVars, checkVars, histVars
<1>1. /\ now < Horizon /\ now' = now + 1 /\ now \in Nat /\ now' \in 0 .. Horizon
      /\ UNCHANGED <<pc, boots, bootAt, config, armed, acts, anchor, row, running, served,
                     lastSeen, chkNow, chkTodo, reports, died>>
  BY DEF Tick, TypeOK
<1>2. /\ pc = "up" => hb' \in {hb, now + 1} /\ lived' \subseteq lived \union {now + 1 - Interval}
                      /\ \A t \in lived' \ lived : t > bootAt
      /\ pc # "up" => UNCHANGED <<queue, hb, lived>>
  BY DEF Tick, Touched
<1>3. queue' \subseteq Entry
      /\ \A e \in queue' : e \in queue \/ (e.fire = now + 1 /\ pc = "up")
  <2>1. ASSUME NEW e \in queue', pc = "up"
        PROVE  e \in queue \/ (e \in Entry /\ e.fire = now + 1)
    <3>1. e \in queue \/ \E r \in RouteId : e \in Enqueued(r, now + 1)
      BY <2>1 DEF Tick, Due
    <3> QED BY <1>1, <3>1, EnqueuedIsEntry
  <2> QED BY <1>2, <2>1 DEF RowsOK
<1>4. TypeOK'
  <2>1. hb' \in Never .. Horizon
    BY <1>1, <1>2 DEF TypeOK
  <2>2. lived' \subseteq 0 .. Horizon
    <3>1. SUFFICES ASSUME NEW t \in lived', t \notin lived
                   PROVE  t \in 0 .. Horizon
      BY DEF TypeOK
    <3>2. t = now + 1 - Interval /\ t > bootAt /\ bootAt \in 0 .. Horizon
      BY <1>2, <3>1 DEF TypeOK
    <3> QED BY <1>1, <3>2
  <2> QED BY <1>1, <2>1, <2>2 DEF TypeOK
<1>5. RowsOK'
  BY <1>1, <1>3 DEF RowsOK
<1>6. CheckInv'
  BY <1>1, <1>2, <1>3 DEF CheckInv, TypeOK, Tick, CheckHasItsClock
<1>7. StampInv'
  BY <1>1, <1>2 DEF StampInv, TypeOK
<1>8. ServedInv'
  BY <1>1, <1>2, <1>3 DEF ServedInv, CheckInv, TypeOK, RowsOK, Entry
<1> QED BY <1>4, <1>5, <1>6, <1>7, <1>8

\* The lifespan: the process is armed, stopped, and gone.
LEMMA ProcessStep == ASSUME MissedInv, Boot \/ Stop \/ Down PROVE MissedInv'
<1> USE BoundsAreNumbers DEF MissedInv, schedVars, runVars, checkVars, histVars
<1>1. CASE Boot
  <2>1. anchor' \in [RouteId -> Never .. Horizon]
    BY <1>1 DEF Boot, Swept, TypeOK, RowsOK
  <2>2. TypeOK'
    BY <1>1, <2>1 DEF Boot, TypeOK
  <2>3. RowsOK'
    BY <1>1 DEF Boot, RowsOK, NoRow
  <2>4. CheckInv' /\ StampInv'
    BY <1>1 DEF Boot, CheckInv, StampInv, TypeOK
  <2>5. ServedInv'
    <3>1. row'.route = {} /\ queue' = {} /\ served' = served /\ pc' = "up" /\ now' = now
          /\ ~running'
      BY <1>1 DEF Boot, ServedInv, NoRow
    <3>2. ASSUME NEW e \in served
          PROVE  /\ e.fire <= now
                 /\ anchor'[e.route] = Never \/ anchor'[e.route] >= e.fire
      <4>1. e.route \in RouteId
        BY DEF RowsOK, Entry
      <4>2. anchor'[e.route] = IF row.route = {e.route} THEN row.start ELSE anchor[e.route]
        BY <1>1, <4>1 DEF Boot, Swept
      <4> QED BY <4>2 DEF ServedInv
    <3> QED BY <3>1, <3>2 DEF ServedInv
  <2> QED BY <2>2, <2>3, <2>4, <2>5
<1>2. CASE Stop
  <2>1. TypeOK'
    BY <1>2 DEF Stop, TypeOK, Touched
  <2>2. RowsOK'
    BY <1>2 DEF Stop, RowsOK
  <2>3. CheckInv' /\ StampInv'
    BY <1>2 DEF Stop, CheckInv, StampInv, TypeOK, Touched, NoFires
  <2>4. ServedInv'
    BY <1>2 DEF Stop, ServedInv
  <2> QED BY <2>1, <2>2, <2>3, <2>4
<1>3. CASE Down
  <2>0. running' \in BOOLEAN
    BY <1>3, Zenon DEF Down
  <2>1. TypeOK'
    BY <1>3, <2>0 DEF Down, TypeOK
  <2>2. RowsOK'
    BY <1>3 DEF Down, RowsOK
  <2>3. CheckInv' /\ StampInv'
    BY <1>3 DEF Down, CheckInv, StampInv, TypeOK, NoFires
  <2>4. ServedInv'
    BY <1>3 DEF Down, ServedInv
  <2> QED BY <2>1, <2>2, <2>3, <2>4
<1> QED BY <1>1, <1>2, <1>3

\* The check and the user's edits.
LEMMA CheckStep ==
  ASSUME MissedInv,
         \/ StartCheck
         \/ \E r \in RouteId : CheckRoute(r) \/ \E s \in Schedule \union {NoFires} : Edit(r, s)
  PROVE  MissedInv'
<1> USE BoundsAreNumbers DEF MissedInv, schedVars, runVars, checkVars, histVars
<1>1. CASE StartCheck
  <2>1. TypeOK'
    BY <1>1 DEF StartCheck, TypeOK
  <2>2. RowsOK' /\ ServedInv'
    BY <1>1 DEF StartCheck, RowsOK, ServedInv
  <2>3. CheckInv' /\ StampInv'
    BY <1>1 DEF StartCheck, CheckInv, StampInv, TypeOK
  <2> QED BY <2>1, <2>2, <2>3
<1>2. ASSUME NEW r \in RouteId, CheckRoute(r)
      PROVE  MissedInv'
  BY <1>2 DEF CheckRoute, TypeOK, RowsOK, CheckInv, StampInv, ServedInv
<1>3. ASSUME NEW r \in RouteId, NEW s \in Schedule \union {NoFires}, Edit(r, s)
      PROVE  MissedInv'
  <2>1. TypeOK'
    BY <1>3 DEF Edit, TypeOK
  <2>2. RowsOK' /\ ServedInv'
    BY <1>3 DEF Edit, RowsOK, ServedInv
  <2>3. CheckInv' /\ StampInv'
    BY <1>3 DEF Edit, CheckInv, StampInv
  <2> QED BY <2>1, <2>2, <2>3
<1> QED BY <1>1, <1>2, <1>3

\* The worker, a run by hand, and the prune of the history.
LEMMA WorkerStep ==
  ASSUME MissedInv, StartRun \/ EndRun \/ Prune \/ \E r \in RouteId : RunNow(r)
  PROVE  MissedInv'
<1> USE BoundsAreNumbers DEF MissedInv, schedVars, runVars, checkVars, histVars
<1>1. CASE StartRun
  <2>1. PICK e \in queue : /\ queue' = queue \ {e}
                           /\ row' = [route |-> {e.route}, start |-> now]
                           /\ served' = served \union ({e} \ {[route |-> e.route, fire |-> Manual]})
    BY <1>1 DEF StartRun
  <2>2. /\ pc # "down" /\ ~running /\ running' = TRUE
        /\ UNCHANGED <<now, pc, boots, bootAt, config, armed, acts, hb, anchor, lastSeen,
                       chkNow, chkTodo, reports, died, lived>>
    BY <1>1 DEF StartRun
  <2>3. e \in Entry /\ e.fire <= now /\ e = [route |-> e.route, fire |-> e.fire]
        /\ (e.fire = Manual \/ e.fire > bootAt) /\ now \in 0 .. Horizon
    BY DEF RowsOK, ServedInv, Entry, TypeOK
  <2>4. running' \in BOOLEAN
    BY <2>2, Zenon
  <2>5. TypeOK'
    BY <2>2, <2>4 DEF TypeOK
  <2>6. RowsOK'
    <3>1. row' \in [route : {{}} \union {{r} : r \in RouteId}, start : Never .. Horizon]
      BY <2>1, <2>3 DEF Entry
    <3> QED BY <2>1, <2>3, <3>1 DEF RowsOK
  <2>7. CheckInv' /\ StampInv'
    BY <2>2 DEF CheckInv, StampInv
  <2>8. ServedInv'
    <3>1. \A x \in served' : x \in served \/ (x = e /\ e.fire > bootAt)
      BY <2>1, <2>3
    <3>2. row'.route = {e.route} /\ row'.start = now /\ row.route = {}
      BY <2>1, <2>2 DEF ServedInv
    <3>3. \A x \in served' : x.fire <= now
      BY <2>3, <3>1 DEF ServedInv
    <3>4. \A x \in served : anchor[x.route] = Never \/ anchor[x.route] >= x.fire
      BY <3>2 DEF ServedInv
    <3> QED BY <2>1, <2>2, <3>1, <3>2, <3>3, <3>4 DEF ServedInv
  <2> QED BY <2>5, <2>6, <2>7, <2>8
<1>2. CASE EndRun
  <2>1. /\ pc # "down" /\ running' = FALSE /\ row' = NoRow
        /\ UNCHANGED <<now, pc, boots, bootAt, config, armed, acts, hb, queue, served,
                       lastSeen, chkNow, chkTodo, reports, died, lived>>
    BY <1>2 DEF EndRun
  <2>2. anchor' = [r \in RouteId |-> IF row.route = {r} THEN row.start ELSE anchor[r]]
    BY <1>2 DEF EndRun
  <2>3. anchor' \in [RouteId -> Never .. Horizon]
    BY <2>2 DEF TypeOK, RowsOK
  <2>4. running' \in BOOLEAN
    BY <2>1, Zenon
  <2>5. TypeOK'
    BY <2>1, <2>3, <2>4 DEF TypeOK
  <2>6. RowsOK'
    BY <2>1 DEF RowsOK, NoRow
  <2>7. CheckInv' /\ StampInv'
    BY <2>1 DEF CheckInv, StampInv
  <2>8. ServedInv'
    <3>1. ASSUME NEW e \in served
          PROVE  anchor'[e.route] = Never \/ anchor'[e.route] >= e.fire
      <4>1. e.route \in RouteId
        BY DEF RowsOK, Entry
      <4>2. anchor'[e.route] = IF row.route = {e.route} THEN row.start ELSE anchor[e.route]
        BY <2>2, <4>1
      <4> QED BY <4>2 DEF ServedInv
    <3>2. row'.route = {}
      BY <2>1 DEF NoRow
    <3> QED BY <2>1, <3>1, <3>2 DEF ServedInv
  <2> QED BY <2>5, <2>6, <2>7, <2>8
<1>3. CASE Prune
  <2>1. /\ \A r \in RouteId : anchor'[r] \in {Never, anchor[r]}
        /\ anchor' \in [RouteId -> Never .. Horizon]
        /\ UNCHANGED <<now, pc, boots, bootAt, config, armed, acts, hb, row, running, queue,
                       served, lastSeen, chkNow, chkTodo, reports, died, lived>>
    BY <1>3 DEF Prune, TypeOK
  <2>2. TypeOK'
    BY <2>1 DEF TypeOK
  <2>3. RowsOK' /\ CheckInv' /\ StampInv'
    BY <2>1 DEF RowsOK, CheckInv, StampInv
  <2>4. ServedInv'
    BY <2>1 DEF ServedInv, RowsOK, Entry
  <2> QED BY <2>2, <2>3, <2>4
<1>4. ASSUME NEW r \in RouteId, RunNow(r)
      PROVE  MissedInv'
  <2>1. /\ pc = "up" /\ queue' = queue \union Enqueued(r, Manual) /\ acts' = acts + 1
        /\ acts < MaxActs
        /\ UNCHANGED <<now, pc, boots, bootAt, config, armed, hb, anchor, row, running,
                       served, lastSeen, chkNow, chkTodo, reports, died, lived>>
    BY <1>4 DEF RunNow
  <2>2. Enqueued(r, Manual) \subseteq Entry /\ \A e \in Enqueued(r, Manual) : e.fire = Manual
    BY EnqueuedIsEntry
  <2>3. TypeOK'
    BY <2>1 DEF TypeOK
  <2>4. RowsOK' /\ CheckInv' /\ StampInv'
    BY <2>1, <2>2 DEF RowsOK, CheckInv, StampInv
  <2>5. ServedInv'
    BY <2>1, <2>2 DEF ServedInv, TypeOK
  <2> QED BY <2>3, <2>4, <2>5
<1> QED BY <1>1, <1>2, <1>3, <1>4

LEMMA MissedStep == MissedInv /\ [Next]_vars => MissedInv'
<1>1. ASSUME MissedInv, UNCHANGED vars
      PROVE  MissedInv'
  BY <1>1 DEF vars, MissedInv, TypeOK, RowsOK, CheckInv, StampInv, ServedInv
<1> QED BY <1>1, TickStep, ProcessStep, CheckStep, WorkerStep DEF Next

-----------------------------------------------------------------------------
\* Every set of instants has a first one.
LEMMA FirstInstant ==
  ASSUME NEW S, S \subseteq Nat, S # {}
  PROVE  Min(S) \in S /\ \A f \in S : Min(S) <= f
<1> DEFINE R == {p \in Nat \X Nat : p[1] < p[2]}
<1>1. IsWellFoundedOn(R, Nat)
  <2>1. OpToRel(<, Nat) = R
    BY DEF OpToRel
  <2> QED BY <2>1, NatLessThanWellFounded
<1>2. PICK m \in S : \A f \in S : ~(<<f, m>> \in R)
  <2> HIDE DEF R
  <2> QED BY <1>1, WFMin, Zenon
<1>3. \A f \in S : m <= f
  <2>1. TAKE f \in S
  <2>2. f \in Nat /\ m \in Nat /\ <<f, m>> \notin R
    BY <1>2
  <2> QED BY <2>2
<1> QED BY <1>3 DEF Min

\* What the check looks for in a route's fires, and finds.
LEMMA FirstMissed ==
  ASSUME TypeOK, NEW r \in RouteId
  PROVE  /\ \A f \in MissedFires(r) : f \in armed[r] /\ f > WindowOpens(r) /\ f <= chkNow
         /\ \A f \in armed[r] : f > WindowOpens(r) /\ f <= chkNow => MissedFires(r) # {}
<1> DEFINE after == {f \in armed[r] : f > WindowOpens(r)}
<1>1. after \subseteq Nat
  BY MissedAssumption DEF TypeOK, NoFires
<1>2. after # {} => Min(after) \in after /\ \A f \in after : Min(after) <= f
  <2> HIDE DEF after
  <2> QED BY <1>1, FirstInstant
<1>3. chkNow \in Int
  BY BoundsAreNumbers DEF TypeOK
<1>4. MissedFires(r) = IF after # {} /\ Min(after) <= chkNow THEN {Min(after)} ELSE {}
  BY DEF MissedFires
<1>5. ASSUME NEW f \in armed[r], f > WindowOpens(r), f <= chkNow
      PROVE  MissedFires(r) # {}
  <2>1. f \in after
    BY <1>5
  <2>2. Min(after) <= f /\ Min(after) \in Nat /\ f \in Nat
    BY <1>1, <1>2, <2>1
  <2> QED BY <1>3, <1>4, <1>5, <2>1, <2>2
<1>6. \A f \in MissedFires(r) : f \in after /\ f <= chkNow
  BY <1>2, <1>4
<1> QED BY <1>5, <1>6

\* The stamps come at multiples of the interval.
LEMMA QuotientAndRest ==
  ASSUME NEW m \in Nat, NEW i \in Nat \ {0}
  PROVE  m = i * (m \div i) + (m % i) /\ m % i \in 0 .. i - 1 /\ m \div i \in Int
<1>1. m = i * (m \div i) + (m % i)
  BY SMT
<1>2. m % i \in 0 .. i - 1
  BY SMT
<1> QED BY <1>1, <1>2

LEMMA RestIsUnique ==
  ASSUME NEW m \in Int, NEW i \in Int, i > 0, NEW q \in Int, NEW r \in Int, m = i * q + r, 0 <= r,
         r < i
  PROVE  m % i = r
BY SMT

LEMMA NextRest ==
  ASSUME NEW m \in Nat, NEW i \in Nat \ {0}, (m + 1) % i # 0
  PROVE  (m + 1) % i = (m % i) + 1
<1> DEFINE q == m \div i
           r == m % i
<1>1. m = i * q + r /\ r \in 0 .. i - 1 /\ q \in Int
  BY QuotientAndRest
<1> HIDE DEF q, r
<1>2. CASE r + 1 < i
  <2>1. (m + 1) % i = r + 1
    BY <1>1, <1>2, RestIsUnique, m + 1 = i * q + (r + 1)
  <2> QED BY <2>1 DEF r
<1>3. CASE r + 1 = i
  <2>1. m + 1 = i * (q + 1) + 0
    BY <1>1, <1>3
  <2>2. (m + 1) % i = 0
    BY <1>1, <2>1, RestIsUnique
  <2> QED BY <2>2
<1> QED BY <1>1, <1>2, <1>3

LEMMA WholeRest == ASSUME NEW i \in Nat \ {0} PROVE i % i = 0
BY SMT

\* As long as every stamp is written, what the process was up for is covered by a stamp.
LEMMA AlarmStep ==
  ASSUME ~LateClock, ~TouchFails, MissedInv, AlarmInv, [Next]_vars
  PROVE  AlarmInv'
<1> USE BoundsAreNumbers
        DEF MissedInv, AlarmInv, schedVars, runVars, checkVars, histVars
<1>1. CASE Tick
  <2>1. /\ now' = now + 1 /\ now \in Nat /\ bootAt \in Nat /\ bootAt <= now /\ hb \in Int
        /\ UNCHANGED <<pc, bootAt, lastSeen, chkNow, reports>>
    BY <1>1 DEF Tick, TypeOK, CheckInv
  <2>2. CASE pc # "up"
    BY <1>1, <2>1, <2>2 DEF Tick, LivedInv, NoFalseAlarm
  <2>3. CASE pc = "up"
    <3> DEFINE m == now - bootAt
    <3>1. /\ chkNow = bootAt /\ m \in Nat
          /\ hb' = IF (m + 1) % Interval = 0 THEN now + 1 ELSE hb
          /\ lived' = lived \union {t \in {now + 1 - Interval} : t > bootAt}
      BY <1>1, <2>1, <2>3 DEF Tick, CheckHasItsClock, LivedInv, Touched
    <3>2. /\ m % Interval \in 0 .. Interval - 1
          /\ (m + 1) % Interval \in 0 .. Interval - 1
          /\ (m + 1) % Interval # 0 => (m + 1) % Interval = (m % Interval) + 1
          /\ Interval % Interval = 0
      <4>0. Interval \in Nat \ {0} /\ m + 1 \in Nat
        BY <3>1
      <4> HIDE DEF m
      <4>1. m % Interval \in 0 .. Interval - 1
        BY <3>1, <4>0, QuotientAndRest
      <4>2. (m + 1) % Interval \in 0 .. Interval - 1
        BY <4>0, QuotientAndRest
      <4>3. (m + 1) % Interval # 0 => (m + 1) % Interval = (m % Interval) + 1
        BY <3>1, <4>0, NextRest
      <4>4. Interval % Interval = 0
        BY <4>0, WholeRest
      <4> QED BY <4>1, <4>2, <4>3, <4>4
    <3>3. m + 1 >= Interval => hb' >= now + 1 - ((m + 1) % Interval)
      <4>1. CASE (m + 1) % Interval = 0
        BY <2>1, <3>1, <4>1
      <4>2. CASE (m + 1) % Interval # 0 /\ m >= Interval
        <5>1. hb >= now - (m % Interval)
          BY <2>3, <4>2 DEF LivedInv
        <5> QED BY <2>1, <3>1, <3>2, <4>2, <5>1
      <4>3. CASE (m + 1) % Interval # 0 /\ ~(m >= Interval)
        <5>1. m + 1 >= Interval => m + 1 = Interval
          BY <3>1, <4>3
        <5> QED BY <3>2, <4>3, <5>1
      <4> QED BY <4>1, <4>2, <4>3
    <3>4. hb' >= hb
      BY <2>1, <3>1 DEF StampInv
    <3>5. \A t \in lived' : t <= hb'
      <4>1. SUFFICES ASSUME NEW t \in lived' PROVE t <= hb'
        OBVIOUS
      <4>2. t \in lived \/ (t = now + 1 - Interval /\ t > bootAt)
        BY <3>1
      <4>3. CASE t \in lived
        <5>1. t <= hb /\ t \in Int /\ hb' \in Int
          BY <2>1, <3>1, <4>3 DEF LivedInv, TypeOK
        <5> QED BY <2>1, <3>4, <5>1
      <4>4. CASE t = now + 1 - Interval /\ t > bootAt
        <5>1. m + 1 >= Interval
          BY <2>1, <4>4
        <5> HIDE DEF m
        <5>2. hb' \in Int
          BY <2>1, <3>1
        <5> QED BY <2>1, <3>2, <3>3, <4>4, <5>1, <5>2
      <4> QED BY <4>2, <4>3, <4>4
    <3>6. \A t \in lived' : t <= lastSeen \/ t > bootAt
      BY <2>3, <3>1 DEF LivedInv
    <3>7. now' - bootAt' = m + 1
      BY <2>1
    <3>8. LivedInv'
      <4> HIDE DEF m
      <4> QED BY <2>1, <2>3, <3>1, <3>3, <3>5, <3>6, <3>7 DEF LivedInv
    <3> QED BY <2>1, <3>8 DEF NoFalseAlarm
  <2> QED BY <2>2, <2>3
<1>2. CASE Boot
  BY <1>2 DEF Boot, LivedInv, NoFalseAlarm, TypeOK
<1>3. CASE StartCheck
  BY <1>3 DEF StartCheck, LivedInv, NoFalseAlarm, CheckInv
<1>4. ASSUME NEW r \in RouteId, CheckRoute(r)
      PROVE  AlarmInv'
  <2>1. /\ UNCHANGED <<now, pc, bootAt, hb, lastSeen, chkNow, lived, served>> /\ chkNow # Never
        /\ reports' = reports \union
             {Report(r, f) : f \in IF anchor[r] = Never THEN {} ELSE MissedFires(r)}
    BY <1>4 DEF CheckRoute
  <2>2. ASSUME anchor[r] # Never, NEW f \in MissedFires(r)
        PROVE  f \notin lived /\ [route |-> r, fire |-> f] \notin served
    <3>1. f \in armed[r] /\ f > WindowOpens(r) /\ f <= chkNow
      BY <2>2, FirstMissed
    <3>2. pc = "up" /\ chkNow = bootAt
      BY <2>1, <3>1 DEF CheckInv, LivedInv
    <3>3. f \in Nat /\ lastSeen \in Int /\ anchor[r] \in Int /\ bootAt \in Nat
      <4>1. armed[r] \in Schedule \union {NoFires}
        BY DEF TypeOK
      <4>2. f \in Nat
        BY <3>1, <4>1, MissedAssumption DEF NoFires
      <4> QED BY <4>2 DEF TypeOK
    <3>4. f > lastSeen /\ f > anchor[r] /\ f <= bootAt
      BY <3>1, <3>2, <3>3 DEF WindowOpens, Seen
    <3>5. f \notin lived
      BY <3>2, <3>3, <3>4 DEF LivedInv
    <3>6. [route |-> r, fire |-> f] \notin served
      <4> DEFINE e == [route |-> r, fire |-> f]
      <4>1. e.route = r /\ e.fire = f
        OBVIOUS
      <4>2. ASSUME e \in served
            PROVE  anchor[r] = Never \/ anchor[r] >= f \/ f > bootAt
        BY <3>2, <4>1, <4>2 DEF ServedInv
      <4> QED BY <2>2, <3>3, <3>4, <4>2
    <3> QED BY <3>5, <3>6
  <2>3. NoFalseAlarm'
    <3>1. SUFFICES ASSUME NEW rep \in reports'
                   PROVE  ~rep.lived /\ ~rep.served
      BY DEF NoFalseAlarm
    <3>2. CASE rep \in reports
      BY <3>2 DEF NoFalseAlarm
    <3>3. CASE rep \notin reports
      <4>1. PICK f \in MissedFires(r) : anchor[r] # Never /\ rep = Report(r, f)
        BY <2>1, <3>3
      <4> QED BY <2>2, <4>1 DEF Report
    <3> QED BY <3>2, <3>3
  <2> QED BY <2>1, <2>3 DEF LivedInv
<1>5. CASE StartRun \/ EndRun \/ Prune \/ Down
  BY <1>5 DEF StartRun, EndRun, Prune, Down, LivedInv, NoFalseAlarm
<1>6. CASE Stop
  <2>1. pc' = "stopping" /\ hb' = now /\ UNCHANGED <<lived, reports>>
    BY <1>6 DEF Stop, Touched
  <2>2. \A t \in lived : t \in Int /\ t <= hb /\ hb \in Int /\ hb <= now /\ now \in Int
    BY DEF LivedInv, TypeOK, StampInv
  <2> QED BY <2>1, <2>2 DEF LivedInv, NoFalseAlarm
<1>7. ASSUME NEW r \in RouteId,
             RunNow(r) \/ \E s \in Schedule \union {NoFires} : Edit(r, s)
      PROVE  AlarmInv'
  BY <1>7 DEF RunNow, Edit, LivedInv, NoFalseAlarm
<1>8. CASE UNCHANGED vars
  BY <1>8 DEF vars, LivedInv, NoFalseAlarm
<1> QED BY <1>1, <1>2, <1>3, <1>4, <1>5, <1>6, <1>7, <1>8 DEF Next

\* The check leaves no route out that was missed.
LEMMA ReportStep ==
  ASSUME ~LateClock, MissedInv, [Next]_vars, NEW r \in chkTodo, r \notin chkTodo',
         pc = "up", pc' = "up", lastSeen # Never, anchor[r] \in 0 .. died,
         NEW f \in config[r], died < f, f <= bootAt
  PROVE  \E rep \in reports' : rep.route = r
<1> USE BoundsAreNumbers
        DEF MissedInv, schedVars, runVars, checkVars, histVars
<1>1. r \in RouteId /\ armed[r] = config[r] /\ f \in armed[r] /\ armed[r] # {}
  BY DEF TypeOK, CheckInv
<1>2. CASE StartCheck
  <2>1. chkTodo' = {q \in RouteId : armed[q] # NoFires}
    BY <1>2 DEF StartCheck
  <2> QED BY <1>1, <2>1 DEF NoFires
<1>3. CASE CheckRoute(r)
  <2>1. /\ chkNow # Never /\ anchor[r] # Never
        /\ reports' = reports \union {Report(r, g) : g \in MissedFires(r)}
    BY <1>3 DEF CheckRoute
  <2>2. f \in Nat
    <3>1. armed[r] \in Schedule \union {NoFires}
      BY <1>1 DEF TypeOK
    <3> QED BY <1>1, <3>1, MissedAssumption DEF NoFires
  <2>3. f > WindowOpens(r) /\ f <= chkNow
    <3>1. /\ lastSeen <= died /\ anchor[r] <= died /\ bootAt <= chkNow
          /\ {lastSeen, anchor[r], died, bootAt, chkNow} \subseteq Int
      BY <1>1, <2>1 DEF StampInv, CheckInv, TypeOK
    <3> QED BY <2>2, <3>1 DEF WindowOpens, Seen
  <2>4. PICK g \in MissedFires(r) : TRUE
    BY <1>1, <2>3, FirstMissed
  <2>5. Report(r, g) \in reports' /\ Report(r, g).route = r
    BY <2>1 DEF Report
  <2> QED BY <2>5
<1> QED
  BY <1>2, <1>3
  DEF Next, Tick, Boot, CheckRoute, StartRun, EndRun, Prune, Stop, Down, RunNow, Edit, vars

-----------------------------------------------------------------------------
(***************************************************************************)
(* Deliveries.                                                             *)
(***************************************************************************)
Warning == Sender \X Nat \X Nat
Texts == [kind : {"none", "test", "result", "interrupted"}, left : BOOLEAN]
Results == {<<>>, <<"ok">>} \union
           {<<"failed", e>> : e \in {"invalid URL", "raised", "dns hint", NoReason} \union Warning}
Dispatches ==
  [pc : {"idle", "skipped", "add", "notify", "next", "sent"}, k : Nat, text : Texts,
   captured : Seq(Warning), last : Results]
Fates == [ended : {"no", "ok", "refused", "raised", "invalid URL"}, warned : Nat]

SendTypeOK == send \in [Sender -> Dispatches] /\ fate \in [Sender -> Fates]

\* What a thread has captured ends with the last warning of its own plugin for the channel at
\* hand, and holds nothing before the plugin has logged one.
CaptureInv ==
  \A s \in Sender : send[s].pc \in {"add", "notify"} =>
    /\ fate[s].ended = "no"
    /\ IF fate[s].warned = 0 THEN send[s].captured = <<>>
       ELSE /\ send[s].captured # <<>>
            /\ Last(send[s].captured) = <<s, send[s].k, fate[s].warned>>
    /\ send[s].pc = "add" => fate[s].warned = 0

\* A thread listens only while its plugin sends, and one that has sent nothing yet has had no
\* answer.
IdleInv ==
  \A s \in Sender : /\ send[s].pc # "notify" => send[s].captured = <<>>
                    /\ send[s].pc = "idle" => fate[s] = Untouched

DeliveryInv == SendTypeOK /\ CaptureInv /\ IdleInv /\ EachChannelOnItsOwn

LEMMA IdleIsDispatch ==
  /\ NoText \in Texts /\ Idle \in Dispatches /\ Untouched \in Fates
  /\ \A text \in Texts : Dispatched(text) \in Dispatches /\ Skipped(text) \in Dispatches
<1>1. NoText \in Texts
  BY DEF NoText, Texts
<1>2. Idle \in Dispatches
  BY <1>1 DEF Idle, Dispatches, Results
<1>3. Untouched \in Fates
  BY DEF Untouched, Fates
<1>4. \A text \in Texts : Dispatched(text) \in Dispatches /\ Skipped(text) \in Dispatches
  BY <1>2 DEF Dispatched, Skipped, Dispatches, Idle, Results
<1> QED BY <1>1, <1>2, <1>3, <1>4

\* A message that is on its way or muted has met no channel yet.
LEMMA DispatchedIs ==
  ASSUME NEW text
  PROVE  /\ Dispatched(text).pc = "add" /\ Dispatched(text).captured = <<>>
         /\ Dispatched(text).text = text
         /\ Skipped(text).pc = "skipped" /\ Skipped(text).text = text
         /\ Skipped(text).captured = <<>>
         /\ Idle.pc = "idle" /\ Idle.captured = <<>>
         /\ Untouched.ended = "no" /\ Untouched.warned = 0
BY DEF Dispatched, Skipped, Idle, Untouched

\* The result a thread is due depends on its own dispatch alone.
LEMMA ResultDependsOn ==
  ASSUME NEW t \in Sender, send'[t] = send[t], fate'[t] = fate[t]
  PROVE  OwnResult(t)' = OwnResult(t)
<1> DEFINE R(d, f) == IF f.ended = "ok" THEN <<"ok">>
                      ELSE <<"failed", IF f.ended # "refused" THEN f.ended
                                       ELSE IF Channels[d.k] \in Unresolved THEN "dns hint"
                                       ELSE IF f.warned = 0 THEN NoReason
                                       ELSE <<t, d.k, f.warned>>>>
<1>1. OwnResult(t) = R(send[t], fate[t]) /\ OwnResult(t)' = R(send'[t], fate'[t])
  BY Zenon DEF OwnResult
<1> HIDE DEF R
<1> QED BY <1>1, Zenon

\* One thread starts a message.
LEMMA DispatchStep ==
  ASSUME DeliveryInv, NEW s \in Sender, NEW text \in Texts, NEW d,
         d = Dispatched(text) \/ d = Skipped(text),
         send' = [send EXCEPT ![s] = d],
         fate' = [fate EXCEPT ![s] = Untouched]
  PROVE  DeliveryInv'
<1> USE DEF DeliveryInv
<1>1. d \in Dispatches /\ Untouched \in Fates /\ d.pc \in {"add", "skipped"} /\ d.captured = <<>>
  <2>1. CASE d = Dispatched(text)
    BY <2>1, IdleIsDispatch, DispatchedIs
  <2>2. CASE d = Skipped(text)
    BY <2>2, IdleIsDispatch, DispatchedIs
  <2> QED BY <2>1, <2>2
<1>2. /\ SendTypeOK' /\ send'[s] = d /\ fate'[s] = Untouched
      /\ \A t \in Sender : t # s => send'[t] = send[t] /\ fate'[t] = fate[t]
  BY <1>1 DEF SendTypeOK
<1>3. CaptureInv' /\ IdleInv'
  BY <1>1, <1>2, DispatchedIs DEF CaptureInv, IdleInv
<1>4. EachChannelOnItsOwn'
  <2>1. \A t \in Sender : t # s => OwnResult(t)' = OwnResult(t)
    BY <1>2, ResultDependsOn
  <2> QED BY <1>1, <1>2, <2>1 DEF EachChannelOnItsOwn
<1> QED BY <1>2, <1>3, <1>4

LEMMA ConcludedIs ==
  ASSUME NEW d \in Dispatches, NEW result \in Results
  PROVE  /\ Concluded(d, result) \in Dispatches
         /\ Concluded(d, result).last = result /\ Concluded(d, result).k = d.k
         /\ Concluded(d, result).captured = <<>> /\ Concluded(d, result).text = d.text
         /\ Concluded(d, result).pc = IF d.k = Len(Channels) THEN "sent" ELSE "next"
<1> DEFINE stop == IF d.k = Len(Channels) THEN "sent" ELSE "next"
<1>1. stop \in {"idle", "skipped", "add", "notify", "next", "sent"}
  OBVIOUS
<1>2. <<>> \in Seq(Warning)
  OBVIOUS
<1>3. Concluded(d, result) = [d EXCEPT !.last = result, !.captured = <<>>, !.pc = stop]
  BY DEF Concluded
<1> HIDE DEF stop
<1>4. /\ Concluded(d, result) \in Dispatches
      /\ Concluded(d, result).last = result /\ Concluded(d, result).k = d.k
      /\ Concluded(d, result).captured = <<>> /\ Concluded(d, result).text = d.text
      /\ Concluded(d, result).pc = stop
  BY <1>1, <1>2, <1>3 DEF Dispatches
<1> QED BY <1>4 DEF stop

\* A channel is done with, and its result is what the thread's own plugin made of it.
LEMMA ConcludeStep ==
  ASSUME DeliveryInv, NEW s \in Sender, NEW result \in Results,
         NEW e \in {"ok", "refused", "raised", "invalid URL"},
         send' = [send EXCEPT ![s] = Concluded(send[s], result)],
         fate' = [fate EXCEPT ![s].ended = e],
         result = OwnResult(s)'
  PROVE  DeliveryInv'
<1> USE DEF DeliveryInv
<1>1. send[s] \in Dispatches /\ fate[s] \in Fates
  BY DEF SendTypeOK
<1>2. /\ Concluded(send[s], result) \in Dispatches
      /\ Concluded(send[s], result).last = result /\ Concluded(send[s], result).k = send[s].k
      /\ Concluded(send[s], result).captured = <<>>
      /\ Concluded(send[s], result).pc = IF send[s].k = Len(Channels) THEN "sent" ELSE "next"
  BY <1>1, ConcludedIs
<1>3. /\ SendTypeOK' /\ send'[s] = Concluded(send[s], result)
      /\ \A t \in Sender : t # s => send'[t] = send[t] /\ fate'[t] = fate[t]
  BY <1>1, <1>2 DEF SendTypeOK, Fates
<1>4. CaptureInv' /\ IdleInv'
  BY <1>2, <1>3 DEF CaptureInv, IdleInv
<1>5. EachChannelOnItsOwn'
  <2>1. \A t \in Sender : t # s => OwnResult(t)' = OwnResult(t)
    BY <1>3, ResultDependsOn
  <2> QED BY <1>2, <1>3, <2>1 DEF EachChannelOnItsOwn
<1> QED BY <1>3, <1>4, <1>5

LEMMA NextChannelStep ==
  ASSUME DeliveryInv, NEW s \in Sender, NextChannel(s)
  PROVE  DeliveryInv'
<1> USE DEF DeliveryInv
<1>1. send[s] \in Dispatches /\ send[s].pc = "next" /\ send[s].captured = <<>>
  BY DEF SendTypeOK, NextChannel, IdleInv
<1> DEFINE d == [send[s] EXCEPT !.pc = "add", !.k = @ + 1, !.last = <<>>]
<1>2. <<>> \in Results /\ send[s].k + 1 \in Nat
  <2>1. <<>> \in Results
    BY Zenon DEF Results
  <2>2. send[s].k \in Nat
    BY <1>1 DEF Dispatches
  <2> QED BY <2>1, <2>2
<1>3. d \in Dispatches /\ d.pc = "add" /\ d.captured = <<>>
  BY <1>1, <1>2 DEF Dispatches
<1>4. send' = [send EXCEPT ![s] = d] /\ fate' = [fate EXCEPT ![s] = Untouched]
  BY DEF NextChannel, SendTypeOK, Dispatches
<1> HIDE DEF d
<1>5. /\ SendTypeOK' /\ send'[s] = d /\ fate'[s] = Untouched
      /\ \A t \in Sender : t # s => send'[t] = send[t] /\ fate'[t] = fate[t]
  BY <1>3, <1>4, IdleIsDispatch DEF SendTypeOK
<1>6. CaptureInv' /\ IdleInv'
  BY <1>3, <1>5, DispatchedIs DEF CaptureInv, IdleInv
<1>7. EachChannelOnItsOwn'
  <2>1. \A t \in Sender : t # s => OwnResult(t)' = OwnResult(t)
    BY <1>5, ResultDependsOn
  <2> QED BY <1>3, <1>5, <2>1 DEF EachChannelOnItsOwn
<1> QED BY <1>5, <1>6, <1>7

LEMMA AddChannelStep ==
  ASSUME DeliveryInv, NEW s \in Sender, AddChannel(s)
  PROVE  DeliveryInv'
<1> USE DEF DeliveryInv
<1>1. send[s] \in Dispatches /\ fate[s] \in Fates /\ send[s].pc = "add"
      /\ send[s].captured = <<>> /\ fate[s].ended = "no" /\ fate[s].warned = 0
  BY DEF SendTypeOK, AddChannel, CaptureInv, IdleInv
<1>2. CASE send' = [send EXCEPT ![s].pc = "notify"] /\ UNCHANGED fate
  <2> DEFINE d == [send[s] EXCEPT !.pc = "notify"]
  <2>1. d \in Dispatches /\ d.pc = "notify" /\ d.captured = <<>>
    BY <1>1 DEF Dispatches
  <2>2. send' = [send EXCEPT ![s] = d]
    BY <1>2 DEF SendTypeOK
  <2> HIDE DEF d
  <2>3. /\ SendTypeOK' /\ send'[s] = d /\ fate' = fate
        /\ \A t \in Sender : t # s => send'[t] = send[t]
    BY <1>2, <2>1, <2>2 DEF SendTypeOK
  <2>4. CaptureInv' /\ IdleInv'
    BY <1>1, <2>1, <2>3 DEF CaptureInv, IdleInv
  <2>5. EachChannelOnItsOwn'
    <3>1. \A t \in Sender : t # s => OwnResult(t)' = OwnResult(t)
      BY <2>3, ResultDependsOn
    <3> QED BY <2>1, <2>3, <3>1 DEF EachChannelOnItsOwn
  <2> QED BY <2>3, <2>4, <2>5
<1>3. CASE \E e \in {"invalid URL", "raised"} :
             /\ send' = [send EXCEPT ![s] = Concluded(@, <<"failed", e>>)]
             /\ fate' = [fate EXCEPT ![s].ended = e]
  <2>1. PICK e \in {"invalid URL", "raised"} :
             /\ send' = [send EXCEPT ![s] = Concluded(send[s], <<"failed", e>>)]
             /\ fate' = [fate EXCEPT ![s].ended = e]
    BY <1>3
  <2>2. <<"failed", e>> \in Results
    BY DEF Results
  <2>3. fate'[s].ended = e
    BY <2>1, <1>1 DEF SendTypeOK, Fates
  <2>4. <<"failed", e>> = OwnResult(s)'
    <3>1. fate'[s].ended # "ok" /\ fate'[s].ended \in {"raised", "invalid URL"}
      BY <2>3
    <3> QED BY <2>3, <3>1, Zenon DEF OwnResult
  <2>5. e \in {"ok", "refused", "raised", "invalid URL"}
    OBVIOUS
  <2> QED BY <2>1, <2>2, <2>4, <2>5, ConcludeStep
<1> QED BY <1>2, <1>3 DEF AddChannel

LEMMA LastOfAppend ==
  ASSUME NEW S, NEW q \in Seq(S), NEW x \in S
  PROVE  Append(q, x) \in Seq(S) /\ Append(q, x) # <<>> /\ Last(Append(q, x)) = x
<1>1. Append(q, x) \in Seq(S) /\ Len(Append(q, x)) = Len(q) + 1 /\ Len(q) \in Nat
  OBVIOUS
<1>2. Append(q, x)[Len(q) + 1] = x
  OBVIOUS
<1>3. Append(q, x) # <<>>
  BY <1>1
<1> QED BY <1>1, <1>2, <1>3 DEF Last

\* The plugin of one thread logs a warning; the handlers of the others take none of it.
LEMMA PluginWarnsStep ==
  ASSUME DeliveryInv, NEW s \in Sender, PluginWarns(s)
  PROVE  DeliveryInv'
<1> USE DEF DeliveryInv
<1>1. send[s] \in Dispatches /\ fate[s] \in Fates /\ send[s].pc = "notify"
      /\ fate[s].ended = "no"
  BY DEF SendTypeOK, PluginWarns, CaptureInv
<1> DEFINE w == fate[s].warned + 1
           x == <<s, send[s].k, w>>
           d == [send[s] EXCEPT !.captured = Append(@, x)]
           g == [fate[s] EXCEPT !.warned = w]
<1>2. w \in Nat /\ w # 0 /\ send[s].k \in Nat /\ send[s].captured \in Seq(Warning)
  <2>1. fate[s].warned \in Nat
    BY <1>1 DEF Fates
  <2>2. send[s].k \in Nat /\ send[s].captured \in Seq(Warning)
    BY <1>1 DEF Dispatches
  <2>3. w \in Nat /\ w # 0
    BY <2>1
  <2> QED BY <2>2, <2>3
<1>3. g \in Fates /\ g.warned = w /\ g.ended = "no"
  BY <1>1, <1>2 DEF Fates
<1>4. x \in Warning
  BY <1>2 DEF Warning
<1>5. fate' = [fate EXCEPT ![s] = g]
  BY <1>1 DEF PluginWarns, SendTypeOK, Fates
<1>6. fate'[s] = g /\ fate'[s].warned = w
  BY <1>3, <1>5 DEF SendTypeOK
<1>7. send' = [send EXCEPT ![s] = d]
  <2>1. \A t \in Sender : (send[t].pc = "notify" /\ Hears(t, s)) <=> t = s
    BY <1>1 DEF Hears
  <2>2. /\ send' = [t \in Sender |->
                      IF send[t].pc = "notify" /\ Hears(t, s)
                      THEN [send[t] EXCEPT !.captured =
                              Append(@, <<s, send[s].k, fate'[s].warned>>)]
                      ELSE send[t]]
    BY DEF PluginWarns
  <2>3. send' = [t \in Sender |-> IF t = s THEN d ELSE send[t]]
    <3> DEFINE y == <<s, send[s].k, fate'[s].warned>>
    <3>1. y = x
      BY <1>6
    <3> HIDE DEF x, y
    <3>2. \A t \in Sender : send'[t] = IF t = s THEN d ELSE send[t]
      <4>1. SUFFICES ASSUME NEW t \in Sender
                     PROVE  send'[t] = IF t = s THEN d ELSE send[t]
        OBVIOUS
      <4>2. send'[t] = IF send[t].pc = "notify" /\ Hears(t, s)
                       THEN [send[t] EXCEPT !.captured = Append(@, y)] ELSE send[t]
        BY <2>2, Zenon DEF y
      <4> QED BY <2>1, <3>1, <4>2, Zenon
    <3>3. send' = [t \in Sender |-> send'[t]]
      BY <2>2, Zenon
    <3> QED BY <3>2, <3>3, Zenon
  <2> HIDE DEF d
  <2> QED BY <2>3 DEF SendTypeOK
<1> HIDE DEF g, w
<1>8. /\ Append(send[s].captured, x) \in Seq(Warning)
      /\ Append(send[s].captured, x) # <<>>
      /\ Last(Append(send[s].captured, x)) = x
  BY <1>2, <1>4, LastOfAppend
<1> HIDE DEF x
<1>9. d \in Dispatches /\ d.pc = "notify" /\ d.k = send[s].k
      /\ d.captured = Append(send[s].captured, x)
  BY <1>1, <1>8 DEF Dispatches
<1> HIDE DEF d
<1>10. /\ SendTypeOK' /\ send'[s] = d
       /\ \A t \in Sender : t # s => send'[t] = send[t] /\ fate'[t] = fate[t]
  BY <1>3, <1>5, <1>7, <1>9 DEF SendTypeOK
<1>11. CaptureInv' /\ IdleInv'
  <2>1. Last(d.captured) = <<s, d.k, g.warned>>
    BY <1>3, <1>8, <1>9 DEF x
  <2> QED BY <1>2, <1>3, <1>6, <1>8, <1>9, <1>10, <2>1 DEF CaptureInv, IdleInv
<1>12. EachChannelOnItsOwn'
  <2>1. \A t \in Sender : t # s => OwnResult(t)' = OwnResult(t)
    BY <1>10, ResultDependsOn
  <2> QED BY <1>9, <1>10, <2>1 DEF EachChannelOnItsOwn
<1> QED BY <1>10, <1>11, <1>12

LEMMA PluginAnswersStep ==
  ASSUME DeliveryInv, NEW s \in Sender, PluginAnswers(s)
  PROVE  DeliveryInv'
<1> USE DEF DeliveryInv
<1>1. send[s] \in Dispatches /\ fate[s] \in Fates /\ send[s].pc = "notify"
  BY DEF SendTypeOK, PluginAnswers
<1> DEFINE Answer(e) == CASE e = "ok" -> <<"ok">>
                          [] e = "raised" -> <<"failed", "raised">>
                          [] OTHER -> <<"failed", Reason(send[s])>>
<1>2. PICK e \in {"ok", "refused", "raised"} :
        /\ fate' = [fate EXCEPT ![s].ended = e]
        /\ send' = [send EXCEPT ![s] = Concluded(send[s], Answer(e))]
  BY DEF PluginAnswers
<1>3. fate'[s].ended = e /\ fate'[s].warned = fate[s].warned
  BY <1>1, <1>2 DEF SendTypeOK, Fates
<1>4. Reason(send[s]) \in {"dns hint", NoReason} \union Warning
  <2>1. CASE send[s].captured = <<>>
    BY <2>1 DEF Reason
  <2>2. CASE send[s].captured # <<>>
    <3>1. Last(send[s].captured) \in Warning
      BY <1>1, <2>2 DEF Dispatches, Last
    <3> QED BY <2>2, <3>1 DEF Reason
  <2> QED BY <2>1, <2>2
<1>5. Answer(e) \in Results
  BY <1>4 DEF Results
<1>6. send'[s].k = send[s].k
  BY <1>1, <1>2, <1>5, ConcludedIs DEF SendTypeOK
<1>7. Answer(e) = OwnResult(s)'
  <2>1. fate'[s].ended = e /\ fate'[s].warned = fate[s].warned /\ send'[s].k = send[s].k
    BY <1>3, <1>6
  <2>2. CASE e = "ok"
    BY <2>1, <2>2, Zenon DEF OwnResult
  <2>3. CASE e = "raised"
    <3>1. fate'[s].ended # "ok" /\ fate'[s].ended \in {"raised", "invalid URL"} /\ e # "ok"
      BY <2>1, <2>3
    <3> QED BY <2>1, <2>3, <3>1, Zenon DEF OwnResult
  <2>4. CASE e = "refused"
    <3>1. e # "ok" /\ e # "raised" /\ e \notin {"raised", "invalid URL"}
      BY <2>4
    <3>2. Answer(e) = <<"failed", Reason(send[s])>>
      BY <3>1, Zenon
    <3>3. CASE Channels[send[s].k] \in Unresolved
      <4>1. Reason(send[s]) = "dns hint"
        BY <3>3, Zenon DEF Reason
      <4>2. OwnResult(s)' = <<"failed", "dns hint">>
        BY <2>1, <3>1, <3>3, Zenon DEF OwnResult
      <4> QED BY <3>2, <4>1, <4>2, Zenon
    <3>4. CASE Channels[send[s].k] \notin Unresolved /\ fate[s].warned = 0
      <4>1. Reason(send[s]) = NoReason
        BY <1>1, <3>4 DEF Reason, CaptureInv
      <4>2. OwnResult(s)' = <<"failed", NoReason>>
        BY <2>1, <3>1, <3>4, Zenon DEF OwnResult
      <4> QED BY <3>2, <4>1, <4>2, Zenon
    <3>5. CASE Channels[send[s].k] \notin Unresolved /\ fate[s].warned # 0
      <4> DEFINE x == <<s, send[s].k, fate[s].warned>>
      <4>1. send[s].captured # <<>> /\ Last(send[s].captured) = x
        BY <1>1, <3>5, Zenon DEF CaptureInv
      <4>2. Reason(send[s]) = x
        BY <3>5, <4>1, Zenon DEF Reason
      <4>3. OwnResult(s)' = <<"failed", x>>
        BY <2>1, <3>1, <3>5, Zenon DEF OwnResult
      <4> QED BY <3>2, <4>2, <4>3, Zenon
    <3> QED BY <3>3, <3>4, <3>5
  <2> HIDE DEF Answer
  <2> QED BY <2>2, <2>3, <2>4
<1>8. e \in {"ok", "refused", "raised", "invalid URL"}
  OBVIOUS
<1> HIDE DEF Answer
<1> QED BY <1>2, <1>5, <1>7, <1>8, ConcludeStep

LEMMA DeliveryStep ==
  ASSUME DeliveryInv, DeliveryNext
  PROVE  DeliveryInv'
<1>1. CASE SendTest
  <2> DEFINE text == [kind |-> "test", left |-> FALSE]
  <2>1. text \in Texts
    BY DEF Texts
  <2>2. /\ send' = [send EXCEPT !["ui"] = Dispatched(text)]
        /\ fate' = [fate EXCEPT !["ui"] = Untouched]
    BY <1>1 DEF SendTest
  <2>3. "ui" \in Sender
    BY DEF Sender
  <2> HIDE DEF text
  <2> QED BY <2>1, <2>2, <2>3, DispatchStep
<1> QED
  BY <1>1, NextChannelStep, AddChannelStep, PluginWarnsStep, PluginAnswersStep DEF DeliveryNext

\* A delivery leaves the messages as they are; only the user's own test is a new one.
LEMMA DeliveryKeepsTexts ==
  ASSUME DeliveryInv, DeliveryNext, NEW t \in Sender, t # "ui"
  PROVE  send'[t].text = send[t].text /\ (send'[t].pc = "idle" <=> send[t].pc = "idle")
<1> USE DEF DeliveryInv
<1>0. send[t] \in Dispatches
  BY DEF SendTypeOK
<1>1. CASE SendTest
  BY <1>1 DEF SendTest, SendTypeOK
<1>2. ASSUME NEW s \in Sender, NextChannel(s)
      PROVE  send'[t].text = send[t].text /\ (send'[t].pc = "idle" <=> send[t].pc = "idle")
  BY <1>0, <1>2 DEF NextChannel, SendTypeOK, Dispatches
<1>3. ASSUME NEW s \in Sender, AddChannel(s)
      PROVE  send'[t].text = send[t].text /\ (send'[t].pc = "idle" <=> send[t].pc = "idle")
  <2>1. \A r : Concluded(send[t], r).text = send[t].text /\ Concluded(send[t], r).pc # "idle"
    BY <1>0 DEF Concluded, Dispatches
  <2>2. CASE send' = [send EXCEPT ![s].pc = "notify"] /\ send[s].pc = "add"
    BY <1>0, <2>2 DEF SendTypeOK, Dispatches
  <2>3. CASE \E r : send' = [send EXCEPT ![s] = Concluded(@, r)] /\ send[s].pc = "add"
    BY <1>0, <2>1, <2>3 DEF SendTypeOK
  <2> QED BY <1>3, <2>2, <2>3 DEF AddChannel
<1>4. ASSUME NEW s \in Sender, PluginWarns(s)
      PROVE  send'[t].text = send[t].text /\ (send'[t].pc = "idle" <=> send[t].pc = "idle")
  BY <1>0, <1>4 DEF PluginWarns, SendTypeOK, Dispatches
<1>5. ASSUME NEW s \in Sender, PluginAnswers(s)
      PROVE  send'[t].text = send[t].text /\ (send'[t].pc = "idle" <=> send[t].pc = "idle")
  <2>1. \A r : Concluded(send[t], r).text = send[t].text /\ Concluded(send[t], r).pc # "idle"
    BY <1>0 DEF Concluded, Dispatches
  <2>2. \E r : send' = [send EXCEPT ![s] = Concluded(@, r)] /\ send[s].pc = "notify"
    BY <1>5 DEF PluginAnswers
  <2> QED BY <1>0, <2>1, <2>2 DEF SendTypeOK
<1> QED BY <1>1, <1>2, <1>3, <1>4, <1>5 DEF DeliveryNext

-----------------------------------------------------------------------------
(***************************************************************************)
(* The run and what is told of it.                                         *)
(***************************************************************************)
Steps == [name : {"wait", "poweroff"}, label : Device \union {NoLabel},
          status : {"running", "success", "failure", "skipped"}]
Waiting == {"wait", "probe", "wake", "up", "down"}
BeforeEnd == Waiting \union {"work", "unreachable"}
Releasing == {"release", "poweroff", "kept", "off"}

CycleTypeOK ==
  /\ managed \subseteq Device /\ subject \in Subjects
  /\ box \in [Device -> {"off", "waking", "on"}]
  /\ runRow \in {"none", "running", "success", "failure", "aborted"}
  /\ stage \in {"start", "over"} \union BeforeEnd \union Releasing
  /\ at \in 1 .. Len(subject.devices) /\ steps \in Seq(Steps) /\ held \in Seq(Device)
  /\ acquired \union handedOn \union left \union burning \subseteq Device
  /\ restarted \in BOOLEAN

Used == {subject.devices[i] : i \in 1 .. Len(subject.devices)}

\* The wait steps of an unfinished run: a machine was taken exactly when a step says so.
WaitRows ==
  /\ \A i \in 1 .. Len(steps) : steps[i].name = "wait"
  /\ \A i \in 1 .. Len(steps) : steps[i].status = "success" =>
       \E d \in acquired : steps[i].label = Label(d)
  /\ \A d \in acquired : \E i \in 1 .. Len(steps) :
       steps[i].status = "success" /\ steps[i].label = Label(d)

StepsInv ==
  /\ runRow = "running" => stage \in BeforeEnd
  /\ stage = "start" => steps = <<>> /\ acquired = {}
  /\ stage \in BeforeEnd => WaitRows
  /\ stage \in {"probe", "wake", "up", "down"} =>
       /\ steps # <<>> /\ steps[Len(steps)].status = "running"
       /\ steps[Len(steps)].label = Label(subject.devices[at])

\* Machines are taken one after the other, and one that was taken is up.
TakenInv ==
  /\ acquired \subseteq Used
  /\ stage \in Waiting => \A i \in at .. Len(subject.devices) : subject.devices[i] \notin acquired
  /\ stage = "up" => box[subject.devices[at]] = "on"
  /\ \A d \in acquired : box[d] # "waking"

\* What becomes of a machine when its lease is given back.
Settled(d) == d \in handedOn \/ d \notin managed \/ d \in left \/ box[d] = "off"
HandedBack == stage \in {"kept", "off"}

\* Every machine taken is still held or settled; left on and handed on exclude one another.
HeldInv ==
  /\ \A d \in acquired : Settled(d) \/ \E i \in 1 .. Len(held) : held[i] = d
  /\ HandedBack => held # <<>> /\ Settled(held[1])
  /\ stage = "poweroff" => held # <<>>
  /\ \A i, j \in 1 .. Len(held) : i # j => held[i] # held[j]
  /\ \A i \in 1 .. Len(held) : held[i] \in acquired
  /\ \A i \in 1 .. Len(held) : i > 1 \/ ~HandedBack => held[i] \notin left \union handedOn
  /\ left \subseteq acquired \cap managed /\ handedOn \subseteq acquired
  /\ left \cap handedOn = {}

\* The messages.
ToldInv ==
  /\ restarted => stage = "over" /\ send["worker"].pc = "idle"
  /\ ~restarted => send["startup"].pc = "idle" /\ (stage # "start" => HeldInv)
  /\ stage = "start" => held = <<>> /\ left = {} /\ handedOn = {}
  /\ send["worker"].pc # "idle" =>
       stage = "over" /\ held = <<>> /\ send["worker"].text.left = (left # {})
  /\ send["startup"].pc # "idle" =>
       /\ burning # {} => send["startup"].text.left
       /\ send["startup"].text.left => acquired # {} /\ (subject.route => acquired \cap managed # {})

NotifyInv == DeliveryInv /\ CycleTypeOK /\ StepsInv /\ TakenInv /\ ToldInv

LEMMA DevicesAre ==
  ASSUME subject \in Subjects
  PROVE  /\ subject.devices \in Seq(Device) /\ Len(subject.devices) \in {1, 2}
         /\ \A i, j \in 1 .. Len(subject.devices) :
              i # j => subject.devices[i] # subject.devices[j]
         /\ Used \subseteq Device
<1>1. \/ \E d \in Device : subject.devices = <<d>>
      \/ \E c, d \in Device : c # d /\ subject.devices = <<c, d>>
  <2>1. CASE subject \in [route : BOOLEAN, devices : {<<d>> : d \in Device}]
    BY <2>1
  <2>2. CASE subject \in [route : {TRUE}, devices : {p \in Device \X Device : p[1] # p[2]}]
    <3>1. subject.devices \in Device \X Device /\ subject.devices[1] # subject.devices[2]
      BY <2>2
    <3> QED BY <3>1
  <2> QED BY <2>1, <2>2 DEF Subjects
<1>2. CASE \E d \in Device : subject.devices = <<d>>
  BY <1>2 DEF Used
<1>3. CASE \E c, d \in Device : c # d /\ subject.devices = <<c, d>>
  BY <1>3 DEF Used
<1> QED BY <1>1, <1>2, <1>3

LEMMA LabelIs ==
  ASSUME CycleTypeOK, NEW d \in Device
  PROVE  /\ Label(d) \in Device \union {NoLabel}
         /\ \/ Label(d) = d /\ Len(subject.devices) > 1 /\ Label(d) \in Device
            \/ Label(d) = NoLabel /\ Len(subject.devices) = 1
<1>1. Len(subject.devices) \in {1, 2}
  BY DevicesAre DEF CycleTypeOK
<1> QED BY <1>1 DEF Label, Multi

\* A step's row is added at the end, and closed there.
LEMMA SteppedIs ==
  ASSUME CycleTypeOK, NEW name \in {"wait", "poweroff"}, NEW d \in Device
  PROVE  /\ Stepped(name, d) \in Seq(Steps) /\ Len(Stepped(name, d)) = Len(steps) + 1
         /\ \A i \in 1 .. Len(steps) : Stepped(name, d)[i] = steps[i]
         /\ Stepped(name, d)[Len(steps) + 1].name = name
         /\ Stepped(name, d)[Len(steps) + 1].label = Label(d)
         /\ Stepped(name, d)[Len(steps) + 1].status = "running"
<1> DEFINE r == [name |-> name, label |-> Label(d), status |-> "running"]
<1>1. r \in Steps /\ r.name = name /\ r.label = Label(d) /\ r.status = "running"
  BY LabelIs DEF Steps
<1>2. steps \in Seq(Steps) /\ Stepped(name, d) = Append(steps, r)
  BY DEF CycleTypeOK, Stepped
<1> HIDE DEF r
<1> QED BY <1>1, <1>2

LEMMA ClosedIs ==
  ASSUME CycleTypeOK, NEW status \in {"running", "success", "failure", "skipped"}
  PROVE  /\ Closed(status) \in Seq(Steps) /\ Len(Closed(status)) = Len(steps)
         /\ \A i \in 1 .. Len(steps) :
              /\ i # Len(steps) => Closed(status)[i] = steps[i]
              /\ i = Len(steps) => /\ Closed(status)[i].name = steps[i].name
                                   /\ Closed(status)[i].label = steps[i].label
                                   /\ Closed(status)[i].status = status
<1>1. steps \in Seq(Steps) /\ Len(steps) \in Nat /\ steps \in [1 .. Len(steps) -> Steps]
  BY DEF CycleTypeOK
<1> DEFINE n == Len(steps)
           r == [steps[n] EXCEPT !.status = status]
<1>2. CASE n = 0
  <2>1. Closed(status) = steps
    BY <1>1, <1>2 DEF Closed
  <2> QED BY <1>1, <1>2, <2>1
<1>3. CASE n # 0
  <2>1. steps[n] \in Steps
    BY <1>1, <1>3
  <2>2. r \in Steps /\ r.name = steps[n].name /\ r.label = steps[n].label /\ r.status = status
    BY <2>1 DEF Steps
  <2>3. Closed(status) = [steps EXCEPT ![n] = r]
    BY DEF Closed
  <2> HIDE DEF r
  <2>4. /\ Closed(status) \in Seq(Steps) /\ Len(Closed(status)) = n
        /\ \A i \in 1 .. n : Closed(status)[i] = IF i = n THEN r ELSE steps[i]
    <3>1. n \in 1 .. Len(steps)
      BY <1>1, <1>3
    <3> QED BY <1>1, <2>2, <2>3, <3>1, ExceptSeq
  <2> QED BY <2>2, <2>4
<1> QED BY <1>2, <1>3

\* The steps of the run that add no row, end no wait and give no lease back.
LEMMA QuietStep ==
  ASSUME NotifyInv, BeginRun \/ Probe \/ WakeEnds \/ FinishRun \/ BoxBoots
  PROVE  NotifyInv'
<1> USE DEF NotifyInv, OutsideRests, fixed, sendVars
<1>1. UNCHANGED <<managed, subject, restarted, burning, send, fate, steps, at, held, left,
                  acquired, handedOn>>
  BY DEF BeginRun, Probe, WakeEnds, FinishRun, BoxBoots, Running
<1>2. DeliveryInv'
  BY <1>1 DEF DeliveryInv, SendTypeOK, CaptureInv, IdleInv, EachChannelOnItsOwn, OwnResult
<1>3. /\ subject.devices \in Seq(Device) /\ Len(subject.devices) \in {1, 2}
      /\ at \in 1 .. Len(subject.devices) /\ subject.devices[at] \in Device
  BY DevicesAre DEF CycleTypeOK
<1>4. CycleTypeOK'
  <2>1. box' \in [Device -> {"off", "waking", "on"}]
    BY <1>1, <1>3 DEF CycleTypeOK, BeginRun, Probe, WakeEnds, FinishRun, BoxBoots
  <2>2. runRow' \in {"none", "running", "success", "failure", "aborted"}
    BY DEF CycleTypeOK, BeginRun, Probe, WakeEnds, FinishRun, BoxBoots
  <2>3. stage' \in {"start", "over"} \union BeforeEnd \union Releasing
    BY DEF CycleTypeOK, BeginRun, Probe, WakeEnds, FinishRun, BoxBoots, Running, BeforeEnd,
           Waiting, Releasing
  <2> QED BY <1>1, <2>1, <2>2, <2>3 DEF CycleTypeOK
<1>5. StepsInv'
  BY <1>1 DEF StepsInv, BeginRun, Probe, WakeEnds, FinishRun, BoxBoots, Running, BeforeEnd,
              Waiting, Releasing, WaitRows, Label, Multi
<1>6. TakenInv'
  <2>1. CASE BeginRun \/ FinishRun
    BY <1>1, <2>1 DEF TakenInv, StepsInv, BeginRun, FinishRun, Running, Waiting, Used
  <2>2. CASE Probe
    BY <1>1, <1>3, <2>2 DEF TakenInv, CycleTypeOK, Probe, Running, Waiting, Used
  <2>3. CASE WakeEnds
    BY <1>1, <1>3, <2>3 DEF TakenInv, CycleTypeOK, WakeEnds, Running, Waiting, Used
  <2>4. CASE BoxBoots
    BY <1>1, <1>3, <2>4 DEF TakenInv, CycleTypeOK, BoxBoots, Waiting, Used
  <2> QED BY <2>1, <2>2, <2>3, <2>4
<1>7. ToldInv'
  <2>1. CASE BeginRun
    BY <1>1, <2>1 DEF ToldInv, HeldInv, StepsInv, BeginRun, Running, HandedBack
  <2>2. CASE ~BeginRun /\ stage # "start"
    <3>1. ~restarted => HeldInv'
      <4>1. ASSUME HeldInv
            PROVE  HeldInv'
        <5>1. \A d \in Device : Settled(d) /\ d \in acquired => Settled(d)'
          BY <1>1, <1>3, <2>2
          DEF Settled, TakenInv, CycleTypeOK, Probe, WakeEnds, FinishRun, BoxBoots, Running,
              Waiting
        <5>2. /\ HandedBack' <=> HandedBack
              /\ stage' = "poweroff" => stage = "poweroff"
          BY <2>2 DEF HandedBack, Probe, WakeEnds, FinishRun, BoxBoots, Running
        <5> QED BY <1>1, <4>1, <5>1, <5>2 DEF HeldInv, CycleTypeOK
      <4> QED BY <2>2, <4>1 DEF ToldInv
    <3> QED
      BY <1>1, <2>2, <3>1 DEF ToldInv, Probe, WakeEnds, FinishRun, BoxBoots, Running
  <2>3. CASE ~BeginRun /\ stage = "start"
    BY <1>1, <2>3 DEF ToldInv, Probe, WakeEnds, FinishRun, BoxBoots, Running
  <2> QED BY <2>1, <2>2, <2>3
<1> QED BY <1>2, <1>4, <1>5, <1>6, <1>7

LEMMA StartWaitStep ==
  ASSUME NotifyInv, StartWait
  PROVE  NotifyInv'
<1> USE DEF NotifyInv, OutsideRests, fixed, sendVars, StartWait, Running
<1>1. UNCHANGED <<managed, subject, restarted, burning, send, fate, box, runRow, at, held, left,
                  acquired, handedOn>> /\ stage = "wait" /\ stage' = "probe"
  OBVIOUS
<1>2. DeliveryInv'
  BY <1>1 DEF DeliveryInv, SendTypeOK, CaptureInv, IdleInv, EachChannelOnItsOwn, OwnResult
<1> DEFINE d == subject.devices[at]
<1>3. d \in Device /\ at \in 1 .. Len(subject.devices)
  BY DevicesAre DEF CycleTypeOK
<1>4. /\ steps' \in Seq(Steps) /\ Len(steps') = Len(steps) + 1 /\ Len(steps) \in Nat
      /\ \A i \in 1 .. Len(steps) : steps'[i] = steps[i]
      /\ steps'[Len(steps) + 1].name = "wait" /\ steps'[Len(steps) + 1].label = Label(d)
      /\ steps'[Len(steps) + 1].status = "running"
  <2>1. steps' = Stepped("wait", d) /\ steps \in Seq(Steps)
    BY DEF CycleTypeOK
  <2> HIDE DEF d
  <2> QED BY <1>3, <2>1, SteppedIs
<1>5. CycleTypeOK'
  BY <1>1, <1>4 DEF CycleTypeOK, BeforeEnd, Waiting
<1>6. StepsInv'
  <2>1. WaitRows
    BY <1>1 DEF StepsInv, BeforeEnd, Waiting
  <2>2. \A i \in 1 .. Len(steps') : i \in 1 .. Len(steps) \/ i = Len(steps) + 1
    BY <1>4
  <2>3. \A i \in 1 .. Len(steps') : steps'[i].name = "wait"
    BY <1>4, <2>1, <2>2 DEF WaitRows
  <2>4. \A i \in 1 .. Len(steps') : steps'[i].status = "success" =>
          \E c \in acquired : steps'[i].label = Label(c)
    <3>1. SUFFICES ASSUME NEW i \in 1 .. Len(steps'), steps'[i].status = "success"
                   PROVE  \E c \in acquired : steps'[i].label = Label(c)
      OBVIOUS
    <3>2. i # Len(steps) + 1
      BY <1>4, <3>1
    <3>3. i \in 1 .. Len(steps) /\ steps'[i] = steps[i]
      BY <1>4, <2>2, <3>2
    <3> QED BY <2>1, <3>1, <3>3 DEF WaitRows
  <2>5. \A c \in acquired : \E i \in 1 .. Len(steps') :
          steps'[i].status = "success" /\ steps'[i].label = Label(c)
    <3>1. SUFFICES ASSUME NEW c \in acquired
                   PROVE  \E i \in 1 .. Len(steps') :
                            steps'[i].status = "success" /\ steps'[i].label = Label(c)
      OBVIOUS
    <3>2. PICK i \in 1 .. Len(steps) : steps[i].status = "success" /\ steps[i].label = Label(c)
      BY <2>1 DEF WaitRows
    <3>3. i \in 1 .. Len(steps') /\ steps'[i] = steps[i]
      BY <1>4
    <3> QED BY <3>2, <3>3
  <2>6. \A c : Label(c)' = Label(c)
    BY <1>1 DEF Label, Multi
  <2>7. steps' # <<>> /\ steps'[Len(steps')].status = "running"
        /\ steps'[Len(steps')].label = Label(d)
    BY <1>4
  <2> HIDE DEF d, StartWait, Running
  <2>8. runRow' = "running" => stage' \in BeforeEnd
    BY <1>1 DEF BeforeEnd, Waiting
  <2>9. d' = d
    BY <1>1 DEF d
  <2> QED BY <1>1, <2>3, <2>4, <2>5, <2>6, <2>7, <2>8, <2>9 DEF StepsInv, WaitRows, d
<1>7. TakenInv'
  BY <1>1 DEF TakenInv, Waiting, Used
<1>8. ToldInv'
  BY <1>1 DEF ToldInv, HeldInv, HandedBack, Settled
<1> QED BY <1>2, <1>5, <1>6, <1>7, <1>8

\* A machine is up: its lease is taken.
LEMMA CloseWaitStep ==
  ASSUME NotifyInv, CloseWait
  PROVE  NotifyInv'
<1> USE DEF NotifyInv, OutsideRests, fixed, sendVars, CloseWait, Running
<1>1. UNCHANGED <<managed, subject, restarted, burning, send, fate, box, runRow, left, handedOn>>
      /\ stage = "up"
  OBVIOUS
<1>2. DeliveryInv'
  BY <1>1 DEF DeliveryInv, SendTypeOK, CaptureInv, IdleInv, EachChannelOnItsOwn, OwnResult
<1> DEFINE d == subject.devices[at]
<1>3. /\ d \in Device /\ at \in 1 .. Len(subject.devices) /\ Len(subject.devices) \in {1, 2}
      /\ subject.devices \in Seq(Device)
      /\ \A i \in 1 .. Len(subject.devices) : i # at => subject.devices[i] # d
  BY DevicesAre DEF CycleTypeOK
<1>4. /\ steps' \in Seq(Steps) /\ Len(steps') = Len(steps) /\ Len(steps) \in Nat
      /\ \A i \in 1 .. Len(steps) :
           /\ i # Len(steps) => steps'[i] = steps[i]
           /\ i = Len(steps) => /\ steps'[i].name = steps[i].name
                                /\ steps'[i].label = steps[i].label
                                /\ steps'[i].status = "success"
  BY ClosedIs DEF CycleTypeOK
<1>5. /\ held' = Append(held, d) /\ acquired' = acquired \union {d} /\ held \in Seq(Device)
      /\ held' \in Seq(Device) /\ Len(held') = Len(held) + 1 /\ Len(held) \in Nat
      /\ \A i \in 1 .. Len(held) : held'[i] = held[i]
      /\ held'[Len(held) + 1] = d
  BY <1>3 DEF CycleTypeOK
<1>6. \/ at < Len(subject.devices) /\ at' = at + 1 /\ stage' = "wait"
      \/ at = Len(subject.devices) /\ at' = at /\ stage' = "work"
  BY <1>3
<1>7. d \notin acquired /\ d \in Used
  BY <1>1, <1>3 DEF TakenInv, Waiting, Used
<1> HIDE DEF CloseWait, Running
<1>8. CycleTypeOK'
  <2>1. at' \in 1 .. Len(subject.devices)
    BY <1>3, <1>6
  <2>2. stage' \in BeforeEnd
    BY <1>6 DEF BeforeEnd, Waiting
  <2> HIDE DEF d
  <2> QED BY <1>1, <1>3, <1>4, <1>5, <2>1, <2>2 DEF CycleTypeOK
<1>9. StepsInv'
  <2>1. /\ WaitRows /\ Len(steps) >= 1 /\ steps[Len(steps)].status = "running"
        /\ steps[Len(steps)].label = Label(d)
    <3>1. WaitRows /\ steps # <<>> /\ steps \in Seq(Steps)
          /\ steps[Len(steps)].status = "running" /\ steps[Len(steps)].label = Label(d)
      BY <1>1 DEF StepsInv, BeforeEnd, Waiting, CycleTypeOK
    <3> QED BY <3>1
  <2> HIDE DEF d
  <2>2. Len(steps) \in 1 .. Len(steps) /\ Len(steps') = Len(steps)
    BY <1>4, <2>1
  <2>3. \A i \in 1 .. Len(steps') : steps'[i].name = "wait"
    BY <1>4, <2>1, <2>2 DEF WaitRows
  <2>4. \A i \in 1 .. Len(steps') : steps'[i].status = "success" =>
          \E c \in acquired' : steps'[i].label = Label(c)
    <3>1. SUFFICES ASSUME NEW i \in 1 .. Len(steps), steps'[i].status = "success"
                   PROVE  \E c \in acquired' : steps'[i].label = Label(c)
      BY <2>2
    <3>2. CASE i = Len(steps)
      BY <1>4, <1>5, <2>1, <3>2
    <3>3. CASE i # Len(steps)
      BY <1>4, <1>5, <2>1, <3>1, <3>3 DEF WaitRows
    <3> QED BY <3>2, <3>3
  <2>5. \A c \in acquired' : \E i \in 1 .. Len(steps') :
          steps'[i].status = "success" /\ steps'[i].label = Label(c)
    <3>1. SUFFICES ASSUME NEW c \in acquired'
                   PROVE  \E i \in 1 .. Len(steps) :
                            steps'[i].status = "success" /\ steps'[i].label = Label(c)
      BY <2>2
    <3>2. CASE c = d
      <4>1. /\ Len(steps) \in 1 .. Len(steps) /\ steps'[Len(steps)].status = "success"
            /\ steps'[Len(steps)].label = Label(c)
        BY <1>4, <2>1, <2>2, <3>2
      <4> QED BY <4>1
    <3>3. CASE c \in acquired
      <4>1. PICK i \in 1 .. Len(steps) : steps[i].status = "success" /\ steps[i].label = Label(c)
        BY <2>1, <3>3 DEF WaitRows
      <4>2. i # Len(steps)
        BY <2>1, <4>1
      <4> QED BY <1>4, <4>1, <4>2
    <3> QED BY <1>5, <3>2, <3>3
  <2>6. \A c : Label(c)' = Label(c)
    BY <1>1 DEF Label, Multi
  <2>7. stage' \in BeforeEnd /\ stage' \notin {"start", "probe", "wake", "up", "down"}
    BY <1>6 DEF BeforeEnd, Waiting
  <2> QED BY <2>3, <2>4, <2>5, <2>6, <2>7 DEF StepsInv, WaitRows
<1>10. TakenInv'
  <2>1. acquired' \subseteq Used'
    BY <1>1, <1>5, <1>7 DEF TakenInv, Used
  <2>2. stage' \in Waiting => \A i \in at' .. Len(subject.devices) : subject.devices[i] \notin acquired'
    BY <1>1, <1>3, <1>5, <1>6 DEF TakenInv, Waiting
  <2>3. \A c \in acquired' : box'[c] # "waking"
    BY <1>1, <1>5 DEF TakenInv
  <2> QED BY <1>1, <1>6, <2>1, <2>2, <2>3 DEF TakenInv
<1>11. ToldInv'
  <2>1. ASSUME HeldInv
        PROVE  HeldInv'
    <3>1. d \notin left /\ d \notin handedOn
      BY <1>7, <2>1 DEF HeldInv
    <3>2. ~HandedBack /\ ~HandedBack' /\ stage' # "poweroff"
      BY <1>1, <1>6 DEF HandedBack
    <3> HIDE DEF d
    <3>3. \A i \in 1 .. Len(held') : i \in 1 .. Len(held) \/ i = Len(held) + 1
      BY <1>5
    <3>4. \A c \in acquired' : Settled(c)' \/ \E i \in 1 .. Len(held') : held'[i] = c
      BY <1>1, <1>5, <2>1 DEF HeldInv, Settled
    <3>5. \A i, j \in 1 .. Len(held') : i # j => held'[i] # held'[j]
      <4>1. \A i \in 1 .. Len(held) : held[i] # d
        BY <1>7, <2>1 DEF HeldInv
      <4> QED BY <1>5, <2>1, <3>3, <4>1 DEF HeldInv
    <3>6. \A i \in 1 .. Len(held') : held'[i] \in acquired'
      BY <1>5, <2>1, <3>3 DEF HeldInv
    <3>7. \A i \in 1 .. Len(held') : held'[i] \notin left \union handedOn
      BY <1>5, <2>1, <3>1, <3>2, <3>3 DEF HeldInv
    <3>8. /\ left' \subseteq acquired' \intersect managed' /\ handedOn' \subseteq acquired'
          /\ left' \intersect handedOn' = {}
      BY <1>1, <1>5, <2>1 DEF HeldInv
    <3> QED BY <1>1, <3>2, <3>4, <3>5, <3>6, <3>7, <3>8 DEF HeldInv
  <2>2. stage' # "start" /\ stage' # "over"
    BY <1>6
  <2> QED BY <1>1, <2>1, <2>2 DEF ToldInv
<1> QED BY <1>2, <1>8, <1>9, <1>10, <1>11

\* The steps of the release of the leases but the power-off itself, and the wait that failed.
LEMMA RowStep ==
  ASSUME NotifyInv, FailWait \/ StartPowerOff \/ ClosePowerOff
  PROVE  NotifyInv'
<1> USE DEF NotifyInv, OutsideRests, fixed, sendVars
<1>1. UNCHANGED <<managed, subject, restarted, burning, send, fate, box, runRow, at, left,
                  acquired, handedOn>>
  BY DEF FailWait, StartPowerOff, ClosePowerOff, Running
<1>2. DeliveryInv'
  BY <1>1 DEF DeliveryInv, SendTypeOK, CaptureInv, IdleInv, EachChannelOnItsOwn, OwnResult
<1>3. steps \in Seq(Steps) /\ held \in Seq(Device) /\ Len(held) \in Nat
  BY DEF CycleTypeOK
<1>4. steps' \in Seq(Steps)
  <2>1. CASE FailWait
    BY <2>1, ClosedIs DEF FailWait
  <2>2. CASE StartPowerOff
    <3>1. Head(held) \in Device /\ steps' = Stepped("poweroff", Head(held))
      BY <1>3, <2>2 DEF StartPowerOff
    <3> QED BY <3>1, SteppedIs
  <2>3. CASE ClosePowerOff
    BY <2>3, ClosedIs DEF ClosePowerOff
  <2> QED BY <2>1, <2>2, <2>3
<1>5. /\ stage' \in {"unreachable", "poweroff", "release"}
      /\ stage' = "unreachable" => stage = "down"
      /\ stage # "start" /\ stage # "over"
  BY DEF FailWait, StartPowerOff, ClosePowerOff, Running
<1>6. held' \in Seq(Device)
  <2>1. CASE ClosePowerOff
    <3>1. held' = Tail(held)
      BY <2>1 DEF ClosePowerOff
    <3>2. CASE held = <<>>
      BY <1>3, <3>1, <3>2
    <3>3. CASE held # <<>>
      BY <1>3, <3>1, <3>3
    <3> QED BY <3>2, <3>3
  <2> QED BY <1>3, <2>1 DEF FailWait, StartPowerOff
<1>7. CycleTypeOK'
  BY <1>1, <1>4, <1>5, <1>6 DEF CycleTypeOK, BeforeEnd, Releasing
<1>8. StepsInv'
  <2>1. CASE FailWait
    <3>1. /\ Len(steps') = Len(steps) /\ Len(steps) \in Nat
          /\ \A i \in 1 .. Len(steps) :
               /\ i # Len(steps) => steps'[i] = steps[i]
               /\ i = Len(steps) => /\ steps'[i].name = steps[i].name
                                    /\ steps'[i].label = steps[i].label
                                    /\ steps'[i].status = "failure"
      BY <1>3, <2>1, ClosedIs DEF FailWait
    <3>2. WaitRows /\ steps # <<>> /\ steps[Len(steps)].status = "running"
      BY <2>1 DEF FailWait, Running, StepsInv, BeforeEnd, Waiting
    <3>3. \A i \in 1 .. Len(steps') : steps'[i].name = "wait"
      BY <3>1, <3>2 DEF WaitRows
    <3>4. \A i \in 1 .. Len(steps) : steps'[i].status = "success" => steps'[i] = steps[i]
      BY <3>1
    <3>5. \A i \in 1 .. Len(steps) : steps[i].status = "success" => steps'[i] = steps[i]
      BY <3>1, <3>2
    <3>6. \A i \in 1 .. Len(steps') : steps'[i].status = "success" =>
            \E c \in acquired : steps'[i].label = Label(c)
      BY <3>1, <3>2, <3>4 DEF WaitRows
    <3>7. \A c \in acquired : \E i \in 1 .. Len(steps') :
            steps'[i].status = "success" /\ steps'[i].label = Label(c)
      <4>1. SUFFICES ASSUME NEW c \in acquired
                     PROVE  \E i \in 1 .. Len(steps) :
                              steps'[i].status = "success" /\ steps'[i].label = Label(c)
        BY <3>1
      <4>2. PICK i \in 1 .. Len(steps) : steps[i].status = "success" /\ steps[i].label = Label(c)
        BY <3>2 DEF WaitRows
      <4>3. steps'[i] = steps[i]
        BY <3>5, <4>2
      <4> QED BY <4>2, <4>3
    <3>8. \A c : Label(c)' = Label(c)
      BY <1>1 DEF Label, Multi
    <3>9. stage' = "unreachable"
      BY <2>1 DEF FailWait
    <3> QED BY <1>1, <3>3, <3>6, <3>7, <3>8, <3>9 DEF StepsInv, WaitRows, BeforeEnd
  <2>2. CASE StartPowerOff \/ ClosePowerOff
    <3>1. stage \in Releasing /\ stage' \in Releasing
      BY <2>2 DEF StartPowerOff, ClosePowerOff, Running, Releasing
    <3>2. runRow # "running"
      BY <3>1 DEF StepsInv, Releasing, BeforeEnd, Waiting
    <3> QED BY <1>1, <3>1, <3>2 DEF StepsInv, Releasing, BeforeEnd, Waiting
  <2> QED BY <2>1, <2>2
<1>9. TakenInv'
  BY <1>1, <1>5 DEF TakenInv, Waiting, Used
<1>10. ToldInv'
  <2>1. ASSUME HeldInv
        PROVE  HeldInv'
    <3>1. CASE FailWait \/ StartPowerOff
      BY <1>1, <2>1, <3>1
      DEF HeldInv, HandedBack, Settled, FailWait, StartPowerOff, Running
    <3>2. CASE ClosePowerOff
      <4>1. /\ held' = Tail(held) /\ HandedBack /\ stage' = "release" /\ ~HandedBack'
        BY <3>2 DEF ClosePowerOff, Running, HandedBack
      <4>2. held # <<>> /\ Settled(held[1])
        BY <2>1, <4>1 DEF HeldInv
      <4>3. /\ Len(held) >= 1 /\ Len(held') = Len(held) - 1
            /\ \A i \in 1 .. Len(held') : held'[i] = held[i + 1]
        BY <1>3, <4>1, <4>2
      <4>4. \A c \in acquired' : Settled(c)' \/ \E i \in 1 .. Len(held') : held'[i] = c
        <5>1. SUFFICES ASSUME NEW c \in acquired, ~Settled(c)
                       PROVE  \E i \in 1 .. Len(held') : held'[i] = c
          BY <1>1 DEF Settled
        <5>2. PICK i \in 1 .. Len(held) : held[i] = c
          BY <2>1, <5>1 DEF HeldInv
        <5>3. i # 1
          BY <4>2, <5>1, <5>2
        <5>4. i - 1 \in 1 .. Len(held') /\ (i - 1) + 1 = i
          BY <1>3, <4>3, <5>2, <5>3
        <5>5. held'[i - 1] = c
          BY <4>3, <5>2, <5>4
        <5> QED BY <5>4, <5>5
      <4>5. \A i \in 1 .. Len(held') :
              /\ i + 1 \in 1 .. Len(held) /\ i + 1 > 1 /\ held'[i] = held[i + 1]
        BY <1>3, <4>3
      <4>6. \A i, j \in 1 .. Len(held') : i # j => held'[i] # held'[j]
        BY <2>1, <4>5 DEF HeldInv
      <4>7. \A i \in 1 .. Len(held') : held'[i] \in acquired' /\ held'[i] \notin left' \union handedOn'
        BY <1>1, <2>1, <4>5 DEF HeldInv
      <4>8. /\ left' \subseteq acquired' \intersect managed' /\ handedOn' \subseteq acquired'
            /\ left' \intersect handedOn' = {}
        BY <1>1, <2>1 DEF HeldInv
      <4> QED BY <4>1, <4>4, <4>6, <4>7, <4>8 DEF HeldInv
    <3> QED BY <3>1, <3>2
  <2> QED BY <1>1, <1>5, <2>1 DEF ToldInv
<1> QED BY <1>2, <1>7, <1>8, <1>9, <1>10

\* The lease is given back: the machine is handed on, not ours, left on, or off.
LEMMA PowerOffStep ==
  ASSUME NotifyInv, PowerOff
  PROVE  NotifyInv'
<1> USE DEF NotifyInv, OutsideRests, fixed, sendVars
<1> DEFINE d == Head(held)
<1>1. /\ UNCHANGED <<managed, subject, restarted, burning, send, fate, runRow, steps, at, held,
                     acquired>>
      /\ stage = "poweroff" /\ stage' \in {"kept", "off"}
  BY DEF PowerOff, Running
<1>2. DeliveryInv'
  BY <1>1 DEF DeliveryInv, SendTypeOK, CaptureInv, IdleInv, EachChannelOnItsOwn, OwnResult
<1>3. /\ ~restarted /\ HeldInv /\ held # <<>> /\ held \in Seq(Device) /\ Len(held) \in Nat
      /\ Len(held) >= 1 /\ d = held[1] /\ d \in Device
      /\ box \in [Device -> {"off", "waking", "on"}]
  BY <1>1 DEF ToldInv, HeldInv, CycleTypeOK
<1>4. \/ UNCHANGED <<box, left>> /\ handedOn' = handedOn \union {d}
      \/ d \notin managed /\ UNCHANGED <<box, left, handedOn>>
      \/ /\ d \in managed /\ left' = left \union {d} /\ UNCHANGED handedOn
         /\ \E b \in {box[d], "off"} : box' = [box EXCEPT ![d] = b]
      \/ d \in managed /\ box' = [box EXCEPT ![d] = "off"] /\ UNCHANGED <<left, handedOn>>
  BY DEF PowerOff
<1> HIDE DEF d
<1>5. /\ d \in acquired /\ d \notin left /\ d \notin handedOn
      /\ \A i \in 1 .. Len(held) : held[i] # d => i > 1
      /\ \A i \in 1 .. Len(held) : i > 1 => held[i] # d
  BY <1>1, <1>3 DEF HeldInv, HandedBack
<1>6. /\ box' \in [Device -> {"off", "waking", "on"}]
      /\ \A c \in Device : box'[c] = box[c] \/ (c = d /\ box'[c] = "off")
  BY <1>3, <1>4
<1>7. CycleTypeOK'
  BY <1>1, <1>3, <1>4, <1>6 DEF CycleTypeOK, Releasing
<1>8. StepsInv'
  BY <1>1 DEF StepsInv, BeforeEnd, Waiting
<1>9. TakenInv'
  <2>1. acquired \subseteq Device
    BY DEF CycleTypeOK
  <2> QED BY <1>1, <1>6, <2>1 DEF TakenInv, Waiting, Used
<1>10. ToldInv'
  <2>1. Settled(held[1])'
    <3>1. d \in handedOn' \/ d \notin managed \/ d \in left' \/ box'[d] = "off"
      BY <1>3, <1>4
    <3>2. held'[1] = d
      BY <1>1, <1>3
    <3> QED BY <1>1, <3>1, <3>2 DEF Settled
  <2>2. \A c \in acquired : Settled(c) => Settled(c)'
    <3>1. acquired \subseteq Device
      BY DEF CycleTypeOK
    <3> QED BY <1>1, <1>4, <1>6, <3>1 DEF Settled
  <2>3. HandedBack' /\ held'[1] = d /\ stage' # "poweroff"
    BY <1>1, <1>3 DEF HandedBack
  <2>4. /\ left' \subseteq acquired' \intersect managed' /\ handedOn' \subseteq acquired'
        /\ left' \intersect handedOn' = {}
    BY <1>1, <1>3, <1>4, <1>5 DEF HeldInv
  <2>5. \A i \in 1 .. Len(held) : i > 1 => held[i] \notin left' \union handedOn'
    BY <1>3, <1>4, <1>5 DEF HeldInv
  <2>6. HeldInv'
    <3>1. \A c \in acquired : Settled(c)' \/ \E i \in 1 .. Len(held) : held[i] = c
      BY <1>3, <2>2 DEF HeldInv
    <3>2. /\ \A i, j \in 1 .. Len(held) : i # j => held[i] # held[j]
          /\ \A i \in 1 .. Len(held) : held[i] \in acquired
      BY <1>3 DEF HeldInv
    <3>3. \A i \in 1 .. Len(held') : i > 1 \/ ~HandedBack' => held'[i] \notin left' \union handedOn'
      BY <1>1, <2>3, <2>5
    <3>4. held' # <<>> /\ held' = held /\ acquired' = acquired
      BY <1>1, <1>3
    <3> QED BY <2>1, <2>3, <2>4, <3>1, <3>2, <3>3, <3>4 DEF HeldInv
  <2> QED BY <1>1, <1>3, <2>6 DEF ToldInv
<1> QED BY <1>2, <1>7, <1>8, <1>9, <1>10

\* The message about the run says of the machines left on what release found.
LEMMA NotifyResultStep ==
  ASSUME NotifyInv, NotifyResult
  PROVE  NotifyInv'
<1> USE DEF NotifyInv, OutsideRests, fixed
<1>1. /\ UNCHANGED <<managed, subject, restarted, burning, fate, box, runRow, steps, at, held,
                     left, acquired, handedOn>>
      /\ stage = "release" /\ stage' = "over" /\ held = <<>> /\ ~restarted
  BY DEF NotifyResult, Running, ToldInv
<1>2. /\ ResultText \in Texts /\ ResultText.left = (left # {})
      /\ (left # {}) \in BOOLEAN
  BY DEF ResultText, Texts
<1>3. send["worker"].pc = "idle" /\ "worker" \in Sender /\ "startup" \in Sender
  BY <1>1 DEF ToldInv, Sender
<1>4. CASE UNCHANGED send
  <2>1. DeliveryInv'
    BY <1>1, <1>4 DEF DeliveryInv, SendTypeOK, CaptureInv, IdleInv, EachChannelOnItsOwn, OwnResult
  <2>2. send'["worker"].pc = "idle" /\ send'["startup"] = send["startup"]
    BY <1>3, <1>4
  <2> QED
    BY <1>1, <2>1, <2>2
    DEF CycleTypeOK, StepsInv, TakenInv, ToldInv, HeldInv, HandedBack, Settled, BeforeEnd,
        Waiting, Releasing, Used
<1>5. ASSUME NEW d, d = Dispatched(ResultText) \/ d = Skipped(ResultText),
             send' = [send EXCEPT !["worker"] = d]
      PROVE  NotifyInv'
  <2>1. fate' = [fate EXCEPT !["worker"] = Untouched]
    BY <1>1, <1>3 DEF DeliveryInv, IdleInv, SendTypeOK
  <2>2. DeliveryInv'
    BY <1>2, <1>3, <1>5, <2>1, DispatchStep
  <2>3. d.text = ResultText
    BY <1>5, DispatchedIs
  <2>4. send'["worker"].text.left = (left # {}) /\ send'["startup"] = send["startup"]
    BY <1>2, <1>3, <1>5, <2>3 DEF DeliveryInv, SendTypeOK
  <2>5. CycleTypeOK' /\ StepsInv' /\ TakenInv'
    BY <1>1 DEF CycleTypeOK, StepsInv, TakenInv, BeforeEnd, Waiting, Releasing, Used
  <2>6. HeldInv'
    BY <1>1 DEF ToldInv, HeldInv, HandedBack, Settled
  <2>7. ToldInv'
    BY <1>1, <2>4, <2>6 DEF ToldInv
  <2> QED BY <2>2, <2>5, <2>7
<1> QED BY <1>4, <1>5 DEF NotifyResult

\* Deliveries leave the run as it is, and the messages about it.
LEMMA SendingStep ==
  ASSUME NotifyInv, DeliveryNext
  PROVE  NotifyInv'
<1> USE DEF NotifyInv, fixed, cycleVars
<1>1. UNCHANGED <<managed, subject, restarted, burning, box, runRow, steps, stage, at, held, left,
                  acquired, handedOn>>
  BY DEF DeliveryNext
<1>2. DeliveryInv'
  BY DeliveryStep
<1>3. \A t \in {"worker", "startup"} :
        send'[t].text = send[t].text /\ (send'[t].pc = "idle" <=> send[t].pc = "idle")
  BY DeliveryKeepsTexts DEF Sender
<1>4. CycleTypeOK' /\ StepsInv' /\ TakenInv'
  BY <1>1 DEF CycleTypeOK, StepsInv, TakenInv, WaitRows, Label, Multi, Used
<1>5. HeldInv' <=> HeldInv
  BY <1>1 DEF HeldInv, HandedBack, Settled
<1>6. ToldInv'
  BY <1>1, <1>3, <1>5 DEF ToldInv
<1> QED BY <1>2, <1>4, <1>6

\* What the restart reads in the rows of a run that was cut short.
LEMMA SweptIs ==
  ASSUME CycleTypeOK
  PROVE  /\ SweptSteps(steps) \in Seq(Steps) /\ DOMAIN SweptSteps(steps) = 1 .. Len(steps)
         /\ \A i \in 1 .. Len(steps) :
              /\ SweptSteps(steps)[i].name = steps[i].name
              /\ SweptSteps(steps)[i].label = steps[i].label
              /\ SweptSteps(steps)[i].status = "success" <=> steps[i].status = "success"
<1> DEFINE F(i) == IF steps[i].status = "running" THEN [steps[i] EXCEPT !.status = "failure"]
                   ELSE steps[i]
<1>1. steps \in Seq(Steps) /\ Len(steps) \in Nat /\ DOMAIN steps = 1 .. Len(steps)
  BY DEF CycleTypeOK
<1>2. ASSUME NEW i \in 1 .. Len(steps)
      PROVE  /\ F(i) \in Steps /\ F(i).name = steps[i].name /\ F(i).label = steps[i].label
             /\ F(i).status = "success" <=> steps[i].status = "success"
  <2>1. steps[i] \in Steps
    BY <1>1
  <2> QED BY <2>1 DEF Steps
<1>3. SweptSteps(steps) = [i \in 1 .. Len(steps) |-> F(i)]
  BY <1>1 DEF SweptSteps
<1> HIDE DEF F
<1>4. SweptSteps(steps) \in [1 .. Len(steps) -> Steps]
  BY <1>2, <1>3
<1>5. SweptSteps(steps) \in Seq(Steps)
  BY <1>1, <1>4, SeqDef
<1> QED BY <1>2, <1>3, <1>5

LEMMA LeftOnIsRead ==
  ASSUME CycleTypeOK, TakenInv, WaitRows
  PROVE  /\ PbsLeftOn(SweptSteps(steps)) \in BOOLEAN
         /\ acquired \intersect managed # {} => PbsLeftOn(SweptSteps(steps))
         /\ PbsLeftOn(SweptSteps(steps)) =>
              acquired # {} /\ (subject.route => acquired \intersect managed # {})
<1> DEFINE rows == SweptSteps(steps)
           Done(name) == {rows[i].label : i \in {j \in DOMAIN rows :
                            StepIs(rows[j], name) /\ rows[j].status = "success"}}
           Ours(label) == \/ label \in managed
                          \/ label = NoLabel /\ (subject.route => subject.devices[1] \in managed)
<1>1. PbsLeftOn(rows) <=> \E label \in Done("wait") \ Done("poweroff") : Ours(label)
  BY DEF PbsLeftOn
<1>2. Done("poweroff") = {}
  BY SweptIs DEF WaitRows, StepIs
<1>3. Done("wait") = {Label(d) : d \in acquired}
  <2>1. ASSUME NEW x \in Done("wait")
        PROVE  \E d \in acquired : x = Label(d)
    <3>1. PICK i \in 1 .. Len(steps) : x = rows[i].label /\ rows[i].status = "success"
      BY SweptIs
    <3>2. x = steps[i].label /\ steps[i].status = "success"
      BY <3>1, SweptIs
    <3> QED BY <3>2 DEF WaitRows
  <2>2. ASSUME NEW d \in acquired
        PROVE  Label(d) \in Done("wait")
    <3>1. PICK i \in 1 .. Len(steps) : steps[i].status = "success" /\ steps[i].label = Label(d)
      BY DEF WaitRows
    <3>2. /\ i \in DOMAIN rows /\ rows[i].name = "wait" /\ rows[i].status = "success"
          /\ rows[i].label = Label(d)
      BY <3>1, SweptIs DEF WaitRows
    <3> QED BY <3>2 DEF StepIs
  <2> QED BY <2>1, <2>2
<1> HIDE DEF Done
<1>4. PbsLeftOn(rows) <=> \E d \in acquired : Ours(Label(d))
  BY <1>1, <1>2, <1>3
<1>5. /\ acquired \subseteq Used /\ Used \subseteq Device /\ managed \subseteq Device
      /\ subject \in Subjects
  BY DevicesAre DEF TakenInv, CycleTypeOK
<1>6. ASSUME NEW d \in acquired
      PROVE  /\ Label(d) = d \/ (Label(d) = NoLabel /\ d = subject.devices[1])
             /\ d \in managed => Ours(Label(d))
             /\ Ours(Label(d)) /\ subject.route => d \in managed
  <2>1. d \in Device /\ d \in Used
    BY <1>5
  <2>2. CASE Label(d) = d
    BY <1>5, <2>1, <2>2, NotifyAssumption
  <2>3. CASE Label(d) = NoLabel /\ Len(subject.devices) = 1
    <3>1. d = subject.devices[1]
      BY <2>1, <2>3 DEF Used
    <3> QED BY <1>5, <2>3, <3>1, NotifyAssumption
  <2> QED BY <2>1, <2>2, <2>3, LabelIs
<1> HIDE DEF Ours
<1>7. PbsLeftOn(rows) \in BOOLEAN
  BY DEF PbsLeftOn
<1> QED BY <1>4, <1>6, <1>7

\* A restart: the alert about the run that was cut short is built from its rows.
LEMMA RestartStep ==
  ASSUME NotifyInv, Restart
  PROVE  NotifyInv'
<1> USE DEF NotifyInv, fixed
<1>1. /\ UNCHANGED <<managed, subject, box, at, acquired, handedOn>>
      /\ restarted' = TRUE /\ stage' = "over" /\ held' = <<>> /\ left' = {}
      /\ burning' = {d \in managed \intersect acquired : stage # "over" /\ box[d] = "on"}
      /\ steps' = IF runRow = "running" THEN SweptSteps(steps) ELSE steps
      /\ runRow' = IF runRow = "running" THEN "failure" ELSE runRow
      /\ fate' = [s \in Sender |-> Untouched]
  BY DEF Restart
<1> DEFINE text == InterruptedText(steps')
<1>2. PICK d \in IF runRow = "running" THEN {Dispatched(text), Skipped(text)} ELSE {Idle} :
        send' = [s \in Sender |-> IF s = "startup" THEN d ELSE Idle]
  BY DEF Restart
<1>3. /\ send' = [s \in Sender |-> IF s = "startup" THEN d ELSE Idle]
      /\ send'["startup"] = d /\ send'["worker"] = Idle
  BY <1>2 DEF Sender
<1>4. runRow = "running" => WaitRows /\ text.left = PbsLeftOn(SweptSteps(steps)) /\ text \in Texts
  <2>1. SUFFICES ASSUME runRow = "running"
                 PROVE  WaitRows /\ text.left = PbsLeftOn(SweptSteps(steps)) /\ text \in Texts
    OBVIOUS
  <2>2. WaitRows
    BY <2>1 DEF StepsInv
  <2>3. steps' = SweptSteps(steps)
    BY <1>1, <2>1
  <2>4. text = [kind |-> "interrupted", left |-> PbsLeftOn(SweptSteps(steps))]
    <3>1. PbsLeftOn(steps') = PbsLeftOn(SweptSteps(steps))
      BY <2>3
    <3> QED BY <3>1 DEF InterruptedText
  <2>5. PbsLeftOn(SweptSteps(steps)) \in BOOLEAN
    BY <2>2, LeftOnIsRead
  <2> HIDE DEF text
  <2> QED BY <2>2, <2>4, <2>5 DEF Texts
<1> HIDE DEF text
<1>5. /\ d \in Dispatches /\ d.pc \in {"idle", "add", "skipped"} /\ d.captured = <<>>
      /\ d.pc # "idle" => runRow = "running" /\ d.text = text
  <2>1. CASE runRow = "running"
    <3>1. d = Dispatched(text) \/ d = Skipped(text)
      BY <1>2, <2>1
    <3>2. CASE d = Dispatched(text)
      BY <1>4, <2>1, <3>2, IdleIsDispatch, DispatchedIs
    <3>3. CASE d = Skipped(text)
      BY <1>4, <2>1, <3>3, IdleIsDispatch, DispatchedIs
    <3> QED BY <3>1, <3>2, <3>3
  <2>2. CASE runRow # "running"
    <3>1. d = Idle
      BY <1>2, <2>2
    <3> QED BY <2>2, <3>1, IdleIsDispatch, DispatchedIs
  <2> QED BY <2>1, <2>2
<1>6. DeliveryInv'
  <2>1. SendTypeOK'
    BY <1>1, <1>3, <1>5, IdleIsDispatch DEF SendTypeOK
  <2>2. \A s \in Sender : /\ send'[s].pc \in {"idle", "add", "skipped"}
                          /\ send'[s].captured = <<>> /\ fate'[s] = Untouched
    BY <1>1, <1>3, <1>5, DispatchedIs
  <2>3. CaptureInv' /\ IdleInv'
    BY <2>2, DispatchedIs DEF CaptureInv, IdleInv
  <2>4. EachChannelOnItsOwn'
    BY <2>2 DEF EachChannelOnItsOwn
  <2> QED BY <2>1, <2>3, <2>4 DEF DeliveryInv
<1>7. CycleTypeOK'
  <2>1. steps' \in Seq(Steps)
    BY <1>1, SweptIs DEF CycleTypeOK
  <2>2. burning' \subseteq Device
    BY <1>1 DEF CycleTypeOK
  <2>3. held' \in Seq(Device)
    BY <1>1
  <2> QED BY <1>1, <2>1, <2>2, <2>3 DEF CycleTypeOK
<1>8. StepsInv' /\ TakenInv'
  BY <1>1 DEF StepsInv, TakenInv, BeforeEnd, Waiting, Used
<1>9. ToldInv'
  <2>1. send'["worker"].pc = "idle"
    BY <1>3, DispatchedIs
  <2>2. ASSUME send'["startup"].pc # "idle"
        PROVE  /\ burning' # {} => send'["startup"].text.left
               /\ send'["startup"].text.left =>
                    acquired # {} /\ (subject.route => acquired \intersect managed # {})
    <3>1. runRow = "running" /\ send'["startup"].text = text
      BY <1>3, <1>5, <2>2
    <3>2. send'["startup"].text.left = PbsLeftOn(SweptSteps(steps)) /\ WaitRows
      BY <1>4, <3>1
    <3>3. burning' # {} => acquired \intersect managed # {}
      BY <1>1
    <3> QED BY <3>2, <3>3, LeftOnIsRead
  <2> QED BY <1>1, <2>1, <2>2 DEF ToldInv
<1> QED BY <1>6, <1>7, <1>8, <1>9

LEMMA NotifyInitially == NotifyInit => NotifyInv
<1> SUFFICES ASSUME NotifyInit
             PROVE  NotifyInv
  OBVIOUS
<1>1. DeliveryInv
  <2>1. SendTypeOK
    BY IdleIsDispatch DEF NotifyInit, SendTypeOK
  <2>2. \A s \in Sender : send[s] = Idle /\ fate[s] = Untouched
    BY DEF NotifyInit
  <2> QED
    BY <2>1, <2>2, DispatchedIs DEF DeliveryInv, CaptureInv, IdleInv, EachChannelOnItsOwn
<1>2. CycleTypeOK
  <2>1. at \in 1 .. Len(subject.devices)
    <3>1. subject \in Subjects /\ at = 1
      BY DEF NotifyInit
    <3>2. Len(subject.devices) \in {1, 2}
      BY <3>1, DevicesAre
    <3> QED BY <3>1, <3>2
  <2>2. box \in [Device -> {"off", "waking", "on"}] /\ managed \subseteq Device
    BY DEF NotifyInit
  <2>3. steps \in Seq(Steps) /\ held \in Seq(Device)
    BY DEF NotifyInit
  <2>4. acquired \union handedOn \union left \union burning \subseteq Device
    BY DEF NotifyInit
  <2> QED BY <2>1, <2>2, <2>3, <2>4 DEF NotifyInit, CycleTypeOK
<1>3. StepsInv /\ TakenInv
  BY DEF NotifyInit, StepsInv, TakenInv, BeforeEnd, Waiting
<1>4. ToldInv
  BY DispatchedIs DEF NotifyInit, ToldInv, Sender
<1> QED BY <1>1, <1>2, <1>3, <1>4 DEF NotifyInv

LEMMA NotifyStep ==
  ASSUME NotifyInv, [NotifyNext]_notifyVars
  PROVE  NotifyInv'
<1>1. CASE UNCHANGED notifyVars
  <2> USE <1>1 DEF notifyVars, fixed, cycleVars, sendVars, NotifyInv
  <2>1. DeliveryInv'
    BY DEF DeliveryInv, SendTypeOK, CaptureInv, IdleInv, EachChannelOnItsOwn, OwnResult
  <2>2. CycleTypeOK' /\ StepsInv' /\ TakenInv'
    BY DEF CycleTypeOK, StepsInv, WaitRows, Label, Multi, TakenInv, Used
  <2>3. HeldInv' <=> HeldInv
    BY DEF HeldInv, HandedBack, Settled
  <2>4. ToldInv'
    BY <2>3 DEF ToldInv
  <2> QED BY <2>1, <2>2, <2>4
<1> QED
  BY <1>1, QuietStep, StartWaitStep, CloseWaitStep, RowStep, PowerOffStep, NotifyResultStep,
     SendingStep, RestartStep
  DEF NotifyNext, RunNext

\* What the invariant says of the reports and the messages.
LEMMA NotifyShows ==
  ASSUME NotifyInv
  PROVE  EachChannelOnItsOwn /\ LeftOnIsTold
<1> USE DEF NotifyInv
<1>1. ASSUME send["worker"].pc # "idle"
      PROVE  LET due == (acquired \intersect managed) \ handedOn
             IN /\ (\E d \in due : box[d] = "on") => send["worker"].text.left
                /\ send["worker"].text.left => due # {}
  <2>1. HeldInv /\ held = <<>> /\ send["worker"].text.left = (left # {})
    BY <1>1 DEF ToldInv, CycleTypeOK
  <2>2. \A d \in acquired : Settled(d)
    BY <2>1 DEF HeldInv
  <2>3. \A d \in (acquired \intersect managed) \ handedOn : box[d] = "on" => d \in left
    BY <2>2 DEF Settled
  <2>4. left \subseteq (acquired \intersect managed) \ handedOn
    BY <2>1 DEF HeldInv
  <2> QED BY <2>1, <2>3, <2>4
<1> QED BY <1>1 DEF LeftOnIsTold, DeliveryInv, ToldInv

-----------------------------------------------------------------------------
(***************************************************************************)
(* The two side by side.                                                   *)
(***************************************************************************)
StartUpInv ==
  /\ MissedInv
  /\ news = "missed" => NotifyRest
  /\ news # "missed" => NotifyInv

LEMMA StartUpInitially == StartUpInit => StartUpInv /\ AlarmInv
BY MissedInit, NotifyInitially DEF StartUpInit, StartUpInv

LEMMA StartUpStep == StartUpInv /\ [StartUpNext]_<<vars, notifyVars, news>> => StartUpInv'
<1> SUFFICES ASSUME StartUpInv, [StartUpNext]_<<vars, notifyVars, news>>
             PROVE  StartUpInv'
  OBVIOUS
<1>1. [Next]_vars /\ [NotifyNext]_notifyVars /\ news' = news
      /\ (news = "missed" => UNCHANGED notifyVars)
  BY DEF StartUpNext
<1>2. MissedInv'
  BY <1>1, MissedStep DEF StartUpInv
<1>3. CASE news = "missed"
  <2>1. NotifyRest'
    BY <1>1, <1>3 DEF StartUpInv, NotifyRest, notifyVars, fixed, cycleVars, sendVars
  <2> QED BY <1>1, <1>2, <1>3, <2>1 DEF StartUpInv
<1>4. CASE news # "missed"
  BY <1>1, <1>2, <1>4, NotifyStep DEF StartUpInv
<1> QED BY <1>3, <1>4

\* The fields of the missed-run check and of the run have the values they are meant to have.
THEOREM StartUpTypeCorrect == StartUpSpec => [](TypeOK /\ (news # "missed" => CycleTypeOK))
<1>1. StartUpInv => TypeOK /\ (news # "missed" => CycleTypeOK)
  BY DEF StartUpInv, MissedInv, NotifyInv
<1> QED BY <1>1, StartUpInitially, StartUpStep, PTL DEF StartUpSpec

\* core/catchup.py calls a fire missed only if the process was not there for it: with a clock
\* read when the check begins and a heartbeat file that can be written, for any schedules.
THEOREM ReportsAreTrue ==
  ASSUME ~LateClock, ~TouchFails
  PROVE  StartUpSpec => []NoFalseAlarm
<1>1. StartUpInv /\ AlarmInv /\ [StartUpNext]_<<vars, notifyVars, news>> => AlarmInv'
  BY AlarmStep DEF StartUpInv, StartUpNext
<1>2. AlarmInv => NoFalseAlarm
  BY DEF AlarmInv
<1> QED BY <1>1, <1>2, StartUpInitially, StartUpStep, PTL DEF StartUpSpec

\* core/catchup.py overlooks no route that was missed: with a clock read when the check begins,
\* whether or not the heartbeat file can be written, for any schedules.
THEOREM NothingMissedIsSilent ==
  ASSUME ~LateClock
  PROVE  StartUpSpec => MissedIsReported
<1> DEFINE Told ==
       \A r \in chkTodo \ chkTodo' :
         /\ pc = "up" /\ pc' = "up" /\ lastSeen # Never
         /\ anchor[r] \in 0 .. died /\ \E f \in config[r] : died < f /\ f <= bootAt
         => \E rep \in reports' : rep.route = r
<1>1. StartUpInv /\ [StartUpNext]_<<vars, notifyVars, news>> => [Told]_vars
  <2>1. SUFFICES ASSUME StartUpInv, [Next]_vars PROVE Told
    BY DEF StartUpNext
  <2> QED BY <2>1, ReportStep DEF StartUpInv
<1> QED BY <1>1, StartUpInitially, StartUpStep, PTL DEF StartUpSpec, MissedIsReported

\* notify/service.py: what a channel reports is what its own plugin did, whatever other threads
\* send meanwhile, for any list of channels.
THEOREM ReportsAreTheirOwn == StartUpSpec => []EachChannelOnItsOwn
<1>1. StartUpInv => EachChannelOnItsOwn
  <2>1. NotifyRest => EachChannelOnItsOwn
    BY DispatchedIs DEF NotifyRest, EachChannelOnItsOwn
  <2> QED BY <2>1, NotifyShows DEF StartUpInv
<1> QED BY <1>1, StartUpInitially, StartUpStep, PTL DEF StartUpSpec

\* notify/messages.py: the warning that a machine was left on is in a message exactly when it is
\* due, for any machines, whoever else uses them.
THEOREM MachinesLeftOnAreTold == StartUpSpec => []LeftOnIsTold
<1>1. StartUpInv => LeftOnIsTold
  <2>1. NotifyRest => LeftOnIsTold
    BY DispatchedIs DEF NotifyRest, LeftOnIsTold, Sender
  <2> QED BY <2>1, NotifyShows DEF StartUpInv
<1> QED BY <1>1, StartUpInitially, StartUpStep, PTL DEF StartUpSpec
=============================================================================
