--------------------------- MODULE ConfigEdit_proofs ---------------------------
(***************************************************************************)
(* Proofs about ConfigEdit, for any number of requests at a time, any       *)
(* routes, devices and schedules, and any bounds.                           *)
(***************************************************************************)
EXTENDS ConfigEdit, SequenceTheorems, FiniteSetTheorems, TLAPS

-----------------------------------------------------------------------------
(***************************************************************************)
(* Lists of items.                                                         *)
(***************************************************************************)
\* No id is in a list twice.
Unique(list) == \A i, j \in DOMAIN list : list[i].id = list[j].id => i = j

\* That is what the count of ids says.
LEMMA UniqueByCount ==
  ASSUME NEW S, NEW list \in Seq(S)
  PROVE  Cardinality(Ids(list)) = Len(list) <=> Unique(list)
<1> DEFINE n == Len(list)
           f == [i \in 1 .. n |-> list[i].id]
<1>1. n \in Nat /\ DOMAIN list = 1 .. n
  OBVIOUS
<1>2. IsFiniteSet(1 .. n) /\ Cardinality(1 .. n) = n
  BY <1>1, FS_Interval
<1>3. f \in Surjection(1 .. n, Ids(list))
  BY <1>1 DEF Surjection, Ids
<1>4. Cardinality(Ids(list)) = n <=> f \in Injection(1 .. n, Ids(list))
  BY <1>2, <1>3, FS_Surjection
<1>5. f \in Injection(1 .. n, Ids(list)) <=> Unique(list)
  BY <1>1, <1>3 DEF Injection, Surjection, IsInjective, Unique
<1> QED BY <1>4, <1>5

\* A finite set as a list: each of its elements once.
LEMMA ListOfSet ==
  ASSUME NEW S, IsFiniteSet(S)
  PROVE  /\ SetToSeq(S) \in Seq(S)
         /\ \A i, j \in DOMAIN SetToSeq(S) : SetToSeq(S)[i] = SetToSeq(S)[j] => i = j
         /\ \A x \in S : \E i \in DOMAIN SetToSeq(S) : SetToSeq(S)[i] = x
<1> DEFINE n == Cardinality(S)
           f == SetToSeq(S)
<1>1. n \in Nat /\ ExistsBijection(1 .. n, S)
  BY FS_CardinalityType
<1>2. PICK g \in [1 .. n -> S] : IsInjective(g)
  BY <1>1 DEF ExistsBijection, Bijection, Injection
<1>3. f \in [1 .. n -> S] /\ IsInjective(f)
  BY <1>2 DEF SetToSeq
<1>4. IsFiniteSet(1 .. n) /\ Cardinality(1 .. n) = n
  BY <1>1, FS_Interval
<1> HIDE DEF f
<1>5. f \in Injection(1 .. n, S)
  BY <1>3 DEF Injection
<1>6. f \in Surjection(1 .. n, S)
  BY <1>4, <1>5, FS_Injection
<1>7. f \in Seq(S) /\ DOMAIN f = 1 .. n
  BY <1>1, <1>3
<1>8. \A x \in S : \E i \in DOMAIN f : f[i] = x
  BY <1>6 DEF Surjection
<1>9. \A i, j \in DOMAIN f : f[i] = f[j] => i = j
  BY <1>3 DEF IsInjective
<1> QED BY <1>7, <1>8, <1>9 DEF f

\* Removing one item of a list.
LEMMA WithoutOne ==
  ASSUME NEW S, NEW s \in Seq(S), NEW i \in DOMAIN s
  PROVE  /\ RemoveAt(s, i) \in Seq(S)
         /\ Len(RemoveAt(s, i)) = Len(s) - 1
         /\ \A j \in 1 .. Len(s) - 1 :
               RemoveAt(s, i)[j] = IF j < i THEN s[j] ELSE s[j + 1]
<1> DEFINE a == SubSeq(s, 1, i - 1)
           b == SubSeq(s, i + 1, Len(s))
<1>1. i \in 1 .. Len(s) /\ Len(s) \in Nat /\ \A j \in 1 .. Len(s) : s[j] \in S
  OBVIOUS
<1>2. a \in Seq(S) /\ Len(a) = i - 1 /\ \A j \in 1 .. i - 1 : a[j] = s[j]
  <2>1. \A j \in 1 .. i - 1 : s[j] \in S
    BY <1>1
  <2> QED BY <1>1, <2>1, SubSeqProperties
<1>3. b \in Seq(S) /\ Len(b) = Len(s) - i /\ \A j \in 1 .. Len(s) - i : b[j] = s[j + i]
  <2>1. \A j \in i + 1 .. Len(s) : s[j] \in S
    BY <1>1
  <2> QED BY <1>1, <2>1, SubSeqProperties
<1>4. RemoveAt(s, i) = a \o b
  BY DEF RemoveAt
<1> HIDE DEF a, b
<1>5. /\ a \o b \in Seq(S) /\ Len(a \o b) = Len(a) + Len(b)
      /\ \A j \in 1 .. Len(a) + Len(b) :
           (a \o b)[j] = IF j <= Len(a) THEN a[j] ELSE b[j - Len(a)]
  BY <1>2, <1>3, ConcatProperties
<1>6. RemoveAt(s, i) \in Seq(S) /\ Len(RemoveAt(s, i)) = Len(s) - 1
  BY <1>1, <1>2, <1>3, <1>4, <1>5
<1>7. ASSUME NEW j \in 1 .. Len(s) - 1
      PROVE  RemoveAt(s, i)[j] = IF j < i THEN s[j] ELSE s[j + 1]
  <2> DEFINE la == Len(a)
             lb == Len(b)
  <2>1. la = i - 1 /\ la + lb = Len(s) - 1 /\ i \in Nat
    BY <1>1, <1>2, <1>3
  <2>2. RemoveAt(s, i)[j] = IF j <= la THEN a[j] ELSE b[j - la]
    BY <1>4, <1>5, <2>1
  <2> HIDE DEF la, lb
  <2>3. RemoveAt(s, i)[j] = IF j <= i - 1 THEN a[j] ELSE b[j - (i - 1)]
    BY <2>1, <2>2
  <2>4. CASE j < i
    BY <1>1, <1>2, <2>3, <2>4
  <2>5. CASE j >= i
    <3>1. j - (i - 1) \in 1 .. Len(s) - i
      BY <1>1, <2>5
    <3>2. b[j - (i - 1)] = s[(j - (i - 1)) + i]
      BY <1>3, <3>1
    <3> QED BY <1>1, <2>3, <2>5, <3>2
  <2> QED BY <1>1, <2>4, <2>5
<1> QED BY <1>6, <1>7

-----------------------------------------------------------------------------
(***************************************************************************)
(* Types.                                                                  *)
(***************************************************************************)
\* What a list of a section holds.
ItemsOf(sec) == IF sec = "routes" THEN RouteItem ELSE DeviceItem

\* The bounds are numbers.
LEMMA Bounds == MaxEdits \in Nat /\ MaxSaveFaults \in Nat /\ MaxRestarts \in Nat
  BY EditAssumption

\* The lists of a configuration, and a configuration with one of them replaced.
LEMMA ConfigLists ==
  ASSUME NEW c \in Config, NEW sec \in Section
  PROVE  /\ c[sec] \in Seq(ItemsOf(sec))
         /\ c["routes"] = c.routes /\ c["devices"] = c.devices
         /\ \A p \in Seq(ItemsOf(sec)) :
              /\ [c EXCEPT ![sec] = p] \in Config
              /\ [c EXCEPT ![sec] = p][sec] = p
              /\ \A other \in Section \ {sec} : [c EXCEPT ![sec] = p][other] = c[other]
              /\ [c EXCEPT ![sec] = p].enabled = c.enabled
  BY DEF Config, Section, ItemsOf

\* What is asked of a section is about its items.
LEMMA AskType ==
  ASSUME NEW a \in Ask, a.op # "toggle"
  PROVE  /\ a.op \in {"put", "drop"} /\ a.sec \in Section
         /\ a.op = "put" => a.item \in ItemsOf(a.sec) /\ a \in Put
         /\ IdOf(a) \in IF a.sec = "routes" THEN Routes ELSE Devices
         /\ a.op = "drop" => a.id = IdOf(a)
<1>1. CASE a \in Put
  <2>1. CASE \E x \in RouteItem : a = [op |-> "put", sec |-> "routes", item |-> x]
    BY <2>1, <1>1 DEF Section, ItemsOf, IdOf, RouteItem
  <2>2. CASE \E x \in DeviceItem : a = [op |-> "put", sec |-> "devices", item |-> x]
    BY <2>2, <1>1 DEF Section, ItemsOf, IdOf, DeviceItem
  <2> QED BY <1>1, <2>1, <2>2 DEF Put
<1>2. CASE a \in Drop
  BY <1>2 DEF Drop, Section, ItemsOf, IdOf
<1>3. CASE a \in Toggle
  BY <1>3 DEF Toggle
<1> QED BY <1>1, <1>2, <1>3 DEF Ask

\* The item at a position of a list is set, appended or dropped.
LEMMA EditedType ==
  ASSUME NEW a \in Ask, a.op # "toggle", NEW list \in Seq(ItemsOf(a.sec)),
         NEW i \in 0 .. Len(list), a.op = "drop" => i > 0
  PROVE  Edited(list, a, i) \in Seq(ItemsOf(a.sec))
<1>1. CASE a.op = "drop"
  <2>1. i \in DOMAIN list
    BY <1>1
  <2>2. Edited(list, a, i) = RemoveAt(list, i)
    BY <1>1 DEF Edited, Without
  <2> QED BY <2>1, <2>2, WithoutOne
<1>2. CASE a.op = "put" /\ i = 0
  <2>1. Edited(list, a, i) = Append(list, a.item)
    BY <1>2 DEF Edited
  <2> QED BY <1>2, <2>1, AskType
<1>3. CASE a.op = "put" /\ i > 0
  <2>1. Edited(list, a, i) = [list EXCEPT ![i] = a.item]
    BY <1>3 DEF Edited
  <2>2. i \in 1 .. Len(list) /\ a.item \in ItemsOf(a.sec)
    BY <1>3, AskType
  <2> QED BY <2>1, <2>2
<1> QED BY <1>1, <1>2, <1>3, AskType

\* What is armed are pairs of routes and schedules.
LEMMA ArmableType ==
  ASSUME NEW c \in Config
  PROVE  Armable(c) \subseteq Routes \X Crons
<1>1. \A i \in DOMAIN c.routes : c.routes[i] \in RouteItem
  BY DEF Config
<1>2. \A x \in RouteItem : <<x.id, x.cron>> \in Routes \X Crons
  BY DEF RouteItem
<1> QED BY <1>1, <1>2 DEF Armable

\* What the types of a request in progress lean on.
TypeInv ==
  /\ TypeOK
  /\ \A t \in Threads :
       /\ pc[t] \in {"dump", "build"} => ask[t].op # "toggle"
       /\ pc[t] = "dump" /\ ask[t].op = "drop" => index[t] > 0
       /\ pc[t] = "build" => part[t] \in Seq(ItemsOf(ask[t].sec))

\* The item of an id is one of the list, or none.
LEMMA ItemOfType ==
  ASSUME NEW S, NEW list \in Seq(S), NEW id
  PROVE  ItemOf(list, id) \in S \cup {NoItem}
<1>1. CASE id \in Ids(list)
  <2>1. \E i \in DOMAIN list : list[i].id = id
    BY <1>1 DEF Ids
  <2>2. (CHOOSE i \in DOMAIN list : list[i].id = id) \in DOMAIN list
    BY <2>1
  <2> QED BY <1>1, <2>2 DEF ItemOf
<1>2. CASE id \notin Ids(list)
  BY <1>2 DEF ItemOf
<1> QED BY <1>1, <1>2

\* The first configuration: each route and each device once, every route on the first device.
FirstDevice == CHOOSE x \in Devices : TRUE
FirstCron == CHOOSE x \in Crons : TRUE
FirstRoutes == SetToSeq({[id |-> r, dev |-> FirstDevice, cron |-> FirstCron] : r \in Routes})
FirstConfig == [routes |-> FirstRoutes, devices |-> SetToSeq(DeviceItem), enabled |-> TRUE]

\* The configuration of the first start is valid.
LEMMA FirstIsValid == FirstConfig \in Config /\ Valid(FirstConfig)
<1> DEFINE R == {[id |-> r, dev |-> FirstDevice, cron |-> FirstCron] : r \in Routes}
<1>1. FirstDevice \in Devices /\ FirstCron \in Crons
  BY EditAssumption DEF FirstDevice, FirstCron
<1>2. IsFiniteSet(R)
  <2>1. [r \in Routes |-> [id |-> r, dev |-> FirstDevice, cron |-> FirstCron]] \in Surjection(Routes, R)
    BY DEF Surjection
  <2> QED BY <2>1, EditAssumption, FS_Surjection
<1>3. IsFiniteSet(DeviceItem)
  <2>1. [d \in Devices |-> [id |-> d]] \in Surjection(Devices, DeviceItem)
    <3>1. \A x \in DeviceItem : x = [id |-> x.id] /\ x.id \in Devices
      BY DEF DeviceItem
    <3>2. \A d \in Devices : [id |-> d] \in DeviceItem
      BY DEF DeviceItem
    <3> QED BY <3>1, <3>2 DEF Surjection
  <2> QED BY <2>1, EditAssumption, FS_Surjection
<1>4. R \subseteq RouteItem
  BY <1>1 DEF RouteItem
<1>5. /\ FirstRoutes \in Seq(R)
      /\ \A i, j \in DOMAIN FirstRoutes : FirstRoutes[i] = FirstRoutes[j] => i = j
  BY <1>2, ListOfSet DEF FirstRoutes
<1> DEFINE D == SetToSeq(DeviceItem)
<1>6. /\ D \in Seq(DeviceItem)
      /\ \A i, j \in DOMAIN D : D[i] = D[j] => i = j
      /\ \A x \in DeviceItem : \E i \in DOMAIN D : D[i] = x
  BY <1>3, ListOfSet
<1> HIDE DEF D
<1>7. FirstRoutes \in Seq(RouteItem)
  BY <1>4, <1>5
<1>8. FirstConfig = [routes |-> FirstRoutes, devices |-> D, enabled |-> TRUE]
  BY DEF FirstConfig, D
<1>9. FirstConfig \in Config
  BY <1>6, <1>7, <1>8 DEF Config
<1>10. Unique(FirstRoutes)
  <2>1. \A i \in DOMAIN FirstRoutes : FirstRoutes[i] \in R
    BY <1>5
  <2>2. \A x, y \in R : x.id = y.id => x = y
    OBVIOUS
  <2> QED BY <1>5, <2>1, <2>2 DEF Unique
<1>11. Unique(D)
  <2>1. \A i \in DOMAIN D : D[i] \in DeviceItem
    BY <1>6
  <2>2. \A x, y \in DeviceItem : x.id = y.id => x = y
    BY DEF DeviceItem
  <2> QED BY <1>6, <2>1, <2>2 DEF Unique
<1>12. ASSUME NEW i \in DOMAIN FirstRoutes
       PROVE  FirstRoutes[i].dev \in Ids(D)
  <2>1. FirstRoutes[i].dev = FirstDevice
    BY <1>5
  <2>2. [id |-> FirstDevice] \in DeviceItem
    BY <1>1 DEF DeviceItem
  <2>3. PICK j \in DOMAIN D : D[j] = [id |-> FirstDevice]
    BY <1>6, <2>2
  <2> QED BY <2>1, <2>3 DEF Ids
<1>13. /\ Cardinality(Ids(FirstRoutes)) = Len(FirstRoutes)
       /\ Cardinality(Ids(D)) = Len(D)
  BY <1>6, <1>7, <1>10, <1>11, UniqueByCount
<1> QED BY <1>8, <1>9, <1>12, <1>13 DEF Valid, Section

\* The start.
LEMMA InitFirst ==
  Init => /\ objects = <<FirstConfig>> /\ disk = FirstConfig /\ armed = Armable(FirstConfig)
          /\ acked = [r \in Routes |-> {ItemOf(FirstConfig.routes, r)}]
  BY DEF Init, FirstConfig, FirstRoutes, FirstDevice, FirstCron

\* Everything starts with its type.
LEMMA InitType == Init => TypeInv
<1> SUFFICES ASSUME Init PROVE TypeInv
  OBVIOUS
<1>1. objects = <<FirstConfig>> /\ FirstConfig \in Config
  BY InitFirst, FirstIsValid
<1>2. objects \in Seq(Config) /\ DOMAIN objects = {1} /\ disk \in Config
  BY <1>1, InitFirst
<1>3. armed \subseteq Routes \X Crons
  BY <1>1, InitFirst, ArmableType
<1>4. acked \in [Routes -> SUBSET (RouteItem \cup {NoItem})]
  <2>1. FirstConfig.routes \in Seq(RouteItem)
    BY <1>1 DEF Config
  <2>2. \A r \in Routes : ItemOf(FirstConfig.routes, r) \in RouteItem \cup {NoItem}
    BY <2>1, ItemOfType
  <2> QED BY <2>2, InitFirst
<1>5. ask \in [Threads -> Ask]
  BY DEF Init, Ask, Toggle
<1>6. part \in [Threads -> Seq(Item)]
  BY DEF Init
<1>7. /\ mem \in DOMAIN objects /\ lock \in Threads \cup {Nobody}
      /\ new \in [Threads -> DOMAIN objects]
      /\ pc \in [Threads -> Places] /\ index \in [Threads -> Nat]
      /\ todo \in [Threads -> SUBSET (Routes \X Crons)]
  BY <1>2 DEF Init, Places
<1>8. /\ {bindMount, overlapped, unsaved} \subseteq BOOLEAN
      /\ edits \in 0 .. MaxEdits /\ saveFaults \in 0 .. MaxSaveFaults
      /\ restarts \in 0 .. MaxRestarts
  <2>1. bindMount \in BOOLEAN
    BY EditAssumption DEF Init
  <2>2. overlapped \in BOOLEAN /\ unsaved \in BOOLEAN
    BY DEF Init
  <2>3. edits = 0 /\ saveFaults = 0 /\ restarts = 0
    BY DEF Init
  <2> QED BY <2>1, <2>2, <2>3, Bounds
<1>9. \A t \in Threads : pc[t] = "idle"
  BY DEF Init
<1> QED BY <1>2, <1>3, <1>4, <1>5, <1>6, <1>7, <1>8, <1>9 DEF TypeInv, TypeOK

-----------------------------------------------------------------------------
\* The current configuration is one.
LEMMA CurrentType ==
  ASSUME TypeInv
  PROVE  config \in Config
  BY DEF TypeInv, TypeOK, config

\* A position that is looked up.
LEMMA IndexType ==
  ASSUME NEW S, NEW list \in Seq(S), NEW id
  PROVE  /\ IndexOf(list, id) \in 0 .. Len(list)
         /\ id \in Ids(list) <=> IndexOf(list, id) > 0
         /\ IndexOf(list, id) > 0 => list[IndexOf(list, id)].id = id
<1>1. CASE id \in Ids(list)
  <2>1. \E i \in DOMAIN list : list[i].id = id
    BY <1>1 DEF Ids
  <2>2. (CHOOSE i \in DOMAIN list : list[i].id = id) \in DOMAIN list
        /\ list[CHOOSE i \in DOMAIN list : list[i].id = id].id = id
    BY <2>1
  <2> QED BY <1>1, <2>2 DEF IndexOf
<1>2. CASE id \notin Ids(list)
  BY <1>2 DEF IndexOf
<1> QED BY <1>1, <1>2

\* A request that moves to a place other than the two that lean on its lists.
LEMMA MovedType ==
  ASSUME TypeInv, NEW t \in Threads, NEW p \in Places \ {"dump", "build"}, Goto(t, p),
         \A u \in Threads \ {t} :
            ask'[u] = ask[u] /\ index'[u] = index[u] /\ part'[u] = part[u]
  PROVE  /\ pc' \in [Threads -> Places]
         /\ \A u \in Threads :
              /\ pc'[u] \in {"dump", "build"} => ask'[u].op # "toggle"
              /\ pc'[u] = "dump" /\ ask'[u].op = "drop" => index'[u] > 0
              /\ pc'[u] = "build" => part'[u] \in Seq(ItemsOf(ask'[u].sec))
<1>1. pc \in [Threads -> Places]
  BY DEF TypeInv, TypeOK
<1>2. pc'[t] = p /\ pc' \in [Threads -> Places] /\ \A u \in Threads \ {t} : pc'[u] = pc[u]
  BY <1>1 DEF Goto
<1>3. ASSUME NEW u \in Threads \ {t}
      PROVE  /\ pc'[u] \in {"dump", "build"} => ask'[u].op # "toggle"
             /\ pc'[u] = "dump" /\ ask'[u].op = "drop" => index'[u] > 0
             /\ pc'[u] = "build" => part'[u] \in Seq(ItemsOf(ask'[u].sec))
  BY <1>2, <1>3 DEF TypeInv
<1> QED BY <1>2, <1>3

\* A request that is answered.
LEMMA AnswerType ==
  ASSUME TypeInv, NEW t \in Threads, Answer(t), objects' = objects
  PROVE  /\ pc' \in [Threads -> Places] /\ ask' \in [Threads -> Ask]
         /\ index' \in [Threads -> Nat] /\ part' \in [Threads -> Seq(Item)]
         /\ todo' \in [Threads -> SUBSET (Routes \X Crons)]
         /\ new' \in [Threads -> DOMAIN objects']
         /\ \A u \in Threads :
              /\ pc'[u] \in {"dump", "build"} => ask'[u].op # "toggle"
              /\ pc'[u] = "dump" /\ ask'[u].op = "drop" => index'[u] > 0
              /\ pc'[u] = "build" => part'[u] \in Seq(ItemsOf(ask'[u].sec))
<1>1. /\ index \in [Threads -> Nat] /\ part \in [Threads -> Seq(Item)] /\ ask \in [Threads -> Ask]
      /\ todo \in [Threads -> SUBSET (Routes \X Crons)]
      /\ new \in [Threads -> DOMAIN objects]
  BY DEF TypeInv, TypeOK
<1>2. /\ index' \in [Threads -> Nat] /\ part' \in [Threads -> Seq(Item)] /\ ask' = ask
      /\ todo' \in [Threads -> SUBSET (Routes \X Crons)] /\ new' = new
      /\ \A u \in Threads \ {t} : index'[u] = index[u] /\ part'[u] = part[u]
  BY <1>1 DEF Answer
<1>3. "idle" \in Places \ {"dump", "build"} /\ Goto(t, "idle")
  BY DEF Places, Answer
<1> QED BY <1>1, <1>2, <1>3, MovedType

\* The arrival of a request.
LEMMA ArriveType ==
  ASSUME TypeInv, NEW t \in Threads, Arrive(t)
  PROVE  TypeInv'
<1>0. /\ pc \in [Threads -> Places] /\ ask \in [Threads -> Ask] /\ index \in [Threads -> Nat]
      /\ edits \in 0 .. MaxEdits /\ overlapped \in BOOLEAN
  BY DEF TypeInv, TypeOK
<1>1. PICK a \in Ask :
        /\ ask' = [ask EXCEPT ![t] = a]
        /\ \/ a.op = "toggle" /\ Goto(t, "replace") /\ UNCHANGED index
           \/ /\ a.op # "toggle" /\ Goto(t, "dump")
              /\ a.op = "drop" => IdOf(a) \in Ids(config[a.sec])
              /\ index' = [index EXCEPT ![t] = IndexOf(config[a.sec], IdOf(a))]
  BY DEF Arrive
<1>2. /\ ask' \in [Threads -> Ask] /\ ask'[t] = a
      /\ \A u \in Threads \ {t} : ask'[u] = ask[u]
  BY <1>0, <1>1
<1>3. /\ index' \in [Threads -> Nat]
      /\ \A u \in Threads \ {t} : index'[u] = index[u]
      /\ a.op = "drop" => index'[t] > 0
  <2>1. CASE a.op = "toggle" /\ UNCHANGED index
    BY <1>0, <2>1
  <2>2. CASE /\ a.op # "toggle"
             /\ a.op = "drop" => IdOf(a) \in Ids(config[a.sec])
             /\ index' = [index EXCEPT ![t] = IndexOf(config[a.sec], IdOf(a))]
    <3>1. config[a.sec] \in Seq(ItemsOf(a.sec))
      BY <2>2, AskType, CurrentType, ConfigLists
    <3>2. /\ IndexOf(config[a.sec], IdOf(a)) \in Nat
          /\ a.op = "drop" => IndexOf(config[a.sec], IdOf(a)) > 0
      BY <2>2, <3>1, IndexType
    <3> QED BY <1>0, <2>2, <3>2
  <2> QED BY <1>1, <2>1, <2>2
<1>4. /\ pc' \in [Threads -> Places]
      /\ \A u \in Threads \ {t} : pc'[u] = pc[u]
      /\ pc'[t] \in {"replace", "dump"} /\ (pc'[t] = "dump" => a.op # "toggle")
  BY <1>0, <1>1 DEF Goto, Places
<1>5. UNCHANGED <<objects, mem, disk, lock, armed, part, new, todo, acked, unsaved, bounds>>
  BY DEF Arrive
<1>6. /\ edits' \in 0 .. MaxEdits /\ overlapped' \in BOOLEAN
  BY <1>0, Bounds DEF Arrive
<1>7. TypeOK'
  BY <1>2, <1>3, <1>4, <1>5, <1>6 DEF TypeInv, TypeOK, bounds
<1>8. ASSUME NEW u \in Threads
      PROVE  /\ pc'[u] \in {"dump", "build"} => ask'[u].op # "toggle"
             /\ pc'[u] = "dump" /\ ask'[u].op = "drop" => index'[u] > 0
             /\ pc'[u] = "build" => part'[u] \in Seq(ItemsOf(ask'[u].sec))
  BY <1>2, <1>3, <1>4, <1>5 DEF TypeInv
<1> QED BY <1>7, <1>8 DEF TypeInv

\* The edit of the list.
LEMMA DumpType ==
  ASSUME TypeInv, NEW t \in Threads, Dump(t)
  PROVE  TypeInv'
<1> DEFINE a == ask[t]
           list == config[a.sec]
<1>0. /\ pc \in [Threads -> Places] /\ a \in Ask /\ index \in [Threads -> Nat]
      /\ part \in [Threads -> Seq(Item)]
  BY DEF TypeInv, TypeOK
<1>1. UNCHANGED <<objects, mem, disk, lock, armed, history, bounds>> /\ pc[t] = "dump"
  BY DEF Dump
<1>2. CASE Answer(t)
  <2>1. objects' = objects
    BY <1>1
  <2> QED BY <1>1, <1>2, <2>1, AnswerType DEF TypeInv, TypeOK, history, bounds
<1>3. CASE /\ index[t] <= Len(list)
           /\ part' = [part EXCEPT ![t] = Edited(list, a, index[t])]
           /\ Goto(t, "build") /\ UNCHANGED <<ask, index, new, todo>>
  <2>1. a.op # "toggle" /\ (a.op = "drop" => index[t] > 0)
    BY <1>1 DEF TypeInv
  <2>2. list \in Seq(ItemsOf(a.sec)) /\ a.sec \in Section
    BY <1>0, <2>1, AskType, CurrentType, ConfigLists
  <2>3. Edited(list, a, index[t]) \in Seq(ItemsOf(a.sec))
    <3>1. index[t] \in 0 .. Len(list)
      BY <1>0, <1>3, <2>2
    <3> HIDE DEF a, list
    <3> QED BY <1>0, <2>1, <2>2, <3>1, EditedType
  <2>4. ItemsOf(a.sec) \subseteq Item
    BY DEF ItemsOf, Item
  <2> DEFINE e == Edited(list, a, index[t])
  <2>5. e \in Seq(Item)
    BY <2>3, <2>4
  <2> HIDE DEF e
  <2>6. part' = [part EXCEPT ![t] = e] /\ e \in Seq(ItemsOf(a.sec))
    BY <1>3, <2>3 DEF e
  <2>7. /\ part' \in [Threads -> Seq(Item)] /\ part'[t] = e
        /\ \A u \in Threads \ {t} : part'[u] = part[u]
    BY <1>0, <2>5, <2>6
  <2>8. /\ pc' \in [Threads -> Places] /\ pc'[t] = "build"
        /\ \A u \in Threads \ {t} : pc'[u] = pc[u]
    BY <1>0, <1>3 DEF Goto, Places
  <2>9. TypeOK'
    BY <1>1, <1>3, <2>7, <2>8 DEF TypeInv, TypeOK, history, bounds
  <2>10. ASSUME NEW u \in Threads
         PROVE  /\ pc'[u] \in {"dump", "build"} => ask'[u].op # "toggle"
                /\ pc'[u] = "dump" /\ ask'[u].op = "drop" => index'[u] > 0
                /\ pc'[u] = "build" => part'[u] \in Seq(ItemsOf(ask'[u].sec))
    <3>1. CASE u = t
      BY <1>3, <2>1, <2>6, <2>7, <2>8, <3>1
    <3>2. CASE u # t
      BY <1>3, <2>7, <2>8, <3>2 DEF TypeInv
    <3> QED BY <3>1, <3>2
  <2> QED BY <2>9, <2>10 DEF TypeInv
<1> QED BY <1>2, <1>3 DEF Dump

\* The document that is built is a configuration.
LEMMA DocumentType ==
  ASSUME TypeInv, NEW t \in Threads, pc[t] = "build"
  PROVE  /\ Document(t) \in Config
         /\ ask[t] \in Ask /\ ask[t].op # "toggle" /\ ask[t].sec \in Section
         /\ Document(t)[ask[t].sec] = part[t]
         /\ \A other \in Section \ {ask[t].sec} : Document(t)[other] = config[other]
<1>1. /\ ask[t] \in Ask /\ ask[t].op # "toggle"
      /\ part[t] \in Seq(ItemsOf(ask[t].sec))
  BY DEF TypeInv, TypeOK
<1>2. ask[t].sec \in Section /\ config \in Config
  BY <1>1, AskType, CurrentType
<1> QED BY <1>1, <1>2, ConfigLists DEF Document

\* The validation.
LEMMA BuildType ==
  ASSUME TypeInv, NEW t \in Threads, Build(t)
  PROVE  TypeInv'
<1>1. /\ UNCHANGED <<mem, disk, lock, armed, history, bounds>> /\ pc[t] = "build"
      /\ objects \in Seq(Config) /\ mem \in DOMAIN objects
      /\ new \in [Threads -> DOMAIN objects]
  BY DEF Build, TypeInv, TypeOK
<1>2. CASE Answer(t) /\ UNCHANGED objects
  BY <1>1, <1>2, AnswerType DEF TypeInv, TypeOK, history, bounds
<1>3. CASE /\ objects' = Append(objects, Document(t))
           /\ new' = [new EXCEPT ![t] = Len(objects')]
           /\ Goto(t, "replace") /\ UNCHANGED <<ask, index, part, todo>>
  <2> DEFINE d == Document(t)
  <2>1. d \in Config
    BY <1>1, DocumentType
  <2> HIDE DEF d
  <2>2. objects' = Append(objects, d)
    BY <1>3 DEF d
  <2>3. /\ objects' \in Seq(Config) /\ DOMAIN objects \subseteq DOMAIN objects'
        /\ Len(objects') \in DOMAIN objects'
    BY <1>1, <2>1, <2>2
  <2>4. mem' \in DOMAIN objects' /\ new' \in [Threads -> DOMAIN objects']
    BY <1>1, <1>3, <2>3
  <2>5. "replace" \in Places \ {"dump", "build"} /\ Goto(t, "replace")
    BY <1>3 DEF Places
  <2> QED BY <1>1, <1>3, <2>3, <2>4, <2>5, MovedType DEF TypeInv, TypeOK, history, bounds
<1> QED BY <1>2, <1>3 DEF Build

\* The new configuration becomes the current one, or the kill-switch changes it.
LEMMA ReplaceType ==
  ASSUME TypeInv, NEW t \in Threads, Replace(t)
  PROVE  TypeInv'
<1>1. /\ UNCHANGED <<disk, armed, ask, index, part, todo, history, bounds>>
      /\ lock' = t /\ Goto(t, "write") /\ pc[t] = "replace"
      /\ objects \in Seq(Config) /\ mem \in DOMAIN objects
      /\ new \in [Threads -> DOMAIN objects]
  BY DEF Replace, TypeInv, TypeOK
<1>2. objects' \in Seq(Config) /\ DOMAIN objects' = DOMAIN objects
  <2>1. CASE ask[t].op = "toggle"
    <3>1. ask[t].enabled \in BOOLEAN
      <4>1. ask[t] \in Ask
        BY DEF TypeInv, TypeOK
      <4> QED BY <2>1, <4>1 DEF Ask, Put, Drop, Toggle
    <3>2. objects' = [objects EXCEPT ![mem] = [@ EXCEPT !.enabled = ask[t].enabled]]
      BY <2>1 DEF Replace
    <3>3. [objects[mem] EXCEPT !.enabled = ask[t].enabled] \in Config
      <4>1. \A c \in Config, b \in BOOLEAN : [c EXCEPT !.enabled = b] \in Config
        BY DEF Config
      <4>2. objects[mem] \in Config
        BY <1>1
      <4> QED BY <3>1, <4>1, <4>2
    <3> QED BY <1>1, <3>2, <3>3
  <2>2. CASE ask[t].op # "toggle"
    BY <1>1, <2>2 DEF Replace
  <2> QED BY <2>1, <2>2
<1>3. mem' \in DOMAIN objects' /\ new' \in [Threads -> DOMAIN objects']
  <2>1. CASE mem' = mem /\ new' = [new EXCEPT ![t] = mem]
    BY <1>1, <1>2, <2>1
  <2>2. CASE mem' = new[t] /\ new' = new
    BY <1>1, <1>2, <2>2
  <2> QED BY <2>1, <2>2 DEF Replace
<1>4. "write" \in Places \ {"dump", "build"}
  BY DEF Places
<1> QED BY <1>1, <1>2, <1>3, <1>4, MovedType DEF TypeInv, TypeOK, history, bounds

\* A save that succeeds.
LEMMA SavedType ==
  ASSUME TypeInv, NEW t \in Threads, Saved(t),
         UNCHANGED <<objects, mem, armed, acked, overlapped, edits, bounds>>
  PROVE  TypeInv'
<1>1. disk' \in Config
  BY CurrentType DEF Saved, Text
<1>2. "list_jobs" \in Places \ {"dump", "build"}
  BY DEF Places
<1>3. unsaved' \in BOOLEAN
  BY DEF Saved
<1> QED BY <1>1, <1>2, <1>3, MovedType DEF TypeInv, TypeOK, Saved, bounds

\* The file is cut off, to be overwritten.
LEMMA TruncateType ==
  ASSUME TypeInv, NEW t \in Threads, Truncate(t)
  PROVE  TypeInv'
<1>1. "overwrite" \in Places \ {"dump", "build"}
  BY DEF Places
<1> QED BY <1>1, MovedType DEF TypeInv, TypeOK, Truncate, history, bounds

\* A write that fails.
LEMMA FailWriteType ==
  ASSUME TypeInv, NEW t \in Threads, FailWrite(t)
  PROVE  TypeInv'
<1>1. /\ UNCHANGED <<objects, mem, disk, armed, overlapped, edits, bindMount, restarts>>
      /\ lock' = Nobody /\ Answer(t) /\ unsaved' \in BOOLEAN
  BY DEF FailWrite, Unlocked
<1>2. saveFaults' \in 0 .. MaxSaveFaults
  BY Bounds DEF FailWrite, TypeInv, TypeOK
<1>3. acked' \in [Routes -> SUBSET (RouteItem \cup {NoItem})]
  <2>0. acked \in [Routes -> SUBSET (RouteItem \cup {NoItem})] /\ ask[t] \in Ask
    BY DEF TypeInv, TypeOK
  <2>1. CASE RouteEdit(ask[t])
    <3>1. IdOf(ask[t]) \in Routes
      BY <2>0, <2>1, AskType DEF RouteEdit
    <3>2. Wish(ask[t]) \in RouteItem \cup {NoItem}
      BY <2>0, <2>1, AskType DEF RouteEdit, Wish, ItemsOf
    <3>3. acked' = [acked EXCEPT ![IdOf(ask[t])] = @ \cup {Wish(ask[t])}]
      BY <2>1 DEF FailWrite
    <3>4. acked[IdOf(ask[t])] \cup {Wish(ask[t])} \in SUBSET (RouteItem \cup {NoItem})
      BY <2>0, <3>1, <3>2
    <3> QED BY <2>0, <3>3, <3>4
  <2>2. CASE ~RouteEdit(ask[t])
    BY <2>0, <2>2 DEF FailWrite
  <2> QED BY <2>1, <2>2
<1> QED BY <1>1, <1>2, <1>3, AnswerType DEF TypeInv, TypeOK

\* The jobs to rebuild are listed.
LEMMA ListJobsType ==
  ASSUME TypeInv, NEW t \in Threads, ListJobs(t)
  PROVE  TypeInv'
<1>1. "disarm" \in Places \ {"dump", "build"}
  BY DEF Places
<1>2. todo' \in [Threads -> SUBSET (Routes \X Crons)]
  BY DEF TypeInv, TypeOK, ListJobs, JobsToRemove
<1> QED BY <1>1, <1>2, MovedType DEF TypeInv, TypeOK, ListJobs, history, bounds

\* A job is removed, or there are none left.
LEMMA DisarmType ==
  ASSUME TypeInv, NEW t \in Threads, Disarm(t)
  PROVE  TypeInv'
<1>0. /\ UNCHANGED <<objects, mem, disk, lock, history, bounds>> /\ pc[t] = "disarm"
      /\ todo \in [Threads -> SUBSET (Routes \X Crons)] /\ armed \subseteq Routes \X Crons
  BY DEF Disarm, TypeInv, TypeOK
<1>1. CASE Answer(t) /\ UNCHANGED armed
  BY <1>0, <1>1, AnswerType DEF TypeInv, TypeOK, history, bounds
<1>2. ASSUME NEW j \in todo[t], armed' = armed \ OfRoute(j[1]),
             todo' = [todo EXCEPT ![t] = @ \ {j}],
             UNCHANGED <<pc, ask, index, part, new>>
      PROVE  TypeInv'
  <2>1. armed' \subseteq Routes \X Crons /\ todo' \in [Threads -> SUBSET (Routes \X Crons)]
    BY <1>0, <1>2
  <2> QED BY <1>0, <1>2, <2>1 DEF TypeInv, TypeOK, history, bounds
<1>3. CASE /\ todo' = [todo EXCEPT ![t] = Armable(objects[new[t]])] /\ Goto(t, "arm")
           /\ UNCHANGED <<armed, ask, index, part, new>>
  <2>1. Armable(objects[new[t]]) \subseteq Routes \X Crons
    BY ArmableType DEF TypeInv, TypeOK
  <2>2. todo' \in [Threads -> SUBSET (Routes \X Crons)]
    BY <1>0, <1>3, <2>1
  <2>3. "arm" \in Places \ {"dump", "build"}
    BY DEF Places
  <2> QED BY <1>0, <1>3, <2>2, <2>3, MovedType DEF TypeInv, TypeOK, history, bounds
<1> QED BY <1>1, <1>2, <1>3 DEF Disarm

\* A route is armed.
LEMMA ArmType ==
  ASSUME TypeInv, NEW t \in Threads, Arm(t)
  PROVE  TypeInv'
<1>0. /\ UNCHANGED <<objects, mem, disk, lock, pc, ask, index, part, new, history, bounds>>
      /\ todo \in [Threads -> SUBSET (Routes \X Crons)] /\ armed \subseteq Routes \X Crons
  BY DEF Arm, TypeInv, TypeOK
<1>1. PICK j \in todo[t] : /\ armed' = (armed \ OfRoute(j[1])) \cup {j}
                           /\ todo' = [todo EXCEPT ![t] = @ \ {j}]
  BY DEF Arm
<1>2. armed' \subseteq Routes \X Crons /\ todo' \in [Threads -> SUBSET (Routes \X Crons)]
  BY <1>0, <1>1
<1> QED BY <1>0, <1>2 DEF TypeInv, TypeOK, history, bounds

\* The answer to a request.
LEMMA AcknowledgeType ==
  ASSUME TypeInv, NEW t \in Threads, Acknowledge(t)
  PROVE  TypeInv'
<1>1. /\ UNCHANGED <<objects, mem, disk, lock, armed, overlapped, unsaved, edits, bounds>>
      /\ Answer(t)
  BY DEF Acknowledge
<1>2. acked' \in [Routes -> SUBSET (RouteItem \cup {NoItem})]
  <2>0. acked \in [Routes -> SUBSET (RouteItem \cup {NoItem})] /\ ask[t] \in Ask
    BY DEF TypeInv, TypeOK
  <2>1. CASE RouteEdit(ask[t])
    <3>1. IdOf(ask[t]) \in Routes
      BY <2>0, <2>1, AskType DEF RouteEdit
    <3>2. Wish(ask[t]) \in RouteItem \cup {NoItem}
      BY <2>0, <2>1, AskType DEF RouteEdit, Wish, ItemsOf
    <3>3. acked' = [acked EXCEPT ![IdOf(ask[t])] = {Wish(ask[t])}]
      BY <2>1 DEF Acknowledge
    <3> QED BY <2>0, <3>1, <3>2, <3>3
  <2>2. CASE ~RouteEdit(ask[t])
    BY <2>0, <2>2 DEF Acknowledge
  <2> QED BY <2>1, <2>2
<1> QED BY <1>1, <1>2, AnswerType DEF TypeInv, TypeOK, bounds

\* The process starts again, with what is on disk.
LEMMA RestartType ==
  ASSUME TypeInv, Restart
  PROVE  TypeInv'
<1>1. disk \in Config
  BY DEF TypeInv, TypeOK, Restart
<1>2. /\ objects' \in Seq(Config) /\ DOMAIN objects' = {1} /\ mem' = 1
      /\ new' \in [Threads -> {1}]
  BY <1>1 DEF Restart
<1>3. armed' \subseteq Routes \X Crons
  BY <1>1, ArmableType DEF Restart
<1>4. acked' \in [Routes -> SUBSET (RouteItem \cup {NoItem})]
  <2>0. acked \in [Routes -> SUBSET (RouteItem \cup {NoItem})] /\ ask \in [Threads -> Ask]
    BY DEF TypeInv, TypeOK
  <2>1. ASSUME NEW t \in Threads, RouteEdit(ask[t])
        PROVE  Wish(ask[t]) \in RouteItem \cup {NoItem}
    BY <2>0, <2>1, AskType DEF RouteEdit, Wish, ItemsOf
  <2>2. acked' = [r \in Routes |-> acked[r] \cup
                    {Wish(ask[t]) : t \in {u \in Threads :
                       pc[u] # "idle" /\ RouteEdit(ask[u]) /\ IdOf(ask[u]) = r}}]
    BY DEF Restart
  <2> QED BY <2>0, <2>1, <2>2
<1>5. /\ pc' \in [Threads -> Places] /\ \A t \in Threads : pc'[t] = "idle"
      /\ index' \in [Threads -> Nat] /\ part' \in [Threads -> Seq(Item)]
      /\ todo' \in [Threads -> SUBSET (Routes \X Crons)]
  BY DEF Restart, Places
<1>6. restarts' \in 0 .. MaxRestarts
  BY Bounds DEF Restart, TypeInv, TypeOK
<1>7. /\ lock' \in Threads \cup {Nobody} /\ unsaved' \in BOOLEAN
      /\ UNCHANGED <<disk, ask, overlapped, edits, bindMount, saveFaults>>
  BY DEF Restart
<1>8. TypeOK'
  BY <1>2, <1>3, <1>4, <1>5, <1>6, <1>7 DEF TypeInv, TypeOK
<1> QED BY <1>5, <1>8 DEF TypeInv

\* Every step keeps the types.
LEMMA NextType == TypeInv /\ [Next]_vars => TypeInv'
<1> SUFFICES ASSUME TypeInv, [Next]_vars PROVE TypeInv'
  OBVIOUS
<1>1. ASSUME NEW t \in Threads, WriteFile(t) PROVE TypeInv'
  BY <1>1, SavedType DEF WriteFile
<1>2. ASSUME NEW t \in Threads, Overwrite(t) PROVE TypeInv'
  BY <1>2, SavedType DEF Overwrite
<1>3. CASE UNCHANGED vars
  BY <1>3 DEF vars, reqVars, history, bounds, TypeInv, TypeOK
<1> QED BY <1>1, <1>2, <1>3, ArriveType, DumpType, BuildType, ReplaceType, TruncateType,
           FailWriteType, ListJobsType, DisarmType, ArmType, AcknowledgeType, RestartType
        DEF Next, Request

\* Objects, positions, edited lists and jobs have their types in every state, however requests
\* overlap: what is dumped and validated is a list of its own section, and no request holds an
\* object that is not there (routes.py, devices.py, config_store.py).
THEOREM EditTypeCorrect == Spec => []TypeOK
<1>1. TypeInv => TypeOK
  BY DEF TypeInv
<1> QED BY <1>1, InitType, NextType, PTL DEF Spec

-----------------------------------------------------------------------------
(***************************************************************************)
(* Every configuration is valid, however requests overlap: the document is *)
(* validated as a whole, and what is validated is what becomes current.    *)
(***************************************************************************)
ValidInv ==
  /\ \A i \in DOMAIN objects : Valid(objects[i])
  /\ disk # Torn => Valid(disk)
  /\ ~bindMount => disk # Torn

\* The kill-switch does not touch what is validated.
LEMMA ToggleKeepsValid ==
  ASSUME NEW c \in Config, NEW b \in BOOLEAN
  PROVE  LET d == [c EXCEPT !.enabled = b]
         IN  /\ d \in Config /\ d.enabled = b
             /\ d.routes = c.routes /\ d.devices = c.devices
             /\ d["routes"] = c.routes /\ d["devices"] = c.devices
             /\ Valid(d) <=> Valid(c)
<1> DEFINE d == [c EXCEPT !.enabled = b]
<1>1. /\ d \in Config /\ d.enabled = b /\ d.routes = c.routes /\ d.devices = c.devices
      /\ d["routes"] = c.routes /\ d["devices"] = c.devices
      /\ c["routes"] = c.routes /\ c["devices"] = c.devices
  BY DEF Config
<1> HIDE DEF d
<1>2. Valid(d) <=> Valid(c)
  BY <1>1 DEF Valid, Section
<1> QED BY <1>1, <1>2 DEF d

\* The kill-switch changes the current object and no other.
LEMMA ToggleStep ==
  ASSUME TypeInv, NEW t \in Threads, Replace(t), ask[t].op = "toggle"
  PROVE  /\ DOMAIN objects' = DOMAIN objects /\ mem' = mem /\ mem \in DOMAIN objects
         /\ \A i \in DOMAIN objects \ {mem} : objects'[i] = objects[i]
         /\ ask[t].enabled \in BOOLEAN
         /\ objects'[mem] = [config EXCEPT !.enabled = ask[t].enabled]
<1>1. /\ ask[t] \in Ask /\ objects \in Seq(Config) /\ mem \in DOMAIN objects
  BY DEF TypeInv, TypeOK
<1>2. objects' = [objects EXCEPT ![mem] = [@ EXCEPT !.enabled = ask[t].enabled]] /\ mem' = mem
  BY DEF Replace
<1>3. ask[t].enabled \in BOOLEAN
  BY <1>1 DEF Ask, Put, Drop, Toggle
<1> QED BY <1>1, <1>2, <1>3 DEF config

\* Every step keeps configurations valid: a document that is not is refused before it is replaced.
LEMMA ConfigIsValid_Inductive ==
  TypeInv /\ TypeInv' /\ ValidInv /\ [Next]_vars => ValidInv'
<1> SUFFICES ASSUME TypeInv, TypeInv', ValidInv, [Next]_vars PROVE ValidInv'
  OBVIOUS
<1>1. ASSUME NEW t \in Threads, Build(t) PROVE ValidInv'
  <2>1. UNCHANGED <<disk, bindMount>> /\ objects \in Seq(Config)
    BY <1>1 DEF Build, bounds, TypeInv, TypeOK
  <2>2. CASE Accepts(Document(t)) /\ objects' = Append(objects, Document(t))
    <3> DEFINE d == Document(t)
    <3>1. d \in Config /\ Valid(d)
      BY <1>1, <2>2, DocumentType DEF Accepts, Build
    <3> HIDE DEF d
    <3>2. objects' = Append(objects, d)
      BY <2>2 DEF d
    <3>3. \A i \in DOMAIN objects' :
            (i \in DOMAIN objects /\ objects'[i] = objects[i]) \/ objects'[i] = d
      BY <2>1, <3>1, <3>2
    <3> QED BY <2>1, <3>1, <3>3 DEF ValidInv
  <2>3. CASE UNCHANGED objects
    BY <2>1, <2>3 DEF ValidInv
  <2> QED BY <1>1, <2>2, <2>3 DEF Build
<1>2. ASSUME NEW t \in Threads, Replace(t) PROVE ValidInv'
  <2>1. UNCHANGED <<disk, bindMount>>
    BY <1>2 DEF Replace, bounds
  <2>2. CASE ask[t].op = "toggle"
    <3>1. /\ DOMAIN objects' = DOMAIN objects /\ mem \in DOMAIN objects
          /\ \A i \in DOMAIN objects \ {mem} : objects'[i] = objects[i]
          /\ ask[t].enabled \in BOOLEAN
          /\ objects'[mem] = [config EXCEPT !.enabled = ask[t].enabled]
      BY <1>2, <2>2, ToggleStep
    <3>2. Valid(config)
      BY <3>1 DEF ValidInv, config
    <3>3. PICK b \in BOOLEAN : b = ask[t].enabled
      BY <3>1
    <3>4. Valid([config EXCEPT !.enabled = b])
      BY <3>2, CurrentType, ToggleKeepsValid
    <3>5. Valid(objects'[mem])
      BY <3>1, <3>3, <3>4
    <3> QED BY <2>1, <3>1, <3>5 DEF ValidInv
  <2>3. CASE ask[t].op # "toggle"
    BY <1>2, <2>1, <2>3 DEF Replace, ValidInv
  <2> QED BY <2>2, <2>3
<1>3. ASSUME NEW t \in Threads, Saved(t), UNCHANGED <<objects, bindMount>> PROVE ValidInv'
  <2>1. disk' = config /\ config \in Config /\ Valid(config)
    BY <1>3, CurrentType DEF Saved, Text, ValidInv, TypeInv, TypeOK, config
  <2> QED BY <1>3, <2>1, TornAssumption DEF ValidInv
<1>4. ASSUME NEW t \in Threads, Truncate(t) PROVE ValidInv'
  BY <1>4 DEF Truncate, InPlace, bounds, ValidInv
<1>5. CASE Restart
  <2>1. objects' = <<disk>> /\ UNCHANGED <<disk, bindMount>> /\ disk # Torn
    BY <1>5 DEF Restart
  <2> QED BY <2>1 DEF ValidInv
<1>6. ASSUME UNCHANGED <<objects, disk, bindMount>> PROVE ValidInv'
  BY <1>6 DEF ValidInv
<1>7. ASSUME NEW t \in Threads, Arrive(t) \/ Dump(t) \/ FailWrite(t) \/ ListJobs(t) \/ Disarm(t)
                                  \/ Arm(t) \/ Acknowledge(t)
      PROVE  ValidInv'
  <2>1. UNCHANGED <<objects, disk, bindMount>>
    BY <1>7 DEF Arrive, Dump, FailWrite, ListJobs, Disarm, Arm, Acknowledge, bounds
  <2> QED BY <2>1, <1>6
<1>8. ASSUME NEW t \in Threads, WriteFile(t) PROVE ValidInv'
  BY <1>3, <1>8 DEF WriteFile, bounds
<1>9. ASSUME NEW t \in Threads, Overwrite(t) PROVE ValidInv'
  BY <1>3, <1>9 DEF Overwrite, bounds
<1>10. CASE UNCHANGED vars
  BY <1>6, <1>10 DEF vars, bounds
<1> QED BY <1>1, <1>2, <1>4, <1>5, <1>7, <1>8, <1>9, <1>10 DEF Next, Request

\* The first start has a valid configuration.
LEMMA InitValid == Init => ValidInv
<1> SUFFICES ASSUME Init PROVE ValidInv
  OBVIOUS
<1>1. objects = <<FirstConfig>> /\ disk = FirstConfig
  BY InitFirst
<1> QED BY <1>1, FirstIsValid, TornAssumption DEF ValidInv

\* However requests overlap, and whatever write fails or process ends in between, no route in
\* memory or on disk names a device that is gone and no id is there twice; a file that can be
\* renamed over is never cut off (_config_edit.py, config_store.py, save_config).
THEOREM ConfigStaysValid == Spec => []ConfigIsValid
<1>1. TypeInv /\ ValidInv => ConfigIsValid
  BY DEF TypeInv, TypeOK, ValidInv, ConfigIsValid, config
<1> QED BY <1>1, InitType, InitValid, NextType, ConfigIsValid_Inductive, PTL DEF Spec

-----------------------------------------------------------------------------
(***************************************************************************)
(* The scheduler's jobs, however requests overlap.                         *)
(***************************************************************************)
\* No route has two jobs, whatever requests overlap.
OneJobEach == \A j, k \in armed : j[1] = k[1] => j = k

\* What is armed for a valid configuration is one job for each route.
LEMMA ArmableOnce ==
  ASSUME NEW c \in Config, Valid(c)
  PROVE  \A j, k \in Armable(c) : j[1] = k[1] => j = k
<1>1. c.routes \in Seq(RouteItem) /\ c["routes"] = c.routes
  BY DEF Config
<1>2. Unique(c.routes)
  BY <1>1, UniqueByCount DEF Valid, Section
<1> QED BY <1>1, <1>2 DEF Armable, Unique

\* Arming a route replaces the job it had.
LEMMA OneJobEach_Inductive ==
  TypeInv /\ ValidInv /\ OneJobEach /\ [Next]_vars => OneJobEach'
<1> SUFFICES ASSUME TypeInv, ValidInv, OneJobEach, [Next]_vars PROVE OneJobEach'
  OBVIOUS
<1>1. ASSUME NEW t \in Threads, Disarm(t) PROVE OneJobEach'
  <2>1. armed' \subseteq armed
    BY <1>1 DEF Disarm
  <2> QED BY <2>1 DEF OneJobEach
<1>2. ASSUME NEW t \in Threads, Arm(t) PROVE OneJobEach'
  BY <1>2 DEF Arm, OfRoute, OneJobEach
<1>3. CASE Restart
  <2>1. disk \in Config /\ Valid(disk) /\ armed' = Armable(disk)
    BY <1>3 DEF Restart, TypeInv, TypeOK, ValidInv
  <2> QED BY <2>1, ArmableOnce DEF OneJobEach
<1>4. ASSUME UNCHANGED armed PROVE OneJobEach'
  BY <1>4 DEF OneJobEach
<1>5. ASSUME NEW t \in Threads,
             Arrive(t) \/ Dump(t) \/ Build(t) \/ Replace(t) \/ WriteFile(t) \/ Truncate(t)
               \/ Overwrite(t) \/ FailWrite(t) \/ ListJobs(t) \/ Acknowledge(t)
      PROVE  OneJobEach'
  <2>1. UNCHANGED armed
    BY <1>5 DEF Arrive, Dump, Build, Replace, WriteFile, Truncate, Overwrite, FailWrite,
                ListJobs, Acknowledge
  <2> QED BY <2>1, <1>4
<1>6. CASE UNCHANGED vars
  BY <1>4, <1>6 DEF vars
<1> QED BY <1>1, <1>2, <1>3, <1>5, <1>6 DEF Next, Request

\* The first start arms each route once.
LEMMA InitOneJobEach == Init => OneJobEach
<1> SUFFICES ASSUME Init PROVE OneJobEach
  OBVIOUS
<1>1. armed = Armable(FirstConfig)
  BY InitFirst
<1> QED BY <1>1, FirstIsValid, ArmableOnce DEF OneJobEach

-----------------------------------------------------------------------------
(***************************************************************************)
(* The item of an id before and after an edit.                             *)
(***************************************************************************)
\* In a list without duplicates an item is what its id finds.
LEMMA FoundItem ==
  ASSUME NEW S, NEW list \in Seq(S), Unique(list), NEW i \in DOMAIN list
  PROVE  ItemOf(list, list[i].id) = list[i]
<1> DEFINE id == list[i].id
           k == CHOOSE j \in DOMAIN list : list[j].id = id
<1>1. id \in Ids(list)
  BY DEF Ids
<1>2. k \in DOMAIN list /\ list[k].id = id
  OBVIOUS
<1>3. k = i
  BY <1>2 DEF Unique
<1> QED BY <1>1, <1>3 DEF ItemOf

\* An id finds the same in two lists when the item it finds in the one is in the other.
LEMMA SameItem ==
  ASSUME NEW S, NEW list \in Seq(S), NEW e \in Seq(S), Unique(list), Unique(e), NEW id,
         \A k \in DOMAIN list : list[k].id = id => \E j \in DOMAIN e : e[j] = list[k],
         \A j \in DOMAIN e : e[j].id = id => \E k \in DOMAIN list : list[k].id = id
  PROVE  ItemOf(e, id) = ItemOf(list, id)
<1>1. CASE id \in Ids(list)
  <2>1. PICK k \in DOMAIN list : list[k].id = id
    BY <1>1 DEF Ids
  <2>2. PICK j \in DOMAIN e : e[j] = list[k]
    BY <2>1
  <2> QED BY <2>1, <2>2, FoundItem
<1>2. CASE id \notin Ids(list)
  <2>1. id \notin Ids(e)
    BY <1>2 DEF Ids
  <2> QED BY <1>2, <2>1 DEF ItemOf
<1> QED BY <1>1, <1>2

\* An edit sets or drops the item it names, and leaves every other item as it is.
LEMMA EditedItems ==
  ASSUME NEW a \in Ask, a.op # "toggle", NEW list \in Seq(ItemsOf(a.sec)), Unique(list),
         NEW i, i = IndexOf(list, IdOf(a)), a.op = "drop" => i > 0,
         NEW id
  PROVE  ItemOf(Edited(list, a, i), id) = IF id = IdOf(a) THEN Wish(a) ELSE ItemOf(list, id)
<1> DEFINE S == ItemsOf(a.sec)
           n == Len(list)
<1>1. /\ i \in 0 .. n /\ n \in Nat /\ DOMAIN list = 1 .. n
      /\ IdOf(a) \in Ids(list) <=> i > 0
      /\ i > 0 => list[i].id = IdOf(a)
  BY IndexType
<1>2. CASE a.op = "drop"
  <2> DEFINE e == RemoveAt(list, i)
             sh == [j \in 1 .. n - 1 |-> IF j < i THEN j ELSE j + 1]
  <2>0. Edited(list, a, i) = e /\ Wish(a) = NoItem
    BY <1>2 DEF Edited, Without, Wish
  <2>1. i \in DOMAIN list
    BY <1>1, <1>2
  <2>2. e \in Seq(S) /\ Len(e) = n - 1 /\ \A j \in 1 .. n - 1 : e[j] = IF j < i THEN list[j] ELSE list[j + 1]
    BY <2>1, WithoutOne
  <2> HIDE DEF e
  <2>3. DOMAIN e = 1 .. n - 1 /\ \A j \in 1 .. n - 1 : e[j] = list[sh[j]]
    BY <1>1, <2>1, <2>2
  <2>4. /\ \A j \in 1 .. n - 1 : sh[j] \in (1 .. n) \ {i}
        /\ \A j, k \in 1 .. n - 1 : sh[j] = sh[k] => j = k
        /\ \A k \in (1 .. n) \ {i} : \E j \in 1 .. n - 1 : sh[j] = k
    <3>1. \A k \in (1 .. n) \ {i} : \E j \in 1 .. n - 1 : sh[j] = k
      <4>1. ASSUME NEW k \in (1 .. n) \ {i} PROVE \E j \in 1 .. n - 1 : sh[j] = k
        <5>1. CASE k < i
          <6>1. k \in 1 .. n - 1 /\ sh[k] = k
            BY <1>1, <2>1, <5>1
          <6> QED BY <6>1
        <5>2. CASE k > i
          <6>1. k - 1 \in 1 .. n - 1 /\ sh[k - 1] = k
            BY <1>1, <2>1, <5>2
          <6> QED BY <6>1
        <5> QED BY <1>1, <5>1, <5>2
      <4> QED BY <4>1
    <3> QED BY <1>1, <2>1, <3>1
  <2> HIDE DEF sh
  <2>5. Unique(e)
    <3>1. ASSUME NEW j \in DOMAIN e, NEW k \in DOMAIN e, e[j].id = e[k].id PROVE j = k
      <4>1. PICK u \in DOMAIN list : u = sh[j] /\ e[j] = list[u]
        BY <1>1, <2>3, <2>4
      <4>2. PICK v \in DOMAIN list : v = sh[k] /\ e[k] = list[v]
        BY <1>1, <2>3, <2>4
      <4>3. u = v
        BY <3>1, <4>1, <4>2 DEF Unique
      <4> QED BY <2>3, <2>4, <4>1, <4>2, <4>3
    <3> QED BY <3>1 DEF Unique
  <2>6. CASE id = IdOf(a)
    <3>1. id \notin Ids(e)
      BY <1>1, <1>2, <2>3, <2>4, <2>6 DEF Ids, Unique
    <3> QED BY <2>0, <2>6, <3>1 DEF ItemOf
  <2>7. CASE id # IdOf(a)
    <3>1. \A k \in DOMAIN list : list[k].id = id => \E j \in DOMAIN e : e[j] = list[k]
      <4>1. ASSUME NEW k \in DOMAIN list, list[k].id = id PROVE \E j \in DOMAIN e : e[j] = list[k]
        <5>1. k # i
          BY <1>1, <1>2, <2>7, <4>1
        <5>2. PICK j \in 1 .. n - 1 : sh[j] = k
          BY <1>1, <2>4, <5>1
        <5> QED BY <2>3, <5>2
      <4> QED BY <4>1
    <3>2. \A j \in DOMAIN e : e[j].id = id => \E k \in DOMAIN list : list[k].id = id
      BY <1>1, <2>3, <2>4
    <3>3. ItemOf(e, id) = ItemOf(list, id)
      BY <2>2, <2>5, <3>1, <3>2, SameItem
    <3> QED BY <2>0, <2>7, <3>3
  <2> QED BY <2>6, <2>7
<1>3. CASE a.op = "put"
  <2> DEFINE x == a.item
  <2>0. x \in S /\ x.id = IdOf(a) /\ Wish(a) = x
    BY <1>3, AskType DEF IdOf, Wish
  <2>1. PICK e : e = Edited(list, a, i)
    OBVIOUS
  <2>2. /\ e \in Seq(S)
        /\ \E p \in DOMAIN e :
             /\ e[p] = x
             /\ \A j \in DOMAIN e \ {p} : j \in DOMAIN list /\ j # i /\ e[j] = list[j]
             /\ \A k \in DOMAIN list \ {i} : k \in DOMAIN e /\ k # p /\ e[k] = list[k]
    <3>1. CASE i = 0
      <4>1. e = Append(list, x)
        BY <1>3, <2>1, <3>1 DEF Edited
      <4>2. /\ e \in Seq(S) /\ DOMAIN e = 1 .. n + 1 /\ e[n + 1] = x
            /\ \A k \in 1 .. n : e[k] = list[k]
        BY <1>1, <2>0, <4>1
      <4>3. /\ n + 1 \in DOMAIN e
            /\ \A j \in DOMAIN e \ {n + 1} : j \in DOMAIN list /\ j # i /\ e[j] = list[j]
            /\ \A k \in DOMAIN list \ {i} : k \in DOMAIN e /\ k # n + 1 /\ e[k] = list[k]
        BY <1>1, <3>1, <4>2
      <4> QED BY <4>2, <4>3
    <3>2. CASE i > 0
      <4>1. e = [list EXCEPT ![i] = x]
        BY <1>3, <2>1, <3>2 DEF Edited
      <4>2. i \in DOMAIN list
        BY <1>1, <3>2
      <4> QED BY <1>1, <2>0, <4>1, <4>2
    <3> QED BY <1>1, <3>1, <3>2
  <2>3. PICK p \in DOMAIN e :
          /\ e[p] = x
          /\ \A j \in DOMAIN e \ {p} : j \in DOMAIN list /\ j # i /\ e[j] = list[j]
          /\ \A k \in DOMAIN list \ {i} : k \in DOMAIN e /\ k # p /\ e[k] = list[k]
    BY <2>2
  <2>4. \A k \in DOMAIN list : list[k].id = IdOf(a) => k = i
    <3>1. ASSUME NEW k \in DOMAIN list, list[k].id = IdOf(a) PROVE k = i
      <4>1. IdOf(a) \in Ids(list)
        BY <3>1 DEF Ids
      <4>2. i \in DOMAIN list /\ list[i].id = IdOf(a)
        BY <1>1, <4>1
      <4> QED BY <3>1, <4>2 DEF Unique
    <3> QED BY <3>1
  <2>5. Unique(e)
    <3>1. ASSUME NEW j \in DOMAIN e, NEW k \in DOMAIN e, e[j].id = e[k].id PROVE j = k
      <4>1. CASE j = p \/ k = p
        BY <2>0, <2>3, <2>4, <3>1, <4>1
      <4>2. CASE j # p /\ k # p
        BY <2>3, <3>1, <4>2 DEF Unique
      <4> QED BY <4>1, <4>2
    <3> QED BY <3>1 DEF Unique
  <2>6. CASE id = IdOf(a)
    <3>1. ItemOf(e, e[p].id) = e[p]
      BY <2>2, <2>5, FoundItem
    <3> QED BY <2>0, <2>1, <2>3, <2>6, <3>1
  <2>7. CASE id # IdOf(a)
    <3>1. \A k \in DOMAIN list : list[k].id = id => \E j \in DOMAIN e : e[j] = list[k]
      <4>1. ASSUME NEW k \in DOMAIN list, list[k].id = id PROVE \E j \in DOMAIN e : e[j] = list[k]
        <5>1. k # i
          BY <1>1, <2>7, <4>1
        <5> QED BY <2>3, <4>1, <5>1
      <4> QED BY <4>1
    <3>2. \A j \in DOMAIN e : e[j].id = id => \E k \in DOMAIN list : list[k].id = id
      BY <2>0, <2>3, <2>7
    <3>3. ItemOf(e, id) = ItemOf(list, id)
      BY <2>2, <2>5, <3>1, <3>2, SameItem
    <3> QED BY <2>1, <2>7, <3>3
  <2> QED BY <2>6, <2>7
<1> QED BY <1>2, <1>3, AskType

-----------------------------------------------------------------------------
(***************************************************************************)
(* Requests one at a time.                                                 *)
(***************************************************************************)
\* One request is in progress at a time.
OneAtATime == \A t, u \in Threads : pc[t] # "idle" /\ pc[u] # "idle" => t = u

\* The request has changed the memory, and has not been answered.
Applied(t) == pc[t] \in {"write", "overwrite", "list_jobs", "disarm", "arm"}

\* A route as a request leaves it.
After(c, a, r) == IF RouteEdit(a) /\ IdOf(a) = r THEN Wish(a) ELSE ItemOf(c.routes, r)

\* The position, the list and the document are those of the current configuration.
LocalsAreCurrent(t) ==
  /\ pc[t] = "dump" => index[t] = IndexOf(config[ask[t].sec], IdOf(ask[t]))
  /\ pc[t] = "build" /\ RouteEdit(ask[t]) =>
       \A r \in Routes : ItemOf(part[t], r) = After(config, ask[t], r)
  /\ pc[t] = "replace" /\ ask[t].op # "toggle" =>
       \A r \in Routes : ItemOf(objects[new[t]].routes, r) = After(config, ask[t], r)
  /\ Applied(t) =>
       /\ mem = new[t]
       /\ RouteEdit(ask[t]) => ItemOf(config.routes, IdOf(ask[t])) = Wish(ask[t])

\* The file follows the memory, and the jobs follow the file.
JobsFollow(t) ==
  /\ pc[t] \in {"list_jobs", "disarm", "arm"} => disk = config /\ ~unsaved
  /\ pc[t] = "disarm" => todo[t] = armed
  /\ pc[t] = "arm" => armed \cup todo[t] = Armable(config)

Settled == ~unsaved => disk = config /\ armed = Armable(config)

\* A route in memory is as it was answered, or one that a request in progress names.
Pending(t, r) == Applied(t) /\ RouteEdit(ask[t]) /\ IdOf(ask[t]) = r
RoutesAreAcked ==
  \A r \in Routes :
    ItemOf(config.routes, r) \in acked[r] \/ \E t \in Threads : Pending(t, r)

\* So is a route of an older file.
FileIsAcked == disk \notin {Torn, config} => \A r \in Routes : ItemOf(disk.routes, r) \in acked[r]

SoloInv ==
  ~overlapped =>
    /\ OneAtATime /\ RoutesAreAcked /\ FileIsAcked
    /\ \A t \in Threads : LocalsAreCurrent(t) /\ JobsFollow(t)
    /\ (\A t \in Threads : ~Applied(t)) => Settled

\* The same for a request that is the only one.
Alone(t) == \A u \in Threads \ {t} : pc[u] = "idle"
Solo(t) ==
  /\ Alone(t) /\ LocalsAreCurrent(t) /\ JobsFollow(t) /\ FileIsAcked
  /\ ~Applied(t) => Settled
  /\ \A r \in Routes : ItemOf(config.routes, r) \in acked[r] \/ Pending(t, r)

\* A request that is in progress, or that may arrive, is the only one.
LEMMA ToSolo ==
  ASSUME SoloInv, ~overlapped, NEW t \in Threads, Alone(t) PROVE Solo(t)
<1>1. \A u \in Threads \ {t} : ~Applied(u)
  BY DEF Alone, Applied
<1>2. \A r \in Routes : ItemOf(config.routes, r) \in acked[r] \/ Pending(t, r)
  BY <1>1 DEF SoloInv, RoutesAreAcked, Pending
<1> QED BY <1>1, <1>2 DEF SoloInv, Solo

\* Before any overlap a request under way is the only one.
LEMMA BusyIsAlone ==
  ASSUME SoloInv, ~overlapped, NEW t \in Threads, pc[t] # "idle" PROVE Solo(t)
<1>1. Alone(t)
  BY DEF SoloInv, OneAtATime, Alone
<1> QED BY <1>1, ToSolo

\* What holds of it after its step holds of all.
LEMMA FromSolo ==
  ASSUME NEW t \in Threads, Solo(t)' PROVE SoloInv'
<1>1. \A u \in Threads \ {t} : pc'[u] = "idle"
  BY DEF Solo, Alone
<1>2. \A u \in Threads \ {t} : ~Applied(u)' /\ LocalsAreCurrent(u)' /\ JobsFollow(u)'
  BY <1>1 DEF Applied, LocalsAreCurrent, JobsFollow
<1>3. OneAtATime'
  BY <1>1 DEF OneAtATime
<1>4. RoutesAreAcked'
  BY DEF Solo, RoutesAreAcked
<1> QED BY <1>2, <1>3, <1>4 DEF Solo, SoloInv

\* The request that takes a step stays the only one.
LEMMA StaysAlone ==
  ASSUME TypeInv, NEW t \in Threads, Alone(t), NEW p \in Places, Goto(t, p)
  PROVE  Alone(t)' /\ pc'[t] = p
<1>1. pc \in [Threads -> Places]
  BY DEF TypeInv, TypeOK
<1> QED BY <1>1 DEF Alone, Goto

\* A request that arrives alone finds nothing half done.
LEMMA ArriveSolo ==
  ASSUME TypeInv, SoloInv, NEW t \in Threads, Arrive(t), ~overlapped'
  PROVE  Solo(t)'
<1>1. ~overlapped /\ \A u \in Threads : pc[u] = "idle"
  BY DEF Arrive, TypeInv, TypeOK
<1>2. Solo(t) /\ Alone(t) /\ ~Applied(t) /\ \A r \in Routes : ~Pending(t, r)
  <2>1. Alone(t) /\ ~Applied(t)
    BY <1>1 DEF Alone, Applied
  <2> QED BY <1>1, <2>1, ToSolo DEF Pending
<1>3. UNCHANGED <<objects, mem, disk, lock, armed, part, new, todo, acked, unsaved, bounds>>
  BY DEF Arrive
<1>4. config' = config
  BY <1>3 DEF config
<1>5. PICK a \in Ask :
        /\ ask' = [ask EXCEPT ![t] = a]
        /\ \/ a.op = "toggle" /\ Goto(t, "replace")
           \/ /\ Goto(t, "dump")
              /\ index' = [index EXCEPT ![t] = IndexOf(config[a.sec], IdOf(a))]
  BY DEF Arrive
<1>6. ask'[t] = a
  BY <1>5 DEF TypeInv, TypeOK
<1>7. FileIsAcked' /\ Settled' /\ \A r \in Routes : (ItemOf(config.routes, r) \in acked[r])'
  BY <1>2, <1>3, <1>4 DEF Solo, FileIsAcked, Settled
<1>8. CASE a.op = "toggle" /\ Goto(t, "replace")
  <2>1. Alone(t)' /\ pc'[t] = "replace"
    BY <1>2, <1>8, StaysAlone DEF Places
  <2>2. LocalsAreCurrent(t)' /\ JobsFollow(t)'
    BY <1>6, <1>8, <2>1 DEF LocalsAreCurrent, JobsFollow, Applied
  <2> QED BY <1>7, <2>1, <2>2 DEF Solo
<1>9. CASE /\ Goto(t, "dump")
           /\ index' = [index EXCEPT ![t] = IndexOf(config[a.sec], IdOf(a))]
  <2>1. Alone(t)' /\ pc'[t] = "dump"
    BY <1>2, <1>9, StaysAlone DEF Places
  <2>2. index'[t] = IndexOf(config[a.sec], IdOf(a))
    BY <1>9 DEF TypeInv, TypeOK
  <2>3. LocalsAreCurrent(t)' /\ JobsFollow(t)'
    BY <1>4, <1>6, <2>1, <2>2 DEF LocalsAreCurrent, JobsFollow, Applied
  <2> QED BY <1>7, <2>1, <2>3 DEF Solo
<1> QED BY <1>5, <1>8, <1>9

\* A request that is answered without having changed anything.
LEMMA RefusedSolo ==
  ASSUME TypeInv, NEW t \in Threads, Solo(t), ~Applied(t), Answer(t),
         UNCHANGED <<objects, mem, disk, armed, acked, unsaved>>
  PROVE  Solo(t)'
<1>1. Alone(t)' /\ pc'[t] = "idle"
  BY StaysAlone DEF Places, Solo, Answer
<1>2. config' = config
  BY DEF config
<1>3. FileIsAcked' /\ Settled'
  BY <1>2 DEF Solo, FileIsAcked, Settled
<1>4. \A r \in Routes : ItemOf(config'.routes, r) \in acked'[r]
  BY <1>2 DEF Solo, Pending
<1>5. LocalsAreCurrent(t)' /\ JobsFollow(t)'
  BY <1>1 DEF LocalsAreCurrent, JobsFollow, Applied
<1> QED BY <1>1, <1>3, <1>4, <1>5 DEF Solo

\* The list a request edits, when it is the only one.
LEMMA SoloEdit ==
  ASSUME TypeInv, ValidInv, NEW t \in Threads, pc[t] = "dump", LocalsAreCurrent(t), NEW id
  PROVE  ItemOf(Edited(config[ask[t].sec], ask[t], index[t]), id)
           = IF id = IdOf(ask[t]) THEN Wish(ask[t]) ELSE ItemOf(config[ask[t].sec], id)
<1> DEFINE a == ask[t]
           list == config[a.sec]
           i == index[t]
<1>1. a \in Ask /\ a.op # "toggle" /\ (a.op = "drop" => i > 0)
  BY DEF TypeInv, TypeOK
<1>2. a.sec \in Section /\ list \in Seq(ItemsOf(a.sec)) /\ Valid(config)
  BY <1>1, AskType, CurrentType, ConfigLists DEF ValidInv, TypeInv, TypeOK, config
<1>3. Unique(list)
  BY <1>2, UniqueByCount DEF Valid
<1>4. i = IndexOf(list, IdOf(a))
  BY DEF LocalsAreCurrent
<1> HIDE DEF a, list, i
<1>5. ItemOf(Edited(list, a, i), id) = IF id = IdOf(a) THEN Wish(a) ELSE ItemOf(list, id)
  BY <1>1, <1>2, <1>3, <1>4, EditedItems
<1> QED BY <1>5 DEF a, list, i

\* The edited list of a request that is alone holds the item asked for, and the others as they were.
LEMMA DumpSolo ==
  ASSUME TypeInv, ValidInv, NEW t \in Threads, Solo(t), Dump(t)
  PROVE  Solo(t)'
<1>1. UNCHANGED <<objects, mem, disk, lock, armed, history, bounds>> /\ pc[t] = "dump" /\ ~Applied(t)
  BY DEF Dump, Applied
<1>2. config' = config
  BY <1>1 DEF config
<1>3. CASE Answer(t)
  BY <1>1, <1>3, RefusedSolo DEF history
<1>4. CASE /\ part' = [part EXCEPT ![t] = Edited(config[ask[t].sec], ask[t], index[t])]
           /\ Goto(t, "build") /\ UNCHANGED <<ask, index, new, todo>>
  <2>1. Alone(t)' /\ pc'[t] = "build"
    BY <1>4, StaysAlone DEF Places, Solo
  <2>2. FileIsAcked' /\ Settled'
    BY <1>1, <1>2 DEF Solo, FileIsAcked, Settled, history
  <2>3. \A r \in Routes : ItemOf(config'.routes, r) \in acked'[r]
    BY <1>1, <1>2 DEF Solo, Pending, history
  <2>4. part'[t] = Edited(config[ask[t].sec], ask[t], index[t])
    BY <1>4 DEF TypeInv, TypeOK
  <2>5. ASSUME RouteEdit(ask[t]), NEW r \in Routes
        PROVE  ItemOf(part'[t], r) = After(config, ask[t], r)
    <3>1. ask[t].sec = "routes" /\ config["routes"] = config.routes
      BY <2>5, CurrentType DEF RouteEdit, Config
    <3>2. ItemOf(part'[t], r) = IF r = IdOf(ask[t]) THEN Wish(ask[t]) ELSE ItemOf(config.routes, r)
      BY <1>1, <2>4, <3>1, SoloEdit DEF Solo
    <3> QED BY <2>5, <3>2 DEF After
  <2>6. LocalsAreCurrent(t)' /\ JobsFollow(t)'
    BY <1>2, <1>4, <2>1, <2>5 DEF LocalsAreCurrent, JobsFollow, Applied
  <2> QED BY <2>1, <2>2, <2>3, <2>6 DEF Solo
<1> QED BY <1>3, <1>4 DEF Dump

\* The document that is built has the edited list, or is refused.
LEMMA BuildSolo ==
  ASSUME TypeInv, NEW t \in Threads, Solo(t), Build(t)
  PROVE  Solo(t)'
<1>1. /\ UNCHANGED <<mem, disk, lock, armed, history, bounds>> /\ pc[t] = "build" /\ ~Applied(t)
      /\ objects \in Seq(Config) /\ mem \in DOMAIN objects
  BY DEF Build, Applied, TypeInv, TypeOK
<1>2. CASE Answer(t) /\ UNCHANGED objects
  BY <1>1, <1>2, RefusedSolo DEF history
<1>3. CASE /\ objects' = Append(objects, Document(t))
           /\ new' = [new EXCEPT ![t] = Len(objects')]
           /\ Goto(t, "replace") /\ UNCHANGED <<ask, index, part, todo>>
  <2>1. Alone(t)' /\ pc'[t] = "replace"
    BY <1>3, StaysAlone DEF Places, Solo
  <2>2. PICK d : d = Document(t)
    OBVIOUS
  <2>3. d \in Config
    BY <1>1, <2>2, DocumentType
  <2>4. objects' = Append(objects, d)
    BY <1>3, <2>2
  <2>5. /\ \A i \in DOMAIN objects : objects'[i] = objects[i]
        /\ objects'[Len(objects')] = d
    BY <1>1, <2>3, <2>4
  <2>6. config' = config
    BY <1>1, <2>5 DEF config
  <2>7. new'[t] = Len(objects')
    BY <1>3 DEF TypeInv, TypeOK
  <2>8. FileIsAcked' /\ Settled'
    BY <1>1, <2>6 DEF Solo, FileIsAcked, Settled, history
  <2>9. \A r \in Routes : ItemOf(config'.routes, r) \in acked'[r]
    BY <1>1, <2>6 DEF Solo, Pending, history
  <2>10. ASSUME NEW r \in Routes PROVE ItemOf(d.routes, r) = After(config, ask[t], r)
    <3>0. /\ d.routes = d["routes"] /\ config.routes = config["routes"]
          /\ ask[t].op # "toggle" /\ ask[t].sec \in Section
          /\ d[ask[t].sec] = part[t]
          /\ \A other \in Section \ {ask[t].sec} : d[other] = config[other]
      BY <1>1, <2>2, <2>3, DocumentType, CurrentType DEF Config
    <3>1. CASE RouteEdit(ask[t])
      BY <1>1, <3>0, <3>1 DEF Solo, LocalsAreCurrent, RouteEdit
    <3>2. CASE ~RouteEdit(ask[t])
      <4>1. d["routes"] = config["routes"]
        BY <3>0, <3>2 DEF RouteEdit, Section
      <4> QED BY <3>0, <3>2, <4>1 DEF After
    <3> QED BY <3>1, <3>2
  <2>11. LocalsAreCurrent(t)'
    BY <1>3, <2>1, <2>5, <2>6, <2>7, <2>10 DEF LocalsAreCurrent, Applied
  <2>12. JobsFollow(t)'
    BY <2>1 DEF JobsFollow
  <2> QED BY <2>1, <2>8, <2>9, <2>11, <2>12 DEF Solo
<1> QED BY <1>2, <1>3 DEF Build

\* The object that is put in place is the one the request has built.
LEMMA ReplaceSolo ==
  ASSUME TypeInv, NEW t \in Threads, Solo(t), Replace(t)
  PROVE  Solo(t)'
<1>1. /\ UNCHANGED <<disk, armed, ask, index, part, todo, history, bounds>>
      /\ Goto(t, "write") /\ pc[t] = "replace" /\ ~Applied(t)
      /\ ask[t] \in Ask /\ new \in [Threads -> DOMAIN objects]
  BY DEF Replace, Applied, TypeInv, TypeOK
<1>2. Alone(t)' /\ pc'[t] = "write"
  BY <1>1, StaysAlone DEF Places, Solo
<1>3. \A r \in Routes : ItemOf(config.routes, r) \in acked[r]
  BY <1>1 DEF Solo, Pending
<1>4. /\ mem' = new'[t]
      /\ \A r \in Routes : ItemOf(config'.routes, r) = After(config, ask[t], r)
  <2>1. CASE ask[t].op = "toggle"
    <3>1. mem' = mem /\ objects'[mem] = [config EXCEPT !.enabled = ask[t].enabled]
          /\ ask[t].enabled \in BOOLEAN
      BY <2>1, ToggleStep
    <3>2. config'.routes = config.routes
      <4>1. config' = [config EXCEPT !.enabled = ask[t].enabled]
        BY <3>1 DEF config
      <4>2. PICK b \in BOOLEAN : b = ask[t].enabled
        BY <3>1
      <4>3. [config EXCEPT !.enabled = b].routes = config.routes
        BY CurrentType, ToggleKeepsValid
      <4> QED BY <4>1, <4>2, <4>3
    <3>3. new'[t] = mem
      BY <1>1, <2>1 DEF Replace
    <3> QED BY <2>1, <3>1, <3>2, <3>3 DEF After, RouteEdit
  <2>2. CASE ask[t].op # "toggle"
    <3>1. mem' = new[t] /\ UNCHANGED <<objects, new>>
      BY <2>2 DEF Replace
    <3>2. config' = objects[new[t]]
      BY <3>1 DEF config
    <3> QED BY <1>1, <2>2, <3>1, <3>2 DEF Solo, LocalsAreCurrent
  <2> QED BY <2>1, <2>2
<1>5. \A r \in Routes : ItemOf(config'.routes, r) \in acked[r] \/ Pending(t, r)'
  BY <1>1, <1>2, <1>3, <1>4 DEF After, Pending, Applied
<1>6. RouteEdit(ask[t]) => ItemOf(config'.routes, IdOf(ask[t])) = Wish(ask[t])
  <2>1. RouteEdit(ask[t]) => IdOf(ask[t]) \in Routes
    BY <1>1, AskType DEF RouteEdit
  <2> QED BY <1>4, <2>1 DEF After
<1>7. LocalsAreCurrent(t)' /\ JobsFollow(t)' /\ Applied(t)'
  BY <1>1, <1>2, <1>4, <1>6 DEF LocalsAreCurrent, JobsFollow, Applied
<1>8. FileIsAcked'
  <2>1. disk # Torn => \A r \in Routes : ItemOf(disk.routes, r) \in acked[r]
    BY <1>3 DEF Solo, FileIsAcked
  <2> QED BY <1>1, <2>1 DEF FileIsAcked, history
<1> QED BY <1>1, <1>2, <1>5, <1>7, <1>8 DEF Solo, history

\* A write that succeeds leaves the file as memory is.
LEMMA SavedSolo ==
  ASSUME TypeInv, NEW t \in Threads, Solo(t), Saved(t), Applied(t),
         UNCHANGED <<objects, mem, armed, acked, overlapped, edits, bounds>>
  PROVE  Solo(t)'
<1>1. Alone(t)' /\ pc'[t] = "list_jobs" /\ UNCHANGED <<ask, new>>
  BY StaysAlone DEF Places, Solo, Saved
<1>2. config' = config /\ disk' = config' /\ ~unsaved'
  BY DEF config, Saved, Text
<1>3. Applied(t)' /\ LocalsAreCurrent(t)' /\ JobsFollow(t)'
  BY <1>1, <1>2 DEF Solo, LocalsAreCurrent, JobsFollow, Applied
<1>4. \A r \in Routes : (ItemOf(config.routes, r) \in acked[r] \/ Pending(t, r))'
  BY <1>1, <1>2, <1>3 DEF Solo, Pending
<1> QED BY <1>1, <1>2, <1>3, <1>4 DEF Solo, FileIsAcked

\* A file opened for writing in place is torn until the write succeeds.
LEMMA TruncateSolo ==
  ASSUME TypeInv, NEW t \in Threads, Solo(t), Truncate(t)
  PROVE  Solo(t)'
<1>1. Alone(t)' /\ pc'[t] = "overwrite" /\ pc[t] = "write"
  BY StaysAlone DEF Places, Solo, Truncate
<1>2. UNCHANGED <<objects, mem, lock, armed, ask, index, part, new, todo, history, bounds>> /\ disk' = Torn
  BY DEF Truncate
<1>3. config' = config
  BY <1>2 DEF config
<1>4. Applied(t)' /\ LocalsAreCurrent(t)' /\ JobsFollow(t)'
  BY <1>1, <1>2, <1>3 DEF Solo, LocalsAreCurrent, JobsFollow, Applied
<1>5. \A r \in Routes : (ItemOf(config.routes, r) \in acked[r] \/ Pending(t, r))'
  BY <1>2, <1>3, <1>4 DEF Solo, Pending, history
<1> QED BY <1>1, <1>2, <1>4, <1>5 DEF Solo, FileIsAcked

\* The answer a failed edit gets allows the route to be either way.
LEMMA FailWriteSolo ==
  ASSUME TypeInv, NEW t \in Threads, Solo(t), FailWrite(t)
  PROVE  Solo(t)'
<1>1. Alone(t)' /\ pc'[t] = "idle" /\ Applied(t)
  BY StaysAlone DEF Places, Solo, FailWrite, Answer, Applied
<1>2. /\ UNCHANGED <<objects, mem, disk, armed, overlapped, edits>> /\ unsaved'
      /\ ask[t] \in Ask /\ acked \in [Routes -> SUBSET (RouteItem \cup {NoItem})]
  BY DEF FailWrite, TypeInv, TypeOK
<1>3. config' = config
  BY <1>2 DEF config
<1>4. LocalsAreCurrent(t)' /\ JobsFollow(t)' /\ ~Applied(t)'
  BY <1>1 DEF LocalsAreCurrent, JobsFollow, Applied
<1>5. /\ \A r \in Routes : acked[r] \subseteq acked'[r]
      /\ RouteEdit(ask[t]) => Wish(ask[t]) \in acked'[IdOf(ask[t])]
  <2>1. CASE RouteEdit(ask[t])
    <3>1. IdOf(ask[t]) \in Routes
      BY <1>2, <2>1, AskType DEF RouteEdit
    <3>2. acked' = [acked EXCEPT ![IdOf(ask[t])] = @ \cup {Wish(ask[t])}]
      BY <2>1 DEF FailWrite
    <3> QED BY <1>2, <3>1, <3>2
  <2>2. CASE ~RouteEdit(ask[t])
    BY <2>2 DEF FailWrite
  <2> QED BY <2>1, <2>2
<1>6. \A r \in Routes : ItemOf(config'.routes, r) \in acked'[r]
  <2>1. RouteEdit(ask[t]) => ItemOf(config.routes, IdOf(ask[t])) = Wish(ask[t])
    BY <1>1 DEF Solo, LocalsAreCurrent
  <2> QED BY <1>3, <1>5, <2>1 DEF Solo, Pending
<1>7. FileIsAcked'
  BY <1>2, <1>3, <1>5 DEF Solo, FileIsAcked
<1> QED BY <1>1, <1>2, <1>4, <1>6, <1>7 DEF Solo, Settled

\* The jobs to take down are those that are armed.
LEMMA ListJobsSolo ==
  ASSUME TypeInv, NEW t \in Threads, Solo(t), ListJobs(t)
  PROVE  Solo(t)'
<1>1. Alone(t)' /\ pc'[t] = "disarm" /\ pc[t] = "list_jobs"
  BY StaysAlone DEF Places, Solo, ListJobs
<1>2. /\ UNCHANGED <<objects, mem, disk, lock, armed, ask, index, part, new, history, bounds>>
      /\ todo'[t] = armed
  BY DEF ListJobs, JobsToRemove, TypeInv, TypeOK
<1>3. config' = config
  BY <1>2 DEF config
<1>4. Applied(t)' /\ LocalsAreCurrent(t)' /\ JobsFollow(t)'
  BY <1>1, <1>2, <1>3 DEF Solo, LocalsAreCurrent, JobsFollow, Applied, history
<1>5. \A r \in Routes : (ItemOf(config.routes, r) \in acked[r] \/ Pending(t, r))'
  BY <1>2, <1>3, <1>4 DEF Solo, Pending, history
<1> QED BY <1>1, <1>2, <1>3, <1>4, <1>5 DEF Solo, FileIsAcked, history

\* The jobs that were listed are the ones that are armed: none is found to be gone.
LEMMA DisarmSolo ==
  ASSUME TypeInv, OneJobEach, NEW t \in Threads, Solo(t), Disarm(t)
  PROVE  Solo(t)'
<1>1. /\ UNCHANGED <<objects, mem, disk, lock, history, bounds>> /\ pc[t] = "disarm"
      /\ todo \in [Threads -> SUBSET (Routes \X Crons)] /\ todo[t] = armed
      /\ disk = config /\ ~unsaved
  BY DEF Disarm, TypeInv, TypeOK, Solo, JobsFollow
<1>2. config' = config /\ FileIsAcked'
  BY <1>1 DEF config, FileIsAcked
<1>3. ASSUME Alone(t)', UNCHANGED <<ask, index, part, new>>, pc'[t] \in {"disarm", "arm"},
             JobsFollow(t)'
      PROVE  Solo(t)'
  <2>1. Applied(t)' /\ LocalsAreCurrent(t)'
    BY <1>1, <1>2, <1>3 DEF Solo, LocalsAreCurrent, Applied
  <2>2. \A r \in Routes : (ItemOf(config.routes, r) \in acked[r] \/ Pending(t, r))'
    BY <1>1, <1>2, <1>3, <2>1 DEF Solo, Pending, history
  <2> QED BY <1>2, <1>3, <2>1, <2>2 DEF Solo
<1>4. ASSUME NEW j \in todo[t], OfRoute(j[1]) # {}, armed' = armed \ OfRoute(j[1]),
             todo' = [todo EXCEPT ![t] = @ \ {j}], UNCHANGED <<pc, ask, index, part, new>>
      PROVE  Solo(t)'
  <2>1. OfRoute(j[1]) = {j}
    BY <1>1, <1>4 DEF OneJobEach, OfRoute
  <2>2. todo'[t] = armed'
    BY <1>1, <1>4, <2>1
  <2>3. Alone(t)'
    BY <1>4 DEF Solo, Alone
  <2>4. JobsFollow(t)'
    BY <1>1, <1>2, <1>4, <2>2 DEF JobsFollow, history
  <2> QED BY <1>1, <1>3, <1>4, <2>3, <2>4
<1>5. CASE /\ todo[t] = {} /\ UNCHANGED <<armed, ask, index, part, new>>
           /\ todo' = [todo EXCEPT ![t] = Armable(objects[new[t]])] /\ Goto(t, "arm")
  <2>1. Alone(t)' /\ pc'[t] = "arm"
    BY <1>5, StaysAlone DEF Places, Solo
  <2>2. todo'[t] = Armable(config)
    <3>1. mem = new[t]
      BY <1>1 DEF Solo, LocalsAreCurrent, Applied
    <3> QED BY <1>1, <1>5, <3>1 DEF config
  <2>3. JobsFollow(t)'
    BY <1>1, <1>2, <1>5, <2>1, <2>2 DEF JobsFollow, history
  <2> QED BY <1>3, <1>5, <2>1, <2>3
<1>6. \A j \in todo[t] : OfRoute(j[1]) # {}
  BY <1>1 DEF OfRoute
<1> QED BY <1>4, <1>5, <1>6 DEF Disarm

\* The last route that is armed makes the jobs what memory says.
LEMMA ArmSolo ==
  ASSUME TypeInv, ValidInv, NEW t \in Threads, Solo(t), Arm(t)
  PROVE  Solo(t)'
<1>1. /\ UNCHANGED <<objects, mem, disk, lock, pc, ask, index, part, new, history, bounds>>
      /\ pc[t] = "arm" /\ todo \in [Threads -> SUBSET (Routes \X Crons)]
      /\ armed \cup todo[t] = Armable(config) /\ disk = config /\ ~unsaved
  BY DEF Arm, TypeInv, TypeOK, Solo, JobsFollow
<1>2. config' = config /\ FileIsAcked' /\ Alone(t)'
  BY <1>1 DEF config, FileIsAcked, Solo, Alone
<1>3. PICK j \in todo[t] : /\ armed' = (armed \ OfRoute(j[1])) \cup {j}
                           /\ todo' = [todo EXCEPT ![t] = @ \ {j}]
  BY DEF Arm
<1>4. OfRoute(j[1]) \subseteq {j}
  <2>1. Valid(config)
    BY DEF ValidInv, TypeInv, TypeOK, config
  <2>2. \A k \in Armable(config) : k[1] = j[1] => k = j
    BY <1>1, <1>3, <2>1, CurrentType, ArmableOnce
  <2> QED BY <1>1, <2>2 DEF OfRoute
<1>5. armed' \cup todo'[t] = Armable(config)
  BY <1>1, <1>3, <1>4
<1>6. Applied(t)' /\ LocalsAreCurrent(t)' /\ JobsFollow(t)'
  BY <1>1, <1>2, <1>5 DEF Solo, LocalsAreCurrent, JobsFollow, Applied, history
<1>7. \A r \in Routes : (ItemOf(config.routes, r) \in acked[r] \/ Pending(t, r))'
  BY <1>1, <1>2, <1>6 DEF Solo, Pending, history
<1> QED BY <1>2, <1>6, <1>7 DEF Solo

\* An answer finds the edit in memory, on disk and armed.
LEMMA AcknowledgeSolo ==
  ASSUME TypeInv, NEW t \in Threads, Solo(t), Acknowledge(t)
  PROVE  Solo(t)'
<1>1. Alone(t)' /\ pc'[t] = "idle" /\ pc[t] = "arm" /\ Applied(t)
  BY StaysAlone DEF Places, Solo, Acknowledge, Answer, Applied
<1>2. /\ UNCHANGED <<objects, mem, disk, lock, armed, overlapped, unsaved>>
      /\ ask[t] \in Ask /\ acked \in [Routes -> SUBSET (RouteItem \cup {NoItem})]
      /\ todo[t] = {}
  BY DEF Acknowledge, TypeInv, TypeOK
<1>3. config' = config
  BY <1>2 DEF config
<1>4. LocalsAreCurrent(t)' /\ JobsFollow(t)' /\ ~Applied(t)'
  BY <1>1 DEF LocalsAreCurrent, JobsFollow, Applied
<1>5. disk = config /\ armed = Armable(config)
  BY <1>1, <1>2 DEF Solo, JobsFollow
<1>6. Settled' /\ FileIsAcked'
  BY <1>2, <1>3, <1>5 DEF Settled, FileIsAcked
<1>7. \A r \in Routes : ItemOf(config'.routes, r) \in acked'[r]
  <2>1. RouteEdit(ask[t]) => ItemOf(config.routes, IdOf(ask[t])) = Wish(ask[t])
    BY <1>1 DEF Solo, LocalsAreCurrent
  <2>2. \A r \in Routes : IF RouteEdit(ask[t]) /\ IdOf(ask[t]) = r
                          THEN acked'[r] = {Wish(ask[t])} ELSE acked'[r] = acked[r]
    BY <1>2 DEF Acknowledge
  <2> QED BY <1>3, <2>1, <2>2 DEF Solo, Pending
<1> QED BY <1>1, <1>4, <1>6, <1>7 DEF Solo

\* What was in flight may or may not be there after a restart.
LEMMA RestartSolo ==
  ASSUME TypeInv, SoloInv, Restart
  PROVE  SoloInv'
<1> SUFFICES ASSUME ~overlapped' PROVE SoloInv'
  BY DEF SoloInv
<1>1. /\ ~overlapped /\ disk # Torn /\ UNCHANGED <<disk, ask>>
      /\ objects' = <<disk>> /\ mem' = 1 /\ armed' = Armable(disk)
      /\ pc' = [t \in Threads |-> "idle"]
  BY DEF Restart
<1>2. config' = disk
  BY <1>1 DEF config
<1>3. \A t \in Threads : pc'[t] = "idle"
  BY <1>1
<1>4. OneAtATime' /\ \A t \in Threads : LocalsAreCurrent(t)' /\ JobsFollow(t)'
  BY <1>3 DEF OneAtATime, LocalsAreCurrent, JobsFollow, Applied
<1>5. Settled' /\ FileIsAcked'
  BY <1>1, <1>2 DEF Settled, FileIsAcked
<1>6. ASSUME NEW r \in Routes PROVE ItemOf(disk.routes, r) \in acked'[r]
  <2>1. acked'[r] = acked[r] \cup {Wish(ask[t]) : t \in {u \in Threads :
                    pc[u] # "idle" /\ RouteEdit(ask[u]) /\ IdOf(ask[u]) = r}}
    BY DEF Restart
  <2>2. CASE ItemOf(disk.routes, r) \in acked[r]
    BY <2>1, <2>2
  <2>3. CASE ItemOf(disk.routes, r) \notin acked[r]
    <3>1. disk = config
      BY <1>1, <2>3 DEF SoloInv, FileIsAcked
    <3>2. PICK t \in Threads : Pending(t, r)
      BY <1>1, <2>3, <3>1 DEF SoloInv, RoutesAreAcked
    <3>3. pc[t] # "idle" /\ ItemOf(disk.routes, r) = Wish(ask[t])
      BY <1>1, <3>1, <3>2 DEF SoloInv, LocalsAreCurrent, Pending, Applied
    <3> QED BY <2>1, <3>2, <3>3 DEF Pending
  <2> QED BY <2>2, <2>3
<1>7. RoutesAreAcked'
  BY <1>2, <1>6 DEF RoutesAreAcked
<1> QED BY <1>4, <1>5, <1>7 DEF SoloInv

\* Every step keeps what holds while no two requests have overlapped.
LEMMA SoloInv_Inductive ==
  TypeInv /\ ValidInv /\ OneJobEach /\ SoloInv /\ [Next]_vars => SoloInv'
<1> SUFFICES ASSUME TypeInv, ValidInv, OneJobEach, SoloInv, [Next]_vars, ~overlapped'
             PROVE  SoloInv'
  BY DEF SoloInv
<1>1. ASSUME NEW t \in Threads, Arrive(t) PROVE SoloInv'
  BY <1>1, ArriveSolo, FromSolo
<1>2. ASSUME NEW t \in Threads, Request(t) PROVE SoloInv'
  <2>1. ~overlapped /\ pc[t] # "idle"
    BY <1>2 DEF Request, Dump, Build, Replace, WriteFile, Truncate, Overwrite, FailWrite,
                ListJobs, Disarm, Arm, Acknowledge, history
  <2>2. Solo(t)
    BY <2>1, BusyIsAlone
  <2>3. ASSUME WriteFile(t) \/ Overwrite(t) PROVE Solo(t)'
    BY <2>2, <2>3, SavedSolo DEF WriteFile, Overwrite, Applied
  <2>4. Solo(t)'
    BY <1>2, <2>2, <2>3, DumpSolo, BuildSolo, ReplaceSolo, TruncateSolo, FailWriteSolo,
       ListJobsSolo, DisarmSolo, ArmSolo, AcknowledgeSolo DEF Request
  <2> QED BY <2>4, FromSolo
<1>3. CASE Restart
  BY <1>3, RestartSolo
<1>4. CASE UNCHANGED vars
  <2>1. UNCHANGED <<objects, mem, disk, armed, pc, ask, index, part, new, todo, acked, overlapped, unsaved>>
    BY <1>4 DEF vars, reqVars, history
  <2>2. config' = config
    BY <2>1 DEF config
  <2> QED BY <2>1, <2>2 DEF SoloInv, OneAtATime, RoutesAreAcked, FileIsAcked, LocalsAreCurrent,
                            JobsFollow, Settled, Applied, Pending
<1> QED BY <1>1, <1>2, <1>3, <1>4 DEF Next

\* It holds at the first start.
LEMMA InitSolo == Init => SoloInv
<1> SUFFICES ASSUME Init PROVE SoloInv
  OBVIOUS
<1>1. /\ objects = <<FirstConfig>> /\ disk = FirstConfig /\ armed = Armable(FirstConfig) /\ mem = 1
      /\ acked = [r \in Routes |-> {ItemOf(FirstConfig.routes, r)}]
      /\ \A t \in Threads : pc[t] = "idle"
  BY InitFirst DEF Init
<1>2. config = FirstConfig
  BY <1>1 DEF config
<1> QED BY <1>1, <1>2 DEF SoloInv, OneAtATime, RoutesAreAcked, FileIsAcked, LocalsAreCurrent,
                          JobsFollow, Settled, Applied

EditInv == TypeInv /\ ValidInv /\ OneJobEach /\ SoloInv

\* The inductive invariant of the edits.
LEMMA EditInvHolds == Spec => []EditInv
<1>1. Init => EditInv
  BY InitType, InitValid, InitOneJobEach, InitSolo DEF EditInv
<1>2. EditInv /\ [Next]_vars => EditInv'
  BY NextType, ConfigIsValid_Inductive, OneJobEach_Inductive, SoloInv_Inductive DEF EditInv
<1> QED BY <1>1, <1>2, PTL DEF Spec

\* After edits one at a time memory, file and scheduler agree, whatever writes fail and processes
\* end in between, once a write has succeeded again (config_store.py, rearm).
THEOREM MemoryFileAndJobsAgree == Spec => []InStep
<1>1. EditInv => InStep
  BY DEF EditInv, SoloInv, Settled, Applied, InStep, Quiet
<1> QED BY <1>1, EditInvHolds, PTL

\* After edits one at a time every route is what its answered edits say, also after a write that
\* failed or a restart: no acknowledged edit is undone by a later request (routes.py, _config_edit.py).
THEOREM AcknowledgedEditsStay == Spec => []AckedEditStays
<1>1. EditInv => AckedEditStays
  BY DEF EditInv, SoloInv, RoutesAreAcked, Pending, Applied, AckedEditStays, Quiet
<1> QED BY <1>1, EditInvHolds, PTL

\* A request that is the only one changes the item it names and no other: the position it looked
\* up is still that item's when it edits the list (_find, _index and _dump of routes.py).
THEOREM OthersKeepTheirItems == Spec => OnlyTheNamedItemChanges
<1> DEFINE A == \A t \in Threads : pc[t] = "dump" /\ pc'[t] = "build" /\ ~overlapped =>
                  LET list == config[ask[t].sec]
                  IN  \A id \in (Ids(list) \cup Ids(part'[t])) \ {IdOf(ask[t])} :
                        ItemOf(part'[t], id) = ItemOf(list, id)
<1>1. EditInv /\ [Next]_vars => [A]_vars
  <2> SUFFICES ASSUME EditInv, Next, NEW t \in Threads, pc[t] = "dump", pc'[t] = "build",
                      ~overlapped
               PROVE  \A id : id # IdOf(ask[t]) =>
                        ItemOf(part'[t], id) = ItemOf(config[ask[t].sec], id)
    OBVIOUS
  <2>1. pc \in [Threads -> Places] /\ part \in [Threads -> Seq(Item)]
    BY DEF EditInv, TypeInv, TypeOK
  <2>2. Dump(t)
    <3>1. ~Restart
      BY DEF Restart
    <3>2. ASSUME NEW u \in Threads, u # t, Arrive(u) \/ Request(u) PROVE FALSE
      BY <2>1, <3>2 DEF Arrive, Request, Dump, Build, Replace, WriteFile, Truncate, Overwrite,
           FailWrite, ListJobs, Disarm, Arm, Acknowledge, Saved, Answer, Goto
    <3>3. ~Arrive(t)
      BY DEF Arrive
    <3>4. Request(t) => Dump(t)
      BY DEF Request, Build, Replace, WriteFile, Truncate, Overwrite, FailWrite, ListJobs,
             Disarm, Arm, Acknowledge
    <3> QED BY <3>1, <3>2, <3>3, <3>4 DEF Next
  <2>3. part'[t] = Edited(config[ask[t].sec], ask[t], index[t])
    <3>1. ~Answer(t)
      BY <2>1 DEF Answer, Goto
    <3> QED BY <2>1, <2>2, <3>1 DEF Dump
  <2>4. LocalsAreCurrent(t) /\ TypeInv /\ ValidInv
    BY DEF EditInv, SoloInv
  <2> QED BY <2>3, <2>4, SoloEdit
<1> QED BY <1>1, EditInvHolds, PTL DEF Spec, OnlyTheNamedItemChanges
==============================================================================
