-------------------------------- MODULE Settings --------------------------------
(***************************************************************************)
(* Saving the settings: PUT /api/config of backend/app/api/config.py with   *)
(* the redaction and the merge of config.py, the API key, and the account   *)
(* and sessions of api/auth.py and core/security.py.                        *)
(*                                                                         *)
(* Browser tabs load the configuration with its secrets masked, edit what   *)
(* they loaded, however old it is by then, and send all of it back.  Every  *)
(* handler reads the store, works, and changes it; handlers of other tabs   *)
(* run in between.  That a write may fail is ConfigEdit's.                  *)
(***************************************************************************)
EXTENDS Integers, SequencesExt

CONSTANTS
  Tab,       \* browser tabs
  DevId,     \* ids of devices
  MaxActs    \* bound: forms sent, and keys and accounts changed

ASSUME SettingsAssumption == MaxActs \in Nat

VARIABLES
  store,     \* the configuration
  session,   \* pwv of each tab's session cookie, by the password it stands for; 0 for none
  tab,       \* each tab: what it does, its form, and of a PUT under way what it has merged;
             \* history: whether the store was changed since the PUT read it
  acts       \* acts of the users so far, counted; it numbers what they type

vars == <<store, session, tab, acts>>

\* A secret: what somebody typed for an id, or a sign.  Empty secrets are not masked.
Typed(of, n) == [of |-> of, n |-> n]
Mask == Typed("mask", 0)
Empty == Typed("empty", 0)
Absent == Typed("absent", 0)
Signs == {Mask, Empty, Absent}

Secret == [of : DevId \union {"bot", "url"}, n : 0 .. MaxActs] \union Signs
Device == [id : DevId, secret : Secret]
ConfigType == [devs : Seq(Device), bot : Secret, urls : Seq(Secret), key : 0 .. MaxActs,
               user : 0 .. MaxActs + 1, hash : 0 .. MaxActs + 1]

Phases == {"idle", "form", "put", "enforce", "replace", "setup", "account",
           "setup_session", "resession"}

TypeOK ==
  /\ store \in ConfigType /\ acts \in 0 .. MaxActs
  /\ session \in [Tab -> 0 .. MaxActs + 1]
  /\ \A t \in Tab : /\ tab[t].phase \in Phases
                    /\ {tab[t].form, tab[t].merged} \subseteq ConfigType
                    /\ tab[t].overtaken \in BOOLEAN

Nothing == [devs |-> <<>>, bot |-> Empty, urls |-> <<>>, key |-> 0, user |-> 0, hash |-> 0]
Idle == [phase |-> "idle", form |-> Nothing, merged |-> Nothing, overtaken |-> FALSE]

\* Before the first account, or with one and somebody signed in.  Two devices, one of them
\* without a secret.
Start(hash) ==
  [devs |-> <<[id |-> "d1", secret |-> Typed("d1", 0)], [id |-> "d2", secret |-> Typed("d2", 0)]>>,
   bot |-> Typed("bot", 0), urls |-> <<Typed("url", 0), Typed("url", 0)>>, key |-> 0,
   user |-> hash, hash |-> hash]

Init ==
  /\ \E hash \in {0, 1} : store = Start(hash) /\ session = [t \in Tab |-> hash]
  /\ tab = [t \in Tab |-> Idle] /\ acts = 0

\* The store is about to change under the PUTs that have read it.
Overtake(tabs, t) ==
  [u \in Tab |-> IF u # t /\ tabs[u].phase \in {"enforce", "replace"}
                   THEN [tabs[u] EXCEPT !.overtaken = TRUE] ELSE tabs[u]]

SignedIn(t) == session[t] # 0 /\ session[t] = store.hash

-----------------------------------------------------------------------------
\* redact
Masked(s) == IF s = Empty THEN Empty ELSE Mask
Redacted(c) ==
  [c EXCEPT !.devs = [i \in DOMAIN c.devs |-> [c.devs[i] EXCEPT !.secret = Masked(@)]],
            !.bot = Masked(@), !.urls = [i \in DOMAIN c.urls |-> Masked(c.urls[i])]]

Load(t) ==
  /\ tab[t].phase \in {"idle", "form"} /\ SignedIn(t)
  /\ tab' = [tab EXCEPT ![t] = [Idle EXCEPT !.phase = "form", !.form = Redacted(store)]]
  /\ UNCHANGED <<store, session, acts>>

\* What is typed into a device before it is renamed is meant for the new id.
Renamed(dev, d) ==
  [id |-> d, secret |-> IF dev.secret \in Signs THEN dev.secret ELSE Typed(d, dev.secret.n)]

\* What a user makes of a form: leaves it, puts the devices in another order, removes one,
\* renames one, or types, clears or cuts out a secret.
Forms(f, n) ==
  LET At(i, s) == [f EXCEPT !.devs[i].secret = s] IN
  {f, [f EXCEPT !.devs = Reverse(@)], [f EXCEPT !.devs = IF @ = <<>> THEN @ ELSE Tail(@)]}
  \union {At(i, s) : i \in DOMAIN f.devs, s \in {Empty, Absent}}
  \union {At(i, Typed(f.devs[i].id, n)) : i \in DOMAIN f.devs}
  \union {[f EXCEPT !.devs[i] = Renamed(f.devs[i], d)] :
            i \in DOMAIN f.devs, d \in DevId \ {f.devs[j].id : j \in DOMAIN f.devs}}
  \union {[f EXCEPT !.bot = s] : s \in {Empty, Absent, Typed("bot", n)}}
  \union {[f EXCEPT !.urls = u] :
            u \in {<<>>, <<Typed("url", n)>>, Append(f.urls, Typed("url", n))}}

Send(t) ==
  /\ tab[t].phase = "form" /\ acts < MaxActs
  /\ acts' = acts + 1
  /\ \E f \in Forms(tab[t].form, acts + 1) : tab' = [tab EXCEPT ![t].phase = "put", ![t].form = f]
  /\ UNCHANGED <<store, session>>

-----------------------------------------------------------------------------
\* Mutant: a device's secrets are those at its place in the stored list.
MatchByPlace(dev, i, c) == IF i <= Len(c.devs) THEN {c.devs[i]} ELSE {}
\* _match: the stored device of the same id, if there is one.
Match(dev, i, c) == {d \in ToSet(c.devs) : d.id = dev.id}

\* _unmask: the secret, or none when a mask has nothing to stand for.
Unmask(s, stored) == IF s = Mask THEN stored ELSE {s}

\* Mutant: a secret that was cut out of a device is gone.
CutOut(s, stored) == IF s = Absent THEN {Empty} ELSE Unmask(s, stored)
\* _keep_omitted_secrets.  A new device starts without one.
Restore(s, stored) ==
  IF s = Absent THEN IF stored = {} THEN {Empty} ELSE stored ELSE Unmask(s, stored)

RestoreDevice(dev, i, c) ==
  {[dev EXCEPT !.secret = s] : s \in Restore(dev.secret, {d.secret : d \in Match(dev, i, c)})}

RestoreDevices(ds, c) ==
  IF \A i \in DOMAIN ds : RestoreDevice(ds[i], i, c) # {}
    THEN {[i \in DOMAIN ds |-> CHOOSE d \in RestoreDevice(ds[i], i, c) : TRUE]} ELSE {}

\* A list of secrets is kept, replaced or cleared as a whole; a mixed one is ambiguous.
RestoreUrls(u, c) ==
  IF u = <<>> THEN {<<>>}
  ELSE IF ToSet(u) = {Mask} THEN {c.urls}
  ELSE IF Mask \in ToSet(u) THEN {} ELSE {u}

\* deep_merge: a mapping merges by key, and a secret cut out of one is the stored one.
RestoreBot(s, c) == IF s = Absent THEN {c.bot} ELSE Unmask(s, {c.bot})

\* restore_secrets: a list is the form's.  The result is a set of one, or empty where the form
\* is refused.
Merged(f, c) ==
  {[f EXCEPT !.devs = ds, !.bot = b, !.urls = u] :
     ds \in RestoreDevices(f.devs, c), b \in RestoreBot(f.bot, c), u \in RestoreUrls(f.urls, c)}

Put(t) ==
  /\ tab[t].phase = "put"
  /\ tab' = [tab EXCEPT ![t] =
       IF SignedIn(t) /\ Merged(tab[t].form, store) # {}
         THEN [@ EXCEPT !.phase = "enforce", !.overtaken = FALSE,
                        !.merged = CHOOSE m \in Merged(tab[t].form, store) : TRUE]
         ELSE [@ EXCEPT !.phase = "form"]]
  /\ UNCHANGED <<store, session, acts>>

\* Mutant: the name is left to the form.
NameFromForm(c, s) == [c EXCEPT !.key = s.key, !.hash = s.hash]
\* enforce_server_managed
Enforced(c, s) == [c EXCEPT !.key = s.key, !.hash = s.hash, !.user = s.user]

Enforce(t) ==
  /\ tab[t].phase = "enforce"
  /\ tab' = [tab EXCEPT ![t].phase = "replace", ![t].merged = Enforced(@, store)]
  /\ UNCHANGED <<store, session, acts>>

\* The answer is the new configuration, masked, and the tab's form from now on.
Replace(t) ==
  /\ tab[t].phase = "replace"
  /\ store' = tab[t].merged
  /\ tab' = Overtake([tab EXCEPT ![t] =
                        [Idle EXCEPT !.phase = "form", !.form = Redacted(tab[t].merged)]], t)
  /\ UNCHANGED <<session, acts>>

-----------------------------------------------------------------------------
\* ConfigStore.update: under the lock, on the configuration there is.
RotateKey(t) ==
  /\ SignedIn(t) /\ tab[t].phase \in {"idle", "form"} /\ acts < MaxActs
  /\ \E key \in {0, acts + 1} : store' = [store EXCEPT !.key = key]
  /\ acts' = acts + 1 /\ tab' = Overtake(tab, t)
  /\ UNCHANGED session

\* setup: the look whether there is an account, and the change.
BeginSetup(t) ==
  /\ tab[t].phase = "idle" /\ store.hash = 0 /\ acts < MaxActs
  /\ acts' = acts + 1
  /\ tab' = [tab EXCEPT ![t].phase = "setup",
                        ![t].merged = [Nothing EXCEPT !.user = acts + 2, !.hash = acts + 2]]
  /\ UNCHANGED <<store, session>>

\* update_account: the current password is confirmed; the name, the password or both change.
BeginAccount(t) ==
  /\ SignedIn(t) /\ tab[t].phase = "idle" /\ acts < MaxActs
  /\ acts' = acts + 1
  /\ \E hash \in {0, acts + 2} :
       tab' = [tab EXCEPT ![t].phase = "account",
                          ![t].merged = [Nothing EXCEPT !.user = acts + 2, !.hash = hash]]
  /\ UNCHANGED <<store, session>>

\* apply: no new password keeps the one there is.
UpdateAccount(t) ==
  /\ tab[t].phase \in {"setup", "account"}
  /\ LET m == tab[t].merged IN
     store' = [store EXCEPT !.user = m.user, !.hash = IF m.hash = 0 THEN @ ELSE m.hash]
  /\ tab' = Overtake([tab EXCEPT ![t].phase = IF @ = "setup" THEN "setup_session" ELSE "resession"], t)
  /\ UNCHANGED <<session, acts>>

RequestHash(t) == tab[t].merged.hash
StoredHash(t) == store.hash

\* Mutant: a change of the account signs with the request's password, which may be none.
SignsWithRequest(t) == RequestHash(t)
\* setup signs with the password that came with it, update_account with the one that is stored.
SignsWith(t) == IF tab[t].phase = "setup_session" THEN RequestHash(t) ELSE StoredHash(t)

\* login_session
Resession(t) ==
  /\ tab[t].phase \in {"setup_session", "resession"}
  /\ session' = [session EXCEPT ![t] = SignsWith(t)]
  /\ tab' = [tab EXCEPT ![t] = Idle]
  /\ UNCHANGED <<store, acts>>

\* login with the password there is, and logout.
Login(t) ==
  /\ tab[t].phase \in {"idle", "form"} /\ store.hash # 0 /\ ~SignedIn(t)
  /\ session' = [session EXCEPT ![t] = store.hash]
  /\ UNCHANGED <<store, tab, acts>>

Logout(t) ==
  /\ tab[t].phase \in {"idle", "form"} /\ SignedIn(t)
  /\ session' = [session EXCEPT ![t] = 0]
  /\ UNCHANGED <<store, tab, acts>>

TabNext(t) ==
  \/ Load(t) \/ Send(t) \/ Put(t) \/ Enforce(t) \/ Replace(t) \/ RotateKey(t) \/ BeginSetup(t)
  \/ BeginAccount(t) \/ UpdateAccount(t) \/ Resession(t) \/ Login(t) \/ Logout(t)

Next == \E t \in Tab : TabNext(t)

Spec == Init /\ [][Next]_vars

-----------------------------------------------------------------------------
\* A device's secret is empty or was typed for that device's id: never a mask, and never
\* another device's, in whatever order, with whatever ids and how late the forms come.
SecretsAreTheirs ==
  /\ \A i \in DOMAIN store.devs : store.devs[i].secret = Empty \/ store.devs[i].secret.of = store.devs[i].id
  /\ store.bot = Empty \/ store.bot.of = "bot"
  /\ \A i \in DOMAIN store.urls : store.urls[i].of = "url"

\* Saving a form changes what it says and nothing else, if nobody else saved meanwhile: a
\* secret of a device that is in the form changes only to what the form has for it, and the
\* account and the key not at all ("a stale copy would otherwise undo a rename").  Whoever
\* changes the account stays signed in.  That is not said of a setup: of two that both found no
\* account the later one stands, and the other's cookie is not worth anything.
FormsSayWhatTheyChange ==
  [][\A t \in Tab :
       LET f == tab[t].form
           Explicit(s) == s \notin {Mask, Absent} IN
       /\ tab[t].phase = "replace" /\ tab'[t].phase # "replace" /\ ~tab[t].overtaken =>
            /\ \A old \in ToSet(store.devs), new \in ToSet(store'.devs) :
                 old.id = new.id /\ old.secret # new.secret =>
                   Explicit(new.secret) /\ new \in ToSet(f.devs)
            /\ {d.id : d \in ToSet(f.devs)} = {d.id : d \in ToSet(store'.devs)}
            /\ store'.bot # store.bot => Explicit(f.bot)
            /\ store'.urls # store.urls => Mask \notin ToSet(f.urls)
            /\ <<store'.user, store'.hash, store'.key>> = <<store.user, store.hash, store.key>>
       /\ tab[t].phase = "resession" /\ tab'[t].phase # "resession" =>
            session'[t] = store'.hash]_vars
=============================================================================
