-------------------------------- MODULE Wizard --------------------------------
(***************************************************************************)
(* Adding a backup server: the steps of frontend/src/wizard/AddPbsWizard.tsx *)
(* over the stateless calls of backend/app/core/wizard.py, which make an    *)
(* API token on the server (connectors/provision.py) and the key of the     *)
(* power-off command (connectors/sshkey.py).                                *)
(*                                                                         *)
(* One server holds several datastores, each a device of its own; wizards   *)
(* may be open in several tabs, each with an id of its own for its device.  *)
(* Any request may fail, having acted or not.  That the host key is trusted *)
(* before the root password goes over SSH only delays, and is left out.     *)
(***************************************************************************)
EXTENDS Integers, Sequences

CONSTANTS
  Wizards,       \* open wizards
  Datastore,     \* the datastores of the server
  NoStore,
  TokenName,     \* the name of a datastore's token: it is cleaned of what PBS refuses in one,
                 \* so datastores of two names may have tokens of one
  MaxSecret,     \* bound: tokens and keys made
  MaxFaults,     \* bound: requests that fail
  MovesOn,       \* whether a user who agreed to a replacement may go back and change the datastore
  OverlapKeygen  \* whether two keygen requests may overlap

ASSUME WizardAssumption ==
  /\ NoStore \notin Datastore /\ Datastore # {} /\ DOMAIN TokenName = Datastore
  /\ {MaxSecret, MaxFaults} \subseteq Nat /\ {MovesOn, OverlapKeygen} \subseteq BOOLEAN

VARIABLES
  wiz,        \* each wizard: its step, its draft, and what it has been given
  token,      \* the server: the API token of each name
  keyFile,    \* data/id_ed25519: the number of the key, 0 if none can be read
  authorized, \* the server: the keys in authorized_keys
  devices,    \* the devices saved
  made,       \* secrets made so far; they are numbered
  failures    \* requests failed so far

wizardVars == <<wiz, token, keyFile, authorized, devices, made, failures>>

NoToken == [secret |-> 0, roles |-> {}]
Names == {TokenName[s] : s \in Datastore}

\* Mutant: every token of Joulenap's has one name.
BareName(store) == CHOOSE n \in Names : TRUE

\* pbs_token_name: qualified by the datastore.
Name(store) == TokenName[store]

\* What provision_token grants, in its order: DatastoreAdmin on the datastore, and the rest.
Grants(store) == <<store, "system Audit", "remote RemoteAdmin", "remote RemoteDatastoreAdmin">>
Granted(store) == {Grants(store)[i] : i \in DOMAIN Grants(store)}

\* freshPbsDraft, of a user who has root's password (one who brings a token is not asked for any).
Opened == [pc |-> "connect", store |-> NoStore, secret |-> 0, grants |-> 0, agreedTo |-> {},
           replace |-> FALSE, managed |-> TRUE, auto |-> TRUE, key |-> 0]

\* Others may have made a token under one of the names.
WizardInit ==
  /\ wiz = [w \in Wizards |-> Opened]
  /\ token \in [Names -> {NoToken, [secret |-> 1, roles |-> {"theirs"}]}]
  /\ keyFile = 0 /\ authorized = {} /\ devices = {} /\ made = 1 /\ failures = 0

At(w, step) == wiz[w].pc = step

\* At the first step everything is asked again, but for the confirmation and the key, which stay;
\* what a wizard holds goes with the wizard.
Moved(r, step) ==
  CASE step = "connect" -> [Opened EXCEPT !.agreedTo = r.agreedTo, !.replace = r.replace, !.key = r.key]
    [] step = "done" -> [Opened EXCEPT !.pc = step, !.agreedTo = r.agreedTo]
    [] OTHER -> [r EXCEPT !.pc = step]
Goes(w, step) == wiz' = [wiz EXCEPT ![w] = Moved(@, step)]

Target(w) == Name(wiz[w].store)
Fault == failures < MaxFaults /\ failures' = failures + 1

-----------------------------------------------------------------------------
\* validateConnectStep refuses a server and datastore that is there already.
Registered(s) == \E d \in devices : d.store = s

\* With the token in hand: the steps of the power-off, or none of them for a server whose power
\* is not Joulenap's.
PastToken(managed) == IF managed THEN "key" ELSE "save"

\* connect()
Connect(w) ==
  /\ At(w, "connect")
  /\ \E s \in Datastore, managed \in BOOLEAN :
       /\ ~Registered(s)
       /\ wiz[w].agreedTo \subseteq {s} \/ MovesOn
       /\ wiz' = [wiz EXCEPT ![w].pc = "create", ![w].store = s, ![w].managed = managed]
  /\ UNCHANGED <<token, keyFile, authorized, devices, made, failures>>

\* create_token: the first POST.  A name that is taken answers 400, and so may anything else.
Create(w) ==
  /\ At(w, "create")
  /\ LET free == token[Target(w)].secret = 0 /\ made < MaxSecret
         Minted == [token EXCEPT ![Target(w)] = [secret |-> made + 1, roles |-> {}]]
     IN \/ /\ free /\ token' = Minted /\ made' = made + 1
           /\ wiz' = [wiz EXCEPT ![w].pc = "grant", ![w].secret = made + 1]
           /\ UNCHANGED failures
        \/ /\ token[Target(w)].secret # 0 /\ Goes(w, "look") /\ UNCHANGED <<token, made, failures>>
        \/ /\ Fault /\ \E step \in {"look", "connect"} : Goes(w, step)
           /\ \/ UNCHANGED <<token, made>>
              \/ free /\ token' = Minted /\ made' = made + 1
  /\ UNCHANGED <<keyFile, authorized, devices>>

\* Mutant: a taken name is replaced without being asked.
NeverAsks(w) == IF token[Target(w)].secret = 0 THEN "connect" ELSE "delete"

\* _token_exists and replace_existing; a 409 is put to the user.
LookThen(w) ==
  IF token[Target(w)].secret = 0 THEN "connect"
  ELSE IF wiz[w].replace THEN "delete" ELSE "ask"

Look(w) ==
  /\ At(w, "look")
  /\ \/ Goes(w, LookThen(w)) /\ UNCHANGED failures
     \/ Fault /\ Goes(w, "connect")
  /\ UNCHANGED <<token, keyFile, authorized, devices, made>>

\* The confirmation: replaceToken stays up for the rest of this wizard.
Answer(w) ==
  /\ At(w, "ask")
  /\ \/ wiz' = [wiz EXCEPT ![w].pc = "create", ![w].replace = TRUE,
                           ![w].agreedTo = @ \cup {wiz[w].store}]
     \/ Goes(w, "connect")
  /\ UNCHANGED <<token, keyFile, authorized, devices, made, failures>>

\* DELETE, which drops the token's ACL entries with it.
Delete(w) ==
  /\ At(w, "delete")
  /\ \/ token' = [token EXCEPT ![Target(w)] = NoToken] /\ Goes(w, "recreate") /\ UNCHANGED failures
     \/ /\ Fault /\ Goes(w, "connect")
        /\ token' \in {token, [token EXCEPT ![Target(w)] = NoToken]}
  /\ UNCHANGED <<keyFile, authorized, devices, made>>

\* The second POST: every error is the user's.
Recreate(w) ==
  /\ At(w, "recreate")
  /\ \/ /\ token[Target(w)].secret = 0 /\ made < MaxSecret
        /\ token' = [token EXCEPT ![Target(w)] = [secret |-> made + 1, roles |-> {}]]
        /\ made' = made + 1
        /\ \/ wiz' = [wiz EXCEPT ![w].pc = "grant", ![w].secret = made + 1] /\ UNCHANGED failures
           \/ Fault /\ Goes(w, "connect")
     \/ /\ token[Target(w)].secret # 0 /\ Goes(w, "connect") /\ UNCHANGED <<token, made, failures>>
     \/ Fault /\ Goes(w, "connect") /\ UNCHANGED <<token, made>>
  /\ UNCHANGED <<keyFile, authorized, devices>>

\* grant_acl, one role after the other, to the token id; the last makes the call a success.
Grant(w) ==
  /\ At(w, "grant")
  /\ LET n == wiz[w].grants + 1
         Given == [token EXCEPT ![Target(w)].roles = @ \cup {Grants(wiz[w].store)[n]}]
         there == token[Target(w)].secret # 0
     IN \/ /\ there /\ token' = Given
           /\ wiz' = [wiz EXCEPT ![w].grants = n,
                        ![w].pc = IF n = Len(Grants(wiz[w].store)) THEN PastToken(wiz[w].managed)
                                  ELSE "grant"]
           /\ UNCHANGED failures
        \/ ~there /\ Goes(w, "connect") /\ UNCHANGED <<token, failures>>
        \/ Fault /\ Goes(w, "connect") /\ \/ UNCHANGED token
                                          \/ there /\ token' = Given
  /\ UNCHANGED <<keyFile, authorized, devices, made>>

-----------------------------------------------------------------------------
\* ssh_keygen makes a key only when there is none that can be read.
NoKeyYet == keyFile = 0

\* The request is made once per wizard; its answer is kept.
ReadKey(w) ==
  /\ At(w, "key")
  /\ OverlapKeygen \/ \A u \in Wizards : ~At(u, "write") /\ ~At(u, "fill")
  /\ IF wiz[w].key # 0 THEN Goes(w, "install")
     ELSE IF NoKeyYet THEN made < MaxSecret /\ Goes(w, "write")
     ELSE wiz' = [wiz EXCEPT ![w].key = keyFile, ![w].pc = "install"]
  /\ UNCHANGED <<token, keyFile, authorized, devices, made, failures>>

\* generate_keypair: the file is emptied, then filled.
WriteKey(w) ==
  /\ At(w, "write") /\ keyFile' = 0 /\ Goes(w, "fill")
  /\ UNCHANGED <<token, authorized, devices, made, failures>>

FillKey(w) ==
  /\ At(w, "fill")
  /\ \/ /\ made' = made + 1 /\ keyFile' = made + 1
        /\ wiz' = [wiz EXCEPT ![w].key = made + 1, ![w].pc = "install"] /\ UNCHANGED failures
     \/ Fault /\ Goes(w, "key") /\ UNCHANGED <<keyFile, made>>
  /\ UNCHANGED <<token, authorized, devices>>

\* install_command: the line of this key is put in, every other key's is kept.
WithKey(key) == authorized \cup {key}

\* The choice between the installation and the command the user pastes; it counts when the key is
\* there and the step is left.
Toggle(w) ==
  /\ At(w, "install")
  /\ wiz' = [wiz EXCEPT ![w].auto = ~@]
  /\ UNCHANGED <<token, keyFile, authorized, devices, made, failures>>

\* Mutant: a refused password is passed over, and the key counts as installed.
InstallAnyway(w) ==
  /\ At(w, "install") /\ wiz[w].auto /\ Goes(w, "save")
  /\ authorized' \in {authorized, WithKey(wiz[w].key)}
  /\ UNCHANGED <<token, keyFile, devices, made, failures>>

\* installKey.  A server whose sshd refuses the password leaves the key to the user.
Install(w) ==
  /\ At(w, "install") /\ wiz[w].auto
  /\ \/ authorized' = WithKey(wiz[w].key) /\ Goes(w, "save") /\ UNCHANGED failures
     \/ /\ Fault /\ UNCHANGED wiz
        /\ authorized' \in {authorized, WithKey(wiz[w].key)}
     \/ wiz' = [wiz EXCEPT ![w].auto = FALSE] /\ UNCHANGED <<authorized, failures>>
  /\ UNCHANGED <<token, keyFile, devices, made>>

\* With autoInstall off the step is passed with nothing installed.
LeaveToUser(w) ==
  /\ At(w, "install") /\ ~wiz[w].auto /\ Goes(w, "save")
  /\ UNCHANGED <<token, keyFile, authorized, devices, made, failures>>

\* POST /api/devices/pbss, and the report.  An error leaves the wizard at the step it was at.
SaveDevice(w) ==
  /\ At(w, "save")
  /\ \/ /\ devices' = devices \cup {[store |-> wiz[w].store, secret |-> wiz[w].secret, by |-> w,
                                     installed |-> wiz[w].managed /\ wiz[w].auto]}
        /\ Goes(w, "done") /\ UNCHANGED failures
     \/ /\ Fault /\ Goes(w, IF wiz[w].managed THEN "install" ELSE "connect")
        /\ UNCHANGED devices
  /\ UNCHANGED <<token, keyFile, authorized, made>>

\* Back to the first step, which is gone through again; or the wizard is closed.
BackOrClose(w) ==
  /\ wiz[w].pc \in {"key", "install"}
  /\ \E step \in {"connect", "done"} : Goes(w, step)
  /\ UNCHANGED <<token, keyFile, authorized, devices, made, failures>>

WizardStep(w) ==
  \/ Connect(w) \/ Create(w) \/ Look(w) \/ Answer(w) \/ Delete(w) \/ Recreate(w) \/ Grant(w)
  \/ ReadKey(w) \/ WriteKey(w) \/ FillKey(w) \/ Toggle(w) \/ Install(w) \/ LeaveToUser(w)
  \/ SaveDevice(w) \/ BackOrClose(w)

WizardNext == \E w \in Wizards : WizardStep(w)

WizardSpec == WizardInit /\ [][WizardNext]_wizardVars

-----------------------------------------------------------------------------
\* The user of w has agreed to lose the token of this name.
Agreed(w, n) == \E s \in wiz[w].agreedTo : TokenName[s] = n

\* A token that is there, whoever made it, is taken down only by a wizard whose user has agreed
\* to lose the token of that very name ("that is not ours to decide silently").
ReplacedWithConsent ==
  [][\A n \in Names :
       token[n].secret # 0 /\ token'[n].secret # token[n].secret =>
         \E w \in Wizards : At(w, "delete") /\ wiz'[w].pc # "delete" /\ Agreed(w, n)]_wizardVars

\* A device that was saved can be used: the server takes the token that was made for it, with
\* every role granted, and obeys the key if the report said it was installed, however the
\* requests of this wizard and of others failed and interleaved.  What excuses a dead token is
\* another user's consent to lose the token of its name.
SavedDeviceWorks ==
  \A d \in devices :
    /\ d.installed => keyFile \in authorized
    /\ \/ /\ token[TokenName[d.store]].secret = d.secret
          /\ Granted(d.store) \subseteq token[TokenName[d.store]].roles
       \/ \E w \in Wizards \ {d.by} : Agreed(w, TokenName[d.store])
=============================================================================
