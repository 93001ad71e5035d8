-------------------------- MODULE Configuring_proofs --------------------------
(***************************************************************************)
(* The safety properties of how a configuration comes to be what it is: for *)
(* any wizards and datastores (Wizard), any schedules of the older version  *)
(* (Migrate), any browser tabs and devices (Settings).                      *)
(***************************************************************************)
EXTENDS Configuring, SequenceTheorems, TLAPS

-----------------------------------------------------------------------------
(***************************************************************************)
(* Adding a backup server.                                                 *)
(***************************************************************************)
Role == Datastore \union {"theirs", "system Audit", "remote RemoteAdmin",
                          "remote RemoteDatastoreAdmin"}
Early == {"create", "look", "ask", "delete", "recreate"}
KeySteps == {"key", "write", "fill", "install", "save"}
Step == {"connect", "grant", "done"} \union Early \union KeySteps

Draft ==
  [pc : Step, store : Datastore \union {NoStore}, secret : Nat, grants : 0 .. 4,
   agreedTo : SUBSET Datastore, replace : BOOLEAN, managed : BOOLEAN, auto : BOOLEAN, key : Nat]
Tokens == [secret : Nat, roles : SUBSET Role]

WizardTypeOK ==
  /\ wiz \in [Wizards -> Draft] /\ token \in [Names -> Tokens]
  /\ devices \subseteq [store : Datastore, secret : Nat, by : Wizards, installed : BOOLEAN]
  /\ keyFile \in Nat /\ authorized \subseteq Nat /\ made \in Nat \ {0} /\ failures \in Nat

\* A wizard on its way has a datastore, and roles granted by the step it is at; what its user
\* agreed to lose is a token of the datastore the wizard is about.
DraftOK(r) ==
  /\ r.pc \notin {"connect", "done"} => r.store \in Datastore /\ r.agreedTo \subseteq {r.store}
  /\ r.replace => r.agreedTo # {}
  /\ r.pc = "delete" => r.replace
  /\ r.pc \in Early \union {"connect"} => r.grants = 0
  /\ r.pc = "grant" => r.grants <= 3
  /\ r.pc \in KeySteps => r.grants = 4
  /\ r.pc = "install" => r.key # 0
  /\ r.pc = "save" /\ r.managed => r.key # 0

DraftsOK == \A w \in Wizards : DraftOK(wiz[w])

\* One key is made, by one wizard at a time, and every wizard that has one has that one; it is
\* on the server before a wizard goes on to report so.
Keys ==
  /\ \A u, w \in Wizards : wiz[u].pc \in {"write", "fill"} /\ wiz[w].pc \in {"write", "fill"} => u = w
  /\ \A w \in Wizards :
       /\ wiz[w].pc \in {"write", "fill"} => keyFile = 0
       /\ wiz[w].key # 0 => wiz[w].key = keyFile /\ keyFile > 0
       /\ wiz[w].pc = "save" /\ wiz[w].managed /\ wiz[w].auto => keyFile \in authorized
  /\ \A d \in devices : d.installed => keyFile > 0 /\ keyFile \in authorized
KeyInv == ~OverlapKeygen => Keys

\* The token a wizard was given is there with the roles granted so far, or another wizard's
\* user agreed to lose it.
HasToken(s, secret, n) ==
  /\ token[TokenName[s]].secret = secret /\ secret # 0
  /\ \A i \in 1 .. n : Grants(s)[i] \in token[TokenName[s]].roles
Excused(w, s) == \E u \in Wizards \ {w} : Agreed(u, TokenName[s])
Given(w, s, secret, n) == HasToken(s, secret, n) \/ Excused(w, s)

GivenInv ==
  \A w \in Wizards : wiz[w].pc \in {"grant"} \union KeySteps =>
                       Given(w, wiz[w].store, wiz[w].secret, wiz[w].grants)
SavedInv == \A d \in devices : wiz[d.by].pc = "done" /\ Given(d.by, d.store, d.secret, 4)

WizardInv == WizardTypeOK /\ DraftsOK /\ KeyInv /\ GivenInv /\ SavedInv

LEMMA GrantsAre ==
  ASSUME NEW s \in Datastore
  PROVE  /\ Len(Grants(s)) = 4 /\ \A i \in 1 .. 4 : Grants(s)[i] \in Role
         /\ Granted(s) = {Grants(s)[i] : i \in 1 .. 4}
<1>1. Len(Grants(s)) = 4 /\ DOMAIN Grants(s) = 1 .. 4
  BY DEF Grants
<1>2. /\ Grants(s)[1] = s /\ Grants(s)[2] = "system Audit"
      /\ Grants(s)[3] = "remote RemoteAdmin" /\ Grants(s)[4] = "remote RemoteDatastoreAdmin"
  BY DEF Grants
<1>3. \A i \in 1 .. 4 : Grants(s)[i] \in Role
  <2>1. \A i \in 1 .. 4 : i = 1 \/ i = 2 \/ i = 3 \/ i = 4
    OBVIOUS
  <2> QED BY <1>2, <2>1 DEF Role
<1> QED BY <1>1, <1>3 DEF Granted

\* A datastore's token goes by one of the names.
LEMMA TargetIs ==
  ASSUME NEW w \in Wizards, wiz[w].store \in Datastore
  PROVE  Target(w) \in Names /\ Target(w) = TokenName[wiz[w].store]
BY DEF Target, Name, Names

\* A token that is there stays, and keeps its roles, but for the one a wizard may take down.
Spared(w, n) ==
  \/ token[n].secret = 0
  \/ token'[n].secret = token[n].secret /\ token[n].roles \subseteq token'[n].roles
  \/ Agreed(w, n) /\ wiz[w].pc = "delete"

LEMMA StillGiven ==
  ASSUME NEW w \in Wizards, NEW r, wiz \in [Wizards -> Draft], wiz' = [wiz EXCEPT ![w] = r],
         wiz[w].agreedTo \subseteq r.agreedTo,
         NEW v \in Wizards, v # w \/ wiz[w].pc # "delete", NEW s, Spared(w, TokenName[s]), NEW secret, NEW n,
         Given(v, s, secret, n)
  PROVE  Given(v, s, secret, n)'
<1>1. \A u \in Wizards : Agreed(u, TokenName[s]) => Agreed(u, TokenName[s])'
  <2>1. \A u \in Wizards : wiz[u].agreedTo \subseteq wiz'[u].agreedTo
    OBVIOUS
  <2> QED BY <2>1 DEF Agreed
<1>2. CASE Excused(v, s)
  BY <1>1, <1>2 DEF Excused, Given
<1>3. CASE HasToken(s, secret, n)
  <2>1. token[TokenName[s]].secret # 0
    BY <1>3 DEF HasToken
  <2>2. CASE /\ token'[TokenName[s]].secret = token[TokenName[s]].secret
             /\ token[TokenName[s]].roles \subseteq token'[TokenName[s]].roles
    BY <1>3, <2>2 DEF HasToken, Given
  <2>3. CASE Agreed(w, TokenName[s]) /\ wiz[w].pc = "delete"
    BY <1>1, <2>3 DEF Excused, Given
  <2> QED BY <2>1, <2>2, <2>3 DEF Spared
<1> QED BY <1>2, <1>3 DEF Given

\* One wizard goes on, at the tokens if at all.
LEMMA MoveStep ==
  ASSUME WizardInv, NEW w \in Wizards, NEW r \in Draft, DraftOK(r),
         wiz' = [wiz EXCEPT ![w] = r], UNCHANGED <<keyFile, authorized, devices>>,
         made' \in Nat \ {0}, failures' \in Nat, token' \in [Names -> Tokens],
         \A name \in Names : Spared(w, name), wiz[w].pc # "done",
         r.pc \notin {"write", "fill"}, r.key \in {0, wiz[w].key}, r.pc = "save" => ~r.managed,
         ~OverlapKeygen /\ r.key # 0 => keyFile > 0,
         wiz[w].agreedTo \subseteq r.agreedTo,
         r.pc \in {"grant"} \union KeySteps =>
           \/ HasToken(r.store, r.secret, r.grants)' \/ Excused(w, r.store)
           \/ /\ wiz[w].pc \in {"grant"} \union KeySteps
              /\ r.store = wiz[w].store /\ r.secret = wiz[w].secret /\ r.grants = wiz[w].grants
  PROVE  WizardInv'
<1> USE DEF WizardInv
<1>1. wiz \in [Wizards -> Draft] /\ wiz'[w] = r /\ \A u \in Wizards \ {w} : wiz'[u] = wiz[u]
  BY DEF WizardTypeOK
<1>2. WizardTypeOK' /\ DraftsOK'
  BY <1>1 DEF WizardTypeOK, DraftsOK
<1>3. KeyInv'
  BY <1>1 DEF KeyInv, Keys, WizardTypeOK
<1>4. GivenInv'
  <2>1. SUFFICES ASSUME NEW v \in Wizards, wiz'[v].pc \in {"grant"} \union KeySteps
                 PROVE  Given(v, wiz[v].store, wiz[v].secret, wiz[v].grants)'
    BY DEF GivenInv
  <2>2. PICK s, x, n : s = wiz'[v].store /\ x = wiz'[v].secret /\ n = wiz'[v].grants
    OBVIOUS
  <2>3. SUFFICES Given(v, s, x, n)'
    BY <2>2
  <2>4. s \in Datastore /\ Spared(w, TokenName[s])
    BY <1>2, <2>1, <2>2 DEF DraftsOK, DraftOK, KeySteps, Names
  <2>5. CASE v # w
    <3>1. Given(v, s, x, n)
      BY <1>1, <2>1, <2>2, <2>5 DEF GivenInv
    <3> QED BY <1>1, <2>4, <2>5, <3>1, StillGiven
  <2>6. CASE v = w
    <3>1. CASE HasToken(r.store, r.secret, r.grants)' \/ Excused(w, r.store)
      <4>1. Excused(w, s) => Excused(w, s)'
        BY <1>1 DEF Excused, Agreed
      <4>2. HasToken(s, x, n)' \/ Excused(w, s)
        BY <1>1, <2>2, <2>6, <3>1
      <4> QED BY <2>6, <4>1, <4>2 DEF Given
    <3>2. CASE /\ wiz[w].pc \in {"grant"} \union KeySteps
               /\ r.store = wiz[w].store /\ r.secret = wiz[w].secret /\ r.grants = wiz[w].grants
      <4>1. Given(v, s, x, n)
        BY <1>1, <2>2, <2>6, <3>2 DEF GivenInv
      <4>2. wiz[w].pc # "delete"
        BY <3>2 DEF KeySteps
      <4> QED BY <1>1, <2>4, <4>1, <4>2, StillGiven
    <3> QED BY <1>1, <2>1, <2>6, <3>1, <3>2
  <2> QED BY <2>5, <2>6
<1>5. SavedInv'
  <2>1. SUFFICES ASSUME NEW d \in devices
                 PROVE  (wiz[d.by].pc = "done" /\ Given(d.by, d.store, d.secret, 4))'
    BY DEF SavedInv
  <2>2. d.by \in Wizards /\ d.store \in Datastore /\ wiz[d.by].pc = "done" /\ d.by # w
        /\ Given(d.by, d.store, d.secret, 4) /\ Spared(w, TokenName[d.store])
    BY DEF SavedInv, WizardTypeOK, Names
  <2>3. wiz'[d.by].pc = "done"
    BY <1>1, <2>2
  <2>4. Given(d.by, d.store, d.secret, 4)'
    BY <1>1, <2>2, StillGiven
  <2> QED BY <2>3, <2>4
<1> QED BY <1>2, <1>3, <1>4, <1>5

LEMMA Redrafted ==
  ASSUME NEW q \in Draft, NEW p \in Step, NEW s \in Datastore \union {NoStore}, NEW x \in Nat,
         NEW n \in 0 .. 4
  PROVE  /\ \A m \in BOOLEAN : [q EXCEPT !.pc = p, !.store = s, !.managed = m] \in Draft
         /\ [q EXCEPT !.pc = p, !.secret = x] \in Draft
         /\ [q EXCEPT !.pc = p, !.grants = n] \in Draft
         /\ [q EXCEPT !.pc = p, !.key = x] \in Draft
BY DEF Draft, Step

LEMMA DraftIs ==
  ASSUME WizardInv, NEW w \in Wizards
  PROVE  /\ wiz[w] \in Draft /\ DraftOK(wiz[w]) /\ wiz \in [Wizards -> Draft]
         /\ ~OverlapKeygen /\ wiz[w].key # 0 => keyFile > 0
BY DEF WizardInv, WizardTypeOK, DraftsOK, KeyInv, Keys

\* What a wizard takes to another step.
LEMMA MovedIs ==
  ASSUME NEW q \in Draft, NEW step \in Step, NEW r, r = Moved(q, step)
  PROVE  /\ r \in Draft /\ r.pc = step /\ r.agreedTo = q.agreedTo /\ r.key \in {0, q.key}
         /\ step \in {"connect", "done"} => r.grants = 0
         /\ step # "done" => r.replace = q.replace /\ r.key = q.key
         /\ step = "done" => ~r.replace
         /\ step \notin {"connect", "done"} =>
              /\ r.store = q.store /\ r.secret = q.secret /\ r.grants = q.grants
              /\ r.managed = q.managed /\ r.auto = q.auto
              /\ r = [q EXCEPT !.pc = step]
<1>1. PICK o : o = Opened
  OBVIOUS
<1>2. o \in Draft /\ o.pc = "connect" /\ o.grants = 0 /\ ~o.replace /\ o.key = 0
  BY <1>1 DEF Opened, Draft, Step
<1>3. CASE step = "connect"
  <2>1. r = [o EXCEPT !.agreedTo = q.agreedTo, !.replace = q.replace, !.key = q.key]
    BY <1>1, <1>3 DEF Moved
  <2> QED BY <1>2, <1>3, <2>1 DEF Draft
<1>4. CASE step = "done"
  <2>1. r = [o EXCEPT !.pc = "done", !.agreedTo = q.agreedTo]
    BY <1>1, <1>4 DEF Moved
  <2> QED BY <1>2, <1>4, <2>1 DEF Draft
<1>5. CASE step \notin {"connect", "done"}
  <2>1. r = [q EXCEPT !.pc = step]
    BY <1>5 DEF Moved
  <2> QED BY <1>5, <2>1 DEF Draft
<1> QED BY <1>3, <1>4, <1>5

\* A wizard goes to another step.
LEMMA GoesStep ==
  ASSUME WizardInv, NEW w \in Wizards,
         NEW step \in Step,
         Goes(w, step), UNCHANGED <<keyFile, authorized, devices>>,
         made' \in Nat \ {0}, failures' \in Nat, token' \in [Names -> Tokens],
         \A name \in Names : Spared(w, name),
         wiz[w].pc # "done", step \notin {"write", "fill", "save", "grant"},
         step \in Early => wiz[w].pc \in Early, step = "delete" => wiz[w].replace,
         step \in KeySteps => wiz[w].pc \in KeySteps, step = "install" => wiz[w].key # 0
  PROVE  WizardInv'
<1>1. wiz[w] \in Draft /\ DraftOK(wiz[w]) /\ wiz \in [Wizards -> Draft]
      /\ (~OverlapKeygen /\ wiz[w].key # 0 => keyFile > 0)
  BY DraftIs
<1>2. PICK r : r = Moved(wiz[w], step)
  OBVIOUS
<1>3. /\ r \in Draft /\ r.pc = step /\ r.agreedTo = wiz[w].agreedTo /\ r.key \in {0, wiz[w].key}
      /\ step \in {"connect", "done"} => r.grants = 0
      /\ step # "done" => r.replace = wiz[w].replace /\ r.key = wiz[w].key
      /\ step = "done" => ~r.replace
      /\ step \notin {"connect", "done"} =>
           /\ r.store = wiz[w].store /\ r.secret = wiz[w].secret /\ r.grants = wiz[w].grants
  BY <1>1, <1>2, MovedIs
<1>4. wiz' = [wiz EXCEPT ![w] = r]
  BY <1>1, <1>2 DEF Goes
<1>5. DraftOK(r)
  BY <1>1, <1>3 DEF DraftOK, Early, KeySteps, Step
<1> QED BY <1>1, <1>3, <1>4, <1>5, MoveStep DEF Early, KeySteps

LEMMA TokensAre ==
  ASSUME WizardInv, NEW w \in Wizards
  PROVE  /\ token \in [Names -> Tokens] /\ made \in Nat \ {0} /\ failures \in Nat
         /\ made + 1 \in Nat \ {0} /\ failures + 1 \in Nat /\ keyFile \in Nat
         /\ token' = token => \A name \in Names : Spared(w, name)
BY DEF WizardInv, WizardTypeOK, Spared

LEMMA ConnectStep ==
  ASSUME ~MovesOn, WizardInv, NEW w \in Wizards, Connect(w)
  PROVE  WizardInv'
<1>1. PICK s \in Datastore, managed \in BOOLEAN :
        /\ wiz[w].agreedTo \subseteq {s}
        /\ wiz' = [wiz EXCEPT ![w].pc = "create", ![w].store = s, ![w].managed = managed]
  BY DEF Connect
<1>2. wiz[w] \in Draft /\ DraftOK(wiz[w]) /\ wiz \in [Wizards -> Draft]
      /\ (~OverlapKeygen /\ wiz[w].key # 0 => keyFile > 0) /\ wiz[w].pc = "connect"
  BY DraftIs DEF Connect, At
<1>3. PICK r : r = [wiz[w] EXCEPT !.pc = "create", !.store = s, !.managed = managed]
  OBVIOUS
<1>4. /\ r.pc = "create" /\ r.store = s /\ r.grants = wiz[w].grants
      /\ r.agreedTo = wiz[w].agreedTo /\ r.replace = wiz[w].replace /\ r.key = wiz[w].key
  BY <1>2, <1>3 DEF Draft
<1>5. r \in Draft
  <2>1. "create" \in Step /\ 0 \in Nat /\ 0 \in 0 .. 4
    BY DEF Step, Early
  <2> QED BY <1>2, <1>3, <2>1, Redrafted
<1>6. wiz' = [wiz EXCEPT ![w] = r]
  BY <1>1, <1>2, <1>3
<1>7. DraftOK(r)
  BY <1>1, <1>2, <1>4 DEF DraftOK, Early, KeySteps
<1>8. UNCHANGED <<token, keyFile, authorized, devices, made, failures>>
  BY DEF Connect
<1>9. token' \in [Names -> Tokens] /\ made' \in Nat \ {0} /\ failures' \in Nat
      /\ \A name \in Names : Spared(w, name)
  BY <1>8, TokensAre
<1>10. r.pc \notin {"grant"} \union KeySteps /\ r.pc \notin {"write", "fill", "save"}
  BY <1>4 DEF KeySteps
<1> QED BY <1>2, <1>4, <1>5, <1>6, <1>7, <1>8, <1>9, <1>10, MoveStep

\* A token is made where there was none.
LEMMA MintedIs ==
  ASSUME WizardInv, NEW w \in Wizards, wiz[w].store \in Datastore,
         token[Target(w)].secret = 0,
         token' = [token EXCEPT ![Target(w)] = [secret |-> made + 1, roles |-> {}]]
  PROVE  /\ token' \in [Names -> Tokens] /\ \A name \in Names : Spared(w, name)
         /\ token'[Target(w)].secret = made + 1
<1> DEFINE t == [secret |-> made + 1, roles |-> {}]
<1>1. t \in Tokens /\ t.secret = made + 1
  BY TokensAre DEF Tokens
<1> HIDE DEF t
<1>2. token' = [token EXCEPT ![Target(w)] = t] /\ token \in [Names -> Tokens]
      /\ Target(w) \in Names
  BY TargetIs, TokensAre DEF t
<1> QED BY <1>1, <1>2 DEF Spared

\* The wizard that made a token goes on to grant it its roles.
LEMMA ToGrantStep ==
  ASSUME WizardInv, NEW w \in Wizards, wiz[w].pc \in {"create", "recreate"},
         token[Target(w)].secret = 0,
         token' = [token EXCEPT ![Target(w)] = [secret |-> made + 1, roles |-> {}]],
         wiz' = [wiz EXCEPT ![w].pc = "grant", ![w].secret = made + 1], made' = made + 1,
         UNCHANGED <<keyFile, authorized, devices, failures>>
  PROVE  WizardInv'
<1>1. wiz[w] \in Draft /\ DraftOK(wiz[w]) /\ wiz \in [Wizards -> Draft]
      /\ (~OverlapKeygen /\ wiz[w].key # 0 => keyFile > 0) /\ wiz[w].store \in Datastore
      /\ wiz[w].grants = 0
  BY DraftIs DEF DraftOK, Early
<1>2. /\ token' \in [Names -> Tokens] /\ \A name \in Names : Spared(w, name)
      /\ token'[Target(w)].secret = made + 1
      /\ made + 1 \in Nat \ {0} /\ failures \in Nat
  BY <1>1, MintedIs, TokensAre
<1>3. PICK r : r = [wiz[w] EXCEPT !.pc = "grant", !.secret = made + 1]
  OBVIOUS
<1>4. /\ r.pc = "grant" /\ r.store = wiz[w].store /\ r.secret = made + 1
      /\ r.grants = 0 /\ r.agreedTo = wiz[w].agreedTo /\ r.replace = wiz[w].replace
      /\ r.key = wiz[w].key
  BY <1>1, <1>2, <1>3 DEF Draft
<1>5. r \in Draft
  <2>1. "grant" \in Step /\ made + 1 \in Nat /\ 0 \in 0 .. 4
    BY <1>2 DEF Step
  <2> QED BY <1>1, <1>3, <2>1, Redrafted
<1>6. wiz' = [wiz EXCEPT ![w] = r]
  BY <1>1, <1>3
<1>7. DraftOK(r)
  BY <1>1, <1>4 DEF DraftOK, Early, KeySteps
<1>8. HasToken(r.store, r.secret, r.grants)'
  <2>1. token'[TokenName[r.store]].secret = r.secret /\ r.secret # 0
    BY <1>1, <1>2, <1>4, TargetIs
  <2>2. 1 .. r.grants = {}
    BY <1>4
  <2> QED BY <2>1, <2>2 DEF HasToken
<1>9. r.pc \notin {"write", "fill", "save"} /\ wiz[w].pc # "done" /\ made' \in Nat \ {0}
      /\ failures' \in Nat
  BY <1>2, <1>4
<1> QED BY <1>1, <1>2, <1>4, <1>5, <1>6, <1>7, <1>8, <1>9, MoveStep

LEMMA CreateStep ==
  ASSUME WizardInv, NEW w \in Wizards, Create(w)
  PROVE  WizardInv'
<1> DEFINE Minted == [token EXCEPT ![Target(w)] = [secret |-> made + 1, roles |-> {}]]
           free == token[Target(w)].secret = 0
<1>1. /\ DraftOK(wiz[w]) /\ wiz[w].pc = "create" /\ wiz[w].store \in Datastore
  BY DraftIs DEF Create, At, DraftOK
<1>2. UNCHANGED <<keyFile, authorized, devices>>
  BY DEF Create
<1>3. \/ /\ free /\ token' = Minted /\ made' = made + 1
         /\ wiz' = [wiz EXCEPT ![w].pc = "grant", ![w].secret = made + 1] /\ UNCHANGED failures
      \/ Goes(w, "look") /\ UNCHANGED <<token, made, failures>>
      \/ /\ failures' = failures + 1
         /\ Goes(w, "look") \/ Goes(w, "connect")
         /\ \/ UNCHANGED <<token, made>>
            \/ free /\ token' = Minted /\ made' = made + 1
  BY DEF Create, Fault
<1>4. CASE /\ free /\ token' = Minted /\ made' = made + 1
           /\ wiz' = [wiz EXCEPT ![w].pc = "grant", ![w].secret = made + 1] /\ UNCHANGED failures
  BY <1>1, <1>2, <1>4, ToGrantStep
<1>5. CASE /\ Goes(w, "look") \/ Goes(w, "connect")
           /\ failures' \in Nat
           /\ \/ UNCHANGED <<token, made>>
              \/ free /\ token' = Minted /\ made' = made + 1
  <2>1. token' \in [Names -> Tokens] /\ \A name \in Names : Spared(w, name)
    BY <1>1, <1>5, MintedIs, TokensAre
  <2>2. made' \in Nat \ {0}
    BY <1>5, TokensAre
  <2> HIDE DEF free, Minted
  <2> QED BY <1>1, <1>2, <1>5, <2>1, <2>2, GoesStep DEF Early, KeySteps, Step
<1>6. failures \in Nat /\ failures + 1 \in Nat
  BY TokensAre
<1> HIDE DEF free, Minted
<1> QED BY <1>3, <1>4, <1>5, <1>6

LEMMA LookStep ==
  ASSUME WizardInv, NEW w \in Wizards, Look(w)
  PROVE  WizardInv'
<1>1. wiz[w].pc = "look" /\ UNCHANGED <<token, keyFile, authorized, devices, made>>
  BY DEF Look, At
<1>2. failures' \in Nat /\ token' \in [Names -> Tokens] /\ made' \in Nat \ {0}
      /\ \A name \in Names : Spared(w, name)
  BY <1>1, TokensAre DEF Look, Fault
<1>3. PICK step \in {"connect", "delete", "ask"} :
        Goes(w, step) /\ (step = "delete" => wiz[w].replace)
  <2>1. LookThen(w) \in {"connect", "delete", "ask"} /\ (LookThen(w) = "delete" => wiz[w].replace)
    BY DEF LookThen
  <2> QED BY <2>1 DEF Look
<1> QED BY <1>1, <1>2, <1>3, GoesStep DEF Early, KeySteps, Step

LEMMA AnswerStep ==
  ASSUME WizardInv, NEW w \in Wizards, Answer(w)
  PROVE  WizardInv'
<1>1. wiz[w] \in Draft /\ DraftOK(wiz[w]) /\ wiz \in [Wizards -> Draft] /\ wiz[w].pc = "ask"
      /\ (~OverlapKeygen /\ wiz[w].key # 0 => keyFile > 0) /\ wiz[w].store \in Datastore
  BY DraftIs DEF Answer, At, DraftOK
<1>2. UNCHANGED <<token, keyFile, authorized, devices, made, failures>>
  BY DEF Answer
<1>3. token' \in [Names -> Tokens] /\ made' \in Nat \ {0} /\ failures' \in Nat
      /\ \A name \in Names : Spared(w, name)
  BY <1>2, TokensAre
<1>4. CASE Goes(w, "connect")
  BY <1>1, <1>2, <1>3, <1>4, GoesStep DEF Early, KeySteps, Step
<1>5. CASE wiz' = [wiz EXCEPT ![w].pc = "create", ![w].replace = TRUE,
                              ![w].agreedTo = @ \cup {wiz[w].store}]
  <2>1. PICK r : r = [wiz[w] EXCEPT !.pc = "create", !.replace = TRUE,
                                    !.agreedTo = wiz[w].agreedTo \cup {wiz[w].store}]
    OBVIOUS
  <2>2. /\ r.pc = "create" /\ r.store = wiz[w].store /\ r.grants = 0 /\ r.replace
        /\ r.agreedTo = wiz[w].agreedTo \cup {wiz[w].store} /\ r.key = wiz[w].key
    BY <1>1, <2>1 DEF Draft, DraftOK, Early
  <2>3. r \in Draft
    <3>1. "create" \in Step /\ wiz[w].agreedTo \cup {wiz[w].store} \in SUBSET Datastore
      BY <1>1 DEF Draft, Step, Early
    <3> QED BY <1>1, <2>1, <3>1 DEF Draft
  <2>4. wiz' = [wiz EXCEPT ![w] = r]
    BY <1>1, <1>5, <2>1
  <2>5. DraftOK(r)
    BY <1>1, <2>2 DEF DraftOK, Early, KeySteps
  <2>6. r.pc \notin {"grant"} \union KeySteps /\ r.pc \notin {"write", "fill", "save"}
        /\ wiz[w].agreedTo \subseteq r.agreedTo
    BY <2>2 DEF KeySteps
  <2> QED BY <1>1, <1>2, <1>3, <2>2, <2>3, <2>4, <2>5, <2>6, MoveStep
<1> QED BY <1>4, <1>5 DEF Answer

LEMMA DeleteStep ==
  ASSUME WizardInv, NEW w \in Wizards, Delete(w)
  PROVE  WizardInv'
<1>1. DraftOK(wiz[w]) /\ wiz[w].pc = "delete" /\ wiz[w].store \in Datastore
      /\ wiz[w].store \in wiz[w].agreedTo
  BY DraftIs DEF Delete, At, DraftOK
<1>2. PICK step \in {"connect", "recreate"} : Goes(w, step)
  BY DEF Delete
<1>3. /\ UNCHANGED <<keyFile, authorized, devices, made>>
      /\ token' = token \/ token' = [token EXCEPT ![Target(w)] = NoToken]
      /\ failures' = failures \/ failures' = failures + 1
  BY DEF Delete, Fault
<1>4. failures' \in Nat /\ made' \in Nat \ {0} /\ token \in [Names -> Tokens]
  BY <1>3, TokensAre
<1>5. NoToken \in Tokens
  BY DEF NoToken, Tokens
<1>6. token' \in [Names -> Tokens] /\ \A name \in Names : Spared(w, name)
  <2>1. CASE token' = token
    BY <2>1, TokensAre
  <2>2. CASE token' = [token EXCEPT ![Target(w)] = NoToken]
    <3>1. Agreed(w, Target(w)) /\ Target(w) \in Names
      BY <1>1, TargetIs DEF Agreed
    <3> QED BY <1>1, <1>4, <1>5, <2>2, <3>1 DEF Spared
  <2> QED BY <1>3, <2>1, <2>2
<1> QED BY <1>1, <1>2, <1>3, <1>4, <1>6, GoesStep DEF Early, KeySteps, Step

LEMMA RecreateStep ==
  ASSUME WizardInv, NEW w \in Wizards, Recreate(w)
  PROVE  WizardInv'
<1> DEFINE Minted == [token EXCEPT ![Target(w)] = [secret |-> made + 1, roles |-> {}]]
<1>1. DraftOK(wiz[w]) /\ wiz[w].pc = "recreate" /\ wiz[w].store \in Datastore
  BY DraftIs DEF Recreate, At, DraftOK
<1>2. UNCHANGED <<keyFile, authorized, devices>>
  BY DEF Recreate
<1>3. \/ /\ token[Target(w)].secret = 0 /\ token' = Minted /\ made' = made + 1
         /\ \/ /\ wiz' = [wiz EXCEPT ![w].pc = "grant", ![w].secret = made + 1]
               /\ UNCHANGED failures
            \/ failures' = failures + 1 /\ Goes(w, "connect")
      \/ /\ Goes(w, "connect") /\ UNCHANGED <<token, made>>
         /\ failures' = failures \/ failures' = failures + 1
  BY DEF Recreate, Fault
<1>4. failures \in Nat /\ failures + 1 \in Nat /\ made \in Nat \ {0} /\ made + 1 \in Nat \ {0}
  BY TokensAre
<1>5. CASE /\ token[Target(w)].secret = 0 /\ token' = Minted /\ made' = made + 1
           /\ wiz' = [wiz EXCEPT ![w].pc = "grant", ![w].secret = made + 1]
           /\ UNCHANGED failures
  BY <1>1, <1>2, <1>5, ToGrantStep
<1>6. CASE /\ token[Target(w)].secret = 0 /\ token' = Minted /\ made' = made + 1
           /\ failures' = failures + 1 /\ Goes(w, "connect")
  <2>1. token' \in [Names -> Tokens] /\ \A name \in Names : Spared(w, name)
    BY <1>1, <1>6, MintedIs
  <2> HIDE DEF Minted
  <2> QED BY <1>1, <1>2, <1>4, <1>6, <2>1, GoesStep DEF Early, KeySteps, Step
<1>7. CASE /\ Goes(w, "connect") /\ UNCHANGED <<token, made>>
           /\ failures' = failures \/ failures' = failures + 1
  <2>1. token' \in [Names -> Tokens] /\ \A name \in Names : Spared(w, name)
    BY <1>7, TokensAre
  <2> QED BY <1>1, <1>2, <1>4, <1>7, <2>1, GoesStep DEF Early, KeySteps, Step
<1> HIDE DEF Minted
<1> QED BY <1>3, <1>5, <1>6, <1>7

\* A role more, on a token that is there.
LEMMA GivenMore ==
  ASSUME WizardInv, NEW w \in Wizards, wiz[w].store \in Datastore,
         NEW x \in Role, token' = [token EXCEPT ![Target(w)].roles = @ \cup {x}]
  PROVE  /\ token' \in [Names -> Tokens] /\ \A name \in Names : Spared(w, name)
         /\ token'[Target(w)].secret = token[Target(w)].secret
         /\ token'[Target(w)].roles = token[Target(w)].roles \cup {x}
<1>1. PICK t : t = [token[Target(w)] EXCEPT !.roles = token[Target(w)].roles \cup {x}]
  OBVIOUS
<1>2. token \in [Names -> Tokens] /\ token[Target(w)] \in Tokens /\ Target(w) \in Names
  BY TokensAre, TargetIs
<1>3. t \in Tokens /\ t.secret = token[Target(w)].secret
      /\ t.roles = token[Target(w)].roles \cup {x}
  BY <1>1, <1>2 DEF Tokens
<1>4. token' = [token EXCEPT ![Target(w)] = t]
  BY <1>1, <1>2
<1> QED BY <1>2, <1>3, <1>4 DEF Spared

LEMMA GrantStep ==
  ASSUME WizardInv, NEW w \in Wizards, Grant(w)
  PROVE  WizardInv'
<1> DEFINE n == wiz[w].grants + 1
           Give == token' = [token EXCEPT ![Target(w)].roles = @ \cup {Grants(wiz[w].store)[n]}]
           step == IF n = 4 THEN PastToken(wiz[w].managed) ELSE "grant"
<1>1. wiz[w] \in Draft /\ DraftOK(wiz[w]) /\ wiz \in [Wizards -> Draft] /\ wiz[w].pc = "grant"
      /\ (~OverlapKeygen /\ wiz[w].key # 0 => keyFile > 0)
      /\ wiz[w].store \in Datastore /\ wiz[w].grants \in 0 .. 3
  BY DraftIs DEF Grant, At, DraftOK, Draft
<1>2. UNCHANGED <<keyFile, authorized, devices, made>>
  BY DEF Grant
<1>3. n \in 1 .. 4 /\ Len(Grants(wiz[w].store)) = 4 /\ Grants(wiz[w].store)[n] \in Role
  BY <1>1, GrantsAre
<1>4. \/ /\ Give /\ wiz' = [wiz EXCEPT ![w].grants = n, ![w].pc = step] /\ UNCHANGED failures
      \/ /\ Goes(w, "connect")
         /\ token' = token \/ Give
         /\ failures' = failures \/ failures' = failures + 1
  BY <1>3 DEF Grant, Fault
<1>5. failures' \in Nat /\ made' \in Nat \ {0}
  BY <1>2, <1>4, TokensAre
<1>6. Give => /\ token' \in [Names -> Tokens] /\ \A name \in Names : Spared(w, name)
              /\ token'[Target(w)].secret = token[Target(w)].secret
              /\ token'[Target(w)].roles
                   = token[Target(w)].roles \cup {Grants(wiz[w].store)[n]}
  BY <1>1, <1>3, GivenMore
<1>7. CASE Give /\ wiz' = [wiz EXCEPT ![w].grants = n, ![w].pc = step] /\ UNCHANGED failures
  <2>1. PICK r : r = [wiz[w] EXCEPT !.pc = step, !.grants = n]
    OBVIOUS
  <2>2. /\ r.pc = step /\ r.store = wiz[w].store /\ r.secret = wiz[w].secret /\ r.grants = n
        /\ r.agreedTo = wiz[w].agreedTo /\ r.replace = wiz[w].replace /\ r.key = wiz[w].key
        /\ r.managed = wiz[w].managed
    BY <1>1, <2>1 DEF Draft
  <2>3. step \in Step /\ n \in 0 .. 4 /\ 0 \in Nat /\ NoStore \in Datastore \union {NoStore}
    BY <1>3 DEF Step, KeySteps, PastToken
  <2>4. r \in Draft
    <3> HIDE DEF step, n
    <3> QED BY <1>1, <2>1, <2>3, Redrafted
  <2>5. wiz' = [wiz EXCEPT ![w] = r]
    BY <1>1, <1>7, <2>1
  <2>6. /\ step \in {"grant", "key", "save"} /\ (step = "save" => ~wiz[w].managed)
        /\ step = "grant" => n <= 3
        /\ step # "grant" => n = 4
    BY <1>3 DEF PastToken
  <2>7. DraftOK(r)
    <3> HIDE DEF step, n
    <3> QED BY <1>1, <1>3, <2>2, <2>6 DEF DraftOK, Early, KeySteps
  <2>8. HasToken(r.store, r.secret, r.grants)' \/ Excused(w, r.store)
    <3>1. CASE Excused(w, wiz[w].store)
      BY <2>2, <3>1
    <3>2. CASE HasToken(wiz[w].store, wiz[w].secret, wiz[w].grants)
      <4>1. token'[TokenName[r.store]].secret = r.secret /\ r.secret # 0
        BY <1>1, <1>6, <1>7, <2>2, <3>2, TargetIs DEF HasToken
      <4>2. ASSUME NEW i \in 1 .. r.grants
            PROVE  Grants(r.store)[i] \in token'[TokenName[r.store]].roles
        <5>1. i = n \/ i \in 1 .. wiz[w].grants
          BY <1>1, <2>2
        <5> QED BY <1>1, <1>6, <1>7, <2>2, <3>2, <5>1, TargetIs DEF HasToken
      <4> QED BY <4>1, <4>2 DEF HasToken
    <3>3. Given(w, wiz[w].store, wiz[w].secret, wiz[w].grants)
      BY <1>1 DEF WizardInv, GivenInv
    <3> QED BY <3>1, <3>2, <3>3 DEF Given
  <2>9. r.pc \notin {"write", "fill"} /\ (r.pc = "save" => ~r.managed) /\ wiz[w].pc # "done"
    BY <1>1, <2>2, <2>6
  <2> HIDE DEF step, n, Give
  <2> QED BY <1>1, <1>2, <1>5, <1>6, <1>7, <2>2, <2>4, <2>5, <2>7, <2>8, <2>9, MoveStep
<1>8. CASE /\ Goes(w, "connect")
           /\ token' = token \/ Give
  <2>1. token' \in [Names -> Tokens] /\ \A name \in Names : Spared(w, name)
    BY <1>6, <1>8, TokensAre
  <2> HIDE DEF Give, step, n
  <2> QED BY <1>1, <1>2, <1>5, <1>8, <2>1, GoesStep DEF Early, KeySteps, Step
<1> HIDE DEF Give, step, n
<1> QED BY <1>4, <1>7, <1>8

\* The device a wizard saves.
Reported(w, installed) ==
  [store |-> wiz[w].store, secret |-> wiz[w].secret, by |-> w, installed |-> installed]

\* Past the token: the key, and the device that is saved with what was given.
LEMMA KeyStep ==
  ASSUME WizardInv, NEW w \in Wizards, NEW r \in Draft, DraftOK(r),
         wiz' = [wiz EXCEPT ![w] = r], UNCHANGED token, wiz[w].pc \in KeySteps,
         r.agreedTo = wiz[w].agreedTo,
         \/ /\ r.pc \in KeySteps /\ devices' = devices
            /\ r.store = wiz[w].store /\ r.secret = wiz[w].secret /\ r.grants = wiz[w].grants
         \/ /\ r.pc = "done"
            /\ \E i \in BOOLEAN : devices' = devices \union {Reported(w, i)},
         made' \in Nat \ {0}, failures' \in Nat, keyFile' \in Nat, authorized' \subseteq Nat,
         KeyInv'
  PROVE  WizardInv'
<1> USE DEF WizardInv
<1>1. wiz \in [Wizards -> Draft] /\ wiz'[w] = r /\ \A u \in Wizards \ {w} : wiz'[u] = wiz[u]
  BY DEF WizardTypeOK
<1>2. /\ wiz[w].store \in Datastore /\ wiz[w].secret \in Nat /\ wiz[w].grants = 4
      /\ Given(w, wiz[w].store, wiz[w].secret, 4)
  BY <1>1 DEF WizardTypeOK, DraftsOK, DraftOK, Draft, KeySteps, GivenInv
<1>3. \A i \in BOOLEAN :
        /\ Reported(w, i) \in [store : Datastore, secret : Nat, by : Wizards, installed : BOOLEAN]
        /\ Reported(w, i).by = w /\ Reported(w, i).store = wiz[w].store
        /\ Reported(w, i).secret = wiz[w].secret
  BY <1>2 DEF Reported
<1>4. WizardTypeOK' /\ DraftsOK'
  BY <1>1, <1>3 DEF WizardTypeOK, DraftsOK
<1>5. \A name \in Names : Spared(w, name)
  BY DEF Spared
<1>6. ASSUME NEW v \in Wizards, NEW s \in Datastore, NEW x, NEW n, Given(v, s, x, n)
      PROVE  Given(v, s, x, n)'
  <2>1. Spared(w, TokenName[s]) /\ wiz[w].pc # "delete"
    BY <1>5 DEF Names, KeySteps
  <2> QED BY <1>1, <1>6, <2>1, StillGiven
<1>7. GivenInv'
  <2>1. SUFFICES ASSUME NEW v \in Wizards, wiz'[v].pc \in {"grant"} \union KeySteps
                 PROVE  Given(v, wiz[v].store, wiz[v].secret, wiz[v].grants)'
    BY DEF GivenInv
  <2>2. PICK s, x, n : s = wiz[v].store /\ x = wiz[v].secret /\ n = wiz[v].grants
    OBVIOUS
  <2>3. s = wiz'[v].store /\ x = wiz'[v].secret /\ n = wiz'[v].grants
    BY <1>1, <2>1, <2>2 DEF KeySteps
  <2>4. s \in Datastore /\ Given(v, s, x, n)
    BY <1>1, <1>4, <2>1, <2>2, <2>3 DEF GivenInv, DraftsOK, DraftOK, KeySteps
  <2>5. Given(v, s, x, n)'
    BY <1>6, <2>4
  <2> QED BY <2>3, <2>5
<1>8. SavedInv'
  <2>1. SUFFICES ASSUME NEW d \in devices'
                 PROVE  wiz'[d.by].pc = "done" /\ Given(d.by, d.store, d.secret, 4)'
    BY DEF SavedInv
  <2>2. CASE d \in devices
    <3>1. d.by \in Wizards /\ d.store \in Datastore /\ wiz[d.by].pc = "done" /\ d.by # w
          /\ Given(d.by, d.store, d.secret, 4)
      BY <2>2 DEF SavedInv, WizardTypeOK, KeySteps
    <3> QED BY <1>1, <1>6, <3>1
  <2>3. CASE r.pc = "done" /\ \E i \in BOOLEAN : d = Reported(w, i)
    <3>1. PICK s, x : s = wiz[w].store /\ x = wiz[w].secret
      OBVIOUS
    <3>2. d.by = w /\ d.store = s /\ d.secret = x
      BY <1>3, <2>3, <3>1
    <3>3. Given(w, s, x, 4)'
      BY <1>2, <1>6, <3>1
    <3> QED BY <1>1, <2>3, <3>2, <3>3
  <2> QED BY <2>1, <2>2, <2>3
<1> QED BY <1>4, <1>7, <1>8

\* What a step with the key leaves of a wizard that is past its token.
Keyed(w, p, k) == [wiz[w] EXCEPT !.pc = p, !.key = k]

LEMMA KeyDraft ==
  ASSUME WizardInv, NEW w \in Wizards, wiz[w].pc \in KeySteps, NEW p \in KeySteps,
         NEW k \in Nat, p \in {"install", "save"} => k # 0, NEW r, r = Keyed(w, p, k)
  PROVE  /\ r \in Draft /\ DraftOK(r) /\ r.pc = p /\ r.store = wiz[w].store
         /\ r.secret = wiz[w].secret /\ r.grants = wiz[w].grants /\ r.agreedTo = wiz[w].agreedTo
         /\ r.managed = wiz[w].managed /\ r.auto = wiz[w].auto /\ r.key = k
<1>1. wiz[w] \in Draft /\ DraftOK(wiz[w])
  BY DraftIs
<1>2. p \in Step
  BY DEF Step
<1>3. /\ r.pc = p /\ r.store = wiz[w].store /\ r.secret = wiz[w].secret
      /\ r.grants = wiz[w].grants /\ r.agreedTo = wiz[w].agreedTo
      /\ r.replace = wiz[w].replace /\ r.managed = wiz[w].managed /\ r.auto = wiz[w].auto
      /\ r.key = k
  BY <1>1 DEF Draft, Keyed
<1>4. r \in Draft
  BY <1>1, <1>2 DEF Draft, Keyed
<1>5. DraftOK(r)
  BY <1>1, <1>3 DEF DraftOK, Early, KeySteps
<1> QED BY <1>3, <1>4, <1>5

\* To go to a step with the key in hand, or on the way to it.
LEMMA KeyedIs ==
  ASSUME WizardInv, NEW w \in Wizards, NEW p \in KeySteps, Goes(w, p)
  PROVE  wiz' = [wiz EXCEPT ![w] = Keyed(w, p, wiz[w].key)]
<1>1. wiz[w] \in Draft /\ wiz \in [Wizards -> Draft]
  BY DraftIs
<1>2. Moved(wiz[w], p) = [wiz[w] EXCEPT !.pc = p]
  BY DEF Moved, KeySteps
<1>3. Keyed(w, p, wiz[w].key) = [wiz[w] EXCEPT !.pc = p]
  BY <1>1 DEF Keyed, Draft
<1> QED BY <1>1, <1>2, <1>3 DEF Goes

\* The key that one wizard writes, and every other has.
LEMMA ReadKeyStep ==
  ASSUME WizardInv, NEW w \in Wizards, ReadKey(w)
  PROVE  WizardInv'
<1>1. wiz[w] \in Draft /\ wiz \in [Wizards -> Draft] /\ wiz[w].pc = "key" /\ wiz[w].pc \in KeySteps
      /\ wiz[w].key \in Nat
  BY DraftIs DEF ReadKey, At, KeySteps, Draft
<1>2. UNCHANGED <<token, keyFile, authorized, devices, made, failures>>
  BY DEF ReadKey
<1>3. /\ made' \in Nat \ {0} /\ failures' \in Nat /\ keyFile' \in Nat /\ authorized' \subseteq Nat
      /\ keyFile \in Nat
  BY <1>2 DEF WizardInv, WizardTypeOK
<1>4. ~OverlapKeygen => \A u \in Wizards : wiz[u].pc \notin {"write", "fill"}
  BY DEF ReadKey, At
<1>5. PICK p \in {"install", "write"}, k \in {wiz[w].key, keyFile} :
        /\ wiz' = [wiz EXCEPT ![w] = Keyed(w, p, k)]
        /\ ~OverlapKeygen /\ k # 0 => k = keyFile /\ keyFile > 0
        /\ k \in Nat /\ (p = "install" => k # 0)
        /\ p = "write" => keyFile = 0
  <2>1. ~OverlapKeygen /\ wiz[w].key # 0 => wiz[w].key = keyFile /\ keyFile > 0
    BY DEF WizardInv, KeyInv, Keys
  <2>2. "install" \in KeySteps /\ "write" \in KeySteps
    BY DEF KeySteps
  <2>3. CASE wiz[w].key # 0
    <3>1. Goes(w, "install")
      BY <2>3 DEF ReadKey
    <3>2. wiz' = [wiz EXCEPT ![w] = Keyed(w, "install", wiz[w].key)]
      BY <2>2, <3>1, KeyedIs
    <3> QED BY <1>1, <2>1, <2>3, <3>2
  <2>4. CASE wiz[w].key = 0 /\ NoKeyYet
    <3>1. Goes(w, "write") /\ keyFile = 0
      BY <2>4 DEF ReadKey, NoKeyYet
    <3>2. wiz' = [wiz EXCEPT ![w] = Keyed(w, "write", wiz[w].key)]
      BY <2>2, <3>1, KeyedIs
    <3> QED BY <1>1, <2>4, <3>1, <3>2
  <2>5. CASE wiz[w].key = 0 /\ ~NoKeyYet
    <3>1. wiz' = [wiz EXCEPT ![w].key = keyFile, ![w].pc = "install"] /\ keyFile # 0
      BY <1>1, <2>5 DEF ReadKey, NoKeyYet
    <3>2. wiz' = [wiz EXCEPT ![w] = Keyed(w, "install", keyFile)]
      BY <1>1, <3>1 DEF Keyed, Draft
    <3>3. keyFile \in Nat /\ keyFile > 0
      BY <1>3, <3>1
    <3> QED BY <3>2, <3>3
  <2> QED BY <2>3, <2>4, <2>5
<1>6. PICK r : r = Keyed(w, p, k)
  OBVIOUS
<1>7. /\ r \in Draft /\ DraftOK(r) /\ r.pc = p /\ r.store = wiz[w].store
      /\ r.secret = wiz[w].secret /\ r.grants = wiz[w].grants /\ r.agreedTo = wiz[w].agreedTo
      /\ r.key = k
  <2>1. k \in Nat /\ p \in KeySteps /\ (p \in {"install", "save"} => k # 0)
    BY <1>1, <1>3, <1>5 DEF KeySteps
  <2> QED BY <1>1, <1>6, <2>1, KeyDraft
<1>8. wiz' = [wiz EXCEPT ![w] = r] /\ wiz'[w] = r /\ \A u \in Wizards \ {w} : wiz'[u] = wiz[u]
  BY <1>1, <1>5, <1>6
<1>9. KeyInv'
  <2> SUFFICES ASSUME ~OverlapKeygen PROVE Keys'
    BY DEF KeyInv
  <2>1. \A u, v \in Wizards : wiz'[u].pc \in {"write", "fill"} /\ wiz'[v].pc \in {"write", "fill"} => u = v
    BY <1>4, <1>8
  <2>2. ASSUME NEW u \in Wizards
        PROVE  /\ wiz'[u].pc \in {"write", "fill"} => keyFile = 0
               /\ wiz'[u].key # 0 => wiz'[u].key = keyFile /\ keyFile > 0
               /\ wiz'[u].pc = "save" /\ wiz'[u].managed /\ wiz'[u].auto => keyFile \in authorized
    <3>1. CASE u = w
      BY <1>5, <1>7, <1>8, <3>1
    <3>2. CASE u # w
      BY <1>8, <3>2 DEF WizardInv, KeyInv, Keys
    <3> QED BY <3>1, <3>2
  <2>3. \A d \in devices : d.installed => keyFile > 0 /\ keyFile \in authorized
    BY DEF WizardInv, KeyInv, Keys
  <2> QED BY <1>2, <2>1, <2>2, <2>3 DEF KeyInv, Keys
<1>10. r.pc \in KeySteps
  BY <1>5, <1>7 DEF KeySteps
<1> QED BY <1>1, <1>2, <1>3, <1>7, <1>8, <1>9, <1>10, KeyStep

LEMMA WriteKeyStep ==
  ASSUME WizardInv, NEW w \in Wizards, WriteKey(w)
  PROVE  WizardInv'
<1>1. wiz[w] \in Draft /\ wiz \in [Wizards -> Draft] /\ wiz[w].pc = "write" /\ wiz[w].pc \in KeySteps
      /\ wiz[w].key \in Nat
  BY DraftIs DEF WriteKey, At, KeySteps, Draft
<1>2. UNCHANGED <<token, authorized, devices, made, failures>> /\ keyFile' = 0
  BY DEF WriteKey
<1>3. made' \in Nat \ {0} /\ failures' \in Nat /\ keyFile' \in Nat /\ authorized' \subseteq Nat
  BY <1>2 DEF WizardInv, WizardTypeOK
<1>4. PICK r : r = Keyed(w, "fill", wiz[w].key)
  OBVIOUS
<1>5. /\ r \in Draft /\ DraftOK(r) /\ r.pc = "fill" /\ r.store = wiz[w].store
      /\ r.secret = wiz[w].secret /\ r.grants = wiz[w].grants /\ r.agreedTo = wiz[w].agreedTo
      /\ r.key = wiz[w].key
  <2>1. "fill" \in KeySteps /\ "fill" \notin {"install", "save"}
    BY DEF KeySteps
  <2> QED BY <1>1, <1>4, <2>1, KeyDraft
<1>6. wiz' = [wiz EXCEPT ![w] = r] /\ wiz'[w] = r /\ \A u \in Wizards \ {w} : wiz'[u] = wiz[u]
  <2>1. Goes(w, "fill") /\ "fill" \in KeySteps
    BY DEF WriteKey, KeySteps
  <2> QED BY <1>1, <1>4, <2>1, KeyedIs
<1>7. (~OverlapKeygen => keyFile = 0) /\ keyFile \in Nat
  BY <1>1 DEF WizardInv, KeyInv, Keys, WizardTypeOK
<1>8. ~OverlapKeygen => /\ \A u \in Wizards : wiz[u].key = 0 /\ ~(wiz[u].pc = "save" /\ wiz[u].managed)
                        /\ \A d \in devices : ~d.installed
  BY <1>7 DEF WizardInv, KeyInv, Keys, DraftsOK, DraftOK
<1>9. KeyInv'
  BY <1>1, <1>2, <1>5, <1>6, <1>7, <1>8 DEF KeyInv, Keys, WizardInv
<1>10. r.pc \in KeySteps
  BY <1>5 DEF KeySteps
<1> QED BY <1>1, <1>2, <1>3, <1>5, <1>6, <1>9, <1>10, KeyStep

LEMMA FillKeyStep ==
  ASSUME WizardInv, NEW w \in Wizards, FillKey(w)
  PROVE  WizardInv'
<1>1. wiz[w] \in Draft /\ wiz \in [Wizards -> Draft] /\ wiz[w].pc = "fill" /\ wiz[w].pc \in KeySteps
      /\ wiz[w].key \in Nat
  BY DraftIs DEF FillKey, At, KeySteps, Draft
<1>2. UNCHANGED <<token, authorized, devices>>
  BY DEF FillKey
<1>3. made \in Nat \ {0} /\ made + 1 \in Nat \ {0} /\ failures \in Nat /\ keyFile \in Nat
      /\ authorized' \subseteq Nat /\ (~OverlapKeygen => keyFile = 0)
  BY <1>1, <1>2 DEF WizardInv, WizardTypeOK, KeyInv, Keys
<1>4. PICK p \in {"install", "key"}, k \in {wiz[w].key, made + 1} :
        /\ wiz' = [wiz EXCEPT ![w] = Keyed(w, p, k)]
        /\ \/ p = "install" /\ k = made + 1 /\ keyFile' = made + 1 /\ made' = made + 1
              /\ failures' = failures
           \/ p = "key" /\ k = wiz[w].key /\ keyFile' = keyFile /\ made' = made
              /\ failures' = failures + 1
  <2>1. "key" \in KeySteps
    BY DEF KeySteps
  <2>2. CASE /\ made' = made + 1 /\ keyFile' = made + 1 /\ UNCHANGED failures
             /\ wiz' = [wiz EXCEPT ![w].key = made + 1, ![w].pc = "install"]
    <3>1. wiz' = [wiz EXCEPT ![w] = Keyed(w, "install", made + 1)]
      BY <1>1, <2>2 DEF Draft, Keyed
    <3> QED BY <2>2, <3>1
  <2>3. CASE Fault /\ Goes(w, "key") /\ UNCHANGED <<keyFile, made>>
    <3>1. wiz' = [wiz EXCEPT ![w] = Keyed(w, "key", wiz[w].key)]
      BY <2>1, <2>3, KeyedIs
    <3> QED BY <2>3, <3>1 DEF Fault
  <2> QED BY <2>2, <2>3 DEF FillKey
<1>5. PICK r : r = Keyed(w, p, k)
  OBVIOUS
<1>6. /\ r \in Draft /\ DraftOK(r) /\ r.pc = p /\ r.store = wiz[w].store
      /\ r.secret = wiz[w].secret /\ r.grants = wiz[w].grants /\ r.agreedTo = wiz[w].agreedTo
      /\ r.key = k
  <2>1. k \in Nat /\ p \in KeySteps /\ (p \in {"install", "save"} => k # 0)
    BY <1>1, <1>3, <1>4 DEF KeySteps
  <2> QED BY <1>1, <1>5, <2>1, KeyDraft
<1>7. wiz' = [wiz EXCEPT ![w] = r] /\ wiz'[w] = r /\ \A u \in Wizards \ {w} : wiz'[u] = wiz[u]
  BY <1>1, <1>4, <1>5
<1>8. ~OverlapKeygen => \A u \in Wizards : wiz[u].key = 0 /\ ~(wiz[u].pc = "save" /\ wiz[u].managed)
  BY <1>3 DEF WizardInv, KeyInv, Keys, DraftsOK, DraftOK
<1>9. ~OverlapKeygen =>
        (\A d \in devices : ~d.installed) /\ \A u \in Wizards \ {w} : wiz[u].pc \notin {"write", "fill"}
  BY <1>1, <1>3 DEF WizardInv, KeyInv, Keys
<1>10. KeyInv'
  <2> SUFFICES ASSUME ~OverlapKeygen PROVE Keys'
    BY DEF KeyInv
  <2>1. \A u \in Wizards : /\ wiz'[u].pc \notin {"write", "fill"}
                           /\ ~(wiz'[u].pc = "save" /\ wiz'[u].managed)
    BY <1>4, <1>6, <1>7, <1>8, <1>9
  <2>2. \A u \in Wizards : wiz'[u].key # 0 => wiz'[u].key = keyFile' /\ keyFile' > 0
    BY <1>3, <1>4, <1>6, <1>7, <1>8
  <2> QED BY <1>2, <1>9, <2>1, <2>2 DEF KeyInv, Keys
<1>11. r.pc \in KeySteps /\ failures' \in Nat /\ made' \in Nat \ {0} /\ keyFile' \in Nat
  BY <1>3, <1>4, <1>6 DEF KeySteps
<1> QED BY <1>1, <1>2, <1>3, <1>6, <1>7, <1>10, <1>11, KeyStep

\* The user, or a server that refuses the password, decides who installs the key.
LEMMA AutoStep ==
  ASSUME WizardInv, NEW w \in Wizards, wiz[w].pc = "install", NEW auto \in BOOLEAN,
         wiz' = [wiz EXCEPT ![w].auto = auto],
         UNCHANGED <<token, keyFile, authorized, devices, made, failures>>
  PROVE  WizardInv'
<1>1. wiz[w] \in Draft /\ DraftOK(wiz[w]) /\ wiz \in [Wizards -> Draft] /\ wiz[w].pc \in KeySteps
  BY DraftIs DEF KeySteps
<1>2. PICK r : r = [wiz[w] EXCEPT !.auto = auto]
  OBVIOUS
<1>3. /\ r \in Draft /\ r.pc = "install" /\ r.store = wiz[w].store /\ r.secret = wiz[w].secret
      /\ r.grants = wiz[w].grants /\ r.agreedTo = wiz[w].agreedTo /\ r.replace = wiz[w].replace
      /\ r.managed = wiz[w].managed /\ r.key = wiz[w].key
  BY <1>1, <1>2 DEF Draft
<1>4. DraftOK(r) /\ r.pc \in KeySteps
  BY <1>1, <1>3 DEF DraftOK, Early, KeySteps
<1>5. wiz' = [wiz EXCEPT ![w] = r] /\ wiz'[w] = r /\ \A u \in Wizards \ {w} : wiz'[u] = wiz[u]
  BY <1>1, <1>2
<1>6. made' \in Nat \ {0} /\ failures' \in Nat /\ keyFile' \in Nat /\ authorized' \subseteq Nat
  BY DEF WizardInv, WizardTypeOK
<1>7. KeyInv'
  BY <1>3, <1>5 DEF WizardInv, KeyInv, Keys
<1> QED BY <1>1, <1>3, <1>4, <1>5, <1>6, <1>7, KeyStep

\* The step of the power-off is left, or a try to install fails.
LEMMA KeyOnServer ==
  ASSUME WizardInv, NEW w \in Wizards, wiz[w].pc = "install", NEW p \in {"install", "save"},
         Goes(w, p), UNCHANGED <<token, keyFile, devices, made>>, failures' \in Nat,
         authorized' \in {authorized, WithKey(wiz[w].key)},
         p = "save" => authorized' = WithKey(wiz[w].key) \/ ~wiz[w].auto
  PROVE  WizardInv'
<1>1. wiz[w] \in Draft /\ wiz \in [Wizards -> Draft] /\ wiz[w].pc \in KeySteps
      /\ wiz[w].key \in Nat /\ wiz[w].key # 0 /\ p \in KeySteps
  BY DraftIs DEF KeySteps, Draft, DraftOK
<1>2. made' \in Nat \ {0} /\ keyFile' \in Nat /\ authorized \subseteq Nat
      /\ (~OverlapKeygen => wiz[w].key = keyFile /\ keyFile > 0)
  BY <1>1 DEF WizardInv, WizardTypeOK, KeyInv, Keys
<1>3. authorized \subseteq authorized' /\ authorized' \subseteq Nat
      /\ (~OverlapKeygen /\ p = "save" /\ wiz[w].auto => keyFile \in authorized')
  BY <1>1, <1>2 DEF WithKey
<1>4. PICK r : r = Keyed(w, p, wiz[w].key)
  OBVIOUS
<1>5. /\ r \in Draft /\ DraftOK(r) /\ r.pc = p /\ r.store = wiz[w].store
      /\ r.secret = wiz[w].secret /\ r.grants = wiz[w].grants /\ r.agreedTo = wiz[w].agreedTo
      /\ r.managed = wiz[w].managed /\ r.auto = wiz[w].auto /\ r.key = wiz[w].key
  BY <1>1, <1>4, KeyDraft
<1>6. wiz' = [wiz EXCEPT ![w] = r] /\ wiz'[w] = r /\ \A u \in Wizards \ {w} : wiz'[u] = wiz[u]
  <2>1. wiz' = [wiz EXCEPT ![w] = r]
    BY <1>1, <1>4, KeyedIs
  <2> QED BY <1>1, <2>1
<1>7. KeyInv'
  <2> SUFFICES ASSUME ~OverlapKeygen PROVE Keys'
    BY DEF KeyInv
  <2>1. \A u \in Wizards : wiz'[u].pc \in {"write", "fill"} => wiz[u].pc \in {"write", "fill"}
    BY <1>5, <1>6
  <2>2. \A u \in Wizards : wiz'[u].key = wiz[u].key
    BY <1>5, <1>6
  <2>3. \A u \in Wizards : wiz'[u].pc = "save" /\ wiz'[u].managed /\ wiz'[u].auto
                             => keyFile \in authorized'
    BY <1>3, <1>5, <1>6 DEF WizardInv, KeyInv, Keys
  <2> QED BY <1>3, <2>1, <2>2, <2>3 DEF WizardInv, KeyInv, Keys
<1> QED BY <1>1, <1>2, <1>3, <1>5, <1>6, <1>7, KeyStep

LEMMA InstallStep ==
  ASSUME WizardInv, NEW w \in Wizards, Install(w)
  PROVE  WizardInv'
<1>1. wiz[w].pc = "install" /\ UNCHANGED <<token, keyFile, devices, made>>
      /\ wiz \in [Wizards -> Draft] /\ failures \in Nat
  BY DraftIs, TokensAre DEF Install, At
<1>2. CASE authorized' = WithKey(wiz[w].key) /\ Goes(w, "save") /\ UNCHANGED failures
  BY <1>1, <1>2, KeyOnServer
<1>3. CASE Fault /\ UNCHANGED wiz /\ authorized' \in {authorized, WithKey(wiz[w].key)}
  <2>1. Goes(w, "install")
    <3>1. Moved(wiz[w], "install") = wiz[w]
      BY <1>1 DEF Moved, Draft
    <3> QED BY <1>1, <1>3, <3>1 DEF Goes
  <2>2. failures' \in Nat
    BY <1>1, <1>3 DEF Fault
  <2> QED BY <1>1, <1>3, <2>1, <2>2, KeyOnServer
<1>4. CASE wiz' = [wiz EXCEPT ![w].auto = FALSE] /\ UNCHANGED <<authorized, failures>>
  <2>1. PICK b \in BOOLEAN : b = FALSE
    OBVIOUS
  <2> QED BY <1>1, <1>4, <2>1, AutoStep
<1> QED BY <1>2, <1>3, <1>4 DEF Install

LEMMA ToggleStep ==
  ASSUME WizardInv, NEW w \in Wizards, Toggle(w) \/ LeaveToUser(w)
  PROVE  WizardInv'
<1>1. wiz[w].pc = "install" /\ UNCHANGED <<token, keyFile, authorized, devices, made, failures>>
      /\ wiz \in [Wizards -> Draft] /\ wiz[w].auto \in BOOLEAN /\ failures \in Nat
  BY DraftIs, TokensAre DEF Toggle, LeaveToUser, At, Draft
<1>2. CASE Toggle(w)
  <2>1. PICK b \in BOOLEAN : b = ~wiz[w].auto
    OBVIOUS
  <2>2. wiz' = [wiz EXCEPT ![w].auto = b]
    BY <1>1, <1>2, <2>1 DEF Toggle
  <2> QED BY <1>1, <2>2, AutoStep
<1>3. CASE LeaveToUser(w)
  BY <1>1, <1>3, KeyOnServer DEF LeaveToUser
<1> QED BY <1>2, <1>3

LEMMA SaveDeviceStep ==
  ASSUME WizardInv, NEW w \in Wizards, SaveDevice(w)
  PROVE  WizardInv'
<1>1. wiz[w] \in Draft /\ DraftOK(wiz[w]) /\ wiz \in [Wizards -> Draft] /\ wiz[w].pc = "save"
      /\ wiz[w].pc \in KeySteps /\ {wiz[w].managed, wiz[w].auto} \subseteq BOOLEAN
  BY DraftIs DEF SaveDevice, At, KeySteps, Draft
<1>2. UNCHANGED <<token, keyFile, authorized, made>>
  BY DEF SaveDevice
<1>3. /\ made' \in Nat \ {0} /\ failures \in Nat /\ keyFile' \in Nat /\ authorized' \subseteq Nat
      /\ failures + 1 \in Nat
  BY <1>2 DEF WizardInv, WizardTypeOK
<1>4. CASE /\ devices' = devices \cup {Reported(w, wiz[w].managed /\ wiz[w].auto)}
           /\ Goes(w, "done") /\ UNCHANGED failures
  <2>1. PICK r : r = Moved(wiz[w], "done")
    OBVIOUS
  <2>2. r \in Draft /\ r.pc = "done" /\ r.agreedTo = wiz[w].agreedTo /\ r.key \in {0, wiz[w].key}
        /\ ~r.replace
    <3>1. "done" \in Step
      BY DEF Step
    <3> QED BY <1>1, <2>1, <3>1, MovedIs
  <2>3. DraftOK(r)
    BY <2>2 DEF DraftOK, Early, KeySteps
  <2>4. wiz' = [wiz EXCEPT ![w] = r] /\ wiz'[w] = r /\ \A u \in Wizards \ {w} : wiz'[u] = wiz[u]
    BY <1>1, <1>4, <2>1 DEF Goes
  <2>5. PICK i \in BOOLEAN : i = (wiz[w].managed /\ wiz[w].auto)
    OBVIOUS
  <2>6. devices' = devices \cup {Reported(w, i)} /\ Reported(w, i).installed = i
    BY <1>4, <2>5 DEF Reported
  <2>7. KeyInv'
    <3> SUFFICES ASSUME ~OverlapKeygen PROVE Keys'
      BY DEF KeyInv
    <3>1. \A u \in Wizards : /\ wiz'[u].pc \in {"write", "fill", "save"} => wiz'[u] = wiz[u]
                             /\ wiz'[u].key \in {0, wiz[u].key}
      BY <2>2, <2>4
    <3>2. i => keyFile > 0 /\ keyFile \in authorized
      BY <1>1, <2>5 DEF WizardInv, KeyInv, Keys, DraftOK
    <3> QED BY <1>2, <2>6, <3>1, <3>2 DEF WizardInv, KeyInv, Keys
  <2> QED BY <1>1, <1>2, <1>3, <1>4, <2>2, <2>3, <2>4, <2>6, <2>7, KeyStep
<1>5. CASE Fault /\ Goes(w, IF wiz[w].managed THEN "install" ELSE "connect") /\ UNCHANGED devices
  <2>1. PICK step \in {"install", "connect"} :
          Goes(w, step) /\ (step = "install" => wiz[w].managed)
    BY <1>5
  <2>2. failures' \in Nat /\ token' \in [Names -> Tokens] /\ \A name \in Names : Spared(w, name)
    BY <1>2, <1>3, <1>5, TokensAre DEF Fault
  <2>3. step = "install" => wiz[w].key # 0
    BY <1>1, <2>1 DEF DraftOK
  <2> QED BY <1>1, <1>2, <1>3, <1>5, <2>1, <2>2, <2>3, GoesStep DEF Early, KeySteps, Step
<1> QED BY <1>4, <1>5 DEF SaveDevice, Reported

LEMMA BackOrCloseStep ==
  ASSUME WizardInv, NEW w \in Wizards, BackOrClose(w)
  PROVE  WizardInv'
<1>1. /\ wiz[w].pc \in {"key", "install"}
      /\ UNCHANGED <<token, keyFile, authorized, devices, made, failures>>
  BY DEF BackOrClose
<1>2. PICK step \in {"connect", "done"} : Goes(w, step)
  BY DEF BackOrClose
<1>3. token' \in [Names -> Tokens] /\ made' \in Nat \ {0} /\ failures' \in Nat
      /\ \A name \in Names : Spared(w, name)
  BY <1>1, TokensAre
<1> QED BY <1>1, <1>2, <1>3, GoesStep DEF Early, KeySteps, Step

LEMMA WizardStarts == WizardInit \/ WizardRest => WizardInv
<1> SUFFICES ASSUME WizardInit \/ WizardRest PROVE WizardInv
  OBVIOUS
<1>1. Opened \in Draft
  BY DEF Opened, Draft, Step
<1>2. /\ Opened.pc = "connect" /\ Opened.agreedTo = {} /\ Opened.replace = FALSE /\ Opened.key = 0
      /\ Opened.grants = 0
  BY DEF Opened
<1>3. wiz = [w \in Wizards |-> Opened] /\ devices = {} /\ keyFile = 0 /\ authorized = {}
      /\ made = 1 /\ failures = 0
  BY DEF WizardInit, WizardRest
<1>4. token \in [Names -> Tokens]
  <2>1. NoToken \in Tokens /\ [secret |-> 1, roles |-> {"theirs"}] \in Tokens
    BY DEF NoToken, Tokens, Role
  <2> QED BY <2>1 DEF WizardInit, WizardRest
<1> HIDE DEF Opened
<1>5. WizardTypeOK
  BY <1>1, <1>3, <1>4 DEF WizardTypeOK
<1>6. DraftsOK /\ KeyInv
  BY <1>2, <1>3 DEF DraftsOK, DraftOK, KeyInv, Keys, Early, KeySteps
<1>7. GivenInv /\ SavedInv
  BY <1>2, <1>3 DEF GivenInv, SavedInv, KeySteps
<1> QED BY <1>5, <1>6, <1>7 DEF WizardInv

LEMMA WizardStays ==
  ASSUME ~MovesOn, WizardInv, NEW w \in Wizards, WizardStep(w)
  PROVE  WizardInv'
<1>1. CASE Connect(w)      BY <1>1, ConnectStep
<1>2. CASE Create(w)       BY <1>2, CreateStep
<1>3. CASE Look(w)         BY <1>3, LookStep
<1>4. CASE Answer(w)       BY <1>4, AnswerStep
<1>5. CASE Delete(w)       BY <1>5, DeleteStep
<1>6. CASE Recreate(w)     BY <1>6, RecreateStep
<1>7. CASE Grant(w)        BY <1>7, GrantStep
<1>8. CASE ReadKey(w)      BY <1>8, ReadKeyStep
<1>9. CASE WriteKey(w)     BY <1>9, WriteKeyStep
<1>10. CASE FillKey(w)     BY <1>10, FillKeyStep
<1>11. CASE Install(w)     BY <1>11, InstallStep
<1>12. CASE Toggle(w) \/ LeaveToUser(w) BY <1>12, ToggleStep
<1>13. CASE SaveDevice(w)  BY <1>13, SaveDeviceStep
<1>14. CASE BackOrClose(w) BY <1>14, BackOrCloseStep
<1> QED BY <1>1, <1>2, <1>3, <1>4, <1>5, <1>6, <1>7, <1>8, <1>9, <1>10, <1>11, <1>12, <1>13,
           <1>14 DEF WizardStep

LEMMA WizardInvariant ==
  ASSUME ~MovesOn PROVE ConfiguringSpec => []WizardInv
<1>1. ConfiguringInit => WizardInv
  BY WizardStarts DEF ConfiguringInit
<1>2. WizardInv /\ [ConfiguringNext]_<<vars, wizardVars, migrateVars, part>> => WizardInv'
  <2> SUFFICES ASSUME WizardInv, [ConfiguringNext]_<<vars, wizardVars, migrateVars, part>>
               PROVE  WizardInv'
    OBVIOUS
  <2>1. CASE UNCHANGED wizardVars
    BY <2>1 DEF wizardVars, WizardInv, WizardTypeOK, DraftsOK, KeyInv, Keys, GivenInv, SavedInv,
                Given, HasToken, Excused, Agreed
  <2>2. CASE WizardNext
    BY <2>2, WizardStays DEF WizardNext
  <2> QED BY <2>1, <2>2 DEF ConfiguringNext
<1> QED BY <1>1, <1>2, PTL DEF ConfiguringSpec

\* AddPbsWizard.tsx and provision_token: a device that was saved can be used, whatever requests of
\* the wizards fail, whether or not sshd takes the password, and however they interleave: the
\* server takes the token made for it, with every role granted, unless another user agreed to
\* lose the token of that name, and it obeys a key that was reported to be installed.  It is so as
\* long as a user who agreed to a replacement does not go on with another datastore, and the
\* requests for a key do not overlap.
THEOREM SavedDeviceCanBeUsed ==
  ASSUME ~MovesOn, ~OverlapKeygen PROVE ConfiguringSpec => []SavedDeviceWorks
<1>1. WizardInv => SavedDeviceWorks
  <2> SUFFICES ASSUME WizardInv, NEW d \in devices
               PROVE  /\ d.installed => keyFile \in authorized
                      /\ \/ /\ token[TokenName[d.store]].secret = d.secret
                            /\ Granted(d.store) \subseteq token[TokenName[d.store]].roles
                         \/ \E w \in Wizards \ {d.by} : Agreed(w, TokenName[d.store])
    BY DEF SavedDeviceWorks
  <2>1. d.installed => keyFile \in authorized
    BY DEF WizardInv, KeyInv, Keys
  <2>2. d.store \in Datastore /\ Given(d.by, d.store, d.secret, 4)
    BY DEF WizardInv, WizardTypeOK, SavedInv
  <2>3. Granted(d.store) = {Grants(d.store)[i] : i \in 1 .. 4}
    BY <2>2, GrantsAre
  <2> QED BY <2>1, <2>2, <2>3 DEF Given, HasToken, Excused
<1> QED BY <1>1, WizardInvariant, PTL

\* create_token with replace_existing, and the confirmation in AddPbsWizard.tsx: a token that is
\* there, whoever made it, is taken down only by a wizard whose user has agreed to lose the token
\* of that name, as long as a user who has agreed does not go on with another datastore.
THEOREM TokensAreReplacedWithConsent ==
  ASSUME ~MovesOn PROVE ConfiguringSpec => ReplacedWithConsent
<1> DEFINE Consent ==
      \A n \in Names :
        token[n].secret # 0 /\ token'[n].secret # token[n].secret =>
          \E w \in Wizards : At(w, "delete") /\ wiz'[w].pc # "delete" /\ Agreed(w, n)
<1>1. WizardInv /\ [ConfiguringNext]_<<vars, wizardVars, migrateVars, part>> => [Consent]_wizardVars
  <2> SUFFICES ASSUME WizardInv, WizardNext, NEW n \in Names, token[n].secret # 0,
                      token'[n].secret # token[n].secret
               PROVE  \E w \in Wizards : At(w, "delete") /\ wiz'[w].pc # "delete" /\ Agreed(w, n)
    BY DEF ConfiguringNext, wizardVars, vars, migrateVars
  <2>1. PICK w \in Wizards : WizardStep(w)
    BY DEF WizardNext
  <2>2. /\ wiz[w] \in Draft /\ DraftOK(wiz[w]) /\ wiz \in [Wizards -> Draft]
        /\ token \in [Names -> Tokens]
    BY DraftIs, TokensAre
  <2>3. CASE Delete(w)
    <3>1. wiz[w].pc = "delete" /\ wiz[w].store \in wiz[w].agreedTo /\ wiz[w].store \in Datastore
      BY <2>2, <2>3 DEF Delete, At, DraftOK
    <3>2. n = Target(w)
      BY <2>2, <2>3 DEF Delete
    <3>3. Agreed(w, n)
      BY <3>1, <3>2, TargetIs DEF Agreed
    <3>4. wiz'[w].pc # "delete"
      <4>1. PICK step \in {"recreate", "connect"} : Goes(w, step)
        BY <2>3 DEF Delete
      <4>2. step \in Step
        BY <4>1 DEF Step, Early
      <4>3. Moved(wiz[w], step).pc = step
        BY <2>2, <4>2, MovedIs
      <4> QED BY <2>2, <4>1, <4>3 DEF Goes
    <3> QED BY <3>1, <3>3, <3>4 DEF At
  <2>4. CASE Create(w) \/ Recreate(w)
    <3>1. token' = token \/ /\ token[Target(w)].secret = 0
                            /\ token' = [token EXCEPT ![Target(w)] = [secret |-> made + 1, roles |-> {}]]
      BY <2>4 DEF Create, Recreate
    <3> QED BY <2>2, <3>1
  <2>5. CASE Grant(w)
    <3>1. \/ token' = token
          \/ token' = [token EXCEPT ![Target(w)].roles
                         = @ \cup {Grants(wiz[w].store)[wiz[w].grants + 1]}]
      BY <2>5 DEF Grant
    <3> QED BY <2>2, <3>1 DEF Tokens
  <2>6. CASE UNCHANGED token
    BY <2>6
  <2> QED BY <2>1, <2>3, <2>4, <2>5, <2>6
          DEF WizardStep, Connect, Look, Answer, ReadKey, WriteKey, FillKey, Toggle, Install,
              LeaveToUser, SaveDevice, BackOrClose
<1> QED BY <1>1, WizardInvariant, PTL DEF ConfiguringSpec, ReplacedWithConsent
-----------------------------------------------------------------------------
(***************************************************************************)
(* Starting on the configuration of the older version.                     *)
(***************************************************************************)
LEMMA Files ==
  ASSUME NEW o, NEW c
  PROVE  /\ None.v = "none" /\ Torn.v = "torn" /\ V09(o).v = "0.9" /\ V10(c).v = "1.0"
         /\ V09(o).conf = o /\ V10(c).conf = c
BY DEF None, Torn, V09, V10

\* Where the original is, and the copy it takes before anything is written over it.
KeptInv ==
  /\ bak \in {None, Torn, V09(orig)}
  /\ bak = None => file = V09(orig)
  /\ pc = "copy" => file = V09(orig)
  /\ pc \in {"tmp", "seed", "loaded", "run"} => bak # None \/ ~DirectoryWritable
  /\ pc \in {"replace", "truncate", "fill"} => bak # None

LEMMA KeptStays ==
  ASSUME KeptInv, MigrateNext PROVE KeptInv'
<1> USE DEF KeptInv, DirectoryWritable, diskVars, mountVars
<1>1. None # Torn /\ None # V09(orig)
  BY Files
<1>2. bak.v = "none" <=> bak = None
  BY Files
<1>3. file.v # "0.9" => bak # None
  BY Files
<1>4. CASE StartProcess     BY <1>4 DEF StartProcess
<1>5. CASE LoadFile         BY <1>3, <1>5 DEF LoadFile
<1>6. CASE WriteBackup
  BY <1>1, <1>2, <1>6 DEF WriteBackup, NoCopyYet, AfterBackup
<1>7. CASE Copy             BY <1>1, <1>7 DEF Copy, AfterBackup
<1>8. CASE WriteTmp         BY <1>8 DEF WriteTmp, AfterSave
<1>9. CASE RenameTmp        BY <1>9 DEF RenameTmp, AfterSave
<1>10. CASE Truncate        BY <1>10 DEF Truncate, AfterSave
<1>11. CASE Fill            BY <1>11 DEF Fill, AfterSave
<1>12. CASE Seed            BY <1>12 DEF Seed
<1>13. CASE Loaded          BY <1>13 DEF Loaded
<1>14. CASE Crash           BY <1>14 DEF Crash
<1>15. CASE Save            BY <1>15 DEF Save
<1>16. CASE Mend            BY <1>2, <1>16 DEF Mend
<1>17. CASE PutBack
  <2>1. bak # None
    BY <1>2, <1>17 DEF PutBack
  <2> QED BY <1>17, <2>1 DEF PutBack
<1> QED BY <1>4, <1>5, <1>6, <1>7, <1>8, <1>9, <1>10, <1>11, <1>12, <1>13, <1>14, <1>15, <1>16,
           <1>17 DEF MigrateNext

LEMMA KeptInvariant == ConfiguringSpec => []KeptInv
<1>1. ConfiguringInit => KeptInv
  BY DEF ConfiguringInit, MigrateInit, MigrateRest, KeptInv
<1>2. KeptInv /\ [ConfiguringNext]_<<vars, wizardVars, migrateVars, part>> => KeptInv'
  <2> SUFFICES ASSUME KeptInv, [ConfiguringNext]_<<vars, wizardVars, migrateVars, part>>
               PROVE  KeptInv'
    OBVIOUS
  <2>1. CASE UNCHANGED migrateVars
    BY <2>1 DEF migrateVars, KeptInv, DirectoryWritable
  <2>2. CASE MigrateNext
    BY <2>2, KeptStays
  <2> QED BY <2>1, <2>2 DEF ConfiguringNext
<1> QED BY <1>1, <1>2, PTL DEF ConfiguringSpec

\* load_config, write_backup and save_config: the 0.9 original is in config.yaml or in its copy
\* whatever is refused, saved, mended or killed, however often the process starts and however
\* the file is mounted; only a copy that itself broke off can fail it.
THEOREM TheOriginalIsKept == ConfiguringSpec => []OriginalIsKept
<1>1. KeptInv => OriginalIsKept
  BY DEF KeptInv, OriginalIsKept
<1> QED BY <1>1, KeptInvariant, PTL

-----------------------------------------------------------------------------
\* The days a field names: cron's arithmetic is the translation's.
DaysOf(field) == {DayOf(d) : d \in UNION {Counted(tok) : tok \in field}}

CountsOff(tok, w) ==
  \E n \in 0 .. 7 :
    /\ FirstOf(tok) + n * tok.step <= LastOf(tok)
    /\ w = IF (FirstOf(tok) + n * tok.step) % 7 = 0 THEN 6
           ELSE ((FirstOf(tok) + n * tok.step) % 7) - 1

LEMMA TokenDays ==
  ASSUME NEW tok \in Token, TokenValid(tok), NEW w
  PROVE  CountsOff(tok, w) <=> \E d \in Counted(tok) : w = DayOf(d)
<1> DEFINE first == FirstOf(tok)
           last == LastOf(tok)
           step == tok.step
<1>1. first \in 0 .. 8 /\ last \in 0 .. 7 /\ step \in 1 .. 3
  BY DEF TokenValid, Token, FirstOf, LastOf
<1>2. Counted(tok) = {d \in first .. last : (d - first) % step = 0}
  BY DEF Counted
<1>3. \A d \in 0 .. 7 : DayOf(d) = IF d % 7 = 0 THEN 6 ELSE (d % 7) - 1
  BY DEF DayOf
<1> HIDE DEF first, last, step
<1>4. ASSUME NEW n \in 0 .. 7, first + n * step <= last
      PROVE  first + n * step \in Counted(tok) /\ first + n * step \in 0 .. 7
  <2>1. CASE step = 1 BY <1>1, <1>2, <1>4, <2>1
  <2>2. CASE step = 2 BY <1>1, <1>2, <1>4, <2>2
  <2>3. CASE step = 3 BY <1>1, <1>2, <1>4, <2>3
  <2> QED BY <1>1, <2>1, <2>2, <2>3
<1>5. ASSUME NEW d \in Counted(tok)
      PROVE  d \in 0 .. 7 /\ \E n \in 0 .. 7 : d = first + n * step
  <2>1. d \in first .. last /\ (d - first) % step = 0 /\ d \in 0 .. 7 /\ first \in Int
    <3>1. d \in first .. last /\ (d - first) % step = 0
      BY <1>2, <1>5, Zenon
    <3>2. d \in 0 .. 7 /\ first \in Int
      BY <1>1, <3>1
    <3> QED BY <3>1, <3>2
  <2>2. PICK e \in 0 .. 7 : d = first + e
    <3>1. d - first \in 0 .. 7 /\ d = first + (d - first)
      BY <1>1, <2>1
    <3> QED BY <3>1
  <2>3. e % step = 0
    BY <2>1, <2>2
  <2>4. \E n \in 0 .. 7 : e = n * step
    <3>1. CASE step = 1
      BY <3>1
    <3>2. CASE step = 2
      <4>1. e = 0 * 2 \/ e = 1 * 2 \/ e = 2 * 2 \/ e = 3 * 2
        BY <2>3, <3>2
      <4> QED BY <3>2, <4>1
    <3>3. CASE step = 3
      <4>1. e = 0 * 3 \/ e = 1 * 3 \/ e = 2 * 3
        BY <2>3, <3>3
      <4> QED BY <3>3, <4>1
    <3> QED BY <1>1, <3>1, <3>2, <3>3
  <2> QED BY <2>1, <2>2, <2>4
<1>6. \A d \in Counted(tok) : d <= last
  BY <1>1, <1>2
<1>7. ASSUME NEW n \in 0 .. 7, first + n * step <= last,
             w = IF (first + n * step) % 7 = 0 THEN 6 ELSE ((first + n * step) % 7) - 1
      PROVE  \E d \in Counted(tok) : w = DayOf(d)
  BY <1>3, <1>4, <1>7
<1>8. ASSUME NEW d \in Counted(tok), w = DayOf(d)
      PROVE  \E n \in 0 .. 7 : /\ first + n * step <= last
               /\ w = IF (first + n * step) % 7 = 0 THEN 6 ELSE ((first + n * step) % 7) - 1
  BY <1>3, <1>5, <1>6, <1>8
<1> QED BY <1>7, <1>8 DEF CountsOff, first, last, step

LEMMA CronIsDays ==
  ASSUME NEW f \in SUBSET Token, FieldValid(f)
  PROVE  CronMeans(f) = DaysOf(f) /\ DaysOf(f) \subseteq Weekday
<1>1. \A tok \in f : \A d \in Counted(tok) : DayOf(d) \in Weekday
  BY DEF Counted, FieldValid, TokenValid, FirstOf, LastOf, DayOf, Weekday, Token
<1>2. \A w \in Weekday : w \in CronMeans(f) <=> \E tok \in f : \E d \in Counted(tok) : w = DayOf(d)
  <2> SUFFICES ASSUME NEW w \in Weekday
               PROVE  w \in CronMeans(f) <=> \E tok \in f : \E d \in Counted(tok) : w = DayOf(d)
    OBVIOUS
  <2>1. w \in CronMeans(f) <=> \E tok \in f : CountsOff(tok, w)
    BY DEF CronMeans, CountsOff, FirstOf, LastOf
  <2>2. \A tok \in f : CountsOff(tok, w) <=> \E d \in Counted(tok) : w = DayOf(d)
    BY TokenDays DEF FieldValid
  <2> QED BY <2>1, <2>2
<1>3. \A w : w \in DaysOf(f) <=> \E tok \in f : \E d \in Counted(tok) : w = DayOf(d)
  BY DEF DaysOf
<1>4. CronMeans(f) \subseteq Weekday
  BY DEF CronMeans
<1> QED BY <1>1, <1>2, <1>3, <1>4

\* parse_cron and route_cron: the schedule made of a field fires on the days the field names.
LEMMA ConversionKeepsDays ==
  ASSUME NEW f \in SUBSET Token, FieldValid(f)
  PROVE  FieldValid(RouteField(ParseCron(f))) /\ FireDays(ParseCron(f)) = CronMeans(f)
<1>1. CronMeans(f) = DaysOf(f) /\ DaysOf(f) \subseteq Weekday /\ f # {}
  BY CronIsDays DEF FieldValid
<1>2. Star \in Token /\ TokenValid(Star)
  BY DEF Star, Token, TokenValid, FirstOf, LastOf
<1>3. FieldValid({Star}) /\ Translated({Star}) = Weekday
  BY <1>2 DEF FieldValid, Translated
<1>4. DaysOf({Star}) = Weekday
  <2>1. \A w \in Weekday : w + 1 \in Counted(Star) /\ DayOf(w + 1) = w
    BY DEF Star, Counted, FirstOf, LastOf, DayOf, Weekday
  <2>2. Weekday \subseteq DaysOf({Star})
    BY <2>1 DEF DaysOf
  <2>3. DaysOf({Star}) \subseteq Weekday
    BY <1>2, <1>3, CronIsDays
  <2> QED BY <2>2, <2>3
<1>5. Translated(f) = DaysOf(f)
  BY <1>4 DEF Translated, DaysOf
<1>6. CASE f = {Star}
  <2>1. ParseCron(f) = OnDays(Weekday)
    BY <1>6 DEF ParseCron
  <2>2. RouteField(OnDays(Weekday)) = {Star}
    BY DEF RouteField, OnDays
  <2> QED BY <1>1, <1>3, <1>4, <1>6, <2>1, <2>2 DEF FireDays
<1>7. CASE f # {Star} /\ Toggles(f)
  <2>1. \A tok \in f : tok.first \in 0 .. 7 /\ Counted(tok) = {tok.first}
    <3> SUFFICES ASSUME NEW tok \in f
                 PROVE  tok.first \in 0 .. 7 /\ Counted(tok) = {tok.first}
      OBVIOUS
    <3>1. FirstOf(tok) = tok.first /\ LastOf(tok) = tok.first /\ tok.step = 1 /\ tok.first \in 0 .. 7
      BY <1>7 DEF Toggles, FirstOf, LastOf, Token
    <3>2. tok.first .. tok.first = {tok.first} /\ (tok.first - tok.first) % 1 = 0
      BY <3>1
    <3> QED BY <3>1, <3>2 DEF Counted
  <2>2. DaysOf(f) = FlagsOf(f)
    BY <2>1 DEF DaysOf, FlagsOf
  <2>3. ParseCron(f) = OnDays(FlagsOf(f))
    BY <1>1, <1>7 DEF ParseCron
  <2>4. PICK days : days = FlagsOf(f)
    OBVIOUS
  <2>5. CASE days = Weekday
    <3>1. RouteField(OnDays(days)) = {Star}
      BY <2>5 DEF RouteField, OnDays
    <3> QED BY <1>1, <1>3, <2>2, <2>3, <2>4, <2>5, <3>1 DEF FireDays
  <2>6. CASE days # Weekday
    <3>1. RouteField(OnDays(days)) = {Plain(CronNumber(i)) : i \in days}
      BY <2>6 DEF RouteField, OnDays
    <3>2. \A i \in days : i \in Weekday /\ CronNumber(i) \in 0 .. 6 /\ DayOf(CronNumber(i)) = i
      BY <1>1, <2>2, <2>4 DEF CronNumber, DayOf, Weekday
    <3>3. \A d \in 0 .. 6 : Plain(d) \in Token /\ TokenValid(Plain(d)) /\ Counted(Plain(d)) = {d}
                            /\ Plain(d) # Star
      <4> SUFFICES ASSUME NEW d \in 0 .. 6
                   PROVE  Plain(d) \in Token /\ TokenValid(Plain(d)) /\ Counted(Plain(d)) = {d}
                          /\ Plain(d) # Star
        OBVIOUS
      <4>1. FirstOf(Plain(d)) = d /\ LastOf(Plain(d)) = d /\ Plain(d).step = 1
        BY DEF Plain, FirstOf, LastOf
      <4>2. d .. d = {d} /\ (d - d) % 1 = 0
        OBVIOUS
      <4>3. Plain(d) \in Token /\ Plain(d) # Star
        BY DEF Plain, Token, Star
      <4> QED BY <4>1, <4>2, <4>3 DEF TokenValid, Counted
    <3>4. days # {}
      BY <1>1, <2>4 DEF FlagsOf
    <3>5. PICK g : g = {Plain(CronNumber(i)) : i \in days}
      OBVIOUS
    <3>6. g \in SUBSET Token /\ FieldValid(g) /\ g # {Star}
      BY <3>2, <3>3, <3>4, <3>5 DEF FieldValid
    <3>7. DaysOf(g) = days
      <4>1. \A w : w \in DaysOf(g) <=> \E i \in days : \E d \in Counted(Plain(CronNumber(i))) : w = DayOf(d)
        BY <3>5 DEF DaysOf
      <4> QED BY <3>2, <3>3, <4>1
    <3>8. Translated(g) = DaysOf(g)
      BY <3>6 DEF Translated, DaysOf
    <3> QED BY <1>1, <2>2, <2>3, <2>4, <3>1, <3>5, <3>6, <3>7, <3>8 DEF FireDays
  <2> QED BY <2>5, <2>6
<1>8. CASE f # {Star} /\ ~Toggles(f)
  <2>1. ParseCron(f) = Pinned(f) /\ RouteField(Pinned(f)) = f
    BY <1>8 DEF ParseCron, Pinned, RouteField
  <2> QED BY <1>1, <1>5, <2>1 DEF FireDays
<1> QED BY <1>6, <1>7, <1>8

\* The route of a valid field is armed, if it is enabled, on the days of its cron.
LEMMA RouteIsArmed ==
  ASSUME NEW id, NEW on \in BOOLEAN, NEW f \in SUBSET Token, FieldValid(f)
  PROVE  /\ Route(id, on, f).id = id /\ Route(id, on, f).enabled = on
         /\ FieldValid(RouteField(Route(id, on, f).schedule))
         /\ FireDays(Route(id, on, f).schedule) = CronMeans(f)
BY ConversionKeepsDays DEF Route

Runs(o) == o.enabled /\ IF o.external THEN o.mac ELSE o.storage

\* migrate(): the converted routes fire the jobs of the 0.9 configuration.
LEMMA ConversionKeepsJobs ==
  ASSUME MigrateAssumption, \A f \in Fields : FieldValid(f), NEW o \in Old
  PROVE  Armed(Converted(o).routes) = Jobs09(o)
<1> DEFINE b == Route("backup", o.enabled, o.field)
           v == Route("verify", TRUE, o.verify)
           entry(r) == [id |-> r.id, days |-> FireDays(r.schedule)]
<1>1. /\ o.field \in SUBSET Token /\ FieldValid(o.field) /\ o.enabled \in BOOLEAN
      /\ o.verify # {} => o.verify \in SUBSET Token /\ FieldValid(o.verify)
  BY DEF MigrateAssumption, Old
<1>2. /\ b.id = "backup" /\ b.enabled = o.enabled /\ FieldValid(RouteField(b.schedule))
      /\ FireDays(b.schedule) = CronMeans(o.field)
  BY <1>1, RouteIsArmed
<1>3. o.verify # {} => /\ v.id = "verify" /\ v.enabled = TRUE /\ FieldValid(RouteField(v.schedule))
                       /\ FireDays(v.schedule) = CronMeans(o.verify)
  <2> SUFFICES ASSUME o.verify # {}
               PROVE  /\ v.id = "verify" /\ v.enabled = TRUE /\ FieldValid(RouteField(v.schedule))
                      /\ FireDays(v.schedule) = CronMeans(o.verify)
    OBVIOUS
  <2>1. o.verify \in SUBSET Token /\ FieldValid(o.verify) /\ TRUE \in BOOLEAN
    BY <1>1
  <2> QED BY <2>1, ConversionKeepsDays DEF Route
<1>4. Converted(o).routes = BackupRoutes(o) \union VerifyRoutes(o)
  BY DEF Converted
<1> HIDE DEF b, v
<1>5. BackupRoutes(o) = IF IF o.external THEN o.mac ELSE o.storage THEN {b} ELSE {}
  BY DEF BackupRoutes, b
<1>6. VerifyRoutes(o) = IF o.verify # {} THEN {v} ELSE {}
  BY DEF VerifyRoutes, v
<1>7. \A x : x \in Armed(Converted(o).routes)
          <=> \/ Runs(o) /\ x = [id |-> "backup", days |-> CronMeans(o.field)]
              \/ o.verify # {} /\ x = [id |-> "verify", days |-> CronMeans(o.verify)]
  <2>1. \A x : x \in Armed(Converted(o).routes)
               <=> \E r \in BackupRoutes(o) \union VerifyRoutes(o) :
                      r.enabled /\ FieldValid(RouteField(r.schedule)) /\ x = entry(r)
    BY <1>4 DEF Armed
  <2>2. entry(b) = [id |-> "backup", days |-> CronMeans(o.field)]
    BY <1>2
  <2>3. o.verify # {} => entry(v) = [id |-> "verify", days |-> CronMeans(o.verify)]
    BY <1>3
  <2> HIDE DEF entry
  <2> QED BY <1>2, <1>3, <1>5, <1>6, <2>1, <2>2, <2>3 DEF Runs
<1>8. \A x : x \in Jobs09(o)
          <=> \/ Runs(o) /\ x = [id |-> "backup", days |-> CronMeans(o.field)]
              \/ o.verify # {} /\ x = [id |-> "verify", days |-> CronMeans(o.verify)]
  BY DEF Jobs09, Runs
<1> QED BY <1>7, <1>8

Keeps(c) == Armed(c.routes) = Jobs09(orig)

\* The configuration at hand fires the jobs of the 0.9 one, until it is the user's own or an
\* overwriting broke off; and it has its key.
ScheduleInv ==
  /\ file.v \in {"torn", "0.9", "1.0"}
  /\ file.v = "0.9" => /\ file = V09(file.conf) /\ file.conf \in Old
                       /\ Jobs09(file.conf) = Jobs09(orig)
  /\ file.v = "1.0" /\ ~broken => file.conf.key /\ (~edited => Keeps(file.conf))
  /\ file.v = "torn" => broken \/ pc = "fill"
  /\ pc \in {"backup", "copy"} => /\ cfg.key
                                  /\ \/ doing = "migrate" /\ ~err /\ Keeps(cfg)
                                     \/ doing = "refuse" /\ err
  /\ pc \in {"tmp", "replace", "truncate", "fill"} /\ ~broken =>
       /\ cfg.key /\ doing \in {"migrate", "edit"}
       /\ ~edited => doing = "migrate" /\ Keeps(cfg)
  /\ pc \in {"seed", "loaded", "run"} /\ ~broken => cfg.key /\ (~edited => err \/ Keeps(cfg))
  /\ orig \in Old /\ broken \in BOOLEAN /\ edited \in BOOLEAN /\ err \in BOOLEAN

LEMMA MendedFile ==
  ASSUME NEW o \in Old, NEW f, f = [V09(o) EXCEPT !.conf.valid = TRUE]
  PROVE  /\ f = V09([o EXCEPT !.valid = TRUE]) /\ [o EXCEPT !.valid = TRUE] \in Old
         /\ Jobs09([o EXCEPT !.valid = TRUE]) = Jobs09(o)
<1>1. f = V09([o EXCEPT !.valid = TRUE])
  BY DEF V09
<1>2. [o EXCEPT !.valid = TRUE] \in Old
  BY DEF Old
<1>3. PICK m : m = [o EXCEPT !.valid = TRUE]
  OBVIOUS
<1>4. /\ m.enabled = o.enabled /\ m.external = o.external /\ m.mac = o.mac
      /\ m.storage = o.storage /\ m.field = o.field /\ m.verify = o.verify
  BY <1>3 DEF Old
<1>5. Jobs09(m) = Jobs09(o)
  BY <1>4 DEF Jobs09
<1> QED BY <1>1, <1>2, <1>3, <1>5

LEMMA ScheduleStays ==
  ASSUME MigrateAssumption, FALSE \notin Seeded, \A f \in Fields : FieldValid(f),
         KeptInv, ScheduleInv, MigrateNext
  PROVE  ScheduleInv'
<1> USE DEF ScheduleInv, diskVars, mountVars, Keeps
<1>1. CASE StartProcess     BY <1>1 DEF StartProcess
<1>2. CASE LoadFile
  <2>1. CASE file.v = "0.9" /\ file.conf.valid
    <3>1. Converted(file.conf).key /\ Keeps(Converted(file.conf))
      BY <2>1, ConversionKeepsJobs DEF Converted, Old, MigrateAssumption
    <3>2. cfg' = Converted(file.conf) /\ err' = FALSE /\ doing' = "migrate" /\ pc' = "backup"
      BY <1>2, <2>1 DEF LoadFile
    <3> QED BY <1>2, <2>1, <3>1, <3>2 DEF LoadFile
  <2>2. CASE file.v = "0.9" /\ ~file.conf.valid
    <3>1. NoRoutes(file.conf.seeded).key
      BY <2>2 DEF NoRoutes, Old, MigrateAssumption
    <3>2. cfg' = NoRoutes(file.conf.seeded) /\ err' = TRUE /\ doing' = "refuse" /\ pc' = "backup"
      BY <1>2, <2>2 DEF LoadFile, Told
    <3> QED BY <1>2, <2>2, <3>1, <3>2 DEF LoadFile
  <2>3. CASE file.v = "1.0"
    BY <1>2, <2>3 DEF LoadFile
  <2>4. CASE file.v = "torn"
    BY <1>2, <2>4 DEF LoadFile
  <2> QED BY <2>1, <2>2, <2>3, <2>4
<1>3. CASE WriteBackup      BY <1>3 DEF WriteBackup, AfterBackup
<1>4. CASE Copy             BY <1>4 DEF Copy, AfterBackup
<1>5. CASE WriteTmp         BY <1>5 DEF WriteTmp, AfterSave
<1>6. CASE RenameTmp        BY <1>6, Files DEF RenameTmp, AfterSave
<1>7. CASE Truncate         BY <1>7, Files DEF Truncate, AfterSave
<1>8. CASE Fill
  <2>1. pc = "fill" /\ pc' \in {"seed", "loaded", "run"} /\ UNCHANGED <<orig, doing, cfg, err, edited>>
    BY <1>8 DEF Fill, AfterSave
  <2>2. CASE file' = V10(cfg) /\ UNCHANGED broken
    <3>1. file'.v = "1.0" /\ file'.conf = cfg
      BY <2>2, Files
    <3> QED BY <2>1, <2>2, <3>1
  <2>3. CASE UNCHANGED file /\ broken' = TRUE
    BY <2>1, <2>3
  <2> QED BY <1>8, <2>2, <2>3 DEF Fill
<1>9. CASE Seed             BY <1>9 DEF Seed
<1>10. CASE Loaded          BY <1>10 DEF Loaded
<1>11. CASE Crash           BY <1>11 DEF Crash
<1>12. CASE Save            BY <1>12 DEF Save
<1>13. CASE Mend
  <2>1. PICK o \in Old : o = file.conf /\ file = V09(o)
    BY <1>13 DEF Mend
  <2>2. file' = [V09(o) EXCEPT !.conf.valid = TRUE]
    BY <1>13, <2>1 DEF Mend
  <2>3. PICK m : m = [o EXCEPT !.valid = TRUE]
    OBVIOUS
  <2>4. file' = V09(m) /\ m \in Old /\ Jobs09(m) = Jobs09(o)
    BY <2>2, <2>3, MendedFile
  <2>5. file'.v = "0.9" /\ file'.conf = m
    BY <2>4, Files
  <2> QED BY <1>13, <2>1, <2>4, <2>5 DEF Mend
<1>14. CASE PutBack
  <2>1. bak = V09(orig)
    BY <1>14, Files DEF PutBack, KeptInv
  <2>2. file' = V09(orig) /\ file'.v = "0.9" /\ file'.conf = orig
    BY <1>14, <2>1, Files DEF PutBack
  <2> QED BY <1>14, <2>2 DEF PutBack
<1> QED BY <1>1, <1>2, <1>3, <1>4, <1>5, <1>6, <1>7, <1>8, <1>9, <1>10, <1>11, <1>12, <1>13, <1>14
        DEF MigrateNext

\* _migrate_0_9, parse_cron and _arm_route: the converted configuration fires the jobs of the
\* 0.9 one on the same days, in the process that converts it and in every later one, until the
\* user saves something else or an overwriting in place breaks off; one that cannot be
\* converted is said to be so in every process that runs without it.  It is so for any crons
\* that validate_cron accepts, and a file with a secret_key of its own.
THEOREM TheScheduleIsKept ==
  ASSUME FALSE \notin Seeded, \A f \in Fields : FieldValid(f)
  PROVE  ConfiguringSpec => []ScheduleIsKept
<1> DEFINE Inv == IF part = "migrate" THEN ScheduleInv ELSE pc = "down"
<1>1. ConfiguringInit => Inv
  <2> SUFFICES ASSUME ConfiguringInit PROVE Inv
    OBVIOUS
  <2>1. CASE part = "migrate" /\ MigrateInit
    <3>1. file = V09(orig) /\ file.v = "0.9" /\ file.conf = orig /\ pc = "down"
          /\ orig \in Old /\ err = FALSE /\ edited = FALSE /\ broken = FALSE
      BY <2>1, Files DEF MigrateInit
    <3> QED BY <2>1, <3>1 DEF ScheduleInv
  <2>2. CASE part # "migrate" /\ MigrateRest
    BY <2>2 DEF MigrateRest
  <2> QED BY <2>1, <2>2 DEF ConfiguringInit
<1>2. KeptInv /\ Inv /\ [ConfiguringNext]_<<vars, wizardVars, migrateVars, part>> => Inv'
  <2> SUFFICES ASSUME KeptInv, Inv, [ConfiguringNext]_<<vars, wizardVars, migrateVars, part>>
               PROVE  Inv'
    OBVIOUS
  <2>1. CASE UNCHANGED <<migrateVars, part>>
    BY <2>1 DEF migrateVars, ScheduleInv, Keeps
  <2>2. CASE MigrateNext /\ part = "migrate" /\ UNCHANGED part
    BY <2>2, ScheduleStays, MigrateAssumption
  <2> QED BY <2>1, <2>2 DEF ConfiguringNext
<1>3. Inv => ScheduleIsKept
  BY DEF ScheduleIsKept, ScheduleInv, Keeps
<1> QED BY <1>1, <1>2, <1>3, KeptInvariant, PTL DEF ConfiguringSpec

-----------------------------------------------------------------------------
(***************************************************************************)
(* Saving the settings.                                                    *)
(***************************************************************************)
Ids == DevId \union {"d1", "d2"}
Secrets == [of : Ids \union {"bot", "url", "mask", "empty", "absent"}, n : Nat]
Devices == [id : Ids, secret : Secrets]
Configurations == [devs : Seq(Devices), bot : Secrets, urls : Seq(Secrets), key : Nat,
                   user : Nat, hash : Nat]
Tabs == [phase : Phases, form : Configurations, merged : Configurations, overtaken : BOOLEAN]

\* Each device is there once.
OneEach(ds) == \A i, j \in 1 .. Len(ds) : ds[i].id = ds[j].id => i = j

\* A secret of the store belongs where it is; one of a form may also be a sign.
OwnedDevs(ds) ==
  OneEach(ds) /\ \A i \in 1 .. Len(ds) : ds[i].secret = Empty \/ ds[i].secret.of = ds[i].id
Owned(c) ==
  /\ OwnedDevs(c.devs) /\ (c.bot = Empty \/ c.bot.of = "bot")
  /\ \A i \in 1 .. Len(c.urls) : c.urls[i].of = "url"
FormDevs(ds) ==
  OneEach(ds) /\ \A i \in 1 .. Len(ds) : ds[i].secret \in Signs \/ ds[i].secret.of = ds[i].id
FormOK(f) ==
  /\ FormDevs(f.devs) /\ (f.bot \in Signs \/ f.bot.of = "bot")
  /\ \A i \in 1 .. Len(f.urls) : f.urls[i] = Mask \/ f.urls[i].of = "url"

LEMMA SecretsAre ==
  /\ Mask \in Secrets /\ Empty \in Secrets /\ Absent \in Secrets
  /\ Mask.of = "mask" /\ Empty.of = "empty" /\ Absent.of = "absent"
  /\ Mask # Empty /\ Mask # Absent /\ Empty # Absent
  /\ Mask \in Signs /\ Empty \in Signs /\ Absent \in Signs
  /\ \A of \in Ids \union {"bot", "url"}, n \in Nat : Typed(of, n) \in Secrets /\ Typed(of, n).of = of
BY DEF Mask, Empty, Absent, Typed, Secrets, Signs

LEMMA ListIs ==
  ASSUME NEW S, NEW n \in Nat, NEW f \in [1 .. n -> S]
  PROVE  f \in Seq(S) /\ Len(f) = n /\ DOMAIN f = 1 .. n
<1>1. f \in Seq(S)
  BY SeqDef
<1>2. DOMAIN f = 1 .. Len(f) /\ Len(f) \in Nat /\ DOMAIN f = 1 .. n
  BY <1>1, LenProperties
<1>3. Len(f) = n
  BY <1>2
<1> QED BY <1>1, <1>2, <1>3

\* What is in a configuration, and in one with another list, or another account and key.
LEMMA ConfigurationIs ==
  ASSUME NEW c \in Configurations
  PROVE  /\ c.devs \in Seq(Devices) /\ c.bot \in Secrets /\ c.urls \in Seq(Secrets)
         /\ c.key \in Nat /\ c.user \in Nat /\ c.hash \in Nat
         /\ Len(c.devs) \in Nat /\ DOMAIN c.devs = 1 .. Len(c.devs)
         /\ Len(c.urls) \in Nat /\ DOMAIN c.urls = 1 .. Len(c.urls)
         /\ \A i \in 1 .. Len(c.devs) : c.devs[i] \in Devices
         /\ \A i \in 1 .. Len(c.urls) : c.urls[i] \in Secrets
<1>1. /\ c.devs \in Seq(Devices) /\ c.bot \in Secrets /\ c.urls \in Seq(Secrets)
      /\ c.key \in Nat /\ c.user \in Nat /\ c.hash \in Nat
  BY DEF Configurations
<1>2. Len(c.devs) \in Nat /\ DOMAIN c.devs = 1 .. Len(c.devs)
      /\ Len(c.urls) \in Nat /\ DOMAIN c.urls = 1 .. Len(c.urls)
  BY <1>1, LenProperties
<1> QED BY <1>1, <1>2, ElementOfSeq

Listed(c, ds, b, us) == [c EXCEPT !.devs = ds, !.bot = b, !.urls = us]
Managed(c, k, u, h) == [c EXCEPT !.key = k, !.hash = h, !.user = u]
Secured(d, s) == [d EXCEPT !.secret = s]

LEMMA WithLists ==
  ASSUME NEW c \in Configurations, NEW ds \in Seq(Devices), NEW b \in Secrets, NEW us \in Seq(Secrets),
         NEW m, m = Listed(c, ds, b, us)
  PROVE  /\ m \in Configurations /\ m.devs = ds /\ m.bot = b /\ m.urls = us
         /\ m.key = c.key /\ m.user = c.user /\ m.hash = c.hash
BY DEF Configurations, Listed

LEMMA WithAccount ==
  ASSUME NEW c \in Configurations, NEW k \in Nat, NEW u \in Nat, NEW h \in Nat
  PROVE  /\ Managed(c, k, u, h) \in Configurations /\ Managed(c, k, u, h).devs = c.devs
         /\ Managed(c, k, u, h).bot = c.bot /\ Managed(c, k, u, h).urls = c.urls
         /\ Managed(c, k, u, h).key = k /\ Managed(c, k, u, h).user = u
         /\ Managed(c, k, u, h).hash = h
BY DEF Configurations, Managed

LEMMA DeviceWith ==
  ASSUME NEW d \in Devices, NEW s \in Secrets, NEW e, e = Secured(d, s)
  PROVE  e \in Devices /\ e.id = d.id /\ e.secret = s
BY DEF Devices, Secured

\* redact: what a form starts as.
LEMMA RedactedIs ==
  ASSUME NEW c \in Configurations, Owned(c)
  PROVE  Redacted(c) \in Configurations /\ FormOK(Redacted(c))
<1>1. /\ c.devs \in Seq(Devices) /\ c.bot \in Secrets /\ c.urls \in Seq(Secrets)
      /\ Len(c.devs) \in Nat /\ DOMAIN c.devs = 1 .. Len(c.devs)
      /\ Len(c.urls) \in Nat /\ DOMAIN c.urls = 1 .. Len(c.urls)
      /\ \A i \in 1 .. Len(c.devs) : c.devs[i] \in Devices
      /\ \A i \in 1 .. Len(c.urls) : c.urls[i] \in Secrets
  BY ConfigurationIs
<1>2. \A s : Masked(s) \in Secrets /\ Masked(s) \in Signs /\ (s # Empty => Masked(s) = Mask)
  BY SecretsAre DEF Masked
<1>3. PICK ds : ds = [i \in DOMAIN c.devs |-> [c.devs[i] EXCEPT !.secret = Masked(@)]]
  OBVIOUS
<1>4. PICK us : us = [i \in DOMAIN c.urls |-> Masked(c.urls[i])]
  OBVIOUS
<1>5. \A i \in 1 .. Len(c.devs) : ds[i] \in Devices /\ ds[i].id = c.devs[i].id
                                  /\ ds[i].secret = Masked(c.devs[i].secret)
  <2> SUFFICES ASSUME NEW i \in 1 .. Len(c.devs)
               PROVE  ds[i] \in Devices /\ ds[i].id = c.devs[i].id
                      /\ ds[i].secret = Masked(c.devs[i].secret)
    OBVIOUS
  <2>1. ds[i] = Secured(c.devs[i], Masked(c.devs[i].secret))
    BY <1>1, <1>3 DEF Secured
  <2> QED BY <1>1, <1>2, <2>1, DeviceWith
<1>6. ds \in Seq(Devices) /\ Len(ds) = Len(c.devs)
  <2>1. ds \in [1 .. Len(c.devs) -> Devices]
    BY <1>1, <1>3, <1>5
  <2> QED BY <1>1, <2>1, ListIs
<1>7. us \in Seq(Secrets) /\ Len(us) = Len(c.urls) /\ \A i \in 1 .. Len(us) : us[i] = Mask
  <2>1. us \in [1 .. Len(c.urls) -> Secrets]
    BY <1>1, <1>2, <1>4
  <2>2. us \in Seq(Secrets) /\ Len(us) = Len(c.urls)
    BY <1>1, <2>1, ListIs
  <2>3. \A i \in 1 .. Len(c.urls) : c.urls[i] # Empty
    BY SecretsAre DEF Owned
  <2> QED BY <1>1, <1>2, <1>4, <2>2, <2>3
<1>8. Redacted(c) = Listed(c, ds, Masked(c.bot), us)
  BY <1>3, <1>4 DEF Redacted, Listed
<1>9. /\ Redacted(c) \in Configurations /\ Redacted(c).devs = ds /\ Redacted(c).bot = Masked(c.bot)
      /\ Redacted(c).urls = us
  BY <1>2, <1>6, <1>7, <1>8, WithLists
<1>10. FormDevs(ds)
  BY <1>2, <1>5, <1>6 DEF FormDevs, OneEach, Owned, OwnedDevs
<1> QED BY <1>2, <1>7, <1>9, <1>10 DEF FormOK

\* What a user makes of a form is a form.
LEMMA FormWith ==
  ASSUME NEW f \in Configurations, FormOK(f), NEW ds \in Seq(Devices), FormDevs(ds),
         NEW b \in Secrets, b \in Signs \/ b.of = "bot",
         NEW us \in Seq(Secrets), \A i \in 1 .. Len(us) : us[i] = Mask \/ us[i].of = "url",
         NEW g, g = Listed(f, ds, b, us)
  PROVE  g \in Configurations /\ FormOK(g)
<1>1. g \in Configurations /\ g.devs = ds /\ g.bot = b /\ g.urls = us
  BY WithLists
<1> QED BY <1>1 DEF FormOK

LEMMA FormDeviceWith ==
  ASSUME NEW f \in Configurations, FormOK(f), NEW i \in 1 .. Len(f.devs), NEW d \in Devices,
         d.secret \in Signs \/ d.secret.of = d.id,
         \A j \in 1 .. Len(f.devs) : j # i => f.devs[j].id # d.id,
         NEW g, g = [f EXCEPT !.devs[i] = d]
  PROVE  g \in Configurations /\ FormOK(g)
<1>1. /\ f.devs \in Seq(Devices) /\ f.bot \in Secrets /\ f.urls \in Seq(Secrets)
  BY ConfigurationIs
<1>2. PICK ds : ds = [f.devs EXCEPT ![i] = d]
  OBVIOUS
<1>3. ds \in Seq(Devices) /\ Len(ds) = Len(f.devs)
      /\ \A j \in 1 .. Len(f.devs) : ds[j] = IF j = i THEN d ELSE f.devs[j]
  BY <1>1, <1>2, ExceptSeq
<1>4. FormDevs(ds)
  BY <1>3 DEF FormOK, FormDevs, OneEach
<1>5. g = Listed(f, ds, f.bot, f.urls)
  BY <1>2 DEF Listed, Configurations
<1>6. /\ f.bot \in Signs \/ f.bot.of = "bot"
      /\ \A j \in 1 .. Len(f.urls) : f.urls[j] = Mask \/ f.urls[j].of = "url"
  BY DEF FormOK
<1> QED BY <1>1, <1>3, <1>4, <1>5, <1>6, FormWith

LEMMA FormsAre ==
  ASSUME NEW f \in Configurations, FormOK(f), NEW n \in Nat, NEW g \in Forms(f, n)
  PROVE  g \in Configurations /\ FormOK(g)
<1>1. /\ f.devs \in Seq(Devices) /\ f.bot \in Secrets /\ f.urls \in Seq(Secrets)
      /\ Len(f.devs) \in Nat /\ DOMAIN f.devs = 1 .. Len(f.devs)
      /\ Len(f.urls) \in Nat /\ DOMAIN f.urls = 1 .. Len(f.urls)
      /\ \A i \in 1 .. Len(f.devs) : f.devs[i] \in Devices
  BY ConfigurationIs
<1>2. /\ \A i, j \in 1 .. Len(f.devs) : f.devs[i].id = f.devs[j].id => i = j
      /\ \A i \in 1 .. Len(f.devs) : f.devs[i].secret \in Signs \/ f.devs[i].secret.of = f.devs[i].id
  BY DEF FormOK, FormDevs, OneEach
<1>3. ASSUME NEW ds \in Seq(Devices), FormDevs(ds), g = [f EXCEPT !.devs = ds]
      PROVE  g \in Configurations /\ FormOK(g)
  <2>1. g = Listed(f, ds, f.bot, f.urls)
    BY <1>3 DEF Listed, Configurations
  <2>2. /\ f.bot \in Signs \/ f.bot.of = "bot"
        /\ \A j \in 1 .. Len(f.urls) : f.urls[j] = Mask \/ f.urls[j].of = "url"
    BY DEF FormOK
  <2>3. f.bot \in Secrets /\ f.urls \in Seq(Secrets)
    BY <1>1
  <2> QED BY <1>3, <2>1, <2>2, <2>3, FormWith
<1>4. CASE g = f
  BY <1>4
<1>5. CASE g = [f EXCEPT !.devs = Reverse(f.devs)]
  <2>1. PICK ds : ds = Reverse(f.devs)
    OBVIOUS
  <2>2. ds = [i \in 1 .. Len(f.devs) |-> f.devs[(Len(f.devs) - i) + 1]]
    BY <2>1 DEF Reverse
  <2>3. \A i \in 1 .. Len(f.devs) : (Len(f.devs) - i) + 1 \in 1 .. Len(f.devs)
    BY <1>1
  <2>4. ds \in [1 .. Len(f.devs) -> Devices]
    BY <1>1, <2>2, <2>3
  <2>5. ds \in Seq(Devices) /\ Len(ds) = Len(f.devs)
    BY <1>1, <2>4, ListIs
  <2>6. FormDevs(ds)
    BY <1>1, <1>2, <2>2, <2>3, <2>5 DEF FormDevs, OneEach
  <2> QED BY <1>3, <1>5, <2>1, <2>5, <2>6
<1>6. CASE g = [f EXCEPT !.devs = IF f.devs = <<>> THEN f.devs ELSE Tail(f.devs)]
  <2>1. CASE f.devs = <<>>
    <3>1. FormDevs(f.devs)
      BY DEF FormOK
    <3> QED BY <1>1, <1>3, <1>6, <2>1, <3>1
  <2>2. CASE f.devs # <<>>
    <3>1. /\ Tail(f.devs) \in Seq(Devices) /\ Len(Tail(f.devs)) = Len(f.devs) - 1
          /\ \A i \in 1 .. Len(Tail(f.devs)) : Tail(f.devs)[i] = f.devs[i + 1]
      BY <1>1, <2>2, HeadTailProperties
    <3>2. FormDevs(Tail(f.devs))
      BY <1>1, <1>2, <3>1 DEF FormDevs, OneEach
    <3> QED BY <1>3, <1>6, <2>2, <3>1, <3>2
  <2> QED BY <2>1, <2>2
<1>7. ASSUME NEW i \in DOMAIN f.devs,
             NEW s \in {Empty, Absent, Typed(f.devs[i].id, n)}, g = [f EXCEPT !.devs[i].secret = s]
      PROVE  g \in Configurations /\ FormOK(g)
  <2>1. PICK d : d = Secured(f.devs[i], s)
    OBVIOUS
  <2>2. f.devs[i] \in Devices /\ f.devs[i].id \in Ids /\ i \in 1 .. Len(f.devs)
    BY <1>1, <1>7 DEF Devices
  <2>3. s \in Secrets /\ (s \in Signs \/ s.of = f.devs[i].id)
    BY <1>7, <2>2, SecretsAre
  <2>4. d \in Devices /\ d.id = f.devs[i].id /\ d.secret = s
    BY <2>1, <2>2, <2>3, DeviceWith
  <2>5. g = [f EXCEPT !.devs[i] = d]
    BY <1>7, <2>1 DEF Secured
  <2> QED BY <1>2, <2>2, <2>3, <2>4, <2>5, FormDeviceWith
<1>8. ASSUME NEW i \in DOMAIN f.devs, NEW id \in DevId \ {f.devs[j].id : j \in DOMAIN f.devs},
             g = [f EXCEPT !.devs[i] = Renamed(f.devs[i], id)]
      PROVE  g \in Configurations /\ FormOK(g)
  <2>1. PICK d : d = Renamed(f.devs[i], id)
    OBVIOUS
  <2>2. f.devs[i] \in Devices /\ i \in 1 .. Len(f.devs) /\ f.devs[i].secret \in Secrets
        /\ f.devs[i].secret.n \in Nat
    BY <1>1, <1>8 DEF Devices, Secrets
  <2>3. d.id = id /\ d \in Devices /\ (d.secret \in Signs \/ d.secret.of = id)
    BY <2>1, <2>2, SecretsAre DEF Renamed, Devices, Ids
  <2>4. \A j \in 1 .. Len(f.devs) : f.devs[j].id # id
    BY <1>1, <1>8
  <2> QED BY <1>8, <2>1, <2>2, <2>3, <2>4, FormDeviceWith
<1>9. ASSUME NEW s \in {Empty, Absent, Typed("bot", n)}, g = [f EXCEPT !.bot = s]
      PROVE  g \in Configurations /\ FormOK(g)
  <2>1. s \in Secrets /\ (s \in Signs \/ s.of = "bot")
    BY <1>9, SecretsAre
  <2>2. g = Listed(f, f.devs, s, f.urls)
    BY <1>9 DEF Listed, Configurations
  <2> QED BY <1>1, <2>1, <2>2, FormWith DEF FormOK
<1>10. ASSUME NEW u \in {<<>>, <<Typed("url", n)>>, Append(f.urls, Typed("url", n))},
              g = [f EXCEPT !.urls = u]
       PROVE  g \in Configurations /\ FormOK(g)
  <2>1. PICK x : x = Typed("url", n)
    OBVIOUS
  <2>2. x \in Secrets /\ x.of = "url"
    BY <2>1, SecretsAre
  <2>3. \A i \in 1 .. Len(f.urls) : f.urls[i] = Mask \/ f.urls[i].of = "url"
    BY DEF FormOK
  <2>4. u \in Seq(Secrets) /\ \A i \in 1 .. Len(u) : u[i] = Mask \/ u[i].of = "url"
    <3>1. CASE u = <<>>
      BY <3>1
    <3>2. CASE u = <<x>>
      BY <2>2, <3>2
    <3>3. CASE u = Append(f.urls, x)
      BY <1>1, <2>2, <2>3, <3>3
    <3> QED BY <1>10, <2>1, <3>1, <3>2, <3>3
  <2>5. g = Listed(f, f.devs, f.bot, u)
    BY <1>10 DEF Listed, Configurations
  <2> QED BY <1>1, <2>4, <2>5, FormWith DEF FormOK
<1> QED BY <1>4, <1>5, <1>6, <1>7, <1>8, <1>9, <1>10 DEF Forms

\* restore_secrets on one device: its secret is its own, and where it is not the stored one the
\* form has it.
LEMMA RestoredIs ==
  ASSUME NEW dev \in Devices, dev.secret \in Signs \/ dev.secret.of = dev.id,
         NEW c \in Configurations, Owned(c), NEW i, NEW e \in RestoreDevice(dev, i, c)
  PROVE  /\ e \in Devices /\ e.id = dev.id /\ (e.secret = Empty \/ e.secret.of = e.id)
         /\ \A k \in 1 .. Len(c.devs) :
              c.devs[k].id = e.id /\ c.devs[k].secret # e.secret =>
                e.secret \notin {Mask, Absent} /\ e = dev
<1>1. DOMAIN c.devs = 1 .. Len(c.devs) /\ \A k \in 1 .. Len(c.devs) : c.devs[k] \in Devices
  BY ConfigurationIs
<1>2. PICK stored : stored = {d.secret : d \in Match(dev, i, c)}
  OBVIOUS
<1>3. PICK s \in Restore(dev.secret, stored) : e = Secured(dev, s)
  BY <1>2 DEF RestoreDevice, Secured
<1>4. \A x \in stored : \E k \in 1 .. Len(c.devs) : c.devs[k].id = dev.id /\ x = c.devs[k].secret
  BY <1>1, <1>2 DEF Match, ToSet
<1>5. \A k \in 1 .. Len(c.devs) : c.devs[k].id = dev.id => c.devs[k].secret \in stored
  BY <1>1, <1>2 DEF Match, ToSet
<1>6. \A k \in 1 .. Len(c.devs) : /\ c.devs[k].secret = Empty \/ c.devs[k].secret.of = c.devs[k].id
                                  /\ c.devs[k].secret \in Secrets
  BY <1>1 DEF Owned, OwnedDevs, Devices
<1>7. \A k, l \in 1 .. Len(c.devs) : c.devs[k].id = c.devs[l].id => k = l
  BY DEF Owned, OwnedDevs, OneEach
<1>8. dev.secret \in Secrets
  BY DEF Devices
<1>9. CASE s \in stored
  <2>1. PICK k \in 1 .. Len(c.devs) : c.devs[k].id = dev.id /\ s = c.devs[k].secret
    BY <1>4, <1>9
  <2>2. e \in Devices /\ e.id = dev.id /\ e.secret = s
    BY <1>3, <1>6, <2>1, DeviceWith
  <2> QED BY <1>6, <1>7, <2>1, <2>2
<1>10. CASE s = Empty /\ stored = {}
  <2>1. e \in Devices /\ e.id = dev.id /\ e.secret = s
    BY <1>3, <1>10, SecretsAre, DeviceWith
  <2> QED BY <1>5, <1>10, <2>1
<1>11. CASE s = dev.secret /\ s \notin {Mask, Absent}
  <2>1. e = dev
    BY <1>3, <1>11 DEF Secured, Devices
  <2>2. s = Empty \/ s.of = dev.id
    BY <1>11 DEF Signs
  <2> QED BY <1>11, <2>1, <2>2
<1> QED BY <1>3, <1>9, <1>10, <1>11 DEF Restore, Unmask

\* What a PUT has merged says of the store what its form says: FormsSayWhatTheyChange, before
\* the store is replaced.
Explicit(s) == s \notin {Mask, Absent}
Says(f, m, c) ==
  /\ \A k \in 1 .. Len(c.devs), j \in 1 .. Len(m.devs) :
       c.devs[k].id = m.devs[j].id /\ c.devs[k].secret # m.devs[j].secret =>
         Explicit(m.devs[j].secret) /\ m.devs[j] = f.devs[j]
  /\ Len(m.devs) = Len(f.devs) /\ \A j \in 1 .. Len(m.devs) : m.devs[j].id = f.devs[j].id
  /\ m.bot # c.bot => Explicit(f.bot)
  /\ m.urls # c.urls => Mask \notin ToSet(f.urls)

LEMMA MergedAre ==
  ASSUME NEW f, NEW c
  PROVE  Merged(f, c) = {Listed(f, ds, b, u) :
                          ds \in RestoreDevices(f.devs, c), b \in RestoreBot(f.bot, c),
                          u \in RestoreUrls(f.urls, c)}
BY DEF Merged, Listed

LEMMA MergedIs ==
  ASSUME NEW f \in Configurations, FormOK(f), NEW c \in Configurations, Owned(c), NEW m \in Merged(f, c)
  PROVE  m \in Configurations /\ Owned(m) /\ Says(f, m, c)
<1>1. /\ f.devs \in Seq(Devices) /\ f.bot \in Secrets /\ f.urls \in Seq(Secrets)
      /\ Len(f.devs) \in Nat /\ DOMAIN f.devs = 1 .. Len(f.devs)
      /\ Len(f.urls) \in Nat /\ DOMAIN f.urls = 1 .. Len(f.urls)
      /\ \A i \in 1 .. Len(f.devs) : f.devs[i] \in Devices
      /\ c.bot \in Secrets /\ c.urls \in Seq(Secrets)
  BY ConfigurationIs
<1>2. PICK ds, b, u :
        /\ b \in RestoreBot(f.bot, c) /\ u \in RestoreUrls(f.urls, c)
        /\ \A i \in DOMAIN f.devs : RestoreDevice(f.devs[i], i, c) # {}
        /\ ds = [i \in DOMAIN f.devs |-> CHOOSE d \in RestoreDevice(f.devs[i], i, c) : TRUE]
        /\ m = Listed(f, ds, b, u)
  <2>1. \A ds \in RestoreDevices(f.devs, c) :
          /\ \A i \in DOMAIN f.devs : RestoreDevice(f.devs[i], i, c) # {}
          /\ ds = [i \in DOMAIN f.devs |-> CHOOSE d \in RestoreDevice(f.devs[i], i, c) : TRUE]
    BY DEF RestoreDevices
  <2>2. Merged(f, c) = {Listed(f, ds, b, u) :
                          ds \in RestoreDevices(f.devs, c), b \in RestoreBot(f.bot, c),
                          u \in RestoreUrls(f.urls, c)}
    BY MergedAre
  <2>3. PICK ds \in RestoreDevices(f.devs, c), b \in RestoreBot(f.bot, c),
             u \in RestoreUrls(f.urls, c) : m = Listed(f, ds, b, u)
    BY <2>2
  <2> QED BY <2>1, <2>3
<1>3. ASSUME NEW i \in 1 .. Len(f.devs)
      PROVE  /\ ds[i] \in Devices /\ ds[i].id = f.devs[i].id
             /\ ds[i].secret = Empty \/ ds[i].secret.of = ds[i].id
             /\ \A k \in 1 .. Len(c.devs) :
                  c.devs[k].id = ds[i].id /\ c.devs[k].secret # ds[i].secret =>
                    ds[i].secret \notin {Mask, Absent} /\ ds[i] = f.devs[i]
  <2>1. ds[i] \in RestoreDevice(f.devs[i], i, c)
    BY <1>1, <1>2
  <2>2. f.devs[i] \in Devices /\ (f.devs[i].secret \in Signs \/ f.devs[i].secret.of = f.devs[i].id)
    BY <1>1 DEF FormOK, FormDevs
  <2> QED BY <2>1, <2>2, RestoredIs
<1>4. ds \in Seq(Devices) /\ Len(ds) = Len(f.devs)
  <2>1. ds \in [1 .. Len(f.devs) -> Devices]
    BY <1>1, <1>2, <1>3
  <2> QED BY <1>1, <2>1, ListIs
<1>5. b \in Secrets /\ (b = Empty \/ b.of = "bot") /\ (b # c.bot => Explicit(f.bot))
  <2>1. b = c.bot \/ (b = f.bot /\ f.bot \notin {Mask, Absent})
    BY <1>2 DEF RestoreBot, Unmask
  <2>2. c.bot = Empty \/ c.bot.of = "bot"
    BY DEF Owned
  <2>3. f.bot \in Signs \/ f.bot.of = "bot"
    BY DEF FormOK
  <2> QED BY <1>1, <2>1, <2>2, <2>3 DEF Signs, Explicit
<1>6. u \in Seq(Secrets) /\ (\A i \in 1 .. Len(u) : u[i].of = "url")
      /\ (u # c.urls => Mask \notin ToSet(f.urls))
  <2>1. CASE f.urls = <<>>
    <3>1. u = <<>> /\ ToSet(f.urls) = {}
      BY <1>2, <2>1 DEF RestoreUrls, ToSet
    <3> QED BY <3>1
  <2>2. CASE u = c.urls
    BY <1>1, <2>2 DEF Owned
  <2>3. CASE u = f.urls /\ Mask \notin ToSet(f.urls)
    <3>1. \A i \in 1 .. Len(f.urls) : f.urls[i] # Mask
      BY <1>1, <2>3 DEF ToSet
    <3> QED BY <1>1, <2>3, <3>1 DEF FormOK
  <2> QED BY <1>2, <2>1, <2>2, <2>3 DEF RestoreUrls
<1>8. m \in Configurations /\ m.devs = ds /\ m.bot = b /\ m.urls = u
  BY <1>2, <1>4, <1>5, <1>6, WithLists
<1>9. OwnedDevs(ds)
  <2>1. \A i, j \in 1 .. Len(f.devs) : f.devs[i].id = f.devs[j].id => i = j
    BY DEF FormOK, FormDevs, OneEach
  <2> QED BY <1>3, <1>4, <2>1 DEF OwnedDevs, OneEach
<1>10. Owned(m)
  BY <1>5, <1>6, <1>8, <1>9 DEF Owned
<1>11. Says(f, m, c)
  BY <1>3, <1>4, <1>5, <1>6, <1>8 DEF Says, Explicit
<1> QED BY <1>8, <1>10, <1>11

-----------------------------------------------------------------------------
\* A tab with a form; one with a PUT under way has merged it, with the store as it is unless
\* somebody saved meanwhile.
TabOK(r, c) ==
  /\ FormOK(r.form)
  /\ r.phase \in {"enforce", "replace"} => Owned(r.merged)
  /\ r.phase \in {"enforce", "replace"} /\ ~r.overtaken => Says(r.form, r.merged, c)
  /\ r.phase = "replace" /\ ~r.overtaken =>
       r.merged.user = c.user /\ r.merged.hash = c.hash /\ r.merged.key = c.key

SettingsInv ==
  /\ store \in Configurations /\ Owned(store)
  /\ session \in [Tab -> Nat] /\ acts \in Nat
  /\ tab \in [Tab -> Tabs] /\ \A t \in Tab : TabOK(tab[t], store)

LEMMA TabIs ==
  ASSUME SettingsInv, NEW t \in Tab
  PROVE  /\ tab[t] \in Tabs /\ TabOK(tab[t], store) /\ tab[t].phase \in Phases
         /\ tab[t].form \in Configurations /\ tab[t].merged \in Configurations
         /\ tab[t].overtaken \in BOOLEAN /\ FormOK(tab[t].form)
BY DEF SettingsInv, Tabs, TabOK

\* Tabs, one of them changed, and the store as it was.
LEMMA TabGoesOn ==
  ASSUME SettingsInv, NEW t \in Tab, NEW r \in Tabs, TabOK(r, store),
         tab' = [tab EXCEPT ![t] = r], store' = store, session' \in [Tab -> Nat], acts' \in Nat
  PROVE  SettingsInv'
<1>1. tab' \in [Tab -> Tabs] /\ \A u \in Tab : tab'[u] = IF u = t THEN r ELSE tab[u]
  BY DEF SettingsInv
<1>2. \A u \in Tab : TabOK(tab'[u], store)
  BY <1>1 DEF SettingsInv
<1>3. PICK c : c = store
  OBVIOUS
<1>4. \A u \in Tab : TabOK(tab'[u], store')
  BY <1>2
<1> QED BY <1>1, <1>4 DEF SettingsInv

\* The store is changed: what a tab has merged no longer claims to say anything of it.
LEMMA StoreGoesOn ==
  ASSUME SettingsInv, NEW t \in Tab, NEW r \in Tabs, FormOK(r.form),
         r.phase \notin {"enforce", "replace"},
         NEW tabs, tabs = [tab EXCEPT ![t] = r], tab' = Overtake(tabs, t),
         NEW c \in Configurations, Owned(c), store' = c, session' \in [Tab -> Nat], acts' \in Nat
  PROVE  SettingsInv'
<1>1. \A u \in Tab : tabs[u] \in Tabs /\ (u = t => tabs[u] = r) /\ (u # t => tabs[u] = tab[u])
  BY DEF SettingsInv
<1>2. tab' = [u \in Tab |-> IF u # t /\ tabs[u].phase \in {"enforce", "replace"}
                             THEN [tabs[u] EXCEPT !.overtaken = TRUE] ELSE tabs[u]]
  BY DEF Overtake
<1>3. \A q \in Tabs : /\ [q EXCEPT !.overtaken = TRUE] \in Tabs
                      /\ [q EXCEPT !.overtaken = TRUE].form = q.form
                      /\ [q EXCEPT !.overtaken = TRUE].merged = q.merged
                      /\ [q EXCEPT !.overtaken = TRUE].phase = q.phase
                      /\ [q EXCEPT !.overtaken = TRUE].overtaken
  BY DEF Tabs
<1>4. ASSUME NEW u \in Tab
      PROVE  tab'[u] \in Tabs /\ TabOK(tab'[u], c)
  <2>1. CASE u = t
    <3>1. tab'[u] = r
      BY <1>1, <1>2, <2>1
    <3> QED BY <3>1 DEF TabOK
  <2>2. CASE u # t /\ tab[u].phase \in {"enforce", "replace"}
    <3>1. PICK q \in Tabs : q = tab[u]
      BY TabIs
    <3>2. tab'[u] = [q EXCEPT !.overtaken = TRUE]
      BY <1>1, <1>2, <2>2, <3>1
    <3>3. TabOK(q, store)
      BY <3>1, TabIs
    <3> QED BY <1>3, <2>2, <3>1, <3>2, <3>3 DEF TabOK
  <2>3. CASE u # t /\ tab[u].phase \notin {"enforce", "replace"}
    <3>1. tab'[u] = tab[u]
      BY <1>1, <1>2, <2>3
    <3>2. tab[u] \in Tabs /\ TabOK(tab[u], store)
      BY TabIs
    <3> QED BY <2>3, <3>1, <3>2 DEF TabOK
  <2> QED BY <2>1, <2>2, <2>3
<1>5. tab' \in [Tab -> Tabs]
  BY <1>2, <1>4
<1> QED BY <1>4, <1>5 DEF SettingsInv

\* A tab at another step, with what it holds.
TabAt(r, phase, form, merged, overtaken) ==
  [r EXCEPT !.phase = phase, !.form = form, !.merged = merged, !.overtaken = overtaken]

LEMMA TabWith ==
  ASSUME NEW q \in Tabs, NEW p \in Phases, NEW f \in Configurations, NEW m \in Configurations,
         NEW o \in BOOLEAN, NEW r, r = TabAt(q, p, f, m, o)
  PROVE  r \in Tabs /\ r.phase = p /\ r.form = f /\ r.merged = m /\ r.overtaken = o
BY DEF Tabs, TabAt

LEMMA NothingIs ==
  /\ Nothing \in Configurations /\ FormOK(Nothing)
  /\ Idle \in Tabs /\ Idle.phase = "idle" /\ Idle.form = Nothing /\ Idle.merged = Nothing
  /\ Idle.overtaken = FALSE
<1>1. <<>> \in Seq(Devices) /\ <<>> \in Seq(Secrets) /\ Len(<<>>) = 0
  OBVIOUS
<1>2. Nothing \in Configurations /\ Nothing.devs = <<>> /\ Nothing.urls = <<>> /\ Nothing.bot = Empty
  BY <1>1, SecretsAre DEF Nothing, Configurations
<1>3. FormOK(Nothing)
  BY <1>1, <1>2, SecretsAre DEF FormOK, FormDevs, OneEach
<1>4. Idle \in Tabs /\ Idle.phase = "idle" /\ Idle.form = Nothing /\ Idle.merged = Nothing
      /\ Idle.overtaken = FALSE
  BY <1>2 DEF Idle, Tabs, Phases
<1> QED BY <1>2, <1>3, <1>4

\* load
LEMMA LoadStep ==
  ASSUME SettingsInv, NEW t \in Tab, Load(t) PROVE SettingsInv'
<1>1. PICK f : f = Redacted(store)
  OBVIOUS
<1>2. f \in Configurations /\ FormOK(f)
  BY <1>1, RedactedIs DEF SettingsInv
<1>3. PICK r : r = TabAt(Idle, "form", f, Nothing, FALSE)
  OBVIOUS
<1>4. r \in Tabs /\ r.phase = "form" /\ r.form = f
  <2>1. "form" \in Phases
    BY DEF Phases
  <2>2. PICK no \in BOOLEAN : no = FALSE
    OBVIOUS
  <2>3. r = TabAt(Idle, "form", f, Nothing, no)
    BY <1>3, <2>2
  <2> QED BY <1>2, <2>1, <2>3, NothingIs, TabWith
<1>5. tab' = [tab EXCEPT ![t] = r]
  <2>1. r = [Idle EXCEPT !.phase = "form", !.form = f]
    BY <1>3, NothingIs DEF TabAt, Tabs
  <2> QED BY <1>1, <2>1 DEF Load
<1>6. TabOK(r, store)
  BY <1>2, <1>4 DEF TabOK
<1>7. store' = store /\ session' \in [Tab -> Nat] /\ acts' \in Nat
  BY DEF Load, SettingsInv
<1> QED BY <1>4, <1>5, <1>6, <1>7, TabGoesOn

\* A form is sent.
LEMMA SendStep ==
  ASSUME SettingsInv, NEW t \in Tab, Send(t) PROVE SettingsInv'
<1>1. /\ tab[t] \in Tabs /\ tab[t].form \in Configurations /\ tab[t].merged \in Configurations
      /\ tab[t].overtaken \in BOOLEAN /\ FormOK(tab[t].form) /\ acts \in Nat /\ acts + 1 \in Nat
  BY TabIs DEF SettingsInv
<1>2. PICK f \in Forms(tab[t].form, acts + 1) : tab' = [tab EXCEPT ![t].phase = "put", ![t].form = f]
  BY DEF Send
<1>3. f \in Configurations /\ FormOK(f)
  BY <1>1, FormsAre
<1>4. PICK r : r = TabAt(tab[t], "put", f, tab[t].merged, tab[t].overtaken)
  OBVIOUS
<1>5. r \in Tabs /\ r.phase = "put" /\ r.form = f
  <2>1. "put" \in Phases
    BY DEF Phases
  <2> QED BY <1>1, <1>3, <1>4, <2>1, TabWith
<1>6. tab' = [tab EXCEPT ![t] = r]
  <2>1. r = [tab[t] EXCEPT !.phase = "put", !.form = f]
    BY <1>1, <1>4 DEF TabAt, Tabs
  <2> QED BY <1>2, <2>1 DEF SettingsInv
<1>7. TabOK(r, store)
  BY <1>3, <1>5 DEF TabOK
<1>8. store' = store /\ session' \in [Tab -> Nat] /\ acts' \in Nat
  BY <1>1 DEF Send, SettingsInv
<1> QED BY <1>5, <1>6, <1>7, <1>8, TabGoesOn

\* PUT: what the form and the store make, or a refusal.
LEMMA PutStep ==
  ASSUME SettingsInv, NEW t \in Tab, Put(t) PROVE SettingsInv'
<1>1. /\ tab[t] \in Tabs /\ tab[t].form \in Configurations /\ tab[t].merged \in Configurations
      /\ tab[t].overtaken \in BOOLEAN /\ FormOK(tab[t].form)
  BY TabIs
<1>2. store' = store /\ session' \in [Tab -> Nat] /\ acts' \in Nat
      /\ store \in Configurations /\ Owned(store) /\ tab \in [Tab -> Tabs]
  BY DEF Put, SettingsInv
<1>3. CASE SignedIn(t) /\ Merged(tab[t].form, store) # {}
  <2>1. PICK m : m = CHOOSE x \in Merged(tab[t].form, store) : TRUE
    OBVIOUS
  <2>2. m \in Configurations /\ Owned(m) /\ Says(tab[t].form, m, store)
    <3>1. m \in Merged(tab[t].form, store)
      BY <1>3, <2>1
    <3> QED BY <1>1, <1>2, <3>1, MergedIs
  <2>3. PICK r : r = TabAt(tab[t], "enforce", tab[t].form, m, FALSE)
    OBVIOUS
  <2>4. r \in Tabs /\ r.phase = "enforce" /\ r.form = tab[t].form /\ r.merged = m
    <3>1. "enforce" \in Phases
      BY DEF Phases
    <3>2. PICK no \in BOOLEAN : no = FALSE
      OBVIOUS
    <3>3. r = TabAt(tab[t], "enforce", tab[t].form, m, no)
      BY <2>3, <3>2
    <3> QED BY <1>1, <2>2, <3>1, <3>3, TabWith
  <2>5. tab' = [tab EXCEPT ![t] = r]
    <3>1. r = [tab[t] EXCEPT !.phase = "enforce", !.overtaken = FALSE, !.merged = m]
      BY <1>1, <2>3 DEF TabAt, Tabs
    <3> QED BY <1>3, <2>1, <3>1 DEF Put
  <2>6. TabOK(r, store)
    BY <1>1, <2>2, <2>4 DEF TabOK
  <2> QED BY <1>2, <2>4, <2>5, <2>6, TabGoesOn
<1>4. CASE ~(SignedIn(t) /\ Merged(tab[t].form, store) # {})
  <2>1. PICK r : r = TabAt(tab[t], "form", tab[t].form, tab[t].merged, tab[t].overtaken)
    OBVIOUS
  <2>2. r \in Tabs /\ r.phase = "form" /\ r.form = tab[t].form
    <3>1. "form" \in Phases
      BY DEF Phases
    <3> QED BY <1>1, <2>1, <3>1, TabWith
  <2>3. tab' = [tab EXCEPT ![t] = r]
    <3>1. r = [tab[t] EXCEPT !.phase = "form"]
      BY <1>1, <2>1 DEF TabAt, Tabs
    <3> QED BY <1>4, <3>1 DEF Put
  <2>4. TabOK(r, store)
    BY <1>1, <2>2 DEF TabOK
  <2> QED BY <1>2, <2>2, <2>3, <2>4, TabGoesOn
<1> QED BY <1>3, <1>4

\* enforce_server_managed
LEMMA EnforceStep ==
  ASSUME SettingsInv, NEW t \in Tab, Enforce(t) PROVE SettingsInv'
<1>1. /\ tab[t] \in Tabs /\ tab[t].form \in Configurations /\ tab[t].merged \in Configurations
      /\ tab[t].overtaken \in BOOLEAN /\ TabOK(tab[t], store) /\ tab[t].phase = "enforce"
  BY TabIs DEF Enforce
<1>2. store' = store /\ session' \in [Tab -> Nat] /\ acts' \in Nat
      /\ store \in Configurations /\ tab \in [Tab -> Tabs]
  BY DEF Enforce, SettingsInv
<1>3. PICK m : m = Managed(tab[t].merged, store.key, store.user, store.hash)
  OBVIOUS
<1>4. /\ m \in Configurations /\ m.devs = tab[t].merged.devs /\ m.bot = tab[t].merged.bot
      /\ m.urls = tab[t].merged.urls /\ m.key = store.key /\ m.user = store.user
      /\ m.hash = store.hash
  <2>1. store.key \in Nat /\ store.user \in Nat /\ store.hash \in Nat
    BY <1>2, ConfigurationIs
  <2> QED BY <1>1, <1>3, <2>1 DEF Managed, Configurations
<1>5. PICK r : r = TabAt(tab[t], "replace", tab[t].form, m, tab[t].overtaken)
  OBVIOUS
<1>6. /\ r \in Tabs /\ r.phase = "replace" /\ r.form = tab[t].form /\ r.merged = m
      /\ r.overtaken = tab[t].overtaken
  <2>1. "replace" \in Phases
    BY DEF Phases
  <2> QED BY <1>1, <1>4, <1>5, <2>1, TabWith
<1>7. tab' = [tab EXCEPT ![t] = r]
  <2>1. r = [tab[t] EXCEPT !.phase = "replace", !.merged = m]
    BY <1>1, <1>5 DEF TabAt, Tabs
  <2>2. m = Enforced(tab[t].merged, store)
    BY <1>3 DEF Enforced, Managed
  <2> QED BY <1>2, <2>1, <2>2 DEF Enforce
<1>8. TabOK(r, store)
  <2>1. Owned(m)
    BY <1>1, <1>4 DEF TabOK, Owned
  <2>2. Says(tab[t].form, tab[t].merged, store) => Says(tab[t].form, m, store)
    BY <1>4 DEF Says
  <2> QED BY <1>1, <1>4, <1>6, <2>1, <2>2 DEF TabOK
<1> QED BY <1>2, <1>6, <1>7, <1>8, TabGoesOn

\* ConfigStore.replace, and the answer.
LEMMA ReplaceStep ==
  ASSUME SettingsInv, NEW t \in Tab, Replace(t) PROVE SettingsInv'
<1>1. tab[t].merged \in Configurations /\ Owned(tab[t].merged)
  BY TabIs DEF Replace, TabOK
<1>2. session' \in [Tab -> Nat] /\ acts' \in Nat
  BY DEF Replace, SettingsInv
<1>3. PICK c \in Configurations : c = tab[t].merged
  BY <1>1
<1>4. PICK f : f = Redacted(c)
  OBVIOUS
<1>5. f \in Configurations /\ FormOK(f)
  BY <1>1, <1>3, <1>4, RedactedIs
<1>6. PICK no \in BOOLEAN : no = FALSE
  OBVIOUS
<1>7. PICK r : r = TabAt(Idle, "form", f, Nothing, no)
  OBVIOUS
<1>8. r \in Tabs /\ r.phase = "form" /\ r.form = f
  <2>1. "form" \in Phases
    BY DEF Phases
  <2> QED BY <1>5, <1>7, <2>1, NothingIs, TabWith
<1>9. PICK tabs : tabs = [tab EXCEPT ![t] = r]
  OBVIOUS
<1>10. tab' = Overtake(tabs, t) /\ store' = c
  <2>1. r = [Idle EXCEPT !.phase = "form", !.form = f]
    BY <1>6, <1>7, NothingIs DEF TabAt, Tabs
  <2>2. tabs = [tab EXCEPT ![t] = [Idle EXCEPT !.phase = "form", !.form = Redacted(tab[t].merged)]]
    BY <1>3, <1>4, <1>9, <2>1
  <2> QED BY <1>3, <2>2 DEF Replace
<1> QED BY <1>1, <1>2, <1>3, <1>5, <1>8, <1>9, <1>10, StoreGoesOn

\* The store with another key, or another account.
LEMMA StillOwned ==
  ASSUME SettingsInv, NEW k \in Nat, NEW u \in Nat, NEW h \in Nat, NEW c, c = Managed(store, k, u, h)
  PROVE  c \in Configurations /\ Owned(c)
<1>1. /\ c \in Configurations /\ c.devs = store.devs /\ c.bot = store.bot /\ c.urls = store.urls
  <2>1. store \in Configurations
    BY DEF SettingsInv
  <2> QED BY <2>1 DEF Managed, Configurations
<1> QED BY <1>1 DEF SettingsInv, Owned

LEMMA RotateKeyStep ==
  ASSUME SettingsInv, NEW t \in Tab, RotateKey(t) PROVE SettingsInv'
<1>1. PICK key \in {0, acts + 1} : store' = [store EXCEPT !.key = key]
  BY DEF RotateKey
<1>2. /\ key \in Nat /\ store \in Configurations /\ acts' \in Nat /\ session' \in [Tab -> Nat]
      /\ tab \in [Tab -> Tabs]
  BY DEF RotateKey, SettingsInv
<1>3. store.user \in Nat /\ store.hash \in Nat
  BY <1>2, ConfigurationIs
<1>4. PICK c : c = Managed(store, key, store.user, store.hash)
  OBVIOUS
<1>5. c \in Configurations /\ Owned(c)
  BY <1>2, <1>3, <1>4, StillOwned
<1>6. store' = c
  BY <1>1, <1>2, <1>4 DEF Managed, Configurations
<1>7. PICK r : r = tab[t]
  OBVIOUS
<1>8. r \in Tabs /\ FormOK(r.form) /\ r.phase \notin {"enforce", "replace"}
  BY <1>7, TabIs DEF RotateKey
<1>9. PICK tabs : tabs = [tab EXCEPT ![t] = r]
  OBVIOUS
<1>10. tab' = Overtake(tabs, t)
  <2>1. tabs = tab
    BY <1>2, <1>7, <1>9
  <2> QED BY <2>1 DEF RotateKey
<1> QED BY <1>2, <1>5, <1>6, <1>8, <1>9, <1>10, StoreGoesOn

\* setup and update_account: what is asked for, and then the change.
LEMMA BeginStep ==
  ASSUME SettingsInv, NEW t \in Tab, BeginSetup(t) \/ BeginAccount(t) PROVE SettingsInv'
<1>1. PICK phase \in {"setup", "account"}, hash \in {0, acts + 2} :
        tab' = [tab EXCEPT ![t].phase = phase,
                           ![t].merged = [Nothing EXCEPT !.user = acts + 2, !.hash = hash]]
  BY DEF BeginSetup, BeginAccount
<1>2. /\ store' = store /\ acts' \in Nat /\ session' \in [Tab -> Nat] /\ acts + 2 \in Nat
      /\ hash \in Nat /\ tab \in [Tab -> Tabs]
  BY DEF BeginSetup, BeginAccount, SettingsInv
<1>3. /\ tab[t] \in Tabs /\ tab[t].form \in Configurations /\ tab[t].overtaken \in BOOLEAN
      /\ FormOK(tab[t].form)
  BY TabIs
<1>4. PICK m : m = Managed(Nothing, 0, acts + 2, hash)
  OBVIOUS
<1>5. m \in Configurations
  BY <1>2, <1>4, NothingIs, WithAccount
<1>6. m = [Nothing EXCEPT !.user = acts + 2, !.hash = hash]
  <2>1. Nothing.key = 0 /\ Nothing \in Configurations
    BY NothingIs DEF Nothing
  <2> QED BY <1>4, <2>1 DEF Managed, Configurations
<1>7. PICK r : r = TabAt(tab[t], phase, tab[t].form, m, tab[t].overtaken)
  OBVIOUS
<1>8. r \in Tabs /\ r.phase = phase /\ r.form = tab[t].form
  <2>1. phase \in Phases
    BY DEF Phases
  <2> QED BY <1>3, <1>5, <1>7, <2>1, TabWith
<1>9. tab' = [tab EXCEPT ![t] = r]
  <2>1. r = [tab[t] EXCEPT !.phase = phase, !.merged = m]
    BY <1>3, <1>7 DEF TabAt, Tabs
  <2> QED BY <1>1, <1>2, <1>6, <2>1
<1>10. TabOK(r, store)
  BY <1>1, <1>3, <1>8 DEF TabOK
<1> QED BY <1>2, <1>8, <1>9, <1>10, TabGoesOn

LEMMA UpdateAccountStep ==
  ASSUME SettingsInv, NEW t \in Tab, UpdateAccount(t) PROVE SettingsInv'
<1>1. /\ tab[t] \in Tabs /\ tab[t].form \in Configurations /\ tab[t].overtaken \in BOOLEAN
      /\ FormOK(tab[t].form) /\ tab[t].merged \in Configurations
  BY TabIs
<1>2. /\ store \in Configurations /\ acts' \in Nat /\ session' \in [Tab -> Nat]
      /\ tab \in [Tab -> Tabs]
  BY DEF UpdateAccount, SettingsInv
<1>3. PICK h : h = IF tab[t].merged.hash = 0 THEN store.hash ELSE tab[t].merged.hash
  OBVIOUS
<1>4. h \in Nat /\ store.key \in Nat /\ tab[t].merged.user \in Nat
  BY <1>1, <1>2, <1>3, ConfigurationIs
<1>5. PICK c : c = Managed(store, store.key, tab[t].merged.user, h)
  OBVIOUS
<1>6. c \in Configurations /\ Owned(c)
  BY <1>4, <1>5, StillOwned
<1>7. store' = c
  <2>1. store' = [store EXCEPT !.user = tab[t].merged.user, !.hash = h]
    BY <1>3 DEF UpdateAccount
  <2> QED BY <1>2, <1>5, <2>1 DEF Managed, Configurations
<1>8. PICK next : next = IF tab[t].phase = "setup" THEN "setup_session" ELSE "resession"
  OBVIOUS
<1>9. PICK r : r = TabAt(tab[t], next, tab[t].form, tab[t].merged, tab[t].overtaken)
  OBVIOUS
<1>10. r \in Tabs /\ r.phase \in {"setup_session", "resession"} /\ r.form = tab[t].form
  <2>1. next \in {"setup_session", "resession"} /\ next \in Phases
    BY <1>8 DEF Phases
  <2> QED BY <1>1, <1>9, <2>1, TabWith
<1>11. PICK tabs : tabs = [tab EXCEPT ![t] = r]
  OBVIOUS
<1>12. tab' = Overtake(tabs, t)
  <2>1. r = [tab[t] EXCEPT !.phase = next]
    BY <1>1, <1>9 DEF TabAt, Tabs
  <2>2. tabs = [tab EXCEPT ![t].phase = IF @ = "setup" THEN "setup_session" ELSE "resession"]
    BY <1>2, <1>8, <1>11, <2>1
  <2> QED BY <2>2 DEF UpdateAccount
<1> QED BY <1>1, <1>2, <1>6, <1>7, <1>10, <1>11, <1>12, StoreGoesOn

\* login_session
LEMMA SessionStep ==
  ASSUME SettingsInv, NEW t \in Tab, Resession(t) \/ Login(t) \/ Logout(t) PROVE SettingsInv'
<1>1. store.hash \in Nat /\ store' = store /\ SignsWith(t) \in Nat
  <2>1. store.hash \in Nat /\ tab[t].merged.hash \in Nat
    BY TabIs, ConfigurationIs DEF SettingsInv
  <2> QED BY <2>1 DEF SettingsInv, Resession, Login, Logout, SignsWith, RequestHash, StoredHash
<1>2. session' \in [Tab -> Nat] /\ acts' \in Nat
  BY <1>1 DEF SettingsInv, Resession, Login, Logout
<1>3. CASE Resession(t)
  <2>1. PICK r : r = Idle
    OBVIOUS
  <2>2. r \in Tabs /\ TabOK(r, store)
    BY <2>1, NothingIs DEF TabOK
  <2>3. tab' = [tab EXCEPT ![t] = r]
    BY <1>3, <2>1 DEF Resession
  <2> QED BY <1>1, <1>2, <2>2, <2>3, TabGoesOn
<1>4. CASE tab' = tab
  <2>1. PICK r : r = tab[t]
    OBVIOUS
  <2>2. r \in Tabs /\ TabOK(r, store)
    BY <2>1, TabIs
  <2>3. tab' = [tab EXCEPT ![t] = r]
    BY <1>4, <2>1 DEF SettingsInv
  <2> QED BY <1>1, <1>2, <2>2, <2>3, TabGoesOn
<1> QED BY <1>3, <1>4 DEF Login, Logout

LEMMA SettingsStart ==
  ASSUME NEW hash \in {0, 1}, store = Start(hash), session = [t \in Tab |-> hash],
         tab = [t \in Tab |-> Idle], acts = 0
  PROVE  SettingsInv
<1>1. PICK d, e, b, u : d = [id |-> "d1", secret |-> Typed("d1", 0)]
                        /\ e = [id |-> "d2", secret |-> Typed("d2", 0)]
                        /\ b = Typed("bot", 0) /\ u = Typed("url", 0)
  OBVIOUS
<1>2. /\ d \in Devices /\ e \in Devices /\ b \in Secrets /\ u \in Secrets
      /\ d.id = "d1" /\ d.secret.of = "d1" /\ e.id = "d2" /\ e.secret.of = "d2"
      /\ b.of = "bot" /\ u.of = "url"
  BY <1>1 DEF Typed, Devices, Secrets, Ids
<1>3. PICK ds, us : ds = <<d, e>> /\ us = <<u, u>>
  OBVIOUS
<1>4. ds \in Seq(Devices) /\ us \in Seq(Secrets) /\ Len(ds) = 2 /\ Len(us) = 2
      /\ ds[1] = d /\ ds[2] = e /\ us[1] = u /\ us[2] = u
  BY <1>2, <1>3
<1>5. store = [devs |-> ds, bot |-> b, urls |-> us, key |-> 0, user |-> hash, hash |-> hash]
  BY <1>1, <1>3 DEF Start
<1>6. store \in Configurations /\ store.devs = ds /\ store.bot = b /\ store.urls = us
  BY <1>2, <1>4, <1>5 DEF Configurations
<1>7. \A i \in 1 .. 2 : i = 1 \/ i = 2
  OBVIOUS
<1>8. Owned(store)
  <2>1. OneEach(ds)
    BY <1>2, <1>4, <1>7 DEF OneEach
  <2>2. \A i \in 1 .. Len(ds) : ds[i].secret.of = ds[i].id
    BY <1>2, <1>4, <1>7
  <2>3. \A i \in 1 .. Len(us) : us[i].of = "url"
    BY <1>2, <1>4, <1>7
  <2> QED BY <1>2, <1>6, <2>1, <2>2, <2>3 DEF Owned, OwnedDevs
<1>9. tab \in [Tab -> Tabs] /\ \A t \in Tab : TabOK(tab[t], store)
  BY NothingIs DEF TabOK
<1> QED BY <1>6, <1>8, <1>9 DEF SettingsInv

LEMMA SettingsStays ==
  ASSUME SettingsInv, NEW t \in Tab, TabNext(t) PROVE SettingsInv'
<1>1. CASE Load(t)          BY <1>1, LoadStep
<1>2. CASE Send(t)          BY <1>2, SendStep
<1>3. CASE Put(t)           BY <1>3, PutStep
<1>4. CASE Enforce(t)       BY <1>4, EnforceStep
<1>5. CASE Replace(t)       BY <1>5, ReplaceStep
<1>6. CASE RotateKey(t)     BY <1>6, RotateKeyStep
<1>7. CASE BeginSetup(t) \/ BeginAccount(t)            BY <1>7, BeginStep
<1>8. CASE UpdateAccount(t) BY <1>8, UpdateAccountStep
<1>9. CASE Resession(t) \/ Login(t) \/ Logout(t)       BY <1>9, SessionStep
<1> QED BY <1>1, <1>2, <1>3, <1>4, <1>5, <1>6, <1>7, <1>8, <1>9 DEF TabNext

LEMMA SettingsInvariant == ConfiguringSpec => []SettingsInv
<1>1. ConfiguringInit => SettingsInv
  <2>1. ConfiguringInit => \E hash \in {0, 1} :
          /\ store = Start(hash) /\ session = [t \in Tab |-> hash]
          /\ tab = [t \in Tab |-> Idle] /\ acts = 0
    BY DEF ConfiguringInit, Init, SettingsRest
  <2> QED BY <2>1, SettingsStart
<1>2. SettingsInv /\ [ConfiguringNext]_<<vars, wizardVars, migrateVars, part>> => SettingsInv'
  <2> SUFFICES ASSUME SettingsInv, [ConfiguringNext]_<<vars, wizardVars, migrateVars, part>>
               PROVE  SettingsInv'
    OBVIOUS
  <2>1. CASE UNCHANGED vars
    BY <2>1 DEF vars, SettingsInv
  <2>2. CASE Next
    BY <2>2, SettingsStays DEF Next
  <2> QED BY <2>1, <2>2 DEF ConfiguringNext
<1> QED BY <1>1, <1>2, PTL DEF ConfiguringSpec

\* restore_secrets and _keep_omitted_secrets: a device's secret in the store is empty or was typed
\* for that device, never a mask and never another's, in whatever order, with whatever ids and
\* however late the forms of the tabs come.
THEOREM EverySecretIsItsOwn == ConfiguringSpec => []SecretsAreTheirs
<1>1. SettingsInv => SecretsAreTheirs
  BY ConfigurationIs DEF SettingsInv, Owned, OwnedDevs, SecretsAreTheirs
<1> QED BY <1>1, SettingsInvariant, PTL

\* A tab's phase is changed by its own steps only, and a PUT that has merged by the store's
\* replacement only.
LEMMA PhasesAreTheirs ==
  ASSUME SettingsInv, NEW t \in Tab, NEW u \in Tab, TabNext(u), tab'[t].phase # tab[t].phase
  PROVE  /\ u = t
         /\ tab[t].phase = "replace" => Replace(t)
         /\ tab[t].phase = "resession" => Resession(t)
<1>1. tab \in [Tab -> Tabs]
  BY DEF SettingsInv
<1>2. \A tabs \in [Tab -> Tabs], v \in Tab :
        Overtake(tabs, v) \in [Tab -> Tabs] /\ Overtake(tabs, v)[t].phase = tabs[t].phase
  <2> SUFFICES ASSUME NEW tabs \in [Tab -> Tabs], NEW v \in Tab
               PROVE  Overtake(tabs, v) \in [Tab -> Tabs] /\ Overtake(tabs, v)[t].phase = tabs[t].phase
    OBVIOUS
  <2>1. \A w \in Tab : /\ [tabs[w] EXCEPT !.overtaken = TRUE] \in Tabs
                       /\ [tabs[w] EXCEPT !.overtaken = TRUE].phase = tabs[w].phase
    BY DEF Tabs
  <2> QED BY <2>1 DEF Overtake
<1>3. u = t
  <2> SUFFICES ASSUME u # t PROVE FALSE
    OBVIOUS
  <2>1. CASE Replace(u)
    <3>1. PICK r : r = [Idle EXCEPT !.phase = "form", !.form = Redacted(tab[u].merged)]
      OBVIOUS
    <3>2. tab' = Overtake([tab EXCEPT ![u] = r], u)
      BY <2>1, <3>1 DEF Replace
    <3>3. [tab EXCEPT ![u] = r][t] = tab[t]
      BY <1>1
    <3>4. tab'[t].phase = tab[t].phase
      BY <1>1, <3>2, <3>3 DEF Overtake, Tabs
    <3> QED BY <3>4
  <2>2. CASE UpdateAccount(u)
    <3>1. PICK r : r = [tab[u] EXCEPT !.phase = IF @ = "setup" THEN "setup_session" ELSE "resession"]
      OBVIOUS
    <3>2. tab' = Overtake([tab EXCEPT ![u] = r], u)
      BY <1>1, <2>2, <3>1 DEF UpdateAccount
    <3>3. [tab EXCEPT ![u] = r][t] = tab[t]
      BY <1>1
    <3>4. tab'[t].phase = tab[t].phase
      BY <1>1, <3>2, <3>3 DEF Overtake, Tabs
    <3> QED BY <3>4
  <2>3. CASE RotateKey(u)
    BY <1>1, <1>2, <2>3 DEF RotateKey
  <2>4. CASE Load(u) \/ Send(u) \/ Put(u) \/ Enforce(u) \/ BeginSetup(u) \/ BeginAccount(u) \/ Resession(u)
    <3>1. tab'[t] = tab[t]
      BY <1>1, <2>4 DEF Load, Send, Put, Enforce, BeginSetup, BeginAccount, Resession
    <3> QED BY <3>1
  <2>5. CASE Login(u) \/ Logout(u)
    BY <2>5 DEF Login, Logout
  <2> QED BY <2>1, <2>2, <2>3, <2>4, <2>5 DEF TabNext
<1>4. tab[t].phase = "replace" => Replace(t)
  BY <1>3 DEF TabNext, Load, Send, Put, Enforce, RotateKey, BeginSetup, BeginAccount, UpdateAccount,
              Resession, Login, Logout
<1>5. tab[t].phase = "resession" => Resession(t)
  BY <1>3 DEF TabNext, Load, Send, Put, Enforce, Replace, RotateKey, BeginSetup, BeginAccount,
              UpdateAccount, Login, Logout
<1> QED BY <1>3, <1>4, <1>5

\* A PUT that was not overtaken changes what its form says.
LEMMA ReplaceSays ==
  ASSUME SettingsInv, NEW t \in Tab, Replace(t), ~tab[t].overtaken, NEW f, f = tab[t].form
  PROVE  /\ \A old \in ToSet(store.devs), new \in ToSet(store'.devs) :
              old.id = new.id /\ old.secret # new.secret =>
                Explicit(new.secret) /\ new \in ToSet(f.devs)
         /\ {d.id : d \in ToSet(f.devs)} = {d.id : d \in ToSet(store'.devs)}
         /\ store'.bot # store.bot => Explicit(f.bot)
         /\ store'.urls # store.urls => Mask \notin ToSet(f.urls)
         /\ <<store'.user, store'.hash, store'.key>> = <<store.user, store.hash, store.key>>
<1>1. PICK m \in Configurations : m = tab[t].merged
  BY TabIs
<1>2. store' = m /\ f \in Configurations /\ store \in Configurations
  BY <1>1, TabIs DEF Replace, SettingsInv
<1>3. Says(f, m, store) /\ m.user = store.user /\ m.hash = store.hash /\ m.key = store.key
  BY <1>1, TabIs DEF Replace, TabOK
<1>4. /\ DOMAIN f.devs = 1 .. Len(f.devs) /\ DOMAIN m.devs = 1 .. Len(m.devs)
      /\ DOMAIN store.devs = 1 .. Len(store.devs)
  BY <1>2, ConfigurationIs
<1>5. ASSUME NEW old \in ToSet(store.devs), NEW new \in ToSet(m.devs),
             old.id = new.id, old.secret # new.secret
      PROVE  Explicit(new.secret) /\ new \in ToSet(f.devs)
  <2>1. PICK k \in 1 .. Len(store.devs) : old = store.devs[k]
    BY <1>4 DEF ToSet
  <2>2. PICK j \in 1 .. Len(m.devs) : new = m.devs[j]
    BY <1>4 DEF ToSet
  <2>3. Explicit(new.secret) /\ new = f.devs[j] /\ j \in 1 .. Len(f.devs)
    BY <1>3, <1>5, <2>1, <2>2 DEF Says
  <2> QED BY <1>4, <2>3 DEF ToSet
<1>6. {d.id : d \in ToSet(f.devs)} = {d.id : d \in ToSet(m.devs)}
  <2>1. Len(m.devs) = Len(f.devs) /\ \A j \in 1 .. Len(m.devs) : m.devs[j].id = f.devs[j].id
    BY <1>3 DEF Says
  <2> QED BY <1>4, <2>1 DEF ToSet
<1> QED BY <1>2, <1>3, <1>5, <1>6 DEF Says

\* PUT /api/config and update_account: saving a form changes what it says and nothing else, if
\* nobody else saved meanwhile; a device's secret becomes what the form has for it, and the
\* account and the key stay.  Whoever changes the account, once there is one, stays signed in.
THEOREM SavingChangesWhatTheFormSays == ConfiguringSpec => FormsSayWhatTheyChange
<1> DEFINE Saved(t) ==
      /\ tab[t].phase = "replace" /\ tab'[t].phase # "replace" /\ ~tab[t].overtaken =>
           /\ \A old \in ToSet(store.devs), new \in ToSet(store'.devs) :
                old.id = new.id /\ old.secret # new.secret =>
                  Explicit(new.secret) /\ new \in ToSet(tab[t].form.devs)
           /\ {d.id : d \in ToSet(tab[t].form.devs)} = {d.id : d \in ToSet(store'.devs)}
           /\ store'.bot # store.bot => Explicit(tab[t].form.bot)
           /\ store'.urls # store.urls => Mask \notin ToSet(tab[t].form.urls)
           /\ <<store'.user, store'.hash, store'.key>> = <<store.user, store.hash, store.key>>
      /\ tab[t].phase = "resession" /\ tab'[t].phase # "resession" =>
           session'[t] = store'.hash
<1>1. SettingsInv /\ [ConfiguringNext]_<<vars, wizardVars, migrateVars, part>>
        => [\A t \in Tab : Saved(t)]_vars
  <2> SUFFICES ASSUME SettingsInv, Next, NEW t \in Tab PROVE Saved(t)
    BY DEF ConfiguringNext, vars, wizardVars, migrateVars
  <2>1. CASE tab'[t].phase = tab[t].phase
    BY <2>1
  <2>2. CASE tab'[t].phase # tab[t].phase
    <3>1. PICK u \in Tab : TabNext(u)
      BY DEF Next
    <3>2. /\ tab[t].phase = "replace" => Replace(t)
          /\ tab[t].phase = "resession" => Resession(t)
      BY <2>2, <3>1, PhasesAreTheirs
    <3>3. CASE tab[t].phase = "replace" /\ ~tab[t].overtaken
      BY <3>2, <3>3, ReplaceSays
    <3>4. CASE tab[t].phase = "resession"
      BY <3>2, <3>4 DEF Resession, SignsWith, StoredHash, SettingsInv
    <3> QED BY <3>3, <3>4
  <2> QED BY <2>1, <2>2
<1> QED BY <1>1, SettingsInvariant, PTL DEF ConfiguringSpec, FormsSayWhatTheyChange, Explicit
=============================================================================
