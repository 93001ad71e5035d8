------------------------------ MODULE Configuring ------------------------------
(***************************************************************************)
(* The three ways a configuration comes to be what it is: the file of an    *)
(* older version is migrated when the process starts (Migrate), a wizard    *)
(* adds a device (Wizard), and the forms of the settings are saved          *)
(* (Settings).  A behaviour is about one of them: they share no state but   *)
(* the file, whose writing under edits is ConfigEdit's.                     *)
(***************************************************************************)
EXTENDS Settings, Wizard, Migrate

VARIABLE part     \* the way this behaviour is about; the state of the others rests

SettingsRest ==
  /\ store = Start(0) /\ session = [t \in Tab |-> 0] /\ tab = [t \in Tab |-> Idle] /\ acts = 0

WizardRest ==
  /\ wiz = [w \in Wizards |-> Opened] /\ token = [n \in Names |-> NoToken]
  /\ keyFile = 0 /\ authorized = {} /\ devices = {} /\ made = 1 /\ failures = 0

MigrateRest ==
  /\ orig = CHOOSE o \in Old : TRUE
  /\ file = V09(orig) /\ bak = None /\ mount = "file" /\ ro = FALSE
  /\ pc = "down" /\ doing = "migrate" /\ call = 1 /\ cfg = NoRoutes(FALSE)
  /\ err = FALSE /\ edited = FALSE /\ broken = FALSE

ConfiguringInit ==
  \/ part = "settings" /\ Init /\ WizardRest /\ MigrateRest
  \/ part = "wizard" /\ SettingsRest /\ WizardInit /\ MigrateRest
  \/ part = "migrate" /\ SettingsRest /\ WizardRest /\ MigrateInit

ConfiguringNext ==
  /\ \/ part = "settings" /\ Next /\ UNCHANGED <<wizardVars, migrateVars>>
     \/ part = "wizard" /\ WizardNext /\ UNCHANGED <<vars, migrateVars>>
     \/ part = "migrate" /\ MigrateNext /\ UNCHANGED <<vars, wizardVars>>
  /\ UNCHANGED part

ConfiguringSpec ==
  ConfiguringInit /\ [][ConfiguringNext]_<<vars, wizardVars, migrateVars, part>>
=============================================================================
