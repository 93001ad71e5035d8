-------------------------------- MODULE Migrate --------------------------------
(***************************************************************************)
(* Starting on a config.yaml of Joulenap 0.9: load_config, _migrate_0_9 and *)
(* save_config of backend/app/config.py, config_migrate.py, and             *)
(* ConfigStore.load_or_create of core/config_store.py, which run() of       *)
(* main.py goes through twice, once for the port and once for the app.      *)
(*                                                                         *)
(* The process may be killed between any two steps, a write may fail, and   *)
(* the file may be mounted by itself (rename refused) or read-only.  Days   *)
(* of the week stand for the schedules.                                     *)
(***************************************************************************)
EXTENDS CronDays

CONSTANTS
  Fields,    \* the day-of-week fields of the 0.9 crons
  Seeded     \* whether the 0.9 file holds a secret_key of its own: a set of BOOLEANs

ASSUME MigrateAssumption == Fields # {} /\ Fields \subseteq SUBSET Token /\ Seeded \subseteq BOOLEAN

VARIABLES
  orig,     \* the 0.9 configuration the user comes with
  file,     \* config.yaml
  bak,      \* config.yaml.pre-overhaul.bak
  mount,    \* how config.yaml is mounted: in its directory, or a single-file bind mount
  ro,       \* the mount is read-only in this boot
  pc,       \* where the starting process is, or "run", or "down"
  doing,    \* what save_config was called for
  call,     \* which load_or_create of run()
  cfg,      \* the configuration in memory
  err,      \* MIGRATION_ERROR is set
  edited,   \* history: the user has saved a configuration of his own
  broken    \* history: an overwrite in place broke off

migrateVars == <<orig, file, bak, mount, ro, pc, doing, call, cfg, err, edited, broken>>
diskVars == <<file, bak>>
mountVars == <<orig, mount>>

\* A 0.9 configuration: whether it converts, has a key, a storage for the PBS and the PBS's MAC
\* address, watches external schedules, and which crons it runs.  A PVE without a storage is
\* one that is not there.  No verify schedule is the empty field.
Old == [valid : BOOLEAN, seeded : Seeded, storage : BOOLEAN, mac : BOOLEAN, external : BOOLEAN,
        enabled : BOOLEAN, field : Fields, verify : {{}} \union Fields]

None == [v |-> "none"]
Torn == [v |-> "torn"]
V09(o) == [v |-> "0.9", conf |-> o]
V10(c) == [v |-> "1.0", conf |-> c]

Places == {"down", "load", "backup", "copy", "tmp", "replace", "truncate", "fill", "seed", "loaded",
           "run"}

MigrateTypeOK ==
  /\ orig \in Old /\ mount \in {"directory", "file"} /\ ro \in BOOLEAN
  /\ {file.v, bak.v} \subseteq {"none", "torn", "0.9", "1.0"}
  /\ pc \in Places /\ doing \in {"migrate", "refuse", "seed", "edit"} /\ call \in 1 .. 2
  /\ {err, edited, broken} \subseteq BOOLEAN

-----------------------------------------------------------------------------
\* The conversion.
Route(id, enabled, field) == [id |-> id, enabled |-> enabled, schedule |-> ParseCron(field)]

\* _routes: an external route needs a box it can wake, a backup route a storage.
BackupRoutes(o) ==
  IF IF o.external THEN o.mac ELSE o.storage THEN {Route("backup", o.enabled, o.field)} ELSE {}
VerifyRoutes(o) == IF o.verify # {} THEN {Route("verify", TRUE, o.verify)} ELSE {}

\* migrate, and the 1.0 configuration without routes a refused conversion leaves.
Converted(o) == [routes |-> BackupRoutes(o) \union VerifyRoutes(o), key |-> o.seeded]
NoRoutes(key) == [routes |-> {}, key |-> key]

\* _arm_route: what fires on which days.
Armed(routes) ==
  {[id |-> r.id, days |-> FireDays(r.schedule)] :
     r \in {q \in routes : q.enabled /\ FieldValid(RouteField(q.schedule))}}

\* What the 0.9 configuration ran (external): its jobs on the days its crons name.
Jobs09(o) ==
  {[id |-> "backup", days |-> CronMeans(o.field)] :
     x \in {1} \intersect IF o.enabled /\ (IF o.external THEN o.mac ELSE o.storage) THEN {1} ELSE {}}
  \union {[id |-> "verify", days |-> CronMeans(f)] : f \in {o.verify} \ {{}}}

MigrateInit ==
  /\ orig \in Old
  /\ file = V09(orig) /\ bak = None
  /\ mount \in {"directory", "file"} /\ ro = FALSE
  /\ pc = "down" /\ doing = "migrate" /\ call = 1 /\ cfg = NoRoutes(FALSE)
  /\ err = FALSE /\ edited = FALSE /\ broken = FALSE

-----------------------------------------------------------------------------
StartProcess ==
  /\ pc = "down"
  /\ pc' = "load" /\ call' = 1 /\ err' = FALSE /\ ro' \in BOOLEAN
  /\ UNCHANGED <<mountVars, diskVars, doing, cfg, edited, broken>>

\* Mutant: a conversion that fails is not reported.
NotTold == FALSE
Told == TRUE

\* load_config.  What is left of a file whose overwriting broke off is no YAML, or an empty
\* mapping.
LoadFile ==
  /\ pc = "load"
  /\ \/ /\ file.v = "0.9" /\ file.conf.valid
        /\ cfg' = Converted(file.conf) /\ err' = FALSE
        /\ doing' = "migrate" /\ pc' = "backup"
     \/ /\ file.v = "0.9" /\ ~file.conf.valid
        /\ cfg' = NoRoutes(file.conf.seeded) /\ err' = Told
        /\ doing' = "refuse" /\ pc' = "backup"
     \/ /\ file.v = "1.0"
        /\ cfg' = file.conf /\ err' = FALSE /\ pc' = "seed" /\ UNCHANGED doing
     \/ /\ file.v = "torn"
        /\ cfg' = NoRoutes(FALSE) /\ err' = FALSE /\ pc' \in {"seed", "down"} /\ UNCHANGED doing
  /\ UNCHANGED <<mountVars, diskVars, ro, call, edited, broken>>

DirectoryWritable == ~(ro /\ mount = "directory")
AfterBackup == IF doing = "migrate" THEN "tmp" ELSE "seed"

\* Mutant: each conversion writes its copy anew.
CopyAnew == TRUE
NoCopyYet == bak.v = "none"

\* write_backup: an existing copy is left alone; the new one is created, then filled.
WriteBackup ==
  /\ pc = "backup"
  /\ IF NoCopyYet /\ DirectoryWritable
       THEN bak' = Torn /\ pc' = "copy"
       ELSE UNCHANGED bak /\ pc' = AfterBackup
  /\ UNCHANGED <<mountVars, file, ro, doing, call, cfg, err, edited, broken>>

Copy ==
  /\ pc = "copy"
  /\ bak' \in {file, Torn}
  /\ pc' = AfterBackup
  /\ UNCHANGED <<mountVars, file, ro, doing, call, cfg, err, edited, broken>>

\* save_config: the temporary file, the rename, and the overwriting of a file mounted by itself.
\* Where it ends, the process goes on whether or not it was written.
AfterSave == CASE doing = "migrate" -> "seed" [] doing = "seed" -> "loaded" [] OTHER -> "run"

WriteTmp ==
  /\ pc = "tmp"
  /\ pc' \in (IF DirectoryWritable THEN {"replace"} ELSE {}) \union {AfterSave}
  /\ UNCHANGED <<mountVars, diskVars, ro, doing, call, cfg, err, edited, broken>>

RenameTmp ==
  /\ pc = "replace"
  /\ IF mount = "directory"
       THEN file' = V10(cfg) /\ pc' = AfterSave
       ELSE UNCHANGED file /\ pc' = "truncate"
  /\ UNCHANGED <<mountVars, bak, ro, doing, call, cfg, err, edited, broken>>

Truncate ==
  /\ pc = "truncate"
  /\ IF ro THEN UNCHANGED file /\ pc' = AfterSave ELSE file' = Torn /\ pc' = "fill"
  /\ UNCHANGED <<mountVars, bak, ro, doing, call, cfg, err, edited, broken>>

Fill ==
  /\ pc = "fill"
  /\ \/ file' = V10(cfg) /\ UNCHANGED broken
     \/ UNCHANGED file /\ broken' = TRUE
  /\ pc' = AfterSave
  /\ UNCHANGED <<mountVars, bak, ro, doing, call, cfg, err, edited>>

\* The rest of load_or_create: a placeholder key is replaced and the configuration saved.
Seed ==
  /\ pc = "seed"
  /\ IF cfg.key THEN pc' = "loaded" /\ UNCHANGED <<cfg, doing>>
     ELSE cfg' = [cfg EXCEPT !.key = TRUE] /\ doing' = "seed" /\ pc' = "tmp"
  /\ UNCHANGED <<mountVars, diskVars, ro, call, err, edited, broken>>

\* run(): the first load is for the port alone.
Loaded ==
  /\ pc = "loaded"
  /\ IF call = 1 THEN call' = 2 /\ pc' = "load" ELSE UNCHANGED call /\ pc' = "run"
  /\ UNCHANGED <<mountVars, diskVars, ro, doing, cfg, err, edited, broken>>

Crash ==
  /\ pc # "down"
  /\ pc' = "down"
  /\ broken' = (broken \/ pc = "fill")
  /\ UNCHANGED <<mountVars, diskVars, ro, doing, call, cfg, err, edited>>

-----------------------------------------------------------------------------
\* The user: saves what he has made of the configuration, mends a 0.9 file that was refused
\* once its copy is there, or puts the copy back.
Save ==
  /\ pc = "run"
  /\ \E routes \in SUBSET cfg.routes : cfg' = [cfg EXCEPT !.routes = routes]
  /\ doing' = "edit" /\ pc' = "tmp" /\ edited' = TRUE
  /\ UNCHANGED <<mountVars, diskVars, ro, call, err, broken>>

Mend ==
  /\ pc = "down" /\ bak.v # "none" /\ file.v = "0.9" /\ ~file.conf.valid
  /\ file' = [file EXCEPT !.conf.valid = TRUE]
  /\ UNCHANGED <<mountVars, bak, ro, pc, doing, call, cfg, err, edited, broken>>

PutBack ==
  /\ pc = "down" /\ bak.v = "0.9" /\ file # bak
  /\ file' = bak /\ edited' = FALSE /\ broken' = FALSE
  /\ UNCHANGED <<mountVars, bak, ro, pc, doing, call, cfg, err>>

MigrateNext ==
  \/ StartProcess \/ LoadFile \/ WriteBackup \/ Copy \/ WriteTmp \/ RenameTmp \/ Truncate \/ Fill
  \/ Seed \/ Loaded \/ Crash \/ Save \/ Mend \/ PutBack

-----------------------------------------------------------------------------
\* The 0.9 original is in config.yaml or in its copy whatever is refused, saved, mended or
\* killed, and however often the process starts ("the first migration wins").  Only a copy
\* that itself broke off can fail it.
OriginalIsKept == V09(orig) \in {file, bak} \/ bak = Torn

\* The converted configuration fires the jobs of the 0.9 one on the same days, in the process
\* that converts it and in every later one, until the user saves something else; a
\* configuration that cannot be converted is said to be so in every process that runs without
\* it.  An overwriting in place that broke off voids this.
ScheduleIsKept ==
  pc = "run" /\ ~edited /\ ~broken => err \/ Armed(cfg.routes) = Jobs09(orig)
=============================================================================
