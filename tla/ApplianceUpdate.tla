--------------------------- MODULE ApplianceUpdate ---------------------------
(***************************************************************************)
(* Over-the-air updates of an appliance (deploy/raspberry-pi/wherehouse-   *)
(* ops).  The update controller serves commands one at a time and runs     *)
(* each accepted update on a thread of its own; an administrator runs the  *)
(* same program from a console.  All of them share files: the update       *)
(* state, the environment file, the marker of the installed release, a     *)
(* lock file; and the image tags, containers and database of the host.     *)
(* Power may fail, and every process may be stopped, between any two       *)
(* steps.                                                                  *)
(*                                                                         *)
(* write_state reads the update state, merges its changes and writes the   *)
(* file as a whole, without a lock.  Where the lifecycle lock is not held, *)
(* or the phase is not among the changes, the read and the write are steps *)
(* of their own.  Elsewhere the holder of the lock writes the phase, and a *)
(* write lost in between is one that had gone just before, to be           *)
(* overwritten: before this write, or before the one that last changed the *)
(* version.                                                                *)
(*                                                                         *)
(* Left out: what downloads verify, progress and messages, storage and     *)
(* remote administration, the updater that a release may carry, and the    *)
(* other fields of the update state.                                       *)
(***************************************************************************)
EXTENDS Integers, FiniteSets

CONSTANTS Controller,   \* the thread of the daemon that serves the socket
          Workers,      \* the daemon's update threads
          Consoles,     \* processes an administrator starts
          Releases,     \* versions, in order
          Factory,      \* the version the image was built with
          HeadOf,       \* the database schema a release migrates to
          Keep,         \* how many release payloads are retained
          MaxStops,     \* bound: power failures and stopped processes
          None, Down

ASSUME ReleasesAssumption ==
  /\ Releases \subseteq Nat /\ Factory \in Releases
  /\ HeadOf \in [Releases -> Nat]
  /\ \A u, v \in Releases : u <= v => HeadOf[u] <= HeadOf[v]
  /\ {None, Down} \cap Releases = {} /\ None # Down

ASSUME ActorsAssumption ==
  /\ None \notin {Controller} \cup Workers \cup Consoles
  /\ Controller \notin Workers \cup Consoles
  /\ Workers \cap Consoles = {}
ASSUME StopsAssumption == MaxStops \in Nat

VARIABLES
  status,      \* update-state.json: what the settings page shows
  lock,        \* holder of lifecycle.lock
  env,         \* appliance.env: version and schema revision
  marker,      \* releases/current
  payload,     \* downloaded releases
  tags,        \* the image behind each :local tag
  containers,  \* the image each service runs
  db,          \* schema revision of the database
  backups,     \* for each backup its labelled schema and the one it holds
  proc,        \* progress of every actor
  daemon,      \* the controller process is running
  stops,       \* interruptions so far
  validated,   \* history: releases that passed their health check
  torn,        \* history: an install was left half done, none completed since
  cutOff       \* history: an install was left half done at some time

vars == <<status, lock, env, marker, payload, tags, containers, db, backups,
          proc, daemon, stops, validated, torn, cutOff>>

host == <<env, marker, tags, containers, db>>
cuts == <<torn, cutOff>>
history == <<validated, torn, cutOff>>

Actors == {Controller} \cup Workers \cup Consoles
Services == {"api", "web"}

ActivePhases == {"checking", "downloading", "verifying", "backing_up", "installing",
                 "migrating", "restarting", "validating", "rolling_back"}
Phases == ActivePhases \cup {"idle", "available", "completed", "failed"}

Status == [phase : Phases, current : Releases]

\* Where an install has changed the host and not finished or undone it.
Window == {"tagWeb", "envVersion", "migrate", "envSchema", "restart", "validate",
           "rollback", "retagApi", "retagWeb", "marker"}

\* The stages that hold the lifecycle lock, and those that do not.
Locked == Window \cup {"fetch", "manifest", "download", "backup", "archive", "load",
                       "backed", "unbacked", "tagApi", "reup", "finish", "retain"}

Unlocked == {"idle", "lock", "report", "merge", "failing", "recover", "recovering",
             "start", "decide", "accept", "accepting"}

\* merged is what write_state is about to write.
Proc == [pc : Locked \cup Unlocked,
         task : {"check", "update", "install"},
         release : Releases \cup {None},
         tags : [Services -> Releases \cup {None}],
         version : Releases \cup {None},
         merged : Status \cup {None}]

At(pc, task, v) == [pc |-> pc, task |-> task, release |-> v,
                    tags |-> [s \in Services |-> None], version |-> None, merged |-> None]

Idle == At("idle", "check", None)

Both(v) == [s \in Services |-> v]

\* current_version: the marker once a release was installed, else the environment.
CurrentVersion == IF marker # None THEN marker ELSE env.version

Init ==
  /\ status = [phase |-> "idle", current |-> Factory]
  /\ lock = None
  /\ env = [version |-> Factory, schema |-> HeadOf[Factory]]
  /\ marker = None
  /\ payload = {}
  /\ tags = Both(Factory) /\ containers = Both(Factory)
  /\ db = HeadOf[Factory] /\ backups = {}
  /\ proc = [p \in Actors |-> Idle]
  /\ daemon = TRUE /\ stops = 0
  /\ validated = {Factory} /\ torn = FALSE /\ cutOff = FALSE

(***************************************************************************)
(* Steps of one actor.  A step either advances or raises; leaving the      *)
(* `with LifecycleLock` block releases the lock either way.                *)
(***************************************************************************)
IsAt(p, pc) == proc[p].pc = pc

Advance(p, pc) == proc' = [proc EXCEPT ![p].pc = pc] /\ UNCHANGED <<lock, cuts>>

Done(p) == proc' = [proc EXCEPT ![p] = Idle] /\ lock' = None /\ UNCHANGED cuts

\* Only an update and the controller's check have a handler for what is raised.
Recorded(p) == proc[p].task = "update" \/ (proc[p].task = "check" /\ p = Controller)

Failed(p) == At("report", proc[p].task, None)

CutOff(b) == torn' = (torn \/ b) /\ cutOff' = (cutOff \/ b)

\* Fault: what is raised leaves the lock file locked (TypeOK).
LeaksLock(p) ==
  /\ proc' = [proc EXCEPT ![p] = IF Recorded(p) THEN Failed(p) ELSE Idle]
  /\ CutOff(proc[p].pc \in Window)
  /\ UNCHANGED lock

Raise(p) ==
  /\ proc' = [proc EXCEPT ![p] = IF Recorded(p) THEN Failed(p) ELSE Idle]
  /\ lock' = IF lock = p THEN None ELSE lock
  /\ CutOff(proc[p].pc \in Window)

\* write_state in one step, see above.
SetPhase(ph) == status' = [status EXCEPT !.phase = ph]

\* write_state in two: what is read and merged, and the write.
MergeInto(p, pc, ph) ==
  /\ proc' = [proc EXCEPT ![p].pc = pc, ![p].merged = [status EXCEPT !.phase = ph]]
  /\ UNCHANGED <<lock, cuts>>

WriteBack(p) == status' = proc[p].merged

(***************************************************************************)
(* Commands.                                                               *)
(***************************************************************************)
Check(p) ==
  /\ p # Controller => p \in Consoles
  /\ p = Controller => daemon
  /\ IsAt(p, "idle")
  /\ proc' = [proc EXCEPT ![p] = At("lock", "check", None)]
  /\ UNCHANGED <<status, lock, host, payload, backups, daemon, stops, history>>

\* `install` over the socket takes the lock once to see whether it is free.
InstallCommand ==
  /\ daemon /\ IsAt(Controller, "idle")
  /\ lock = None
  /\ proc' = [proc EXCEPT ![Controller] = At("decide", "check", None)]
  /\ UNCHANGED <<status, lock, host, payload, backups, daemon, stops, history>>

\* A refusal answers the command; at the start of the daemon it ends the daemon.
Refuse ==
  /\ proc[Controller].pc \in {"decide", "start"} /\ status.phase \in ActivePhases
  /\ proc' = [proc EXCEPT ![Controller] = Idle]
  /\ daemon' = IsAt(Controller, "decide")
  /\ UNCHANGED <<status, lock, host, payload, backups, stops, history>>

Decide ==
  /\ proc[Controller].pc \in {"decide", "start"} /\ status.phase \notin ActivePhases
  /\ proc' = [proc EXCEPT ![Controller].pc = "accept"]
  /\ UNCHANGED <<status, lock, host, payload, backups, daemon, stops, history>>

MergeAccept ==
  /\ IsAt(Controller, "accept")
  /\ MergeInto(Controller, "accepting", "checking")
  /\ UNCHANGED <<status, host, payload, backups, daemon, stops, validated>>

Accept(w) ==
  /\ IsAt(Controller, "accepting") /\ IsAt(w, "idle")
  /\ WriteBack(Controller)
  /\ proc' = [proc EXCEPT ![Controller] = Idle, ![w] = At("lock", "update", None)]
  /\ UNCHANGED <<lock, host, payload, backups, daemon, stops, history>>

ConsoleUpdate(c) ==
  /\ IsAt(c, "idle")
  /\ proc' = [proc EXCEPT ![c] = At("lock", "update", None)]
  /\ UNCHANGED <<status, lock, host, payload, backups, daemon, stops, history>>

ConsoleInstall(c, v) ==
  /\ IsAt(c, "idle")
  /\ proc' = [proc EXCEPT ![c] = At("lock", "install", v)]
  /\ UNCHANGED <<status, lock, host, payload, backups, daemon, stops, history>>

\* The lock file is taken without waiting.
TakeLock(p) ==
  /\ IsAt(p, "lock")
  /\ IF lock = None
     THEN /\ lock' = p
          /\ proc' = [proc EXCEPT ![p].pc =
                        IF proc[p].task = "install" THEN "backup" ELSE "fetch"]
          /\ UNCHANGED cuts
     ELSE Raise(p)
  /\ UNCHANGED <<status, host, payload, backups, daemon, stops, validated>>

\* Fault: a failed update is only logged (NoPhaseLeftBehind).
OnlyLogs(p) ==
  /\ IsAt(p, "report")
  /\ proc' = [proc EXCEPT ![p] = Idle]
  /\ UNCHANGED <<status, lock, host, payload, backups, daemon, stops, history>>

\* The handlers of what a step raised run after the lock is given back.
Report(p) ==
  /\ IsAt(p, "report")
  /\ IF IF proc[p].task = "update" THEN status.phase # "failed" ELSE status.phase = "checking"
     THEN proc' = [proc EXCEPT ![p].pc = "merge"] ELSE proc' = [proc EXCEPT ![p] = Idle]
  /\ UNCHANGED <<status, lock, host, payload, backups, daemon, stops, history>>

MergeFailure(p) ==
  /\ IsAt(p, "merge")
  /\ MergeInto(p, "failing", "failed")
  /\ UNCHANGED <<status, host, payload, backups, daemon, stops, validated>>

WriteFailure(p) ==
  /\ IsAt(p, "failing")
  /\ WriteBack(p)
  /\ proc' = [proc EXCEPT ![p] = Idle]
  /\ UNCHANGED <<lock, host, payload, backups, daemon, stops, history>>

(***************************************************************************)
(* fetch_manifest, download_release and install_release, under the lock.   *)
(***************************************************************************)
Fetch(p) ==
  /\ IsAt(p, "fetch")
  /\ SetPhase("checking") /\ Advance(p, "manifest")
  /\ UNCHANGED <<host, payload, backups, daemon, stops, validated>>

\* v is the release the signed manifest offers at the moment.
ReadManifest(p, v) ==
  /\ IsAt(p, "manifest")
  /\ CurrentVersion <= v /\ env.schema <= HeadOf[v]
  /\ LET newer == CurrentVersion < v
     IN  /\ status' = [status EXCEPT !.current = CurrentVersion,
                                     !.phase = IF newer THEN "available" ELSE "idle"]
         /\ IF newer /\ proc[p].task = "update"
            THEN /\ proc' = [proc EXCEPT ![p].pc = "download", ![p].release = v]
                 /\ UNCHANGED <<lock, cuts>>
            ELSE Done(p)
  /\ UNCHANGED <<host, payload, backups, daemon, stops, validated>>

\* The payload is checked against the manifest before the phase moves on.
Download(p) ==
  /\ IsAt(p, "download")
  /\ \/ SetPhase("downloading") /\ Raise(p) /\ UNCHANGED payload
     \/ /\ SetPhase("verifying") /\ Advance(p, "backup")
        /\ payload' = payload \cup {proc[p].release}
  /\ UNCHANGED <<host, backups, daemon, stops, validated>>

\* Fault: no backup is made before the install (RecoveryPoint).
SkipsBackup(p) ==
  /\ IsAt(p, "backup")
  /\ proc[p].release \in payload
  /\ SetPhase("backing_up") /\ Advance(p, "load")
  /\ UNCHANGED <<host, payload, backups, daemon, stops, validated>>

BackUp(p) ==
  /\ IsAt(p, "backup")
  /\ proc[p].release \in payload
  /\ SetPhase("backing_up") /\ Advance(p, "archive")
  /\ UNCHANGED <<host, payload, backups, daemon, stops, validated>>

\* The label is the head revision of the image that makes the backup.  What the
\* state says of the backup is written with the phase that was read.
Archive(p) ==
  /\ IsAt(p, "archive")
  /\ \/ /\ backups' = backups \cup {[label |-> HeadOf[tags["api"]], holds |-> db]}
        /\ MergeInto(p, "backed", status.phase)
     \/ UNCHANGED backups /\ MergeInto(p, "unbacked", status.phase)
  /\ UNCHANGED <<status, host, payload, daemon, stops, validated>>

Archived(p) ==
  /\ \/ /\ IsAt(p, "backed")
        /\ proc' = [proc EXCEPT ![p].pc = "load", ![p].merged = None]
        /\ UNCHANGED <<lock, cuts>>
     \/ IsAt(p, "unbacked") /\ Raise(p)
  /\ WriteBack(p)
  /\ UNCHANGED <<host, payload, backups, daemon, stops, validated>>

Load(p) ==
  /\ IsAt(p, "load")
  /\ SetPhase("installing")
  /\ proc' = [proc EXCEPT ![p].pc = "tagApi", ![p].tags = tags]
  /\ UNCHANGED <<lock, host, payload, backups, daemon, stops, history>>

TagApi(p) ==
  /\ IsAt(p, "tagApi")
  /\ tags' = [tags EXCEPT !["api"] = proc[p].release]
  /\ Advance(p, "tagWeb")
  /\ UNCHANGED <<status, env, marker, containers, db, payload, backups, daemon, stops,
                 validated>>

TagWeb(p) ==
  /\ IsAt(p, "tagWeb")
  /\ tags' = [tags EXCEPT !["web"] = proc[p].release]
  /\ Advance(p, "envVersion")
  /\ UNCHANGED <<status, env, marker, containers, db, payload, backups, daemon, stops,
                 validated>>

WriteVersion(p) ==
  /\ IsAt(p, "envVersion")
  /\ env' = [env EXCEPT !.version = proc[p].release]
  /\ proc' = [proc EXCEPT ![p].pc = "migrate", ![p].version = env.version]
  /\ SetPhase("migrating")
  /\ UNCHANGED <<lock, marker, tags, containers, db, payload, backups, daemon, stops, history>>

\* alembic upgrade head in an image: it refuses a database it does not know,
\* and may fail before or after the schema has moved.
MigrationWith(image, ok) ==
  /\ ok => db <= HeadOf[image]
  /\ \/ db <= HeadOf[image] /\ db' = HeadOf[image]
     \/ ~ ok /\ db' = db

\* docker compose up: when it fails, each service runs the old or the new image.
ServicesUp(ok) ==
  containers' \in IF ok THEN {tags} ELSE {[s \in Services |-> IF s \in S THEN tags[s]
                                                   ELSE containers[s]] : S \in SUBSET Services}

Migrate(p) ==
  /\ IsAt(p, "migrate")
  /\ \E ok \in BOOLEAN : /\ MigrationWith(tags["api"], ok)
                         /\ Advance(p, IF ok THEN "envSchema" ELSE "rollback")
  /\ UNCHANGED <<status, env, marker, tags, containers, payload, backups, daemon, stops,
                 validated>>

WriteSchema(p) ==
  /\ IsAt(p, "envSchema")
  /\ env' = [env EXCEPT !.schema = HeadOf[proc[p].release]]
  /\ SetPhase("restarting") /\ Advance(p, "restart")
  /\ UNCHANGED <<marker, tags, containers, db, payload, backups, daemon, stops, validated>>

\* Fault: the exit status of compose is not looked at (CompletedIsInstalled).
IgnoresExit(p) ==
  /\ IsAt(p, "restart")
  /\ \E ok \in BOOLEAN : ServicesUp(ok)
  /\ SetPhase("validating") /\ Advance(p, "validate")
  /\ UNCHANGED <<env, marker, tags, db, payload, backups, daemon, stops, validated>>

Restart(p) ==
  /\ IsAt(p, "restart")
  /\ \E ok \in BOOLEAN :
       /\ ServicesUp(ok)
       /\ status' = IF ok THEN [status EXCEPT !.phase = "validating"] ELSE status
       /\ Advance(p, IF ok THEN "validate" ELSE "rollback")
  /\ UNCHANGED <<env, marker, tags, db, payload, backups, daemon, stops, validated>>

\* Fault: an unhealthy release is kept (ReportedVersionValidated).
KeepsUnhealthy(p) ==
  /\ IsAt(p, "validate")
  /\ validated' \in {validated, validated \cup {proc[p].release}} /\ Advance(p, "marker")
  /\ UNCHANGED <<status, host, payload, backups, daemon, stops>>

\* verify_http_services, or the failure drill of a signed manifest.
Validate(p) ==
  /\ IsAt(p, "validate")
  /\ \/ validated' = validated \cup {proc[p].release} /\ Advance(p, "marker")
     \/ Advance(p, "rollback") /\ UNCHANGED validated
  /\ UNCHANGED <<status, host, payload, backups, daemon, stops>>

WriteMarker(p) ==
  /\ IsAt(p, "marker")
  /\ marker' = proc[p].release
  /\ Advance(p, "finish")
  /\ UNCHANGED <<status, env, tags, containers, db, payload, backups, daemon, stops, validated>>

Complete(p) ==
  /\ IsAt(p, "finish")
  /\ status' = [phase |-> "completed", current |-> proc[p].release]
  /\ proc' = [proc EXCEPT ![p].pc = "retain"]
  /\ torn' = FALSE
  /\ UNCHANGED <<cutOff, lock, host, payload, backups, daemon, stops, validated>>

Retain(p) ==
  /\ IsAt(p, "retain")
  /\ payload' = {v \in payload : \/ v = CurrentVersion
                                 \/ Cardinality({u \in payload : u > v}) < Keep}
  /\ Done(p)
  /\ UNCHANGED <<status, host, backups, daemon, stops, validated>>

(***************************************************************************)
(* Rollback: reached when a command of the last steps fails.               *)
(***************************************************************************)
\* Fault: the environment keeps the version that failed (WholeUnlessTorn).
KeepsVersion(p) ==
  /\ IsAt(p, "rollback")
  /\ SetPhase("rolling_back") /\ Advance(p, "retagApi")
  /\ UNCHANGED <<host, payload, backups, daemon, stops, validated>>

RollBack(p) ==
  /\ IsAt(p, "rollback")
  /\ SetPhase("rolling_back")
  /\ env' = [env EXCEPT !.version = proc[p].version]
  /\ Advance(p, "retagApi")
  /\ UNCHANGED <<marker, tags, containers, db, payload, backups, daemon, stops, validated>>

RetagApi(p) ==
  /\ IsAt(p, "retagApi")
  /\ tags' = [tags EXCEPT !["api"] = proc[p].tags["api"]]
  /\ Advance(p, "retagWeb")
  /\ UNCHANGED <<status, env, marker, containers, db, payload, backups, daemon, stops,
                 validated>>

RetagWeb(p) ==
  /\ IsAt(p, "retagWeb")
  /\ tags' = [tags EXCEPT !["web"] = proc[p].tags["web"]]
  /\ Advance(p, "reup")
  /\ UNCHANGED <<status, env, marker, containers, db, payload, backups, daemon, stops,
                 validated>>

\* The services start behind a migration; the failure is raised in any case.
ReUp(p) ==
  /\ IsAt(p, "reup")
  /\ \E ok \in BOOLEAN : MigrationWith(tags["api"], ok) /\ ServicesUp(ok)
  /\ SetPhase("failed") /\ Raise(p)
  /\ UNCHANGED <<env, marker, tags, payload, backups, daemon, stops, validated>>

\* Whatever is not a failed command: no space, no network, a refused manifest,
\* a connection that is reset.  Nothing below perform_update catches it.
Break(p) ==
  /\ proc[p].pc \in Locked \ {"download", "reup"}
  /\ Raise(p)
  /\ UNCHANGED <<status, host, payload, backups, daemon, stops, validated>>

(***************************************************************************)
(* Interruptions.                                                          *)
(***************************************************************************)
\* The kernel releases the lock of a process that ends.
Kill(P) ==
  /\ stops < MaxStops /\ stops' = stops + 1
  /\ proc' = [p \in Actors |-> IF p \in P THEN Idle ELSE proc[p]]
  /\ lock' = IF lock \in P THEN None ELSE lock
  /\ CutOff(\E p \in P : proc[p].pc \in Window)

PowerLoss ==
  /\ Kill(Actors)
  /\ daemon' = FALSE /\ containers' = Both(Down)
  /\ UNCHANGED <<status, env, marker, payload, tags, db, backups, validated>>

DaemonStops ==
  /\ daemon /\ Kill({Controller} \cup Workers)
  /\ daemon' = FALSE
  /\ UNCHANGED <<status, host, payload, backups, validated>>

ConsoleKilled(c) ==
  /\ ~ IsAt(c, "idle") /\ Kill({c})
  /\ UNCHANGED <<status, host, payload, backups, daemon, validated>>

\* wherehouse.service brings the services up at boot, behind a migration.
BootServices ==
  /\ containers = Both(Down)
  /\ \E ok \in BOOLEAN : MigrationWith(tags["api"], ok) /\ ServicesUp(ok)
  /\ UNCHANGED <<status, lock, env, marker, payload, tags, backups, proc, daemon, stops, history>>

\* serve: recover_interrupted_update, then an update when the policy is "all".
StartDaemon ==
  /\ ~ daemon /\ daemon' = TRUE
  /\ \E pc \in IF status.phase \in ActivePhases THEN {"recover"} ELSE {"idle", "start"} :
       proc' = [proc EXCEPT ![Controller] = At(pc, "check", None)]
  /\ UNCHANGED <<status, lock, host, payload, backups, stops, history>>

MergeRecovery ==
  /\ IsAt(Controller, "recover")
  /\ MergeInto(Controller, "recovering", "failed")
  /\ UNCHANGED <<status, host, payload, backups, daemon, stops, validated>>

WriteRecovery ==
  /\ IsAt(Controller, "recovering")
  /\ WriteBack(Controller)
  /\ \E pc \in {"idle", "start"} :
       proc' = [proc EXCEPT ![Controller] = At(pc, "check", None)]
  /\ UNCHANGED <<lock, host, payload, backups, daemon, stops, history>>

UnderLock(p) ==
  \/ Fetch(p) \/ (\E v \in Releases : ReadManifest(p, v))
  \/ Download(p) \/ BackUp(p) \/ Archive(p) \/ Archived(p) \/ Load(p)
  \/ TagApi(p) \/ TagWeb(p) \/ WriteVersion(p) \/ Migrate(p) \/ WriteSchema(p)
  \/ Restart(p) \/ Validate(p) \/ WriteMarker(p) \/ Complete(p) \/ Retain(p)
  \/ RollBack(p) \/ RetagApi(p) \/ RetagWeb(p) \/ ReUp(p) \/ Break(p)

Step(p) ==
  \/ TakeLock(p) \/ Report(p) \/ MergeFailure(p) \/ WriteFailure(p)
  \/ proc[p].pc \in Locked /\ UnderLock(p)

Next ==
  \/ \E p \in Actors : Check(p) \/ Step(p)
  \/ InstallCommand \/ Decide \/ Refuse \/ MergeAccept \/ (\E w \in Workers : Accept(w))
  \/ \E c \in Consoles : ConsoleUpdate(c) \/ ConsoleKilled(c)
  \/ \E c \in Consoles, v \in Releases : ConsoleInstall(c, v)
  \/ PowerLoss \/ DaemonStops \/ StartDaemon \/ MergeRecovery \/ WriteRecovery \/ BootServices

Spec == Init /\ [][Next]_vars

(***************************************************************************)
(* Properties.                                                             *)
(***************************************************************************)
\* Every file, tag, container and process is in a state it can be in.
TypeOK ==
  /\ status \in Status
  /\ lock \in Actors \cup {None}
  /\ env \in [version : Releases, schema : Nat]
  /\ marker \in Releases \cup {None}
  /\ payload \subseteq Releases /\ validated \subseteq Releases
  /\ tags \in [Services -> Releases]
  /\ containers \in [Services -> Releases \cup {Down}]
  /\ db \in Nat /\ backups \subseteq [label : Nat, holds : Nat]
  /\ proc \in [Actors -> Proc]
  /\ {daemon, torn, cutOff} \subseteq BOOLEAN /\ stops \in 0..MaxStops
  /\ \A p \in Actors : lock = p <=> proc[p].pc \in Locked

Changing == \E p \in Actors : proc[p].pc \in Window

\* One application: both images, the environment and the marker agree.
Whole ==
  /\ tags = Both(env.version)
  /\ marker \in {env.version, None}

\* An update that ends on its own terms, completed or rolled back, leaves one
\* application installed: both images, the environment file and the marker are
\* of one release.  Only an install that was cut off leaves a mixture, and the
\* next completed one repairs it.
WholeUnlessTorn == ~ torn /\ ~ Changing => Whole

\* "completed" is the truth: the release shown was validated, everything on the
\* host is of that release, and the services run it or are down after a boot.
CompletedIsInstalled ==
  status.phase = "completed" =>
    /\ Whole /\ marker = status.current /\ marker \in validated
    /\ db = HeadOf[marker]
    /\ \A s \in Services : containers[s] \in {marker, Down}

\* The version shown as installed passed its health check at some time: a lost
\* update of the state may bring back an older version, never an untested one.
\* Only where an install was cut off at some time may what it wrote to the
\* environment have been shown as installed, and be brought back later.
ReportedVersionValidated == status.current \in validated \/ cutOff

\* There is always a way back: while the schema is not the one of the installed
\* release, a backup of that schema exists, and under the label that lets that
\* release restore it, boots and cut-off installs included.
RecoveryPoint ==
  LET installed == IF marker = None THEN Factory ELSE marker
  IN  db # HeadOf[installed] =>
        [label |-> HeadOf[installed], holds |-> HeadOf[installed]] \in backups

\* An update never leaves a phase behind that would refuse every later update,
\* unless another operation is under way and writes the next one, or the daemon
\* is down, whose start clears it.
NoPhaseLeftBehind ==
  [][\A p \in Actors :
       proc[p].task = "update" /\ ~ IsAt(p, "idle") /\ proc'[p].pc = "idle" /\ stops' = stops =>
         \/ status'.phase \notin ActivePhases \/ ~ daemon'
         \/ \E q \in Actors \ {p} : proc'[q].pc # "idle"]_vars
=============================================================================
