----------------------- MODULE ApplianceUpdateProofs -----------------------
(***************************************************************************)
(* Theorems about ApplianceUpdate for any number of workers, consoles and  *)
(* releases, and any number of interruptions.  The argument: the lock      *)
(* makes the steps of an install those of one actor, so what the actor has *)
(* done to the host can be told from where it stands (Stage); everybody    *)
(* else leaves the host alone, but for the services that come up at boot.  *)
(***************************************************************************)
EXTENDS ApplianceUpdate, TLAPS

USE DEF cuts, CutOff, Unlocked

\* The stages that use the release, the saved tags and the saved version.
UsesRelease == Window \cup {"download", "backup", "archive", "backed", "unbacked", "load",
                            "tagApi", "reup", "finish"}
UsesTags == Window \cup {"tagApi", "reup"}
UsesVersion == Window \ {"tagWeb", "envVersion"}

\* The stages between the two halves of write_state.
Writing == {"failing", "accepting", "recovering", "backed", "unbacked"}

\* What the fields of an actor hold at each stage.
FieldsOK(x) ==
  /\ x.task = "install" \/ x.pc \in UsesRelease => x.release \in Releases
  /\ x.pc \in UsesTags => x.tags \in [Services -> Releases]
  /\ x.pc \in UsesVersion => x.version \in Releases
  /\ x.pc \in {"failing", "accepting", "recovering", "backed", "unbacked"} => x.merged \in Status
  /\ x.pc \in {"failing", "recovering"} => x.merged.phase = "failed"
  /\ x.pc = "accepting" => x.merged.phase = "checking"

\* Actors and the lock: the holder, and nobody else, is at a stage under the lock.
ActorsOK ==
  /\ lock \in Actors \cup {None}
  /\ proc \in [Actors -> Proc]
  /\ \A p \in Actors : lock = p <=> proc[p].pc \in Locked
  /\ \A p \in Actors : FieldsOK(proc[p])

HostOK ==
  /\ status \in Status
  /\ env \in [version : Releases, schema : Nat]
  /\ marker \in Releases \cup {None}
  /\ payload \subseteq Releases /\ validated \subseteq Releases
  /\ tags \in [Services -> Releases]
  /\ containers \in [Services -> Releases \cup {Down}]
  /\ db \in Nat /\ backups \subseteq [label : Nat, holds : Nat]
  /\ daemon \in BOOLEAN /\ torn \in BOOLEAN /\ cutOff \in BOOLEAN /\ stops \in 0..MaxStops

TypeInv == ActorsOK /\ HostOK

\* A daemon that is down serves nobody.
DaemonOK == ~ daemon => IsAt(Controller, "idle")

Others(p) == \A q \in Actors \ {p} : proc'[q] = proc[q]
-----------------------------------------------------------------------------
(* How the actors move. *)

\* A step of one actor that respects the lock keeps the actors in order.
LEMMA MoveOK ==
  ASSUME ActorsOK, NEW p \in Actors, NEW x \in Proc, FieldsOK(x),
         proc' = [proc EXCEPT ![p] = x],
         lock' \in Actors \cup {None},
         lock' = p <=> x.pc \in Locked,
         \A q \in Actors \ {p} : lock' = q <=> lock = q
  PROVE  ActorsOK' /\ proc'[p] = x /\ Others(p)
<1>1. proc'[p] = x /\ proc' \in [Actors -> Proc] /\ Others(p)
  BY DEF ActorsOK, Others
<1>2. \A q \in Actors : FieldsOK(proc'[q]) /\ (lock' = q <=> proc'[q].pc \in Locked)
  BY <1>1 DEF ActorsOK, Others
<1> QED
  BY <1>1, <1>2 DEF ActorsOK, FieldsOK

\* A step of one actor from a stage without the lock to another such stage.
LEMMA FreeMoveOK ==
  ASSUME ActorsOK, NEW p \in Actors, NEW x \in Proc, FieldsOK(x),
         proc[p].pc \notin Locked, x.pc \notin Locked,
         proc' = [proc EXCEPT ![p] = x], lock' = lock
  PROVE  ActorsOK' /\ proc'[p] = x /\ Others(p)
<1>1. lock' # p /\ lock' \in Actors \cup {None}
  BY DEF ActorsOK
<1> QED
  BY <1>1, MoveOK

\* No stage but the first ones needs more than the stage before it.
LEMMA AdvanceOK ==
  ASSUME ActorsOK, NEW p \in Actors, NEW pc \in Locked, proc[p].pc \in Locked,
         pc \notin {"backed", "unbacked"},
         pc \in UsesRelease => proc[p].pc \in UsesRelease,
         pc \in UsesTags => proc[p].pc \in UsesTags,
         pc \in UsesVersion => proc[p].pc \in UsesVersion,
         Advance(p, pc)
  PROVE  /\ ActorsOK' /\ Others(p) /\ torn' = torn
         /\ proc'[p] = [proc[p] EXCEPT !.pc = pc]
<1> DEFINE x == [proc[p] EXCEPT !.pc = pc]
<1>1. /\ x \in Proc /\ x.pc = pc /\ x.task = proc[p].task /\ x.release = proc[p].release
      /\ x.tags = proc[p].tags /\ x.version = proc[p].version
  BY DEF ActorsOK, Proc
<1>2. lock = p /\ lock' = lock /\ proc' = [proc EXCEPT ![p] = x] /\ torn' = torn
  BY DEF ActorsOK, Advance
<1> HIDE DEF x
<1>3. FieldsOK(x)
  BY <1>1 DEF ActorsOK, FieldsOK, Locked, Window
<1>4. ActorsOK' /\ proc'[p] = x /\ Others(p)
  BY <1>1, <1>2, <1>3, MoveOK
<1> QED
  BY <1>2, <1>4 DEF x

\* The first half of write_state moves nobody else and keeps the lock.
LEMMA MergeOK ==
  ASSUME TypeInv, NEW p \in Actors, NEW pc \in Writing, NEW ph \in Phases,
         MergeInto(p, pc, ph),
         pc \in Locked <=> proc[p].pc \in Locked,
         pc \in UsesRelease => proc[p].release \in Releases,
         pc \in {"failing", "recovering"} => ph = "failed",
         pc = "accepting" => ph = "checking"
  PROVE  /\ ActorsOK' /\ Others(p) /\ torn' = torn /\ cutOff' = cutOff /\ proc'[p].pc = pc
         /\ proc'[p].merged = [status EXCEPT !.phase = ph]
         /\ proc'[p].task = proc[p].task
<1> DEFINE m == [status EXCEPT !.phase = ph]
           x == [proc[p] EXCEPT !.pc = pc, !.merged = m]
<1>1. m \in Status /\ m.phase = ph
  BY DEF TypeInv, HostOK, Status
<1>2. proc[p] \in Proc /\ FieldsOK(proc[p]) /\ ActorsOK
  BY DEF TypeInv, ActorsOK
<1>3. proc' = [proc EXCEPT ![p] = x] /\ lock' = lock /\ torn' = torn /\ cutOff' = cutOff
  BY <1>2 DEF MergeInto, ActorsOK
<1> HIDE DEF m
<1>4. /\ x \in Proc /\ x.pc = pc /\ x.merged = m /\ x.task = proc[p].task
      /\ x.release = proc[p].release
  <2>1. pc \in Locked \cup Unlocked
    BY DEF Writing, Locked, Unlocked
  <2> QED
    BY <1>1, <1>2, <2>1 DEF Proc
<1> HIDE DEF x
<1>5. FieldsOK(x)
  BY <1>1, <1>2, <1>4 DEF FieldsOK, UsesTags, UsesVersion, Window, Writing
<1>6. lock' = p <=> x.pc \in Locked
  BY <1>2, <1>3, <1>4 DEF ActorsOK
<1>7. ActorsOK' /\ proc'[p] = x /\ Others(p)
  BY <1>2, <1>3, <1>4, <1>5, <1>6, MoveOK DEF ActorsOK
<1> QED
  BY <1>3, <1>4, <1>7 DEF m

LEMMA IdleOK == Idle \in Proc /\ FieldsOK(Idle) /\ Idle.pc = "idle" /\ Idle.pc \notin Locked
BY DEF Idle, At, Proc, FieldsOK, Locked, Window, UsesRelease, UsesTags, UsesVersion

LEMMA DoneOK ==
  ASSUME ActorsOK, NEW p \in Actors, proc[p].pc \in Locked, Done(p)
  PROVE  ActorsOK' /\ Others(p) /\ torn' = torn /\ cutOff' = cutOff /\ proc'[p] = Idle
<1>1. lock = p /\ lock' = None /\ \A q \in Actors : q # None
  BY ActorsAssumption DEF ActorsOK, Done, Actors
<1>2. \A q \in Actors \ {p} : lock' = q <=> lock = q
  BY <1>1
<1>3. proc' = [proc EXCEPT ![p] = Idle] /\ torn' = torn /\ cutOff' = cutOff
  BY DEF Done
<1>4. lock' = p <=> Idle.pc \in Locked
  BY <1>1, IdleOK
<1> QED
  BY <1>1, <1>2, <1>3, <1>4, IdleOK, MoveOK

LEMMA RaiseOK ==
  ASSUME ActorsOK, NEW p \in Actors, proc[p].pc \in Locked \cup {"lock"}, Raise(p)
  PROVE  /\ ActorsOK' /\ Others(p) /\ proc'[p].pc \in {"idle", "report"}
         /\ torn' = (torn \/ proc[p].pc \in Window)
<1> DEFINE x == IF Recorded(p) THEN Failed(p) ELSE Idle
<1>1. x \in Proc /\ x.pc \in {"idle", "report"}
  <2>1. proc[p] \in Proc
    BY DEF ActorsOK
  <2>2. CASE ~ Recorded(p)
    BY <2>2, IdleOK
  <2>3. CASE Recorded(p)
    BY <2>1, <2>3 DEF Failed, At, Proc
  <2> QED
    BY <2>2, <2>3
<1>2. FieldsOK(x)
  <2>1. CASE ~ Recorded(p)
    BY <2>1, IdleOK
  <2>2. CASE Recorded(p)
    <3>1. x.task = proc[p].task /\ x.task # "install" /\ x.pc = "report"
      BY <2>2 DEF Failed, At, Recorded
    <3> QED
      BY <3>1 DEF FieldsOK, UsesRelease, UsesTags, UsesVersion, Window
  <2> QED
    BY <2>1, <2>2
<1>3. x.pc \notin Locked
  BY <1>1 DEF Locked, Window
<1>4. proc' = [proc EXCEPT ![p] = x] /\ lock' = IF lock = p THEN None ELSE lock
  BY DEF Raise
<1>5. p # None
  BY ActorsAssumption DEF Actors
<1> HIDE DEF x
<1>6. /\ lock' \in Actors \cup {None} /\ (lock' = p <=> x.pc \in Locked)
      /\ \A q \in Actors \ {p} : lock' = q <=> lock = q
  BY <1>3, <1>4, <1>5, ActorsAssumption DEF ActorsOK, Actors
<1> QED
  BY <1>1, <1>2, <1>4, <1>6, MoveOK DEF Raise

-----------------------------------------------------------------------------
(* Types. *)

\* The commands, and what runs outside the lock.
LEMMA CommandTyped ==
  ASSUME TypeInv, NEW p \in Actors,
         Check(p) \/ Report(p) \/ MergeFailure(p) \/ WriteFailure(p) \/ TakeLock(p)
  PROVE  TypeInv'
<1> USE DEF TypeInv
<1>1. CASE Check(p)
  <2> DEFINE x == At("lock", "check", None)
  <2>1. x \in Proc /\ FieldsOK(x) /\ x.pc \notin Locked /\ proc[p].pc \notin Locked
    BY <1>1 DEF Check, IsAt, At, Proc, FieldsOK, Locked, Window, UsesRelease, UsesTags,
       UsesVersion
  <2>2. proc' = [proc EXCEPT ![p] = x] /\ lock' = lock /\ HostOK'
    BY <1>1 DEF Check, HostOK, host, history
  <2> QED
    BY <2>1, <2>2, FreeMoveOK
<1>2. CASE Report(p)
  <2> DEFINE x == [proc[p] EXCEPT !.pc = "merge"]
  <2>1. proc[p] \in Proc /\ FieldsOK(proc[p])
    BY DEF ActorsOK
  <2>2. x \in Proc /\ FieldsOK(x) /\ x.pc \notin Locked /\ proc[p].pc \notin Locked
    BY <1>2, <2>1 DEF Report, IsAt, Proc, FieldsOK, Locked, Unlocked, Window, UsesRelease,
       UsesTags,
       UsesVersion
  <2>3. lock' = lock /\ (proc' = [proc EXCEPT ![p] = x] \/ proc' = [proc EXCEPT ![p] = Idle])
    BY <1>2 DEF Report, ActorsOK
  <2>4. HostOK'
    BY <1>2 DEF Report, HostOK, host, history
  <2> HIDE DEF x
  <2> QED
    BY <2>2, <2>3, <2>4, IdleOK, FreeMoveOK
<1>3. CASE TakeLock(p)
  <2>1. HostOK'
    BY <1>3 DEF TakeLock, Raise, HostOK, host
  <2>2. CASE lock # None
    BY <1>3, <2>1, <2>2, RaiseOK DEF TakeLock, IsAt
  <2>3. CASE lock = None
    <3> DEFINE pc == IF proc[p].task = "install" THEN "backup" ELSE "fetch"
               x == [proc[p] EXCEPT !.pc = pc]
    <3>1. proc[p] \in Proc /\ FieldsOK(proc[p])
      BY DEF ActorsOK
    <3>2. x \in Proc /\ x.pc \in Locked
      BY <3>1 DEF Proc, Locked
    <3>3. FieldsOK(x)
      BY <3>1 DEF Proc, FieldsOK, UsesRelease, UsesTags, UsesVersion, Window
    <3>4. /\ proc' = [proc EXCEPT ![p] = x] /\ lock' = p
          /\ \A q \in Actors : q # None
      BY <1>3, <2>3, ActorsAssumption DEF TakeLock, Actors
    <3> HIDE DEF x
    <3> QED
      BY <2>1, <2>3, <3>2, <3>3, <3>4, MoveOK
  <2> QED
    BY <2>2, <2>3
<1>4. CASE MergeFailure(p)
  <2>1. MergeInto(p, "failing", "failed") /\ proc[p].pc \notin Locked
    BY <1>4 DEF MergeFailure, IsAt, Locked, Window
  <2>2. ActorsOK'
    BY <2>1, MergeOK DEF Writing, Locked, Window, UsesRelease, Phases
  <2>3. HostOK'
    BY <1>4 DEF MergeFailure, MergeInto, HostOK, host
  <2> QED
    BY <2>2, <2>3
<1>5. CASE WriteFailure(p)
  <2>1. proc[p].pc \notin Locked /\ proc[p].merged \in Status
    BY <1>5 DEF WriteFailure, IsAt, Locked, Window, ActorsOK, FieldsOK
  <2>2. proc' = [proc EXCEPT ![p] = Idle] /\ lock' = lock /\ HostOK'
    BY <1>5, <2>1 DEF WriteFailure, WriteBack, HostOK, host, history
  <2> QED
    BY <2>1, <2>2, IdleOK, FreeMoveOK
<1> QED
  BY <1>1, <1>2, <1>3, <1>4, <1>5

LEMMA ControllerTyped ==
  ASSUME TypeInv,
         InstallCommand \/ Refuse \/ Decide \/ MergeAccept \/ \E w \in Workers : Accept(w)
  PROVE  TypeInv'
<1> USE DEF TypeInv
<1> DEFINE p == Controller
<1>0. p \in Actors /\ proc[p] \in Proc
  BY DEF ActorsOK, Actors
<1>1. CASE InstallCommand
  <2> DEFINE x == At("decide", "check", None)
  <2>1. x \in Proc /\ FieldsOK(x) /\ x.pc \notin Locked /\ proc[p].pc \notin Locked
    BY <1>1 DEF InstallCommand, IsAt, At, Proc, FieldsOK, Locked, Window, UsesRelease, UsesTags,
                UsesVersion
  <2>2. proc' = [proc EXCEPT ![p] = x] /\ lock' = lock /\ HostOK'
    BY <1>1 DEF InstallCommand, HostOK, host, history
  <2> QED
    BY <1>0, <2>1, <2>2, FreeMoveOK
<1>2. CASE Refuse
  <2>1. proc[p].pc \notin Locked
    BY <1>2 DEF Refuse, Locked, Window
  <2>2. proc' = [proc EXCEPT ![p] = Idle] /\ lock' = lock /\ HostOK'
    BY <1>2 DEF Refuse, HostOK, host, history, IsAt
  <2> QED
    BY <1>0, <2>1, <2>2, IdleOK, FreeMoveOK
<1>3. CASE Decide
  <2> DEFINE x == [proc[p] EXCEPT !.pc = "accept"]
  <2>1. x \in Proc /\ x.pc \notin Locked /\ proc[p].pc \notin Locked
    BY <1>0, <1>3 DEF Decide, Proc, Locked, Window
  <2>2. FieldsOK(x)
    BY <1>0 DEF ActorsOK, Proc, FieldsOK, UsesRelease, UsesTags, UsesVersion, Window
  <2>3. proc' = [proc EXCEPT ![p] = x] /\ lock' = lock /\ HostOK'
    BY <1>3 DEF Decide, HostOK, host, history
  <2> HIDE DEF x
  <2> QED
    BY <1>0, <2>1, <2>2, <2>3, FreeMoveOK
<1>4. ASSUME NEW w \in Workers, Accept(w) PROVE TypeInv'
  <2> DEFINE x == At("lock", "update", None)
  <2>1. x \in Proc /\ FieldsOK(x) /\ x.pc \notin Locked
    BY DEF At, Proc, FieldsOK, Locked, Window, UsesRelease, UsesTags, UsesVersion
  <2>2. /\ proc[p].pc \notin Locked /\ proc[w].pc \notin Locked /\ w \in Actors
        /\ proc[p].merged \in Status
    BY <1>0, <1>4 DEF Accept, IsAt, Locked, Window, Actors, ActorsOK, FieldsOK
  <2>3. proc' = [proc EXCEPT ![p] = Idle, ![w] = x] /\ lock' = lock
    BY <1>4 DEF Accept
  <2>4. HostOK'
    BY <1>4, <2>2 DEF Accept, WriteBack, HostOK, host, history
  <2> HIDE DEF x
  <2>5. /\ proc' \in [Actors -> Proc]
        /\ \A q \in Actors : proc'[q] \in {proc[q], Idle, x}
        /\ \A q \in Actors : proc'[q] = proc[q] \/ lock # q
    BY <1>0, <2>1, <2>2, <2>3, IdleOK DEF ActorsOK
  <2>6. \A q \in Actors : FieldsOK(proc'[q])
    BY <2>1, <2>5, IdleOK DEF ActorsOK
  <2>7. \A q \in Actors : lock' = q <=> proc'[q].pc \in Locked
    BY <2>1, <2>2, <2>3, <2>5, IdleOK DEF ActorsOK
  <2>8. ActorsOK'
    BY <2>3, <2>5, <2>6, <2>7 DEF ActorsOK, FieldsOK
  <2> QED
    BY <2>4, <2>8
<1>5. CASE MergeAccept
  <2>1. MergeInto(p, "accepting", "checking") /\ proc[p].pc \notin Locked
    BY <1>5 DEF MergeAccept, IsAt, Locked, Window
  <2>2. ActorsOK'
    BY <1>0, <2>1, MergeOK DEF Writing, Locked, Window, UsesRelease, Phases, ActivePhases
  <2>3. HostOK'
    BY <1>5 DEF MergeAccept, MergeInto, HostOK, host
  <2> QED
    BY <2>2, <2>3
<1> QED
  BY <1>1, <1>2, <1>3, <1>4, <1>5

LEMMA ConsoleTyped ==
  ASSUME TypeInv, NEW c \in Consoles,
         ConsoleUpdate(c) \/ \E v \in Releases : ConsoleInstall(c, v)
  PROVE  TypeInv'
<1> USE DEF TypeInv
<1>0. c \in Actors
  BY DEF Actors
<1>1. ASSUME NEW x \in Proc, FieldsOK(x), x.pc = "lock", IsAt(c, "idle"),
             proc' = [proc EXCEPT ![c] = x], lock' = lock,
             UNCHANGED <<status, host, payload, backups, daemon, stops, history>>
      PROVE  TypeInv'
  <2>1. HostOK'
    BY <1>1 DEF HostOK, host, history
  <2>2. x.pc \notin Locked /\ proc[c].pc \notin Locked
    BY <1>1 DEF IsAt, Locked, Window
  <2> QED
    BY <1>0, <1>1, <2>1, <2>2, FreeMoveOK
<1>2. CASE ConsoleUpdate(c)
  <2>1. At("lock", "update", None) \in Proc /\ FieldsOK(At("lock", "update", None))
    BY DEF At, Proc, FieldsOK, Window, UsesRelease, UsesTags, UsesVersion
  <2> QED
    BY <1>1, <1>2, <2>1 DEF ConsoleUpdate, At
<1>3. ASSUME NEW v \in Releases, ConsoleInstall(c, v) PROVE TypeInv'
  <2>1. At("lock", "install", v) \in Proc /\ FieldsOK(At("lock", "install", v))
    BY DEF At, Proc, FieldsOK, Window, UsesRelease, UsesTags, UsesVersion
  <2> QED
    BY <1>1, <1>3, <2>1 DEF ConsoleInstall, At
<1> QED
  BY <1>2, <1>3

\* The range of what the services and the database become.
LEMMA RangesOK ==
  ASSUME HostOK
  PROVE  /\ \A u \in Releases : HeadOf[u] \in Nat
         /\ \A ok \in BOOLEAN : ServicesUp(ok) => containers' \in [Services -> Releases \cup {Down}]
         /\ \A ok \in BOOLEAN : MigrationWith(tags["api"], ok) => db' \in Nat
<1>1. \A u \in Releases : HeadOf[u] \in Nat
  BY ReleasesAssumption
<1>2. tags["api"] \in Releases
  BY DEF HostOK, Services
<1>3. ASSUME NEW ok \in BOOLEAN, ServicesUp(ok)
      PROVE  containers' \in [Services -> Releases \cup {Down}]
  <2>1. CASE ok
    BY <1>3, <2>1 DEF ServicesUp, HostOK
  <2>2. CASE ~ ok
    BY <1>3, <2>2 DEF ServicesUp, HostOK
  <2> QED
    BY <2>1, <2>2
<1> QED
  BY <1>1, <1>2, <1>3 DEF MigrationWith, HostOK

\* An install up to the point where it changes the host, and its end.
LEMMA PreparationTyped ==
  ASSUME TypeInv, NEW p \in Actors,
         \/ Fetch(p) \/ (\E v \in Releases : ReadManifest(p, v)) \/ Download(p) \/ BackUp(p)
         \/ Archive(p) \/ Archived(p) \/ Load(p) \/ Complete(p) \/ Retain(p) \/ Break(p)
  PROVE  TypeInv'
<1> USE RangesOK DEF TypeInv
<1>0. proc[p] \in Proc /\ FieldsOK(proc[p])
  BY DEF ActorsOK
<1>1. CASE Fetch(p)
  <2>1. HostOK'
    BY <1>1 DEF Fetch, SetPhase, Advance, HostOK, Status, Phases, ActivePhases, host
  <2> QED
    BY <1>1, <2>1, AdvanceOK DEF Fetch, IsAt, Locked, Window, UsesRelease, UsesTags, UsesVersion
<1>2. ASSUME NEW v \in Releases, ReadManifest(p, v) PROVE TypeInv'
  <2>1. CurrentVersion \in Releases
    BY DEF CurrentVersion, HostOK
  <2>2. proc[p].pc \in Locked
    BY <1>2 DEF ReadManifest, IsAt, Locked
  <2>3. CASE CurrentVersion < v /\ proc[p].task = "update"
    <3> DEFINE x == [proc[p] EXCEPT !.pc = "download", !.release = v]
    <3>1. x \in Proc /\ x.pc \in Locked
      BY <1>0 DEF Proc, Locked
    <3>2. FieldsOK(x)
      BY <1>0 DEF Proc, FieldsOK, UsesRelease, UsesTags, UsesVersion, Window
    <3>3. /\ proc' = [proc EXCEPT ![p] = x] /\ lock' = lock /\ lock = p
          /\ torn' = torn /\ cutOff' = cutOff
      BY <1>2, <2>2, <2>3 DEF ReadManifest, ActorsOK
    <3>4. HostOK'
      BY <1>2, <2>1, <3>3 DEF ReadManifest, HostOK, Status, Phases, host
    <3> HIDE DEF x
    <3> QED
      BY <3>1, <3>2, <3>3, <3>4, MoveOK
  <2>4. CASE ~ (CurrentVersion < v /\ proc[p].task = "update")
    <3>1. Done(p)
      BY <1>2, <2>4 DEF ReadManifest
    <3>2. HostOK'
      BY <1>2, <2>1, <3>1, <2>2, DoneOK DEF ReadManifest, HostOK, Status, Phases, host
    <3> QED
      BY <2>2, <3>1, <3>2, DoneOK
  <2> QED
    BY <2>3, <2>4
<1>3. CASE Download(p)
  <2>1. proc[p].pc \in Locked /\ proc[p].release \in Releases
    BY <1>0, <1>3 DEF Download, IsAt, Locked, FieldsOK, UsesRelease
  <2>2. CASE Raise(p) /\ SetPhase("downloading") /\ UNCHANGED payload
    <3>1. HostOK'
      BY <1>3, <2>2 DEF Download, Raise, SetPhase, HostOK, Status, Phases, ActivePhases, host
    <3> QED
      BY <2>1, <2>2, <3>1, RaiseOK
  <2>3. CASE Advance(p, "backup") /\ SetPhase("verifying")
             /\ payload' = payload \cup {proc[p].release}
    <3>1. HostOK'
      BY <1>3, <2>1, <2>3 DEF Download, Advance, SetPhase, HostOK, Status, Phases, ActivePhases,
         host
    <3> QED
      BY <1>3, <2>3, <3>1, AdvanceOK DEF Download, IsAt, Locked, Window, UsesRelease, UsesTags,
         UsesVersion
  <2> QED
    BY <1>3, <2>2, <2>3 DEF Download
<1>4. CASE BackUp(p)
  <2>1. HostOK'
    BY <1>4 DEF BackUp, SetPhase, Advance, HostOK, Status, Phases, ActivePhases, host
  <2> QED
    BY <1>4, <2>1, AdvanceOK DEF BackUp, IsAt, Locked, Window, UsesRelease, UsesTags, UsesVersion
<1>5. CASE Archive(p)
  <2>1. HeadOf[tags["api"]] \in Nat /\ db \in Nat
    BY DEF HostOK, Services
  <2>2. backups' \subseteq [label : Nat, holds : Nat]
    BY <1>5, <2>1 DEF Archive, HostOK
  <2>3. PICK pc \in {"backed", "unbacked"} : MergeInto(p, pc, status.phase)
    BY <1>5 DEF Archive
  <2>4. HostOK'
    BY <1>5, <2>2, <2>3 DEF Archive, MergeInto, HostOK, host
  <2>5. proc[p].pc = "archive" /\ proc[p].release \in Releases /\ status.phase \in Phases
    BY <1>0, <1>5 DEF Archive, IsAt, FieldsOK, UsesRelease, HostOK, Status
  <2>6. ActorsOK'
    BY <2>3, <2>5, MergeOK DEF Writing, Locked, Window
  <2> QED
    BY <2>4, <2>6
<1>6. CASE Load(p)
  <2> DEFINE x == [proc[p] EXCEPT !.pc = "tagApi", !.tags = tags]
  <2>1. proc[p].pc = "load" /\ tags \in [Services -> Releases]
    BY <1>6 DEF Load, IsAt, HostOK
  <2>2. x \in Proc /\ x.pc \in Locked /\ proc[p].pc \in Locked
    BY <1>0, <2>1 DEF Proc, Locked
  <2>3. FieldsOK(x)
    BY <1>0, <2>1 DEF Proc, FieldsOK, UsesRelease, UsesTags, UsesVersion, Window
  <2>4. proc' = [proc EXCEPT ![p] = x] /\ lock' = lock /\ lock = p
    BY <1>6, <2>2 DEF Load, ActorsOK
  <2>5. HostOK'
    BY <1>6 DEF Load, SetPhase, HostOK, Status, Phases, ActivePhases, host, history
  <2> HIDE DEF x
  <2> QED
    BY <2>2, <2>3, <2>4, <2>5, MoveOK
<1>7. CASE Complete(p)
  <2> DEFINE x == [proc[p] EXCEPT !.pc = "retain"]
  <2>1. proc[p].pc = "finish" /\ proc[p].release \in Releases
    BY <1>0, <1>7 DEF Complete, IsAt, FieldsOK, UsesRelease
  <2>2. x \in Proc /\ x.pc \in Locked /\ proc[p].pc \in Locked
    BY <1>0, <2>1 DEF Proc, Locked
  <2>3. FieldsOK(x)
    BY <1>0, <2>1 DEF Proc, FieldsOK, UsesRelease, UsesTags, UsesVersion, Window
  <2>4. proc' = [proc EXCEPT ![p] = x] /\ lock' = lock /\ lock = p
    BY <1>7, <2>2 DEF Complete, ActorsOK
  <2>5. HostOK'
    BY <1>7, <2>1 DEF Complete, HostOK, Status, Phases, host
  <2> HIDE DEF x
  <2> QED
    BY <2>2, <2>3, <2>4, <2>5, MoveOK
<1>8. CASE Retain(p)
  <2>1. proc[p].pc \in Locked /\ Done(p)
    BY <1>8 DEF Retain, IsAt, Locked
  <2>2. payload' \subseteq Releases
    BY <1>8 DEF Retain, HostOK
  <2>3. HostOK'
    BY <1>8, <2>2 DEF Retain, Done, HostOK, host
  <2> QED
    BY <2>1, <2>3, DoneOK
<1>9. CASE Break(p)
  <2>1. HostOK'
    BY <1>9 DEF Break, Raise, HostOK, host
  <2> QED
    BY <1>9, <2>1, RaiseOK DEF Break
<1>10. CASE Archived(p)
  <2>1. /\ proc[p].pc \in {"backed", "unbacked"} /\ proc[p].pc \in Locked
        /\ proc[p].merged \in Status
    BY <1>0, <1>10 DEF Archived, IsAt, Locked, FieldsOK
  <2>2. status' = proc[p].merged
    BY <1>10 DEF Archived, WriteBack
  <2>3. CASE Raise(p)
    <3>1. HostOK'
      BY <1>10, <2>1, <2>2, <2>3 DEF Archived, Raise, HostOK, host
    <3> QED
      BY <2>1, <2>3, <3>1, RaiseOK
  <2>4. CASE ~ Raise(p)
    <3> DEFINE x == [proc[p] EXCEPT !.pc = "load", !.merged = None]
    <3>1. /\ proc[p].pc = "backed" /\ lock' = lock /\ torn' = torn /\ cutOff' = cutOff
          /\ proc' = [proc EXCEPT ![p] = x]
      BY <1>10, <2>4 DEF Archived, IsAt, ActorsOK
    <3>2. x \in Proc /\ x.pc \in Locked
      BY <1>0 DEF Proc, Locked
    <3>3. FieldsOK(x)
      BY <1>0, <3>1 DEF Proc, FieldsOK, UsesRelease, UsesTags, UsesVersion, Window
    <3>4. HostOK'
      BY <1>10, <2>1, <2>2, <3>1 DEF Archived, HostOK, host
    <3>5. lock = p
      BY <2>1 DEF ActorsOK
    <3> HIDE DEF x
    <3> QED
      BY <3>1, <3>2, <3>3, <3>4, <3>5, MoveOK
  <2> QED
    BY <2>3, <2>4
<1> QED
  BY <1>1, <1>2, <1>3, <1>4, <1>5, <1>6, <1>7, <1>8, <1>9, <1>10

\* An install and its rollback while they change the host.
LEMMA InstallTyped ==
  ASSUME TypeInv, NEW p \in Actors,
         \/ TagApi(p) \/ TagWeb(p) \/ WriteVersion(p) \/ Migrate(p) \/ WriteSchema(p)
         \/ Restart(p) \/ Validate(p) \/ WriteMarker(p)
         \/ RollBack(p) \/ RetagApi(p) \/ RetagWeb(p) \/ ReUp(p)
  PROVE  TypeInv'
<1> USE DEF TypeInv
<1>0. proc[p] \in Proc /\ FieldsOK(proc[p])
  BY DEF ActorsOK
<1>1. CASE TagApi(p)
  <2>1. HostOK'
    BY <1>0, <1>1, RangesOK DEF TagApi, Advance, SetPhase, HostOK, Status, Phases, ActivePhases,
       IsAt, FieldsOK, UsesRelease, UsesTags, UsesVersion, Window, Services
  <2> QED
    BY <1>1, <2>1, AdvanceOK DEF TagApi, IsAt, Locked, Window, UsesRelease, UsesTags, UsesVersion
<1>2. CASE TagWeb(p)
  <2>1. HostOK'
    BY <1>0, <1>2, RangesOK DEF TagWeb, Advance, SetPhase, HostOK, Status, Phases, ActivePhases,
       IsAt, FieldsOK, UsesRelease, UsesTags, UsesVersion, Window, Services
  <2> QED
    BY <1>2, <2>1, AdvanceOK DEF TagWeb, IsAt, Locked, Window, UsesRelease, UsesTags, UsesVersion
<1>3. CASE WriteVersion(p)
  <2> DEFINE x == [proc[p] EXCEPT !.pc = "migrate", !.version = env.version]
  <2>1. proc[p].pc = "envVersion" /\ proc[p].release \in Releases /\ env.version \in Releases
    BY <1>0, <1>3 DEF WriteVersion, IsAt, FieldsOK, UsesRelease, Window, HostOK
  <2>2. x \in Proc /\ x.pc \in Locked /\ proc[p].pc \in Locked
    BY <1>0, <2>1 DEF Proc, Locked, Window
  <2>3. FieldsOK(x)
    BY <1>0, <2>1 DEF Proc, FieldsOK, UsesRelease, UsesTags, UsesVersion, Window
  <2>4. proc' = [proc EXCEPT ![p] = x] /\ lock' = lock /\ lock = p
    BY <1>3, <2>2 DEF WriteVersion, ActorsOK
  <2>5. HostOK'
    BY <1>3, <2>1 DEF WriteVersion, SetPhase, HostOK, Status, Phases, ActivePhases, history
  <2> HIDE DEF x
  <2> QED
    BY <2>2, <2>3, <2>4, <2>5, MoveOK
<1>4. CASE Migrate(p)
  <2>1. PICK ok \in BOOLEAN : /\ MigrationWith(tags["api"], ok)
                              /\ Advance(p, IF ok THEN "envSchema" ELSE "rollback")
    BY <1>4 DEF Migrate
  <2>2. HostOK'
    BY <1>4, <2>1, RangesOK DEF Migrate, Advance, HostOK
  <2> QED
    BY <1>4, <2>1, <2>2, AdvanceOK DEF Migrate, IsAt, Locked, Window, UsesRelease, UsesTags,
       UsesVersion
<1>5. CASE WriteSchema(p)
  <2>1. HostOK'
    BY <1>0, <1>5, RangesOK DEF WriteSchema, Advance, SetPhase, HostOK, Status, Phases,
       ActivePhases,
       IsAt, FieldsOK, UsesRelease, UsesTags, UsesVersion, Window, Services
  <2> QED
    BY <1>5, <2>1, AdvanceOK DEF WriteSchema, IsAt, Locked, Window, UsesRelease, UsesTags,
       UsesVersion
<1>6. CASE Restart(p)
  <2>1. PICK ok \in BOOLEAN :
          /\ ServicesUp(ok)
          /\ status' = IF ok THEN [status EXCEPT !.phase = "validating"] ELSE status
          /\ Advance(p, IF ok THEN "validate" ELSE "rollback")
    BY <1>6 DEF Restart
  <2>2. HostOK'
    BY <1>6, <2>1, RangesOK DEF Restart, Advance, HostOK, Status, Phases, ActivePhases
  <2> QED
    BY <1>6, <2>1, <2>2, AdvanceOK DEF Restart, IsAt, Locked, Window, UsesRelease, UsesTags,
       UsesVersion
<1>7. CASE Validate(p)
  <2>1. proc[p].release \in Releases
    BY <1>0, <1>7 DEF Validate, IsAt, FieldsOK, UsesRelease, Window
  <2>2. PICK pc \in {"marker", "rollback"} : Advance(p, pc)
    BY <1>7 DEF Validate
  <2>3. HostOK'
    BY <1>7, <2>1 DEF Validate, Advance, HostOK, host
  <2> QED
    BY <1>7, <2>2, <2>3, AdvanceOK DEF Validate, IsAt, Locked, Window, UsesRelease, UsesTags,
       UsesVersion
<1>8. CASE WriteMarker(p)
  <2>1. HostOK'
    BY <1>0, <1>8, RangesOK DEF WriteMarker, Advance, SetPhase, HostOK, Status, Phases,
       ActivePhases,
       IsAt, FieldsOK, UsesRelease, UsesTags, UsesVersion, Window, Services
  <2> QED
    BY <1>8, <2>1, AdvanceOK DEF WriteMarker, IsAt, Locked, Window, UsesRelease, UsesTags,
       UsesVersion
<1>9. CASE RollBack(p)
  <2>1. HostOK'
    BY <1>0, <1>9, RangesOK DEF RollBack, Advance, SetPhase, HostOK, Status, Phases, ActivePhases,
       IsAt, FieldsOK, UsesRelease, UsesTags, UsesVersion, Window, Services
  <2> QED
    BY <1>9, <2>1, AdvanceOK DEF RollBack, IsAt, Locked, Window, UsesRelease, UsesTags,
       UsesVersion
<1>10. CASE RetagApi(p)
  <2>1. HostOK'
    BY <1>0, <1>10, RangesOK DEF RetagApi, Advance, SetPhase, HostOK, Status, Phases,
       ActivePhases,
       IsAt, FieldsOK, UsesRelease, UsesTags, UsesVersion, Window, Services
  <2> QED
    BY <1>10, <2>1, AdvanceOK DEF RetagApi, IsAt, Locked, Window, UsesRelease, UsesTags,
       UsesVersion
<1>11. CASE RetagWeb(p)
  <2>1. HostOK'
    BY <1>0, <1>11, RangesOK DEF RetagWeb, Advance, SetPhase, HostOK, Status, Phases,
       ActivePhases,
       IsAt, FieldsOK, UsesRelease, UsesTags, UsesVersion, Window, Services
  <2> QED
    BY <1>11, <2>1, AdvanceOK DEF RetagWeb, IsAt, Locked, Window, UsesRelease, UsesTags,
       UsesVersion
<1>12. CASE ReUp(p)
  <2>1. PICK ok \in BOOLEAN : MigrationWith(tags["api"], ok) /\ ServicesUp(ok)
    BY <1>12 DEF ReUp
  <2>2. HostOK'
    BY <1>12, <2>1, RangesOK DEF ReUp, Raise, SetPhase, HostOK, Status, Phases
  <2> QED
    BY <1>12, <2>2, RaiseOK DEF ReUp, IsAt, Locked
<1> QED
  BY <1>1, <1>2, <1>3, <1>4, <1>5, <1>6, <1>7, <1>8, <1>9, <1>10, <1>11, <1>12

LEMMA KillOK ==
  ASSUME TypeInv, NEW P \in SUBSET Actors, Kill(P)
  PROVE  /\ ActorsOK' /\ torn' \in BOOLEAN /\ cutOff' \in BOOLEAN /\ stops' \in 0..MaxStops
         /\ \A q \in Actors : proc'[q] = proc[q] \/ (q \in P /\ proc'[q] = Idle)
<1> USE DEF TypeInv
<1>1. /\ proc' = [q \in Actors |-> IF q \in P THEN Idle ELSE proc[q]]
      /\ lock' = IF lock \in P THEN None ELSE lock
      /\ torn' = (torn \/ \E q \in P : proc[q].pc \in Window)
      /\ cutOff' = (cutOff \/ \E q \in P : proc[q].pc \in Window)
      /\ stops < MaxStops /\ stops' = stops + 1
  BY DEF Kill
<1>2. proc' \in [Actors -> Proc] /\ lock' \in Actors \cup {None}
  BY <1>1, IdleOK DEF ActorsOK
<1>3. ASSUME NEW q \in Actors
      PROVE  FieldsOK(proc'[q]) /\ (lock' = q <=> proc'[q].pc \in Locked)
  <2>1. q # None
    BY ActorsAssumption DEF Actors
  <2>2. CASE q \in P
    BY <1>1, <2>1, <2>2, IdleOK
  <2>3. CASE q \notin P
    BY <1>1, <2>1, <2>3 DEF ActorsOK
  <2> QED
    BY <2>2, <2>3
<1>4. ActorsOK'
  BY <1>2, <1>3 DEF ActorsOK, FieldsOK
<1>5. torn' \in BOOLEAN /\ cutOff' \in BOOLEAN
  BY <1>1
<1>6. stops' \in 0..MaxStops
  BY <1>1, StopsAssumption DEF HostOK
<1> QED
  BY <1>1, <1>4, <1>5, <1>6

LEMMA InterruptionTyped ==
  ASSUME TypeInv, DaemonOK,
         \/ PowerLoss \/ DaemonStops \/ (\E c \in Consoles : ConsoleKilled(c))
         \/ BootServices \/ StartDaemon \/ MergeRecovery \/ WriteRecovery
  PROVE  TypeInv'
<1> USE DEF TypeInv
<1>1. CASE PowerLoss
  <2>1. Kill(Actors) /\ Actors \in SUBSET Actors
    BY <1>1 DEF PowerLoss
  <2>2. ActorsOK' /\ torn' \in BOOLEAN /\ cutOff' \in BOOLEAN /\ stops' \in 0..MaxStops
    BY <2>1, KillOK
  <2>3. HostOK'
    BY <1>1, <2>2 DEF PowerLoss, HostOK, Both
  <2> QED
    BY <2>2, <2>3
<1>2. CASE DaemonStops
  <2>1. Kill({Controller} \cup Workers) /\ {Controller} \cup Workers \in SUBSET Actors
    BY <1>2 DEF DaemonStops, Actors
  <2>2. ActorsOK' /\ torn' \in BOOLEAN /\ cutOff' \in BOOLEAN /\ stops' \in 0..MaxStops
    BY <2>1, KillOK
  <2>3. HostOK'
    BY <1>2, <2>2 DEF DaemonStops, HostOK, host
  <2> QED
    BY <2>2, <2>3
<1>3. ASSUME NEW c \in Consoles, ConsoleKilled(c) PROVE TypeInv'
  <2>1. Kill({c}) /\ {c} \in SUBSET Actors
    BY <1>3 DEF ConsoleKilled, Actors
  <2>2. ActorsOK' /\ torn' \in BOOLEAN /\ cutOff' \in BOOLEAN /\ stops' \in 0..MaxStops
    BY <2>1, KillOK
  <2>3. HostOK'
    BY <1>3, <2>2 DEF ConsoleKilled, HostOK, host
  <2> QED
    BY <2>2, <2>3
<1>4. CASE BootServices
  <2>1. ActorsOK'
    BY <1>4 DEF BootServices, ActorsOK, FieldsOK
  <2>2. PICK ok \in BOOLEAN : MigrationWith(tags["api"], ok) /\ ServicesUp(ok)
    BY <1>4 DEF BootServices
  <2>3. HostOK'
    BY <1>4, <2>2, RangesOK DEF BootServices, HostOK, history
  <2> QED
    BY <2>1, <2>3
<1>5. CASE StartDaemon
  <2>1. PICK pc \in {"idle", "start", "recover"} :
          proc' = [proc EXCEPT ![Controller] = At(pc, "check", None)]
    BY <1>5 DEF StartDaemon
  <2> DEFINE x == At(pc, "check", None)
  <2>0. proc' = [proc EXCEPT ![Controller] = x]
    BY <2>1
  <2>2. x \in Proc /\ FieldsOK(x) /\ x.pc \notin Locked
    BY DEF At, Proc, FieldsOK, Locked, Window, UsesRelease, UsesTags, UsesVersion
  <2>3. proc[Controller].pc \notin Locked /\ lock' = lock /\ Controller \in Actors
    BY <1>5 DEF StartDaemon, DaemonOK, IsAt, Locked, Window, Actors
  <2>4. HostOK'
    BY <1>5 DEF StartDaemon, HostOK, host, history
  <2> HIDE DEF x
  <2> QED
    BY <2>0, <2>2, <2>3, <2>4, FreeMoveOK
<1>6. CASE MergeRecovery
  <2>1. /\ MergeInto(Controller, "recovering", "failed") /\ proc[Controller].pc \notin Locked
        /\ Controller \in Actors
    BY <1>6 DEF MergeRecovery, IsAt, Locked, Window, Actors
  <2>2. ActorsOK'
    BY <2>1, MergeOK DEF Writing, Locked, Window, UsesRelease, Phases
  <2>3. HostOK'
    BY <1>6 DEF MergeRecovery, MergeInto, HostOK, host
  <2> QED
    BY <2>2, <2>3
<1>7. CASE WriteRecovery
  <2>1. PICK pc \in {"idle", "start"} :
          proc' = [proc EXCEPT ![Controller] = At(pc, "check", None)]
    BY <1>7 DEF WriteRecovery
  <2> DEFINE x == At(pc, "check", None)
  <2>2. proc' = [proc EXCEPT ![Controller] = x] /\ lock' = lock /\ Controller \in Actors
    BY <1>7, <2>1 DEF WriteRecovery, Actors
  <2>3. x \in Proc /\ FieldsOK(x) /\ x.pc \notin Locked
    BY DEF At, Proc, FieldsOK, Locked, Unlocked, Window, UsesRelease, UsesTags, UsesVersion
  <2>4. proc[Controller].pc \notin Locked /\ proc[Controller].merged \in Status
    BY <1>7, <2>2 DEF WriteRecovery, IsAt, Locked, Window, ActorsOK, FieldsOK
  <2>5. HostOK'
    BY <1>7, <2>4 DEF WriteRecovery, WriteBack, HostOK, host, history
  <2> HIDE DEF x
  <2> QED
    BY <2>2, <2>3, <2>4, <2>5, FreeMoveOK
<1> QED
  BY <1>1, <1>2, <1>3, <1>4, <1>5, <1>6, <1>7

-----------------------------------------------------------------------------
(* The daemon, and the type invariant. *)

\* A step of one actor moves that actor only, and not from where nothing runs.
LEMMA StepOthers ==
  ASSUME ActorsOK, NEW p \in Actors, Step(p)
  PROVE  Others(p) /\ proc[p].pc # "idle" /\ daemon' = daemon
<1> USE DEF IsAt, Others, Advance, MergeInto, Raise, Done, ActorsOK
<1>1. CASE TakeLock(p)
  BY <1>1 DEF TakeLock
<1>2. CASE Report(p)
  BY <1>2 DEF Report
<1>3. CASE Fetch(p)
  BY <1>3 DEF Fetch
<1>4. CASE Download(p)
  BY <1>4 DEF Download
<1>5. CASE BackUp(p)
  BY <1>5 DEF BackUp
<1>6. CASE Archive(p)
  BY <1>6 DEF Archive
<1>7. CASE Load(p)
  BY <1>7 DEF Load
<1>8. CASE TagApi(p)
  BY <1>8 DEF TagApi
<1>9. CASE TagWeb(p)
  BY <1>9 DEF TagWeb
<1>10. CASE WriteVersion(p)
  BY <1>10 DEF WriteVersion
<1>11. CASE Migrate(p)
  BY <1>11 DEF Migrate
<1>12. CASE WriteSchema(p)
  BY <1>12 DEF WriteSchema
<1>13. CASE Restart(p)
  BY <1>13 DEF Restart
<1>14. CASE Validate(p)
  BY <1>14 DEF Validate
<1>15. CASE WriteMarker(p)
  BY <1>15 DEF WriteMarker
<1>16. CASE Complete(p)
  BY <1>16 DEF Complete
<1>17. CASE Retain(p)
  BY <1>17 DEF Retain
<1>18. CASE RollBack(p)
  BY <1>18 DEF RollBack
<1>19. CASE RetagApi(p)
  BY <1>19 DEF RetagApi
<1>20. CASE RetagWeb(p)
  BY <1>20 DEF RetagWeb
<1>21. CASE ReUp(p)
  BY <1>21 DEF ReUp
<1>22. CASE Break(p)
  BY <1>22 DEF Break, Locked, Window
<1>23. ASSUME NEW v \in Releases, ReadManifest(p, v)
      PROVE  Others(p) /\ proc[p].pc # "idle" /\ daemon' = daemon
  BY <1>23 DEF ReadManifest
<1>24. CASE MergeFailure(p) \/ WriteFailure(p)
  BY <1>24 DEF MergeFailure, WriteFailure
<1>25. CASE Archived(p)
  BY <1>25 DEF Archived
<1> QED
  BY <1>1, <1>2, <1>3, <1>4, <1>5, <1>6, <1>7, <1>8, <1>9, <1>10, <1>11, <1>12,
     <1>13, <1>14, <1>15, <1>16, <1>17, <1>18, <1>19, <1>20, <1>21, <1>22, <1>23, <1>24, <1>25
  DEF Step, UnderLock

LEMMA NextDaemonOK ==
  ASSUME TypeInv, DaemonOK, [Next]_vars
  PROVE  DaemonOK'
<1> USE DEF DaemonOK, IsAt
<1>1. ASSUME NEW p \in Actors, Step(p) PROVE DaemonOK'
  BY <1>1, StepOthers DEF TypeInv, Others, Actors
<1>2. ASSUME NEW p \in Actors, Check(p) PROVE DaemonOK'
  BY <1>2 DEF Check, TypeInv, ActorsOK, Actors
<1>3. CASE InstallCommand
  BY <1>3 DEF InstallCommand
<1>4. CASE Decide
  BY <1>4 DEF Decide
<1>5. CASE Refuse
  BY <1>5, IdleOK DEF Refuse, TypeInv, ActorsOK, Actors
<1>6. ASSUME NEW w \in Workers, Accept(w) PROVE DaemonOK'
  BY <1>6 DEF Accept
<1>7. ASSUME NEW c \in Consoles, ConsoleUpdate(c) PROVE DaemonOK'
  BY <1>7, ActorsAssumption DEF ConsoleUpdate, TypeInv, ActorsOK, Actors
<1>8. ASSUME NEW c \in Consoles, NEW v \in Releases, ConsoleInstall(c, v) PROVE DaemonOK'
  BY <1>8, ActorsAssumption DEF ConsoleInstall, TypeInv, ActorsOK, Actors
<1>9. CASE PowerLoss
  BY <1>9, IdleOK, KillOK DEF PowerLoss, Kill, Actors
<1>10. CASE DaemonStops
  BY <1>10, IdleOK DEF DaemonStops, Kill, Actors
<1>11. ASSUME NEW c \in Consoles, ConsoleKilled(c) PROVE DaemonOK'
  BY <1>11, IdleOK DEF ConsoleKilled, Kill, Actors
<1>12. CASE StartDaemon
  BY <1>12 DEF StartDaemon
<1>13. CASE BootServices
  BY <1>13 DEF BootServices
<1>14. CASE UNCHANGED vars
  BY <1>14 DEF vars
<1>15. CASE MergeAccept \/ MergeRecovery \/ WriteRecovery
  BY <1>15 DEF MergeAccept, MergeRecovery, WriteRecovery
<1> QED
  BY <1>1, <1>2, <1>3, <1>4, <1>5, <1>6, <1>7, <1>8, <1>9, <1>10, <1>11, <1>12, <1>13, <1>14,
     <1>15
  DEF Next

LEMMA NextTypeInv ==
  ASSUME TypeInv, DaemonOK, [Next]_vars
  PROVE  TypeInv'
<1>1. ASSUME NEW p \in Actors, Step(p) PROVE TypeInv'
  BY <1>1, CommandTyped, PreparationTyped, InstallTyped DEF Step, UnderLock
<1>2. CASE UNCHANGED vars
  BY <1>2 DEF vars, TypeInv, ActorsOK, HostOK, FieldsOK
<1>3. ASSUME NEW p \in Actors, Check(p) PROVE TypeInv'
  BY <1>3, CommandTyped
<1>4. ASSUME NEW c \in Consoles,
             ConsoleUpdate(c) \/ ConsoleKilled(c) \/ \E v \in Releases : ConsoleInstall(c, v)
      PROVE  TypeInv'
  BY <1>4, ConsoleTyped, InterruptionTyped
<1> QED
  BY <1>1, <1>2, <1>3, <1>4, ControllerTyped, InterruptionTyped DEF Next

LEMMA InitTypeInv == Init => TypeInv /\ DaemonOK
<1> SUFFICES ASSUME Init PROVE TypeInv /\ DaemonOK
  OBVIOUS
<1>1. HostOK
  <2>1. Factory \in Releases /\ HeadOf[Factory] \in Nat /\ 0 \in 0..MaxStops
    BY ReleasesAssumption, StopsAssumption
  <2>2. Both(Factory) \in [Services -> Releases] /\ Both(Factory) \in [Services -> Releases \cup {Down}]
    BY <2>1 DEF Both
  <2>3. status \in Status /\ env \in [version : Releases, schema : Nat]
    BY <2>1 DEF Init, Status, Phases
  <2> QED
    BY <2>1, <2>2, <2>3 DEF Init, HostOK
<1>2. \A p \in Actors : p # None
  BY ActorsAssumption DEF Actors
<1>3. ActorsOK
  BY <1>2, IdleOK DEF Init, ActorsOK
<1> QED
  BY <1>1, <1>3, IdleOK DEF Init, TypeInv, DaemonOK, IsAt

LEMMA ActorsInOrder == Spec => [](TypeInv /\ DaemonOK)
<1>1. TypeInv /\ DaemonOK /\ [Next]_vars => (TypeInv /\ DaemonOK)'
  BY NextTypeInv, NextDaemonOK
<1> QED
  BY <1>1, InitTypeInv, PTL DEF Spec

\* Every file and actor is in a state it can be in, and exactly the holder of
\* the lock is at a stage that needs it.
THEOREM TypeCorrect == Spec => []TypeOK
<1>1. TypeInv => TypeOK
  BY DEF TypeInv, ActorsOK, HostOK, TypeOK
<1> QED
  BY <1>1, ActorsInOrder, PTL

-----------------------------------------------------------------------------
(* What an install has done to the host at each stage. *)

AllOf(f, v) == f["api"] = v /\ f["web"] = v

Installed == IF marker = None THEN Factory ELSE marker

\* A backup from which the installed release can go on.
Recoverable == [label |-> HeadOf[Installed], holds |-> HeadOf[Installed]] \in backups

Forward == {"migrate", "envSchema", "restart", "validate", "marker", "finish"}
Sensitive == Window \cup {"backed", "load", "tagApi", "reup", "finish"}

\* What the steps so far have brought onto the host.
Stage(p) ==
  LET pc == proc[p].pc
      r == proc[p].release
  IN  /\ pc = "tagWeb" => tags["api"] = r
      /\ pc \in Forward \cup {"envVersion"} => AllOf(tags, r)
      /\ pc \in Forward => env.version = r
      /\ pc \in Forward \ {"migrate"} => db = HeadOf[r]
      /\ pc \in {"validate", "marker", "finish"} =>
           containers["api"] \in {r, Down} /\ containers["web"] \in {r, Down}
      /\ pc \in {"marker", "finish"} => r \in validated
      /\ pc = "finish" => marker = r
      /\ pc \in Sensitive \ {"finish"} => Recoverable
      /\ pc \in Sensitive \ {"backed", "load"} => status.phase # "completed"

\* Release v was installed, and f remembers it.
Before(f, v) == AllOf(f, v) /\ marker \in {v, None} /\ v \in validated

\* What a rollback would restore is what was there, if that was one release.
Undo(p) ==
  LET pc == proc[p].pc
  IN  /\ pc \in {"tagApi", "tagWeb", "envVersion"} => Before(proc[p].tags, env.version)
      /\ pc \in {"migrate", "envSchema", "restart", "validate", "rollback", "retagApi", "retagWeb"}
           => Before(proc[p].tags, proc[p].version)
      /\ pc \in {"retagApi", "retagWeb"} => env.version = proc[p].version
      /\ pc = "retagWeb" => tags["api"] = proc[p].version

\* Nothing is half done.
Settled == AllOf(tags, env.version) /\ marker \in {env.version, None} /\ env.version \in validated

Completed ==
  status.phase = "completed" =>
    /\ AllOf(tags, env.version) /\ env.version = marker
    /\ marker = status.current /\ marker \in validated /\ db = HeadOf[marker]
    /\ containers["api"] \in {marker, Down} /\ containers["web"] \in {marker, Down}

\* The schema and what the api would migrate it to are those of the installed
\* release, or there is a way back.
WayBack == Recoverable \/ (HeadOf[tags["api"]] = HeadOf[Installed] /\ db = HeadOf[Installed])

\* "completed" is never what the second half of write_state brings back.
Pending ==
  \A p \in Actors :
    /\ proc[p].pc = "archive" => status.phase # "completed"
    /\ proc[p].pc \in Writing => proc[p].merged.phase # "completed"

Global ==
  /\ ~ torn /\ ~ Changing => Settled
  /\ Completed
  /\ WayBack

Base == TypeInv /\ DaemonOK

Inv == Base /\ (\A p \in Actors : Stage(p) /\ (~ torn => Undo(p))) /\ Global

LEMMA SensitiveLocked == Sensitive \subseteq Locked /\ Window \subseteq Sensitive
BY DEF Sensitive, Locked

\* Away from those stages nothing is said of an actor.
LEMMA NothingSaid ==
  ASSUME NEW p \in Actors, proc[p].pc \notin Sensitive
  PROVE  Stage(p) /\ Undo(p)
BY DEF Stage, Undo, Sensitive, Window, Forward

LEMMA NothingSaidNext ==
  ASSUME NEW p \in Actors, proc'[p].pc \notin Sensitive
  PROVE  Stage(p)' /\ Undo(p)'
BY DEF Stage, Undo, Sensitive, Window, Forward

\* Beside the holder of the lock, nothing is said of anybody.
LEMMA OthersSilent ==
  ASSUME Base, NEW p \in Actors, proc[p].pc \in Locked, Others(p),
         NEW q \in Actors \ {p}
  PROVE  Stage(q)' /\ Undo(q)' /\ proc'[q].pc \notin Window
<1>1. proc'[q].pc \notin Sensitive
  BY SensitiveLocked DEF Base, TypeInv, ActorsOK, Others
<1> QED
  BY <1>1, NothingSaidNext, SensitiveLocked

\* A step that leaves the host alone, or cuts its services off.
LEMMA Quiet ==
  ASSUME Inv, Base',
         UNCHANGED <<env, marker, tags, db, validated>>,
         containers' = containers \/ containers' = Both(Down),
         backups \subseteq backups',
         torn' \in BOOLEAN, torn => torn',
         \A p \in Actors : \/ proc'[p] = proc[p]
                           \/ proc'[p].pc \notin Sensitive /\ (torn' \/ proc[p].pc \notin Window),
         status'.phase = "completed" => status' = status
  PROVE  Inv'
<1>1. Recoverable => Recoverable'
  BY DEF Recoverable, Installed
<1>2. ASSUME NEW s \in Services PROVE containers'[s] \in {containers[s], Down}
  BY <1>2 DEF Both
<1>3. ASSUME NEW p \in Actors PROVE Stage(p)' /\ (~ torn' => Undo(p)')
  <2>1. CASE proc'[p].pc \notin Sensitive
    BY <2>1, NothingSaidNext
  <2>2. CASE proc'[p].pc \in Sensitive
    <3>1. proc'[p] = proc[p]
      BY <2>2
    <3>2. Stage(p) /\ (~ torn' => Undo(p))
      BY DEF Inv
    <3>3. Stage(p)'
      BY <1>1, <1>2, <3>1, <3>2 DEF Stage, AllOf, Services
    <3>4. ~ torn' => Undo(p)'
      BY <3>1, <3>2 DEF Undo, Before, AllOf
    <3> QED
      BY <3>3, <3>4
  <2> QED
    BY <2>1, <2>2
<1>4. ~ torn' /\ ~ Changing' => Settled'
  <2>1. ~ torn' /\ ~ Changing' => ~ torn /\ ~ Changing
    BY DEF Changing
  <2> QED
    BY <2>1 DEF Inv, Global, Settled, AllOf
<1>6. Completed'
  BY <1>2 DEF Inv, Global, Completed, AllOf, Services
<1>7. WayBack'
  BY <1>1 DEF Inv, Global, WayBack, Installed
<1> QED
  BY <1>3, <1>4, <1>6, <1>7 DEF Inv, Global

\* A step of an install from a stage to the next.
LEMMA InWindow ==
  ASSUME Inv, Base', NEW p \in Actors, proc[p].pc \in Locked, Others(p),
         proc'[p].pc \in Window, torn' = torn,
         validated \subseteq validated',
         Stage(p)', ~ torn' => Undo(p)', WayBack'
  PROVE  Inv'
<1>1. \A q \in Actors \ {p} : Stage(q)' /\ Undo(q)'
  BY OthersSilent DEF Inv
<1>2. Changing'
  BY DEF Changing
<1>3. status'.phase # "completed"
  BY DEF Stage, Sensitive, Window
<1> QED
  BY <1>1, <1>2, <1>3 DEF Inv, Global, Completed

\* What the first half of write_state changes.
LEMMA MergeKeeps ==
  ASSUME ActorsOK, NEW p \in Actors, NEW pc, NEW ph, MergeInto(p, pc, ph)
  PROVE  /\ Others(p) /\ proc'[p].pc = pc /\ proc'[p].merged = [status EXCEPT !.phase = ph]
         /\ proc'[p].task = proc[p].task /\ torn' = torn /\ cutOff' = cutOff
<1> DEFINE m == [status EXCEPT !.phase = ph]
<1>1. /\ proc' = [proc EXCEPT ![p].pc = pc, ![p].merged = m] /\ proc[p] \in Proc
      /\ torn' = torn /\ cutOff' = cutOff
  BY DEF MergeInto, ActorsOK
<1> HIDE DEF m
<1>2. proc'[p] = [proc[p] EXCEPT !.pc = pc, !.merged = m] /\ Others(p)
  BY <1>1 DEF ActorsOK, Others
<1>3. proc'[p].pc = pc /\ proc'[p].merged = m /\ proc'[p].task = proc[p].task
  <2>1. \A r \in Proc : LET s == [r EXCEPT !.pc = pc, !.merged = m]
                        IN  s.pc = pc /\ s.merged = m /\ s.task = r.task
    BY SMTT(30) DEF Proc
  <2> QED
    BY <1>1, <1>2, <2>1
<1> QED
  BY <1>1, <1>2, <1>3 DEF m

\* Steps that do not touch what is installed.
LEMMA QuietSteps ==
  ASSUME Inv, Base', NEW p \in Actors,
         \/ Check(p) \/ Report(p) \/ MergeFailure(p) \/ WriteFailure(p)
         \/ TakeLock(p) \/ Fetch(p) \/ (\E v \in Releases : ReadManifest(p, v))
         \/ Download(p) \/ BackUp(p) \/ Retain(p) \/ Break(p)
  PROVE  Inv'
<1> USE DEF host, history
<1>0. /\ ActorsOK /\ HostOK /\ proc[p] \in Proc /\ torn \in BOOLEAN
      /\ status \in Status
  BY DEF Inv, Base, TypeInv, ActorsOK, HostOK
<1>1. CASE Check(p)
  <2>1. \A q \in Actors : proc'[q] = proc[q] \/ (q = p /\ proc'[q].pc = "lock" /\ proc[q].pc = "idle")
    BY <1>0, <1>1 DEF Check, IsAt, At, ActorsOK
  <2> QED
    BY <1>0, <1>1, <2>1, Quiet DEF Check, Sensitive, Window
<1>2. CASE Report(p)
  <2>1. \A q \in Actors : proc'[q] = proc[q] \/
          (q = p /\ proc'[q].pc \in {"idle", "merge"} /\ proc[q].pc = "report")
    BY <1>0, <1>2, IdleOK DEF Report, IsAt, ActorsOK, Proc
  <2> QED
    BY <1>0, <1>2, <2>1, Quiet DEF Report, Sensitive, Window
<1>3. CASE TakeLock(p)
  <2>1. CASE lock # None
    <3>1. Raise(p) /\ proc[p].pc = "lock"
      BY <1>3, <2>1 DEF TakeLock, IsAt
    <3>2. Others(p) /\ proc'[p].pc \in {"idle", "report"} /\ torn' = torn
      BY <1>0, <3>1, RaiseOK DEF Window
    <3> QED
      BY <1>0, <1>3, <3>1, <3>2, Quiet DEF TakeLock, Others, Sensitive, Window
  <2>2. CASE lock = None
    <3>1. /\ proc[p].pc = "lock" /\ Others(p) /\ proc'[p].pc \in {"backup", "fetch"}
          /\ torn' = torn
      <4> DEFINE pc == IF proc[p].task = "install" THEN "backup" ELSE "fetch"
      <4>1. pc \in {"backup", "fetch"}
        OBVIOUS
      <4>2. proc[p].pc = "lock" /\ proc' = [proc EXCEPT ![p].pc = pc] /\ torn' = torn
        BY <1>3, <2>2 DEF TakeLock, IsAt
      <4> HIDE DEF pc
      <4> QED
        BY <1>0, <4>1, <4>2 DEF ActorsOK, Proc, Others
    <3> QED
      BY <1>0, <1>3, <3>1, Quiet DEF TakeLock, Others, Sensitive, Window
  <2> QED
    BY <2>1, <2>2
<1>4. CASE Fetch(p)
  <2>1. /\ proc[p].pc = "fetch" /\ Others(p) /\ proc'[p].pc = "manifest" /\ torn' = torn
        /\ status'.current = status.current /\ status'.phase = "checking"
    BY <1>0, <1>4 DEF Fetch, Advance, SetPhase, IsAt, ActorsOK, Others, Status
  <2> QED
    BY <1>0, <1>4, <2>1, Quiet DEF Fetch, Others, Sensitive, Window
<1>5. ASSUME NEW v \in Releases, ReadManifest(p, v) PROVE Inv'
  <2>1. proc[p].pc = "manifest" /\ lock = p
    BY <1>0, <1>5 DEF ReadManifest, IsAt, ActorsOK, Locked
  <2>2. ~ Changing
    BY <1>0, <2>1 DEF Changing, ActorsOK, Locked, Window
  <2>3. Others(p) /\ proc'[p].pc \in {"download", "idle"} /\ torn' = torn
    <3>1. CASE CurrentVersion < v /\ proc[p].task = "update"
      <4>1. /\ proc' = [proc EXCEPT ![p].pc = "download", ![p].release = v]
            /\ torn' = torn
        BY <1>5, <3>1 DEF ReadManifest
      <4>2. proc'[p] = [proc[p] EXCEPT !.pc = "download", !.release = v] /\ Others(p)
        BY <1>0, <4>1 DEF ActorsOK, Others
      <4> QED
        BY <1>0, <4>1, <4>2 DEF Proc
    <3>2. CASE ~ (CurrentVersion < v /\ proc[p].task = "update")
      <4>1. Done(p) /\ proc[p].pc \in Locked
        BY <1>5, <2>1, <3>2 DEF ReadManifest, Locked
      <4> QED
        BY <1>0, <4>1, IdleOK, DoneOK
    <3> QED
      BY <3>1, <3>2
  <2>4. status'.current = CurrentVersion /\ status'.phase # "completed"
    BY <1>0, <1>5 DEF ReadManifest, Status
  <2> QED
    BY <1>0, <1>5, <2>1, <2>2, <2>3, <2>4, Quiet DEF ReadManifest, Others, Sensitive, Window
<1>6. CASE Download(p)
  <2>1. proc[p].pc = "download" /\ proc[p].pc \in Locked
    BY <1>6 DEF Download, IsAt, Locked
  <2>2. CASE Raise(p) /\ SetPhase("downloading")
    <3>1. Others(p) /\ proc'[p].pc \in {"idle", "report"} /\ torn' = torn
      BY <1>0, <2>1, <2>2, RaiseOK DEF Window
    <3>2. status'.current = status.current /\ status'.phase = "downloading"
      BY <1>0, <2>2 DEF SetPhase, Status
    <3> QED
      BY <1>0, <1>6, <2>1, <3>1, <3>2, Quiet DEF Download, Others, Sensitive, Window
  <2>3. CASE Advance(p, "backup") /\ SetPhase("verifying")
    <3>1. Others(p) /\ proc'[p].pc = "backup" /\ torn' = torn
      BY <1>0, <2>1, <2>3 DEF Advance, ActorsOK, Others
    <3>2. status'.current = status.current /\ status'.phase = "verifying"
      BY <1>0, <2>3 DEF SetPhase, Status
    <3> QED
      BY <1>0, <1>6, <2>1, <3>1, <3>2, Quiet DEF Download, Others, Sensitive, Window
  <2> QED
    BY <1>6, <2>2, <2>3 DEF Download
<1>7. CASE BackUp(p)
  <2>1. /\ proc[p].pc = "backup" /\ Others(p) /\ proc'[p].pc = "archive" /\ torn' = torn
        /\ status'.current = status.current /\ status'.phase = "backing_up"
    BY <1>0, <1>7 DEF BackUp, Advance, SetPhase, IsAt, ActorsOK, Others, Status
  <2> QED
    BY <1>0, <1>7, <2>1, Quiet DEF BackUp, Others, Sensitive, Window
<1>8. CASE Retain(p)
  <2>1. proc[p].pc = "retain" /\ proc[p].pc \in Locked /\ Done(p)
    BY <1>8 DEF Retain, IsAt, Locked
  <2>2. Others(p) /\ proc'[p] = Idle /\ torn' = torn
    BY <1>0, <2>1, DoneOK
  <2> QED
    BY <1>0, <1>8, <2>1, <2>2, IdleOK, Quiet DEF Retain, Others, Sensitive, Window
<1>9. CASE Break(p)
  <2>1. proc[p].pc \in Locked /\ Raise(p)
    BY <1>9 DEF Break
  <2>2. /\ Others(p) /\ proc'[p].pc \in {"idle", "report"}
        /\ torn' = (torn \/ proc[p].pc \in Window)
    BY <1>0, <2>1, RaiseOK
  <2>3. /\ proc'[p].pc \notin Sensitive
        /\ torn' \in BOOLEAN /\ (torn => torn') /\ (torn' \/ proc[p].pc \notin Window)
    BY <1>0, <2>2 DEF Sensitive, Window
  <2> QED
    BY <1>0, <1>9, <2>2, <2>3, Quiet DEF Break, Others
<1>10. CASE MergeFailure(p)
  <2>1. proc[p].pc = "merge" /\ Others(p) /\ proc'[p].pc = "failing" /\ torn' = torn
    BY <1>0, <1>10, MergeKeeps DEF MergeFailure, IsAt
  <2> QED
    BY <1>0, <1>10, <2>1, Quiet DEF MergeFailure, Others, Sensitive, Window
<1>11. CASE WriteFailure(p)
  <2>1. \A q \in Actors : proc'[q] = proc[q] \/ (q = p /\ proc'[q] = Idle /\ proc[q].pc = "failing")
    BY <1>0, <1>11 DEF WriteFailure, IsAt, ActorsOK
  <2>2. status'.phase = "failed"
    BY <1>0, <1>11 DEF WriteFailure, WriteBack, IsAt, ActorsOK, FieldsOK
  <2> QED
    BY <1>0, <1>11, <2>1, <2>2, IdleOK, Quiet DEF WriteFailure, Sensitive, Window
<1> QED
  BY <1>1, <1>2, <1>3, <1>4, <1>5, <1>6, <1>7, <1>8, <1>9, <1>10, <1>11

LEMMA QuietCommands ==
  ASSUME Inv, Base',
         \/ InstallCommand \/ Refuse \/ Decide \/ MergeAccept \/ (\E w \in Workers : Accept(w))
         \/ (\E c \in Consoles : ConsoleUpdate(c) \/ \E v \in Releases : ConsoleInstall(c, v))
         \/ StartDaemon \/ MergeRecovery \/ WriteRecovery \/ UNCHANGED vars
  PROVE  Inv'
<1> USE DEF host, history
<1>0. /\ ActorsOK /\ Controller \in Actors /\ torn \in BOOLEAN /\ status \in Status
      /\ Consoles \subseteq Actors /\ Workers \subseteq Actors
  BY DEF Inv, Base, TypeInv, HostOK, Actors
<1> DEFINE Free == {"idle", "decide", "accept", "accepting", "lock", "start", "recover",
                    "recovering"}
           Moves == \A q \in Actors : proc'[q] = proc[q] \/
                                     (proc'[q].pc \in Free /\ proc[q].pc \in Free)
<1>1. ASSUME Moves, UNCHANGED <<env, marker, tags, db, validated, containers, backups, torn>>,
             status'.phase = "completed" => status' = status
      PROVE  Inv'
  <2>1. \A q \in Actors : \/ proc'[q] = proc[q]
                          \/ proc'[q].pc \notin Sensitive /\ proc[q].pc \notin Window
    BY <1>1 DEF Sensitive, Window
  <2> HIDE DEF Moves
  <2> QED
    BY <1>0, <1>1, <2>1, Quiet
<1>2. CASE InstallCommand
  <2>1. Moves
    BY <1>0, <1>2 DEF InstallCommand, IsAt, At, ActorsOK
  <2> QED
    BY <1>1, <1>2, <2>1 DEF InstallCommand
<1>3. CASE Refuse
  <2>1. Moves
    BY <1>0, <1>3, IdleOK DEF Refuse, ActorsOK
  <2> QED
    BY <1>1, <1>3, <2>1 DEF Refuse
<1>4. CASE Decide
  <2>1. Moves
    BY <1>0, <1>4 DEF Decide, ActorsOK, Proc
  <2> QED
    BY <1>1, <1>4, <2>1 DEF Decide
<1>5. ASSUME NEW w \in Workers, Accept(w) PROVE Inv'
  <2>1. Moves
    BY <1>0, <1>5, IdleOK DEF Accept, IsAt, At, ActorsOK
  <2>2. status'.phase = "checking"
    BY <1>0, <1>5 DEF Accept, WriteBack, IsAt, ActorsOK, FieldsOK
  <2> QED
    BY <1>1, <1>5, <2>1, <2>2 DEF Accept
<1>6. ASSUME NEW c \in Consoles, ConsoleUpdate(c) PROVE Inv'
  <2>1. Moves
    BY <1>0, <1>6 DEF ConsoleUpdate, IsAt, At, ActorsOK
  <2> QED
    BY <1>1, <1>6, <2>1 DEF ConsoleUpdate
<1>7. ASSUME NEW c \in Consoles, NEW v \in Releases, ConsoleInstall(c, v) PROVE Inv'
  <2>1. Moves
    BY <1>0, <1>7 DEF ConsoleInstall, IsAt, At, ActorsOK
  <2> QED
    BY <1>1, <1>7, <2>1 DEF ConsoleInstall
<1>8. CASE StartDaemon
  <2>1. proc[Controller].pc = "idle"
    BY <1>8 DEF StartDaemon, Inv, Base, DaemonOK, IsAt
  <2>2. Moves
    BY <1>0, <1>8, <2>1 DEF StartDaemon, At, ActorsOK
  <2> QED
    BY <1>1, <1>8, <2>2 DEF StartDaemon
<1>9. CASE UNCHANGED vars
  BY <1>1, <1>9 DEF vars
<1>10. CASE MergeAccept
  <2>1. /\ proc[Controller].pc = "accept" /\ Others(Controller) /\ proc'[Controller].pc = "accepting"
        /\ torn' = torn
    BY <1>0, <1>10, MergeKeeps DEF MergeAccept, IsAt
  <2> QED
    BY <1>1, <1>10, <2>1 DEF MergeAccept, Others
<1>11. CASE MergeRecovery
  <2>1. /\ proc[Controller].pc = "recover" /\ Others(Controller)
        /\ proc'[Controller].pc = "recovering" /\ torn' = torn
    BY <1>0, <1>11, MergeKeeps DEF MergeRecovery, IsAt
  <2> QED
    BY <1>1, <1>11, <2>1 DEF MergeRecovery, Others
<1>12. CASE WriteRecovery
  <2>1. Moves
    BY <1>0, <1>12 DEF WriteRecovery, IsAt, At, ActorsOK
  <2>2. status'.phase = "failed"
    BY <1>0, <1>12 DEF WriteRecovery, WriteBack, IsAt, ActorsOK, FieldsOK
  <2> QED
    BY <1>1, <1>12, <2>1, <2>2 DEF WriteRecovery
<1> QED
  BY <1>2, <1>3, <1>4, <1>5, <1>6, <1>7, <1>8, <1>9, <1>10, <1>11, <1>12

\* An interruption ends actors; one in the middle of an install leaves it torn.
LEMMA QuietInterruptions ==
  ASSUME Inv, Base', PowerLoss \/ DaemonStops \/ \E c \in Consoles : ConsoleKilled(c)
  PROVE  Inv'
<1> USE DEF host
<1>1. PICK P \in SUBSET Actors : Kill(P)
  BY DEF PowerLoss, DaemonStops, ConsoleKilled, Actors
<1>2. /\ torn' = (torn \/ \E q \in P : proc[q].pc \in Window)
      /\ \A q \in Actors : proc'[q] = proc[q] \/ (q \in P /\ proc'[q] = Idle)
  BY <1>1 DEF Kill
<1>3. \A q \in Actors : \/ proc'[q] = proc[q]
                        \/ proc'[q].pc \notin Sensitive /\ (torn' \/ proc[q].pc \notin Window)
  BY <1>2, IdleOK, SensitiveLocked
<1>4. torn' \in BOOLEAN /\ (torn => torn')
  BY <1>2 DEF Inv, Base, TypeInv, HostOK
<1>5. /\ UNCHANGED <<status, env, marker, tags, db, validated, backups>>
      /\ containers' = containers \/ containers' = Both(Down)
  BY DEF PowerLoss, DaemonStops, ConsoleKilled
<1> QED
  BY <1>3, <1>4, <1>5, Quiet

\* What an actor that advances takes along.
Keeps(p) == /\ proc'[p].release = proc[p].release
            /\ proc'[p].tags = proc[p].tags
            /\ proc'[p].version = proc[p].version

LEMMA AdvanceKeeps ==
  ASSUME ActorsOK, NEW p \in Actors, NEW pc, Advance(p, pc)
  PROVE  Others(p) /\ Keeps(p) /\ proc'[p].pc = pc /\ torn' = torn
<1>1. proc' = [proc EXCEPT ![p].pc = pc] /\ torn' = torn /\ proc[p] \in Proc
  BY DEF Advance, ActorsOK
<1>2. proc'[p] = [proc[p] EXCEPT !.pc = pc] /\ Others(p)
  BY <1>1 DEF ActorsOK, Others
<1> QED
  BY <1>1, <1>2 DEF Proc, Keeps

\* The holder of the lock is alone in an install.
LEMMA Alone ==
  ASSUME Inv, NEW p \in Actors, proc[p].pc \in Locked \ Window
  PROVE  ~ Changing /\ (~ torn => Settled)
<1>1. ~ Changing
  BY DEF Inv, Base, TypeInv, ActorsOK, Changing, Locked
<1> QED
  BY <1>1 DEF Inv, Global

\* What holds of the actor and the host before any step of an install.
LEMMA Known ==
  ASSUME Inv, NEW p \in Actors
  PROVE  /\ ActorsOK /\ HostOK /\ Stage(p) /\ (~ torn => Undo(p))
         /\ proc[p] \in Proc /\ FieldsOK(proc[p]) /\ status \in Status
         /\ torn \in BOOLEAN /\ tags \in [Services -> Releases]
         /\ WayBack
BY DEF Inv, Base, TypeInv, ActorsOK, HostOK, Global

\* The last steps before the host changes: a backup, and what was there is kept.
LEMMA PreparationStep ==
  ASSUME Inv, Pending, Base', NEW p \in Actors, Archive(p) \/ Archived(p) \/ Load(p)
  PROVE  Inv'
<1> USE Known DEF host, history
<1>1. CASE Archive(p)
  <2>1. proc[p].pc = "archive" /\ proc[p].pc \in Locked \ Window
    BY <1>1 DEF Archive, IsAt, Locked, Window
  <2>2. PICK pc \in {"backed", "unbacked"} :
          /\ MergeInto(p, pc, status.phase)
          /\ pc = "backed" => backups' = backups \cup {[label |-> HeadOf[tags["api"]], holds |-> db]}
          /\ backups \subseteq backups'
    BY <1>1 DEF Archive
  <2>3. Others(p) /\ proc'[p].pc = pc /\ torn' = torn
    BY <2>2, MergeKeeps
  <2>4. CASE pc = "unbacked"
    BY <1>1, <2>1, <2>2, <2>3, <2>4, Quiet DEF Archive, Others, Sensitive, Window
  <2>5. CASE pc = "backed"
    <3>1. ~ Changing /\ (~ torn => Settled)
      BY <2>1, Alone
    <3>2. Recoverable'
      BY <1>1, <2>2, <2>5 DEF Archive, WayBack, Recoverable, Installed
    <3>3. Stage(p)' /\ Undo(p)'
      BY <2>3, <2>5, <3>2 DEF Stage, Undo, Sensitive, Window, Forward
    <3>4. \A q \in Actors \ {p} : Stage(q)' /\ Undo(q)'
      BY <2>1, <2>3, OthersSilent DEF Inv
    <3>5. Settled' <=> Settled
      BY <1>1 DEF Archive, Settled, AllOf
    <3>6. Completed' /\ WayBack'
      BY <1>1, <3>2 DEF Archive, Inv, Global, Completed, AllOf, WayBack
    <3> QED
      BY <2>3, <3>1, <3>3, <3>4, <3>5, <3>6 DEF Inv, Global
  <2> QED
    BY <2>4, <2>5
<1>3. CASE Archived(p)
  <2>1. /\ proc[p].pc \in {"backed", "unbacked"} /\ proc[p].pc \in Locked \ Window
        /\ status'.phase # "completed"
    BY <1>3 DEF Archived, IsAt, Locked, Window, WriteBack, Pending, Writing
  <2>2. UNCHANGED <<host, backups, validated>>
    BY <1>3 DEF Archived
  <2>3. CASE Raise(p)
    <3>1. Others(p) /\ proc'[p].pc \in {"idle", "report"} /\ torn' = torn
      BY <2>1, <2>3, RaiseOK
    <3> QED
      BY <2>1, <2>2, <3>1, Quiet DEF Others, Sensitive, Window
  <2>4. CASE ~ Raise(p)
    <3>1. /\ proc[p].pc = "backed" /\ torn' = torn
          /\ proc' = [proc EXCEPT ![p].pc = "load", ![p].merged = None]
      BY <1>3, <2>4 DEF Archived, IsAt
    <3>2. proc'[p] = [proc[p] EXCEPT !.pc = "load", !.merged = None] /\ Others(p)
      BY <3>1 DEF ActorsOK, Others
    <3>3. proc'[p].pc = "load"
      BY <3>2 DEF Proc
    <3>4. ~ Changing /\ (~ torn => Settled)
      BY <2>1, Alone
    <3>5. Recoverable'
      BY <2>2, <3>1 DEF Stage, Recoverable, Installed, Sensitive
    <3>6. Stage(p)' /\ Undo(p)'
      BY <3>3, <3>5 DEF Stage, Undo, Sensitive, Window, Forward
    <3>7. \A q \in Actors \ {p} : Stage(q)' /\ Undo(q)'
      BY <2>1, <3>2, OthersSilent DEF Inv
    <3>8. Settled' <=> Settled
      BY <2>2 DEF Settled, AllOf
    <3>9. Completed' /\ WayBack'
      BY <2>1, <3>5 DEF Completed, WayBack
    <3> QED
      BY <3>1, <3>4, <3>6, <3>7, <3>8, <3>9 DEF Inv, Global
  <2> QED
    BY <2>3, <2>4
<1>2. CASE Load(p)
  <2>1. /\ proc[p].pc = "load"
        /\ proc' = [proc EXCEPT ![p].pc = "tagApi", ![p].tags = tags]
    BY <1>2 DEF Load, IsAt
  <2>2. proc'[p] = [proc[p] EXCEPT !.pc = "tagApi", !.tags = tags] /\ Others(p)
    BY <2>1 DEF ActorsOK, Others
  <2>3. proc'[p].pc = "tagApi" /\ proc'[p].tags = tags
    BY <2>2 DEF Proc
  <2>4. ~ Changing /\ (~ torn => Settled) /\ proc[p].pc \in Locked
    BY <2>1, Alone DEF Locked, Window
  <2>5. status'.phase = "installing" /\ status'.current = status.current
    BY <1>2 DEF Load, SetPhase, Status
  <2>6. Recoverable'
    BY <1>2, <2>1 DEF Load, Stage, Recoverable, Installed, Sensitive
  <2>7. Stage(p)' /\ (~ torn' => Undo(p)')
    BY <1>2, <2>3, <2>4, <2>5, <2>6
    DEF Load, Stage, Undo, Sensitive, Window, Forward, Before, Settled, AllOf
  <2>8. \A q \in Actors \ {p} : Stage(q)' /\ Undo(q)'
    BY <2>2, <2>4, OthersSilent DEF Inv
  <2>9. Settled' <=> Settled
    BY <1>2 DEF Load, Settled, AllOf
  <2>10. Completed' /\ WayBack'
    BY <1>2, <2>5, <2>6 DEF Load, Completed, WayBack
  <2>11. torn' = torn
    BY <1>2 DEF Load
  <2> QED
    BY <2>4, <2>7, <2>8, <2>9, <2>10, <2>11 DEF Inv, Global
<1> QED
  BY <1>1, <1>2, <1>3

\* The images, the environment file and its schema, forward and back.
LEMMA WindowStep ==
  ASSUME Inv, Base', NEW p \in Actors,
         \/ TagApi(p) \/ TagWeb(p) \/ WriteSchema(p) \/ RollBack(p) \/ RetagApi(p)
  PROVE  Inv'
<1> USE Known
<1>1. CASE TagApi(p)
  <2>1. proc[p].pc = "tagApi" /\ proc[p].pc \in Locked /\ Advance(p, "tagWeb")
    BY <1>1 DEF TagApi, IsAt, Locked, Window
  <2>2. Others(p) /\ Keeps(p) /\ proc'[p].pc = "tagWeb" /\ torn' = torn
    BY <2>1, AdvanceKeeps
  <2>3. /\ tags'["api"] = proc[p].release /\ UNCHANGED status
    BY <1>1, <2>1 DEF TagApi, SetPhase, Status, HostOK, Services
  <2>4. UNCHANGED <<marker, backups, validated>> /\ (Recoverable => Recoverable')
    BY <1>1 DEF TagApi, Recoverable, Installed
  <2>5. Stage(p)' /\ (~ torn' => Undo(p)')
    BY <1>1, <2>1, <2>2, <2>3, <2>4, Stage(p), ~ torn => Undo(p)
    DEF TagApi, Keeps, Stage, Undo, Before, Settled, AllOf, Sensitive, Window, Forward
  <2>6. WayBack'
    BY <2>2, <2>5 DEF Stage, WayBack, Sensitive, Window
  <2>7. proc'[p].pc \in Window
    BY <2>2 DEF Window
  <2> QED
    BY <2>1, <2>2, <2>3, <2>4, <2>5, <2>6, <2>7, InWindow
<1>2. CASE TagWeb(p)
  <2>1. proc[p].pc = "tagWeb" /\ proc[p].pc \in Locked /\ Advance(p, "envVersion")
    BY <1>2 DEF TagWeb, IsAt, Locked, Window
  <2>2. Others(p) /\ Keeps(p) /\ proc'[p].pc = "envVersion" /\ torn' = torn
    BY <2>1, AdvanceKeeps
  <2>3. /\ tags'["web"] = proc[p].release /\ tags'["api"] = tags["api"]
        /\ UNCHANGED status
    BY <1>2, <2>1 DEF TagWeb, SetPhase, Status, HostOK, Services
  <2>4. UNCHANGED <<marker, backups, validated>> /\ (Recoverable => Recoverable')
    BY <1>2 DEF TagWeb, Recoverable, Installed
  <2>5. Stage(p)' /\ (~ torn' => Undo(p)')
    BY <1>2, <2>1, <2>2, <2>3, <2>4, Stage(p), ~ torn => Undo(p)
    DEF TagWeb, Keeps, Stage, Undo, Before, Settled, AllOf, Sensitive, Window, Forward
  <2>6. WayBack'
    BY <2>2, <2>5 DEF Stage, WayBack, Sensitive, Window
  <2>7. proc'[p].pc \in Window
    BY <2>2 DEF Window
  <2> QED
    BY <2>1, <2>2, <2>3, <2>4, <2>5, <2>6, <2>7, InWindow
<1>3. CASE WriteSchema(p)
  <2>1. proc[p].pc = "envSchema" /\ proc[p].pc \in Locked /\ Advance(p, "restart")
    BY <1>3 DEF WriteSchema, IsAt, Locked, Window
  <2>2. Others(p) /\ Keeps(p) /\ proc'[p].pc = "restart" /\ torn' = torn
    BY <2>1, AdvanceKeeps
  <2>3. /\ status'.current = status.current /\ status'.phase = "restarting"
        /\ env'.version = env.version
    BY <1>3, <2>1 DEF WriteSchema, SetPhase, Status, HostOK, Services
  <2>4. UNCHANGED <<marker, backups, validated>> /\ (Recoverable => Recoverable')
    BY <1>3 DEF WriteSchema, Recoverable, Installed
  <2>5. Stage(p)' /\ (~ torn' => Undo(p)')
    BY <1>3, <2>1, <2>2, <2>3, <2>4, Stage(p), ~ torn => Undo(p)
    DEF WriteSchema, Keeps, Stage, Undo, Before, Settled, AllOf, Sensitive, Window, Forward
  <2>6. WayBack'
    BY <2>2, <2>5 DEF Stage, WayBack, Sensitive, Window
  <2>7. proc'[p].pc \in Window
    BY <2>2 DEF Window
  <2> QED
    BY <2>1, <2>2, <2>3, <2>4, <2>5, <2>6, <2>7, InWindow
<1>4. CASE RollBack(p)
  <2>1. proc[p].pc = "rollback" /\ proc[p].pc \in Locked /\ Advance(p, "retagApi")
    BY <1>4 DEF RollBack, IsAt, Locked, Window
  <2>2. Others(p) /\ Keeps(p) /\ proc'[p].pc = "retagApi" /\ torn' = torn
    BY <2>1, AdvanceKeeps
  <2>3. /\ status'.current = status.current /\ status'.phase = "rolling_back"
        /\ env'.version = proc[p].version
    BY <1>4, <2>1 DEF RollBack, SetPhase, Status, HostOK, Services
  <2>4. UNCHANGED <<marker, backups, validated>> /\ (Recoverable => Recoverable')
    BY <1>4 DEF RollBack, Recoverable, Installed
  <2>5. Stage(p)' /\ (~ torn' => Undo(p)')
    BY <1>4, <2>1, <2>2, <2>3, <2>4, Stage(p), ~ torn => Undo(p)
    DEF RollBack, Keeps, Stage, Undo, Before, Settled, AllOf, Sensitive, Window, Forward
  <2>6. WayBack'
    BY <2>2, <2>5 DEF Stage, WayBack, Sensitive, Window
  <2>7. proc'[p].pc \in Window
    BY <2>2 DEF Window
  <2> QED
    BY <2>1, <2>2, <2>3, <2>4, <2>5, <2>6, <2>7, InWindow
<1>5. CASE RetagApi(p)
  <2>1. proc[p].pc = "retagApi" /\ proc[p].pc \in Locked /\ Advance(p, "retagWeb")
    BY <1>5 DEF RetagApi, IsAt, Locked, Window
  <2>2. Others(p) /\ Keeps(p) /\ proc'[p].pc = "retagWeb" /\ torn' = torn
    BY <2>1, AdvanceKeeps
  <2>3. /\ tags'["api"] = proc[p].tags["api"] /\ UNCHANGED status
    BY <1>5, <2>1 DEF RetagApi, SetPhase, Status, HostOK, Services
  <2>4. UNCHANGED <<marker, backups, validated>> /\ (Recoverable => Recoverable')
    BY <1>5 DEF RetagApi, Recoverable, Installed
  <2>5. Stage(p)' /\ (~ torn' => Undo(p)')
    BY <1>5, <2>1, <2>2, <2>3, <2>4, Stage(p), ~ torn => Undo(p)
    DEF RetagApi, Keeps, Stage, Undo, Before, Settled, AllOf, Sensitive, Window, Forward
  <2>6. WayBack'
    BY <2>2, <2>5 DEF Stage, WayBack, Sensitive, Window
  <2>7. proc'[p].pc \in Window
    BY <2>2 DEF Window
  <2> QED
    BY <2>1, <2>2, <2>3, <2>4, <2>5, <2>6, <2>7, InWindow
<1> QED
  BY <1>1, <1>2, <1>3, <1>4, <1>5

\* What compose leaves behind.
LEMMA ServicesAfter ==
  ASSUME NEW ok \in BOOLEAN, ServicesUp(ok), NEW s \in Services
  PROVE  containers'[s] \in {tags[s], containers[s]}
<1>1. CASE ok
  BY <1>1 DEF ServicesUp
<1>2. CASE ~ ok
  <2>1. PICK S \in SUBSET Services :
          containers' = [t \in Services |-> IF t \in S THEN tags[t] ELSE containers[t]]
    BY <1>2 DEF ServicesUp
  <2> QED
    BY <2>1
<1> QED
  BY <1>1, <1>2

\* The environment file, and the commands that may fail into a rollback.
LEMMA CommandStep ==
  ASSUME Inv, Base', NEW p \in Actors,
         WriteVersion(p) \/ Migrate(p) \/ Restart(p) \/ Validate(p)
  PROVE  Inv'
<1> USE Known
<1>1. CASE WriteVersion(p)
  <2>1. /\ proc[p].pc = "envVersion" /\ proc[p].pc \in Locked
        /\ proc' = [proc EXCEPT ![p].pc = "migrate", ![p].version = env.version]
    BY <1>1 DEF WriteVersion, IsAt, Locked, Window
  <2>2. /\ proc'[p] = [proc[p] EXCEPT !.pc = "migrate", !.version = env.version] /\ Others(p)
    BY <2>1 DEF ActorsOK, Others
  <2>3. /\ proc'[p].pc = "migrate" /\ proc'[p].version = env.version
        /\ proc'[p].tags = proc[p].tags /\ proc'[p].release = proc[p].release
    BY <2>2 DEF Proc
  <2>4. /\ status'.current = status.current /\ status'.phase = "migrating"
        /\ env'.version = proc[p].release
    BY <1>1 DEF WriteVersion, SetPhase, Status, HostOK
  <2>5. UNCHANGED <<marker, backups, validated, tags, torn>> /\ (Recoverable => Recoverable')
    BY <1>1 DEF WriteVersion, history, Recoverable, Installed
  <2>6. Stage(p)' /\ (~ torn' => Undo(p)')
    BY <2>1, <2>3, <2>4, <2>5, Stage(p), ~ torn => Undo(p)
    DEF Keeps, Stage, Undo, Before, Settled, AllOf, Sensitive, Window, Forward
  <2>7. WayBack'
    BY <2>3, <2>6 DEF Stage, WayBack, Sensitive, Window
  <2>8. proc'[p].pc \in Window
    BY <2>3 DEF Window
  <2> QED
    BY <2>1, <2>2, <2>4, <2>5, <2>6, <2>7, <2>8, InWindow
<1>2. CASE Migrate(p)
  <2>1. PICK ok \in BOOLEAN : /\ MigrationWith(tags["api"], ok)
                              /\ Advance(p, IF ok THEN "envSchema" ELSE "rollback")
    BY <1>2 DEF Migrate
  <2> DEFINE pc == IF ok THEN "envSchema" ELSE "rollback"
  <2>2. proc[p].pc = "migrate" /\ proc[p].pc \in Locked
    BY <1>2 DEF Migrate, IsAt, Locked, Window
  <2>3. Others(p) /\ Keeps(p) /\ proc'[p].pc = pc /\ torn' = torn
    BY <2>1, AdvanceKeeps
  <2>4. /\ UNCHANGED <<marker, backups, validated, tags, env, status>>
        /\ Recoverable => Recoverable'
    BY <1>2 DEF Migrate, Recoverable, Installed
  <2>5. ok => db' = HeadOf[tags["api"]]
    BY <2>1 DEF MigrationWith
  <2>6. Stage(p)' /\ (~ torn' => Undo(p)')
    BY <2>2, <2>3, <2>4, <2>5, Stage(p), ~ torn => Undo(p)
    DEF Keeps, Stage, Undo, Before, Settled, AllOf, Sensitive, Window, Forward
  <2>7. proc'[p].pc \in Window
    BY <2>3 DEF Window
  <2>8. WayBack'
    BY <2>6, <2>7, <2>3 DEF Stage, WayBack, Sensitive
  <2> QED
    BY <2>2, <2>3, <2>4, <2>6, <2>7, <2>8, InWindow
<1>3. CASE Restart(p)
  <2>1. PICK ok \in BOOLEAN :
          /\ ServicesUp(ok)
          /\ status' = IF ok THEN [status EXCEPT !.phase = "validating"] ELSE status
          /\ Advance(p, IF ok THEN "validate" ELSE "rollback")
    BY <1>3 DEF Restart
  <2> DEFINE pc == IF ok THEN "validate" ELSE "rollback"
  <2>2. proc[p].pc = "restart" /\ proc[p].pc \in Locked
    BY <1>3 DEF Restart, IsAt, Locked, Window
  <2>3. Others(p) /\ Keeps(p) /\ proc'[p].pc = pc /\ torn' = torn
    BY <2>1, AdvanceKeeps
  <2>4. /\ UNCHANGED <<marker, backups, validated, tags, env, db>>
        /\ Recoverable => Recoverable'
    BY <1>3 DEF Restart, Recoverable, Installed
  <2>5. ok => containers' = tags
    BY <2>1 DEF ServicesUp
  <2>6. status'.current = status.current /\ status'.phase \in {status.phase, "validating"}
    BY <2>1 DEF Status
  <2>7. Stage(p)' /\ (~ torn' => Undo(p)')
    BY <2>2, <2>3, <2>4, <2>5, <2>6, Stage(p), ~ torn => Undo(p)
    DEF Keeps, Stage, Undo, Before, Settled, AllOf, Sensitive, Window, Forward
  <2>8. proc'[p].pc \in Window
    BY <2>3 DEF Window
  <2>9. WayBack'
    BY <2>7, <2>8, <2>3 DEF Stage, WayBack, Sensitive
  <2> QED
    BY <2>2, <2>3, <2>4, <2>6, <2>7, <2>8, <2>9, InWindow
<1>4. CASE Validate(p)
  <2>1. proc[p].pc = "validate" /\ proc[p].pc \in Locked
    BY <1>4 DEF Validate, IsAt, Locked, Window
  <2>2. PICK pc \in {"marker", "rollback"} :
          /\ Advance(p, pc) /\ validated \subseteq validated'
          /\ pc = "marker" => proc[p].release \in validated'
    BY <1>4 DEF Validate
  <2>3. Others(p) /\ Keeps(p) /\ proc'[p].pc = pc /\ torn' = torn
    BY <2>2, AdvanceKeeps
  <2>4. /\ UNCHANGED <<marker, backups, tags, env, db, containers, status>>
        /\ Recoverable => Recoverable'
    BY <1>4 DEF Validate, host, Recoverable, Installed
  <2>5. Stage(p)' /\ (~ torn' => Undo(p)')
    BY <2>1, <2>2, <2>3, <2>4, Stage(p), ~ torn => Undo(p)
    DEF Keeps, Stage, Undo, Before, Settled, AllOf, Sensitive, Window, Forward
  <2>6. proc'[p].pc \in Window
    BY <2>3 DEF Window
  <2>7. WayBack'
    BY <2>5, <2>6, <2>3 DEF Stage, WayBack, Sensitive
  <2> QED
    BY <2>1, <2>2, <2>3, <2>4, <2>5, <2>6, <2>7, InWindow
<1> QED
  BY <1>1, <1>2, <1>3, <1>4

\* The steps that leave the window: one release is installed again.
LEMMA EndStep ==
  ASSUME Inv, Base', NEW p \in Actors,
         WriteMarker(p) \/ Complete(p) \/ RetagWeb(p) \/ ReUp(p)
  PROVE  Inv'
<1> USE Known
<1>1. CASE WriteMarker(p)
  <2>1. proc[p].pc = "marker" /\ proc[p].pc \in Locked /\ Advance(p, "finish")
    BY <1>1 DEF WriteMarker, IsAt, Locked, Window
  <2>2. Others(p) /\ Keeps(p) /\ proc'[p].pc = "finish" /\ torn' = torn
    BY <2>1, AdvanceKeeps
  <2>3. /\ UNCHANGED <<backups, validated, tags, env, db, containers, status>>
        /\ marker' = proc[p].release /\ proc[p].release # None
    BY <1>1, <2>1, ReleasesAssumption DEF WriteMarker, FieldsOK, UsesRelease, Window
  <2>4. Stage(p)' /\ Undo(p)'
    BY <2>1, <2>2, <2>3, Stage(p) DEF Keeps, Stage, Undo, Before, Settled, AllOf, Sensitive,
       Window, Forward
  <2>5. \A q \in Actors \ {p} : Stage(q)' /\ Undo(q)'
    BY <2>1, <2>2, OthersSilent DEF Inv
  <2>6. Settled'
    BY <2>1, <2>3, Stage(p) DEF Stage, Settled, Forward, AllOf
  <2>7. WayBack'
    BY <2>1, <2>3, Stage(p) DEF Stage, WayBack, Installed, Forward, AllOf
  <2>8. Completed'
    BY <2>1, <2>2, <2>3, Stage(p) DEF Completed, Stage, Sensitive, Window
  <2> QED
    BY <2>4, <2>5, <2>6, <2>7, <2>8 DEF Inv, Global
<1>2. CASE Complete(p)
  <2>1. proc[p].pc = "finish" /\ proc[p].pc \in Locked
    BY <1>2 DEF Complete, IsAt, Locked
  <2>2. Others(p) /\ proc'[p].pc = "retain"
    BY <1>2 DEF Complete, ActorsOK, Others, Proc
  <2>3. /\ UNCHANGED <<backups, validated, tags, env, db, containers, marker>> /\ torn' = FALSE
        /\ status'.phase = "completed" /\ status'.current = proc[p].release
    BY <1>2 DEF Complete, host
  <2>4. Stage(p)' /\ Undo(p)'
    BY <2>2, NothingSaidNext DEF Sensitive, Window
  <2>5. \A q \in Actors \ {p} : Stage(q)' /\ Undo(q)'
    BY <2>1, <2>2, OthersSilent DEF Inv
  <2>6. Settled' /\ Completed'
    BY <2>1, <2>3, Stage(p)
    DEF Stage, Settled, Completed, Forward, AllOf
  <2>7. WayBack'
    BY <2>3 DEF WayBack, Recoverable, Installed
  <2> QED
    BY <2>4, <2>5, <2>6, <2>7 DEF Inv, Global
<1>3. CASE RetagWeb(p)
  <2>1. proc[p].pc = "retagWeb" /\ proc[p].pc \in Locked /\ Advance(p, "reup")
    BY <1>3 DEF RetagWeb, IsAt, Locked, Window
  <2>2. Others(p) /\ Keeps(p) /\ proc'[p].pc = "reup" /\ torn' = torn
    BY <2>1, AdvanceKeeps
  <2>3. /\ UNCHANGED <<backups, validated, env, db, containers, marker, status>>
        /\ tags'["web"] = proc[p].tags["web"] /\ tags'["api"] = tags["api"]
    BY <1>3 DEF RetagWeb, Services
  <2>4. Recoverable'
    BY <2>1, <2>3, Stage(p) DEF Stage, Recoverable, Installed, Sensitive, Window
  <2>5. Stage(p)' /\ Undo(p)'
    BY <2>1, <2>2, <2>3, <2>4, Stage(p) DEF Keeps, Stage, Undo, Before, Settled, AllOf,
       Sensitive, Window, Forward
  <2>6. \A q \in Actors \ {p} : Stage(q)' /\ Undo(q)'
    BY <2>1, <2>2, OthersSilent DEF Inv
  <2>7. ~ torn' => Settled'
    BY <2>1, <2>2, <2>3, ~ torn => Undo(p) DEF Undo, Before, AllOf, Settled
  <2>8. Completed' /\ WayBack'
    BY <2>1, <2>2, <2>3, <2>4, Stage(p)
    DEF Completed, WayBack, Stage, Sensitive, Window
  <2> QED
    BY <2>5, <2>6, <2>7, <2>8 DEF Inv, Global
<1>4. CASE ReUp(p)
  <2>1. proc[p].pc = "reup" /\ proc[p].pc \in Locked \ Window /\ Raise(p)
    BY <1>4 DEF ReUp, IsAt, Locked, Window
  <2>2. Others(p) /\ proc'[p].pc \in {"idle", "report"} /\ torn' = torn
    BY <2>1, RaiseOK
  <2>3. /\ UNCHANGED <<backups, validated, env, tags, marker>>
        /\ status'.phase = "failed" /\ status'.current = status.current
    BY <1>4 DEF ReUp, SetPhase, Status
  <2>4. Recoverable'
    BY <2>1, <2>3, Stage(p) DEF Stage, Recoverable, Installed, Sensitive
  <2>5. Stage(p)' /\ Undo(p)'
    BY <2>2, NothingSaidNext DEF Sensitive, Window
  <2>6. \A q \in Actors \ {p} : Stage(q)' /\ Undo(q)'
    BY <2>1, <2>2, OthersSilent DEF Inv
  <2>7. ~ torn' => Settled'
    BY <2>1, <2>2, <2>3, Alone DEF Settled, AllOf
  <2>8. Completed' /\ WayBack'
    BY <2>2, <2>3, <2>4 DEF Completed, WayBack
  <2> QED
    BY <2>5, <2>6, <2>7, <2>8 DEF Inv, Global
<1> QED
  BY <1>1, <1>2, <1>3, <1>4

\* The services come up beside whatever is under way.
LEMMA BootStep ==
  ASSUME Inv, Base', BootServices
  PROVE  Inv'
<1>1. PICK ok \in BOOLEAN : MigrationWith(tags["api"], ok) /\ ServicesUp(ok)
  BY DEF BootServices
<1>2. HostOK /\ WayBack /\ Completed
  BY DEF Inv, Base, TypeInv, Global
<1>3. /\ containers'["api"] \in {tags["api"], Down} /\ containers'["web"] \in {tags["web"], Down}
      /\ db' \in {db, HeadOf[tags["api"]]}
  <2>1. containers["api"] = Down /\ containers["web"] = Down
    BY DEF BootServices, Both, Services
  <2>2. containers'["api"] \in {tags["api"], Down} /\ containers'["web"] \in {tags["web"], Down}
    BY <1>1, <2>1, ServicesAfter DEF Services
  <2>3. db' \in {db, HeadOf[tags["api"]]}
    BY <1>1 DEF MigrationWith
  <2> QED
    BY <2>2, <2>3
<1>4. UNCHANGED <<status, env, marker, tags, backups, proc, validated, torn>>
  BY DEF BootServices, history
<1>5. Recoverable' <=> Recoverable
  BY <1>4 DEF Recoverable, Installed
<1>6. ASSUME NEW p \in Actors PROVE Stage(p)' /\ (~ torn' => Undo(p)')
  <2>1. Stage(p) /\ (~ torn => Undo(p))
    BY DEF Inv
  <2>2. Stage(p)'
    BY <1>3, <1>4, <1>5, <2>1 DEF Stage, AllOf, Forward
  <2>3. ~ torn' => Undo(p)'
    BY <1>4, <2>1 DEF Undo, Before, AllOf
  <2> QED
    BY <2>2, <2>3
<1>7. WayBack'
  BY <1>2, <1>3, <1>4, <1>5 DEF WayBack, Installed
<1>8. Completed'
  BY <1>2, <1>3, <1>4 DEF Completed, AllOf
<1>9. ~ torn' /\ ~ Changing' => Settled'
  BY <1>4 DEF Inv, Global, Settled, AllOf, Changing
<1> QED
  BY <1>6, <1>7, <1>8, <1>9 DEF Inv, Global

LEMMA InitInv == Init => Inv
<1> SUFFICES ASSUME Init PROVE Inv
  OBVIOUS
<1>1. Base
  BY InitTypeInv DEF Base
<1>2. \A p \in Actors : proc[p].pc = "idle"
  BY IdleOK DEF Init
<1>3. \A p \in Actors : Stage(p) /\ Undo(p)
  BY <1>2, NothingSaid DEF Sensitive, Window
<1>4. AllOf(tags, Factory) /\ env.version = Factory /\ marker = None /\ db = HeadOf[Factory]
  BY DEF Init, Both, Services, AllOf
<1>5. Settled /\ WayBack
  BY <1>4 DEF Init, Settled, WayBack, Installed, AllOf
<1>6. Completed
  BY DEF Init, Completed
<1> QED
  BY <1>1, <1>3, <1>5, <1>6 DEF Inv, Global

LEMMA NextInv == Inv /\ Pending /\ [Next]_vars => Inv'
<1> SUFFICES ASSUME Inv, Pending, [Next]_vars PROVE Inv'
  OBVIOUS
<1>1. Base'
  BY NextTypeInv, NextDaemonOK DEF Inv, Base
<1>2. ASSUME NEW p \in Actors, Step(p) PROVE Inv'
  BY <1>1, <1>2, QuietSteps, PreparationStep, WindowStep, CommandStep, EndStep
  DEF Step, UnderLock
<1>3. ASSUME NEW p \in Actors, Check(p) PROVE Inv'
  BY <1>1, <1>3, QuietSteps
<1>4. CASE \/ InstallCommand \/ Refuse \/ Decide \/ MergeAccept \/ (\E w \in Workers : Accept(w))
           \/ StartDaemon \/ MergeRecovery \/ WriteRecovery \/ UNCHANGED vars
  BY <1>1, <1>4, QuietCommands
<1>5. ASSUME NEW c \in Consoles, ConsoleUpdate(c) \/ \E v \in Releases : ConsoleInstall(c, v)
      PROVE  Inv'
  BY <1>1, <1>5, QuietCommands
<1>6. CASE PowerLoss \/ DaemonStops \/ \E c \in Consoles : ConsoleKilled(c)
  BY <1>1, <1>6, QuietInterruptions
<1>7. CASE BootServices
  BY <1>1, <1>7, BootStep
<1> QED
  BY <1>2, <1>3, <1>4, <1>5, <1>6, <1>7 DEF Next

-----------------------------------------------------------------------------
(* What the update state shows, and what is about to be written into it. *)

\* How a step changes what is shown.
Shows ==
  \/ status'.current = status.current /\ (status'.phase = "completed" => status' = status)
  \/ \E p \in Actors : proc[p].pc \in Writing /\ status' = proc[p].merged
  \/ status'.current = CurrentVersion /\ ~ Changing /\ status'.phase # "completed"
  \/ \E p \in Actors : Complete(p)

\* How a step changes what q is about to write.
Merges(q) ==
  \/ proc'[q] = proc[q]
  \/ proc'[q].pc \notin Writing \cup {"archive"}
  \/ proc'[q].pc = "archive" /\ status'.phase = "backing_up"
  \/ /\ proc'[q].pc \in Writing /\ proc'[q].merged.current = status.current
     /\ \/ proc'[q].merged.phase # "completed"
        \/ proc[q].pc = "archive" /\ proc'[q].merged.phase = status.phase

\* How a step changes what has been validated and cut off.
Records ==
  validated \subseteq validated' /\ (cutOff => cutOff') /\ (torn' => torn \/ cutOff')

\* A step of p alone that merges nothing.
LEMMA PlainMerges ==
  ASSUME NEW p \in Actors, Others(p), proc'[p].pc \notin Writing \cup {"archive"}
  PROVE  \A q \in Actors : Merges(q)
BY DEF Others, Merges

\* The first half of write_state.
LEMMA MergeMerges ==
  ASSUME ActorsOK, HostOK, NEW p \in Actors, NEW pc \in Writing, NEW ph, MergeInto(p, pc, ph),
         ph # "completed" \/ (proc[p].pc = "archive" /\ ph = status.phase)
  PROVE  \A q \in Actors : Merges(q)
<1>1. /\ Others(p) /\ proc'[p].pc = pc /\ proc'[p].merged = [status EXCEPT !.phase = ph]
      /\ status \in Status
  BY MergeKeeps DEF HostOK
<1>2. proc'[p].merged.current = status.current /\ proc'[p].merged.phase = ph
  BY <1>1 DEF Status
<1> QED
  BY <1>1, <1>2 DEF Others, Merges

\* Steps outside the lock, and the first ones under it.
LEMMA StepShowsEarly ==
  ASSUME TypeInv, NEW p \in Actors,
         \/ TakeLock(p) \/ Report(p) \/ MergeFailure(p) \/ WriteFailure(p) \/ Fetch(p)
         \/ (\E v \in Releases : ReadManifest(p, v)) \/ Download(p) \/ BackUp(p)
         \/ Archive(p) \/ Archived(p) \/ Load(p) \/ Retain(p) \/ Break(p)
  PROVE  Shows /\ Records /\ \A q \in Actors : Merges(q)
<1> USE DEF host, history
<1>0. ActorsOK /\ HostOK /\ status \in Status /\ proc[p] \in Proc
  BY DEF TypeInv, ActorsOK, HostOK
<1>1. ASSUME Raise(p), proc[p].pc \in Locked \cup {"lock"}, UNCHANGED validated
      PROVE  Records /\ \A q \in Actors : Merges(q)
  <2>1. Others(p) /\ proc'[p].pc \notin Writing \cup {"archive"}
    BY <1>0, <1>1, RaiseOK DEF Writing
  <2> QED
    BY <1>1, <2>1, PlainMerges DEF Raise, Records
<1>2. ASSUME NEW pc, Advance(p, pc), pc \notin Writing \cup {"archive"}, UNCHANGED validated
      PROVE  Records /\ \A q \in Actors : Merges(q)
  <2>1. Others(p) /\ proc'[p].pc = pc /\ torn' = torn
    BY <1>0, <1>2, AdvanceKeeps
  <2> QED
    BY <1>2, <2>1, PlainMerges DEF Advance, Records
<1>3. ASSUME Done(p), proc[p].pc \in Locked, UNCHANGED validated
      PROVE  Records /\ \A q \in Actors : Merges(q)
  <2>1. Others(p) /\ proc'[p].pc = "idle"
    BY <1>0, <1>3, DoneOK, IdleOK
  <2> QED
    BY <1>3, <2>1, PlainMerges DEF Done, Records, Writing
<1>4. ASSUME NEW ph, SetPhase(ph), ph # "completed" PROVE Shows
  BY <1>0, <1>4 DEF SetPhase, Status, Shows
<1>5. ASSUME status' = status PROVE Shows
  BY <1>5 DEF Shows
<1>6. CASE TakeLock(p)
  <2>1. CASE Raise(p)
    BY <1>1, <1>5, <1>6, <2>1 DEF TakeLock, IsAt
  <2>2. CASE ~ Raise(p)
    <3> DEFINE pc == IF proc[p].task = "install" THEN "backup" ELSE "fetch"
    <3>1. pc \in {"backup", "fetch"}
      OBVIOUS
    <3>2. /\ proc' = [proc EXCEPT ![p].pc = pc] /\ torn' = torn /\ cutOff' = cutOff
          /\ UNCHANGED <<status, validated>>
      BY <1>6, <2>2 DEF TakeLock
    <3> HIDE DEF pc
    <3>3. Others(p) /\ proc'[p].pc \in {"backup", "fetch"}
      BY <1>0, <3>1, <3>2 DEF ActorsOK, Others, Proc
    <3> QED
      BY <1>5, <3>2, <3>3, PlainMerges DEF Records, Writing
  <2> QED
    BY <2>1, <2>2
<1>7. CASE Report(p)
  <2>1. Others(p) /\ proc'[p].pc \in {"merge", "idle"}
    BY <1>0, <1>7, IdleOK DEF Report, ActorsOK, Others, Proc
  <2> QED
    BY <1>5, <1>7, <2>1, PlainMerges DEF Report, Records, Writing
<1>8. CASE MergeFailure(p)
  <2>1. MergeInto(p, "failing", "failed") /\ UNCHANGED <<status, validated>>
    BY <1>8 DEF MergeFailure
  <2>2. \A q \in Actors : Merges(q)
    BY <1>0, <2>1, MergeMerges DEF Writing
  <2>3. Records
    BY <2>1 DEF MergeInto, Records
  <2> QED
    BY <1>5, <2>1, <2>2, <2>3
<1>9. CASE WriteFailure(p)
  <2>1. Others(p) /\ proc'[p].pc = "idle"
    BY <1>0, <1>9, IdleOK DEF WriteFailure, ActorsOK, Others
  <2>2. Shows
    BY <1>9 DEF WriteFailure, WriteBack, IsAt, Shows, Writing
  <2> QED
    BY <1>9, <2>1, <2>2, PlainMerges DEF WriteFailure, Records, Writing
<1>10. CASE Fetch(p)
  BY <1>2, <1>4, <1>10 DEF Fetch, Writing
<1>11. ASSUME NEW v \in Releases, ReadManifest(p, v)
       PROVE  Shows /\ Records /\ \A q \in Actors : Merges(q)
  <2>1. proc[p].pc = "manifest" /\ lock = p
    BY <1>0, <1>11 DEF ReadManifest, IsAt, ActorsOK, Locked
  <2>2. ~ Changing
    BY <1>0, <2>1 DEF Changing, ActorsOK, Locked, Window
  <2>3. status'.current = CurrentVersion /\ status'.phase # "completed"
    BY <1>0, <1>11 DEF ReadManifest, Status
  <2>4. CASE Done(p)
    BY <1>3, <1>11, <2>1, <2>2, <2>3, <2>4 DEF ReadManifest, Shows, Locked
  <2>5. CASE ~ Done(p)
    <3>1. /\ proc' = [proc EXCEPT ![p].pc = "download", ![p].release = v]
          /\ torn' = torn /\ cutOff' = cutOff /\ UNCHANGED validated
      BY <1>11, <2>5 DEF ReadManifest
    <3>2. proc'[p] = [proc[p] EXCEPT !.pc = "download", !.release = v] /\ Others(p)
      BY <1>0, <3>1 DEF ActorsOK, Others
    <3>3. proc'[p].pc = "download"
      BY <1>0, <3>2 DEF Proc
    <3> QED
      BY <2>2, <2>3, <3>1, <3>2, <3>3, PlainMerges DEF Shows, Records, Writing
  <2> QED
    BY <2>4, <2>5
<1>12. CASE Download(p)
  <2>1. CASE SetPhase("downloading") /\ Raise(p)
    BY <1>1, <1>4, <1>12, <2>1 DEF Download, IsAt, Locked
  <2>2. CASE SetPhase("verifying") /\ Advance(p, "backup")
    BY <1>2, <1>4, <1>12, <2>2 DEF Download, Writing
  <2> QED
    BY <1>12, <2>1, <2>2 DEF Download
<1>13. CASE BackUp(p)
  <2>1. Advance(p, "archive") /\ SetPhase("backing_up") /\ UNCHANGED validated
    BY <1>13 DEF BackUp
  <2>2. Others(p) /\ proc'[p].pc = "archive"
    BY <1>0, <2>1, AdvanceKeeps
  <2>3. status'.phase = "backing_up"
    BY <1>0, <2>1 DEF SetPhase, Status
  <2> QED
    BY <1>4, <2>1, <2>2, <2>3 DEF Advance, Records, Merges, Others
<1>14. CASE Archive(p)
  <2>1. PICK pc \in {"backed", "unbacked"} : MergeInto(p, pc, status.phase)
    BY <1>14 DEF Archive
  <2>2. proc[p].pc = "archive" /\ UNCHANGED <<status, validated>>
    BY <1>14 DEF Archive, IsAt
  <2>3. \A q \in Actors : Merges(q)
    BY <1>0, <2>1, <2>2, MergeMerges DEF Writing
  <2>4. Records
    BY <2>1, <2>2 DEF MergeInto, Records
  <2> QED
    BY <1>5, <2>2, <2>3, <2>4
<1>15. CASE Archived(p)
  <2>1. proc[p].pc \in {"backed", "unbacked"} /\ status' = proc[p].merged /\ UNCHANGED validated
    BY <1>15 DEF Archived, WriteBack, IsAt
  <2>2. Shows
    BY <2>1 DEF Shows, Writing
  <2>3. CASE Raise(p)
    BY <1>1, <2>1, <2>2, <2>3 DEF Locked
  <2>4. CASE ~ Raise(p)
    <3>1. /\ proc' = [proc EXCEPT ![p].pc = "load", ![p].merged = None]
          /\ torn' = torn /\ cutOff' = cutOff
      BY <1>15, <2>4 DEF Archived
    <3>2. proc'[p] = [proc[p] EXCEPT !.pc = "load", !.merged = None] /\ Others(p)
      BY <1>0, <3>1 DEF ActorsOK, Others
    <3>3. proc'[p].pc = "load"
      BY <1>0, <3>2 DEF Proc
    <3> QED
      BY <2>1, <2>2, <3>1, <3>2, <3>3, PlainMerges DEF Records, Writing
  <2> QED
    BY <2>3, <2>4
<1>16. CASE Load(p)
  <2>1. proc' = [proc EXCEPT ![p].pc = "tagApi", ![p].tags = tags]
    BY <1>16 DEF Load
  <2>2. proc'[p] = [proc[p] EXCEPT !.pc = "tagApi", !.tags = tags] /\ Others(p)
    BY <1>0, <2>1 DEF ActorsOK, Others
  <2>3. proc'[p].pc = "tagApi"
    BY <1>0, <2>2 DEF Proc
  <2> QED
    BY <1>4, <1>16, <2>2, <2>3, PlainMerges DEF Load, Records, Writing
<1>17. CASE Retain(p)
  BY <1>3, <1>5, <1>17 DEF Retain, IsAt, Locked
<1>18. CASE Break(p)
  BY <1>1, <1>5, <1>18 DEF Break
<1> QED
  BY <1>6, <1>7, <1>8, <1>9, <1>10, <1>11, <1>12, <1>13, <1>14, <1>15, <1>16, <1>17, <1>18

\* The steps that change the host, and the end of an install.
LEMMA StepShowsLate ==
  ASSUME TypeInv, NEW p \in Actors,
         \/ TagApi(p) \/ TagWeb(p) \/ WriteVersion(p) \/ Migrate(p) \/ WriteSchema(p)
         \/ Restart(p) \/ Validate(p) \/ WriteMarker(p) \/ Complete(p)
         \/ RollBack(p) \/ RetagApi(p) \/ RetagWeb(p) \/ ReUp(p)
  PROVE  Shows /\ Records /\ \A q \in Actors : Merges(q)
<1> USE DEF host, history
<1>0. ActorsOK /\ HostOK /\ status \in Status /\ proc[p] \in Proc
  BY DEF TypeInv, ActorsOK, HostOK
<1> DEFINE To == {"tagWeb", "envVersion", "envSchema", "rollback", "restart", "validate", "marker",
                  "finish", "retagApi", "retagWeb", "reup"}
<1>1. ASSUME NEW pc \in To, Advance(p, pc), validated \subseteq validated'
      PROVE  Records /\ \A q \in Actors : Merges(q)
  <2>1. Others(p) /\ proc'[p].pc = pc /\ torn' = torn
    BY <1>0, <1>1, AdvanceKeeps
  <2>2. pc \notin Writing \cup {"archive"}
    BY DEF Writing
  <2> QED
    BY <1>1, <2>1, <2>2, PlainMerges DEF Advance, Records
<1>2. ASSUME NEW ph, SetPhase(ph), ph # "completed" PROVE Shows
  BY <1>0, <1>2 DEF SetPhase, Status, Shows
<1>3. ASSUME status' = status PROVE Shows
  BY <1>3 DEF Shows
<1>4. CASE TagApi(p) \/ TagWeb(p) \/ WriteMarker(p) \/ RetagApi(p) \/ RetagWeb(p)
  <2>1. status' = status /\ validated' = validated /\ \E pc \in To : Advance(p, pc)
    BY <1>4 DEF TagApi, TagWeb, WriteMarker, RetagApi, RetagWeb
  <2> QED
    BY <1>1, <1>3, <2>1
<1>5. CASE WriteSchema(p) \/ RollBack(p)
  <2>1. /\ validated' = validated /\ \E pc \in To : Advance(p, pc)
        /\ SetPhase("restarting") \/ SetPhase("rolling_back")
    BY <1>5 DEF WriteSchema, RollBack
  <2> QED
    BY <1>1, <1>2, <2>1
<1>6. CASE WriteVersion(p)
  <2>1. proc' = [proc EXCEPT ![p].pc = "migrate", ![p].version = env.version]
    BY <1>6 DEF WriteVersion
  <2>2. proc'[p] = [proc[p] EXCEPT !.pc = "migrate", !.version = env.version] /\ Others(p)
    BY <1>0, <2>1 DEF ActorsOK, Others
  <2>3. proc'[p].pc = "migrate"
    BY <1>0, <2>2 DEF Proc
  <2> QED
    BY <1>2, <1>6, <2>2, <2>3, PlainMerges DEF WriteVersion, Records, Writing
<1>7. CASE Migrate(p)
  <2>1. status' = status /\ validated' = validated /\ \E pc \in To : Advance(p, pc)
    BY <1>7 DEF Migrate
  <2> QED
    BY <1>1, <1>3, <2>1
<1>8. CASE Restart(p)
  <2>1. /\ validated' = validated /\ \E pc \in To : Advance(p, pc)
        /\ SetPhase("validating") \/ status' = status
    BY <1>8 DEF Restart, SetPhase
  <2> QED
    BY <1>1, <1>2, <1>3, <2>1
<1>9. CASE Validate(p)
  <2>1. status' = status /\ validated \subseteq validated' /\ \E pc \in To : Advance(p, pc)
    BY <1>9 DEF Validate
  <2> QED
    BY <1>1, <1>3, <2>1
<1>10. CASE Complete(p)
  <2>1. Others(p) /\ proc'[p].pc = "retain"
    BY <1>0, <1>10 DEF Complete, ActorsOK, Others, Proc
  <2> QED
    BY <1>10, <2>1, PlainMerges DEF Complete, Shows, Records, Writing
<1>11. CASE ReUp(p)
  <2>1. Raise(p) /\ proc[p].pc \in Locked /\ SetPhase("failed") /\ validated' = validated
    BY <1>11 DEF ReUp, IsAt, Locked
  <2>2. Others(p) /\ proc'[p].pc \notin Writing \cup {"archive"}
    BY <1>0, <2>1, RaiseOK DEF Writing
  <2> QED
    BY <1>2, <2>1, <2>2, PlainMerges DEF Raise, Records
<1> QED
  BY <1>4, <1>5, <1>6, <1>7, <1>8, <1>9, <1>10, <1>11

LEMMA NextShows ==
  ASSUME TypeInv, DaemonOK, [Next]_vars
  PROVE  Shows /\ Records /\ \A q \in Actors : Merges(q)
<1> USE DEF host, history
<1>0. /\ ActorsOK /\ HostOK /\ Controller \in Actors /\ Consoles \subseteq Actors
      /\ Workers \subseteq Actors
  BY DEF TypeInv, Actors
<1>1. ASSUME NEW p \in Actors, Step(p) PROVE Shows /\ Records /\ \A q \in Actors : Merges(q)
  BY <1>1, StepShowsEarly, StepShowsLate DEF Step, UnderLock
<1>2. ASSUME status' = status PROVE Shows
  BY <1>2 DEF Shows
<1>3. ASSUME NEW p \in Actors, NEW x, proc' = [proc EXCEPT ![p] = x],
             x.pc \in {"lock", "decide", "accept", "idle", "start", "recover"}
      PROVE  \A q \in Actors : Merges(q)
  BY <1>0, <1>3 DEF ActorsOK, Merges, Writing
<1>4. ASSUME NEW p \in Actors, Check(p) PROVE Shows /\ Records /\ \A q \in Actors : Merges(q)
  BY <1>2, <1>3, <1>4 DEF Check, Records, At
<1>5. CASE \E c \in Consoles : ConsoleUpdate(c) \/ \E v \in Releases : ConsoleInstall(c, v)
  <2>1. PICK c \in Consoles, t \in {"update", "install"}, v \in Releases \cup {None} :
          proc' = [proc EXCEPT ![c] = At("lock", t, v)]
    BY <1>5 DEF ConsoleUpdate, ConsoleInstall
  <2>2. At("lock", t, v).pc = "lock" /\ c \in Actors
    BY <1>0 DEF At
  <2>3. UNCHANGED <<status, validated, torn, cutOff>>
    BY <1>5 DEF ConsoleUpdate, ConsoleInstall
  <2> QED
    BY <1>2, <1>3, <2>1, <2>2, <2>3 DEF Records
<1>6. CASE InstallCommand \/ Refuse
  BY <1>0, <1>2, <1>3, <1>6, IdleOK DEF InstallCommand, Refuse, Records, At
<1>7. CASE Decide
  <2>1. /\ proc' = [proc EXCEPT ![Controller] = [proc[Controller] EXCEPT !.pc = "accept"]]
        /\ [proc[Controller] EXCEPT !.pc = "accept"].pc = "accept"
        /\ UNCHANGED <<status, validated, torn, cutOff>>
    BY <1>0, <1>7 DEF Decide, ActorsOK, Proc
  <2> QED
    BY <1>0, <1>2, <1>3, <2>1 DEF Records
<1>8. CASE MergeAccept \/ MergeRecovery
  <2>1. PICK pc \in {"accepting", "recovering"}, ph \in {"checking", "failed"} :
          MergeInto(Controller, pc, ph)
    BY <1>8 DEF MergeAccept, MergeRecovery
  <2>2. UNCHANGED <<status, validated>>
    BY <1>8 DEF MergeAccept, MergeRecovery
  <2>3. \A q \in Actors : Merges(q)
    BY <1>0, <2>1, MergeMerges DEF Writing
  <2> QED
    BY <1>2, <2>1, <2>2, <2>3 DEF MergeInto, Records
<1>9. ASSUME NEW w \in Workers, Accept(w) PROVE Shows /\ Records /\ \A q \in Actors : Merges(q)
  <2>1. \A q \in Actors : proc'[q] = proc[q] \/ proc'[q].pc \in {"idle", "lock"}
    BY <1>0, <1>9, IdleOK DEF Accept, At, ActorsOK
  <2>2. Shows
    BY <1>0, <1>9 DEF Accept, WriteBack, IsAt, Shows, Writing
  <2> QED
    BY <1>9, <2>1, <2>2 DEF Accept, Records, Merges, Writing
<1>10. CASE StartDaemon
  BY <1>0, <1>2, <1>3, <1>10 DEF StartDaemon, Records, At
<1>11. CASE WriteRecovery
  <2>1. Shows
    BY <1>0, <1>11 DEF WriteRecovery, WriteBack, IsAt, Shows, Writing
  <2> QED
    BY <1>0, <1>3, <1>11, <2>1 DEF WriteRecovery, Records, At
<1>12. CASE PowerLoss \/ DaemonStops \/ \E c \in Consoles : ConsoleKilled(c)
  <2>1. PICK P \in SUBSET Actors : Kill(P)
    BY <1>12 DEF PowerLoss, DaemonStops, ConsoleKilled, Actors
  <2>2. \A q \in Actors : proc'[q] = proc[q] \/ proc'[q].pc = "idle"
    BY <2>1, IdleOK DEF Kill
  <2>3. UNCHANGED <<status, validated>>
    BY <1>12 DEF PowerLoss, DaemonStops, ConsoleKilled
  <2> QED
    BY <1>2, <2>1, <2>2, <2>3 DEF Kill, Records, Merges, Writing
<1>13. CASE BootServices \/ UNCHANGED vars
  BY <1>2, <1>13 DEF BootServices, vars, Records, Merges
<1> QED
  BY <1>1, <1>4, <1>5, <1>6, <1>7, <1>8, <1>9, <1>10, <1>11, <1>12, <1>13 DEF Next

LEMMA PendingStep == TypeInv /\ DaemonOK /\ Pending /\ [Next]_vars => Pending'
<1> SUFFICES ASSUME TypeInv, DaemonOK, Pending, [Next]_vars, NEW q \in Actors
             PROVE  /\ proc'[q].pc = "archive" => status'.phase # "completed"
                    /\ proc'[q].pc \in Writing => proc'[q].merged.phase # "completed"
  BY DEF Pending
<1>1. Shows /\ Merges(q)
  BY NextShows
<1>2. proc'[q].pc \in Writing => proc'[q].merged.phase # "completed"
  BY <1>1 DEF Merges, Pending, Writing
<1>3. ASSUME proc'[q].pc = "archive", proc'[q] = proc[q] PROVE status'.phase # "completed"
  <2>1. ~ \E p \in Actors : Complete(p)
    BY <1>3 DEF Complete, IsAt, TypeInv, ActorsOK, Locked
  <2> QED
    BY <1>1, <1>3, <2>1 DEF Shows, Pending
<1> QED
  BY <1>1, <1>2, <1>3 DEF Merges, Writing

LEMMA StagesInOrder == Spec => [](Inv /\ Pending)
<1>1. Init => Pending
  BY IdleOK DEF Init, Pending, Writing
<1>2. Inv /\ Pending /\ [Next]_vars => Pending'
  BY PendingStep DEF Inv, Base
<1> QED
  BY <1>1, <1>2, InitInv, NextInv, PTL DEF Spec

\* What is shown, and what a lost update would bring back, was validated.
Shown ==
  /\ torn => cutOff
  /\ status.current \in validated \/ cutOff
  /\ \A p \in Actors : proc[p].pc \in Writing => proc[p].merged.current \in validated \/ cutOff

LEMMA ShownStep == Inv /\ Shown /\ [Next]_vars => Shown'
<1> SUFFICES ASSUME Inv, Shown, [Next]_vars PROVE Shown'
  OBVIOUS
<1>1. Shows /\ Records /\ \A q \in Actors : Merges(q)
  BY NextShows DEF Inv, Base
<1>2. ~ Changing => CurrentVersion \in validated \/ torn
  BY DEF Inv, Global, Settled, CurrentVersion
<1>3. \A p \in Actors : Complete(p) => status'.current \in validated
  BY DEF Inv, Stage, Complete, IsAt
<1>4. status'.current \in validated' \/ cutOff'
  BY <1>1, <1>2, <1>3 DEF Shows, Records, Shown
<1>5. ASSUME NEW q \in Actors, proc'[q].pc \in Writing
      PROVE  proc'[q].merged.current \in validated' \/ cutOff'
  BY <1>1, <1>5 DEF Merges, Records, Shown, Writing
<1> QED
  BY <1>1, <1>4, <1>5 DEF Records, Shown

\* What AllOf says of functions over the services.
LEMMA AllOfBoth ==
  ASSUME NEW S, NEW f \in [Services -> S], NEW v, AllOf(f, v)
  PROVE  f = Both(v)
BY DEF AllOf, Both, Services

-----------------------------------------------------------------------------
(* How an update ends. *)

\* An update that was accepted and waits for the lock, or has failed: it will
\* overwrite the phase that is shown.
Reporting(w) ==
  proc[w].pc \in {"lock", "report", "merge", "failing"} /\ proc[w].task = "update"

\* The daemon has started and is about to clear the phase.
Recovering == proc[Controller].pc \in {"recover", "recovering"}

\* Only a check is asked of the controller itself.
Serves == proc[Controller].task = "check"

\* An update that has completed has left its own phase, or the phase of an update
\* that was accepted since, which waits for its report.
Finishing ==
  \A p \in Actors : IsAt(p, "retain") =>
    \/ status.phase \notin ActivePhases \/ ~ daemon \/ Recovering
    \/ \E w \in Workers \ {p} : Reporting(w)

\* A step under the lock is one of the holder.
LEMMA OnlyTheHolder ==
  ASSUME ActorsOK, NEW p \in Actors, proc[p].pc \in Locked, NEW a \in Actors \ {p}, Step(a)
  PROVE  \/ TakeLock(a) /\ Raise(a) /\ UNCHANGED <<status, daemon>>
         \/ Report(a) \/ MergeFailure(a) \/ WriteFailure(a)
<1>1. proc[a].pc \notin Locked /\ lock # None
  BY ActorsAssumption DEF ActorsOK, Actors
<1> QED
  BY <1>1 DEF Step, TakeLock

\* What is raised goes to the handler of an update, and the task stays.
LEMMA RaiseReports ==
  ASSUME ActorsOK, NEW p \in Actors, Raise(p)
  PROVE  /\ Others(p) /\ proc'[p].task \in {"check", proc[p].task}
         /\ proc[p].task = "update" => proc'[p].pc = "report" /\ proc'[p].task = "update"
         /\ proc'[p].pc \in {"idle", "report"}
BY DEF ActorsOK, Raise, Recorded, Failed, Idle, At, Others

\* An actor keeps its task until it is idle, and only Complete leads to retain.
LEMMA TaskStays ==
  ASSUME ActorsOK, NEW p \in Actors, Step(p)
  PROVE  /\ proc'[p].task \in {"check", proc[p].task}
         /\ proc'[p].pc = "retain" => status'.phase = "completed"
<1>1. ASSUME NEW pc, Advance(p, pc)
      PROVE  proc'[p].task = proc[p].task /\ proc'[p].pc = pc
  BY <1>1 DEF ActorsOK, Proc, Advance
<1>2. ASSUME Done(p) PROVE proc'[p].task = "check" /\ proc'[p].pc = "idle"
  BY <1>2 DEF ActorsOK, Done, Idle, At
<1>3. CASE TakeLock(p) \/ Break(p) \/ Report(p) \/ MergeFailure(p) \/ WriteFailure(p)
  <2>1. CASE Raise(p)
    BY <2>1, RaiseReports
  <2>2. CASE Report(p)
    BY <2>2 DEF Report, ActorsOK, Proc, Idle, At
  <2>3. CASE TakeLock(p) /\ ~ Raise(p)
    BY <2>3 DEF TakeLock, ActorsOK, Proc
  <2>4. CASE MergeFailure(p)
    <3>1. MergeInto(p, "failing", "failed")
      BY <2>4 DEF MergeFailure
    <3>2. proc'[p].pc = "failing" /\ proc'[p].task = proc[p].task
      BY <3>1, MergeKeeps
    <3> QED
      BY <3>2
  <2>5. CASE WriteFailure(p)
    BY <2>5 DEF WriteFailure, ActorsOK, Idle, At
  <2> QED
    BY <1>3, <2>1, <2>2, <2>3, <2>4, <2>5 DEF Break
<1>4. CASE \E v \in Releases : ReadManifest(p, v)
  <2>1. CASE Done(p)
    BY <2>1, <1>2
  <2>2. CASE ~ Done(p)
    BY <1>4, <2>2 DEF ReadManifest, ActorsOK, Proc
  <2> QED
    BY <2>1, <2>2
<1>5. CASE \/ Fetch(p) \/ Download(p) \/ BackUp(p) \/ Archive(p) \/ Archived(p) \/ ReUp(p)
           \/ Retain(p)
  <2>1. CASE Raise(p)
    BY <2>1, RaiseReports
  <2>2. CASE Done(p)
    BY <2>2, <1>2
  <2>3. CASE \E pc \in {"manifest", "backup", "archive"} : Advance(p, pc)
    BY <2>3, <1>1
  <2>4. CASE Archive(p)
    <3>1. PICK pc \in {"backed", "unbacked"} : MergeInto(p, pc, status.phase)
      BY <2>4 DEF Archive
    <3> QED
      BY <3>1, MergeKeeps
  <2>5. CASE Archived(p) /\ ~ Raise(p)
    BY <2>5 DEF Archived, ActorsOK, Proc
  <2> QED
    BY <1>5, <2>1, <2>2, <2>3, <2>4, <2>5 DEF Fetch, Download, BackUp, ReUp, Retain
<1>6. CASE Load(p) \/ WriteVersion(p)
  BY <1>6 DEF Load, WriteVersion, ActorsOK, Proc
<1>7. CASE \/ TagApi(p) \/ TagWeb(p) \/ Migrate(p) \/ WriteSchema(p) \/ Restart(p) \/ Validate(p)
           \/ WriteMarker(p) \/ RollBack(p) \/ RetagApi(p) \/ RetagWeb(p)
  <2>1. \E pc \in Locked \ {"retain"} : Advance(p, pc)
    BY <1>7 DEF TagApi, TagWeb, Migrate, WriteSchema, Restart, Validate, WriteMarker, RollBack,
       RetagApi, RetagWeb, Locked, Window
  <2> QED
    BY <2>1, <1>1
<1>8. CASE Complete(p)
  BY <1>8 DEF Complete, ActorsOK, Proc
<1> QED
  BY <1>3, <1>4, <1>5, <1>6, <1>7, <1>8 DEF Step, UnderLock

LEMMA ServesStep == ActorsOK /\ Serves /\ [Next]_vars => Serves'
<1> SUFFICES ASSUME ActorsOK, Serves, [Next]_vars PROVE Serves'
  OBVIOUS
<1>0. Controller \in Actors /\ Controller \notin Workers \cup Consoles
  BY ActorsAssumption DEF Actors
<1>1. ASSUME NEW a \in Actors, Step(a) PROVE Serves'
  <2>1. CASE a = Controller
    BY <1>1, <2>1, TaskStays DEF Serves
  <2>2. CASE a # Controller
    BY <1>0, <1>1, <2>2, StepOthers DEF Serves, Others
  <2> QED
    BY <2>1, <2>2
<1>2. CASE \/ \E p \in Actors : Check(p)
           \/ InstallCommand \/ Decide \/ Refuse \/ \E w \in Workers : Accept(w)
           \/ \E c \in Consoles : ConsoleUpdate(c) \/ \E v \in Releases : ConsoleInstall(c, v)
  BY <1>0, <1>2 DEF ActorsOK, Proc, Serves, Check, InstallCommand, Decide, Refuse, Accept,
     ConsoleUpdate, ConsoleInstall, At, Idle
<1>3. CASE \/ PowerLoss \/ DaemonStops \/ StartDaemon \/ WriteRecovery
           \/ \E c \in Consoles : ConsoleKilled(c)
  BY <1>0, <1>3 DEF ActorsOK, Proc, Serves, PowerLoss, DaemonStops, StartDaemon, WriteRecovery,
     ConsoleKilled, Kill, At, Idle
<1>4. CASE BootServices \/ UNCHANGED vars
  BY <1>4 DEF BootServices, vars, Serves
<1>5. CASE MergeAccept \/ MergeRecovery
  BY <1>0, <1>5, MergeKeeps DEF MergeAccept, MergeRecovery, Serves
<1> QED
  BY <1>1, <1>2, <1>3, <1>4, <1>5 DEF Next

LEMMA FinishingStep == TypeInv /\ DaemonOK /\ Finishing /\ [Next]_vars => Finishing'
<1> SUFFICES ASSUME TypeInv, DaemonOK, Finishing, [Next]_vars,
                    NEW p \in Actors, proc'[p].pc = "retain"
             PROVE  \/ status'.phase \notin ActivePhases \/ ~ daemon' \/ Recovering'
                    \/ \E w \in Workers \ {p} : Reporting(w)'
  BY DEF Finishing, IsAt
<1> USE DEF TypeInv
<1>0. "completed" \notin ActivePhases /\ "failed" \notin ActivePhases /\ Workers \subseteq Actors
  BY DEF ActivePhases, Actors
\* Whoever does not take part leaves the reports as they are.
<1>1. ASSUME IsAt(p, "retain"), status' = status, daemon' = daemon, Recovering => Recovering',
             \A w \in Workers \ {p} : Reporting(w) => Reporting(w)'
      PROVE  \/ status'.phase \notin ActivePhases \/ ~ daemon' \/ Recovering'
             \/ \E w \in Workers \ {p} : Reporting(w)'
  BY <1>1 DEF Finishing
<1>2. ASSUME NEW a \in Actors, Step(a)
      PROVE  \/ status'.phase \notin ActivePhases \/ ~ daemon' \/ Recovering'
             \/ \E w \in Workers \ {p} : Reporting(w)'
  <2>1. CASE a = p
    BY <1>0, <1>2, <2>1, TaskStays
  <2>2. CASE a # p
    <3>1. Others(a) /\ daemon' = daemon /\ IsAt(p, "retain") /\ proc[p].pc \in Locked
      BY <1>2, <2>2, StepOthers DEF Others, IsAt, Locked
    <3>0. ASSUME proc[a].pc \in {"lock", "report", "merge", "failing"} PROVE Recovering => Recovering'
      BY <1>0, <3>0, <3>1 DEF Recovering, Others, Actors
    <3>2. CASE TakeLock(a) /\ Raise(a) /\ UNCHANGED <<status, daemon>>
      <4>1. \A w \in Workers \ {p} : Reporting(w) => Reporting(w)'
        BY <1>0, <3>1, <3>2, RaiseReports DEF Others, Reporting
      <4> QED
        BY <1>1, <3>0, <3>1, <3>2, <4>1 DEF TakeLock, IsAt
    <3>3. CASE Report(a)
      <4>1. CASE status'.phase = "failed"
        BY <1>0, <4>1
      <4>2. CASE status'.phase # "failed"
        <5>1. status' = status /\ proc[a].pc = "report"
          BY <3>3 DEF Report, IsAt
        <5>2. proc[a].task = "update" => proc'[a].pc = "merge" /\ proc'[a].task = "update"
          BY <3>3, <4>2, <5>1 DEF Report, ActorsOK, Proc
        <5>3. \A w \in Workers \ {p} : Reporting(w) => Reporting(w)'
          BY <1>0, <3>1, <5>2 DEF Others, Reporting
        <5> QED
          BY <1>1, <3>0, <3>1, <5>1, <5>3
      <4> QED
        BY <4>1, <4>2
    <3>4. CASE MergeFailure(a)
      <4>1. /\ status' = status /\ proc[a].pc = "merge"
            /\ proc'[a].pc = "failing" /\ proc'[a].task = proc[a].task
        BY <3>4, MergeKeeps DEF MergeFailure, IsAt
      <4>2. \A w \in Workers \ {p} : Reporting(w) => Reporting(w)'
        BY <1>0, <3>1, <4>1 DEF Others, Reporting
      <4> QED
        BY <1>1, <3>0, <3>1, <4>1, <4>2
    <3>5. CASE WriteFailure(a)
      BY <1>0, <3>5 DEF WriteFailure, WriteBack, IsAt, ActorsOK, FieldsOK
    <3> QED
      BY <1>2, <2>2, <3>1, <3>2, <3>3, <3>4, <3>5, OnlyTheHolder
  <2> QED
    BY <2>1, <2>2
<1>3. CASE \/ \E a \in Actors : Check(a)
           \/ InstallCommand \/ Decide
           \/ \E c \in Consoles : ConsoleUpdate(c) \/ \E v \in Releases : ConsoleInstall(c, v)
  <2>1. /\ IsAt(p, "retain") /\ status' = status /\ daemon' = daemon
        /\ \A w \in Workers \ {p} : proc'[w] = proc[w] \/ proc[w].pc = "idle"
        /\ Recovering => Recovering'
    BY <1>0, <1>3, ActorsAssumption DEF Check, InstallCommand, Decide, ConsoleUpdate,
       ConsoleInstall, IsAt, At, ActorsOK, Proc, Actors, Recovering
  <2> QED
    BY <1>1, <2>1 DEF Reporting
<1>4. CASE Refuse
  <2>1. /\ IsAt(p, "retain") /\ status' = status
        /\ \A w \in Workers \ {p} : proc'[w] = proc[w]
    BY <1>0, <1>4, ActorsAssumption DEF Refuse, IsAt, Idle, At, ActorsOK, Actors
  <2>2. daemon
    BY <1>4 DEF DaemonOK, Refuse, IsAt
  <2>3. PICK w \in Workers \ {p} : Reporting(w)
    BY <1>4, <2>1, <2>2 DEF Finishing, Refuse, Recovering
  <2> QED
    BY <2>1, <2>3 DEF Reporting
<1>5. ASSUME NEW w \in Workers, Accept(w)
      PROVE  \E v \in Workers \ {p} : Reporting(v)'
  <2>1. proc'[w] = At("lock", "update", None) /\ w # p
    BY <1>0, <1>5 DEF Accept, ActorsOK, At
  <2> QED
    BY <2>1 DEF Reporting, At
<1>6. CASE PowerLoss \/ DaemonStops
  BY <1>6 DEF PowerLoss, DaemonStops
<1>7. ASSUME NEW c \in Consoles, ConsoleKilled(c)
      PROVE  \/ status'.phase \notin ActivePhases \/ ~ daemon' \/ Recovering'
             \/ \E w \in Workers \ {p} : Reporting(w)'
  <2>1. /\ IsAt(p, "retain") /\ status' = status /\ daemon' = daemon
        /\ \A w \in Workers : proc'[w] = proc[w]
        /\ Recovering => Recovering'
    BY <1>0, <1>7, ActorsAssumption DEF ConsoleKilled, Kill, IsAt, Idle, At, ActorsOK, Actors,
       Recovering
  <2> QED
    BY <1>1, <2>1 DEF Reporting
<1>8. CASE StartDaemon
  <2>1. status' = status /\ (status.phase \in ActivePhases => proc'[Controller].pc = "recover")
    BY <1>8 DEF StartDaemon, At, ActorsOK, Actors
  <2> QED
    BY <2>1 DEF Recovering
<1>9. CASE BootServices \/ UNCHANGED vars
  BY <1>1, <1>9 DEF BootServices, vars, Reporting, Recovering, IsAt, Finishing
<1>10. CASE MergeAccept \/ MergeRecovery
  <2>1. /\ Others(Controller) /\ proc'[Controller].pc \in {"accepting", "recovering"}
        /\ proc[Controller].pc = "recover" => proc'[Controller].pc = "recovering"
        /\ proc[Controller].pc \in {"accept", "recover"}
        /\ status' = status /\ daemon' = daemon /\ Controller \in Actors
    BY <1>10, MergeKeeps DEF MergeAccept, MergeRecovery, IsAt, Actors
  <2>2. /\ IsAt(p, "retain") /\ (Recovering => Recovering')
        /\ \A w \in Workers \ {p} : proc'[w] = proc[w]
    BY <1>0, <2>1, ActorsAssumption DEF Others, IsAt, Recovering
  <2> QED
    BY <1>1, <2>1, <2>2 DEF Reporting
<1>11. CASE WriteRecovery
  BY <1>0, <1>11 DEF WriteRecovery, WriteBack, IsAt, ActorsOK, FieldsOK, Actors
<1> QED
  BY <1>2, <1>3, <1>4, <1>5, <1>6, <1>7, <1>8, <1>9, <1>10, <1>11 DEF Next

\* The end of an update that is not interrupted, and what it leaves behind.
LEMMA UpdateEnds ==
  ASSUME ActorsOK, HostOK, NEW p \in Actors, Step(p),
         proc[p].task = "update", proc'[p].pc = "idle"
  PROVE  status'.phase \notin ActivePhases \/ (IsAt(p, "retain") /\ status' = status)
<1>1. ASSUME NEW pc \in Locked, Advance(p, pc) PROVE FALSE
  BY <1>1 DEF ActorsOK, Proc, Advance, Locked, Window
<1>2. CASE Raise(p)
  BY <1>2, RaiseReports
<1>3. CASE \/ TakeLock(p) \/ Fetch(p) \/ Download(p) \/ BackUp(p) \/ Archive(p) \/ Archived(p)
           \/ ReUp(p) \/ Break(p)
  <2>1. CASE TakeLock(p) /\ ~ Raise(p)
    BY <2>1 DEF TakeLock, ActorsOK, Proc
  <2>2. CASE \E pc \in {"manifest", "backup", "archive"} : Advance(p, pc)
    BY <1>1, <2>2 DEF Locked
  <2>3. CASE Archive(p)
    <3>1. PICK pc \in {"backed", "unbacked"} : MergeInto(p, pc, status.phase)
      BY <2>3 DEF Archive
    <3> QED
      BY <3>1, MergeKeeps
  <2>4. CASE Archived(p) /\ ~ Raise(p)
    BY <2>4 DEF Archived, ActorsOK, Proc
  <2> QED
    BY <1>2, <1>3, <2>1, <2>2, <2>3, <2>4 DEF Fetch, Download, BackUp, ReUp, Break
<1>4. CASE Report(p) \/ MergeFailure(p) \/ WriteFailure(p)
  <2>1. CASE Report(p)
    BY <2>1 DEF Report, ActorsOK, Proc, ActivePhases
  <2>2. CASE MergeFailure(p)
    <3>1. MergeInto(p, "failing", "failed")
      BY <2>2 DEF MergeFailure
    <3>2. proc'[p].pc = "failing"
      BY <3>1, MergeKeeps
    <3> QED
      BY <3>2
  <2>3. CASE WriteFailure(p)
    BY <2>3 DEF WriteFailure, WriteBack, IsAt, ActorsOK, FieldsOK, ActivePhases
  <2> QED
    BY <1>4, <2>1, <2>2, <2>3
<1>5. CASE \E v \in Releases : ReadManifest(p, v)
  BY <1>5 DEF ReadManifest, HostOK, Status, ActivePhases
<1>6. CASE Retain(p)
  BY <1>6 DEF Retain
<1>7. CASE \/ TagApi(p) \/ TagWeb(p) \/ Migrate(p) \/ WriteSchema(p) \/ Restart(p) \/ Validate(p)
           \/ WriteMarker(p) \/ RollBack(p) \/ RetagApi(p) \/ RetagWeb(p)
  <2>1. \E pc \in Locked : Advance(p, pc)
    BY <1>7 DEF TagApi, TagWeb, Migrate, WriteSchema, Restart, Validate, WriteMarker, RollBack,
       RetagApi, RetagWeb, Locked, Window
  <2> QED
    BY <2>1, <1>1
<1>8. CASE Load(p) \/ WriteVersion(p) \/ Complete(p)
  BY <1>8 DEF Load, WriteVersion, Complete, ActorsOK, Proc
<1> QED
  BY <1>3, <1>4, <1>5, <1>6, <1>7, <1>8 DEF Step, UnderLock

-----------------------------------------------------------------------------
(* Theorems. *)

\* Whatever fails or is interrupted, an update that has ended on its own terms
\* leaves both images, the environment file and the marker of one release.
THEOREM OneReleaseInstalled == Spec => []WholeUnlessTorn
<1>1. Inv => WholeUnlessTorn
  <2> SUFFICES ASSUME Inv, ~ torn, ~ Changing PROVE Whole
    BY DEF WholeUnlessTorn
  <2>1. Settled /\ tags \in [Services -> Releases]
    BY DEF Inv, Global, Base, TypeInv, HostOK
  <2>2. tags = Both(env.version)
    BY <2>1, AllOfBoth DEF Settled
  <2> QED
    BY <2>1, <2>2 DEF Settled, Whole
<1> QED
  BY <1>1, StagesInOrder, PTL

\* "completed" is shown only for a release that passed its health check and that
\* the images, the environment file, the marker, the database and the services
\* are all of.
THEOREM CompletedIsTrue == Spec => []CompletedIsInstalled
<1>1. Inv => CompletedIsInstalled
  <2> SUFFICES ASSUME Inv, status.phase = "completed"
               PROVE  /\ Whole /\ marker = status.current /\ marker \in validated
                      /\ db = HeadOf[marker]
                      /\ \A s \in Services : containers[s] \in {marker, Down}
    BY DEF CompletedIsInstalled
  <2>1. Completed /\ tags \in [Services -> Releases]
    BY DEF Inv, Global, Base, TypeInv, HostOK
  <2>2. tags = Both(env.version)
    BY <2>1, AllOfBoth DEF Completed
  <2> QED
    BY <2>1, <2>2 DEF Completed, Whole, Services
<1> QED
  BY <1>1, StagesInOrder, PTL

\* The version the settings page shows passed its health check at some time, lost
\* updates of the state included, unless an install was cut off.
THEOREM ReportedIsValidated == Spec => []ReportedVersionValidated
<1>1. Init => Shown
  BY IdleOK DEF Init, Shown, Writing
<1>2. Shown => ReportedVersionValidated
  BY DEF Shown, ReportedVersionValidated
<1> QED
  BY <1>1, <1>2, ShownStep, StagesInOrder, PTL DEF Spec

\* While the schema is not the one of the installed release, a backup exists
\* that this release can restore.
THEOREM AlwaysAWayBack == Spec => []RecoveryPoint
<1>1. Inv => RecoveryPoint
  BY DEF Inv, Global, WayBack, Recoverable, Installed, RecoveryPoint
<1> QED
  BY <1>1, StagesInOrder, PTL

\* An update that ends without being stopped leaves no phase that would refuse the
\* next one, unless another operation is under way or the daemon is down.
THEOREM NothingBlocks == Spec => NoPhaseLeftBehind
<1>1. Init => Serves /\ Finishing
  BY ActorsAssumption DEF Init, Serves, Finishing, Idle, At, IsAt, Actors
<1>2. ASSUME TypeInv, DaemonOK, Serves, Finishing, [Next]_vars, NEW p \in Actors,
             proc[p].task = "update", ~ IsAt(p, "idle"), proc'[p].pc = "idle", stops' = stops
      PROVE  \/ status'.phase \notin ActivePhases \/ ~ daemon'
             \/ \E q \in Actors \ {p} : proc'[q].pc # "idle"
  <2> USE DEF TypeInv
  <2>0. p # Controller
    BY <1>2 DEF Serves
  <2>1. ASSUME NEW a \in Actors, Step(a)
        PROVE  \/ status'.phase \notin ActivePhases \/ ~ daemon'
               \/ \E q \in Actors \ {p} : proc'[q].pc # "idle"
    <3>1. a = p
      BY <1>2, <2>1, StepOthers DEF Others, IsAt
    <3>2. CASE IsAt(p, "retain") /\ status' = status
      BY <1>2, <2>0, <2>1, <3>1, <3>2, StepOthers
      DEF Finishing, Reporting, Recovering, Others, Actors
    <3> QED
      BY <1>2, <2>1, <3>1, <3>2, UpdateEnds
  <2>2. CASE PowerLoss \/ DaemonStops \/ \E c \in Consoles : ConsoleKilled(c)
    BY <1>2, <2>2 DEF PowerLoss, DaemonStops, ConsoleKilled, Kill, HostOK
  <2>3. CASE \/ \E a \in Actors : Check(a)
             \/ \E c \in Consoles : ConsoleUpdate(c) \/ \E v \in Releases : ConsoleInstall(c, v)
             \/ InstallCommand \/ Decide \/ Refuse \/ StartDaemon \/ WriteRecovery \/ BootServices
             \/ UNCHANGED vars
    BY <1>2, <2>0, <2>3 DEF Check, ConsoleUpdate, ConsoleInstall, InstallCommand, Decide, Refuse,
       StartDaemon, WriteRecovery, BootServices, vars, ActorsOK, IsAt, At, Idle
  <2>4. CASE \E w \in Workers : Accept(w)
    BY <1>2, <2>0, <2>4 DEF Accept, ActorsOK, IsAt, At, Idle
  <2>5. CASE MergeAccept \/ MergeRecovery
    BY <1>2, <2>0, <2>5, MergeKeeps DEF MergeAccept, MergeRecovery, Others, IsAt, Actors
  <2> QED
    BY <1>2, <2>1, <2>2, <2>3, <2>4, <2>5 DEF Next
<1>3. TypeInv /\ DaemonOK /\ Serves /\ Finishing /\ [Next]_vars =>
        [\A p \in Actors :
          proc[p].task = "update" /\ ~ IsAt(p, "idle") /\ proc'[p].pc = "idle" /\ stops' = stops =>
            \/ status'.phase \notin ActivePhases \/ ~ daemon'
            \/ \E q \in Actors \ {p} : proc'[q].pc # "idle"]_vars
  BY <1>2
<1>4. TypeInv /\ Serves /\ [Next]_vars => Serves'
  BY ServesStep DEF TypeInv
<1> QED
  BY <1>1, <1>3, <1>4, ActorsInOrder, FinishingStep, PTL DEF Spec, NoPhaseLeftBehind

=============================================================================
