----------------------------- MODULE Identifiers ----------------------------
(***************************************************************************)
(* Physical identifiers: the QR and NFC bindings of items and containers   *)
(* at the server (backend/app/application/identifiers/capabilities.py),    *)
(* over the partial unique indexes of migration 0014, and the phones that  *)
(* write NFC tags and recover half-written ones                            *)
(* (apps/mobile/src/services/{nfcAssignment,identifierResolution}.ts).     *)
(*                                                                         *)
(* No read of this component locks a row, so every read and every write of *)
(* a request is an action; an uncommitted change is kept in the call.  A   *)
(* phone may give up at any await, and the request it sent goes on.        *)
(*                                                                         *)
(* A definition marked Fault is used by no action: it is a mistake in the  *)
(* definition after it that the property in parentheses would catch.       *)
(***************************************************************************)
EXTENDS FiniteSets, Naturals

CONSTANTS Ids,       \* identifier rows
          Targets,   \* items and containers
          Phones,    \* clients, each with one request at a time
          Taggers,   \* those that also label and tag: all of them, or fewer to bound an instance
          Tags,      \* NFC tags
          None       \* no identifier

ASSUME ConstantsAssumption == None \notin Ids \cup Targets /\ Taggers \subseteq Phones

\* The clients are finitely many, and so are the ids of this instance, which CreateRead counts.
ASSUME FiniteAssumption == IsFiniteSet(Phones) /\ IsFiniteSet(Ids)

VARIABLES ident,   \* rows of physical_identifiers
          call,    \* the request of each phone at the server
          job,     \* the assignNfcTag each phone runs
          tag      \* the identifier written on each tag

vars == <<ident, call, job, tag>>
-----------------------------------------------------------------------------
Media == {"qr", "nfc"}
MaybeId == Ids \cup {None}

Ident == [status : {"pending", "active", "revoked"}, target : Targets, medium : Media]

NoIdent == [status |-> "none", target |-> None, medium |-> "qr"]

\* "previous" to "commit" are stages of activate_identifier.
Call == [pc : {"idle", "create", "reread", "previous", "flush", "update", "commit", "revoke",
               "done", "failed"},
         id : MaybeId, prev : MaybeId, target : Targets \cup {None}, medium : Media]

NoCall == [pc |-> "idle", id |-> None, prev |-> None, target |-> None, medium |-> "qr"]

Job == [pc : {"idle", "create", "written", "activate", "revoke"}, tag : Tags \cup {None},
        id : MaybeId, prev : MaybeId]

NoJob == [pc |-> "idle", tag |-> None, id |-> None, prev |-> None]

Unborn == {i \in Ids : ident[i] = NoIdent}

\* The rows of a target and medium with one of these statuses.
Having(t, m, statuses) ==
  {i \in Ids : ident[i].status \in statuses /\ ident[i].target = t /\ ident[i].medium = m}

Rivals(i, statuses) == Having(ident[i].target, ident[i].medium, statuses) \ {i}

\* The rows that the next UPDATE of a call writes, or meets in the unique index.
Touched(p) ==
  CASE call[p].pc = "flush" -> {call[p].prev}
    [] call[p].pc \in {"update", "revoke"} -> {call[p].id}
    [] call[p].pc = "commit" -> Rivals(call[p].id, {"active"}) \ {call[p].prev}
    [] OTHER -> {}

\* The rows that an activation has updated so far, and locked.
Locked(p) ==
  CASE call[p].pc = "update" -> {call[p].prev}
    [] call[p].pc = "commit" -> {call[p].prev, call[p].id}
    [] OTHER -> {}

\* The calls that have one of them locked.
WaitsFor(p) ==
  {q \in Phones \ {p} : Locked(q) \cap Touched(p) # {}}

\* p is one of some calls that wait for each other in a circle, or several.
InCircle(p) ==
  \E circle \in SUBSET Phones :
    /\ p \in circle
    /\ circle # {p}
    /\ \A some \in (SUBSET circle) \ {{}, circle} :
         \E q \in some : WaitsFor(q) \cap (circle \ some) # {}

Return(p, result, i) == call' = [call EXCEPT ![p] = [NoCall EXCEPT !.pc = result, !.id = i]]

\* A call whose job has gone is answered to nobody.
Answered(p) == call[p].pc \in {"done", "failed"}

FirstStatus(m) == IF m = "qr" THEN "active" ELSE "pending"

\* Fault: no unique index (OneLivePerTarget).
NoClash(t, m) == FALSE

\* uq_physical_identifier_{pending,active}_target_medium
Clash(t, m) == Having(t, m, {FirstStatus(m)}) # {}
-----------------------------------------------------------------------------
Init == /\ ident = [i \in Ids |-> NoIdent]
        /\ call = [p \in Phones |-> NoCall]
        /\ job = [p \in Phones |-> NoJob]
        /\ tag = [g \in Tags |-> None]

(* create_identifier: a pending row, or an active QR row, is used again.    *)
(* Bound: an id is left for every request that may insert a row.           *)
CreateRead(p, t, m) ==
  LET existing == Having(t, m, {FirstStatus(m)})
  IN IF existing # {}
     THEN \E i \in existing : Return(p, "done", i)
     ELSE /\ Cardinality({q \in Phones : call[q].pc = "create"}) < Cardinality(Unborn)
          /\ call' = [call EXCEPT ![p] = [NoCall EXCEPT !.pc = "create", !.target = t, !.medium = m]]

CreateInsert(p) ==
  /\ call[p].pc = "create"
  /\ LET t == call[p].target
         m == call[p].medium
     IN IF Clash(t, m)
        THEN /\ call' = [call EXCEPT ![p].pc = "reread"]
             /\ UNCHANGED ident
        ELSE \E i \in Unborn :
               /\ ident' = [ident EXCEPT ![i] =
                    [status |-> FirstStatus(m), target |-> t, medium |-> m]]
               /\ Return(p, "done", i)
  /\ UNCHANGED <<job, tag>>

\* After the IntegrityError only a pending row is looked for.
CreateReread(p) ==
  /\ call[p].pc = "reread"
  /\ LET existing == Having(call[p].target, call[p].medium, {"pending"})
     IN \/ \E i \in existing : Return(p, "done", i)
        \/ existing = {} /\ Return(p, "failed", None)
  /\ UNCHANGED <<ident, job, tag>>

(* activate_identifier *)
ActivateRead(p, i) ==
  CASE ident[i].status = "revoked" -> Return(p, "failed", None)
    [] ident[i].status = "active" -> Return(p, "done", i)
    [] OTHER -> call' = [call EXCEPT ![p] = [NoCall EXCEPT !.pc = "previous", !.id = i]]

ActivatePrevious(p) ==
  /\ call[p].pc = "previous"
  /\ LET active == Rivals(call[p].id, {"active"})
     IN \/ \E i \in active : call' = [call EXCEPT ![p].pc = "flush", ![p].prev = i]
        \/ active = {} /\ call' = [call EXCEPT ![p].pc = "update"]
  /\ UNCHANGED <<ident, job, tag>>

\* The flushed UPDATE locks the previous row; nobody sees it before the commit.
ActivateFlush(p) ==
  /\ call[p].pc = "flush"
  /\ WaitsFor(p) = {}
  /\ call' = [call EXCEPT ![p].pc = "update"]
  /\ UNCHANGED <<ident, job, tag>>

\* The UPDATE of the commit locks its row before it meets the unique index.
ActivateUpdate(p) ==
  /\ call[p].pc = "update"
  /\ WaitsFor(p) = {}
  /\ call' = [call EXCEPT ![p].pc = "commit"]
  /\ UNCHANGED <<ident, job, tag>>

\* Fault: two transactions, and the second one is lost (ReplacementHasNoGap).
OnlyRevoked(p) == [i \in Ids |->
  CASE i = call[p].prev -> [ident[i] EXCEPT !.status = "revoked"]
    [] i = call[p].id /\ call[p].prev = None -> [ident[i] EXCEPT !.status = "active"]
    [] OTHER -> ident[i]]

\* Neither UPDATE looks at the status it overwrites.
Replaced(p) == [i \in Ids |->
  CASE i = call[p].prev -> [ident[i] EXCEPT !.status = "revoked"]
    [] i = call[p].id -> [ident[i] EXCEPT !.status = "active"]
    [] OTHER -> ident[i]]

\* Fault: nothing is answered when the index refuses (NoCallHangs).
CommitUnanswered(p) ==
  /\ call[p].pc = "commit"
  /\ WaitsFor(p) = {}
  /\ Rivals(call[p].id, {"active"}) \ {call[p].prev} = {}
  /\ ident' = Replaced(p)
  /\ Return(p, "done", call[p].id)
  /\ UNCHANGED <<job, tag>>

\* The unique index refuses a second active row; nothing handles that error.
ActivateCommit(p) ==
  /\ call[p].pc = "commit"
  /\ WaitsFor(p) = {}
  /\ LET rivals == Rivals(call[p].id, {"active"}) \ {call[p].prev}
     IN \/ /\ rivals = {}
           /\ ident' = Replaced(p)
           /\ Return(p, "done", call[p].id)
        \/ /\ rivals # {}
           /\ Return(p, "failed", None)
           /\ UNCHANGED ident
  /\ UNCHANGED <<job, tag>>

\* Late activations lock each other's identifiers: the database aborts one of them.
ActivateAborted(p) ==
  /\ InCircle(p)
  /\ Return(p, "failed", None)
  /\ UNCHANGED <<ident, job, tag>>

(* revoke_identifier *)
RevokeRead(p, i) ==
  IF ident[i].status = "revoked"
  THEN Return(p, "done", i)
  ELSE call' = [call EXCEPT ![p] = [NoCall EXCEPT !.pc = "revoke", !.id = i]]

RevokeCommit(p) ==
  /\ call[p].pc = "revoke"
  /\ WaitsFor(p) = {}
  /\ ident' = [ident EXCEPT ![call[p].id].status = "revoked"]
  /\ Return(p, "done", call[p].id)
  /\ UNCHANGED <<job, tag>>

(* The clients. *)
Free(p) == call[p].pc = "idle" /\ job[p] = NoJob

\* A label is shown: the web's label dialogs register the QR identifier.
PrintLabel(p, t) ==
  /\ Free(p)
  /\ CreateRead(p, t, "qr")
  /\ UNCHANGED <<ident, job, tag>>

\* assignNfcTag: register, write, activate, verify, revoke what was on the tag.
AssignBegin(p, t, g) ==
  /\ Free(p)
  /\ CreateRead(p, t, "nfc")
  /\ job' = [job EXCEPT ![p] = [NoJob EXCEPT !.pc = "create", !.tag = g]]
  /\ UNCHANGED <<ident, tag>>

\* writeNfcIdentifier, which takes along what was on the tag.
AssignWrite(p) ==
  /\ job[p].pc = "create"
  /\ call[p].pc = "done"
  /\ LET g == job[p].tag
         i == call[p].id
     IN /\ tag' = [tag EXCEPT ![g] = i]
        /\ job' = [job EXCEPT ![p] = [pc |-> "written", tag |-> g, id |-> i, prev |-> tag[g]]]
  /\ call' = [call EXCEPT ![p] = NoCall]
  /\ UNCHANGED ident

\* The tag is tapped again, and when it has what was written, the activation is requested.
AssignReadBack(p) ==
  /\ job[p].pc = "written"
  /\ tag[job[p].tag] = job[p].id
  /\ job' = [job EXCEPT ![p].pc = "activate"]
  /\ ActivateRead(p, job[p].id)
  /\ UNCHANGED <<ident, tag>>

Resolves(i) == ident[i].status = "active"

\* The new identifier resolves; the one the tag had is revoked if it still resolves.
AssignVerify(p) ==
  /\ job[p].pc = "activate"
  /\ call[p].pc = "done"
  /\ Resolves(job[p].id)
  /\ LET prev == job[p].prev
     IN IF prev \in Ids \ {job[p].id} /\ Resolves(prev)
        THEN /\ job' = [job EXCEPT ![p].pc = "revoke"]
             /\ RevokeRead(p, prev)
        ELSE /\ job' = [job EXCEPT ![p] = NoJob]
             /\ call' = [call EXCEPT ![p] = NoCall]
  /\ UNCHANGED <<ident, tag>>

AssignEnd(p) ==
  /\ job[p].pc = "revoke"
  /\ call[p].pc = "done"
  /\ job' = [job EXCEPT ![p] = NoJob]
  /\ call' = [call EXCEPT ![p] = NoCall]
  /\ UNCHANGED <<ident, tag>>

\* Fault: a tag whose identifier is still pending is not activated (WrittenTagWakes).
ResolveOnly(p, i) == Return(p, "failed", None)

\* resolveIdentifier with recoverPendingNfc: a pending NFC identifier is activated.
Recover(p, i) == ActivateRead(p, i)

\* A tag is read.
ReadTag(p, g) ==
  /\ Free(p)
  /\ tag[g] # None
  /\ ident[tag[g]].status = "pending"
  /\ Recover(p, tag[g])
  /\ UNCHANGED <<ident, job, tag>>

\* The write or its verification fails, the answer is an error or does not come, the
\* app is closed.
GiveUp(p) ==
  /\ job[p] # NoJob
  /\ job' = [job EXCEPT ![p] = NoJob]
  /\ UNCHANGED <<ident, call, tag>>

\* An answer nobody waits for.
Drop(p) ==
  /\ job[p] = NoJob
  /\ Answered(p)
  /\ call' = [call EXCEPT ![p] = NoCall]
  /\ UNCHANGED <<ident, job, tag>>

ServerStep(p) == \/ CreateInsert(p) \/ CreateReread(p)
                 \/ ActivatePrevious(p) \/ ActivateFlush(p) \/ ActivateUpdate(p)
                 \/ ActivateCommit(p) \/ ActivateAborted(p)
                 \/ RevokeCommit(p)

ClientStep(p) == \/ AssignWrite(p) \/ AssignReadBack(p) \/ AssignVerify(p) \/ AssignEnd(p)
                 \/ GiveUp(p) \/ Drop(p)
                 \/ p \in Taggers /\ \E t \in Targets : PrintLabel(p, t)
                 \/ p \in Taggers /\ \E t \in Targets, g \in Tags : AssignBegin(p, t, g)
                 \/ \E g \in Tags : ReadTag(p, g)

Next == \E p \in Phones : ServerStep(p) \/ ClientStep(p)

Spec == Init /\ [][Next]_vars
-----------------------------------------------------------------------------
\* Shape of the state: rows, calls and jobs hold what their fields may.
TypeOK ==
  /\ ident \in [Ids -> Ident \cup {NoIdent}]
  /\ call \in [Phones -> Call]
  /\ job \in [Phones -> Job]
  /\ tag \in [Tags -> MaybeId]

\* Whatever requests interleave, a target has at most one pending and one active
\* identifier of a medium, so reading a label or a tag has one answer.
OneLivePerTarget ==
  \A i, j \in Ids :
    ident[i] = ident[j] /\ ident[i].status \in {"pending", "active"} => i = j

\* Replacing a tag leaves no moment without an active identifier: a target that
\* has one keeps one until somebody revokes it on purpose.
ReplacementHasNoGap ==
  [][\A i \in Ids :
       Resolves(i) /\ ident'[i].status = "revoked" =>
         \/ \E j \in Ids : ident'[j] = ident[i]
         \/ \E p \in Phones : call[p].pc = "revoke" /\ call[p].id = i]_vars

InFlight == {p \in Phones : call[p].pc \notin {"idle", "done", "failed"}}

\* The guards of ServerStep, stage by stage: what is left of the step are assignments.
MayGoOn(p) ==
  \/ call[p].pc = "create" /\ (Clash(call[p].target, call[p].medium) \/ Unborn # {})
  \/ call[p].pc \in {"reread", "previous"}
  \/ call[p].pc \in {"flush", "update", "commit", "revoke"} /\ WaitsFor(p) = {}
  \/ InCircle(p)

\* Late activations may lock each other out, in a circle of any length.  No call hangs
\* all the same: of calls that wait for nobody but each other one can go on, be it
\* that it is aborted.
NoCallHangs ==
  \A some \in (SUBSET InFlight) \ {{}} :
    (\A p \in some : WaitsFor(p) \subseteq some) =>
      \E p \in some : MayGoOn(p) /\ ENABLED ServerStep(p)

\* Requests and jobs end, and every tag is read now and then.
FairSpec ==
  /\ Spec
  /\ \A p \in Phones : /\ WF_vars(ServerStep(p)) /\ WF_vars(Drop(p))
                      /\ WF_vars(\/ AssignWrite(p) \/ AssignReadBack(p) \/ AssignVerify(p)
                                 \/ AssignEnd(p) \/ GiveUp(p))
  /\ \A g \in Tags : SF_vars(\E p \in Phones : ReadTag(p, g))

\* A tag that was written but not activated, because the phone gave up in
\* between, does not stay dead: reading it finishes the work.
WrittenTagWakes ==
  \A g \in Tags, i \in Ids :
    tag[g] = i /\ ident[i].status = "pending" ~> tag[g] # i \/ ident[i].status # "pending"

\* docs/product/physical-identifier-validation.md: "A revoked identifier cannot
\* be reactivated or resolved."
RevokedStaysRevoked ==
  [][\A i \in Ids : ident[i].status = "revoked" => ident'[i].status = "revoked"]_vars
=============================================================================
