----------------------------- MODULE MobileQueue ----------------------------
(***************************************************************************)
(* The phone's offline queue of item creations, the server's idempotent    *)
(* create_item it is replayed against, and the device credential they      *)
(* share (apps/mobile/src/services/{itemQueue,queuePolicy,database}.ts,    *)
(* App.tsx and backend/app/application/items/capabilities.py).             *)
(*                                                                         *)
(* One phone, one workspace.  JavaScript runs one task at a time, so the   *)
(* code between two awaits is one action, with the SQLite statement that   *)
(* ends it; requests travel on their own and may be lost, late or answered *)
(* to nobody.  A photo upload overwrites one object, so it is one action   *)
(* with every outcome.                                                     *)
(*                                                                         *)
(* A definition marked Fault is used by no action: it is a mistake in the  *)
(* definition after it that the property in parentheses would catch.       *)
(***************************************************************************)
EXTENDS Naturals, FiniteSets

CONSTANTS Ops,         \* drafts, numbered in creation order
          Photos,      \* the drafts with a photo
          Requests,    \* ids for create requests under way
          MaxCred,     \* bound on the pairings of this phone
          MaxEpoch,    \* bound on quarantines in one run of the app
          MaxCrashes   \* bound on the restarts of the app

ASSUME ConstantsAssumption ==
  /\ Ops \subseteq Nat
  /\ Photos \subseteq Ops
  /\ MaxCred \in Nat /\ MaxEpoch \in Nat /\ MaxCrashes \in Nat

VARIABLES row,      \* pending_operations, "none" before and "removed" after the row is there
          queuedBy, \* history: the credential the phone had when it queued the draft
          items,    \* items the server has for each creation_operation_id
          images,   \* drafts whose photo is stored
          revoked,  \* credentials the server has revoked
          paired,   \* the stored pairing: credential number and status
          request,  \* create requests on the wire or at the server
          sync,     \* syncPendingItemsOnce, at most one for the workspace
          epoch,    \* revocationEpoch
          handling, \* credentials with a handleRevoked call that awaits
          crashes   \* restarts so far

phone == <<row, queuedBy>>
server == <<items, images, revoked>>
volatile == <<sync, epoch, handling>>
vars == <<row, queuedBy, items, images, revoked, paired, request, sync, epoch, handling,
          crashes>>
-----------------------------------------------------------------------------
Creds == 1..MaxCred

Queued == {"pending", "in_progress", "retryable"}

Row == [status : Queued \cup {"none", "failed", "removed"}, remote : BOOLEAN, wait : BOOLEAN]

NoRequest == [stage |-> "none", op |-> 0, cred |-> 0]

Request == [stage : {"sent", "checked", "ok", "denied", "refused"}, op : Ops, cred : Creds]

Replies == {"ok", "denied", "refused"}

\* The phone's side of one sync: the rows it loaded and where it stands.
Sync == [pc : {"next", "marked", "wait", "stored", "uploaded"}, rows : SUBSET Ops, op : Ops \cup {0},
         epoch : 0..MaxEpoch, cred : Creds, req : Requests \cup {0}]

NoSync == [pc |-> "idle", rows |-> {}, op |-> 0, epoch |-> 0, cred |-> 0, req |-> 0]

IsPaired == paired.status = "paired"

\* Fault: only rows never tried before are loaded (EveryDraftSettles).
DueOnce == {o \in Ops : row[o].status = "pending" /\ ~ row[o].wait}

\* The rows a sync loads: pending or retryable, and next_attempt_at has passed.
Due == {o \in Ops : row[o].status \in {"pending", "retryable"} /\ ~ row[o].wait}

NextRow == CHOOSE o \in sync.rows : \A p \in sync.rows : o <= p

\* Fault: catch without the revocation check (QuarantineHolds).
AlwaysCurrent == TRUE

\* revocationEpoch is what it was when this sync began.
Current == sync.epoch = epoch

\* classifyQueueFailure: a reply, or "none" when there was no answer.
Retry(reply) == reply # "refused"
Pause(reply) == reply = "denied"

\* The catch of syncPendingItemsOnce: markFailure and the next row, or a break.
Fail(reply) ==
  IF Current
  THEN /\ row' = [row EXCEPT ![sync.op].status = IF Retry(reply) THEN "retryable" ELSE "failed",
                             ![sync.op].wait = Retry(reply)]
       /\ sync' = IF Pause(reply) THEN NoSync ELSE [sync EXCEPT !.pc = "next", !.op = 0, !.req = 0]
  ELSE /\ sync' = NoSync
       /\ UNCHANGED row

\* The server answers request r; nobody listens if the phone has given it up.
Answer(r, reply) ==
  request' = [request EXCEPT ![r] =
    IF sync.pc = "wait" /\ sync.req = r THEN [@ EXCEPT !.stage = reply] ELSE NoRequest]

\* quarantinePendingItemsAfterCredentialRemoval: the epoch, then every queued row.
Quarantine ==
  /\ epoch < MaxEpoch
  /\ epoch' = epoch + 1
  /\ row' = [o \in Ops |-> IF row[o].status \in Queued
                           THEN [row[o] EXCEPT !.status = "failed", !.wait = FALSE]
                           ELSE row[o]]
-----------------------------------------------------------------------------
Init == /\ row = [o \in Ops |-> [status |-> "none", remote |-> FALSE, wait |-> FALSE]]
        /\ queuedBy = [o \in Ops |-> 0]
        /\ items = [o \in Ops |-> 0]
        /\ images = {}
        /\ revoked = {}
        /\ paired = [cred |-> 0, status |-> "none"]
        /\ request = [r \in Requests |-> NoRequest]
        /\ sync = NoSync
        /\ epoch = 0
        /\ handling = {}
        /\ crashes = 0

(* Pairing, revocation and forgetting. *)
\* pair, pairFromScan: a new credential replaces whatever was stored.
Pair ==
  /\ paired.cred < MaxCred
  /\ paired' = [cred |-> paired.cred + 1, status |-> "paired"]
  /\ UNCHANGED <<phone, server, request, volatile, crashes>>

\* revoke_device, by an owner at the server
RevokeDevice(c) ==
  /\ c \in 1..paired.cred \ revoked
  /\ revoked' = revoked \cup {c}
  /\ UNCHANGED <<phone, items, images, paired, request, volatile, crashes>>

\* handleRevoked, up to its await: the realtime event or a refused connection,
\* which may belong to a pairing that has been replaced by now.
LearnRevoked(c) ==
  /\ c \in revoked \ handling
  /\ Quarantine
  /\ handling' = handling \cup {c}
  /\ UNCHANGED <<queuedBy, server, paired, request, sync, crashes>>

\* handleRevoked after it has read the stored pairing again.
SettleRevoked(c) ==
  /\ c \in handling
  /\ handling' = handling \ {c}
  /\ paired' = IF IsPaired /\ paired.cred = c THEN [paired EXCEPT !.status = "revoked"] ELSE paired
  /\ UNCHANGED <<phone, server, request, sync, epoch, crashes>>

\* forget
ForgetServer ==
  /\ IsPaired
  /\ Quarantine
  /\ paired' = [paired EXCEPT !.status = "none"]
  /\ UNCHANGED <<queuedBy, server, request, sync, handling, crashes>>

\* Fault: interrupted work stays as it was (NoneAbandoned).
StaysInterrupted(o) == row[o].status

\* Startup: initializeDatabase makes interrupted work retryable.
Recovered(o) == IF row[o].status = "in_progress" THEN "retryable" ELSE row[o].status

\* The app is killed and starts again.
Crash ==
  /\ crashes < MaxCrashes
  /\ crashes' = crashes + 1
  /\ row' = [o \in Ops |-> [row[o] EXCEPT !.status = Recovered(o)]]
  /\ sync' = NoSync /\ epoch' = 0 /\ handling' = {}
  /\ request' = [r \in Requests |-> IF request[r].stage \in Replies THEN NoRequest ELSE request[r]]
  /\ UNCHANGED <<queuedBy, server, paired>>

(* The queue. *)
\* queueItem
QueueItem(o) ==
  /\ IsPaired
  /\ row[o].status = "none"
  /\ \A p \in Ops : p < o => row[p].status # "none"
  /\ row' = [row EXCEPT ![o].status = "pending"]
  /\ queuedBy' = [queuedBy EXCEPT ![o] = paired.cred]
  /\ UNCHANGED <<server, paired, request, volatile, crashes>>

\* next_attempt_at passes
BackoffOver(o) ==
  /\ row[o].wait
  /\ row' = [row EXCEPT ![o].wait = FALSE]
  /\ UNCHANGED <<queuedBy, server, paired, request, volatile, crashes>>

\* syncPendingItems: effects, the 30 s retry, realtime and saveItem start it;
\* a call that finds it running joins it.
SyncStart ==
  /\ IsPaired
  /\ sync = NoSync
  /\ Due # {}
  /\ sync' = [NoSync EXCEPT !.pc = "next", !.rows = Due, !.epoch = epoch, !.cred = paired.cred]
  /\ UNCHANGED <<phone, server, paired, request, epoch, handling, crashes>>

\* The head of the loop: the epoch, then the row becomes in_progress.
SyncNext ==
  /\ sync.pc = "next"
  /\ IF sync.rows = {} \/ ~ Current
     THEN /\ sync' = NoSync
          /\ UNCHANGED row
     ELSE /\ row' = [row EXCEPT ![NextRow].status = "in_progress"]
          /\ sync' = [sync EXCEPT !.pc = "marked", !.op = NextRow, !.rows = @ \ {NextRow}]
  /\ UNCHANGED <<queuedBy, server, paired, request, epoch, handling, crashes>>

\* A row whose item id is known skips the request.
SyncSend ==
  /\ sync.pc = "marked"
  /\ IF row[sync.op].remote
     THEN /\ sync' = [sync EXCEPT !.pc = "stored"]
          /\ UNCHANGED request
     ELSE \E r \in Requests :
            /\ request[r] = NoRequest
            /\ request' = [request EXCEPT ![r] = [stage |-> "sent", op |-> sync.op, cred |-> sync.cred]]
            /\ sync' = [sync EXCEPT !.pc = "wait", !.req = r]
  /\ UNCHANGED <<phone, server, paired, epoch, handling, crashes>>

\* The answer, and remote_entity_id.
SyncStored ==
  /\ sync.pc = "wait"
  /\ request[sync.req].stage = "ok"
  /\ request' = [request EXCEPT ![sync.req] = NoRequest]
  /\ row' = [row EXCEPT ![sync.op].remote = TRUE]
  /\ sync' = [sync EXCEPT !.pc = "stored", !.req = 0]
  /\ UNCHANGED <<queuedBy, server, paired, epoch, handling, crashes>>

SyncRejected ==
  /\ sync.pc = "wait"
  /\ request[sync.req].stage \in {"denied", "refused"}
  /\ request' = [request EXCEPT ![sync.req] = NoRequest]
  /\ Fail(request[sync.req].stage)
  /\ UNCHANGED <<queuedBy, server, paired, epoch, handling, crashes>>

\* No answer, or a 5xx: the request may still be on its way to the server.
SyncTimeout ==
  /\ sync.pc = "wait"
  /\ request' = [request EXCEPT ![sync.req] = IF @.stage \in Replies THEN NoRequest ELSE @]
  /\ Fail("none")
  /\ UNCHANGED <<queuedBy, server, paired, epoch, handling, crashes>>

\* uploadItemImage; an answer that is lost says nothing of the photo.
SyncUpload ==
  /\ sync.pc = "stored"
  /\ sync.op \in Photos
  /\ \/ /\ sync.cred \notin revoked
        /\ images' = images \cup {sync.op}
        /\ sync' = [sync EXCEPT !.pc = "uploaded"]
        /\ UNCHANGED row
     \/ /\ sync.cred \notin revoked
        /\ images' \in {images, images \cup {sync.op}}
        /\ Fail("none")
     \/ /\ Fail(IF sync.cred \in revoked THEN "denied" ELSE "refused")
        /\ UNCHANGED images
  /\ UNCHANGED <<queuedBy, items, revoked, paired, request, epoch, handling, crashes>>

\* Fault: the photo is sent, and not waited for (ImplementsOfflineCreation).
SentAtOnce == sync.pc \in {"stored", "uploaded"}

Finished == sync.pc = IF sync.op \in Photos THEN "uploaded" ELSE "stored"

\* The row goes, and its optimistic cache rows (MobileCache).
SyncRemove ==
  /\ sync.op # 0
  /\ Finished
  /\ row' = [row EXCEPT ![sync.op] = [status |-> "removed", remote |-> TRUE, wait |-> FALSE]]
  /\ sync' = [sync EXCEPT !.pc = "next", !.op = 0]
  /\ UNCHANGED <<queuedBy, server, paired, request, epoch, handling, crashes>>

(* The server: create_item with a client operation id. *)
\* The credential, the read by operation id, then the checks of the payload.
ServerRead(r) ==
  /\ request[r].stage = "sent"
  /\ IF request[r].cred \in revoked
     THEN Answer(r, "denied")
     ELSE IF items[request[r].op] > 0
     THEN Answer(r, "ok")
     ELSE \/ request' = [request EXCEPT ![r].stage = "checked"]
          \/ Answer(r, "refused")
  /\ UNCHANGED <<phone, server, paired, volatile, crashes>>

\* uq_item_workspace_creation_operation lets one row in.
MayInsert(o) == items[o] = 0

\* The insert and the commit, or the IntegrityError and the row of the other request.
ServerInsert(r) ==
  /\ request[r].stage = "checked"
  /\ LET o == request[r].op IN
       items' = IF MayInsert(o) THEN [items EXCEPT ![o] = @ + 1] ELSE items
  /\ Answer(r, "ok")
  /\ UNCHANGED <<phone, images, revoked, paired, volatile, crashes>>

\* The request or its handler is gone: network, server restart, 5xx.
ServerLose(r) ==
  /\ request[r].stage \in {"sent", "checked"}
  /\ request' = [request EXCEPT ![r] = NoRequest]
  /\ UNCHANGED <<phone, server, paired, volatile, crashes>>

-----------------------------------------------------------------------------
SyncStep == \/ SyncStart \/ SyncNext \/ SyncSend \/ SyncStored \/ SyncRejected
            \/ SyncTimeout \/ SyncUpload \/ SyncRemove

ServerStep(r) == ServerRead(r) \/ ServerInsert(r) \/ ServerLose(r)

Next == \/ Pair \/ ForgetServer \/ Crash
        \/ \E c \in Creds : RevokeDevice(c) \/ LearnRevoked(c) \/ SettleRevoked(c)
        \/ \E o \in Ops : QueueItem(o) \/ BackoffOver(o)
        \/ SyncStep
        \/ \E r \in Requests : ServerStep(r)

Spec == Init /\ [][Next]_vars
-----------------------------------------------------------------------------
\* Shape of the state: rows, requests and syncs hold what their columns and
\* fields may, the status the CHECK constraint of pending_operations among them.
TypeOK ==
  /\ row \in [Ops -> Row]
  /\ queuedBy \in [Ops -> 0..MaxCred]
  /\ items \in [Ops -> Nat]
  /\ images \subseteq Ops
  /\ revoked \subseteq Creds
  /\ paired \in [cred : 0..MaxCred, status : {"none", "paired", "revoked"}]
  /\ request \in [Requests -> Request \cup {NoRequest}]
  /\ sync \in Sync \cup {NoSync}
  /\ epoch \in 0..MaxEpoch
  /\ handling \subseteq Creds
  /\ crashes \in 0..MaxCrashes

\* The sync is at one draft.
Working == {"marked", "wait", "stored", "uploaded"}

\* Nothing is left where neither a timer nor a sync comes to it, whatever is killed,
\* refused, timed out or put aside meanwhile: a queued draft is one that the next sync
\* loads, one whose back-off runs, or the one that the sync under way is at and which,
\* as no quarantine has overtaken it, it still writes.
NoneAbandoned ==
  \A o \in Ops :
    row[o].status \in Queued =>
      \/ o \in Due
      \/ row[o].status # "in_progress" /\ row[o].wait
      \/ sync.op = o /\ sync.pc \in Working /\ Current

\* Work put aside for the user is not taken up again: a sync that was under way
\* when the credential went never makes a quarantined row retryable.
QuarantineHolds ==
  [][\A o \in Ops : row[o].status = "failed" => row'[o].status \in {"failed", "removed"}]_vars

DraftState(o) ==
  CASE row[o].status = "none" -> "unsaved"
    [] row[o].status \in Queued -> "queued"
    [] row[o].status = "failed" -> "aside"
    [] OTHER -> "gone"

Abstract == INSTANCE OfflineCreation
              WITH draft <- [o \in Ops |-> DraftState(o)], stored <- images

\* Replays, time-outs, restarts and revocations are invisible: the phone and the
\* server together save each draft at most once, and forget it only when it is saved
\* with its photo.
ImplementsOfflineCreation == Abstract!Spec

\* The phone waits for the answer about draft o in this step.
Awaited(o) == sync.pc = "wait" /\ sync.op = o

\* Timers fire, the phone and the server run; the network lets a request that is
\* tried again and again through in time now and then, and so each of its parts.
QueueFairness ==
  /\ WF_vars(SyncStart) /\ WF_vars(SyncNext) /\ WF_vars(SyncSend) /\ WF_vars(SyncRemove)
  /\ WF_vars(SyncTimeout)
  /\ \A r \in Requests : WF_vars(ServerStep(r))
  /\ \A o \in Ops : /\ WF_vars(BackoffOver(o))
                   /\ SF_vars(Awaited(o) /\ ServerRead(sync.req))
                   /\ SF_vars(Awaited(o) /\ ServerInsert(sync.req))
                   /\ SF_vars(Awaited(o) /\ (SyncStored \/ SyncRejected))
                   /\ SF_vars(sync.op = o /\ SyncUpload /\ sync'.pc = "uploaded")

FairSpec == Spec /\ QueueFairness

\* A saved draft is uploaded or shown as needing attention, unless the phone
\* loses its credential or its pairing.
EveryDraftSettles ==
  \A o \in Ops :
    row[o].status \in Queued
      ~> row[o].status \in {"removed", "failed"} \/ ~ IsPaired \/ paired.cred \in revoked

\* docs/product/account-household-validation.md on revocation: pending operations
\* "are not automatically replayed after re-pairing, because the original revoked
\* authorization is part of their provenance".
RevokedWorkNotReplayed ==
  [][\A r \in Requests :
       request[r] = NoRequest /\ request'[r] # NoRequest
         => LET by == queuedBy[request'[r].op]
            IN by \in revoked => request'[r].cred = by]_vars
=============================================================================
