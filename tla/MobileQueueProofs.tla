-------------------------- MODULE MobileQueueProofs -------------------------
(***************************************************************************)
(* Proofs about MobileQueue, for any drafts, credentials, requests and      *)
(* restarts.                                                                *)
(*                                                                          *)
(* Inv relates the three actors.  The server's answers are true of its      *)
(* table, whoever still listens (RequestOK); the phone knows an item only   *)
(* when there is one (RowOK); and a sync owns the rows it has loaded until  *)
(* the epoch changes, which is why it compares the epoch before it writes   *)
(* (SyncOK).                                                                *)
(***************************************************************************)
EXTENDS MobileCache, WellFoundedInduction, TLAPS

RowOK(o) ==
  /\ items[o] <= 1
  /\ row[o].remote => items[o] = 1
  /\ row[o].status = "removed" => row[o].remote

RequestOK(r) ==
  request[r] # NoRequest =>
    /\ row[request[r].op].status # "none"
    /\ request[r].stage = "ok" => items[request[r].op] = 1

\* The row a sync works on, which a quarantine may have put aside.
WorkOK ==
  /\ sync.op \in Ops
  /\ sync.op \notin sync.rows
  /\ row[sync.op].status \in {"in_progress", "failed"}
  /\ Current => row[sync.op].status = "in_progress"
  /\ sync.pc \in {"stored", "uploaded"} => row[sync.op].remote
  /\ sync.pc = "uploaded" => sync.op \in images
  /\ sync.pc = "wait" =>
       /\ sync.req \in Requests
       /\ request[sync.req] # NoRequest => request[sync.req].op = sync.op

SyncOK ==
  sync # NoSync =>
    /\ sync.epoch <= epoch
    /\ sync.pc \in Working => WorkOK
    /\ Current => \A o \in sync.rows : row[o].status \in {"pending", "retryable"}

\* A paired phone has a credential.
PairedOK == IsPaired => paired.cred \in Creds

Inv == /\ TypeOK
       /\ PairedOK
       /\ \A o \in Ops : RowOK(o)
       /\ \A r \in Requests : RequestOK(r)
       /\ SyncOK

-----------------------------------------------------------------------------
\* Any drafts have a first one.
LEMMA FirstExists ==
  ASSUME NEW S \in SUBSET Nat, S # {}
  PROVE  \E o \in S : \A p \in S : o <= p
<1> DEFINE R == OpToRel(<, Nat)
<1>1. IsWellFoundedOn(R, Nat)
  BY NatLessThanWellFounded
<1>2. \A p, o \in Nat : p < o => <<p, o>> \in R
  BY DEF OpToRel
<1> HIDE DEF R
<1>3. \E o \in S : \A p \in S : ~ (<<p, o>> \in R)
  BY <1>1, WFMin
<1>4. PICK o \in S : \A p \in S : ~ (<<p, o>> \in R)
  BY <1>3
<1>5. \A p \in S : ~ (p < o)
  BY <1>2, <1>4
<1>6. \A p \in S : o <= p
  <2> TAKE p \in S
  <2>1. p \in Nat /\ o \in Nat
    OBVIOUS
  <2>2. ~ (p < o)
    BY <1>5
  <2>3. QED
    BY <2>1, <2>2
<1>7. QED
  BY <1>6

\* The row a sync takes next is one of those it has loaded.
LEMMA NextRowLoaded ==
  ASSUME TypeOK, sync # NoSync, sync.rows # {}
  PROVE  NextRow \in sync.rows
<1>1. sync.rows \in SUBSET Nat
  BY ConstantsAssumption DEF TypeOK, Sync
<1>2. \E o \in sync.rows : \A p \in sync.rows : o <= p
  BY <1>1, FirstExists
<1>3. QED
  BY <1>2 DEF NextRow

\* A sync at a stage of its own is not the idle one.
LEMMA Running ==
  ASSUME TypeOK, sync.pc # "idle"
  PROVE  sync \in Sync /\ sync # NoSync
BY DEF TypeOK, NoSync

\* A request under way is not the absent one.
LEMMA NoRequestOutside == NoRequest.stage = "none" /\ NoRequest \notin Request
BY DEF NoRequest, Request

-----------------------------------------------------------------------------
\* Rows stay right while the server's table does not change and no row is
\* removed or learns of an item.
LEMMA RowsKept ==
  ASSUME Inv, items' = items,
         \A o \in Ops : /\ row'[o].remote = row[o].remote
                        /\ row'[o].status = "removed" => row[o].status = "removed"
  PROVE  \A o \in Ops : RowOK(o)'
BY DEF Inv, RowOK

\* Requests stay right while drafts stay drafts and items stay items, and no
\* answer is given.
LEMMA RequestsKept ==
  ASSUME Inv,
         \A r \in Requests : \/ request'[r] = NoRequest
                             \/ /\ request'[r] \in Request /\ request[r] \in Request
                                /\ request'[r].op = request[r].op
                                /\ request'[r].stage = "ok" => request[r].stage = "ok",
         \A o \in Ops : /\ row[o].status # "none" => row'[o].status # "none"
                        /\ items[o] = 1 => items'[o] = 1
  PROVE  \A r \in Requests : RequestOK(r)'
<1> SUFFICES ASSUME NEW r \in Requests, request'[r] # NoRequest
             PROVE  /\ row'[request'[r].op].status # "none"
                    /\ request'[r].stage = "ok" => items'[request'[r].op] = 1
  BY DEF RequestOK
<1>1. /\ request[r] \in Request /\ request[r].op \in Ops
      /\ request'[r].op = request[r].op
      /\ request'[r].stage = "ok" => request[r].stage = "ok"
  BY DEF Request
<1>2. request[r] # NoRequest
  BY <1>1, NoRequestOutside
<1>3. /\ row[request[r].op].status # "none"
      /\ request[r].stage = "ok" => items[request[r].op] = 1
  BY <1>2 DEF Inv, RequestOK
<1>4. QED
  BY <1>1, <1>3

\* The same when no request changes at all.
LEMMA RequestsSame ==
  ASSUME Inv, UNCHANGED <<request, items>>,
         \A o \in Ops : row[o].status # "none" => row'[o].status # "none"
  PROVE  \A r \in Requests : RequestOK(r)'
<1>1. \A r \in Requests : \/ request'[r] = NoRequest
                          \/ /\ request'[r] \in Request /\ request[r] \in Request
                             /\ request'[r].op = request[r].op
                             /\ request'[r].stage = "ok" => request[r].stage = "ok"
  BY DEF Inv, TypeOK
<1>2. QED
  BY <1>1, RequestsKept

\* A step that touches neither drafts, requests nor the sync.
LEMMA Elsewhere ==
  ASSUME Inv, UNCHANGED <<row, items, images, request, sync, epoch>>, TypeOK', PairedOK'
  PROVE  Inv'
<1>1. \A o \in Ops : RowOK(o)'
  BY RowsKept
<1>2. \A r \in Requests : RequestOK(r)'
  BY RequestsSame
<1>3. SyncOK'
  BY DEF Inv, SyncOK, WorkOK, Current
<1>4. QED
  BY <1>1, <1>2, <1>3 DEF Inv

-----------------------------------------------------------------------------
\* Inv holds at the start.
LEMMA InitInv == Init => Inv
<1> SUFFICES ASSUME Init PROVE Inv
  OBVIOUS
<1>1. TypeOK
  BY ConstantsAssumption DEF Init, TypeOK, Row, Queued
<1>2. \A o \in Ops : RowOK(o)
  BY DEF Init, RowOK
<1>3. \A r \in Requests : RequestOK(r)
  BY DEF Init, RequestOK
<1>4. SyncOK
  BY DEF Init, SyncOK
<1>5. PairedOK
  BY DEF Init, PairedOK, IsPaired
<1>6. QED
  BY <1>1, <1>2, <1>3, <1>4, <1>5 DEF Inv

\* A quarantine: a sync under way is not the current one any more.
LEMMA QuarantineInv ==
  ASSUME Inv, Quarantine, UNCHANGED <<queuedBy, server, request, sync, crashes>>,
         paired' \in [cred : 0..MaxCred, status : {"none", "paired", "revoked"}],
         PairedOK', handling' \subseteq Creds
  PROVE  Inv'
<1>1. \A o \in Ops :
        /\ row'[o] \in Row
        /\ row'[o].remote = row[o].remote
        /\ row'[o].status \in {row[o].status, "failed"}
        /\ row[o].status = "none" => row'[o].status = "none"
        /\ row[o].status = "in_progress" => row'[o].status = "failed"
        /\ row[o].status = "removed" => row'[o].status = "removed"
  <2> TAKE o \in Ops
  <2>1. row[o] \in Row
    BY DEF Inv, TypeOK
  <2>2. row'[o] = IF row[o].status \in Queued
                  THEN [row[o] EXCEPT !.status = "failed", !.wait = FALSE] ELSE row[o]
    BY DEF Quarantine
  <2>3. CASE row[o].status \in Queued
    <3>1. row'[o] = [row[o] EXCEPT !.status = "failed", !.wait = FALSE]
      BY <2>2, <2>3
    <3>2. row'[o] \in Row /\ row'[o].status = "failed" /\ row'[o].remote = row[o].remote
      BY <2>1, <3>1 DEF Row
    <3>3. QED
      BY <2>3, <3>2 DEF Queued
  <2>4. CASE row[o].status \notin Queued
    BY <2>1, <2>2, <2>4 DEF Queued
  <2>5. QED
    BY <2>3, <2>4
<1>2. epoch \in Nat /\ MaxEpoch \in Nat /\ epoch' = epoch + 1 /\ epoch' \in 0..MaxEpoch
  <2>1. MaxEpoch \in Nat /\ epoch \in 0..MaxEpoch
    BY ConstantsAssumption DEF Inv, TypeOK
  <2>2. epoch < MaxEpoch /\ epoch' = epoch + 1
    BY DEF Quarantine
  <2>3. QED
    BY <2>1, <2>2
<1>3. row' \in [Ops -> Row]
  BY <1>1 DEF Quarantine
<1>4. TypeOK'
  BY <1>2, <1>3 DEF Inv, TypeOK, server
<1>5. \A o \in Ops : RowOK(o)'
  BY <1>1, RowsKept DEF server
<1>6. \A r \in Requests : RequestOK(r)'
  BY <1>1, RequestsSame DEF server
<1>7. SyncOK'
  <2> SUFFICES ASSUME sync # NoSync
               PROVE  /\ sync.epoch <= epoch'
                      /\ sync.pc \in Working => WorkOK'
                      /\ sync.epoch # epoch'
    BY DEF SyncOK, Current
  <2>1. sync \in Sync /\ sync.epoch \in Nat /\ sync.epoch <= epoch
    BY ConstantsAssumption DEF Inv, TypeOK, SyncOK, Sync
  <2>2. sync.epoch <= epoch' /\ sync.epoch # epoch'
    BY <1>2, <2>1
  <2>3. ASSUME sync.pc \in Working PROVE WorkOK'
    <3>1. WorkOK
      BY <2>3 DEF Inv, SyncOK
    <3>2. row'[sync.op].status = "failed" /\ row'[sync.op].remote = row[sync.op].remote
      BY <1>1, <3>1 DEF WorkOK
    <3>3. QED
      BY <2>2, <3>1, <3>2 DEF WorkOK, Current, server
  <2>4. QED
    BY <2>2, <2>3
<1>8. QED
  BY <1>4, <1>5, <1>6, <1>7 DEF Inv, PairedOK, IsPaired

\* The catch of a sync that works on a row: it lets the row go, and writes it
\* only while the row is its own.
LEMMA FailInv ==
  ASSUME Inv, sync.pc \in Working, NEW reply, Fail(reply),
         UNCHANGED <<queuedBy, items, revoked, paired, epoch, handling, crashes>>,
         images' \subseteq Ops,
         request' \in [Requests -> Request \cup {NoRequest}],
         \A r \in Requests : request'[r] \in {NoRequest, request[r]}
  PROVE  Inv'
<1>1. sync \in Sync /\ sync # NoSync /\ WorkOK /\ sync.epoch <= epoch
  BY Running DEF Inv, SyncOK, Working
<1>2. \A o \in Ops : /\ row'[o] \in Row
                     /\ row'[o].remote = row[o].remote
                     /\ row'[o].status = "removed" => row[o].status = "removed"
                     /\ row[o].status # "none" => row'[o].status # "none"
                     /\ o # sync.op => row'[o] = row[o]
  BY <1>1 DEF Fail, Inv, TypeOK, Row, Queued, Retry, WorkOK
<1>3. \/ sync' = NoSync
      \/ Current /\ sync' = [sync EXCEPT !.pc = "next", !.op = 0, !.req = 0]
  <2>1. CASE Current
    BY <2>1 DEF Fail
  <2>2. CASE ~ Current
    BY <2>2 DEF Fail
  <2>3. QED
    BY <2>1, <2>2
<1>4. TypeOK'
  <2>1. row' \in [Ops -> Row]
    BY <1>2 DEF Fail, Inv, TypeOK
  <2>2. sync' \in Sync \cup {NoSync}
    BY <1>1, <1>3 DEF Sync
  <2>3. QED
    BY <2>1, <2>2 DEF Inv, TypeOK
<1>5. \A o \in Ops : RowOK(o)'
  BY <1>2, RowsKept
<1>6. \A r \in Requests : RequestOK(r)'
  BY <1>2, RequestsKept DEF Inv, TypeOK
<1>7. SyncOK'
  <2>1. CASE sync' = NoSync
    BY <2>1 DEF SyncOK
  <2>2. CASE Current /\ sync' = [sync EXCEPT !.pc = "next", !.op = 0, !.req = 0]
    <3>1. /\ sync'.pc = "next" /\ sync'.pc \notin Working
          /\ sync'.epoch = sync.epoch /\ sync'.rows = sync.rows
      BY <1>1, <2>2 DEF Sync, Working
    <3>2. \A o \in sync.rows : o \in Ops /\ o # sync.op
      BY <1>1 DEF WorkOK, Sync
    <3>3. \A o \in sync.rows : row'[o].status \in {"pending", "retryable"}
      BY <1>1, <1>2, <2>2, <3>2 DEF Inv, SyncOK
    <3>4. QED
      BY <1>1, <3>1, <3>3 DEF SyncOK
  <2>3. QED
    BY <1>3, <2>1, <2>2
<1>8. QED
  BY <1>4, <1>5, <1>6, <1>7 DEF Inv, PairedOK, IsPaired

\* The server answers truly: "ok" only for an item it has.
LEMMA AnswerInv ==
  ASSUME Inv, NEW r \in Requests, request[r] # NoRequest, NEW reply \in Replies,
         Answer(r, reply), reply = "ok" => items'[request[r].op] = 1,
         items' \in [Ops -> Nat],
         \A o \in Ops : RowOK(o)', \A o \in Ops : items[o] = 1 => items'[o] = 1,
         UNCHANGED <<phone, images, revoked, paired, volatile, crashes>>
  PROVE  Inv'
<1>1. /\ request[r] \in Request /\ NoRequest \notin Request
      /\ Replies \subseteq {"ok", "denied", "refused"}
  BY NoRequestOutside DEF Inv, TypeOK, Replies
<1>2. \A q \in Requests :
        \/ q # r /\ request'[q] = request[q]
        \/ request'[q] = NoRequest
        \/ q = r /\ request'[r] \in Request /\ request'[r].op = request[r].op
           /\ request'[r].stage = reply
  BY <1>1 DEF Answer, Inv, TypeOK, Request
<1>3. request' \in [Requests -> Request \cup {NoRequest}]
  BY <1>1, <1>2 DEF Answer, Inv, TypeOK
<1>4. TypeOK'
  BY <1>3 DEF Inv, TypeOK, phone, volatile
<1>5. ASSUME NEW q \in Requests PROVE RequestOK(q)'
  BY <1>1, <1>2, <1>3, <1>5 DEF Inv, TypeOK, RequestOK, phone, Request
<1>6. SyncOK'
  <2>1. \A q \in Requests : request'[q] # NoRequest =>
          request[q] # NoRequest /\ request'[q].op = request[q].op
    BY <1>1, <1>2
  <2>2. QED
    BY <2>1 DEF Inv, SyncOK, WorkOK, Current, phone, volatile
<1>7. QED
  BY <1>4, <1>5, <1>6 DEF Inv, PairedOK, IsPaired

-----------------------------------------------------------------------------
\* A step that leaves the server's table and the requests alone.
LEMMA PhoneStep ==
  ASSUME Inv, UNCHANGED <<items, request, paired>>, TypeOK', SyncOK',
         \A o \in Ops : /\ row'[o].remote = row[o].remote
                        /\ row'[o].status = "removed" => row[o].status = "removed"
                        /\ row[o].status # "none" => row'[o].status # "none"
  PROVE  Inv'
<1>1. \A o \in Ops : RowOK(o)'
  BY RowsKept
<1>2. \A r \in Requests : RequestOK(r)'
  BY RequestsSame
<1>3. QED
  BY <1>1, <1>2 DEF Inv, PairedOK, IsPaired

\* Pairing changes no draft.
LEMMA PairInv == Inv /\ Pair => Inv'
<1> SUFFICES ASSUME Inv, Pair PROVE Inv'
  OBVIOUS
<1>1. /\ paired.cred \in 0..MaxCred /\ MaxCred \in Nat /\ paired.cred < MaxCred
      /\ paired' = [cred |-> paired.cred + 1, status |-> "paired"]
  BY ConstantsAssumption DEF Inv, TypeOK, Pair
<1>2. /\ paired' \in [cred : 0..MaxCred, status : {"none", "paired", "revoked"}]
      /\ PairedOK'
  BY <1>1 DEF PairedOK, Creds
<1>3. TypeOK' /\ UNCHANGED <<row, items, images, request, sync, epoch>>
  BY <1>2 DEF Inv, TypeOK, Pair, phone, server, volatile
<1>4. QED
  BY <1>2, <1>3, Elsewhere

\* A revocation is not noticed yet.
LEMMA RevokeDeviceInv == ASSUME Inv, NEW c \in Creds, RevokeDevice(c) PROVE Inv'
<1>1. TypeOK' /\ UNCHANGED <<row, items, images, request, sync, epoch>>
  BY DEF Inv, TypeOK, RevokeDevice, phone, volatile
<1>2. PairedOK'
  BY DEF Inv, PairedOK, IsPaired, RevokeDevice
<1>3. QED
  BY <1>1, <1>2, Elsewhere

\* The phone learns of a revocation: a quarantine.
LEMMA LearnRevokedInv == ASSUME Inv, NEW c \in Creds, LearnRevoked(c) PROVE Inv'
<1>1. handling' \subseteq Creds /\ paired' = paired /\ Quarantine
  BY DEF Inv, TypeOK, LearnRevoked
<1>2. /\ paired' \in [cred : 0..MaxCred, status : {"none", "paired", "revoked"}]
      /\ PairedOK'
  BY <1>1 DEF Inv, TypeOK, PairedOK, IsPaired
<1>3. UNCHANGED <<queuedBy, server, request, sync, crashes>>
  BY DEF LearnRevoked
<1>4. QED
  BY <1>1, <1>2, <1>3, QuarantineInv

\* The stored pairing is marked later.
LEMMA SettleRevokedInv == ASSUME Inv, NEW c \in Creds, SettleRevoked(c) PROVE Inv'
<1>1. paired' \in [cred : 0..MaxCred, status : {"none", "paired", "revoked"}]
  BY DEF Inv, TypeOK, SettleRevoked
<1>2. PairedOK'
  BY DEF Inv, TypeOK, PairedOK, IsPaired, SettleRevoked
<1>3. TypeOK' /\ UNCHANGED <<row, items, images, request, sync, epoch>>
  BY <1>1 DEF Inv, TypeOK, SettleRevoked, phone, server
<1>4. QED
  BY <1>2, <1>3, Elsewhere

\* Forgetting the server: a quarantine too.
LEMMA ForgetServerInv == Inv /\ ForgetServer => Inv'
<1> SUFFICES ASSUME Inv, ForgetServer PROVE Inv'
  OBVIOUS
<1>1. /\ paired' \in [cred : 0..MaxCred, status : {"none", "paired", "revoked"}]
      /\ PairedOK'
  BY DEF Inv, TypeOK, ForgetServer, PairedOK, IsPaired
<1>2. handling' \subseteq Creds /\ Quarantine
  BY DEF Inv, TypeOK, ForgetServer
<1>3. UNCHANGED <<queuedBy, server, request, sync, crashes>>
  BY DEF ForgetServer
<1>4. QED
  BY <1>1, <1>2, <1>3, QuarantineInv

\* A restart forgets the sync, so nobody owns the rows it had loaded.
LEMMA CrashInv == Inv /\ Crash => Inv'
<1> SUFFICES ASSUME Inv, Crash PROVE Inv'
  OBVIOUS
<1>1. \A o \in Ops : /\ row'[o] \in Row
                     /\ row'[o].remote = row[o].remote
                     /\ row'[o].status = "removed" => row[o].status = "removed"
                     /\ row[o].status # "none" => row'[o].status # "none"
  BY DEF Crash, Recovered, Inv, TypeOK, Row, Queued
<1>2. \A r \in Requests : request'[r] \in {request[r], NoRequest}
  BY DEF Crash
<1>3. request' \in [Requests -> Request \cup {NoRequest}]
  BY <1>2 DEF Crash, Inv, TypeOK
<1>4. row' \in [Ops -> Row] /\ sync' = NoSync /\ epoch' = 0 /\ handling' = {}
  BY <1>1 DEF Crash
<1>5. UNCHANGED <<queuedBy, items, images, revoked, paired>>
  BY DEF Crash, server
<1>6. crashes' \in 0..MaxCrashes /\ 0 \in 0..MaxEpoch
  <2>1. crashes \in 0..MaxCrashes /\ MaxCrashes \in Nat /\ MaxEpoch \in Nat
    BY ConstantsAssumption DEF Inv, TypeOK
  <2>2. crashes < MaxCrashes /\ crashes' = crashes + 1
    BY DEF Crash
  <2>3. QED
    BY <2>1, <2>2
<1>7. TypeOK'
  BY <1>3, <1>4, <1>5, <1>6 DEF Inv, TypeOK
<1>8. \A o \in Ops : RowOK(o)'
  BY <1>1, <1>5, RowsKept
<1>9. \A r \in Requests : RequestOK(r)'
  BY <1>1, <1>2, <1>5, RequestsKept DEF Inv, TypeOK
<1>10. SyncOK'
  BY <1>4 DEF SyncOK
<1>11. QED
  BY <1>5, <1>7, <1>8, <1>9, <1>10 DEF Inv, PairedOK, IsPaired

\* A new draft is in no sync and has no request.
LEMMA QueueItemInv == ASSUME Inv, NEW o \in Ops, QueueItem(o) PROVE Inv'
<1>1. /\ row[o].status = "none" /\ row' = [row EXCEPT ![o].status = "pending"]
      /\ UNCHANGED <<server, paired, request, volatile, crashes>>
  BY DEF QueueItem
<1>2. \A p \in Ops : /\ row'[p] \in Row
                     /\ row'[p].remote = row[p].remote
                     /\ row'[p].status = "removed" => row[p].status = "removed"
                     /\ row[p].status # "none" => row'[p] = row[p]
                     /\ row'[p].status # row[p].status => row[p].status = "none"
                     /\ row[p].status # "none" => row'[p].status # "none"
  <2>1. row[o] \in Row /\ "pending" \in Queued
    BY DEF Inv, TypeOK, Queued
  <2> DEFINE r == [row[o] EXCEPT !.status = "pending"]
  <2>2. r \in Row /\ r.status = "pending" /\ r.remote = row[o].remote
    BY <2>1 DEF Row
  <2> HIDE DEF r
  <2>3. \A p \in Ops : /\ row[p] \in Row /\ row'[p] \in Row
                       /\ p = o => row'[p] = r
                       /\ p # o => row'[p] = row[p]
    <3>1. row' = [row EXCEPT ![o] = r]
      BY <1>1 DEF r
    <3>2. QED
      BY <2>2, <3>1 DEF Inv, TypeOK
  <2>4. QED
    BY <1>1, <2>2, <2>3
<1>3. queuedBy' \in [Ops -> 0..MaxCred]
  BY DEF QueueItem, Inv, TypeOK
<1>4. TypeOK'
  BY <1>1, <1>2, <1>3 DEF Inv, TypeOK, server, volatile
<1>5. SyncOK'
  BY <1>1, <1>2 DEF Inv, TypeOK, SyncOK, WorkOK, Current, Sync, server, volatile
<1>6. QED
  BY <1>1, <1>2, <1>4, <1>5, PhoneStep DEF server

\* The end of a back-off changes no status.
LEMMA BackoffOverInv == ASSUME Inv, NEW o \in Ops, BackoffOver(o) PROVE Inv'
<1>1. /\ row' = [row EXCEPT ![o].wait = FALSE]
      /\ UNCHANGED <<queuedBy, server, paired, request, volatile, crashes>>
  BY DEF BackoffOver
<1>2. \A p \in Ops : /\ row'[p] \in Row
                     /\ row'[p].remote = row[p].remote
                     /\ row'[p].status = row[p].status
  <2> DEFINE r == [row[o] EXCEPT !.wait = FALSE]
  <2>1. r \in Row /\ r.status = row[o].status /\ r.remote = row[o].remote
    <3>1. row[o] \in Row
      BY DEF Inv, TypeOK
    <3>2. QED
      BY <3>1 DEF Row
  <2> HIDE DEF r
  <2>2. row' = [row EXCEPT ![o] = r]
    BY <1>1 DEF r
  <2>3. QED
    BY <2>1, <2>2 DEF Inv, TypeOK
<1>3. TypeOK'
  BY <1>1, <1>2 DEF Inv, TypeOK, server, volatile
<1>4. SyncOK'
  BY <1>1, <1>2 DEF Inv, TypeOK, SyncOK, WorkOK, Current, Sync, server, volatile
<1>5. QED
  BY <1>1, <1>2, <1>3, <1>4, PhoneStep DEF server

-----------------------------------------------------------------------------
\* The rows a sync loads are its own from then on.
LEMMA SyncStartInv == Inv /\ SyncStart => Inv'
<1> SUFFICES ASSUME Inv, SyncStart PROVE Inv'
  OBVIOUS
<1>1. /\ IsPaired /\ Due # {}
      /\ sync' = [pc |-> "next", rows |-> Due, op |-> 0, epoch |-> epoch, cred |-> paired.cred,
                  req |-> 0]
      /\ UNCHANGED <<phone, server, paired, request, epoch, handling, crashes>>
  BY DEF SyncStart, NoSync
<1>2. Due \subseteq Ops /\ \A o \in Due : row[o].status \in {"pending", "retryable"}
  BY DEF Due
<1>3. paired.cred \in Creds
  BY <1>1 DEF Inv, PairedOK
<1>4. sync' \in Sync
  BY <1>1, <1>2, <1>3 DEF Sync, Inv, TypeOK
<1>5. TypeOK'
  BY <1>1, <1>4 DEF Inv, TypeOK, phone, server
<1>6. SyncOK'
  <2>1. sync'.epoch <= epoch'
    BY <1>1, ConstantsAssumption DEF Inv, TypeOK
  <2>2. sync'.pc \notin Working
    BY <1>1 DEF Working
  <2>3. \A o \in sync'.rows : row'[o].status \in {"pending", "retryable"}
    BY <1>1, <1>2 DEF phone
  <2>4. QED
    BY <2>1, <2>2, <2>3 DEF SyncOK
<1>7. QED
  BY <1>1, <1>5, <1>6, PhoneStep DEF phone, server

\* A sync that is current takes a row nobody has put aside.
LEMMA SyncNextInv == Inv /\ SyncNext => Inv'
<1> SUFFICES ASSUME Inv, SyncNext PROVE Inv'
  OBVIOUS
<1>1. UNCHANGED <<queuedBy, items, images, revoked, paired, request, epoch, handling, crashes>>
  BY DEF SyncNext, server
<1>2. sync \in Sync /\ sync # NoSync /\ sync.epoch <= epoch
  BY Running DEF Inv, SyncOK, SyncNext
<1>3. CASE sync.rows = {} \/ ~ Current
  <2>1. sync' = NoSync /\ row' = row
    BY <1>3 DEF SyncNext
  <2>2. TypeOK' /\ SyncOK'
    BY <1>1, <2>1 DEF Inv, TypeOK, SyncOK
  <2>3. QED
    BY <1>1, <2>1, <2>2, PhoneStep
<1>4. CASE ~ (sync.rows = {} \/ ~ Current)
  <2>1. PICK o \in sync.rows : o = NextRow
    BY <1>2, <1>4, NextRowLoaded DEF Inv
  <2>2. o \in Ops /\ sync.rows \subseteq Ops /\ row[o].status \in {"pending", "retryable"}
    BY <1>2, <1>4 DEF Inv, SyncOK, Sync
  <2>3. /\ row' = [row EXCEPT ![o].status = "in_progress"]
        /\ sync' = [sync EXCEPT !.pc = "marked", !.op = o, !.rows = @ \ {o}]
    BY <1>4, <2>1 DEF SyncNext
  <2>4. \A p \in Ops : /\ row'[p] \in Row
                       /\ row'[p].remote = row[p].remote
                       /\ p # o => row'[p] = row[p]
                       /\ p = o => row'[p].status = "in_progress"
    BY <2>3 DEF Inv, TypeOK, Row, Queued
  <2>5. /\ sync'.pc = "marked" /\ sync'.op = o /\ sync'.rows = sync.rows \ {o}
        /\ sync'.epoch = sync.epoch /\ sync' \in Sync
    BY <1>2, <2>2, <2>3 DEF Sync
  <2>6. TypeOK'
    BY <1>1, <2>3, <2>4, <2>5 DEF Inv, TypeOK
  <2>7. WorkOK'
    BY <2>2, <2>4, <2>5 DEF WorkOK
  <2>8. \A p \in sync'.rows : row'[p].status \in {"pending", "retryable"}
    BY <1>2, <1>4, <2>2, <2>4, <2>5 DEF Inv, SyncOK
  <2>9. SyncOK'
    BY <1>1, <1>2, <2>5, <2>7, <2>8 DEF SyncOK
  <2>10. \A p \in Ops : /\ row'[p].status = "removed" => row[p].status = "removed"
                        /\ row[p].status # "none" => row'[p].status # "none"
    BY <2>4
  <2>11. QED
    BY <1>1, <2>4, <2>6, <2>9, <2>10, PhoneStep
<1>5. QED
  BY <1>3, <1>4

\* The request sent is for the row in work.
LEMMA SyncSendInv == Inv /\ SyncSend => Inv'
<1> SUFFICES ASSUME Inv, SyncSend PROVE Inv'
  OBVIOUS
<1>1. UNCHANGED <<row, queuedBy, items, images, revoked, paired, epoch, handling, crashes>>
  BY DEF SyncSend, phone, server
<1>2. sync \in Sync /\ sync # NoSync /\ sync.epoch <= epoch /\ sync.pc = "marked" /\ WorkOK
  BY Running DEF Inv, SyncOK, SyncSend, Working
<1>3. CASE row[sync.op].remote
  <2>1. sync' = [sync EXCEPT !.pc = "stored"] /\ request' = request
    BY <1>3 DEF SyncSend
  <2>2. /\ sync'.pc = "stored" /\ sync'.op = sync.op /\ sync'.rows = sync.rows
        /\ sync'.epoch = sync.epoch /\ sync' \in Sync
    BY <1>2, <2>1 DEF Sync
  <2>3. TypeOK'
    BY <1>1, <2>1, <2>2 DEF Inv, TypeOK
  <2>4. WorkOK'
    BY <1>1, <1>2, <1>3, <2>2 DEF WorkOK, Current
  <2>5. SyncOK'
    BY <1>1, <1>2, <2>2, <2>4 DEF Inv, SyncOK, Current
  <2>6. QED
    BY <1>1, <2>1, <2>3, <2>5, PhoneStep
<1>4. CASE ~ row[sync.op].remote
  <2>1. PICK r \in Requests :
          /\ request' = [request EXCEPT ![r] = [stage |-> "sent", op |-> sync.op,
                                               cred |-> sync.cred]]
          /\ sync' = [sync EXCEPT !.pc = "wait", !.req = r]
    BY <1>4 DEF SyncSend
  <2>2. /\ sync'.pc = "wait" /\ sync'.op = sync.op /\ sync'.rows = sync.rows
        /\ sync'.epoch = sync.epoch /\ sync'.req = r /\ sync' \in Sync
    BY <1>2, <2>1 DEF Sync
  <2>3. [stage |-> "sent", op |-> sync.op, cred |-> sync.cred] \in Request
    BY <1>2 DEF Request, WorkOK, Sync
  <2>4. /\ request' \in [Requests -> Request \cup {NoRequest}]
        /\ request'[r].op = sync.op /\ request'[r].stage = "sent"
        /\ \A q \in Requests : q # r => request'[q] = request[q]
    BY <2>1, <2>3 DEF Inv, TypeOK
  <2>5. TypeOK'
    BY <1>1, <2>2, <2>4 DEF Inv, TypeOK
  <2>6. WorkOK'
    BY <1>1, <1>2, <2>2, <2>4 DEF WorkOK, Current
  <2>7. SyncOK'
    BY <1>1, <1>2, <2>2, <2>6 DEF Inv, SyncOK, Current
  <2>8. row[sync.op].status # "none"
    BY <1>2 DEF WorkOK
  <2>9. ASSUME NEW q \in Requests PROVE RequestOK(q)'
    BY <1>1, <2>4, <2>8, <2>9 DEF Inv, RequestOK
  <2>10. \A o \in Ops : RowOK(o)'
    BY <1>1, RowsKept
  <2>11. QED
    BY <1>1, <2>5, <2>7, <2>9, <2>10 DEF Inv, PairedOK, IsPaired
<1>5. QED
  BY <1>3, <1>4

\* The phone learns of an item that is there.
LEMMA SyncStoredInv == Inv /\ SyncStored => Inv'
<1> SUFFICES ASSUME Inv, SyncStored PROVE Inv'
  OBVIOUS
<1>1. /\ UNCHANGED <<queuedBy, items, images, revoked, paired, epoch, handling, crashes>>
      /\ row' = [row EXCEPT ![sync.op].remote = TRUE]
      /\ sync' = [sync EXCEPT !.pc = "stored", !.req = 0]
      /\ request' = [request EXCEPT ![sync.req] = NoRequest]
  BY DEF SyncStored, server
<1>2. sync \in Sync /\ sync # NoSync /\ sync.epoch <= epoch /\ sync.pc = "wait" /\ WorkOK
  BY Running DEF Inv, SyncOK, SyncStored, Working
<1>3. items[sync.op] = 1
  <2>1. sync.req \in Requests /\ request[sync.req].stage = "ok"
    BY <1>2 DEF WorkOK, SyncStored
  <2>2. request[sync.req] # NoRequest
    BY <2>1, NoRequestOutside
  <2>3. QED
    BY <1>2, <2>1, <2>2 DEF Inv, RequestOK, WorkOK
<1>4. \A o \in Ops : /\ row'[o] \in Row
                     /\ row'[o].status = row[o].status
                     /\ o # sync.op => row'[o] = row[o]
                     /\ o = sync.op => row'[o].remote = TRUE
  <2> DEFINE r == [row[sync.op] EXCEPT !.remote = TRUE]
  <2>1. sync.op \in Ops
    BY <1>2 DEF WorkOK
  <2>2. r \in Row /\ r.status = row[sync.op].status /\ r.remote = TRUE
    <3>1. row[sync.op] \in Row
      BY <2>1 DEF Inv, TypeOK
    <3>2. QED
      BY <3>1 DEF Row
  <2> HIDE DEF r
  <2>3. row' = [row EXCEPT ![sync.op] = r]
    BY <1>1 DEF r
  <2>4. QED
    BY <2>1, <2>2, <2>3 DEF Inv, TypeOK
<1>5. /\ sync'.pc = "stored" /\ sync'.op = sync.op /\ sync'.rows = sync.rows
      /\ sync'.epoch = sync.epoch /\ sync' \in Sync
  BY <1>1, <1>2 DEF Sync
<1>6. TypeOK'
  <2>1. request' \in [Requests -> Request \cup {NoRequest}]
    BY <1>1 DEF Inv, TypeOK
  <2>2. row' \in [Ops -> Row]
    BY <1>1, <1>4 DEF Inv, TypeOK
  <2>3. QED
    BY <1>1, <1>5, <2>1, <2>2 DEF Inv, TypeOK
<1>7. \A o \in Ops : RowOK(o)'
  BY <1>1, <1>3, <1>4 DEF Inv, RowOK
<1>8. \A r \in Requests : RequestOK(r)'
  BY <1>1, <1>4, RequestsKept DEF Inv, TypeOK
<1>9. WorkOK'
  BY <1>1, <1>2, <1>4, <1>5 DEF WorkOK, Current
<1>10. SyncOK'
  BY <1>1, <1>2, <1>4, <1>5, <1>9 DEF Inv, SyncOK, Current, Sync
<1>11. QED
  BY <1>1, <1>6, <1>7, <1>8, <1>10 DEF Inv, PairedOK, IsPaired

\* A refusal ends in the catch.
LEMMA SyncRejectedInv == Inv /\ SyncRejected => Inv'
<1> SUFFICES ASSUME Inv, SyncRejected PROVE Inv'
  OBVIOUS
<1>1. /\ Fail(request[sync.req].stage)
      /\ request' = [request EXCEPT ![sync.req] = NoRequest]
      /\ UNCHANGED <<queuedBy, items, images, revoked, paired, epoch, handling, crashes>>
  BY DEF SyncRejected, server
<1>2. sync.pc \in Working
  BY DEF SyncRejected, Working
<1>3. /\ request' \in [Requests -> Request \cup {NoRequest}]
      /\ \A r \in Requests : request'[r] \in {NoRequest, request[r]}
  BY <1>1 DEF Inv, TypeOK
<1>4. images' \subseteq Ops
  BY <1>1 DEF Inv, TypeOK
<1>5. QED
  BY <1>1, <1>2, <1>3, <1>4, FailInv

\* No answer ends in the catch; the request may live on.
LEMMA SyncTimeoutInv == Inv /\ SyncTimeout => Inv'
<1> SUFFICES ASSUME Inv, SyncTimeout PROVE Inv'
  OBVIOUS
<1>1. /\ Fail("none")
      /\ request' = [request EXCEPT ![sync.req] = IF @.stage \in Replies THEN NoRequest ELSE @]
      /\ UNCHANGED <<queuedBy, items, images, revoked, paired, epoch, handling, crashes>>
  BY DEF SyncTimeout, server
<1>2. sync.pc \in Working
  BY DEF SyncTimeout, Working
<1>3. /\ request' \in [Requests -> Request \cup {NoRequest}]
      /\ \A r \in Requests : request'[r] \in {NoRequest, request[r]}
  BY <1>1 DEF Inv, TypeOK
<1>4. images' \subseteq Ops
  BY <1>1 DEF Inv, TypeOK
<1>5. QED
  BY <1>1, <1>2, <1>3, <1>4, FailInv

\* An upload ends in the catch or changes no row.
LEMMA SyncUploadInv == Inv /\ SyncUpload => Inv'
<1> SUFFICES ASSUME Inv, SyncUpload PROVE Inv'
  OBVIOUS
<1>1. UNCHANGED <<queuedBy, items, revoked, paired, request, epoch, handling, crashes>>
  BY DEF SyncUpload
<1>2. sync.pc \in Working /\ sync.pc = "stored"
  BY DEF SyncUpload, Working
<1>3. sync \in Sync /\ sync # NoSync /\ sync.epoch <= epoch /\ WorkOK
  BY <1>2, Running DEF Inv, SyncOK
<1>4. images' \subseteq Ops
  BY <1>3 DEF SyncUpload, Inv, TypeOK, WorkOK
<1>5. CASE /\ row' = row /\ sync' = [sync EXCEPT !.pc = "uploaded"]
           /\ images' = images \cup {sync.op}
  <2>1. /\ sync'.pc = "uploaded" /\ sync'.op = sync.op /\ sync'.rows = sync.rows
        /\ sync'.epoch = sync.epoch /\ sync' \in Sync
    BY <1>3, <1>5 DEF Sync
  <2>2. TypeOK'
    BY <1>1, <1>4, <1>5, <2>1 DEF Inv, TypeOK
  <2>3. WorkOK'
    BY <1>1, <1>2, <1>3, <1>5, <2>1 DEF WorkOK, Current
  <2>4. SyncOK'
    BY <1>1, <1>3, <1>5, <2>1, <2>3 DEF Inv, SyncOK, Current
  <2>5. QED
    BY <1>1, <1>5, <2>2, <2>4, PhoneStep
<1>6. ASSUME NEW reply, Fail(reply) PROVE Inv'
  <2>1. /\ request' \in [Requests -> Request \cup {NoRequest}]
        /\ \A r \in Requests : request'[r] \in {NoRequest, request[r]}
    BY <1>1 DEF Inv, TypeOK
  <2>2. QED
    BY <1>1, <1>2, <1>4, <1>6, <2>1, FailInv
<1>7. QED
  BY <1>5, <1>6 DEF SyncUpload

\* The row removed is one whose item is known.
LEMMA SyncRemoveInv == Inv /\ SyncRemove => Inv'
<1> SUFFICES ASSUME Inv, SyncRemove PROVE Inv'
  OBVIOUS
<1>1. /\ UNCHANGED <<queuedBy, items, images, revoked, paired, request, epoch, handling, crashes>>
      /\ row' = [row EXCEPT ![sync.op] = [status |-> "removed", remote |-> TRUE, wait |-> FALSE]]
      /\ sync' = [sync EXCEPT !.pc = "next", !.op = 0]
  BY DEF SyncRemove, server
<1>2. sync.pc \in {"stored", "uploaded"}
  BY DEF SyncRemove, Finished
<1>3. sync \in Sync /\ sync # NoSync /\ sync.epoch <= epoch /\ WorkOK
  BY <1>2, Running DEF Inv, SyncOK, Working
<1>4. row[sync.op].remote /\ items[sync.op] = 1
  BY <1>2, <1>3 DEF WorkOK, Inv, RowOK
<1>5. [status |-> "removed", remote |-> TRUE, wait |-> FALSE] \in Row
  BY DEF Row
<1>6. \A o \in Ops : /\ row'[o] \in Row
                     /\ o # sync.op => row'[o] = row[o]
                     /\ o = sync.op => row'[o].remote /\ row'[o].status = "removed"
  BY <1>1, <1>5 DEF Inv, TypeOK
<1>7. /\ sync'.pc = "next" /\ sync'.pc \notin Working /\ sync'.rows = sync.rows
      /\ sync'.epoch = sync.epoch /\ sync' \in Sync
  BY <1>1, <1>3 DEF Sync, Working
<1>8. TypeOK'
  BY <1>1, <1>5, <1>7 DEF Inv, TypeOK
<1>9. \A o \in Ops : RowOK(o)'
  BY <1>1, <1>4, <1>6 DEF Inv, RowOK
<1>10. \A o \in Ops : row[o].status # "none" => row'[o].status # "none"
  BY <1>6
<1>11. \A r \in Requests : RequestOK(r)'
  BY <1>1, <1>10, RequestsSame
<1>12. \A o \in sync.rows : o \in Ops /\ o # sync.op
  BY <1>3 DEF WorkOK, Sync
<1>13. SyncOK'
  BY <1>1, <1>3, <1>6, <1>7, <1>12 DEF Inv, SyncOK, Current
<1>14. QED
  BY <1>1, <1>8, <1>9, <1>11, <1>13 DEF Inv, PairedOK, IsPaired

-----------------------------------------------------------------------------
\* The read answers "ok" only for an item it has found.
LEMMA ServerReadInv == ASSUME Inv, NEW r \in Requests, ServerRead(r) PROVE Inv'
<1>1. /\ UNCHANGED <<phone, items, images, revoked, paired, volatile, crashes>>
      /\ request[r].stage = "sent"
  BY DEF ServerRead, server
<1>2. request[r] # NoRequest /\ request[r] \in Request
  BY <1>1, NoRequestOutside DEF Inv, TypeOK
<1>3. items' \in [Ops -> Nat] /\ \A o \in Ops : RowOK(o)'
  BY <1>1, RowsKept DEF Inv, TypeOK, phone
<1>4. ASSUME NEW reply \in Replies, Answer(r, reply),
             reply = "ok" => items[request[r].op] > 0
      PROVE  Inv'
  <2>1. items[request[r].op] <= 1 /\ items[request[r].op] \in Nat
    BY <1>2 DEF Inv, TypeOK, RowOK, Request
  <2>2. reply = "ok" => items'[request[r].op] = 1
    BY <1>1, <1>4, <2>1
  <2>3. QED
    BY <1>1, <1>2, <1>3, <1>4, <2>2, AnswerInv
<1>5. CASE request' = [request EXCEPT ![r].stage = "checked"]
  <2>1. /\ request' \in [Requests -> Request \cup {NoRequest}]
        /\ request'[r] \in Request /\ request'[r].op = request[r].op
        /\ request'[r].stage = "checked"
        /\ \A q \in Requests : q # r => request'[q] = request[q]
    BY <1>2, <1>5 DEF Inv, TypeOK, Request
  <2>2. TypeOK'
    BY <1>1, <2>1 DEF Inv, TypeOK, phone, volatile
  <2>3. ASSUME NEW q \in Requests PROVE RequestOK(q)'
    BY <1>1, <1>2, <2>1, <2>3 DEF Inv, RequestOK, phone
  <2>4. \A q \in Requests : request'[q] # NoRequest =>
          request[q] # NoRequest /\ request'[q].op = request[q].op
    BY <1>2, <2>1
  <2>5. SyncOK'
    BY <1>1, <2>4 DEF Inv, SyncOK, WorkOK, Current, phone, volatile
  <2>6. QED
    BY <1>1, <1>3, <2>2, <2>3, <2>5 DEF Inv, PairedOK, IsPaired
<1>6. CASE request[r].cred \in revoked
  <2>1. Answer(r, "denied")
    BY <1>6 DEF ServerRead
  <2>2. QED
    BY <1>4, <2>1 DEF Replies
<1>7. CASE request[r].cred \notin revoked /\ items[request[r].op] > 0
  <2>1. Answer(r, "ok")
    BY <1>7 DEF ServerRead
  <2>2. QED
    BY <1>4, <1>7, <2>1 DEF Replies
<1>8. CASE request[r].cred \notin revoked /\ ~ (items[request[r].op] > 0)
  <2>1. CASE Answer(r, "refused")
    BY <1>4, <2>1 DEF Replies
  <2>2. QED
    BY <1>5, <1>8, <2>1 DEF ServerRead
<1>9. QED
  BY <1>6, <1>7, <1>8

\* Whoever inserts first, there is one item afterwards.
LEMMA ServerInsertInv == ASSUME Inv, NEW r \in Requests, ServerInsert(r) PROVE Inv'
<1>1. /\ request[r].stage = "checked" /\ Answer(r, "ok")
      /\ UNCHANGED <<phone, images, revoked, paired, volatile, crashes>>
  BY DEF ServerInsert
<1>2. request[r] # NoRequest /\ request[r] \in Request /\ request[r].op \in Ops
  BY <1>1, NoRequestOutside DEF Inv, TypeOK, Request
<1>3. PICK o \in Ops : o = request[r].op
  BY <1>2
<1>4. items \in [Ops -> Nat] /\ \A p \in Ops : items[p] <= 1
  BY DEF Inv, TypeOK, RowOK
<1>5. items' = IF items[o] = 0 THEN [items EXCEPT ![o] = @ + 1] ELSE items
  BY <1>3 DEF ServerInsert, MayInsert
<1>6. /\ items' \in [Ops -> Nat]
      /\ items'[o] = 1
      /\ \A p \in Ops : p # o => items'[p] = items[p]
  BY <1>4, <1>5
<1>7. \A p \in Ops : RowOK(p)'
  BY <1>1, <1>6 DEF Inv, RowOK, phone
<1>8. \A p \in Ops : items[p] = 1 => items'[p] = 1
  BY <1>6
<1>9. QED
  BY <1>1, <1>2, <1>3, <1>6, <1>7, <1>8, AnswerInv DEF Replies

\* A request that is lost is answered by nobody.
LEMMA ServerLoseInv == ASSUME Inv, NEW r \in Requests, ServerLose(r) PROVE Inv'
<1>1. /\ UNCHANGED <<phone, items, images, revoked, paired, volatile, crashes>>
      /\ request' = [request EXCEPT ![r] = NoRequest]
  BY DEF ServerLose, server
<1>2. \A q \in Requests : request'[q] \in {NoRequest, request[q]}
  BY <1>1 DEF Inv, TypeOK
<1>3. TypeOK'
  BY <1>1 DEF Inv, TypeOK, phone, volatile
<1>4. \A o \in Ops : RowOK(o)'
  BY <1>1, RowsKept DEF phone
<1>5. \A q \in Requests : RequestOK(q)'
  BY <1>1, <1>2, RequestsKept DEF Inv, TypeOK, phone
<1>6. SyncOK'
  BY <1>1, <1>2 DEF Inv, SyncOK, WorkOK, Current, phone, volatile
<1>7. QED
  BY <1>1, <1>3, <1>4, <1>5, <1>6 DEF Inv, PairedOK, IsPaired

-----------------------------------------------------------------------------
\* Inv is inductive.
LEMMA NextInv == Inv /\ [Next]_vars => Inv'
<1> SUFFICES ASSUME Inv, [Next]_vars PROVE Inv'
  OBVIOUS
<1>1. CASE Pair \/ ForgetServer \/ Crash
  BY <1>1, PairInv, ForgetServerInv, CrashInv
<1>2. ASSUME NEW c \in Creds, RevokeDevice(c) \/ LearnRevoked(c) \/ SettleRevoked(c)
      PROVE  Inv'
  BY <1>2, RevokeDeviceInv, LearnRevokedInv, SettleRevokedInv
<1>3. ASSUME NEW o \in Ops, QueueItem(o) \/ BackoffOver(o) PROVE Inv'
  BY <1>3, QueueItemInv, BackoffOverInv
<1>4. CASE SyncStep
  BY <1>4, SyncStartInv, SyncNextInv, SyncSendInv, SyncStoredInv, SyncRejectedInv,
     SyncTimeoutInv, SyncUploadInv, SyncRemoveInv DEF SyncStep
<1>5. ASSUME NEW r \in Requests, ServerStep(r) PROVE Inv'
  BY <1>5, ServerReadInv, ServerInsertInv, ServerLoseInv DEF ServerStep
<1>6. CASE UNCHANGED vars
  <2>1. TypeOK' /\ PairedOK' /\ UNCHANGED <<row, items, images, request, sync, epoch>>
    BY <1>6 DEF Inv, TypeOK, PairedOK, IsPaired, vars
  <2>2. QED
    BY <2>1, Elsewhere
<1>7. QED
  BY <1>1, <1>2, <1>3, <1>4, <1>5, <1>6 DEF Next

\* Inv holds in every reachable state.
LEMMA Invariant == Spec => []Inv
<1>1. Init => Inv
  BY InitInv
<1>2. Inv /\ [Next]_vars => Inv'
  BY NextInv
<1>3. QED
  BY <1>1, <1>2, PTL DEF Spec

\* Rows, requests and syncs hold what their columns and fields may.
THEOREM TypeCorrect == Spec => []TypeOK
<1>1. Inv => TypeOK
  BY DEF Inv
<1>2. QED
  BY <1>1, Invariant, PTL

\* A sync takes rows up and puts them down again: a draft in progress is the one that
\* the running sync is at, and no quarantine has come since it took it up.
Owned ==
  \A o \in Ops : row[o].status = "in_progress" => sync.op = o /\ sync.pc \in Working /\ Current

\* The catch puts down what the sync was at.
LEMMA FailOwned ==
  ASSUME Inv, Owned, NEW reply, Fail(reply)
  PROVE  \A o \in Ops : row'[o].status # "in_progress"
<1>1. row \in [Ops -> Row]
  BY DEF Inv, TypeOK
<1>2. CASE Current
  BY <1>1, <1>2 DEF Fail, Owned, Row
<1>3. CASE ~ Current
  BY <1>3 DEF Fail, Owned
<1>4. QED
  BY <1>2, <1>3

\* The steps of a sync.
LEMMA SyncOwned ==
  ASSUME Inv, Owned, SyncStep
  PROVE  Owned'
<1> DEFINE None == \A o \in Ops : row[o].status # "in_progress"
<1>0. row \in [Ops -> Row] /\ epoch' = epoch
  BY DEF Inv, TypeOK, SyncStep, SyncStart, SyncNext, SyncSend, SyncStored, SyncRejected,
     SyncTimeout,
     SyncUpload, SyncRemove
<1>1. None' => Owned'
  BY DEF Owned
<1>2. ASSUME row' = row, sync' \in Sync, sync'.op = sync.op, sync'.epoch = sync.epoch,
             sync'.pc \in Working
      PROVE  Owned'
  BY <1>0, <1>2 DEF Owned, Current
<1>3. ASSUME sync.pc \notin Working PROVE None
  BY <1>3 DEF Owned
<1>4. CASE SyncStart
  <2>1. sync.pc \notin Working /\ row' = row
    BY <1>4 DEF SyncStart, NoSync, Working, phone
  <2>2. QED
    BY <1>1, <1>3, <2>1
<1>5. CASE SyncNext
  <2>1. sync.pc = "next" /\ sync \in Sync /\ sync # NoSync
    BY <1>5, Running DEF SyncNext, Inv
  <2>2. None
    BY <1>3, <2>1 DEF Working
  <2>3. CASE sync.rows = {} \/ ~ Current
    BY <1>1, <1>5, <2>2, <2>3 DEF SyncNext
  <2>4. CASE sync.rows # {} /\ Current
    <3>1. /\ row' = [row EXCEPT ![NextRow].status = "in_progress"]
          /\ sync' = [sync EXCEPT !.pc = "marked", !.op = NextRow, !.rows = @ \ {NextRow}]
      BY <1>5, <2>4 DEF SyncNext
    <3>2. sync'.op = NextRow /\ sync'.pc \in Working /\ sync'.epoch = sync.epoch
      BY <2>1, <3>1 DEF Sync, Working
    <3>3. \A o \in Ops : row'[o].status = "in_progress" => o = NextRow
      BY <1>0, <2>2, <3>1 DEF Row
    <3>4. QED
      BY <1>0, <2>4, <3>2, <3>3 DEF Owned, Current
  <2>5. QED
    BY <2>3, <2>4
<1>6. CASE SyncSend
  <2>1. sync \in Sync /\ row' = row
    BY <1>6, Running DEF SyncSend, Inv, phone
  <2>2. \/ sync' = [sync EXCEPT !.pc = "stored"]
        \/ \E r \in Requests : sync' = [sync EXCEPT !.pc = "wait", !.req = r]
    BY <1>6 DEF SyncSend
  <2>3. sync' \in Sync /\ sync'.op = sync.op /\ sync'.epoch = sync.epoch /\ sync'.pc \in Working
    BY <2>1, <2>2 DEF Sync, Working
  <2>4. QED
    BY <1>2, <2>1, <2>3
<1>7. CASE SyncStored
  <2>1. sync \in Sync /\ row' = [row EXCEPT ![sync.op].remote = TRUE]
    BY <1>7, Running DEF SyncStored, Inv
  <2>2. sync'.op = sync.op /\ sync'.epoch = sync.epoch /\ sync'.pc \in Working
    BY <1>7, <2>1 DEF SyncStored, Sync, Working
  <2>3. \A o \in Ops : row'[o].status = row[o].status
    BY <1>0, <2>1 DEF Row
  <2>4. QED
    BY <1>0, <2>2, <2>3 DEF Owned, Current
<1>8. CASE SyncRejected \/ SyncTimeout
  BY <1>1, <1>8, FailOwned DEF SyncRejected, SyncTimeout
<1>9. CASE SyncUpload
  <2>1. sync \in Sync
    BY <1>9, Running DEF SyncUpload, Inv
  <2>2. CASE row' = row /\ sync' = [sync EXCEPT !.pc = "uploaded"]
    <3>1. sync' \in Sync /\ sync'.op = sync.op /\ sync'.epoch = sync.epoch /\ sync'.pc \in Working
      BY <2>1, <2>2 DEF Sync, Working
    <3>2. QED
      BY <1>2, <2>2, <3>1
  <2>3. QED
    BY <1>1, <1>9, <2>2, FailOwned DEF SyncUpload
<1>10. CASE SyncRemove
  <2>1. row' = [row EXCEPT ![sync.op] = [status |-> "removed", remote |-> TRUE, wait |-> FALSE]]
    BY <1>10 DEF SyncRemove
  <2>2. None'
    BY <1>0, <2>1 DEF Owned
  <2>3. QED
    BY <1>1, <2>2
<1>11. QED
  BY <1>4, <1>5, <1>6, <1>7, <1>8, <1>9, <1>10 DEF SyncStep

\* The steps of everybody else put rows down or leave them and the sync as they are.
LEMMA OwnedInv == Inv /\ Owned /\ [Next]_vars => Owned'
<1> SUFFICES ASSUME Inv, Owned, [Next]_vars PROVE Owned'
  OBVIOUS
<1>0. row \in [Ops -> Row]
  BY DEF Inv, TypeOK
<1>1. ASSUME UNCHANGED <<sync, epoch>>,
             \A o \in Ops : row'[o].status = "in_progress" => row[o].status = "in_progress"
      PROVE  Owned'
  BY <1>1 DEF Owned, Current
<1>2. ASSUME \A o \in Ops : row'[o].status # "in_progress" PROVE Owned'
  BY <1>2 DEF Owned
<1>3. ASSUME Quarantine PROVE Owned'
  <2>1. \A o \in Ops : row'[o].status # "in_progress"
    BY <1>0, <1>3 DEF Quarantine, Row, Queued
  <2>2. QED
    BY <1>2, <2>1
<1>4. ASSUME Crash PROVE Owned'
  <2>1. \A o \in Ops : row'[o].status = Recovered(o)
    BY <1>0, <1>4 DEF Crash, Row
  <2>2. QED
    BY <1>2, <2>1 DEF Recovered
<1>5. ASSUME NEW o \in Ops, QueueItem(o) \/ BackoffOver(o) PROVE Owned'
  <2>1. UNCHANGED <<sync, epoch>>
    BY <1>5 DEF QueueItem, BackoffOver, volatile
  <2>2. row' = [row EXCEPT ![o].status = "pending"] \/ row' = [row EXCEPT ![o].wait = FALSE]
    BY <1>5 DEF QueueItem, BackoffOver
  <2>3. \A p \in Ops : row'[p].status = "in_progress" => row[p].status = "in_progress"
    BY <1>0, <2>2 DEF Row
  <2>4. QED
    BY <1>1, <2>1, <2>3
<1>6. ASSUME NEW c \in Creds, RevokeDevice(c) \/ SettleRevoked(c) PROVE Owned'
  BY <1>1, <1>6 DEF RevokeDevice, SettleRevoked, phone, volatile
<1>7. ASSUME NEW r \in Requests, ServerStep(r) PROVE Owned'
  BY <1>1, <1>7 DEF ServerStep, ServerRead, ServerInsert, ServerLose, phone, volatile
<1>8. CASE UNCHANGED vars
  BY <1>1, <1>8 DEF vars
<1>9. CASE Pair
  BY <1>1, <1>9 DEF Pair, phone, volatile
<1>10. QED
  BY <1>3, <1>4, <1>5, <1>6, <1>7, <1>8, <1>9, SyncOwned DEF Next, LearnRevoked, ForgetServer

\* Whatever is killed, refused, timed out or put aside meanwhile, no draft is left where
\* neither a timer nor a sync will come to it.
THEOREM NobodyAbandons == Spec => []NoneAbandoned
<1>1. Init => Owned
  BY DEF Init, Owned
<1>2. Inv /\ Owned => NoneAbandoned
  BY DEF Owned, NoneAbandoned, Due, Queued, Inv, TypeOK
<1>3. QED
  BY <1>1, <1>2, OwnedInv, Invariant, PTL DEF Spec

-----------------------------------------------------------------------------
(* What a step does to the drafts, as the user sees them. *)
Kept(o) == row'[o].status = row[o].status \/ {row[o].status, row'[o].status} \subseteq Queued

Aside(o) == row[o].status \in Queued /\ row'[o].status = "failed"

\* Some queued drafts are put aside, or none are.
PutsAside == UNCHANGED <<items, images>> /\ \A o \in Ops : Kept(o) \/ Aside(o)

\* Draft o alone changes its status from one of these to that one.
Turns(o, from, to) ==
  /\ UNCHANGED <<items, images>>
  /\ row[o].status \in from
  /\ row'[o].status = to
  /\ \A p \in Ops \ {o} : row'[p].status = row[p].status

\* The item of draft o is created, which nobody has removed.
Creates(o) ==
  /\ UNCHANGED <<row, images>>
  /\ items[o] = 0
  /\ items' = [items EXCEPT ![o] = 1]
  /\ row[o].status \in Queued \cup {"failed"}

\* The photo of draft o is stored, whatever the phone learns of it.
Stores(o) ==
  /\ items' = items
  /\ o \in Photos
  /\ items[o] = 1
  /\ images' = images \cup {o}
  /\ row[o].status \in Queued \cup {"failed"}
  /\ \A p \in Ops : Kept(p)

\* Draft o is removed, with its item and its photo at the server.
Removes(o) ==
  /\ items[o] = 1
  /\ o \in Photos => o \in images
  /\ Turns(o, {"in_progress", "failed"}, "removed")

Moves == \/ PutsAside
         \/ \E o \in Ops : Turns(o, {"none"}, "pending") \/ Removes(o) \/ Creates(o) \/ Stores(o)

\* Most steps leave rows, items and photos alone.
LEMMA NothingMoves == UNCHANGED <<row, items, images>> => Moves
BY DEF Moves, PutsAside, Kept

\* A quarantine puts every queued draft aside.
LEMMA QuarantineMoves == Inv /\ Quarantine /\ UNCHANGED <<items, images>> => PutsAside
BY DEF Inv, TypeOK, Quarantine, PutsAside, Kept, Aside, Row, Queued

\* A restart leaves queued drafts queued.
LEMMA CrashMoves == Inv /\ Crash => PutsAside
BY DEF Inv, TypeOK, Crash, Recovered, server, PutsAside, Kept, Row, Queued

\* The catch puts a draft aside that is its own, or none, and none if it may be retried.
LEMMA FailTurns ==
  ASSUME Inv, sync.pc \in Working, NEW reply, Fail(reply)
  PROVE  /\ \A o \in Ops : Kept(o) \/ Aside(o)
         /\ Retry(reply) => \A o \in Ops : Kept(o)
<1>1. CASE Current
  <2>1. sync.op \in Ops /\ row[sync.op].status = "in_progress"
    BY <1>1, Running DEF Inv, SyncOK, WorkOK, Working
  <2>2. row' = [row EXCEPT ![sync.op].status = IF Retry(reply) THEN "retryable" ELSE "failed",
                           ![sync.op].wait = Retry(reply)]
    BY <1>1 DEF Fail
  <2>3. \A o \in Ops : /\ o # sync.op => row'[o] = row[o]
                       /\ o = sync.op =>
                            row'[o].status = IF Retry(reply) THEN "retryable" ELSE "failed"
    BY <2>1, <2>2 DEF Inv, TypeOK, Row
  <2>4. QED
    BY <2>1, <2>3 DEF Kept, Aside, Queued
<1>2. CASE ~ Current
  BY <1>2 DEF Fail, Kept
<1>3. QED
  BY <1>1, <1>2

LEMMA FailMoves ==
  ASSUME Inv, sync.pc \in Working, NEW reply, Fail(reply), UNCHANGED <<items, images>>
  PROVE  PutsAside
BY FailTurns DEF PutsAside

\* A draft in work is a queued one still.
LEMMA SyncNextMoves == Inv /\ SyncNext => Moves
<1> SUFFICES ASSUME Inv, SyncNext PROVE Moves
  OBVIOUS
<1>1. sync \in Sync /\ sync # NoSync /\ items' = items /\ images' = images
  BY Running DEF Inv, SyncNext, server
<1>2. CASE sync.rows = {} \/ ~ Current
  BY <1>1, <1>2, NothingMoves DEF SyncNext
<1>3. CASE ~ (sync.rows = {} \/ ~ Current)
  <2>1. PICK o \in sync.rows : o = NextRow
    BY <1>1, <1>3, NextRowLoaded DEF Inv
  <2>2. row[o].status \in {"pending", "retryable"}
    BY <1>1, <1>3 DEF Inv, SyncOK
  <2>3. row' = [row EXCEPT ![o].status = "in_progress"]
    BY <1>3, <2>1 DEF SyncNext
  <2>4. \A p \in Ops : /\ p # o => row'[p] = row[p]
                       /\ p = o => row'[p].status = "in_progress"
    BY <2>3 DEF Inv, TypeOK, Row
  <2>5. PutsAside
    BY <1>1, <2>2, <2>4 DEF PutsAside, Kept, Queued
  <2>6. QED
    BY <2>5 DEF Moves
<1>4. QED
  BY <1>2, <1>3

\* Learning of the item is invisible.
LEMMA SyncStoredMoves == Inv /\ SyncStored => PutsAside
BY DEF Inv, TypeOK, SyncStored, server, PutsAside, Kept, Row

\* The photo sent is that of an item there is, and of a draft that is not removed.
LEMMA SyncUploadMoves == Inv /\ SyncUpload => Moves
<1> SUFFICES ASSUME Inv, SyncUpload PROVE Moves
  OBVIOUS
<1>1. items' = items /\ sync.pc \in Working /\ sync.pc = "stored" /\ sync.op \in Photos
  BY DEF SyncUpload, Working
<1>2. WorkOK
  BY <1>1, Running DEF Inv, SyncOK
<1>3. PICK o \in Ops : o = sync.op
  BY <1>2 DEF WorkOK
<1>4. o \in Photos /\ items[o] = 1 /\ row[o].status \in Queued \cup {"failed"}
  BY <1>1, <1>2, <1>3 DEF WorkOK, Inv, RowOK, Queued
<1>5. ASSUME images' = images \cup {o}, \A p \in Ops : Kept(p) PROVE Moves
  BY <1>1, <1>4, <1>5 DEF Moves, Stores
<1>6. ASSUME NEW reply, Fail(reply), images' = images PROVE Moves
  BY <1>1, <1>6, FailMoves DEF Moves
<1>7. CASE images' = images \cup {o} /\ row' = row
  BY <1>5, <1>7 DEF Kept
<1>8. CASE images' = images \cup {o} /\ Fail("none")
  <2>1. Retry("none")
    BY DEF Retry
  <2>2. QED
    BY <1>1, <1>5, <1>8, <2>1, FailTurns
<1>9. QED
  BY <1>3, <1>6, <1>7, <1>8 DEF SyncUpload

\* The draft removed has its item, and its photo if it has one.
LEMMA SyncRemoveMoves == Inv /\ SyncRemove => Moves
<1> SUFFICES ASSUME Inv, SyncRemove PROVE Moves
  OBVIOUS
<1>1. /\ items' = items /\ images' = images
      /\ row' = [row EXCEPT ![sync.op] = [status |-> "removed", remote |-> TRUE, wait |-> FALSE]]
  BY DEF SyncRemove, server
<1>2. sync.pc \in {"stored", "uploaded"} /\ (sync.op \in Photos => sync.pc = "uploaded")
  BY DEF SyncRemove, Finished
<1>3. WorkOK
  BY <1>2, Running DEF Inv, SyncOK, Working
<1>4. PICK o \in Ops : o = sync.op
  BY <1>3 DEF WorkOK
<1>5. /\ items[o] = 1 /\ row[o].status \in {"in_progress", "failed"}
      /\ o \in Photos => o \in images
  BY <1>2, <1>3, <1>4 DEF WorkOK, Inv, RowOK
<1>6. row'[o].status = "removed" /\ \A p \in Ops \ {o} : row'[p].status = row[p].status
  BY <1>1, <1>4 DEF Inv, TypeOK
<1>7. Turns(o, {"in_progress", "failed"}, "removed")
  BY <1>1, <1>5, <1>6 DEF Turns
<1>8. QED
  BY <1>5, <1>7 DEF Moves, Removes

\* A draft is saved.
LEMMA QueueItemMoves == ASSUME Inv, NEW o \in Ops, QueueItem(o) PROVE Moves
<1>1. row'[o].status = "pending" /\ \A p \in Ops \ {o} : row'[p].status = row[p].status
  BY DEF QueueItem, Inv, TypeOK, Row
<1>2. Turns(o, {"none"}, "pending")
  BY <1>1 DEF QueueItem, Turns, server
<1>3. QED
  BY <1>2 DEF Moves

\* A back-off is invisible.
LEMMA BackoffOverMoves == ASSUME Inv, NEW o \in Ops, BackoffOver(o) PROVE PutsAside
<1>1. UNCHANGED <<items, images>> /\ \A p \in Ops : row'[p].status = row[p].status
  BY DEF BackoffOver, Inv, TypeOK, Row, server
<1>2. QED
  BY <1>1 DEF PutsAside, Kept

\* The item created is that of a draft that is queued or put aside.
LEMMA ServerInsertMoves == ASSUME Inv, NEW r \in Requests, ServerInsert(r) PROVE Moves
<1>1. request[r] # NoRequest /\ request[r] \in Request
  BY NoRequestOutside DEF Inv, TypeOK, ServerInsert
<1>2. PICK o \in Ops : o = request[r].op
  BY <1>1 DEF Request
<1>3. /\ UNCHANGED <<row, images>>
      /\ items' = IF items[o] = 0 THEN [items EXCEPT ![o] = @ + 1] ELSE items
  BY <1>2 DEF ServerInsert, MayInsert, phone
<1>4. CASE items[o] = 0
  <2>1. items' = [items EXCEPT ![o] = 1]
    BY <1>3, <1>4 DEF Inv, TypeOK
  <2>2. row[o] \in Row /\ row[o].status # "none" /\ row[o].status # "removed"
    BY <1>1, <1>2, <1>4 DEF Inv, TypeOK, RequestOK, RowOK
  <2>3. Creates(o)
    BY <1>3, <1>4, <2>1, <2>2 DEF Creates, Row
  <2>4. QED
    BY <2>3 DEF Moves
<1>5. CASE items[o] # 0
  BY <1>3, <1>5, NothingMoves
<1>6. QED
  BY <1>4, <1>5

\* Every step moves the drafts in one of these ways.
LEMMA StepMoves == ASSUME Inv, [Next]_vars PROVE Moves
<1>1. CASE Pair \/ UNCHANGED vars
  BY <1>1, NothingMoves DEF Pair, phone, server, vars
<1>2. CASE ForgetServer
  BY <1>2, QuarantineMoves DEF ForgetServer, server, Moves
<1>3. CASE Crash
  BY <1>3, CrashMoves DEF Moves
<1>4. ASSUME NEW c \in Creds, RevokeDevice(c) \/ SettleRevoked(c) PROVE Moves
  BY <1>4, NothingMoves DEF RevokeDevice, SettleRevoked, phone, server
<1>5. ASSUME NEW c \in Creds, LearnRevoked(c) PROVE Moves
  BY <1>5, QuarantineMoves DEF LearnRevoked, server, Moves
<1>6. ASSUME NEW o \in Ops, QueueItem(o) \/ BackoffOver(o) PROVE Moves
  BY <1>6, QueueItemMoves, BackoffOverMoves DEF Moves
<1>7. CASE SyncStart \/ SyncSend
  BY <1>7, NothingMoves DEF SyncStart, SyncSend, phone, server
<1>8. CASE SyncNext \/ SyncStored \/ SyncUpload \/ SyncRemove
  BY <1>8, SyncNextMoves, SyncStoredMoves, SyncUploadMoves, SyncRemoveMoves DEF Moves
<1>9. CASE SyncRejected
  <2>1. sync.pc \in Working /\ Fail(request[sync.req].stage) /\ UNCHANGED <<items, images>>
    BY <1>9 DEF SyncRejected, Working, server
  <2>2. QED
    BY <2>1, FailMoves DEF Moves
<1>10. CASE SyncTimeout
  <2>1. sync.pc \in Working /\ Fail("none") /\ UNCHANGED <<items, images>>
    BY <1>10 DEF SyncTimeout, Working, server
  <2>2. QED
    BY <2>1, FailMoves DEF Moves
<1>11. ASSUME NEW r \in Requests, ServerRead(r) \/ ServerLose(r) PROVE Moves
  BY <1>11, NothingMoves DEF ServerRead, ServerLose, phone, server
<1>12. ASSUME NEW r \in Requests, ServerInsert(r) PROVE Moves
  BY <1>12, ServerInsertMoves
<1>13. QED
  BY <1>1, <1>2, <1>3, <1>4, <1>5, <1>6, <1>7, <1>8, <1>9, <1>10, <1>11, <1>12
     DEF Next, SyncStep, ServerStep

\* Work put aside for the user is not taken up again, although a sync that was
\* under way when the credential went still ends.
THEOREM Quarantined == Spec => QuarantineHolds
<1>1. Moves => \A o \in Ops : row[o].status = "failed" => row'[o].status \in {"failed", "removed"}
  BY DEF Moves, PutsAside, Kept, Aside, Turns, Removes, Creates, Stores, Queued
<1>2. Inv /\ [Next]_vars =>
        [\A o \in Ops : row[o].status = "failed" => row'[o].status \in {"failed", "removed"}]_vars
  BY <1>1, StepMoves
<1>3. QED
  BY <1>2, Invariant, PTL DEF Spec, QuarantineHolds

-----------------------------------------------------------------------------
\* No draft is saved at the start.
LEMMA InitImplements == Init => Abstract!Init
<1> SUFFICES ASSUME Init PROVE Abstract!Init
  OBVIOUS
<1>1. \A o \in Ops : row[o].status = "none"
  BY DEF Init
<1>2. \A o \in Ops : DraftState(o) = "unsaved"
  BY <1>1 DEF DraftState, Queued
<1>3. items = [o \in Ops |-> 0] /\ images = {}
  BY DEF Init
<1>4. QED
  BY <1>2, <1>3 DEF Abstract!Init

\* A move of the drafts is a step of the abstract specification.
LEMMA MovesImplement ==
  ASSUME TypeOK, Moves
  PROVE  [Abstract!Next]_(Abstract!vars)
<1> DEFINE draft == [o \in Ops |-> DraftState(o)]
<1>1. \A o \in Ops :
        /\ row[o].status = "none" => DraftState(o) = "unsaved"
        /\ row[o].status \in Queued => DraftState(o) = "queued"
        /\ row[o].status = "failed" => DraftState(o) = "aside"
  BY DEF DraftState, Queued
<1>2. \A o \in Ops :
        /\ row'[o].status \in Queued => DraftState(o)' = "queued"
        /\ row'[o].status = "failed" => DraftState(o)' = "aside"
        /\ row'[o].status = "removed" => DraftState(o)' = "gone"
        /\ row'[o].status = row[o].status => DraftState(o)' = DraftState(o)
  BY DEF DraftState, Queued
<1>3. draft' = [o \in Ops |-> DraftState(o)']
  OBVIOUS
<1>4. ASSUME PutsAside PROVE \E S \in SUBSET Ops : Abstract!PutAside(S)
  <2> DEFINE S == {o \in Ops : Aside(o)}
  <2>1. \A o \in S : DraftState(o) = "queued"
    BY <1>1 DEF Aside
  <2>2. \A o \in Ops : DraftState(o)' = IF o \in S THEN "aside" ELSE DraftState(o)
    BY <1>1, <1>2, <1>4 DEF PutsAside, Kept, Aside
  <2>3. draft' = [o \in Ops |-> IF o \in S THEN "aside" ELSE draft[o]]
    BY <1>3, <2>2
  <2>4. Abstract!PutAside(S)
    BY <1>4, <2>1, <2>3 DEF PutsAside, Abstract!PutAside
  <2>5. QED
    BY <2>4
<1>5. ASSUME NEW o \in Ops, NEW from, NEW to, Turns(o, from, to),
             NEW seen, DraftState(o)' = seen
      PROVE  draft' = [draft EXCEPT ![o] = seen]
  <2>1. \A p \in Ops : DraftState(p)' = IF p = o THEN seen ELSE DraftState(p)
    BY <1>2, <1>5 DEF Turns
  <2>2. QED
    BY <1>3, <2>1
<1>6. ASSUME NEW o \in Ops, Turns(o, {"none"}, "pending") PROVE Abstract!Save(o)
  <2>1. DraftState(o) = "unsaved" /\ DraftState(o)' = "queued" /\ UNCHANGED <<items, images>>
    BY <1>1, <1>2, <1>6 DEF Turns, Queued
  <2>2. draft' = [draft EXCEPT ![o] = "queued"]
    BY <1>5, <1>6, <2>1
  <2>3. QED
    BY <2>1, <2>2 DEF Abstract!Save
<1>7. ASSUME NEW o \in Ops, Removes(o) PROVE Abstract!Forget(o)
  <2>1. /\ DraftState(o) \in {"queued", "aside"} /\ DraftState(o)' = "gone"
        /\ UNCHANGED <<items, images>>
    BY <1>1, <1>2, <1>7 DEF Removes, Turns, Queued
  <2>2. draft' = [draft EXCEPT ![o] = "gone"]
    BY <1>5, <1>7, <2>1 DEF Removes
  <2>3. QED
    BY <1>7, <2>1, <2>2 DEF Removes, Abstract!Forget
<1>8. ASSUME NEW o \in Ops, Creates(o) PROVE Abstract!Create(o)
  <2>1. DraftState(o) \in {"queued", "aside"}
    BY <1>1, <1>8 DEF Creates
  <2>2. \A p \in Ops : DraftState(p)' = DraftState(p)
    BY <1>2, <1>8 DEF Creates
  <2>3. draft' = draft
    BY <1>3, <2>2
  <2>4. QED
    BY <1>8, <2>1, <2>3 DEF Creates, Abstract!Create
<1>9. ASSUME NEW o \in Ops, Stores(o) PROVE Abstract!Store(o)
  <2>1. DraftState(o) \in {"queued", "aside"}
    BY <1>1, <1>9 DEF Stores
  <2>2. \A p \in Ops : DraftState(p)' = DraftState(p)
    BY <1>1, <1>2, <1>9 DEF Stores, Kept
  <2>3. draft' = draft
    BY <1>3, <2>2
  <2>4. QED
    BY <1>9, <2>1, <2>3 DEF Stores, Abstract!Store
<1>10. QED
  BY <1>4, <1>6, <1>7, <1>8, <1>9 DEF Moves, Abstract!Next

\* Replays, time-outs, restarts and revocations are invisible: the phone and the
\* server together save each draft at most once, and forget it only when it is saved
\* with its photo.
THEOREM Implements == Spec => ImplementsOfflineCreation
<1>1. Init => Abstract!Init
  BY InitImplements
<1>2. Inv /\ [Next]_vars => [Abstract!Next]_(Abstract!vars)
  BY StepMoves, MovesImplement DEF Inv
<1>3. QED
  BY <1>1, <1>2, Invariant, PTL DEF Spec, ImplementsOfflineCreation, Abstract!Spec

-----------------------------------------------------------------------------
(* The cache beside the queue. *)
\* The cache takes nothing from the queue: what holds of the queue alone holds
\* beside it.
LEMMA CacheKeepsQueue == CacheSpec => Spec
<1>1. CacheInit => Init
  BY DEF CacheInit
<1>2. [CacheNext]_allVars => [Next]_vars
  BY DEF CacheNext, QueueStep, RebuildStart, RebuildFetch, RebuildFail, RebuildRead, RebuildWrite,
     allVars, vars
<1>3. QED
  BY <1>1, <1>2, PTL DEF CacheSpec, Spec

\* What the cache holds, and what a rebuild has read for it, was at the server or
\* was saved on the phone.
CacheOK ==
  /\ cached \subseteq Ops /\ shown \subseteq Ops
  /\ rebuild \in Rebuild \cup {NoRebuild}
  /\ \A o \in shown \cup rebuild.canonical : items[o] = 1
  /\ \A o \in cached \cup rebuild.local : row[o].status # "none"

\* An item stays, a draft that is saved stays so, and one that is removed is gone.
LEMMA StepLasts ==
  ASSUME Inv, [Next]_vars, NEW o \in Ops
  PROVE  /\ items[o] = 1 => items'[o] = 1
         /\ row[o].status # "none" => row'[o].status # "none"
         /\ row[o].status = "removed" => row'[o].status = "removed"
<1>1. Moves
  BY StepMoves
<1>2. items[o] = 1 => items'[o] = 1
  BY <1>1 DEF Moves, PutsAside, Turns, Removes, Creates, Stores, Inv, TypeOK
<1>3. /\ row[o].status # "none" => row'[o].status # "none"
      /\ row[o].status = "removed" => row'[o].status = "removed"
  BY <1>1 DEF Moves, PutsAside, Kept, Aside, Turns, Removes, Creates, Stores, Queued
<1>4. QED
  BY <1>2, <1>3

\* What each step of a rebuild does to it.
LEMMA RebuildSteps ==
  ASSUME Inv, CacheOK
  PROVE  /\ rebuild.canonical \subseteq Ops /\ rebuild.local \subseteq Ops
         /\ RebuildStart => rebuild' \in Rebuild /\ rebuild'.pc = "fetch"
                            /\ rebuild'.canonical = {} /\ rebuild'.local = {}
         /\ RebuildFetch => rebuild' \in Rebuild /\ rebuild'.pc = "fetched"
                            /\ rebuild'.canonical = {o \in Ops : items[o] > 0}
                            /\ rebuild'.local = rebuild.local
         /\ RebuildRead => rebuild' \in Rebuild /\ rebuild'.pc = "read"
                           /\ rebuild'.canonical = rebuild.canonical
                           /\ rebuild'.local = {o \in cached : InQueue(o)}
<1>1. rebuild = NoRebuild \/ rebuild \in Rebuild
  BY DEF CacheOK
<1>2. rebuild.canonical \subseteq Ops /\ rebuild.local \subseteq Ops
  BY <1>1 DEF Rebuild, NoRebuild
<1>3. ASSUME RebuildStart
      PROVE  rebuild' \in Rebuild /\ rebuild'.pc = "fetch"
             /\ rebuild'.canonical = {} /\ rebuild'.local = {}
  <2>1. rebuild' = [pc |-> "fetch", cred |-> paired.cred, canonical |-> {}, local |-> {}]
    BY <1>3 DEF RebuildStart, NoRebuild
  <2>2. paired.cred \in Creds
    BY <1>3 DEF RebuildStart, Inv, PairedOK
  <2>3. QED
    BY <2>1, <2>2 DEF Rebuild
<1>4. ASSUME RebuildFetch
      PROVE  rebuild' \in Rebuild /\ rebuild'.pc = "fetched"
             /\ rebuild'.canonical = {o \in Ops : items[o] > 0} /\ rebuild'.local = rebuild.local
  <2>1. rebuild \in Rebuild
    BY <1>1, <1>4 DEF RebuildFetch, NoRebuild
  <2>2. QED
    BY <1>4, <2>1 DEF RebuildFetch, Rebuild
<1>5. ASSUME RebuildRead
      PROVE  rebuild' \in Rebuild /\ rebuild'.pc = "read"
             /\ rebuild'.canonical = rebuild.canonical
             /\ rebuild'.local = {o \in cached : InQueue(o)}
  <2>1. rebuild \in Rebuild
    BY <1>1, <1>5 DEF RebuildRead, NoRebuild
  <2>2. {o \in cached : InQueue(o)} \subseteq Ops
    BY DEF CacheOK
  <2>3. QED
    BY <1>5, <2>1, <2>2 DEF RebuildRead, Rebuild
<1>6. QED
  BY <1>2, <1>3, <1>4, <1>5

LEMMA CacheStepOK ==
  ASSUME Inv, CacheOK, [CacheNext]_allVars
  PROVE  CacheOK'
<1>1. \A o \in Ops : /\ items[o] = 1 => items'[o] = 1
                     /\ row[o].status # "none" => row'[o].status # "none"
  <2>1. [Next]_vars
    BY DEF CacheNext, QueueStep, RebuildStart, RebuildFetch, RebuildFail, RebuildRead,
       RebuildWrite,
       allVars, vars
  <2>2. QED
    BY <2>1, StepLasts
<1>2. rebuild.canonical \subseteq Ops /\ rebuild.local \subseteq Ops
  BY RebuildSteps
<1>3. CASE QueueStep
  <2>1. rebuild' \in {rebuild, NoRebuild} /\ shown' = shown
    BY <1>3 DEF QueueStep
  <2>2. /\ rebuild' \in Rebuild \cup {NoRebuild}
        /\ rebuild'.canonical \subseteq rebuild.canonical /\ rebuild'.local \subseteq rebuild.local
    BY <2>1 DEF CacheOK, NoRebuild
  <2>3. \A o \in cached' : o \in Ops /\ (o \in cached \/ row'[o].status = "pending")
    BY <1>3 DEF QueueStep, Enters, CacheOK
  <2>4. QED
    BY <1>1, <1>2, <2>1, <2>2, <2>3 DEF CacheOK
<1>4. CASE RebuildStart \/ RebuildFail \/ UNCHANGED allVars
  <2>1. /\ rebuild' \in Rebuild \cup {NoRebuild}
        /\ rebuild'.canonical \subseteq rebuild.canonical /\ rebuild'.local \subseteq rebuild.local
    BY <1>4, RebuildSteps DEF RebuildFail, CacheOK, NoRebuild, allVars, cacheVars
  <2>2. UNCHANGED <<cached, shown>>
    BY <1>4 DEF RebuildStart, RebuildFail, allVars, cacheVars
  <2>3. QED
    BY <1>1, <1>2, <2>1, <2>2 DEF CacheOK
<1>5. CASE RebuildFetch
  <2>1. \A o \in Ops : items[o] > 0 => items[o] = 1
    BY DEF Inv, TypeOK, RowOK
  <2>2. /\ rebuild' \in Rebuild /\ rebuild'.canonical = {o \in Ops : items[o] > 0}
        /\ rebuild'.local = rebuild.local
    BY <1>5, RebuildSteps
  <2>3. UNCHANGED <<items, row, cached, shown>>
    BY <1>5 DEF RebuildFetch, vars
  <2>4. QED
    BY <2>1, <2>2, <2>3 DEF CacheOK
<1>6. CASE RebuildRead
  <2>1. /\ rebuild' \in Rebuild /\ rebuild'.canonical = rebuild.canonical
        /\ rebuild'.local \subseteq cached
    BY <1>6, RebuildSteps
  <2>2. UNCHANGED <<items, row, cached, shown>>
    BY <1>6 DEF RebuildRead, vars
  <2>3. QED
    BY <2>1, <2>2 DEF CacheOK
<1>7. CASE RebuildWrite
  BY <1>2, <1>7 DEF RebuildWrite, CacheOK, NoRebuild, vars
<1>8. QED
  BY <1>3, <1>4, <1>5, <1>6, <1>7 DEF CacheNext

LEMMA CacheInvariant == CacheSpec => [](Inv /\ CacheOK)
<1>1. CacheInit => CacheOK
  BY DEF CacheInit, CacheOK, NoRebuild
<1>2. CacheSpec => []Inv
  BY CacheKeepsQueue, Invariant, PTL
<1>3. Inv /\ CacheOK /\ [CacheNext]_allVars => CacheOK'
  BY CacheStepOK
<1>4. QED
  BY <1>1, <1>2, <1>3, PTL DEF CacheSpec

\* What the phone shows is there: an item of the cache is one of the server, and an
\* optimistic row is one of a draft that was saved.
CacheIsTrue ==
  /\ \A o \in shown : items[o] = 1
  /\ \A o \in cached : row[o].status # "none"

\* However rebuilds and the queue overlap, the cache shows nothing that is not there.
THEOREM NothingInvented == CacheSpec => []CacheIsTrue
<1>1. CacheOK => CacheIsTrue
  BY DEF CacheOK, CacheIsTrue
<1>2. QED
  BY <1>1, CacheInvariant, PTL

\* The cache heals: a removed draft has its item, so every list fetched since
\* has it, and no rows read since are its own.
THEOREM Heals == CacheSpec => CacheHeals
<1> DEFINE A(o) == /\ row[o].status = "removed" /\ rebuild' = NoRebuild => Caught(o)'
                   /\ Caught(o) => Caught(o)'
                   /\ Caught(o) /\ RebuildWrite => Healed(o)'
                   /\ Healed(o) => Healed(o)'
<1>1. ASSUME Inv, CacheOK, CacheNext, NEW o \in Ops PROVE A(o)
  <2>1. row[o].status = "removed" => row'[o].status = "removed" /\ items[o] = 1
    <3>1. [Next]_vars
      BY <1>1 DEF CacheNext, QueueStep, RebuildStart, RebuildFetch, RebuildFail, RebuildRead,
         RebuildWrite, vars
    <3>2. row[o].status = "removed" => items[o] = 1
      BY <1>1 DEF Inv, RowOK
    <3>3. QED
      BY <1>1, <3>1, <3>2, StepLasts
  <2>2. CASE QueueStep
    <3>1. rebuild' \in {rebuild, NoRebuild} /\ shown' = shown
      BY <2>2 DEF QueueStep
    <3>2. row[o].status = "removed" /\ o \in cached' => o \in cached
      BY <2>2 DEF QueueStep, Enters
    <3>3. ~ RebuildWrite \/ (cached' = rebuild.local /\ shown' = rebuild.canonical
                               /\ rebuild.pc = "read")
      BY DEF RebuildWrite
    <3>5. QED
      BY <2>1, <3>1, <3>2, <3>3 DEF Caught, Healed, NoRebuild
  <2>3. CASE RebuildStart \/ RebuildFail
    <3>1. rebuild'.pc \notin {"fetched", "read"}
      BY <1>1, <2>3, RebuildSteps DEF RebuildFail, NoRebuild
    <3>2. UNCHANGED <<cached, shown>> /\ rebuild.pc # "read"
      BY <2>3 DEF RebuildStart, RebuildFail, NoRebuild
    <3>3. QED
      BY <2>1, <3>1, <3>2 DEF RebuildWrite, Caught, Healed
  <2>4. CASE RebuildFetch
    <3>1. /\ rebuild'.pc = "fetched" /\ (items[o] = 1 => o \in rebuild'.canonical)
          /\ shown' = shown /\ cached' = cached
      BY <1>1, <2>4, RebuildSteps DEF RebuildFetch
    <3>2. rebuild.pc # "read" /\ rebuild' # NoRebuild
      BY <2>4, <3>1 DEF RebuildFetch, NoRebuild
    <3>3. QED
      BY <2>1, <3>1, <3>2 DEF Caught, Healed, RebuildWrite
  <2>5. CASE RebuildRead
    <3>1. /\ rebuild.pc = "fetched" /\ rebuild'.pc = "read"
          /\ rebuild'.canonical = rebuild.canonical
          /\ row[o].status = "removed" => o \notin rebuild'.local
          /\ shown' = shown /\ cached' = cached
      BY <1>1, <2>5, RebuildSteps DEF RebuildRead, InQueue
    <3>2. rebuild' # NoRebuild
      BY <3>1 DEF NoRebuild
    <3>3. QED
      BY <2>1, <3>1, <3>2 DEF Caught, Healed, RebuildWrite
  <2>6. CASE RebuildWrite
    BY <2>1, <2>6 DEF RebuildWrite, Caught, Healed, NoRebuild
  <2>7. QED
    BY <1>1, <2>2, <2>3, <2>4, <2>5, <2>6 DEF CacheNext
<1>2. Inv /\ CacheOK /\ [CacheNext]_allVars => [\A o \in Ops : A(o)]_allVars
  BY <1>1
<1>3. QED
  BY <1>2, CacheInvariant, PTL DEF CacheSpec, CacheHeals
=============================================================================
