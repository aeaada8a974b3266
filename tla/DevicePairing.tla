----------------------------- MODULE DevicePairing -----------------------------
(***************************************************************************)
(* A phone and the households it is paired with: one-time codes, device     *)
(* credentials and their revocation at the backend, the realtime socket,    *)
(* and what App.tsx does when they change.  The phone runs JavaScript       *)
(* between awaits as one action.  Its secure store carries out calls in     *)
(* the order they were made, and each is one action with the code that      *)
(* awaited it.  Rebuilds of the inventory are shared by all that ask for    *)
(* the same household while one is under way (services/inventory.ts).       *)
(***************************************************************************)
EXTENDS Naturals, Sequences, FiniteSets

CONSTANTS Households,       \* numbered in the order in which the phone meets them
          MaxCred, MaxRevoked, MaxDisturbances     \* bounds of the model

ASSUME ConstantsAssumption ==
  /\ Households \subseteq Nat \ {0}
  /\ MaxCred \in Nat /\ MaxRevoked \in Nat /\ MaxDisturbances \in Nat

VARIABLES device,    \* devices and their credentials, numbered in the order of pairing
          untold,    \* revoked devices the hub has not looked for yet
          socket,    \* the subscription of the phone
          stored,    \* the pairing in the secure store
          queue,     \* calls of the secure store
          current,   \* pairedServer, 0 for null
          recovery,  \* revokedConnection, 0 for null
          inventory, \* the inventory that is shown
          rebuild,   \* inventorySyncs: the rebuild of each household
          tasks,     \* async functions under way
          wronged,   \* history: pairings refused for what they had not done: by the answer
                     \* to another one's rebuild, or as their credential came too late
          spent      \* what has happened so far of what could go on for ever

backend == <<device, untold>>
vars == <<device, untold, socket, stored, queue, current, recovery, inventory, rebuild,
          tasks, wronged, spent>>

Creds == 1..MaxCred

Task(kind, c) == [kind |-> kind, cred |-> c, waits |-> FALSE, cancelled |-> FALSE, rerun |-> FALSE]

Home(c) == device[c].of

Active(c) == device[c].status = "active"

\* A call of the secure store stands for the function that awaits it, too.  It is
\* behind if a call before it may change the pairing.
Call(calls, op, c, for) ==
  Append(calls, [op |-> op, cred |-> c, for |-> for, cancelled |-> FALSE,
                 behind |-> \E i \in DOMAIN calls : calls[i].op # "load"])

Stored(c, status) == [cred |-> c, status |-> status]

Disturb == spent < MaxDisturbances /\ spent' = spent + 1
-----------------------------------------------------------------------------
Init == /\ device = [c \in Creds |-> [of |-> 0, status |-> "unborn"]]
        /\ untold = {}
        /\ socket = [cred |-> 0, stage |-> "ended"]
        /\ stored = Stored(0, "none")
        /\ queue = <<>>
        /\ current = 0
        /\ recovery = 0
        /\ inventory = [of |-> 0, late |-> FALSE]
        /\ rebuild = [h \in Households |-> Stored(0, "none")]
        /\ tasks = {}
        /\ wronged = {}
        /\ spent = 0

-----------------------------------------------------------------------------
(* The backend.                                                            *)

\* revoke: an owner revokes a device.  revoke_device commits ...
Revoke(c) ==
  /\ Active(c)
  /\ Cardinality({d \in Creds : device[d].status = "revoked"}) < MaxRevoked
  /\ device' = [device EXCEPT ![c].status = "revoked"]
  /\ untold' = untold \cup {c}
  /\ UNCHANGED <<socket, stored, queue, current, recovery, inventory, rebuild, tasks,
                 wronged, spent>>

InHub == socket.stage \in {"joined", "ready"}

\* ... and then tells the sockets of the device that are in the hub, and closes them.
Tell(c) ==
  /\ c \in untold
  /\ untold' = untold \ {c}
  /\ socket' = IF InHub /\ socket.cred = c THEN [socket EXCEPT !.stage = "told"] ELSE socket
  /\ UNCHANGED <<device, stored, queue, current, recovery, inventory, rebuild, tasks,
                 wronged, spent>>

\* realtime: the credential is looked up when the socket has sent it ...
Authenticate ==
  /\ socket.stage = "connecting"
  /\ socket' = [socket EXCEPT !.stage = IF Active(socket.cred) THEN "known" ELSE "refused"]
  /\ UNCHANGED <<backend, stored, queue, current, recovery, inventory, rebuild, tasks, wronged,
                 spent>>

\* The credential does not come in time, and the socket is refused all the same.
ComesLate ==
  /\ socket.stage = "connecting"
  /\ Disturb
  /\ socket' = [socket EXCEPT !.stage = "refused"]
  /\ wronged' = wronged \cup {socket.cred}
  /\ UNCHANGED <<backend, stored, queue, current, recovery, inventory, rebuild, tasks>>

\* ... and then the socket joins the hub, even if the device was revoked in between.
Join ==
  /\ socket.stage = "known"
  /\ socket' = [socket EXCEPT !.stage = "joined"]
  /\ UNCHANGED <<backend, stored, queue, current, recovery, inventory, rebuild, tasks, wronged,
                 spent>>

\* A request of the rebuild is answered: authenticate_token.
Serve(h) ==
  /\ rebuild[h].status = "asked"
  /\ rebuild' = [rebuild EXCEPT ![h].status = IF Active(rebuild[h].cred) THEN "ok" ELSE "denied"]
  /\ UNCHANGED <<backend, socket, stored, queue, current, recovery, inventory, tasks, wronged,
                 spent>>
-----------------------------------------------------------------------------
(* The phone.                                                              *)

\* Fault: an effect takes what comes after its clean-up (InventoryIsOwn).
TakesAll(t) == TRUE

\* Only the effect looks whether it was cancelled.
Takes(t) == t.kind = "effect" => ~ t.cancelled

\* A read that nobody takes the answer of need not be waited for, and of two of one
\* pairing that have not begun the one that is taken stands for both.
Waiting(some) ==
  {t \in some : \/ Takes(t)
                \/ ~ t.waits /\ [t EXCEPT !.cancelled = FALSE] \notin some}

\* The clean-up of the effects: a read goes on, but the effect takes nothing from
\* it, and the socket of a reconciliation is another's from now on.
Cancelled(old) ==
  Waiting({IF t.kind \in {"effect", "reconcile"} THEN [t EXCEPT !.cancelled = TRUE] ELSE t :
             t \in old})

\* The effects of pairing c run: one reads the inventory, one opens the socket.
Started(c) ==
  /\ socket' = [cred |-> c, stage |-> "connecting"]
  /\ tasks' = Waiting(Cancelled(tasks) \cup {Task("effect", c)})

CancelNames(calls) ==
  [i \in DOMAIN calls |-> IF calls[i].for = "name" THEN [calls[i] EXCEPT !.cancelled = TRUE]
                                                    ELSE calls[i]]

\* setPairedServer(null).
SetUnpaired(calls) ==
  /\ current' = 0
  /\ socket' = [cred |-> 0, stage |-> "ended"]
  /\ tasks' = Cancelled(tasks)
  /\ queue' = CancelNames(calls)
  /\ inventory' = [of |-> 0, late |-> FALSE]

\* The user is shown a spinner while a pairing begins or ends.
Busy == \/ \E t \in tasks : t.kind \in {"pair", "forget"}
        \/ \E i \in DOMAIN queue : queue[i].for \in {"pair", "forget"}

\* pair, pairFromScan: an owner has made a code for the household, on a page of
\* the browser or on a phone; consume_pairing takes it once, under its row lock.
Pair(h) ==
  /\ ~ Busy
  /\ h <= 1 + Cardinality({Home(c) : c \in Creds} \ {0})
  /\ \E c \in Creds :
       /\ \A d \in Creds : device[d].status = "unborn" <=> d >= c
       /\ device' = [device EXCEPT ![c] = [of |-> h, status |-> "active"]]
       /\ tasks' = tasks \cup {Task("pair", c)}
  /\ UNCHANGED <<untold, socket, stored, queue, current, recovery, inventory, rebuild, wronged,
                 spent>>

Ends(t) == tasks' = tasks \ {t}

\* The answer comes, and the pairing is written to the secure store.
PairAnswer(t) ==
  /\ t.kind = "pair"
  /\ Ends(t)
  /\ queue' = Call(queue, "save", t.cred, "pair")
  /\ UNCHANGED <<backend, socket, stored, current, recovery, inventory, rebuild, wronged, spent>>

\* The answer is lost: nobody knows the credential of the new device.
PairFails(t) ==
  /\ t.kind = "pair"
  /\ Disturb
  /\ Ends(t)
  /\ UNCHANGED <<backend, socket, stored, queue, current, recovery, inventory, rebuild, wronged>>

\* The user ends the connection.
Forget ==
  /\ ~ Busy
  /\ current # 0
  /\ Disturb
  /\ tasks' = tasks \cup {Task("forget", current)}
  /\ UNCHANGED <<backend, socket, stored, queue, current, recovery, inventory, rebuild, wronged>>

\* forget and handleRevoked have put the queue of drafts aside, and go on.
Quarantined(t) ==
  /\ t.kind \in {"forget", "revoked"}
  /\ Ends(t)
  /\ queue' = Call(queue, IF t.kind = "forget" THEN "delete" ELSE "load", t.cred, t.kind)
  /\ UNCHANGED <<backend, socket, stored, current, recovery, inventory, rebuild, wronged, spent>>

\* The effect that asks for the name of the household has an answer, before its
\* clean-up: the name is another one, and is saved with the pairing.
Renamed ==
  /\ current # 0
  /\ Active(current)
  /\ Disturb
  /\ queue' = Call(queue, "save", current, "name")
  /\ UNCHANGED <<backend, socket, stored, current, recovery, inventory, rebuild, tasks, wronged>>

StorePairing(call) ==
  /\ call.for = "pair"
  /\ stored' = Stored(call.cred, "paired")
  /\ inventory' = [of |-> 0, late |-> FALSE]
  /\ recovery' = 0
  /\ current' = call.cred
  /\ Started(call.cred)
  /\ queue' = CancelNames(Tail(queue))

\* The same pairing under another name: the effect that asks for it does not run.
StoreName(call) ==
  /\ call.for = "name"
  /\ stored' = Stored(call.cred, "paired")
  /\ IF call.cancelled THEN UNCHANGED <<tasks, socket>> ELSE Started(call.cred)
  /\ queue' = Tail(queue)
  /\ UNCHANGED <<current, inventory, recovery>>

StoreForgotten(call) ==
  /\ call.for = "forget"
  /\ stored' = Stored(0, "none")
  /\ recovery' = 0
  /\ SetUnpaired(Tail(queue))

\* Fault: any stored pairing is taken for the one that was revoked (OldPairingsStayGone).
AnyStored(c) == stored.status = "paired"

StillStored(c) == stored.status = "paired" /\ stored.cred = c

LoadRevoked(call) ==
  /\ call.op = "load"
  /\ queue' = IF StillStored(call.cred) THEN Call(Tail(queue), "mark", call.cred, "revoked")
                                        ELSE Tail(queue)
  /\ UNCHANGED <<stored, inventory, recovery, tasks, current, socket>>

StoreRevoked(call) ==
  /\ call.op = "mark"
  /\ stored' = Stored(call.cred, "revoked")
  /\ recovery' = call.cred
  /\ SetUnpaired(Tail(queue))

\* The secure store does the first call, and the code that awaits it goes on.
Store ==
  /\ queue # <<>>
  /\ LET call == Head(queue) IN
       StorePairing(call) \/ StoreName(call) \/ StoreForgotten(call) \/ LoadRevoked(call)
         \/ StoreRevoked(call)
  /\ UNCHANGED <<backend, rebuild, wronged, spent>>

\* onReady, onEvent: read again, or once more after the read that is under way.
Reconcile(c) ==
  LET running == {t \in tasks : t.kind = "reconcile" /\ t.cred = c /\ ~ t.cancelled} IN
  tasks' = IF running = {} THEN tasks \cup {Task("reconcile", c)}
           ELSE (tasks \ running) \cup {[t EXCEPT !.rerun = TRUE] : t \in running}

Ready ==
  /\ socket.stage = "joined"
  /\ socket' = [socket EXCEPT !.stage = "ready"]
  /\ Reconcile(socket.cred)
  /\ UNCHANGED <<backend, stored, queue, current, recovery, inventory, rebuild, wronged, spent>>

Event ==
  /\ socket.stage = "ready"
  /\ Disturb
  /\ Reconcile(socket.cred)
  /\ UNCHANGED <<backend, socket, stored, queue, current, recovery, inventory, rebuild, wronged>>

\* Fault: a socket that is refused is only closed (RevokedPhoneNotices).
OnlyClosed == tasks

\* handleRevoked of the pairing the socket was opened with.
RevokedTask == tasks \cup {Task("revoked", socket.cred)}

\* onDeviceRevoked and onAuthorizationFailure.
Refused ==
  /\ socket.stage \in {"told", "refused"}
  /\ socket' = [socket EXCEPT !.stage = "ended"]
  /\ tasks' = RevokedTask
  /\ UNCHANGED <<backend, stored, queue, current, recovery, inventory, rebuild, wronged, spent>>

\* The connection is lost, with what is on the wire; it is opened again later.
Drop ==
  /\ socket.stage \notin {"ended", "connecting"}
  /\ Disturb
  /\ socket' = [socket EXCEPT !.stage = "connecting"]
  /\ UNCHANGED <<backend, stored, queue, current, recovery, inventory, rebuild, tasks, wronged>>

\* refreshInventory, when the user asks for it.
Refresh ==
  /\ ~ Busy
  /\ current # 0
  /\ Disturb
  /\ tasks' = tasks \cup {Task("refresh", current)}
  /\ UNCHANGED <<backend, socket, stored, queue, current, recovery, inventory, rebuild, wronged>>

\* syncInventory, after the queue was replayed: join the rebuild of the household
\* that is under way, or start one.
Sync(t) ==
  /\ t.kind \in {"effect", "reconcile", "refresh"}
  /\ ~ t.waits
  /\ tasks' = Waiting((tasks \ {t}) \cup {[t EXCEPT !.waits = TRUE]})
  /\ rebuild' = IF rebuild[Home(t.cred)].cred = 0
                THEN [rebuild EXCEPT ![Home(t.cred)] = Stored(t.cred, "asked")] ELSE rebuild
  /\ UNCHANGED <<backend, socket, stored, queue, current, recovery, inventory, wronged, spent>>

Joined(h) == {t \in tasks : t.waits /\ Home(t.cred) = h}

\* Fault: a refusal is blamed on the pairing of the moment (RevokedIsRevoked).
BlamesCurrent(t) == current

\* handleConnectionError knows the pairing the function was started for.
Blames(t) == t.cred

\* The rebuild ends, for all that have joined it.
EndRebuild(h, status) ==
  LET takers == {t \in Joined(h) : Takes(t)}
      angry == {t \in takers : status = "denied" /\ t.kind # "refresh" /\ Blames(t) # 0}
  IN
  /\ rebuild' = [rebuild EXCEPT ![h] = Stored(0, "none")]
  /\ inventory' = IF status = "ok" /\ takers # {}
                  THEN [of |-> h, late |-> \A t \in takers : t.kind # "effect" /\ t.cred # current]
                  ELSE inventory
  /\ tasks' = (tasks \ Joined(h))
                \cup {[t EXCEPT !.waits = FALSE, !.rerun = FALSE] : t \in {u \in Joined(h) : u.rerun}}
                \cup {Task("revoked", Blames(t)) : t \in angry}
  /\ wronged' = wronged \cup {t.cred : t \in {u \in angry : u.cred # rebuild[h].cred}}
  /\ UNCHANGED <<backend, socket, stored, queue, current, recovery>>

Rebuilt(h) ==
  /\ rebuild[h].status \in {"ok", "denied"}
  /\ EndRebuild(h, rebuild[h].status)
  /\ UNCHANGED spent

\* A request of the rebuild fails or runs out of time.
RebuildFails(h) == rebuild[h].status # "none" /\ Disturb /\ EndRebuild(h, "failed")

\* The app is ended and started again: loadStoredPairing.
Restart ==
  /\ Disturb
  /\ LET c == IF stored.status = "paired" THEN stored.cred ELSE 0 IN
       /\ current' = c
       /\ socket' = [cred |-> c, stage |-> IF c = 0 THEN "ended" ELSE "connecting"]
       /\ tasks' = {Task("effect", d) : d \in {c} \ {0}}
  /\ recovery' = IF stored.status = "revoked" THEN stored.cred ELSE 0
  /\ queue' = <<>>
  /\ rebuild' = [h \in Households |-> Stored(0, "none")]
  /\ inventory' = [of |-> 0, late |-> FALSE]
  /\ UNCHANGED <<backend, stored, wronged>>

Next == \/ \E h \in Households : Pair(h) \/ Serve(h) \/ Rebuilt(h) \/ RebuildFails(h)
        \/ \E c \in Creds : Revoke(c) \/ Tell(c)
        \/ Authenticate \/ ComesLate \/ Join \/ Ready \/ Event \/ Refused \/ Drop \/ Refresh
        \/ Forget \/ Renamed \/ Store \/ Restart
        \/ \E t \in tasks : PairAnswer(t) \/ PairFails(t) \/ Quarantined(t) \/ Sync(t)

Spec == Init /\ [][Next]_vars
-----------------------------------------------------------------------------
\* A pairing is marked as revoked only when the backend has revoked it, however
\* late the message, the refusal or the answer of an older pairing comes.  The
\* exceptions are those of the code: a pairing that has joined the rebuild of an
\* older one of the same household is blamed for its refusal; and the backend
\* refuses a socket whose credential comes late as it refuses a revoked device.
RevokedIsRevoked ==
  stored.status = "revoked" => ~ Active(stored.cred) \/ stored.cred \in wronged

\* A pairing that was replaced or forgotten does not come back.  The exceptions
\* are those of the code: a call that was made while the one that replaces the
\* pairing was still on its way to the store.
OldPairingsStayGone ==
  [][stored' # stored /\ stored'.status # "none" =>
       \/ Head(queue).for = "pair"
       \/ stored'.cred = current \/ stored = Stored(stored'.cred, "paired")
       \/ Head(queue).behind]_vars

\* The inventory on the screen is that of the paired household, unless a read
\* that nobody cancels was started for an earlier pairing.
InventoryIsOwn ==
  current # 0 /\ inventory.of # 0 => inventory.of = Home(current) \/ inventory.late

\* What runs on the phone goes on, and so does the backend.
FairSpec == /\ Spec
            /\ WF_vars(Store)
            /\ WF_vars(\E t \in tasks : Quarantined(t))
            /\ WF_vars(\E t \in tasks : Sync(t))
            /\ WF_vars(Authenticate) /\ WF_vars(Join) /\ WF_vars(Ready) /\ WF_vars(Refused)
            /\ \A h \in Households : WF_vars(Serve(h) \/ Rebuilt(h))
            /\ \A c \in Creds : WF_vars(Tell(c))

\* A phone whose device was revoked gives the pairing up, also if it was offline
\* then.  The exceptions are those of the code: a socket that joined the hub too
\* late to be told, on a phone that took the answer of a rebuild from before, stays
\* there until an event makes the phone read again; and a phone that has lost its
\* pairing in the store to the new name of an older one does not recognise itself.
RevokedPhoneNotices ==
  \A c \in Creds :
    current = c /\ device[c].status = "revoked"
      ~> \/ current # c
         \/ stored.cred # c
         \/ (socket = [cred |-> c, stage |-> "ready"] /\ c \notin untold)
=============================================================================
