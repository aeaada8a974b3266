------------------------ MODULE DevicePairingProofs ------------------------
(***************************************************************************)
(* Theorems about DevicePairing for every set of households and any number  *)
(* of pairings, revocations and disturbances.  Inv says of everything that  *)
(* is under way on the phone, in the order in which it can arrive, what it  *)
(* may still do to the pairing: a task or a call that is about a revocation *)
(* is about a pairing that may be blamed, an effect that was not cancelled  *)
(* is about the current pairing, and a call of the secure store that is not *)
(* behind has nothing before it that changes the pairing.  TouchInv, beside *)
(* it, says that the news of a revocation finds the phone.                  *)
(***************************************************************************)
EXTENDS DevicePairing, TLAPS

\* The devices that have been paired.
Born == {c \in Creds : device[c].status # "unborn"}

Revoked(c) == device[c].status = "revoked"

\* Whom the phone may take for revoked: a device that is, and a pairing that got the
\* refusal of another one's rebuild, or was refused because it came late.
Blamed(c) == Revoked(c) \/ c \in wronged

DeviceRec == [of : Households \cup {0}, status : {"unborn", "active", "revoked"}]

SocketRec == [cred : Creds \cup {0},
              stage : {"ended", "connecting", "known", "refused", "joined", "ready", "told"}]

StoredRec == [cred : Creds \cup {0}, status : {"none", "paired", "revoked"}]

RebuildRec == [cred : Creds \cup {0}, status : {"none", "asked", "ok", "denied"}]

InventoryRec == [of : Households \cup {0}, late : BOOLEAN]

Ops == {"save", "load", "delete", "mark"}

Purposes == {"pair", "name", "forget", "revoked"}

CallRec == [op : Ops, cred : Creds, for : Purposes, cancelled : BOOLEAN, behind : BOOLEAN]

TaskRec == [kind : {"pair", "forget", "revoked", "effect", "reconcile", "refresh"}, cred : Creds,
            waits : BOOLEAN, cancelled : BOOLEAN, rerun : BOOLEAN]

TypeOK ==
  /\ device \in [Creds -> DeviceRec]
  /\ untold \subseteq Creds
  /\ socket \in SocketRec
  /\ stored \in StoredRec
  /\ queue \in Seq(CallRec)
  /\ current \in Creds \cup {0}
  /\ recovery \in Creds \cup {0}
  /\ inventory \in InventoryRec
  /\ rebuild \in [Households -> RebuildRec]
  /\ tasks \subseteq TaskRec
  /\ wronged \subseteq Creds
  /\ spent \in 0..MaxDisturbances

\* The hub looks for revoked devices only.
DeviceOK ==
  /\ \A c \in Born : Home(c) \in Households
  /\ untold \subseteq {c \in Creds : Revoked(c)}

\* A socket was opened by a paired device, and is told or refused if that may be blamed.
SocketOK ==
  /\ socket.stage # "ended" => socket.cred \in Born
  /\ socket.stage \in {"told", "refused"} => Blamed(socket.cred)

\* The store holds a pairing there was, marked if it may be blamed.
StoredOK ==
  /\ stored.status # "none" => stored.cred \in Born
  /\ stored.status = "revoked" => Blamed(stored.cred)

\* A rebuild is one of a paired device, and is denied if that was revoked.
RebuildOK ==
  \A h \in Households :
    /\ rebuild[h].cred = 0 <=> rebuild[h].status = "none"
    /\ rebuild[h].status # "none" => rebuild[h].cred \in Born
    /\ rebuild[h].status = "denied" => Revoked(rebuild[h].cred)

Reads == {"effect", "reconcile", "refresh"}

\* A task is one of a pairing there was; handleRevoked runs for a pairing that may be
\* blamed, and an effect before its clean-up for the current one.
TaskOK(t) ==
  /\ t.cred \in Born
  /\ t.waits \/ t.rerun => t.kind \in Reads
  /\ t.kind = "revoked" => Blamed(t.cred)
  /\ t.kind = "effect" /\ ~ t.cancelled => t.cred = current

\* A call does what the function that made it awaits.  It saves a name for the current
\* pairing, and marks the one that is stored, unless the pairing has changed since.
CallOK(call) ==
  /\ call.cred \in Born
  /\ call.for \in {"pair", "name"} => call.op = "save"
  /\ call.for = "forget" => call.op = "delete"
  /\ call.for = "revoked" => call.op \in {"load", "mark"}
  /\ call.for = "revoked" => Blamed(call.cred)
  /\ call.for = "name" /\ ~ (call.cancelled /\ call.behind) => call.cred = current
  /\ call.op = "mark" /\ ~ call.behind => stored = Stored(call.cred, "paired")

\* A call that is not behind has only reads before it.
InOrder(calls) ==
  \A i \in 1..Len(calls) : ~ calls[i].behind => \A j \in 1..(i - 1) : calls[j].op = "load"

TasksOK == \A t \in tasks : TaskOK(t)

QueueOK == InOrder(queue) /\ \A i \in 1..Len(queue) : CallOK(queue[i])

\* The current pairing is one there was.
CurrentOK == current # 0 => current \in Born

Inv == /\ TypeOK
       /\ DeviceOK
       /\ SocketOK
       /\ StoredOK
       /\ RebuildOK
       /\ TasksOK
       /\ QueueOK
       /\ CurrentOK
       /\ InventoryIsOwn

\* Whatever happens, a device stays paired with its household, a revoked one stays
\* revoked, and a pairing that was blamed stays so.
Grows ==
  /\ \A c \in Born : /\ c \in Born'
                     /\ Home(c)' = Home(c)
                     /\ Revoked(c) => Revoked(c)'
  /\ wronged \subseteq wronged'

-----------------------------------------------------------------------------
\* What holds of a pairing, a task or a call goes on to hold while the current
\* pairing and the stored one stay.
LEMMA StaysOK ==
  ASSUME Grows
  PROVE  /\ \A c \in Creds : c \in Born => c \in Born'
         /\ \A c \in Creds : c \in Born /\ Blamed(c) => Blamed(c)'
         /\ current' = current => \A t : TaskOK(t) => TaskOK(t)'
         /\ current' = current /\ stored' = stored => \A call : CallOK(call) => CallOK(call)'
<1>1. \A c : c \in Born => c \in Born'
  BY DEF Grows
<1>2. \A c : c \in Born /\ Blamed(c) => Blamed(c)'
  BY DEF Grows, Blamed
<1>3. ASSUME current' = current, NEW t, TaskOK(t) PROVE TaskOK(t)'
  BY <1>1, <1>2, <1>3 DEF TaskOK
<1>4. ASSUME current' = current, stored' = stored, NEW call, CallOK(call) PROVE CallOK(call)'
  BY <1>1, <1>2, <1>4 DEF CallOK
<1>5. QED
  BY <1>1, <1>2, <1>3, <1>4

\* Nothing changes at the backend, and nobody is blamed.
LEMMA SameBackend == ASSUME UNCHANGED <<device, wronged>> PROVE Grows
BY DEF Grows, Born, Home, Revoked

\* The parts that a step leaves alone.
LEMMA KeptParts ==
  ASSUME Inv, Grows
  PROVE  /\ socket' = socket => SocketOK'
         /\ stored' = stored => StoredOK'
         /\ rebuild' = rebuild => RebuildOK'
         /\ current' = current => CurrentOK'
         /\ current' = current /\ inventory' = inventory => InventoryIsOwn'
         /\ UNCHANGED <<current, stored, queue>> => QueueOK'
         /\ current' = current /\ (\A t \in tasks' : t \in tasks \/ TaskOK(t)') => TasksOK'
<1>1. socket' = socket => SocketOK'
  BY StaysOK DEF Inv, SocketOK, Born, Grows, Blamed
<1>2. stored' = stored => StoredOK'
  BY StaysOK DEF Inv, TypeOK, StoredOK, Grows, Blamed
<1>3. rebuild' = rebuild => RebuildOK'
  BY DEF Inv, RebuildOK, Grows
<1>4. current' = current => CurrentOK'
  BY DEF Inv, CurrentOK, Grows
<1>5. current' = current /\ inventory' = inventory => InventoryIsOwn'
  BY DEF Inv, CurrentOK, InventoryIsOwn, Grows
<1>6. UNCHANGED <<current, stored, queue>> => QueueOK'
  <2> SUFFICES ASSUME UNCHANGED <<current, stored, queue>> PROVE QueueOK'
    OBVIOUS
  <2>1. \A i \in 1..Len(queue) : CallOK(queue[i])'
    BY StaysOK DEF Inv, QueueOK
  <2>2. InOrder(queue)'
    BY DEF Inv, QueueOK, InOrder
  <2>3. QED
    BY <2>1, <2>2 DEF QueueOK
<1>7. current' = current /\ (\A t \in tasks' : t \in tasks \/ TaskOK(t)') => TasksOK'
  BY StaysOK DEF Inv, TasksOK
<1>8. QED
  BY <1>1, <1>2, <1>3, <1>4, <1>5, <1>6, <1>7

\* A new task for a pairing.
LEMMA TaskTyped ==
  ASSUME NEW c \in Creds,
         NEW kind \in {"pair", "forget", "revoked", "effect", "reconcile", "refresh"}
  PROVE  /\ Task(kind, c) \in TaskRec
         /\ Task(kind, c).kind = kind
         /\ Task(kind, c).cred = c
         /\ ~ Task(kind, c).waits /\ ~ Task(kind, c).cancelled /\ ~ Task(kind, c).rerun
BY DEF Task, TaskRec

LEMMA TaskStarts ==
  ASSUME NEW c \in Creds, c \in Born',
         NEW kind \in {"pair", "forget", "revoked", "effect", "reconcile", "refresh"},
         kind = "revoked" => Blamed(c)',
         kind = "effect" => c = current'
  PROVE  TaskOK(Task(kind, c))'
<1> DEFINE t == Task(kind, c)
<1>1. /\ t.kind = kind /\ t.cred = c
      /\ ~ t.waits /\ ~ t.rerun /\ ~ t.cancelled
  BY TaskTyped
<1> HIDE DEF t
<1>2. TaskOK(t)'
  BY <1>1 DEF TaskOK
<1>3. QED
  BY <1>2 DEF t

\* The bound on disturbances.
LEMMA SpentTyped ==
  ASSUME TypeOK, Disturb \/ spent' = spent
  PROVE  spent' \in 0..MaxDisturbances
BY ConstantsAssumption DEF TypeOK, Disturb

-----------------------------------------------------------------------------
(* The queue of the secure store.                                          *)


\* The queue without its first call.
LEMMA TailOrder ==
  ASSUME NEW q \in Seq(CallRec), InOrder(q), q # <<>>
  PROVE  /\ Head(q) = q[1] /\ 1 \in 1..Len(q) /\ Head(q) \in CallRec
         /\ Tail(q) \in Seq(CallRec)
         /\ \A i \in 1..Len(Tail(q)) : i + 1 \in 1..Len(q) /\ Tail(q)[i] = q[i + 1]
         /\ InOrder(Tail(q))
         /\ Head(q).op # "load" => \A i \in 1..Len(Tail(q)) : Tail(q)[i].behind
<1>1. /\ Head(q) = q[1] /\ 1 \in 1..Len(q) /\ Head(q) \in CallRec
      /\ Tail(q) \in Seq(CallRec)
      /\ \A i \in 1..Len(Tail(q)) : i + 1 \in 1..Len(q) /\ Tail(q)[i] = q[i + 1]
  OBVIOUS
<1>2. InOrder(Tail(q))
  <2> SUFFICES ASSUME NEW i \in 1..Len(Tail(q)), ~ Tail(q)[i].behind, NEW j \in 1..(i - 1)
               PROVE  Tail(q)[j].op = "load"
    BY DEF InOrder
  <2>1. j \in 1..Len(Tail(q)) /\ j + 1 \in 1..((i + 1) - 1)
    BY <1>1
  <2>2. i + 1 \in 1..Len(q) /\ ~ q[i + 1].behind
    BY <1>1
  <2>3. q[j + 1].op = "load"
    BY <2>1, <2>2 DEF InOrder
  <2>4. QED
    BY <1>1, <2>1, <2>3
<1>3. ASSUME Head(q).op # "load", NEW i \in 1..Len(Tail(q)) PROVE Tail(q)[i].behind
  <2>1. i + 1 \in 1..Len(q) /\ Tail(q)[i] = q[i + 1] /\ 1 \in 1..((i + 1) - 1)
    BY <1>1
  <2>2. q[1].op # "load"
    BY <1>1, <1>3
  <2>3. QED
    BY <2>1, <2>2 DEF InOrder
<1>4. QED
  BY <1>1, <1>2, <1>3

\* The queue after the effect that asks for the name has been cleaned up.
LEMMA NamesCancelled ==
  ASSUME NEW q \in Seq(CallRec), InOrder(q)
  PROVE  /\ CancelNames(q) \in Seq(CallRec)
         /\ Len(CancelNames(q)) = Len(q)
         /\ \A i \in 1..Len(q) :
              LET call == CancelNames(q)[i] IN
              /\ call.op = q[i].op /\ call.cred = q[i].cred /\ call.for = q[i].for
              /\ call.behind = q[i].behind
              /\ call.for = "name" => call.cancelled
         /\ InOrder(CancelNames(q))
<1> DEFINE r == CancelNames(q)
<1>1. \A call \in CallRec : [call EXCEPT !.cancelled = TRUE] \in CallRec
  BY DEF CallRec
<1>2. DOMAIN q = 1..Len(q) /\ Len(q) \in Nat /\ \A i \in 1..Len(q) : q[i] \in CallRec
  OBVIOUS
<1>3. r = [i \in 1..Len(q) |-> IF q[i].for = "name" THEN [q[i] EXCEPT !.cancelled = TRUE]
                                                     ELSE q[i]]
  BY <1>2 DEF CancelNames
<1>4. r \in [1..Len(q) -> CallRec]
  BY <1>1, <1>2, <1>3
<1>5. r \in Seq(CallRec) /\ Len(r) = Len(q)
  BY <1>2, <1>4
<1>6. \A i \in 1..Len(q) : /\ r[i].op = q[i].op /\ r[i].cred = q[i].cred
                           /\ r[i].for = q[i].for /\ r[i].behind = q[i].behind
                           /\ r[i].for = "name" => r[i].cancelled
  BY <1>2, <1>3 DEF CallRec
<1> HIDE DEF r
<1>7. InOrder(r)
  <2> SUFFICES ASSUME NEW i \in 1..Len(r), ~ r[i].behind, NEW j \in 1..(i - 1)
               PROVE  r[j].op = "load"
    BY DEF InOrder
  <2>1. i \in 1..Len(q) /\ j \in 1..Len(q)
    BY <1>2, <1>5
  <2>2. ~ q[i].behind /\ r[j].op = q[j].op
    BY <1>6, <2>1
  <2>3. QED
    BY <2>1, <2>2 DEF InOrder
<1>8. QED
  BY <1>5, <1>6, <1>7 DEF r

\* A call at the end of a queue.
LEMMA CallAdded ==
  ASSUME NEW q \in Seq(CallRec), NEW op \in Ops, NEW c \in Creds,
         NEW for \in Purposes, NEW r, r = Call(q, op, c, for)
  PROVE  /\ r \in Seq(CallRec)
         /\ Len(r) = Len(q) + 1
         /\ \A i \in 1..Len(q) : r[i] = q[i]
         /\ r[Len(q) + 1].op = op /\ r[Len(q) + 1].cred = c /\ r[Len(q) + 1].for = for
         /\ ~ r[Len(q) + 1].cancelled
         /\ ~ r[Len(q) + 1].behind => \A i \in 1..Len(q) : q[i].op = "load"
<1> DEFINE behind == \E i \in DOMAIN q : q[i].op # "load"
<1>1. PICK call : call = [op |-> op, cred |-> c, for |-> for, cancelled |-> FALSE,
                          behind |-> behind]
  OBVIOUS
<1>2. behind \in BOOLEAN /\ (~ behind => \A i \in 1..Len(q) : q[i].op = "load")
  OBVIOUS
<1>3. r = Append(q, call)
  BY <1>1 DEF Call
<1> HIDE DEF behind
<1>4. /\ call \in CallRec
      /\ call.op = op /\ call.cred = c /\ call.for = for /\ ~ call.cancelled
      /\ ~ call.behind => \A i \in 1..Len(q) : q[i].op = "load"
  BY <1>1, <1>2 DEF CallRec
<1>5. /\ r \in Seq(CallRec)
      /\ Len(r) = Len(q) + 1
      /\ \A i \in 1..Len(q) : r[i] = q[i]
      /\ r[Len(q) + 1] = call
  BY <1>3, <1>4
<1>6. QED
  BY <1>4, <1>5

\* A call joins the queue: the rest of a step leaves the pairings as they are.
LEMMA QueueAdds ==
  ASSUME Inv, Grows, UNCHANGED <<current, stored>>, NEW q \in Seq(CallRec), InOrder(q),
         \A i \in 1..Len(q) : CallOK(q[i]),
         NEW op \in Ops, NEW c \in Born,
         NEW for \in Purposes,
         queue' = Call(q, op, c, for),
         for \in {"pair", "name"} => op = "save",
         for = "forget" => op = "delete",
         for = "revoked" => op \in {"load", "mark"} /\ Blamed(c),
         for = "name" => c = current,
         op = "mark" => stored = Stored(c, "paired")
  PROVE  queue' \in Seq(CallRec) /\ QueueOK'
<1>1. c \in Creds /\ c \in Born' /\ (Blamed(c) => Blamed(c)')
  BY StaysOK DEF Born
<1>2. PICK r : r = queue'
  OBVIOUS
<1>3. r = Call(q, op, c, for)
  BY <1>2
<1>4. PICK call : call = r[Len(q) + 1]
  OBVIOUS
<1>5. /\ r \in Seq(CallRec)
      /\ Len(r) = Len(q) + 1
      /\ \A i \in 1..Len(q) : r[i] = q[i]
      /\ call.op = op /\ call.cred = c /\ call.for = for
      /\ ~ call.behind => \A i \in 1..Len(q) : q[i].op = "load"
  BY <1>1, <1>3, <1>4, CallAdded
<1>6. InOrder(r)
  <2> SUFFICES ASSUME NEW i \in 1..Len(r), ~ r[i].behind, NEW j \in 1..(i - 1)
               PROVE  r[j].op = "load"
    BY DEF InOrder
  <2>1. Len(q) \in Nat /\ j \in 1..Len(q) /\ r[j] = q[j]
    BY <1>5
  <2>2. CASE i = Len(q) + 1
    BY <1>4, <1>5, <2>1, <2>2
  <2>3. CASE i \in 1..Len(q)
    <3>1. ~ q[i].behind
      BY <1>5, <2>3
    <3>2. QED
      BY <2>1, <2>3, <3>1 DEF InOrder
  <2>4. QED
    BY <1>5, <2>1, <2>2, <2>3
<1>7. ASSUME NEW i \in 1..Len(r) PROVE CallOK(r[i])'
  <2>1. CASE i = Len(q) + 1
    <3>1. CallOK(call)'
      BY <1>1, <1>5 DEF CallOK
    <3>2. QED
      BY <1>4, <2>1, <3>1
  <2>2. CASE i # Len(q) + 1
    <3>1. i \in 1..Len(q) /\ r[i] = q[i]
      BY <1>5, <2>2
    <3>2. QED
      BY <3>1, StaysOK
  <2>3. QED
    BY <2>1, <2>2
<1>8. (\A i \in 1..Len(queue) : CallOK(queue[i]))'
  BY <1>2, <1>7
<1>9. InOrder(queue)'
  BY <1>2, <1>6 DEF InOrder
<1>10. QED
  BY <1>2, <1>5, <1>8, <1>9 DEF QueueOK

\* A call that is made for the current queue.
LEMMA CallMade ==
  ASSUME Inv, UNCHANGED <<device, wronged, current, stored>>,
         NEW op \in Ops, NEW c \in Born,
         NEW for \in Purposes,
         queue' = Call(queue, op, c, for),
         for \in {"pair", "name"} => op = "save",
         for = "forget" => op = "delete",
         for = "revoked" => op \in {"load", "mark"} /\ Blamed(c),
         for = "name" => c = current,
         op = "mark" => stored = Stored(c, "paired")
  PROVE  queue' \in Seq(CallRec) /\ QueueOK'
<1>1. Grows
  BY SameBackend
<1>2. PICK q : q = queue
  OBVIOUS
<1>3. q \in Seq(CallRec) /\ InOrder(q) /\ \A i \in 1..Len(q) : CallOK(q[i])
  BY <1>2 DEF Inv, TypeOK, QueueOK
<1>4. queue' = Call(q, op, c, for)
  BY <1>2
<1>5. QED
  BY <1>1, <1>3, <1>4, QueueAdds

-----------------------------------------------------------------------------
(* The steps of the backend.                                               *)

LEMMA PairInv == ASSUME Inv, NEW h \in Households, Pair(h) PROVE Inv'
<1>1. /\ tasks' \in SUBSET TaskRec
      /\ UNCHANGED <<untold, socket, stored, queue, current, recovery, inventory, rebuild, wronged,
                     spent>>
      /\ Grows
      /\ \A t \in tasks' : t \in tasks \/ TaskOK(t)'
      /\ device' \in [Creds -> DeviceRec]
      /\ \A c \in Born' : Home(c)' \in Households
  <2>1. PICK c \in Creds :
          /\ \A d \in Creds : device[d].status = "unborn" <=> d >= c
          /\ device' = [device EXCEPT ![c] = [of |-> h, status |-> "active"]]
          /\ tasks' = tasks \cup {Task("pair", c)}
    BY DEF Pair
  <2>2. UNCHANGED <<untold, socket, stored, queue, current, recovery, inventory, rebuild, wronged,
                    spent>>
    BY DEF Pair
  <2>3. c \notin Born
    BY <2>1, ConstantsAssumption DEF Born, Creds
  <2>4. /\ device'[c] = [of |-> h, status |-> "active"]
        /\ \A d \in Creds : d # c => device'[d] = device[d]
        /\ device' \in [Creds -> DeviceRec]
    BY <2>1 DEF Inv, TypeOK, DeviceRec
  <2>5. Grows
    BY <2>2, <2>3, <2>4 DEF Grows, Born, Home, Revoked
  <2>6. c \in Born'
    BY <2>4 DEF Born
  <2>7. \A d \in Born' : Home(d)' \in Households
    BY <2>4 DEF Inv, DeviceOK, Born, Home
  <2>8. Task("pair", c) \in TaskRec
    BY TaskTyped
  <2>9. TaskOK(Task("pair", c))'
    BY <2>6, TaskStarts
  <2>10. QED
    BY <2>1, <2>2, <2>4, <2>5, <2>7, <2>8, <2>9 DEF Inv, TypeOK
<1>2. TypeOK'
  BY <1>1 DEF Inv, TypeOK
<1>3. DeviceOK'
  BY <1>1 DEF Inv, DeviceOK, Grows, Born, Revoked
<1>4. QED
  BY <1>1, <1>2, <1>3, KeptParts DEF Inv

LEMMA RevokeInv == ASSUME Inv, NEW c \in Creds, Revoke(c) PROVE Inv'
<1>1. /\ Active(c)
      /\ device' = [device EXCEPT ![c].status = "revoked"]
      /\ untold' = untold \cup {c}
      /\ UNCHANGED <<socket, stored, queue, current, recovery, inventory, rebuild, tasks, wronged,
                     spent>>
  BY DEF Revoke
<1>2. /\ device' \in [Creds -> DeviceRec]
      /\ \A d \in Creds : device'[d].of = device[d].of
      /\ \A d \in Creds : d # c => device'[d] = device[d]
      /\ device'[c].status = "revoked" /\ device[c].status = "active"
  BY <1>1 DEF Inv, TypeOK, Active, DeviceRec
<1>3. Grows
  BY <1>1, <1>2 DEF Grows, Born, Home, Revoked
<1>4. TypeOK'
  BY <1>1, <1>2 DEF Inv, TypeOK
<1>5. DeviceOK'
  BY <1>1, <1>2 DEF Inv, DeviceOK, Born, Home, Revoked
<1>6. QED
  BY <1>1, <1>3, <1>4, <1>5, KeptParts DEF Inv

\* The steps that leave the devices, the inventory and the pairings as they are.
LEMMA QuietStep ==
  ASSUME Inv, UNCHANGED <<device, stored, current, inventory, wronged>>,
         TypeOK', untold' \subseteq untold, socket' = socket \/ SocketOK',
         rebuild' = rebuild \/ RebuildOK', queue' = queue \/ QueueOK',
         \A t \in tasks' : t \in tasks \/ TaskOK(t)'
  PROVE  Inv'
<1>1. Grows
  BY SameBackend
<1>2. DeviceOK'
  BY DEF Inv, DeviceOK, Born, Home, Revoked
<1>3. QED
  BY <1>1, <1>2, KeptParts DEF Inv

LEMMA TellInv == ASSUME Inv, NEW c \in Creds, Tell(c) PROVE Inv'
<1>1. /\ c \in untold /\ untold' = untold \ {c}
      /\ \/ socket' = socket
         \/ InHub /\ socket.cred = c /\ socket' = [socket EXCEPT !.stage = "told"]
      /\ UNCHANGED <<device, stored, queue, current, recovery, inventory, rebuild, tasks,
                     wronged, spent>>
  BY DEF Tell
<1>2. TypeOK' /\ (socket' = socket \/ SocketOK')
  <2>1. CASE socket' = socket
    BY <1>1, <2>1 DEF Inv, TypeOK
  <2>2. CASE InHub /\ socket.cred = c /\ socket' = [socket EXCEPT !.stage = "told"]
    <3>1. Revoked(c) /\ c \in Born /\ Born' = Born /\ Revoked(c)' = Revoked(c)
      BY <1>1 DEF Inv, DeviceOK, Born, Revoked
    <3>2. /\ socket' \in SocketRec
          /\ socket'.cred = c
      BY <2>2 DEF Inv, TypeOK, SocketRec
    <3>3. QED
      BY <1>1, <3>1, <3>2 DEF Inv, TypeOK, SocketOK, Blamed
  <2>3. QED
    BY <1>1, <2>1, <2>2
<1>3. QED
  BY <1>1, <1>2, QuietStep

LEMMA AuthenticateInv == ASSUME Inv, Authenticate PROVE Inv'
<1>1. /\ socket.stage = "connecting"
      /\ socket' = [socket EXCEPT !.stage = IF Active(socket.cred) THEN "known" ELSE "refused"]
      /\ UNCHANGED <<device, untold, stored, queue, current, recovery, inventory, rebuild, tasks,
                     wronged, spent>>
  BY DEF Authenticate, backend
<1>2. socket.cred \in Born /\ Born' = Born
  BY <1>1 DEF Inv, SocketOK, Born
<1>3. ~ Active(socket.cred) => Revoked(socket.cred)
  BY <1>2 DEF Inv, TypeOK, Born, Active, Revoked, DeviceRec
<1>4. /\ socket'.cred = socket.cred
      /\ socket'.stage = IF Active(socket.cred) THEN "known" ELSE "refused"
      /\ socket' \in SocketRec
  BY <1>1 DEF Inv, TypeOK, SocketRec
<1>5. SocketOK'
  BY <1>1, <1>2, <1>3, <1>4 DEF SocketOK, Blamed, Revoked
<1>6. TypeOK'
  BY <1>1, <1>4 DEF Inv, TypeOK
<1>7. QED
  BY <1>1, <1>5, <1>6, QuietStep

\* The socket goes on from a stage that is not the last one, without a refusal.
LEMMA SocketMoves ==
  ASSUME Inv, UNCHANGED device, socket.stage # "ended",
         NEW stage \in {"connecting", "joined", "ready"}, socket' = [socket EXCEPT !.stage = stage]
  PROVE  /\ SocketOK'
         /\ socket' \in SocketRec
<1>1. /\ socket'.cred = socket.cred /\ socket'.stage = stage
      /\ socket' \in SocketRec
  BY DEF Inv, TypeOK, SocketRec
<1>2. socket.cred \in Born /\ Born' = Born
  BY DEF Inv, SocketOK, Born
<1>3. QED
  BY <1>1, <1>2 DEF SocketOK

LEMMA ComesLateInv == ASSUME Inv, ComesLate PROVE Inv'
<1>1. /\ socket.stage = "connecting" /\ Disturb
      /\ socket' = [socket EXCEPT !.stage = "refused"]
      /\ wronged' = wronged \cup {socket.cred}
      /\ UNCHANGED <<device, untold, stored, queue, current, recovery, inventory, rebuild, tasks>>
  BY DEF ComesLate, backend
<1>2. socket.cred \in Born /\ Born' = Born
  BY <1>1 DEF Inv, SocketOK, Born
<1>3. Grows
  BY <1>1 DEF Grows, Born, Home, Revoked
<1>4. DeviceOK'
  BY <1>1 DEF Inv, DeviceOK, Born, Home, Revoked
<1>5. socket'.cred = socket.cred /\ socket'.stage = "refused" /\ socket' \in SocketRec
  BY <1>1 DEF Inv, TypeOK, SocketRec
<1>6. SocketOK'
  BY <1>1, <1>2, <1>5 DEF SocketOK, Blamed
<1>7. wronged' \subseteq Creds /\ spent' \in 0..MaxDisturbances
  BY <1>1, <1>2, ConstantsAssumption DEF Inv, TypeOK, Born, Disturb
<1>8. TypeOK'
  BY <1>1, <1>5, <1>7 DEF Inv, TypeOK
<1>9. QED
  BY <1>1, <1>3, <1>4, <1>6, <1>8, KeptParts DEF Inv

LEMMA JoinInv == ASSUME Inv, Join PROVE Inv'
<1>1. /\ socket.stage = "known" /\ socket' = [socket EXCEPT !.stage = "joined"]
      /\ UNCHANGED <<device, untold, stored, queue, current, recovery, inventory, rebuild, tasks,
                     wronged, spent>>
  BY DEF Join, backend
<1>2. SocketOK' /\ TypeOK'
  BY <1>1, SocketMoves DEF Inv, TypeOK
<1>3. QED
  BY <1>1, <1>2, QuietStep

LEMMA ServeInv == ASSUME Inv, NEW h \in Households, Serve(h) PROVE Inv'
<1> DEFINE status == IF Active(rebuild[h].cred) THEN "ok" ELSE "denied"
<1>1. /\ rebuild[h].status = "asked" /\ rebuild' = [rebuild EXCEPT ![h].status = status]
      /\ UNCHANGED <<device, untold, socket, stored, queue, current, recovery, inventory, tasks,
                     wronged, spent>>
  BY DEF Serve, backend
<1>2. rebuild[h].cred \in Born /\ rebuild[h].cred # 0 /\ Born' = Born
  BY <1>1 DEF Inv, RebuildOK, Born
<1>3. /\ status \in {"ok", "denied"}
      /\ status = "denied" => Revoked(rebuild[h].cred)
  BY <1>2 DEF Inv, TypeOK, Born, Active, Revoked, DeviceRec
<1> HIDE DEF status
<1>4. /\ rebuild' \in [Households -> RebuildRec]
      /\ rebuild'[h].cred = rebuild[h].cred /\ rebuild'[h].status = status
      /\ \A g \in Households : g # h => rebuild'[g] = rebuild[g]
  BY <1>1, <1>3 DEF Inv, TypeOK, RebuildRec
<1>5. RebuildOK'
  BY <1>1, <1>2, <1>3, <1>4 DEF Inv, RebuildOK, Revoked
<1>6. TypeOK'
  BY <1>1, <1>4 DEF Inv, TypeOK
<1>7. QED
  BY <1>1, <1>5, <1>6, QuietStep

-----------------------------------------------------------------------------
(* The steps of the phone that do not change the pairing.                  *)

\* A task whose other fields change is as good as before if its cancellation stays.
LEMMA SameTask ==
  ASSUME NEW t, NEW u, TaskOK(t), Grows, current' = current,
         u.kind = t.kind, u.cred = t.cred, u.waits \/ u.rerun => u.kind \in Reads,
         u.cancelled = t.cancelled
  PROVE  TaskOK(u)'
BY DEF TaskOK, Grows, Blamed

LEMMA Reconciles ==
  ASSUME Inv, UNCHANGED <<device, wronged, current>>, NEW c \in Born, Reconcile(c)
  PROVE  /\ tasks' \in SUBSET TaskRec
         /\ \A t \in tasks' : t \in tasks \/ TaskOK(t)'
<1> DEFINE running == {t \in tasks : t.kind = "reconcile" /\ t.cred = c /\ ~ t.cancelled}
<1>1. tasks \subseteq TaskRec /\ c \in Creds /\ c \in Born'
  BY DEF Inv, TypeOK, Born
<1>2. CASE tasks' = tasks \cup {Task("reconcile", c)}
  <2>1. Task("reconcile", c) \in TaskRec
    BY <1>1, TaskTyped
  <2>2. TaskOK(Task("reconcile", c))'
    BY <1>1, TaskStarts
  <2>3. QED
    BY <1>1, <1>2, <2>1, <2>2
<1>3. CASE tasks' = (tasks \ running) \cup {[t EXCEPT !.rerun = TRUE] : t \in running}
  <2>1. ASSUME NEW t \in running
        PROVE  [t EXCEPT !.rerun = TRUE] \in TaskRec /\ TaskOK([t EXCEPT !.rerun = TRUE])'
    <3>1. PICK u : u = [t EXCEPT !.rerun = TRUE]
      OBVIOUS
    <3>2. t \in TaskRec /\ t.kind = "reconcile" /\ TaskOK(t)
      BY <1>1 DEF Inv, TasksOK
    <3>3. u \in TaskRec /\ u.kind = t.kind /\ u.cred = t.cred /\ u.cancelled = t.cancelled
      BY <3>1, <3>2 DEF TaskRec
    <3>4. TaskOK(u)'
      BY <3>2, <3>3, SameTask, SameBackend DEF Reads
    <3>5. QED
      BY <3>1, <3>3, <3>4
  <2>2. QED
    BY <1>1, <1>3, <2>1
<1>4. QED
  BY <1>2, <1>3 DEF Reconcile

LEMMA ReadyInv == ASSUME Inv, Ready PROVE Inv'
<1>1. /\ socket.stage = "joined" /\ socket' = [socket EXCEPT !.stage = "ready"]
      /\ Reconcile(socket.cred)
      /\ UNCHANGED <<device, untold, stored, queue, current, recovery, inventory, rebuild, wronged,
                     spent>>
  BY DEF Ready, backend
<1>2. socket.cred \in Born
  BY <1>1 DEF Inv, SocketOK
<1>3. tasks' \in SUBSET TaskRec /\ \A t \in tasks' : t \in tasks \/ TaskOK(t)'
  BY <1>1, <1>2, Reconciles
<1>4. SocketOK' /\ TypeOK'
  BY <1>1, <1>3, SocketMoves DEF Inv, TypeOK
<1>5. QED
  BY <1>1, <1>3, <1>4, QuietStep

LEMMA EventInv == ASSUME Inv, Event PROVE Inv'
<1>1. /\ socket.stage = "ready" /\ Disturb /\ Reconcile(socket.cred)
      /\ UNCHANGED <<device, untold, socket, stored, queue, current, recovery, inventory, rebuild,
                     wronged>>
  BY DEF Event, backend
<1>2. socket.cred \in Born
  BY <1>1 DEF Inv, SocketOK
<1>3. tasks' \in SUBSET TaskRec /\ \A t \in tasks' : t \in tasks \/ TaskOK(t)'
  BY <1>1, <1>2, Reconciles
<1>4. TypeOK'
  BY <1>1, <1>3, SpentTyped DEF Inv, TypeOK
<1>5. QED
  BY <1>1, <1>3, <1>4, QuietStep

LEMMA RefusedInv == ASSUME Inv, Refused PROVE Inv'
<1>1. /\ socket.stage \in {"told", "refused"} /\ socket' = [socket EXCEPT !.stage = "ended"]
      /\ tasks' = tasks \cup {Task("revoked", socket.cred)}
      /\ UNCHANGED <<device, untold, stored, queue, current, recovery, inventory, rebuild, wronged,
                     spent>>
  BY DEF Refused, RevokedTask, backend
<1>2. socket.cred \in Born /\ Blamed(socket.cred)
  BY <1>1 DEF Inv, SocketOK
<1>3. socket.cred \in Creds
  BY <1>2 DEF Born
<1>4. PICK c \in Creds : c = socket.cred
  BY <1>3
<1>5. c \in Born' /\ Blamed(c)'
  <2>1. c \in Born /\ Blamed(c)
    BY <1>2, <1>4
  <2>2. QED
    BY <1>1, <2>1 DEF Born, Blamed, Revoked
<1>6. Task("revoked", c) \in TaskRec
  BY TaskTyped
<1>7. TaskOK(Task("revoked", c))'
  BY <1>5, TaskStarts
<1>8. tasks' \in SUBSET TaskRec /\ \A t \in tasks' : t \in tasks \/ TaskOK(t)'
  BY <1>1, <1>4, <1>6, <1>7 DEF Inv, TypeOK
<1>9. /\ socket'.stage = "ended"
      /\ socket' \in SocketRec
  BY <1>1 DEF Inv, TypeOK, SocketRec
<1>10. SocketOK' /\ TypeOK'
  BY <1>1, <1>8, <1>9 DEF Inv, TypeOK, SocketOK
<1>11. QED
  BY <1>1, <1>8, <1>10, QuietStep

LEMMA DropInv == ASSUME Inv, Drop PROVE Inv'
<1>1. /\ socket.stage # "ended" /\ socket' = [socket EXCEPT !.stage = "connecting"] /\ Disturb
      /\ UNCHANGED <<device, untold, stored, queue, current, recovery, inventory, rebuild, tasks,
                     wronged>>
  BY DEF Drop, backend
<1>2. SocketOK' /\ TypeOK'
  BY <1>1, SocketMoves, SpentTyped DEF Inv, TypeOK
<1>3. QED
  BY <1>1, <1>2, QuietStep

\* A step that only starts a task for the current pairing.
LEMMA StartsOne ==
  ASSUME Inv, UNCHANGED <<device, untold, socket, stored, queue, current, recovery, inventory,
                          rebuild, wronged>>,
         Disturb, NEW kind \in {"forget", "refresh"}, current # 0,
         tasks' = tasks \cup {Task(kind, current)}
  PROVE  Inv'
<1>1. PICK c \in Creds : c = current
  BY DEF Inv, TypeOK
<1>2. c \in Born'
  BY <1>1 DEF Inv, CurrentOK, Born
<1>3. Task(kind, c) \in TaskRec
  BY TaskTyped
<1>4. TaskOK(Task(kind, c))'
  BY <1>2, TaskStarts
<1>5. tasks' \in SUBSET TaskRec /\ \A t \in tasks' : t \in tasks \/ TaskOK(t)'
  BY <1>1, <1>3, <1>4 DEF Inv, TypeOK
<1>6. TypeOK'
  BY <1>5, SpentTyped DEF Inv, TypeOK
<1>7. QED
  BY <1>5, <1>6, QuietStep

LEMMA ForgetInv == ASSUME Inv, Forget PROVE Inv'
BY StartsOne DEF Forget, backend

LEMMA RefreshInv == ASSUME Inv, Refresh PROVE Inv'
BY StartsOne DEF Refresh, backend

\* What is known of a task under way.
LEMMA TaskKnown ==
  ASSUME Inv, NEW t \in tasks
  PROVE  t \in TaskRec /\ TaskOK(t) /\ t.cred \in Creds /\ t.cred \in Born
BY DEF Inv, TypeOK, TasksOK, TaskOK, TaskRec

LEMMA PairAnswerInv == ASSUME Inv, NEW t \in tasks, PairAnswer(t) PROVE Inv'
<1>1. /\ tasks' = tasks \ {t} /\ queue' = Call(queue, "save", t.cred, "pair")
      /\ UNCHANGED <<device, untold, socket, stored, current, recovery, inventory, rebuild, wronged,
                     spent>>
  BY DEF PairAnswer, Ends, backend
<1>2. PICK c \in Born : c = t.cred
  BY TaskKnown
<1>3. queue' = Call(queue, "save", c, "pair")
  BY <1>1, <1>2
<1>4. queue' \in Seq(CallRec) /\ QueueOK'
  BY <1>1, <1>3, CallMade DEF Ops, Purposes
<1>5. TypeOK'
  BY <1>1, <1>4 DEF Inv, TypeOK
<1>6. QED
  BY <1>1, <1>4, <1>5, QuietStep

LEMMA PairFailsInv == ASSUME Inv, NEW t \in tasks, PairFails(t) PROVE Inv'
<1>1. /\ tasks' = tasks \ {t} /\ Disturb
      /\ UNCHANGED <<device, untold, socket, stored, queue, current, recovery, inventory, rebuild,
                     wronged>>
  BY DEF PairFails, Ends, backend
<1>2. TypeOK'
  BY <1>1, SpentTyped DEF Inv, TypeOK
<1>3. QED
  BY <1>1, <1>2, QuietStep

LEMMA QuarantinedInv == ASSUME Inv, NEW t \in tasks, Quarantined(t) PROVE Inv'
<1>1. /\ t.kind \in {"forget", "revoked"} /\ tasks' = tasks \ {t}
      /\ queue' = Call(queue, IF t.kind = "forget" THEN "delete" ELSE "load", t.cred, t.kind)
      /\ UNCHANGED <<device, untold, socket, stored, current, recovery, inventory, rebuild, wronged,
                     spent>>
  BY DEF Quarantined, Ends, backend
<1>2. PICK c \in Born : c = t.cred
  BY TaskKnown
<1>3. queue' \in Seq(CallRec) /\ QueueOK'
  <2>1. CASE t.kind = "forget"
    <3>1. queue' = Call(queue, "delete", c, "forget")
      BY <1>1, <1>2, <2>1
    <3>2. QED
      BY <1>1, <3>1, CallMade DEF Ops, Purposes
  <2>2. CASE t.kind = "revoked"
    <3>1. queue' = Call(queue, "load", c, "revoked")
      BY <1>1, <1>2, <2>2
    <3>2. Blamed(c)
      BY <1>2, <2>2, TaskKnown DEF TaskOK
    <3>3. QED
      BY <1>1, <3>1, <3>2, CallMade DEF Ops, Purposes
  <2>3. QED
    BY <1>1, <2>1, <2>2
<1>4. TypeOK'
  BY <1>1, <1>3 DEF Inv, TypeOK
<1>5. QED
  BY <1>1, <1>3, <1>4, QuietStep

LEMMA RenamedInv == ASSUME Inv, Renamed PROVE Inv'
<1>1. /\ current # 0 /\ Disturb /\ queue' = Call(queue, "save", current, "name")
      /\ UNCHANGED <<device, untold, socket, stored, current, recovery, inventory, rebuild, tasks,
                     wronged>>
  BY DEF Renamed, backend
<1>2. PICK c \in Born : c = current
  BY <1>1 DEF Inv, CurrentOK
<1>3. queue' = Call(queue, "save", c, "name")
  BY <1>1, <1>2
<1>4. queue' \in Seq(CallRec) /\ QueueOK'
  BY <1>1, <1>2, <1>3, CallMade DEF Ops, Purposes
<1>5. TypeOK'
  BY <1>1, <1>4, SpentTyped DEF Inv, TypeOK
<1>6. QED
  BY <1>1, <1>4, <1>5, QuietStep

\* What a task waits for is nothing to its pairing.
LEMMA WaitingSome == ASSUME NEW some PROVE Waiting(some) \subseteq some
BY DEF Waiting

LEMMA SyncInv == ASSUME Inv, NEW t \in tasks, Sync(t) PROVE Inv'
<1>1. /\ t.kind \in Reads
      /\ tasks' = Waiting((tasks \ {t}) \cup {[t EXCEPT !.waits = TRUE]})
      /\ rebuild' = IF rebuild[Home(t.cred)].cred = 0
                    THEN [rebuild EXCEPT ![Home(t.cred)] = Stored(t.cred, "asked")] ELSE rebuild
      /\ UNCHANGED <<device, untold, socket, stored, queue, current, recovery, inventory, wronged,
                     spent>>
  BY DEF Sync, Reads, backend
<1>2. t \in TaskRec /\ TaskOK(t) /\ t.cred \in Born /\ t.cred \in Creds
  BY TaskKnown
<1>3. PICK u : u = [t EXCEPT !.waits = TRUE]
  OBVIOUS
<1>4. u \in TaskRec /\ u.kind = t.kind /\ u.cred = t.cred /\ u.cancelled = t.cancelled
  BY <1>2, <1>3 DEF TaskRec
<1>5. TaskOK(u)'
  BY <1>1, <1>2, <1>4, SameTask, SameBackend
<1>6. tasks' \subseteq (tasks \ {t}) \cup {u}
  BY <1>1, <1>3, WaitingSome
<1>7. tasks' \in SUBSET TaskRec /\ \A s \in tasks' : s \in tasks \/ TaskOK(s)'
  BY <1>4, <1>5, <1>6 DEF Inv, TypeOK
<1>8. /\ rebuild' \in [Households -> RebuildRec]
      /\ rebuild' = rebuild \/ RebuildOK'
  <2>1. CASE rebuild' = rebuild
    BY <2>1 DEF Inv, TypeOK
  <2>2. CASE rebuild' = [rebuild EXCEPT ![Home(t.cred)] = Stored(t.cred, "asked")]
    <3>1. PICK h \in Households : h = Home(t.cred)
      BY <1>2 DEF Inv, DeviceOK
    <3>2. PICK c \in Born : c = t.cred
      BY <1>2
    <3>3. PICK new : new = Stored(c, "asked")
      OBVIOUS
    <3>4. /\ new \in RebuildRec
          /\ new.cred = c /\ new.status = "asked"
      BY <3>3 DEF Stored, Born, RebuildRec
    <3>5. rebuild' = [rebuild EXCEPT ![h] = new]
      BY <2>2, <3>1, <3>2, <3>3
    <3>6. /\ rebuild' \in [Households -> RebuildRec]
          /\ rebuild'[h] = new
          /\ \A g \in Households : g # h => rebuild'[g] = rebuild[g]
      BY <3>4, <3>5 DEF Inv, TypeOK
    <3>7. c \in Born' /\ c # 0
      BY <1>1, ConstantsAssumption DEF Born, Creds
    <3>8. RebuildOK'
      BY <1>1, <3>4, <3>6, <3>7 DEF Inv, RebuildOK, Born, Revoked
    <3>9. QED
      BY <3>6, <3>8
  <2>3. QED
    BY <1>1, <2>1, <2>2
<1>9. TypeOK'
  BY <1>1, <1>7, <1>8 DEF Inv, TypeOK
<1>10. QED
  BY <1>1, <1>7, <1>8, <1>9, QuietStep

-----------------------------------------------------------------------------
(* The end of a rebuild.                                                   *)

\* Who is told that the device was revoked, by the refusal of a rebuild.
Angry(h, status) ==
  {t \in {u \in Joined(h) : Takes(u)} : status = "denied" /\ t.kind # "refresh" /\ t.cred # 0}

\* A refusal revokes nobody who is not, or has not got the refusal of another one.
LEMMA RefusalBlames ==
  ASSUME Inv, NEW h \in Households, NEW status, UNCHANGED device,
         status = "denied" => rebuild[h].status = "denied",
         wronged' = wronged \cup {t.cred : t \in {u \in Angry(h, status) : u.cred # rebuild[h].cred}}
  PROVE  /\ Grows
         /\ wronged' \subseteq Creds
         /\ \A t \in Angry(h, status) : t.cred \in Creds /\ t.cred \in Born' /\ Blamed(t.cred)'
<1>1. \A t \in Angry(h, status) : /\ t \in tasks /\ t.cred \in Creds /\ t.cred \in Born
                                  /\ status = "denied"
  BY TaskKnown DEF Angry, Joined
<1>2. Grows
  BY DEF Grows, Born, Home, Revoked
<1>3. wronged' \subseteq Creds
  BY <1>1 DEF Inv, TypeOK
<1>4. ASSUME NEW t \in Angry(h, status)
      PROVE  t.cred \in Creds /\ t.cred \in Born' /\ Blamed(t.cred)'
  <2>1. PICK c \in Born : c = t.cred
    BY <1>1
  <2>2. c \in Creds /\ c \in Born' /\ (Revoked(c) => Revoked(c)')
    BY <1>2 DEF Grows, Born
  <2>3. CASE c = rebuild[h].cred
    BY <1>1, <2>1, <2>2, <2>3 DEF Inv, RebuildOK, Blamed
  <2>4. CASE c # rebuild[h].cred
    <3>1. c \in wronged'
      BY <2>1, <2>4
    <3>2. QED
      BY <2>1, <2>2, <3>1 DEF Blamed
  <2>5. QED
    BY <2>3, <2>4
<1>5. QED
  BY <1>2, <1>3, <1>4

\* An inventory that is taken is that of the pairing, or is late.
LEMMA InventoryTaken ==
  ASSUME Inv, NEW h \in Households, UNCHANGED <<device, current>>, NEW takers,
         takers \subseteq {t \in Joined(h) : Takes(t)}, takers # {},
         inventory' = [of |-> h, late |-> \A t \in takers : t.kind # "effect" /\ t.cred # current]
  PROVE  /\ InventoryIsOwn'
         /\ inventory' \in InventoryRec
<1> DEFINE late == \A t \in takers : t.kind # "effect" /\ t.cred # current
<1>1. late \in BOOLEAN
  OBVIOUS
<1>2. ~ late => h = Home(current)
  <2> SUFFICES ASSUME NEW t \in takers, t.kind = "effect" \/ t.cred = current
               PROVE  h = Home(current)
    OBVIOUS
  <2>1. t \in tasks /\ Takes(t) /\ Home(t.cred) = h
    BY DEF Joined
  <2>2. t.kind = "effect" => t.cred = current
    BY <2>1, TaskKnown DEF TaskOK, Takes
  <2>3. QED
    BY <2>1, <2>2
<1> HIDE DEF late
<1>3. inventory' = [of |-> h, late |-> late]
  BY DEF late
<1>4. inventory'.of = h /\ (inventory'.late <=> late)
      /\ inventory' \in InventoryRec
  BY <1>1, <1>3 DEF InventoryRec
<1>5. Home(current)' = Home(current)
  BY DEF Home
<1>6. QED
  BY <1>2, <1>4, <1>5 DEF InventoryIsOwn

LEMMA EndRebuildInv ==
  ASSUME Inv, NEW h \in Households, NEW status, EndRebuild(h, status),
         status = "denied" => rebuild[h].status = "denied",
         Disturb \/ spent' = spent
  PROVE  Inv'
<1> DEFINE takers == {t \in Joined(h) : Takes(t)}
           again == {[t EXCEPT !.waits = FALSE, !.rerun = FALSE] :
                       t \in {u \in Joined(h) : u.rerun}}
           angry == Angry(h, status)
<1>1. /\ rebuild' = [rebuild EXCEPT ![h] = Stored(0, "none")]
      /\ \/ inventory' = inventory
         \/ takers # {} /\ inventory' = [of |-> h, late |-> \A t \in takers :
                                                      t.kind # "effect" /\ t.cred # current]
      /\ tasks' = (tasks \ Joined(h)) \cup again \cup {Task("revoked", t.cred) : t \in angry}
      /\ wronged' = wronged \cup {t.cred : t \in {u \in angry : u.cred # rebuild[h].cred}}
      /\ UNCHANGED <<device, untold, socket, stored, queue, current, recovery>>
  BY DEF EndRebuild, Angry, Blames, backend
<1>2. /\ Grows
      /\ wronged' \subseteq Creds
      /\ \A t \in angry : t.cred \in Creds /\ t.cred \in Born' /\ Blamed(t.cred)'
  BY <1>1, RefusalBlames
<1>3. ASSUME NEW t \in again PROVE t \in TaskRec /\ TaskOK(t)'
  <2>1. PICK u \in Joined(h) : t = [u EXCEPT !.waits = FALSE, !.rerun = FALSE]
    OBVIOUS
  <2>2. u \in TaskRec /\ TaskOK(u)
    BY TaskKnown DEF Joined
  <2>3. /\ t \in TaskRec /\ t.kind = u.kind /\ t.cred = u.cred /\ t.cancelled = u.cancelled
        /\ ~ t.waits /\ ~ t.rerun
    BY <2>1, <2>2 DEF TaskRec
  <2>4. QED
    BY <1>1, <1>2, <2>2, <2>3, SameTask
<1>4. ASSUME NEW t \in angry
      PROVE  Task("revoked", t.cred) \in TaskRec /\ TaskOK(Task("revoked", t.cred))'
  <2>1. PICK c \in Creds : c = t.cred
    BY <1>2
  <2>2. c \in Born' /\ Blamed(c)'
    BY <1>2, <2>1
  <2>3. Task("revoked", c) \in TaskRec
    BY TaskTyped
  <2>4. TaskOK(Task("revoked", c))'
    BY <2>2, TaskStarts
  <2>5. QED
    BY <2>1, <2>3, <2>4
<1>5. tasks' \in SUBSET TaskRec /\ \A t \in tasks' : t \in tasks \/ TaskOK(t)'
  <2> HIDE DEF again, angry
  <2>1. tasks' \subseteq tasks \cup again \cup {Task("revoked", t.cred) : t \in angry}
    BY <1>1
  <2>2. QED
    BY <1>3, <1>4, <2>1 DEF Inv, TypeOK
<1>6. /\ InventoryIsOwn'
      /\ inventory' \in InventoryRec
  <2>1. CASE inventory' = inventory
    BY <1>1, <1>2, <2>1, KeptParts DEF Inv, TypeOK
  <2>2. CASE takers # {} /\ inventory' = [of |-> h, late |-> \A t \in takers :
                                                     t.kind # "effect" /\ t.cred # current]
    BY <1>1, <2>2, InventoryTaken
  <2>3. QED
    BY <1>1, <2>1, <2>2
<1>7. /\ rebuild' \in [Households -> RebuildRec]
      /\ RebuildOK'
  <2>1. PICK new : new = Stored(0, "none")
    OBVIOUS
  <2>2. /\ new \in RebuildRec
        /\ new.cred = 0 /\ new.status = "none"
    BY <2>1 DEF Stored, RebuildRec
  <2>3. /\ rebuild' \in [Households -> RebuildRec]
        /\ rebuild'[h] = new
        /\ \A g \in Households : g # h => rebuild'[g] = rebuild[g]
    BY <1>1, <2>1, <2>2 DEF Inv, TypeOK
  <2>4. RebuildOK'
    BY <1>2, <2>2, <2>3 DEF Inv, RebuildOK, Grows
  <2>5. QED
    BY <2>3, <2>4
<1>8. TypeOK'
  BY <1>1, <1>2, <1>5, <1>6, <1>7, SpentTyped DEF Inv, TypeOK
<1>9. DeviceOK'
  BY <1>1 DEF Inv, DeviceOK, Born, Home, Revoked
<1>10. QED
  BY <1>1, <1>2, <1>5, <1>6, <1>7, <1>8, <1>9, KeptParts DEF Inv

-----------------------------------------------------------------------------
(* The steps that change the pairing.                                      *)

\* The call that the secure store does next, and those after it.
LEMMA NextCall ==
  ASSUME Inv, queue # <<>>
  PROVE  /\ Head(queue) \in CallRec /\ CallOK(Head(queue)) /\ Head(queue).cred \in Born
         /\ Tail(queue) \in Seq(CallRec) /\ InOrder(Tail(queue))
         /\ \A i \in 1..Len(Tail(queue)) :
              /\ CallOK(Tail(queue)[i])
              /\ Head(queue).op # "load" => Tail(queue)[i].behind
<1>1. queue \in Seq(CallRec) /\ InOrder(queue) /\ \A i \in 1..Len(queue) : CallOK(queue[i])
  BY DEF Inv, TypeOK, QueueOK
<1>2. /\ Head(queue) = queue[1] /\ 1 \in 1..Len(queue) /\ Head(queue) \in CallRec
      /\ Tail(queue) \in Seq(CallRec)
      /\ \A i \in 1..Len(Tail(queue)) : i + 1 \in 1..Len(queue) /\ Tail(queue)[i] = queue[i + 1]
      /\ InOrder(Tail(queue))
      /\ Head(queue).op # "load" => \A i \in 1..Len(Tail(queue)) : Tail(queue)[i].behind
  BY <1>1, TailOrder
<1>3. CallOK(Head(queue)) /\ \A i \in 1..Len(Tail(queue)) : CallOK(Tail(queue)[i])
  BY <1>1, <1>2
<1>4. QED
  BY <1>2, <1>3 DEF CallOK

\* After a call that changes the current pairing all others are behind, and no name
\* is still to be shown.
LEMMA QueueCut ==
  ASSUME Inv, UNCHANGED <<device, wronged>>, queue # <<>>, Head(queue).op # "load",
         queue' = CancelNames(Tail(queue))
  PROVE  queue' \in Seq(CallRec) /\ QueueOK'
<1>1. PICK q : q = Tail(queue)
  OBVIOUS
<1>2. PICK r : r = CancelNames(q)
  OBVIOUS
<1>3. /\ q \in Seq(CallRec) /\ InOrder(q)
      /\ \A i \in 1..Len(q) : CallOK(q[i]) /\ q[i].behind
  BY <1>1, NextCall
<1>4. /\ r \in Seq(CallRec) /\ Len(r) = Len(q) /\ InOrder(r)
      /\ \A i \in 1..Len(q) :
           /\ r[i].op = q[i].op /\ r[i].cred = q[i].cred /\ r[i].for = q[i].for
           /\ r[i].behind = q[i].behind
           /\ r[i].for = "name" => r[i].cancelled
  BY <1>2, <1>3, NamesCancelled
<1>5. ASSUME NEW i \in 1..Len(r) PROVE CallOK(r[i])'
  <2>1. i \in 1..Len(q) /\ CallOK(q[i]) /\ q[i].behind
    BY <1>3, <1>4
  <2>2. /\ r[i].op = q[i].op /\ r[i].cred = q[i].cred /\ r[i].for = q[i].for
        /\ r[i].behind
        /\ r[i].for = "name" => r[i].cancelled
    BY <1>4, <2>1
  <2>3. QED
    BY <2>1, <2>2 DEF CallOK, Born, Blamed, Revoked
<1>6. queue' = r
  BY <1>1, <1>2
<1>7. (\A i \in 1..Len(queue) : CallOK(queue[i]))'
  BY <1>5, <1>6
<1>8. InOrder(queue)'
  BY <1>4, <1>6 DEF InOrder
<1>9. QED
  BY <1>4, <1>6, <1>7, <1>8 DEF QueueOK

\* The calls that remain while the current pairing stays.
LEMMA QueueRemains ==
  ASSUME Inv, UNCHANGED <<device, wronged, current>>, queue # <<>>,
         stored' = stored \/ Head(queue).op # "load", queue' = Tail(queue)
  PROVE  queue' \in Seq(CallRec) /\ QueueOK'
<1>1. PICK q : q = Tail(queue)
  OBVIOUS
<1>2. q \in Seq(CallRec) /\ InOrder(q)
  BY <1>1, NextCall
<1>3. ASSUME NEW i \in 1..Len(q) PROVE CallOK(q[i])'
  <2>1. CallOK(q[i]) /\ (stored' = stored \/ q[i].behind)
    BY <1>1, NextCall
  <2>2. QED
    BY <2>1 DEF CallOK, Born, Blamed, Revoked
<1>4. queue' = q
  BY <1>1
<1>5. (\A i \in 1..Len(queue) : CallOK(queue[i]))'
  BY <1>3, <1>4
<1>6. InOrder(queue)'
  BY <1>2, <1>4 DEF InOrder
<1>7. QED
  BY <1>2, <1>4, <1>5, <1>6 DEF QueueOK

\* The tasks that remain when the effects are cleaned up, whatever becomes of the
\* pairing.
LEMMA TasksCut ==
  ASSUME Inv, UNCHANGED <<device, wronged>>
  PROVE  \A t \in Cancelled(tasks) : t \in TaskRec /\ TaskOK(t)'
<1> SUFFICES ASSUME NEW t \in Cancelled(tasks) PROVE t \in TaskRec /\ TaskOK(t)'
  OBVIOUS
<1>1. PICK u \in tasks :
        t = IF u.kind \in {"effect", "reconcile"} THEN [u EXCEPT !.cancelled = TRUE] ELSE u
  BY WaitingSome DEF Cancelled
<1>2. u \in TaskRec /\ TaskOK(u)
  BY TaskKnown
<1>3. /\ t \in TaskRec /\ t.kind = u.kind /\ t.cred = u.cred /\ t.waits = u.waits
      /\ t.rerun = u.rerun
      /\ t.kind = "effect" => t.cancelled
  BY <1>1, <1>2 DEF TaskRec
<1>4. TaskOK(t)'
  BY <1>2, <1>3 DEF TaskOK, Born, Blamed, Revoked
<1>5. QED
  BY <1>3, <1>4

\* The effects of a pairing begin.
LEMMA EffectsStart ==
  ASSUME Inv, UNCHANGED <<device, wronged>>, NEW c \in Born, current' = c, Started(c)
  PROVE  /\ tasks' \in SUBSET TaskRec
         /\ TasksOK'
         /\ SocketOK'
         /\ socket' \in SocketRec
<1>1. c \in Creds /\ c \in Born'
  BY DEF Born
<1>2. Task("effect", c) \in TaskRec
  BY <1>1, TaskTyped
<1>3. TaskOK(Task("effect", c))'
  BY <1>1, TaskStarts
<1>4. tasks' \subseteq Cancelled(tasks) \cup {Task("effect", c)}
  BY WaitingSome DEF Started
<1>5. tasks' \in SUBSET TaskRec /\ \A t \in tasks' : TaskOK(t)'
  BY <1>2, <1>3, <1>4, TasksCut
<1>6. socket' = [cred |-> c, stage |-> "connecting"]
  BY DEF Started
<1>7. QED
  BY <1>1, <1>5, <1>6 DEF TasksOK, SocketOK, SocketRec

\* A state of the store that is typed.
LEMMA StoredTyped ==
  ASSUME NEW c \in Creds \cup {0}, NEW status \in {"none", "paired", "revoked"}
  PROVE  /\ Stored(c, status) \in StoredRec
         /\ Stored(c, status).cred = c
         /\ Stored(c, status).status = status
BY DEF Stored, StoredRec

LEMMA StorePairingInv ==
  ASSUME Inv, queue # <<>>, StorePairing(Head(queue)),
         UNCHANGED <<backend, rebuild, wronged, spent>>
  PROVE  Inv'
<1>1. PICK c \in Born : c = Head(queue).cred
  BY NextCall
<1>2. Head(queue).op # "load"
  BY NextCall DEF StorePairing, CallOK
<1>3. /\ stored' = Stored(c, "paired")
      /\ inventory' = [of |-> 0, late |-> FALSE]
      /\ recovery' = 0 /\ current' = c /\ Started(c) /\ queue' = CancelNames(Tail(queue))
      /\ UNCHANGED <<device, untold, rebuild, wronged, spent>>
  BY <1>1 DEF StorePairing, backend
<1>4. c \in Creds /\ c \in Born' /\ Grows
  BY <1>3, SameBackend DEF Born
<1>5. queue' \in Seq(CallRec) /\ QueueOK'
  BY <1>2, <1>3, QueueCut
<1>6. /\ tasks' \in SUBSET TaskRec /\ TasksOK' /\ SocketOK'
      /\ socket' \in SocketRec
  BY <1>3, EffectsStart
<1>7. /\ stored' \in StoredRec
      /\ stored'.cred = c /\ stored'.status = "paired"
  BY <1>3, <1>4, StoredTyped
<1>8. inventory'.of = 0 /\ inventory' \in InventoryRec
  BY <1>3 DEF InventoryRec
<1>9. TypeOK'
  BY <1>3, <1>4, <1>5, <1>6, <1>7, <1>8 DEF Inv, TypeOK
<1>10. DeviceOK' /\ StoredOK' /\ CurrentOK' /\ InventoryIsOwn'
  BY <1>3, <1>4, <1>7, <1>8
     DEF Inv, DeviceOK, StoredOK, CurrentOK, InventoryIsOwn, Born, Home, Revoked
<1>11. QED
  BY <1>3, <1>4, <1>5, <1>6, <1>9, <1>10, KeptParts DEF Inv

LEMMA StoreNameInv ==
  ASSUME Inv, queue # <<>>, StoreName(Head(queue)),
         UNCHANGED <<backend, rebuild, wronged, spent>>
  PROVE  Inv'
<1>1. PICK c \in Born : c = Head(queue).cred
  BY NextCall
<1>2. Head(queue).op # "load" /\ (~ Head(queue).cancelled => c = current)
  BY <1>1, NextCall DEF StoreName, CallOK
<1>3. /\ stored' = Stored(c, "paired")
      /\ IF Head(queue).cancelled THEN UNCHANGED <<tasks, socket>> ELSE Started(c)
      /\ queue' = Tail(queue)
      /\ UNCHANGED <<device, untold, current, recovery, inventory, rebuild, wronged, spent>>
  BY <1>1 DEF StoreName, backend
<1>4. c \in Creds /\ c \in Born' /\ Grows
  BY <1>3, SameBackend DEF Born
<1>5. queue' \in Seq(CallRec) /\ QueueOK'
  BY <1>2, <1>3, QueueRemains
<1>6. /\ tasks' \in SUBSET TaskRec /\ TasksOK' /\ SocketOK'
      /\ socket' \in SocketRec
  <2>1. CASE Head(queue).cancelled
    BY <1>3, <1>4, <2>1, KeptParts DEF Inv, TypeOK
  <2>2. CASE ~ Head(queue).cancelled
    <3>1. current' = c /\ Started(c)
      BY <1>2, <1>3, <2>2
    <3>2. QED
      BY <1>3, <3>1, EffectsStart
  <2>3. QED
    BY <2>1, <2>2
<1>7. /\ stored' \in StoredRec
      /\ stored'.cred = c /\ stored'.status = "paired"
  BY <1>3, <1>4, StoredTyped
<1>8. TypeOK'
  BY <1>3, <1>5, <1>6, <1>7 DEF Inv, TypeOK
<1>9. DeviceOK' /\ StoredOK'
  BY <1>3, <1>4, <1>7 DEF Inv, DeviceOK, StoredOK, Born, Home, Revoked
<1>10. QED
  BY <1>3, <1>4, <1>5, <1>6, <1>8, <1>9, KeptParts DEF Inv

\* The phone has no pairing any more, whatever the store holds.
LEMMA UnpairedInv ==
  ASSUME Inv, queue # <<>>, Head(queue).op # "load", SetUnpaired(Tail(queue)),
         UNCHANGED <<backend, rebuild, wronged, spent>>,
         recovery' \in Creds \cup {0}, StoredOK',
         stored' \in StoredRec
  PROVE  Inv'
<1>1. /\ current' = 0 /\ socket' = [cred |-> 0, stage |-> "ended"]
      /\ tasks' = Cancelled(tasks) /\ queue' = CancelNames(Tail(queue))
      /\ inventory' = [of |-> 0, late |-> FALSE]
      /\ UNCHANGED <<device, untold, rebuild, wronged, spent>>
  BY DEF SetUnpaired, backend
<1>2. queue' \in Seq(CallRec) /\ QueueOK'
  BY <1>1, QueueCut
<1>3. tasks' \in SUBSET TaskRec /\ TasksOK'
  BY <1>1, TasksCut DEF TasksOK
<1>4. /\ SocketOK' /\ CurrentOK' /\ InventoryIsOwn'
      /\ socket' \in SocketRec
      /\ inventory' \in InventoryRec
  BY <1>1 DEF SocketOK, CurrentOK, InventoryIsOwn, SocketRec, InventoryRec
<1>5. TypeOK'
  BY <1>1, <1>2, <1>3, <1>4 DEF Inv, TypeOK
<1>6. Grows /\ DeviceOK'
  BY <1>1, SameBackend DEF Inv, DeviceOK, Born, Home, Revoked
<1>7. QED
  BY <1>1, <1>2, <1>3, <1>4, <1>5, <1>6, KeptParts DEF Inv

LEMMA StoreForgottenInv ==
  ASSUME Inv, queue # <<>>, StoreForgotten(Head(queue)),
         UNCHANGED <<backend, rebuild, wronged, spent>>
  PROVE  Inv'
<1>1. Head(queue).op # "load"
  BY NextCall DEF StoreForgotten, CallOK
<1>2. stored' = Stored(0, "none") /\ recovery' = 0 /\ SetUnpaired(Tail(queue))
  BY DEF StoreForgotten
<1>3. /\ stored' \in StoredRec
      /\ StoredOK'
  BY <1>2, StoredTyped DEF StoredOK
<1>4. QED
  BY <1>1, <1>2, <1>3, UnpairedInv

LEMMA StoreRevokedInv ==
  ASSUME Inv, queue # <<>>, StoreRevoked(Head(queue)),
         UNCHANGED <<backend, rebuild, wronged, spent>>
  PROVE  Inv'
<1>1. PICK c \in Born : c = Head(queue).cred
  BY NextCall
<1>2. Head(queue).op = "mark" /\ Blamed(c) /\ c \in Creds
  BY <1>1, NextCall DEF StoreRevoked, CallOK, CallRec, Born, Ops, Purposes
<1>3. stored' = Stored(c, "revoked") /\ recovery' = c /\ SetUnpaired(Tail(queue))
  BY <1>1 DEF StoreRevoked
<1>4. /\ stored' \in StoredRec
      /\ stored'.cred = c /\ stored'.status = "revoked"
  BY <1>2, <1>3, StoredTyped
<1>5. c \in Born' /\ Blamed(c)'
  BY <1>2 DEF backend, Born, Blamed, Revoked
<1>6. StoredOK'
  BY <1>4, <1>5 DEF StoredOK
<1>7. QED
  BY <1>2, <1>3, <1>4, <1>6, UnpairedInv

LEMMA LoadRevokedInv ==
  ASSUME Inv, queue # <<>>, LoadRevoked(Head(queue)),
         UNCHANGED <<backend, rebuild, wronged, spent>>
  PROVE  Inv'
<1>1. PICK c \in Born : c = Head(queue).cred
  BY NextCall
<1>2. /\ \/ queue' = Tail(queue)
         \/ StillStored(c) /\ queue' = Call(Tail(queue), "mark", c, "revoked")
      /\ UNCHANGED <<device, untold, socket, stored, current, recovery, inventory, rebuild, tasks,
                     wronged, spent>>
  BY <1>1 DEF LoadRevoked, backend
<1>3. Head(queue).op = "load" /\ Blamed(c)
  BY <1>1, NextCall DEF LoadRevoked, CallOK, CallRec, Ops, Purposes
<1>4. queue' \in Seq(CallRec) /\ QueueOK'
  <2>1. CASE queue' = Tail(queue)
    BY <1>2, <2>1, QueueRemains
  <2>2. CASE StillStored(c) /\ queue' = Call(Tail(queue), "mark", c, "revoked")
    <3>1. PICK q : q = Tail(queue)
      OBVIOUS
    <3>2. q \in Seq(CallRec) /\ InOrder(q) /\ \A i \in 1..Len(q) : CallOK(q[i])
      BY <3>1, NextCall
    <3>3. queue' = Call(q, "mark", c, "revoked")
      BY <2>2, <3>1
    <3>4. stored = Stored(c, "paired")
      BY <2>2 DEF StillStored, Inv, TypeOK, Stored, StoredRec
    <3>5. Grows
      BY <1>2, SameBackend
    <3>6. QED
      BY <1>2, <1>3, <3>2, <3>3, <3>4, <3>5, QueueAdds DEF Ops, Purposes
  <2>3. QED
    BY <1>2, <2>1, <2>2
<1>5. TypeOK'
  BY <1>2, <1>4 DEF Inv, TypeOK
<1>6. QED
  BY <1>2, <1>4, <1>5, QuietStep

LEMMA RestartInv == ASSUME Inv, Restart PROVE Inv'
<1> DEFINE to == IF stored.status = "paired" THEN stored.cred ELSE 0
<1>1. PICK c : c = to
  OBVIOUS
<1>2. /\ current' = c
      /\ socket' = [cred |-> c, stage |-> IF c = 0 THEN "ended" ELSE "connecting"]
      /\ tasks' = {Task("effect", d) : d \in {c} \ {0}}
      /\ recovery' = (IF stored.status = "revoked" THEN stored.cred ELSE 0)
      /\ queue' = <<>> /\ rebuild' = [h \in Households |-> Stored(0, "none")]
      /\ inventory' = [of |-> 0, late |-> FALSE] /\ Disturb
      /\ UNCHANGED <<device, untold, stored, wronged>>
  BY <1>1 DEF Restart, backend
<1>3. c \in Creds \cup {0} /\ (c # 0 => c \in Creds /\ c \in Born /\ c \in Born')
  <2>1. c # 0 => c \in Born
    BY <1>1 DEF Inv, StoredOK
  <2>2. QED
    BY <1>2, <2>1 DEF Born
<1>4. Grows
  BY <1>2, SameBackend
<1>5. ASSUME NEW t \in tasks' PROVE t \in TaskRec /\ TaskOK(t)'
  <2>1. t = Task("effect", c) /\ c # 0
    BY <1>2, <1>5
  <2>2. Task("effect", c) \in TaskRec
    BY <1>3, <2>1, TaskTyped
  <2>3. TaskOK(Task("effect", c))'
    BY <1>2, <1>3, <2>1, TaskStarts
  <2>4. QED
    BY <2>1, <2>2, <2>3
<1>6. SocketOK' /\ CurrentOK' /\ InventoryIsOwn' /\ QueueOK'
  <2>1. /\ socket'.cred = c
        /\ socket'.stage = IF c = 0 THEN "ended" ELSE "connecting"
        /\ inventory'.of = 0 /\ Len(queue') = 0
    BY <1>2
  <2>2. QED
    BY <1>2, <1>3, <2>1 DEF SocketOK, CurrentOK, InventoryIsOwn, QueueOK, InOrder
<1>7. /\ rebuild' \in [Households -> RebuildRec]
      /\ RebuildOK'
  <2>1. PICK new : new = Stored(0, "none")
    OBVIOUS
  <2>2. /\ new \in RebuildRec
        /\ new.cred = 0 /\ new.status = "none"
    BY <2>1 DEF Stored, RebuildRec
  <2>3. rebuild' = [h \in Households |-> new]
    BY <1>2, <2>1
  <2>4. QED
    BY <2>2, <2>3 DEF RebuildOK
<1>8. TypeOK'
  <2>1. socket' \in SocketRec
    BY <1>2, <1>3 DEF SocketRec
  <2>2. inventory' \in InventoryRec /\ queue' \in Seq(CallRec)
    BY <1>2 DEF InventoryRec
  <2>3. recovery' \in Creds \cup {0} /\ current' \in Creds \cup {0}
    BY <1>2, <1>3 DEF Inv, TypeOK, StoredRec
  <2>4. tasks' \subseteq TaskRec
    BY <1>5
  <2>5. QED
    BY <1>2, <1>7, <2>1, <2>2, <2>3, <2>4, SpentTyped DEF Inv, TypeOK
<1>9. DeviceOK' /\ TasksOK'
  BY <1>2, <1>5 DEF Inv, DeviceOK, TasksOK, Born, Home, Revoked
<1>10. QED
  BY <1>2, <1>4, <1>6, <1>7, <1>8, <1>9, KeptParts DEF Inv

\* At first nothing is paired.
LEMMA InitInv == Init => Inv
<1> SUFFICES ASSUME Init PROVE Inv
  OBVIOUS
<1>1. PICK none : none = Stored(0, "none")
  OBVIOUS
<1>2. /\ none \in StoredRec
      /\ none \in RebuildRec
      /\ none.cred = 0 /\ none.status = "none"
  BY <1>1 DEF Stored, StoredRec, RebuildRec
<1>3. stored = none /\ rebuild = [h \in Households |-> none]
  BY <1>1 DEF Init
<1>4. TypeOK
  <2>1. device \in [Creds -> DeviceRec]
    BY DEF Init, DeviceRec
  <2>2. /\ socket \in SocketRec
        /\ inventory \in InventoryRec
        /\ queue \in Seq(CallRec)
    BY DEF Init, SocketRec, InventoryRec
  <2>3. spent \in 0..MaxDisturbances
    BY ConstantsAssumption DEF Init
  <2>4. QED
    BY <1>2, <1>3, <2>1, <2>2, <2>3 DEF Init, TypeOK
<1>5. DeviceOK /\ SocketOK /\ TasksOK /\ QueueOK /\ CurrentOK /\ InventoryIsOwn
  BY DEF Init, DeviceOK, Born, SocketOK, TasksOK, QueueOK, InOrder, CurrentOK, InventoryIsOwn
<1>6. StoredOK /\ RebuildOK
  BY <1>2, <1>3 DEF StoredOK, RebuildOK
<1>7. QED
  BY <1>4, <1>5, <1>6 DEF Inv

\* A stutter changes nothing.
LEMMA StutterInv == ASSUME Inv, UNCHANGED vars PROVE Inv'
<1>1. /\ UNCHANGED <<device, untold, socket, stored, queue, current, recovery, inventory, rebuild,
                     tasks, wronged, spent>>
  BY DEF vars
<1>2. TypeOK'
  BY <1>1 DEF Inv, TypeOK
<1>3. QED
  BY <1>1, <1>2, QuietStep

LEMMA StoreInv == ASSUME Inv, Store PROVE Inv'
<1>1. queue # <<>> /\ UNCHANGED <<backend, rebuild, wronged, spent>>
  BY DEF Store
<1>2. CASE StorePairing(Head(queue))
  BY <1>1, <1>2, StorePairingInv
<1>3. CASE StoreName(Head(queue))
  BY <1>1, <1>3, StoreNameInv
<1>4. CASE StoreForgotten(Head(queue))
  BY <1>1, <1>4, StoreForgottenInv
<1>5. CASE LoadRevoked(Head(queue))
  BY <1>1, <1>5, LoadRevokedInv
<1>6. CASE StoreRevoked(Head(queue))
  BY <1>1, <1>6, StoreRevokedInv
<1>7. QED
  BY <1>2, <1>3, <1>4, <1>5, <1>6 DEF Store

\* No step breaks the invariant.
LEMMA StepInv == Inv /\ [Next]_vars => Inv'
<1> SUFFICES ASSUME Inv, [Next]_vars PROVE Inv'
  OBVIOUS
<1>1. ASSUME NEW h \in Households, Pair(h) PROVE Inv'
  BY <1>1, PairInv
<1>2. ASSUME NEW h \in Households, Serve(h) PROVE Inv'
  BY <1>2, ServeInv
<1>3. ASSUME NEW h \in Households, Rebuilt(h) PROVE Inv'
  <2>1. EndRebuild(h, rebuild[h].status) /\ spent' = spent
    BY <1>3 DEF Rebuilt
  <2>2. QED
    BY <2>1, EndRebuildInv
<1>4. ASSUME NEW h \in Households, RebuildFails(h) PROVE Inv'
  <2>1. EndRebuild(h, "failed") /\ Disturb
    BY <1>4 DEF RebuildFails
  <2>2. QED
    BY <2>1, EndRebuildInv
<1>5. ASSUME NEW c \in Creds, Revoke(c) PROVE Inv'
  BY <1>5, RevokeInv
<1>6. ASSUME NEW c \in Creds, Tell(c) PROVE Inv'
  BY <1>6, TellInv
<1>7. CASE Authenticate \/ ComesLate \/ Join \/ Ready \/ Event \/ Refused \/ Drop \/ Refresh
  BY <1>7, AuthenticateInv, ComesLateInv, JoinInv, ReadyInv, EventInv, RefusedInv, DropInv, RefreshInv
<1>8. CASE Forget \/ Renamed \/ Store \/ Restart
  BY <1>8, ForgetInv, RenamedInv, StoreInv, RestartInv
<1>9. ASSUME NEW t \in tasks, PairAnswer(t) \/ PairFails(t) \/ Quarantined(t) \/ Sync(t)
      PROVE  Inv'
  BY <1>9, PairAnswerInv, PairFailsInv, QuarantinedInv, SyncInv
<1>10. CASE UNCHANGED vars
  BY <1>10, StutterInv
<1>11. QED
  BY <1>1, <1>2, <1>3, <1>4, <1>5, <1>6, <1>7, <1>8, <1>9, <1>10 DEF Next

\* Inv holds in every reachable state.
LEMMA InvHolds == Spec => []Inv
BY InitInv, StepInv, PTL DEF Spec

-----------------------------------------------------------------------------
\* A pairing is marked as revoked only when the backend has revoked it, or when it
\* got the refusal of another one's rebuild: what is on its way to mark it, a task or
\* a call, was blamed when it began, and who was blamed once stays so.
THEOREM OnlyRevokedIsMarked == Spec => []RevokedIsRevoked
<1>1. Inv => RevokedIsRevoked
  BY DEF Inv, StoredOK, Blamed, Revoked, RevokedIsRevoked, Active
<1>2. QED
  BY <1>1, InvHolds, PTL

\* The inventory on the screen is that of the paired household: an effect that takes
\* an answer was not cleaned up, so its pairing is the current one.
THEOREM OwnInventory == Spec => []InventoryIsOwn
<1>1. Inv => InventoryIsOwn
  BY DEF Inv
<1>2. QED
  BY <1>1, InvHolds, PTL

\* A pairing that was replaced or forgotten does not come back: a call that is not
\* behind has only reads before it, so the pairing it was made for is still there.
THEOREM OldPairingsGone == Spec => OldPairingsStayGone
<1> DEFINE Stays == stored' # stored /\ stored'.status # "none" =>
                      \/ Head(queue).for = "pair"
                      \/ stored'.cred = current \/ stored = Stored(stored'.cred, "paired")
                      \/ Head(queue).behind
<1>1. ASSUME Inv, [Next]_vars, stored' # stored, stored'.status # "none"
      PROVE  Stays
  <2>1. Store
    BY <1>1 DEF Next, vars, backend, Pair, Serve, Rebuilt, RebuildFails, EndRebuild, Revoke, Tell,
                Authenticate, ComesLate, Join, Ready, Event, Refused, Drop, Refresh, Forget, Renamed, Restart,
                PairAnswer, PairFails, Quarantined, Sync
  <2>2. queue # <<>>
    BY <2>1 DEF Store
  <2>3. PICK call \in CallRec : call = Head(queue) /\ CallOK(call) /\ call.cred \in Creds
    BY <1>1, <2>2, NextCall DEF Born
  <2>4. CASE StorePairing(call)
    BY <2>3, <2>4 DEF StorePairing
  <2>5. CASE StoreName(call)
    <3>1. stored' = Stored(call.cred, "paired") /\ call.for = "name"
      BY <2>5 DEF StoreName
    <3>2. stored'.cred = call.cred
      BY <2>3, <3>1, StoredTyped
    <3>3. QED
      BY <2>3, <3>1, <3>2 DEF CallOK
  <2>6. CASE StoreRevoked(call)
    <3>1. stored' = Stored(call.cred, "revoked") /\ call.op = "mark"
      BY <2>6 DEF StoreRevoked
    <3>2. stored'.cred = call.cred
      BY <2>3, <3>1, StoredTyped
    <3>3. QED
      BY <2>3, <3>1, <3>2 DEF CallOK
  <2>7. CASE StoreForgotten(call)
    <3>1. stored' = Stored(0, "none")
      BY <2>7 DEF StoreForgotten
    <3>2. stored'.status = "none"
      BY <3>1, StoredTyped
    <3>3. QED
      BY <1>1, <3>2
  <2>8. CASE LoadRevoked(call)
    BY <1>1, <2>8 DEF LoadRevoked
  <2>9. QED
    BY <2>1, <2>3, <2>4, <2>5, <2>6, <2>7, <2>8 DEF Store
<1>2. Inv /\ [Next]_vars => [Stays]_vars
  BY <1>1
<1>3. QED
  BY <1>2, InvHolds, PTL DEF Spec, OldPairingsStayGone

-----------------------------------------------------------------------------
(* A revocation finds the phone.  The phone learns that its device was      *)
(* revoked from its socket, so it must not sit there with neither a socket  *)
(* of its pairing nor a refusal under way.  What could take the socket away *)
(* is the save of a name that comes late: that it is about another pairing  *)
(* whenever it was cancelled needs that what is being paired is new.        *)

\* A call is about the revocation of pairing c.
Told(calls, c) == \E i \in 1..Len(calls) : calls[i].for = "revoked" /\ calls[i].cred = c

\* The phone is on its way to learn that pairing c was revoked.
Learning(c) == (\E t \in tasks : t.kind = "revoked" /\ t.cred = c) \/ Told(queue, c)

\* The phone has a socket of the pairing it holds, that can be told or refused, or it
\* is on its way to learn that the pairing was revoked.
InTouch ==
  current # 0 /\ stored = Stored(current, "paired") =>
    (socket.cred = current /\ socket.stage # "ended") \/ Learning(current)

\* No call saves pairing c.
NotSaved(calls, c) == \A i \in 1..Len(calls) : calls[i].op = "save" => calls[i].cred # c

\* A pairing that is saved for the first time is not saved by another call.
SavedOnce(calls) ==
  \A i, j \in 1..Len(calls) :
    i # j /\ calls[i].for = "pair" /\ calls[j].op = "save" => calls[i].cred # calls[j].cred

\* What is saved is not the pairing c that the phone has, but for its own name.
SavesOthers(calls, c) ==
  \A i \in 1..Len(calls) :
    calls[i].for = "pair" \/ (calls[i].for = "name" /\ calls[i].cancelled) => calls[i].cred # c

\* A pairing that is being made is not the current one, and nothing else is about it.
PairsAreNew ==
  \A t \in tasks : t.kind = "pair" =>
    /\ t.cred # current
    /\ NotSaved(queue, t.cred)
    /\ \A u \in tasks : u.kind = "pair" /\ u # t => u.cred # t.cred

TouchInv == /\ InTouch
            /\ SavedOnce(queue)
            /\ SavesOthers(queue, current)
            /\ PairsAreNew

\* The credential 0 is nobody's.
LEMMA CredsArePositive == \A c \in Creds : c # 0
BY ConstantsAssumption DEF Creds

\* The steps that leave the queue and the pairings alone: whoever knows of a
\* revocation stays, and the socket stays open unless what it was told is passed on.
LEMMA QuietTouch ==
  ASSUME TouchInv, UNCHANGED <<queue, current, stored>>,
         \A t \in tasks' : t.kind = "pair" => t \in tasks,
         \A t \in tasks : t.kind = "revoked" => t \in tasks',
         socket'.cred = socket.cred,
         socket'.stage = "ended" => socket.stage = "ended" \/ Learning(socket.cred)'
  PROVE  TouchInv'
<1>1. ASSUME NEW c, Learning(c) PROVE Learning(c)'
  BY <1>1 DEF Learning, Told
<1>2. InTouch'
  BY <1>1 DEF TouchInv, InTouch
<1>3. SavedOnce(queue)' /\ SavesOthers(queue, current)'
  BY DEF TouchInv, SavedOnce, SavesOthers
<1>4. PairsAreNew'
  BY DEF TouchInv, PairsAreNew, NotSaved
<1>5. QED
  BY <1>2, <1>3, <1>4 DEF TouchInv

\* A task that is started is of its kind.
LEMMA Starts ==
  ASSUME NEW kind, NEW c
  PROVE  Task(kind, c).kind = kind /\ Task(kind, c).cred = c
BY DEF Task

\* A socket that goes on is one of the same pairing.
LEMMA SocketStays ==
  ASSUME Inv, NEW stage, socket' = [socket EXCEPT !.stage = stage]
  PROVE  socket'.cred = socket.cred /\ socket'.stage = stage
BY DEF Inv, TypeOK, SocketRec

\* A clean-up and a wait take away neither a pairing that is made nor a revocation.
LEMMA OthersWait ==
  ASSUME NEW some
  PROVE  /\ Waiting(some) \subseteq some
         /\ \A t \in some : t.kind # "effect" => t \in Waiting(some)
BY DEF Waiting, Takes

LEMMA OthersCut ==
  ASSUME Inv
  PROVE  /\ \A t \in Cancelled(tasks) : t.kind = "pair" => t \in tasks
         /\ \A t \in tasks : t.kind = "revoked" => t \in Cancelled(tasks)
<1> DEFINE Cut(t) == IF t.kind \in {"effect", "reconcile"} THEN [t EXCEPT !.cancelled = TRUE]
                                                          ELSE t
           some == {Cut(t) : t \in tasks}
<1>1. Cancelled(tasks) = Waiting(some)
  BY DEF Cancelled
<1>2. ASSUME NEW t \in tasks PROVE Cut(t).kind = t.kind /\ (t.kind \in {"pair", "revoked"} => Cut(t) = t)
  BY TaskKnown DEF TaskRec
<1>3. ASSUME NEW t \in some, t.kind = "pair" PROVE t \in tasks
  BY <1>2, <1>3
<1>4. ASSUME NEW t \in tasks, t.kind = "revoked" PROVE t \in some
  BY <1>2, <1>4
<1> HIDE DEF some
<1>5. QED
  BY <1>1, <1>3, <1>4, OthersWait

\* The effects of a pairing begin.
LEMMA OthersStart ==
  ASSUME Inv, NEW c, Started(c)
  PROVE  /\ socket'.cred = c /\ socket'.stage = "connecting"
         /\ \A t \in tasks' : t.kind = "pair" => t \in tasks
<1>1. /\ socket' = [cred |-> c, stage |-> "connecting"]
      /\ tasks' = Waiting(Cancelled(tasks) \cup {Task("effect", c)})
  BY DEF Started
<1>2. tasks' \subseteq Cancelled(tasks) \cup {Task("effect", c)}
  BY <1>1, OthersWait
<1>3. Task("effect", c).kind = "effect"
  BY Starts
<1>4. QED
  BY <1>1, <1>2, <1>3, OthersCut

LEMMA RevokeTouch == ASSUME Inv, TouchInv, NEW c \in Creds, Revoke(c) PROVE TouchInv'
BY QuietTouch DEF Revoke

LEMMA TellTouch == ASSUME Inv, TouchInv, NEW c \in Creds, Tell(c) PROVE TouchInv'
<1>1. /\ UNCHANGED <<stored, queue, current, tasks>>
      /\ socket' = socket \/ socket' = [socket EXCEPT !.stage = "told"]
  BY DEF Tell
<1>2. socket'.cred = socket.cred /\ (socket'.stage = "ended" => socket.stage = "ended")
  BY <1>1, SocketStays
<1>3. QED
  BY <1>1, <1>2, QuietTouch

\* The socket goes on, and is not ended.
LEMMA MovesTouch ==
  ASSUME Inv, TouchInv, UNCHANGED <<stored, queue, current, tasks>>, NEW stage, stage # "ended",
         socket' = [socket EXCEPT !.stage = stage]
  PROVE  TouchInv'
<1>1. socket'.cred = socket.cred /\ socket'.stage = stage
  BY SocketStays
<1>2. QED
  BY <1>1, QuietTouch

LEMMA ComesLateTouch == ASSUME Inv, TouchInv, ComesLate PROVE TouchInv'
<1>1. /\ socket' = [socket EXCEPT !.stage = "refused"]
      /\ UNCHANGED <<stored, queue, current, tasks>>
  BY DEF ComesLate
<1>2. QED
  BY <1>1, MovesTouch

LEMMA AuthenticateTouch == ASSUME Inv, TouchInv, Authenticate PROVE TouchInv'
<1>1. PICK stage : stage = IF Active(socket.cred) THEN "known" ELSE "refused"
  OBVIOUS
<1>2. /\ stage # "ended" /\ socket' = [socket EXCEPT !.stage = stage]
      /\ UNCHANGED <<stored, queue, current, tasks>>
  BY <1>1 DEF Authenticate
<1>3. QED
  BY <1>2, MovesTouch

LEMMA JoinTouch == ASSUME Inv, TouchInv, Join PROVE TouchInv'
<1>1. /\ socket' = [socket EXCEPT !.stage = "joined"]
      /\ UNCHANGED <<stored, queue, current, tasks>>
  BY DEF Join
<1>2. QED
  BY <1>1, MovesTouch

LEMMA DropTouch == ASSUME Inv, TouchInv, Drop PROVE TouchInv'
<1>1. /\ socket' = [socket EXCEPT !.stage = "connecting"]
      /\ UNCHANGED <<stored, queue, current, tasks>>
  BY DEF Drop
<1>2. QED
  BY <1>1, MovesTouch

LEMMA ReconcileKeeps ==
  ASSUME Inv, NEW c, Reconcile(c)
  PROVE  /\ \A t \in tasks' : t.kind = "pair" => t \in tasks
         /\ \A t \in tasks : t.kind = "revoked" => t \in tasks'
<1> DEFINE running == {t \in tasks : t.kind = "reconcile" /\ t.cred = c /\ ~ t.cancelled}
           again == {[t EXCEPT !.rerun = TRUE] : t \in running}
<1>1. Task("reconcile", c).kind = "reconcile"
  BY Starts
<1>2. \A t \in again : t.kind = "reconcile"
  BY TaskKnown DEF TaskRec
<1>3. \A t \in running : t.kind = "reconcile"
  OBVIOUS
<1>4. tasks' = tasks \cup {Task("reconcile", c)} \/ tasks' = (tasks \ running) \cup again
  BY DEF Reconcile
<1> HIDE DEF running, again
<1>5. QED
  BY <1>1, <1>2, <1>3, <1>4

LEMMA ReadyTouch == ASSUME Inv, TouchInv, Ready PROVE TouchInv'
<1>1. /\ Reconcile(socket.cred) /\ socket' = [socket EXCEPT !.stage = "ready"]
      /\ UNCHANGED <<stored, queue, current>>
  BY DEF Ready
<1>2. socket'.cred = socket.cred /\ socket'.stage = "ready"
  BY <1>1, SocketStays
<1>3. QED
  BY <1>1, <1>2, ReconcileKeeps, QuietTouch

LEMMA EventTouch == ASSUME Inv, TouchInv, Event PROVE TouchInv'
<1>1. Reconcile(socket.cred) /\ UNCHANGED <<socket, stored, queue, current>>
  BY DEF Event
<1>2. QED
  BY <1>1, ReconcileKeeps, QuietTouch

LEMMA RefusedTouch == ASSUME Inv, TouchInv, Refused PROVE TouchInv'
<1>1. /\ socket' = [socket EXCEPT !.stage = "ended"]
      /\ tasks' = tasks \cup {Task("revoked", socket.cred)}
      /\ UNCHANGED <<stored, queue, current>>
  BY DEF Refused, RevokedTask
<1>2. socket'.cred = socket.cred
  BY <1>1, SocketStays
<1>3. PICK t : t = Task("revoked", socket.cred)
  OBVIOUS
<1>4. t \in tasks' /\ t.kind = "revoked" /\ t.cred = socket.cred
  BY <1>1, <1>3, Starts
<1>5. PICK c : c = socket.cred
  OBVIOUS
<1>6. Learning(c)'
  BY <1>4, <1>5 DEF Learning
<1>7. Learning(socket.cred)'
  BY <1>2, <1>5, <1>6 DEF Learning
<1>8. \A u \in tasks' : u.kind = "pair" => u \in tasks
  BY <1>1, <1>3, <1>4
<1>9. \A u \in tasks : u.kind = "revoked" => u \in tasks'
  BY <1>1
<1>10. QED
  BY <1>1, <1>2, <1>7, <1>8, <1>9, QuietTouch

LEMMA ServeTouch == ASSUME Inv, TouchInv, NEW h \in Households, Serve(h) PROVE TouchInv'
BY QuietTouch DEF Serve

LEMMA PairFailsTouch == ASSUME Inv, TouchInv, NEW t \in tasks, PairFails(t) PROVE TouchInv'
BY QuietTouch DEF PairFails, Ends

\* A task is started that neither makes a pairing nor ends one.
LEMMA StartsTouch ==
  ASSUME TouchInv, UNCHANGED <<socket, stored, queue, current>>, NEW kind, kind # "pair", NEW c,
         tasks' = tasks \cup {Task(kind, c)}
  PROVE  TouchInv'
BY Starts, QuietTouch

LEMMA ForgetTouch == ASSUME TouchInv, Forget PROVE TouchInv'
BY StartsTouch DEF Forget

LEMMA RefreshTouch == ASSUME TouchInv, Refresh PROVE TouchInv'
BY StartsTouch DEF Refresh

LEMMA SyncTouch == ASSUME Inv, TouchInv, NEW t \in tasks, Sync(t) PROVE TouchInv'
<1>1. PICK u : u = [t EXCEPT !.waits = TRUE]
  OBVIOUS
<1>2. PICK some : some = (tasks \ {t}) \cup {u}
  OBVIOUS
<1>3. /\ t.kind \in Reads /\ tasks' = Waiting(some)
      /\ UNCHANGED <<socket, stored, queue, current>>
  BY <1>1, <1>2 DEF Sync, Reads
<1>4. u.kind = t.kind /\ t.kind \notin {"pair", "revoked"}
  BY <1>1, <1>3, TaskKnown DEF TaskRec, Reads
<1>5. \A s \in tasks' : s.kind = "pair" => s \in tasks
  BY <1>2, <1>3, <1>4, OthersWait
<1>6. \A s \in tasks : s.kind = "revoked" => s \in tasks'
  BY <1>2, <1>3, <1>4, OthersWait
<1>7. QED
  BY <1>3, <1>5, <1>6, QuietTouch

LEMMA EndRebuildTouch ==
  ASSUME Inv, TouchInv, NEW h \in Households, NEW status, EndRebuild(h, status) PROVE TouchInv'
<1> DEFINE again == {[t EXCEPT !.waits = FALSE, !.rerun = FALSE] :
                       t \in {u \in Joined(h) : u.rerun}}
           blamed == {Task("revoked", Blames(t)) : t \in Angry(h, status)}
<1>1. /\ tasks' = (tasks \ Joined(h)) \cup again \cup blamed
      /\ UNCHANGED <<socket, stored, queue, current>>
  BY DEF EndRebuild, Angry, Blames
<1>2. \A t \in Joined(h) : t.kind \in Reads
  BY TaskKnown DEF Joined, TaskOK
<1>3. ASSUME NEW t \in again PROVE t.kind \in Reads
  <2>1. PICK u \in Joined(h) : t = [u EXCEPT !.waits = FALSE, !.rerun = FALSE]
    OBVIOUS
  <2>2. t.kind = u.kind
    BY <2>1, TaskKnown DEF Joined, TaskRec
  <2>3. QED
    BY <1>2, <2>2
<1>4. \A t \in blamed : t.kind = "revoked"
  BY Starts
<1> HIDE DEF again, blamed
<1>5. \A t \in tasks' : t.kind = "pair" => t \in tasks
  BY <1>1, <1>3, <1>4 DEF Reads
<1>6. \A t \in tasks : t.kind = "revoked" => t \in tasks'
  BY <1>1, <1>2 DEF Reads
<1>7. QED
  BY <1>1, <1>5, <1>6, QuietTouch

\* A device is paired: its credential has not been used before.
LEMMA PairTouch == ASSUME Inv, TouchInv, NEW h \in Households, Pair(h) PROVE TouchInv'
<1>1. PICK c \in Creds : /\ \A d \in Creds : device[d].status = "unborn" <=> d >= c
                         /\ tasks' = tasks \cup {Task("pair", c)}
  BY DEF Pair
<1>2. UNCHANGED <<socket, stored, queue, current>>
  BY DEF Pair
<1>3. c \notin Born
  BY <1>1, ConstantsAssumption DEF Born, Creds
<1>4. PICK new : new = Task("pair", c)
  OBVIOUS
<1>5. new.kind = "pair" /\ new.cred = c /\ tasks' = tasks \cup {new}
  BY <1>1, <1>4, Starts
<1>6. current # c
  BY <1>3, CredsArePositive DEF Inv, CurrentOK
<1>7. NotSaved(queue, c)
  BY <1>3 DEF Inv, QueueOK, CallOK, NotSaved
<1>8. \A t \in tasks : t.cred # c
  BY <1>3, TaskKnown
<1>9. PairsAreNew'
  BY <1>2, <1>5, <1>6, <1>7, <1>8 DEF TouchInv, PairsAreNew, NotSaved
<1>10. InTouch' /\ SavedOnce(queue)' /\ SavesOthers(queue, current)'
  BY <1>2, <1>5 DEF TouchInv, InTouch, Learning, Told, SavedOnce, SavesOthers
<1>11. QED
  BY <1>9, <1>10 DEF TouchInv

\* A call joins a queue: if it saves a pairing, no other saves that for the first time.
LEMMA AddedSaves ==
  ASSUME NEW q \in Seq(CallRec), NEW op \in Ops, NEW c \in Creds, NEW for \in Purposes,
         NEW r, r = Call(q, op, c, for), NEW own, SavedOnce(q), SavesOthers(q, own),
         for = "pair" => c # own /\ NotSaved(q, c),
         op = "save" => \A i \in 1..Len(q) : q[i].for = "pair" => q[i].cred # c
  PROVE  /\ SavedOnce(r)
         /\ SavesOthers(r, own)
         /\ \A d : NotSaved(q, d) /\ (op = "save" => c # d) => NotSaved(r, d)
<1>1. /\ Len(r) = Len(q) + 1 /\ Len(q) \in Nat
      /\ \A i \in 1..Len(q) : r[i] = q[i]
      /\ r[Len(q) + 1].op = op /\ r[Len(q) + 1].cred = c /\ r[Len(q) + 1].for = for
      /\ ~ r[Len(q) + 1].cancelled
  BY CallAdded
<1>2. \A i \in 1..Len(r) : i \in 1..Len(q) \/ i = Len(q) + 1
  BY <1>1
<1>3. ASSUME NEW i \in 1..Len(r), NEW j \in 1..Len(r), i # j, r[i].for = "pair", r[j].op = "save"
      PROVE  r[i].cred # r[j].cred
  <2>1. CASE i \in 1..Len(q) /\ j \in 1..Len(q)
    BY <1>1, <1>3, <2>1 DEF SavedOnce
  <2>2. CASE i = Len(q) + 1 /\ j \in 1..Len(q)
    BY <1>1, <1>3, <2>2 DEF NotSaved
  <2>3. CASE i \in 1..Len(q) /\ j = Len(q) + 1
    BY <1>1, <1>3, <2>3
  <2>4. QED
    BY <1>2, <1>3, <2>1, <2>2, <2>3
<1>4. SavesOthers(r, own)
  BY <1>1, <1>2 DEF SavesOthers
<1>5. ASSUME NEW d, NotSaved(q, d), op = "save" => c # d PROVE NotSaved(r, d)
  BY <1>1, <1>2, <1>5 DEF NotSaved
<1>6. SavedOnce(r)
  BY <1>3 DEF SavedOnce
<1>7. QED
  BY <1>4, <1>5, <1>6

\* A call joins a queue: no revocation is forgotten, and it may be about one itself.
LEMMA AddedLearns ==
  ASSUME NEW q \in Seq(CallRec), NEW op \in Ops, NEW c \in Creds, NEW for \in Purposes,
         NEW r, r = Call(q, op, c, for)
  PROVE  /\ \A d : Told(q, d) => Told(r, d)
         /\ for = "revoked" => Told(r, c)
<1>1. /\ Len(r) = Len(q) + 1 /\ Len(q) \in Nat
      /\ \A i \in 1..Len(q) : r[i] = q[i]
      /\ r[Len(q) + 1].cred = c /\ r[Len(q) + 1].for = for
  BY CallAdded
<1>2. Len(q) + 1 \in 1..Len(r) /\ \A i \in 1..Len(q) : i \in 1..Len(r)
  BY <1>1
<1>3. QED
  BY <1>1, <1>2 DEF Told

LEMMA PairAnswerTouch == ASSUME Inv, TouchInv, NEW t \in tasks, PairAnswer(t) PROVE TouchInv'
<1>1. /\ t.kind = "pair" /\ tasks' = tasks \ {t} /\ queue' = Call(queue, "save", t.cred, "pair")
      /\ UNCHANGED <<socket, stored, current>>
  BY DEF PairAnswer, Ends
<1>2. PICK c \in Creds : c = t.cred
  BY TaskKnown
<1>3. PICK q : q = queue
  OBVIOUS
<1>4. PICK r : r = queue'
  OBVIOUS
<1>5. /\ q \in Seq(CallRec) /\ r = Call(q, "save", c, "pair")
      /\ SavedOnce(q) /\ SavesOthers(q, current)
  BY <1>1, <1>2, <1>3, <1>4 DEF Inv, TypeOK, TouchInv
<1>6. c # current /\ NotSaved(q, c)
  BY <1>1, <1>2, <1>3 DEF TouchInv, PairsAreNew
<1>7. \A i \in 1..Len(q) : q[i].for = "pair" => q[i].cred # c
  BY <1>3, <1>6 DEF NotSaved, Inv, QueueOK, CallOK
<1>8. /\ SavedOnce(r) /\ SavesOthers(r, current)
      /\ \A d : NotSaved(q, d) /\ c # d => NotSaved(r, d)
  BY <1>5, <1>6, <1>7, AddedSaves DEF Ops, Purposes
<1>9. \A u \in tasks' : u.kind = "pair" => NotSaved(q, u.cred) /\ u.cred # c /\ u.cred # current
  BY <1>1, <1>2, <1>3 DEF TouchInv, PairsAreNew
<1>10. \A u \in tasks' : u.kind = "pair" => NotSaved(r, u.cred)
  BY <1>8, <1>9
<1>11. PairsAreNew'
  BY <1>1, <1>4, <1>9, <1>10 DEF TouchInv, PairsAreNew
<1>12. InTouch'
  <2>1. \A d : Told(q, d) => Told(r, d)
    BY <1>5, AddedLearns DEF Ops, Purposes
  <2>2. \A d : Learning(d) => Learning(d)'
    BY <1>1, <1>3, <1>4, <2>1 DEF Learning
  <2>3. QED
    BY <1>1, <2>2 DEF TouchInv, InTouch
<1>13. QED
  BY <1>1, <1>4, <1>8, <1>11, <1>12 DEF TouchInv

LEMMA QuarantinedTouch == ASSUME Inv, TouchInv, NEW t \in tasks, Quarantined(t) PROVE TouchInv'
<1>1. /\ t.kind \in {"forget", "revoked"} /\ tasks' = tasks \ {t}
      /\ queue' = Call(queue, IF t.kind = "forget" THEN "delete" ELSE "load", t.cred, t.kind)
      /\ UNCHANGED <<socket, stored, current>>
  BY DEF Quarantined, Ends
<1>2. PICK c \in Creds : c = t.cred
  BY TaskKnown
<1>3. PICK op \in {"delete", "load"} : op = IF t.kind = "forget" THEN "delete" ELSE "load"
  OBVIOUS
<1>4. PICK q : q = queue
  OBVIOUS
<1>5. PICK r : r = queue'
  OBVIOUS
<1>6. /\ q \in Seq(CallRec) /\ r = Call(q, op, c, t.kind)
      /\ SavedOnce(q) /\ SavesOthers(q, current)
  BY <1>1, <1>2, <1>3, <1>4, <1>5 DEF Inv, TypeOK, TouchInv
<1>7. /\ op \in Ops /\ op # "save"
      /\ t.kind \in Purposes /\ t.kind # "pair"
  BY <1>1 DEF Ops, Purposes
<1>8. /\ SavedOnce(r) /\ SavesOthers(r, current)
      /\ \A d : NotSaved(q, d) => NotSaved(r, d)
  BY <1>6, <1>7, AddedSaves
<1>9. PairsAreNew'
  BY <1>1, <1>4, <1>5, <1>8 DEF TouchInv, PairsAreNew
<1>10. InTouch'
  <2>1. (\A d : Told(q, d) => Told(r, d)) /\ (t.kind = "revoked" => Told(r, c))
    BY <1>6, <1>7, AddedLearns
  <2>2. \A d : Learning(d) => Learning(d)'
    BY <1>1, <1>2, <1>4, <1>5, <2>1 DEF Learning
  <2>3. QED
    BY <1>1, <2>2 DEF TouchInv, InTouch
<1>11. QED
  BY <1>1, <1>5, <1>8, <1>9, <1>10 DEF TouchInv

LEMMA RenamedTouch == ASSUME Inv, TouchInv, Renamed PROVE TouchInv'
<1>1. /\ current # 0 /\ queue' = Call(queue, "save", current, "name")
      /\ UNCHANGED <<socket, stored, current, tasks>>
  BY DEF Renamed
<1>2. PICK c \in Creds : c = current
  BY <1>1 DEF Inv, TypeOK
<1>3. PICK q : q = queue
  OBVIOUS
<1>4. PICK r : r = queue'
  OBVIOUS
<1>5. /\ q \in Seq(CallRec) /\ r = Call(q, "save", c, "name")
      /\ SavedOnce(q) /\ SavesOthers(q, c)
  BY <1>1, <1>2, <1>3, <1>4 DEF Inv, TypeOK, TouchInv
<1>6. \A i \in 1..Len(q) : q[i].for = "pair" => q[i].cred # c
  BY <1>5 DEF SavesOthers
<1>7. /\ SavedOnce(r) /\ SavesOthers(r, c)
      /\ \A d : NotSaved(q, d) /\ c # d => NotSaved(r, d)
  BY <1>5, <1>6, AddedSaves DEF Ops, Purposes
<1>8. PairsAreNew'
  BY <1>1, <1>2, <1>3, <1>4, <1>7 DEF TouchInv, PairsAreNew
<1>9. InTouch'
  <2>1. \A d : Told(q, d) => Told(r, d)
    BY <1>5, AddedLearns DEF Ops, Purposes
  <2>2. \A d : Learning(d) => Learning(d)'
    BY <1>1, <1>3, <1>4, <2>1 DEF Learning
  <2>3. QED
    BY <1>1, <2>2 DEF TouchInv, InTouch
<1>10. QED
  BY <1>1, <1>2, <1>4, <1>7, <1>8, <1>9 DEF TouchInv

\* The call that is done next, and those after it.
LEMMA NextSaves ==
  ASSUME Inv, TouchInv, queue # <<>>, NEW q, q = Tail(queue), NEW call, call = Head(queue)
  PROVE  /\ SavedOnce(q) /\ SavesOthers(q, current)
         /\ call.for = "pair" => NotSaved(q, call.cred)
         /\ call.for = "name" /\ call.cancelled => call.cred # current
         /\ \A d : NotSaved(queue, d) => NotSaved(q, d) /\ (call.op = "save" => call.cred # d)
         /\ \A d : Told(queue, d) => Told(q, d) \/ (call.for = "revoked" /\ call.cred = d)
<1>1. PICK r : r = queue
  OBVIOUS
<1>2. r \in Seq(CallRec) /\ InOrder(r) /\ r # <<>>
  BY <1>1 DEF Inv, TypeOK, QueueOK
<1>3. /\ call = r[1] /\ 1 \in 1..Len(r)
      /\ \A i \in 1..Len(q) : i + 1 \in 1..Len(r) /\ i + 1 # 1 /\ q[i] = r[i + 1]
  BY <1>1, <1>2, TailOrder
<1>4. \A i \in 1..Len(r) : i = 1 \/ \E j \in 1..Len(q) : i = j + 1
  BY <1>1, <1>2
<1>5. SavedOnce(r) /\ SavesOthers(r, current)
  BY <1>1 DEF TouchInv
<1>6. SavedOnce(q) /\ (call.for = "pair" => NotSaved(q, call.cred))
  BY <1>3, <1>5 DEF SavedOnce, NotSaved
<1>7. /\ SavesOthers(q, current)
      /\ call.for = "name" /\ call.cancelled => call.cred # current
  BY <1>3, <1>5 DEF SavesOthers
<1>8. \A d : NotSaved(r, d) => NotSaved(q, d) /\ (call.op = "save" => call.cred # d)
  BY <1>3 DEF NotSaved
<1>9. ASSUME NEW d, Told(r, d) PROVE Told(q, d) \/ (call.for = "revoked" /\ call.cred = d)
  <2>1. PICK i \in 1..Len(r) : r[i].for = "revoked" /\ r[i].cred = d
    BY <1>9 DEF Told
  <2>2. CASE i = 1
    BY <1>3, <2>1, <2>2
  <2>3. CASE i # 1
    <3>1. PICK j \in 1..Len(q) : i = j + 1
      BY <1>4, <2>3
    <3>2. q[j].for = "revoked" /\ q[j].cred = d
      BY <1>3, <2>1, <3>1
    <3>3. QED
      BY <3>2 DEF Told
  <2>4. QED
    BY <2>2, <2>3
<1>10. QED
  BY <1>1, <1>6, <1>7, <1>8, <1>9

\* The names that are asked for are cancelled when the pairing becomes another one.
LEMMA CutSaves ==
  ASSUME Inv, TouchInv, queue # <<>>, NEW r, r = CancelNames(Tail(queue)),
         NEW own, NotSaved(Tail(queue), own)
  PROVE  /\ SavedOnce(r) /\ SavesOthers(r, own)
         /\ \A d : NotSaved(Tail(queue), d) => NotSaved(r, d)
<1>1. PICK q : q = Tail(queue)
  OBVIOUS
<1>2. /\ q \in Seq(CallRec) /\ InOrder(q)
      /\ \A i \in 1..Len(q) : q[i].for \in {"pair", "name"} => q[i].op = "save"
  BY <1>1, NextCall DEF CallOK
<1>3. SavedOnce(q) /\ NotSaved(q, own)
  BY <1>1, NextSaves
<1>4. /\ Len(r) = Len(q)
      /\ \A i \in 1..Len(q) : r[i].op = q[i].op /\ r[i].cred = q[i].cred /\ r[i].for = q[i].for
  BY <1>1, <1>2, NamesCancelled
<1>5. SavedOnce(r)
  BY <1>3, <1>4 DEF SavedOnce
<1>6. SavesOthers(r, own)
  BY <1>2, <1>3, <1>4 DEF SavesOthers, NotSaved
<1>7. \A d : NotSaved(q, d) => NotSaved(r, d)
  BY <1>4 DEF NotSaved
<1>8. QED
  BY <1>1, <1>5, <1>6, <1>7

LEMMA StorePairingTouch ==
  ASSUME Inv, TouchInv, queue # <<>>, StorePairing(Head(queue)) PROVE TouchInv'
<1>1. PICK c \in Born : c = Head(queue).cred
  BY NextCall
<1>2. Head(queue).op = "save" /\ Head(queue).for = "pair"
  BY NextCall DEF StorePairing, CallOK
<1>3. current' = c /\ Started(c) /\ queue' = CancelNames(Tail(queue))
  BY <1>1 DEF StorePairing
<1>4. NotSaved(Tail(queue), c)
  BY <1>1, <1>2, NextSaves
<1>5. PICK r : r = queue'
  OBVIOUS
<1>6. /\ SavedOnce(r) /\ SavesOthers(r, c)
      /\ \A d : NotSaved(Tail(queue), d) => NotSaved(r, d)
  BY <1>3, <1>4, <1>5, CutSaves
<1>7. socket'.cred = c /\ socket'.stage = "connecting"
      /\ \A t \in tasks' : t.kind = "pair" => t \in tasks
  BY <1>3, OthersStart
<1>8. InTouch'
  BY <1>3, <1>7 DEF InTouch
<1>9. \A d : NotSaved(queue, d) => NotSaved(Tail(queue), d) /\ c # d
  BY <1>1, <1>2, NextSaves
<1>10. PairsAreNew'
  BY <1>3, <1>5, <1>6, <1>7, <1>9 DEF TouchInv, PairsAreNew
<1>11. QED
  BY <1>3, <1>5, <1>6, <1>8, <1>10 DEF TouchInv

LEMMA StoreNameTouch ==
  ASSUME Inv, TouchInv, queue # <<>>, StoreName(Head(queue)) PROVE TouchInv'
<1>1. PICK c \in Born : c = Head(queue).cred
  BY NextCall
<1>2. PICK r : r = Tail(queue)
  OBVIOUS
<1>3. /\ Head(queue).for = "name" /\ stored' = Stored(c, "paired") /\ current' = current
      /\ queue' = r
      /\ IF Head(queue).cancelled THEN UNCHANGED <<tasks, socket>> ELSE Started(c)
  BY <1>1, <1>2 DEF StoreName
<1>4. /\ SavedOnce(r) /\ SavesOthers(r, current)
      /\ \A d : NotSaved(queue, d) => NotSaved(r, d)
      /\ Head(queue).cancelled => c # current
      /\ ~ Head(queue).cancelled => c = current
  BY <1>1, <1>2, <1>3, NextCall, NextSaves DEF CallOK
<1>5. /\ \A t \in tasks' : t.kind = "pair" => t \in tasks
      /\ ~ Head(queue).cancelled => socket'.cred = current /\ socket'.stage = "connecting"
  BY <1>3, <1>4, OthersStart
<1>6. InTouch'
  <2>1. CASE Head(queue).cancelled
    <3>1. c # current /\ stored'.cred = c /\ Stored(current, "paired").cred = current
      BY <1>3, <1>4, <2>1 DEF Stored
    <3>2. QED
      BY <1>3, <3>1 DEF InTouch, Stored
  <2>2. CASE ~ Head(queue).cancelled
    BY <1>3, <1>5, <2>2 DEF InTouch
  <2>3. QED
    BY <2>1, <2>2
<1>7. PairsAreNew'
  BY <1>3, <1>4, <1>5 DEF TouchInv, PairsAreNew
<1>8. QED
  BY <1>3, <1>4, <1>6, <1>7 DEF TouchInv

\* The phone has no pairing any more: there is nothing to be in touch about.
LEMMA UnpairedTouch ==
  ASSUME Inv, TouchInv, queue # <<>>, SetUnpaired(Tail(queue)) PROVE TouchInv'
<1>1. current' = 0 /\ tasks' = Cancelled(tasks) /\ queue' = CancelNames(Tail(queue))
  BY DEF SetUnpaired
<1>2. NotSaved(Tail(queue), 0)
  BY NextCall, CredsArePositive DEF NotSaved, CallOK, Born
<1>3. PICK r : r = queue'
  OBVIOUS
<1>4. /\ SavedOnce(r) /\ SavesOthers(r, 0)
      /\ \A d : NotSaved(Tail(queue), d) => NotSaved(r, d)
  BY <1>1, <1>2, <1>3, CutSaves
<1>5. \A d : NotSaved(queue, d) => NotSaved(Tail(queue), d)
  BY NextSaves
<1>6. \A t \in tasks' : t.kind = "pair" => t \in tasks /\ t.cred # 0
  BY <1>1, OthersCut, TaskKnown, CredsArePositive
<1>7. PairsAreNew'
  BY <1>1, <1>3, <1>4, <1>5, <1>6 DEF TouchInv, PairsAreNew
<1>8. InTouch'
  BY <1>1 DEF InTouch
<1>9. QED
  BY <1>1, <1>3, <1>4, <1>7, <1>8 DEF TouchInv

\* The phone looks whether the pairing that was revoked is still there: if it is not,
\* its current pairing is another one.
LEMMA LoadRevokedTouch ==
  ASSUME Inv, TouchInv, queue # <<>>, LoadRevoked(Head(queue)) PROVE TouchInv'
<1>1. PICK c \in Creds : c = Head(queue).cred
  BY NextCall DEF Born
<1>2. PICK q : q = Tail(queue)
  OBVIOUS
<1>3. PICK r : r = queue'
  OBVIOUS
<1>4. /\ r = IF StillStored(c) THEN Call(q, "mark", c, "revoked") ELSE q
      /\ UNCHANGED <<socket, stored, current, tasks>>
  BY <1>1, <1>2, <1>3 DEF LoadRevoked
<1>5. /\ q \in Seq(CallRec) /\ SavedOnce(q) /\ SavesOthers(q, current)
      /\ \A d : NotSaved(queue, d) => NotSaved(q, d)
      /\ \A d : Told(queue, d) => Told(q, d) \/ c = d
  BY <1>1, <1>2, NextCall, NextSaves
<1>6. /\ SavedOnce(r) /\ SavesOthers(r, current)
      /\ \A d : NotSaved(q, d) => NotSaved(r, d)
      /\ \A d : Told(q, d) => Told(r, d)
      /\ StillStored(c) => Told(r, c)
  <2>1. CASE StillStored(c)
    <3>1. r = Call(q, "mark", c, "revoked")
      BY <1>4, <2>1
    <3>2. "mark" \in Ops /\ "revoked" \in Purposes
      BY DEF Ops, Purposes
    <3>3. /\ SavedOnce(r) /\ SavesOthers(r, current)
          /\ \A d : NotSaved(q, d) => NotSaved(r, d)
      BY <1>5, <3>1, <3>2, AddedSaves
    <3>4. (\A d : Told(q, d) => Told(r, d)) /\ Told(r, c)
      BY <1>5, <3>1, <3>2, AddedLearns
    <3>5. QED
      BY <3>3, <3>4
  <2>2. CASE ~ StillStored(c)
    BY <1>4, <1>5, <2>2
  <2>3. QED
    BY <2>1, <2>2
<1>7. InTouch'
  <2>1. stored = Stored(current, "paired") /\ c = current => StillStored(c)
    BY DEF Stored, StillStored
  <2>2. stored = Stored(current, "paired") /\ Learning(current) => Learning(current)'
    BY <1>3, <1>4, <1>5, <1>6, <2>1 DEF Learning
  <2>3. QED
    BY <1>4, <2>2 DEF TouchInv, InTouch
<1>8. PairsAreNew'
  BY <1>3, <1>4, <1>5, <1>6 DEF TouchInv, PairsAreNew
<1>9. QED
  BY <1>3, <1>4, <1>6, <1>7, <1>8 DEF TouchInv

LEMMA StoreTouch == ASSUME Inv, TouchInv, Store PROVE TouchInv'
<1>1. queue # <<>>
  BY DEF Store
<1>2. CASE StorePairing(Head(queue))
  BY <1>1, <1>2, StorePairingTouch
<1>3. CASE StoreName(Head(queue))
  BY <1>1, <1>3, StoreNameTouch
<1>4. CASE StoreForgotten(Head(queue)) \/ StoreRevoked(Head(queue))
  BY <1>1, <1>4, UnpairedTouch DEF StoreForgotten, StoreRevoked
<1>5. CASE LoadRevoked(Head(queue))
  BY <1>1, <1>5, LoadRevokedTouch
<1>6. QED
  BY <1>2, <1>3, <1>4, <1>5 DEF Store

LEMMA RestartTouch == ASSUME Inv, TouchInv, Restart PROVE TouchInv'
<1>1. PICK c : c = IF stored.status = "paired" THEN stored.cred ELSE 0
  OBVIOUS
<1>2. /\ current' = c /\ queue' = <<>> /\ tasks' = {Task("effect", d) : d \in {c} \ {0}}
      /\ socket' = [cred |-> c, stage |-> IF c = 0 THEN "ended" ELSE "connecting"]
  BY <1>1 DEF Restart
<1>3. Len(queue') = 0
  BY <1>2
<1>4. \A t \in tasks' : t.kind = "effect"
  BY <1>2, Starts
<1>5. SavedOnce(queue)' /\ SavesOthers(queue, current)' /\ PairsAreNew'
  BY <1>3, <1>4 DEF SavedOnce, SavesOthers, PairsAreNew
<1>6. InTouch'
  BY <1>2 DEF InTouch
<1>7. QED
  BY <1>5, <1>6 DEF TouchInv

LEMMA StepTouch == Inv /\ TouchInv /\ [Next]_vars => TouchInv'
<1> SUFFICES ASSUME Inv, TouchInv, [Next]_vars PROVE TouchInv'
  OBVIOUS
<1>1. ASSUME NEW h \in Households, Pair(h) \/ Serve(h) PROVE TouchInv'
  BY <1>1, PairTouch, ServeTouch
<1>2. ASSUME NEW h \in Households, Rebuilt(h) \/ RebuildFails(h) PROVE TouchInv'
  BY <1>2, EndRebuildTouch DEF Rebuilt, RebuildFails
<1>3. ASSUME NEW c \in Creds, Revoke(c) \/ Tell(c) PROVE TouchInv'
  BY <1>3, RevokeTouch, TellTouch
<1>4. CASE Authenticate \/ ComesLate \/ Join \/ Ready \/ Event \/ Refused \/ Drop \/ Refresh
  BY <1>4, AuthenticateTouch, ComesLateTouch, JoinTouch, ReadyTouch, EventTouch, RefusedTouch, DropTouch,
     RefreshTouch
<1>5. CASE Forget \/ Renamed \/ Store \/ Restart
  BY <1>5, ForgetTouch, RenamedTouch, StoreTouch, RestartTouch
<1>6. ASSUME NEW t \in tasks, PairAnswer(t) \/ PairFails(t) \/ Quarantined(t) \/ Sync(t)
      PROVE  TouchInv'
  BY <1>6, PairAnswerTouch, PairFailsTouch, QuarantinedTouch, SyncTouch
<1>7. CASE UNCHANGED vars
  BY <1>7, QuietTouch DEF vars
<1>8. QED
  BY <1>1, <1>2, <1>3, <1>4, <1>5, <1>6, <1>7 DEF Next

\* A phone that holds the pairing it was given has a socket of that pairing, which the
\* hub tells and the authentication refuses, or the news of its revocation is under way:
\* in no order of calls, renames, answers and restarts does it sit there with neither.
THEOREM RevocationFinds == Spec => []InTouch
<1>1. Init => TouchInv
  <2> SUFFICES ASSUME Init PROVE TouchInv
    OBVIOUS
  <2>1. current = 0 /\ Len(queue) = 0 /\ tasks = {}
    BY DEF Init
  <2>2. QED
    BY <2>1 DEF TouchInv, InTouch, SavedOnce, SavesOthers, PairsAreNew
<1>2. TouchInv => InTouch
  BY DEF TouchInv
<1>3. QED
  BY <1>1, <1>2, StepTouch, InvHolds, PTL DEF Spec
=============================================================================
