----------------------- MODULE CheckoutSessionsProofs -----------------------
(***************************************************************************)
(* Theorems about CheckoutSessions for every set of devices, users, items  *)
(* and ids.  RequestOK says what a request in flight has established; it   *)
(* is what makes the invariants of CheckoutSessions inductive.  The last   *)
(* part shows that CheckoutSessions implements Lending.                    *)
(***************************************************************************)
EXTENDS CheckoutSessions, WellFoundedInduction, FiniteSetTheorems, TLAPS

HoldsSession(d) == txn[d].pc \in {"add", "lock", "finalize"}

\* A request that holds a session row holds it alone, the session is an active
\* one of its user, and nothing has changed it since the lock was taken.
SessionLockOK ==
  /\ \A d \in Devices :
       HoldsSession(d) =>
         /\ txn[d].id \in Sessions
         /\ session[txn[d].id].status = "active"
         /\ session[txn[d].id].actor = UserOf[d]
         /\ session[txn[d].id].revision < MaxRevision
  /\ \A d, e \in Devices :
       HoldsSession(d) /\ HoldsSession(e) /\ txn[d].id = txn[e].id => d = e

\* A completion in flight still has the revision its device showed.
FinalizeOK ==
  \A d \in Devices :
    txn[d].pc \in {"lock", "finalize"} =>
      /\ view[d] # NoView
      /\ view[d].id = txn[d].id
      /\ view[d].revision = session[txn[d].id].revision
      /\ session[txn[d].id].borrower # NoBorrower

\* A direct checkout in flight owns the pending row it inserted.
DirectOK ==
  /\ \A d \in Devices :
       /\ txn[d].pc = "add" => txn[d].item \in Items
       /\ txn[d].pc \in {"create", "created"} =>
            txn[d].item \in Items /\ txn[d].borrower \in Borrowers
       /\ txn[d].pc = "created" =>
            /\ txn[d].row \in Checkouts
            /\ checkout[txn[d].row].status = "pending"
       /\ txn[d].pc # "created" => txn[d].row = Nothing
  /\ \A d, e \in Devices :
       txn[d].pc = "created" /\ txn[e].pc = "created" /\ txn[d].row = txn[e].row => d = e

RequestOK == SessionLockOK /\ FinalizeOK /\ DirectOK

TypeInv == TypeOK /\ RequestOK

-----------------------------------------------------------------------------
LEMMA InitTypeInv == Init => TypeInv
BY ConstantsAssumption
DEF Init, TypeInv, TypeOK, RequestOK, SessionLockOK, FinalizeOK, DirectOK, HoldsSession,
    SessionRow, NoRow, CheckoutRow, FreeRow, View, Txn, Idle, MaybeBorrower

\* Which actions change each table.
LEMMA Writers ==
  ASSUME [Next]_vars
  PROVE  /\ archived' = archived \/ \E d \in Devices, i \in Items : DeleteItem(d, i)
         /\ \/ session' = session
            \/ \E d \in Devices :
                 \/ OpenInsert(d) \/ AddCommit(d) \/ FinalizeCommit(d) \/ AbandonSession(d)
                 \/ \E b \in MaybeBorrower : UpdateSession(d, b)
                 \/ \E i \in Items : RemoveItem(d, i)
         /\ \/ checkout' = checkout
            \/ \E d \in Devices :
                 \/ FinalizeCommit(d) \/ CreateInsert(d) \/ CreateCommit(d) \/ DeadlockAbort(d)
                 \/ \E c \in Checkouts : ReturnCheckout(d, c)
         /\ \/ view' = view
            \/ \E d \in Devices : \/ OpenInsert(d) \/ OpenReread(d) \/ OpenRead(d)
                                  \/ \E s \in Sessions : Fetch(d, s)
<1> DEFINE Goal(d) ==
      /\ archived' = archived \/ \E i \in Items : DeleteItem(d, i)
      /\ \/ session' = session
         \/ OpenInsert(d) \/ AddCommit(d) \/ FinalizeCommit(d) \/ AbandonSession(d)
         \/ \E b \in MaybeBorrower : UpdateSession(d, b)
         \/ \E i \in Items : RemoveItem(d, i)
      /\ \/ checkout' = checkout
         \/ FinalizeCommit(d) \/ CreateInsert(d) \/ CreateCommit(d) \/ DeadlockAbort(d)
         \/ \E c \in Checkouts : ReturnCheckout(d, c)
      /\ \/ view' = view
         \/ OpenInsert(d) \/ OpenReread(d) \/ OpenRead(d) \/ \E s \in Sessions : Fetch(d, s)
<1>1. ASSUME NEW d \in Devices, Progress(d) PROVE Goal(d)
  <2>1. CASE OpenInsert(d) \/ OpenReread(d) \/ AddCommit(d)
    BY <2>1 DEF OpenInsert, OpenReread, AddCommit
  <2>2. CASE FinalizeLockItem(d) \/ FinalizeValidate(d) \/ FinalizeCommit(d)
    BY <2>2 DEF FinalizeLockItem, FinalizeValidate, FinalizeCommit
  <2>3. CASE CreateInsert(d) \/ CreateCommit(d) \/ DeadlockAbort(d)
    BY <2>3 DEF CreateInsert, CreateCommit, DeadlockAbort
  <2>4. QED
    BY <1>1, <2>1, <2>2, <2>3 DEF Progress
<1>2. ASSUME NEW d \in Devices, Start(d) PROVE Goal(d)
  <2>1. CASE OpenRead(d) \/ AbandonSession(d) \/ FinalizeLock(d)
    BY <2>1 DEF OpenRead, AbandonSession, FinalizeLock
  <2>2. CASE \/ \E s \in Sessions : Fetch(d, s)
             \/ \E b \in MaybeBorrower : UpdateSession(d, b)
    BY <2>2 DEF Fetch, UpdateSession
  <2>3. CASE \E i \in Items : AddRead(d, i) \/ RemoveItem(d, i) \/ DeleteItem(d, i)
    BY <2>3 DEF AddRead, RemoveItem, DeleteItem
  <2>4. CASE \/ \E i \in Items, b \in Borrowers : CreateRead(d, i, b)
             \/ \E c \in Checkouts : ReturnCheckout(d, c)
    BY <2>4 DEF CreateRead, ReturnCheckout
  <2>5. QED
    BY <1>2, <2>1, <2>2, <2>3, <2>4 DEF Start
<1>3. CASE UNCHANGED vars
  BY <1>3 DEF vars
<1> HIDE DEF Goal
<1>4. ASSUME NEW d \in Devices, Goal(d)
      PROVE  /\ archived' = archived \/ \E e \in Devices, i \in Items : DeleteItem(e, i)
             /\ \/ session' = session
                \/ \E e \in Devices :
                     \/ OpenInsert(e) \/ AddCommit(e) \/ FinalizeCommit(e) \/ AbandonSession(e)
                     \/ \E b \in MaybeBorrower : UpdateSession(e, b)
                     \/ \E i \in Items : RemoveItem(e, i)
             /\ \/ checkout' = checkout
                \/ \E e \in Devices :
                     \/ FinalizeCommit(e) \/ CreateInsert(e) \/ CreateCommit(e) \/ DeadlockAbort(e)
                     \/ \E c \in Checkouts : ReturnCheckout(e, c)
             /\ \/ view' = view
                \/ \E e \in Devices : \/ OpenInsert(e) \/ OpenReread(e) \/ OpenRead(e)
                                      \/ \E s \in Sessions : Fetch(e, s)
  BY <1>4 DEF Goal
<1>5. QED
  BY <1>1, <1>2, <1>3, <1>4 DEF Next

\* A request that moves on to another stage, and one that has ended.
LEMMA NextStage ==
  ASSUME NEW t \in Txn, NEW pc \in {"idle", "open", "reopen", "create", "created", "add", "lock",
                                    "finalize"}
  PROVE  /\ [t EXCEPT !.pc = pc] \in Txn
         /\ [t EXCEPT !.pc = pc].pc = pc /\ [t EXCEPT !.pc = pc].row = t.row
BY DEF Txn

LEMMA IdleIs == Idle \in Txn /\ Idle.pc = "idle" /\ Idle.row = Nothing
BY DEF Idle, Txn, MaybeBorrower

\* A step that leaves the tables alone and after which its device holds no lock.
LEMMA EndsWithoutLocks ==
  ASSUME TypeInv, NEW d \in Devices,
         UNCHANGED <<archived, session, checkout>>,
         view' \in [Devices -> View \cup {NoView}],
         \A e \in Devices \ {d} : view'[e] = view[e],
         txn' \in [Devices -> Txn],
         \A e \in Devices \ {d} : txn'[e] = txn[e],
         txn'[d].pc \in {"idle", "open", "reopen"},
         txn'[d].row = Nothing
  PROVE  TypeInv'
<1>1. TypeOK'
  BY DEF TypeInv, TypeOK
<1>2. SessionLockOK' /\ FinalizeOK'
  BY DEF TypeInv, RequestOK, SessionLockOK, FinalizeOK, HoldsSession
<1>3. DirectOK'
  BY DEF TypeInv, RequestOK, DirectOK
<1>4. QED
  BY <1>1, <1>2, <1>3 DEF TypeInv, RequestOK

\* A request writes the row of an open session that nobody has locked.
LEMMA EditTyped ==
  ASSUME TypeInv, NEW s \in Sessions, SessionFree(s), NEW x \in SessionRow,
         session' = [session EXCEPT ![s] = x],
         UNCHANGED <<archived, checkout, view, txn>>
  PROVE  TypeInv'
<1>1. \A t \in Sessions \ {s} : session'[t] = session[t]
  BY DEF TypeInv, TypeOK
<1>2. TypeOK'
  BY DEF TypeInv, TypeOK
<1>3. \A d \in Devices : HoldsSession(d) => txn[d].id # s
  BY DEF SessionFree, HoldsSession
<1>4. SessionLockOK'
  BY <1>1, <1>3 DEF TypeInv, RequestOK, SessionLockOK, HoldsSession
<1>5. FinalizeOK'
  <2> SUFFICES ASSUME NEW d \in Devices, txn[d].pc \in {"lock", "finalize"}
               PROVE  session'[txn[d].id] = session[txn[d].id]
    BY DEF TypeInv, RequestOK, FinalizeOK
  <2>1. HoldsSession(d)
    BY DEF HoldsSession
  <2>2. txn[d].id \in Sessions \ {s}
    BY <1>3, <2>1 DEF TypeInv, RequestOK, SessionLockOK
  <2>3. QED
    BY <1>1, <2>2
<1>6. DirectOK'
  BY DEF TypeInv, RequestOK, DirectOK
<1>7. QED
  BY <1>2, <1>4, <1>5, <1>6 DEF TypeInv, RequestOK

\* What a request that may edit the session of its view knows of it.
LEMMA EditableIs ==
  ASSUME TypeInv, NEW d \in Devices, Request(d), Editable(d, view[d].id), Bounded(view[d].id)
  PROVE  /\ view[d].id \in Sessions
         /\ session[view[d].id] \in SessionRow
         /\ Bump(view[d].id) \in 1..MaxRevision
         /\ SessionFree(view[d].id)
<1>1. view[d] \in View
  BY DEF TypeInv, TypeOK, Request
<1>2. view[d].id \in Sessions
  BY <1>1 DEF View
<1>3. session[view[d].id] \in SessionRow
  BY <1>2 DEF TypeInv, TypeOK, Editable, NoRow
<1>4. Bump(view[d].id) \in 1..MaxRevision
  BY <1>3, ConstantsAssumption DEF SessionRow, Bounded, Bump
<1>5. QED
  BY <1>2, <1>3, <1>4 DEF Editable

LEMMA NextTypeInv == TypeInv /\ [Next]_vars => TypeInv'
<1> SUFFICES ASSUME TypeInv, [Next]_vars PROVE TypeInv'
  OBVIOUS
<1> USE ConstantsAssumption, NoViewAssumption DEF TypeInv, RequestOK
<1>1. ASSUME NEW d \in Devices, OpenInsert(d) PROVE TypeInv'
  <2>1. CASE ~ MayOpen(UserOf[d])
    <3>1. /\ txn' = [txn EXCEPT ![d].pc = "reopen"]
          /\ UNCHANGED <<archived, session, checkout, view>>
          /\ txn[d].pc = "open"
      BY <1>1, <2>1 DEF OpenInsert
    <3>2. txn[d].row = Nothing
      BY <3>1 DEF DirectOK
    <3> DEFINE t == [txn[d] EXCEPT !.pc = "reopen"]
    <3>a. txn[d] \in Txn
      BY DEF TypeOK
    <3>b. t \in Txn /\ t.pc = "reopen" /\ t.row = Nothing
      BY <3>2, <3>a, NextStage
    <3>c. txn' = [txn EXCEPT ![d] = t]
      BY <3>1
    <3> HIDE DEF t
    <3>3. /\ txn' \in [Devices -> Txn] /\ \A e \in Devices \ {d} : txn'[e] = txn[e]
          /\ txn'[d].pc = "reopen" /\ txn'[d].row = Nothing
      BY <3>b, <3>c DEF TypeOK
    <3>4. view' \in [Devices -> View \cup {NoView}]
      BY <3>1 DEF TypeOK
    <3>5. QED
      BY <3>1, <3>3, <3>4, EndsWithoutLocks
  <2>2. CASE MayOpen(UserOf[d])
    <3>1. PICK s \in Unborn :
            /\ session' = [session EXCEPT ![s] =
                 [actor |-> UserOf[d], status |-> "active",
                  borrower |-> InitialBorrower(UserOf[d]), revision |-> 1, items |-> {}]]
            /\ view' = [view EXCEPT ![d] =
                 [id |-> s, revision |-> 1, borrower |-> InitialBorrower(UserOf[d]), items |-> {}]]
            /\ txn' = [txn EXCEPT ![d] = Idle]
            /\ UNCHANGED <<archived, checkout>>
      BY <1>1, <2>2 DEF OpenInsert, Finish
    <3>2. InitialBorrower(UserOf[d]) \in MaybeBorrower
      BY DEF InitialBorrower, MaybeBorrower
    <3>3. s \in Sessions /\ session[s].status = "absent"
      BY DEF Unborn, NoRow
    <3>4. \A e \in Devices : HoldsSession(e) => txn[e].id # s
      BY <3>3 DEF SessionLockOK
    <3>5. TypeOK'
      BY <3>1, <3>2, <3>3 DEF TypeOK, SessionRow, View, Txn, Idle, MaybeBorrower
    <3>6. SessionLockOK'
      BY <3>1, <3>3, <3>4 DEF TypeOK, SessionLockOK, HoldsSession, Idle
    <3>7. FinalizeOK'
      BY <3>1, <3>3, <3>4 DEF TypeOK, FinalizeOK, HoldsSession, Idle
    <3>8. DirectOK'
      BY <3>1 DEF TypeOK, DirectOK, Idle
    <3>9. QED
      BY <3>5, <3>6, <3>7, <3>8
  <2>3. QED
    BY <2>1, <2>2
<1>2. ASSUME NEW d \in Devices, OpenReread(d) PROVE TypeInv'
  BY <1>2 DEF OpenReread, ActiveOf, Snapshot, Finish,
     TypeOK, SessionLockOK, FinalizeOK, DirectOK, HoldsSession,
     SessionRow, NoRow, CheckoutRow, FreeRow, View, Txn, Idle, MaybeBorrower
<1>3. ASSUME NEW d \in Devices, AddCommit(d) PROVE TypeInv'
  <2> DEFINE s == txn[d].id
  <2> DEFINE x == [session[s] EXCEPT !.items = @ \cup {txn[d].item}, !.revision = Bump(s)]
  <2>1. /\ txn[d].pc = "add" /\ txn' = [txn EXCEPT ![d] = Idle]
        /\ UNCHANGED <<archived, checkout, view>>
        /\ session' = [session EXCEPT ![s] = x] \/ UNCHANGED session
    BY <1>3 DEF AddCommit, Finish
  <2>2. /\ s \in Sessions /\ session[s] \in SessionRow
        /\ session[s].revision < MaxRevision /\ txn[d].item \in Items
    BY <2>1 DEF SessionLockOK, DirectOK, HoldsSession, TypeOK, NoRow
  <2>a. Bump(s) \in 1..MaxRevision
    BY <2>2 DEF SessionRow, Bump
  <2>b. session[s].items \cup {txn[d].item} \in SUBSET Items
    BY <2>2 DEF SessionRow
  <2>3. x \in SessionRow
    BY <2>2, <2>a, <2>b DEF SessionRow
  <2>4. /\ session' \in [Sessions -> SessionRow \cup {NoRow}]
        /\ \A t \in Sessions \ {s} : session'[t] = session[t]
    BY <2>1, <2>3 DEF TypeOK
  <2>5. /\ txn' \in [Devices -> Txn] /\ txn'[d] = Idle
        /\ \A e \in Devices \ {d} : txn'[e] = txn[e]
    BY <2>1, IdleIs DEF TypeOK
  <2>6. TypeOK'
    BY <2>1, <2>4, <2>5 DEF TypeOK
  <2>7. \A e \in Devices \ {d} : HoldsSession(e) => txn[e].id \in Sessions \ {s}
    BY <2>1 DEF SessionLockOK, HoldsSession
  <2>8. SessionLockOK'
    BY <2>4, <2>5, <2>7, IdleIs DEF SessionLockOK, HoldsSession
  <2>9. FinalizeOK'
    BY <2>1, <2>4, <2>5, <2>7, IdleIs DEF FinalizeOK, HoldsSession
  <2>10. DirectOK'
    BY <2>1, <2>5, IdleIs DEF DirectOK
  <2>11. QED
    BY <2>6, <2>8, <2>9, <2>10
<1>4. ASSUME NEW d \in Devices, FinalizeLockItem(d) PROVE TypeInv'
  BY <1>4 DEF FinalizeLockItem, NextToLock, ToLock,
     TypeOK, SessionLockOK, FinalizeOK, DirectOK, HoldsSession,
     SessionRow, NoRow, CheckoutRow, FreeRow, View, Txn, Idle, MaybeBorrower
<1>5. ASSUME NEW d \in Devices, FinalizeValidate(d) PROVE TypeInv'
  <2>1. UNCHANGED <<archived, session, checkout, view>> /\ txn[d].pc = "lock"
    BY <1>5 DEF FinalizeValidate
  <2>2. CASE txn' = [txn EXCEPT ![d].pc = "finalize"]
    <3>1. TypeOK'
      BY <2>1, <2>2, NextStage DEF TypeOK
    <3>2. SessionLockOK' /\ FinalizeOK'
      BY <2>1, <2>2 DEF TypeOK, Txn, SessionLockOK, FinalizeOK, HoldsSession
    <3>3. DirectOK'
      BY <2>1, <2>2 DEF TypeOK, Txn, DirectOK
    <3>4. QED
      BY <3>1, <3>2, <3>3
  <2>3. CASE Finish(d)
    BY <2>1, <2>3, EndsWithoutLocks DEF Finish, TypeOK, Txn, Idle, MaybeBorrower
  <2>4. QED
    BY <1>5, <2>2, <2>3 DEF FinalizeValidate
<1>6. ASSUME NEW d \in Devices, FinalizeCommit(d) PROVE TypeInv'
  <2> DEFINE s == txn[d].id
  <2>1. /\ UNCHANGED <<archived, view>>
        /\ txn' = [txn EXCEPT ![d] = Idle]
        /\ txn[d].pc = "finalize"
    BY <1>6 DEF FinalizeCommit, Finish
  <2>2. /\ s \in Sessions
        /\ session[s].status = "active"
        /\ session[s].revision < MaxRevision
        /\ session[s].borrower \in Borrowers
        /\ session[s].actor = UserOf[d]
        /\ session[s].items \subseteq Items
    BY <2>1 DEF SessionLockOK, FinalizeOK, HoldsSession, TypeOK, SessionRow, NoRow, MaybeBorrower
  <2>3. CASE UNCHANGED <<checkout, session>>
    BY <2>1, <2>3, EndsWithoutLocks DEF TypeOK, Txn, Idle, MaybeBorrower
  <2>4. ASSUME NEW rowOf \in [ToLend(s) -> Free],
               checkout' = [c \in Checkouts |->
                 IF \E i \in ToLend(s) : rowOf[i] = c
                 THEN [status |-> "active", item |-> CHOOSE i \in ToLend(s) : rowOf[i] = c,
                       borrower |-> session[s].borrower, by |-> UserOf[d]]
                 ELSE checkout[c]],
               session' = [session EXCEPT ![s].status = "completed", ![s].revision = Bump(s)]
        PROVE TypeInv'
    <3>1. checkout' \in [Checkouts -> CheckoutRow \cup {FreeRow}]
      <4> SUFFICES ASSUME NEW c \in Checkouts PROVE checkout'[c] \in CheckoutRow \cup {FreeRow}
        BY <2>4
      <4>1. CASE \E i \in ToLend(s) : rowOf[i] = c
        <5>1. (CHOOSE i \in ToLend(s) : rowOf[i] = c) \in Items
          BY <4>1, <2>2 DEF ToLend
        <5>2. QED
          BY <4>1, <5>1, <2>2, <2>4 DEF CheckoutRow
      <4>2. CASE ~ \E i \in ToLend(s) : rowOf[i] = c
        BY <4>2, <2>4 DEF TypeOK
      <4>3. QED
        BY <4>1, <4>2
    <3>2. \A c \in Checkouts : checkout[c] # FreeRow => checkout'[c] = checkout[c]
      BY <2>4 DEF Free
    <3>3. session' \in [Sessions -> SessionRow \cup {NoRow}]
      BY <2>2, <2>4 DEF TypeOK, SessionRow, NoRow, Bump
    <3>4. TypeOK'
      BY <2>1, <3>1, <3>3 DEF TypeOK, Txn, Idle, MaybeBorrower
    <3>5. \A e \in Devices \ {d} : HoldsSession(e) => txn[e].id # s
      BY <2>1 DEF SessionLockOK, HoldsSession
    <3>6. SessionLockOK'
      BY <2>1, <2>2, <2>4, <3>5 DEF TypeOK, SessionLockOK, HoldsSession, Idle
    <3>7. FinalizeOK'
      <4>1. \A e \in Devices \ {d} :
              txn[e].pc \in {"lock", "finalize"} => txn[e].id \in Sessions \ {s}
        BY <3>5 DEF SessionLockOK, HoldsSession
      <4>2. \A t \in Sessions \ {s} : session'[t] = session[t]
        BY <2>4 DEF TypeOK
      <4>3. txn'[d] = Idle /\ \A e \in Devices \ {d} : txn'[e] = txn[e]
        BY <2>1 DEF TypeOK
      <4>4. QED
        BY <2>1, <4>1, <4>2, <4>3, IdleIs DEF FinalizeOK
    <3>8. DirectOK'
      BY <2>1, <3>2 DEF TypeOK, DirectOK, Idle, FreeRow
    <3>9. QED
      BY <3>4, <3>6, <3>7, <3>8
  <2>5. QED
    BY <1>6, <2>3, <2>4 DEF FinalizeCommit, RowsFor
<1>7. ASSUME NEW d \in Devices, CreateInsert(d) PROVE TypeInv'
  <2>1. /\ UNCHANGED <<archived, session, view>>
        /\ txn[d].pc = "create"
        /\ txn[d].item \in Items
        /\ txn[d].borrower \in Borrowers
    BY <1>7 DEF CreateInsert, DirectOK
  <2>2. CASE Finish(d) /\ UNCHANGED checkout
    BY <2>1, <2>2, EndsWithoutLocks DEF Finish, TypeOK, Txn, Idle, MaybeBorrower
  <2>3. ASSUME NEW c \in Free,
               checkout' = [checkout EXCEPT ![c] =
                 [status |-> "pending", item |-> txn[d].item, borrower |-> txn[d].borrower,
                  by |-> UserOf[d]]],
               txn' = [txn EXCEPT ![d].pc = "created", ![d].row = c]
        PROVE TypeInv'
    <3>1. c \in Checkouts /\ checkout[c] = FreeRow
      BY DEF Free
    <3>2. TypeOK'
      <4>1. checkout' \in [Checkouts -> CheckoutRow \cup {FreeRow}]
        BY <2>1, <2>3, <3>1 DEF TypeOK, CheckoutRow
      <4>2. txn' \in [Devices -> Txn]
        <5>1. [txn[d] EXCEPT !.pc = "created", !.row = c] \in Txn
          <6>1. txn[d] \in Txn /\ c \in Checkouts
            BY <3>1 DEF TypeOK
          <6>2. ASSUME NEW x \in Txn PROVE [x EXCEPT !.pc = "created"] \in Txn
            BY DEF Txn
          <6>3. ASSUME NEW x \in Txn PROVE [x EXCEPT !.row = c] \in Txn
            BY <6>1 DEF Txn
          <6>4. [txn[d] EXCEPT !.pc = "created", !.row = c]
                  = [[txn[d] EXCEPT !.pc = "created"] EXCEPT !.row = c]
            BY <6>1 DEF Txn
          <6>5. QED
            BY <6>1, <6>2, <6>3, <6>4
        <5>2. txn' = [txn EXCEPT ![d] = [txn[d] EXCEPT !.pc = "created", !.row = c]]
          BY <2>3 DEF TypeOK
        <5>3. QED
          BY <5>1, <5>2 DEF TypeOK
      <4>3. QED
        BY <2>1, <4>1, <4>2 DEF TypeOK
    <3>3. SessionLockOK' /\ FinalizeOK'
      BY <2>1, <2>3 DEF TypeOK, Txn, SessionLockOK, FinalizeOK, HoldsSession
    <3>4. DirectOK'
      BY <2>1, <2>3, <3>1 DEF TypeOK, Txn, DirectOK, FreeRow
    <3>5. QED
      BY <3>2, <3>3, <3>4
  <2>4. QED
    BY <1>7, <2>2, <2>3 DEF CreateInsert
<1>8. ASSUME NEW d \in Devices, CreateCommit(d) PROVE TypeInv'
  <2> DEFINE c == txn[d].row
  <2>1. /\ UNCHANGED <<archived, session, view>>
        /\ checkout' = [checkout EXCEPT ![c].status = "active"]
        /\ txn' = [txn EXCEPT ![d] = Idle]
        /\ txn[d].pc = "created"
    BY <1>8 DEF CreateCommit, Finish
  <2>2. c \in Checkouts /\ checkout[c].status = "pending"
    BY <2>1 DEF DirectOK
  <2>3. checkout[c] \in CheckoutRow
    BY <2>2 DEF TypeOK, FreeRow
  <2>4. [checkout[c] EXCEPT !.status = "active"] \in CheckoutRow
    BY <2>3 DEF CheckoutRow
  <2>5. checkout' \in [Checkouts -> CheckoutRow \cup {FreeRow}]
    BY <2>1, <2>2, <2>4 DEF TypeOK
  <2>6. /\ txn' \in [Devices -> Txn] /\ txn'[d] = Idle
        /\ \A e \in Devices \ {d} : txn'[e] = txn[e]
    BY <2>1, IdleIs DEF TypeOK
  <2>7. \A x \in Checkouts \ {c} : checkout'[x] = checkout[x]
    BY <2>1 DEF TypeOK
  <2>8. TypeOK'
    BY <2>1, <2>5, <2>6 DEF TypeOK
  <2>9. SessionLockOK' /\ FinalizeOK'
    BY <2>1, <2>6, IdleIs DEF SessionLockOK, FinalizeOK, HoldsSession
  <2>10. DirectOK'
    <3>1. \A e \in Devices \ {d} : txn[e].pc = "created" => txn[e].row # c
      BY <2>1 DEF DirectOK
    <3>2. QED
      BY <2>6, <2>7, <3>1, IdleIs DEF DirectOK
  <2>11. QED
    BY <2>8, <2>9, <2>10
<1>9. ASSUME NEW d \in Devices, DeadlockAbort(d) PROVE TypeInv'
  BY <1>9 DEF DeadlockAbort, Finish,
     TypeOK, SessionLockOK, FinalizeOK, DirectOK, HoldsSession,
     SessionRow, NoRow, CheckoutRow, FreeRow, View, Txn, Idle, MaybeBorrower
<1>10. ASSUME NEW d \in Devices, OpenRead(d) PROVE TypeInv'
  <2>1. UNCHANGED <<archived, session, checkout>> /\ txn[d].pc = "idle"
    BY <1>10 DEF OpenRead
  <2>2. ASSUME NEW s \in ActiveOf(UserOf[d]), view' = [view EXCEPT ![d] = Snapshot(s)],
               UNCHANGED txn
        PROVE TypeInv'
    <3>1. Snapshot(s) \in View
      BY DEF ActiveOf, Snapshot, View, TypeOK, SessionRow, NoRow
    <3>2. QED
      BY <2>1, <2>2, <3>1, EndsWithoutLocks DEF TypeOK, Txn, DirectOK
  <2>3. CASE txn' = [txn EXCEPT ![d] = [Idle EXCEPT !.pc = "open"]] /\ UNCHANGED view
    <3> DEFINE t == [Idle EXCEPT !.pc = "open"]
    <3>a. t \in Txn /\ t.pc = "open" /\ t.row = Nothing
      BY IdleIs, NextStage
    <3> HIDE DEF t
    <3>1. /\ txn' \in [Devices -> Txn] /\ \A e \in Devices \ {d} : txn'[e] = txn[e]
          /\ txn'[d].pc = "open" /\ txn'[d].row = Nothing
      BY <2>3, <3>a DEF TypeOK, t
    <3>2. view' \in [Devices -> View \cup {NoView}]
      BY <2>3 DEF TypeOK
    <3>3. QED
      BY <2>1, <2>3, <3>1, <3>2, EndsWithoutLocks
  <2>4. QED
    BY <1>10, <2>2, <2>3 DEF OpenRead
<1>11. ASSUME NEW d \in Devices, AbandonSession(d) PROVE TypeInv'
  <2> DEFINE s == view[d].id
  <2> DEFINE x == [session[s] EXCEPT !.status = "abandoned", !.revision = Bump(s)]
  <2>1. s \in Sessions /\ session[s] \in SessionRow /\ Bump(s) \in 1..MaxRevision /\ SessionFree(s)
    BY <1>11, EditableIs DEF AbandonSession
  <2>2. x \in SessionRow
    BY <2>1 DEF SessionRow
  <2>3. session' = [session EXCEPT ![s] = x] /\ UNCHANGED <<archived, checkout, view, txn>>
    BY <1>11 DEF AbandonSession
  <2>4. QED
    BY <2>1, <2>2, <2>3, EditTyped
<1>12. ASSUME NEW d \in Devices, FinalizeLock(d) PROVE TypeInv'
  <2> DEFINE s == view[d].id
  <2>1. /\ UNCHANGED <<archived, session, checkout, view>>
        /\ txn' = [txn EXCEPT ![d] = [Idle EXCEPT !.pc = "lock", !.id = s]]
        /\ txn[d].pc = "idle"
        /\ view[d] # NoView
        /\ session[s].status = "active" /\ session[s].actor = UserOf[d]
        /\ session[s].revision < MaxRevision
        /\ session[s].revision = view[d].revision
        /\ session[s].borrower # NoBorrower
        /\ SessionFree(s)
    BY <1>12 DEF FinalizeLock, Request, Editable, Bounded, Fresh
  <2>2. s \in Sessions
    BY <2>1 DEF TypeOK, View
  <2>3. TypeOK'
    BY <2>1, <2>2 DEF TypeOK, Txn, Idle, MaybeBorrower
  <2>4. SessionLockOK' /\ FinalizeOK'
    BY <2>1, <2>2 DEF TypeOK, SessionLockOK, FinalizeOK, HoldsSession, SessionFree, Idle
  <2>5. DirectOK'
    BY <2>1 DEF TypeOK, DirectOK, Idle
  <2>6. QED
    BY <2>3, <2>4, <2>5
<1>13. ASSUME NEW d \in Devices, NEW s \in Sessions, Fetch(d, s) PROVE TypeInv'
  <2>1. session[s].items \subseteq Items
    BY DEF TypeOK, SessionRow, NoRow
  <2>2. view' \in [Devices -> View \cup {NoView}]
    <3>1. CASE session[s].status = "active" /\ view' = [view EXCEPT ![d] = Snapshot(s)]
      <4>1. Snapshot(s) \in View
        BY <3>1 DEF Snapshot, View, TypeOK, SessionRow, NoRow
      <4>2. QED
        BY <3>1, <4>1 DEF TypeOK
    <3>2. CASE view[d] # NoView /\ view' = [view EXCEPT ![d].items = session[s].items]
      <4>1. [view[d] EXCEPT !.items = session[s].items] \in View
        BY <2>1, <3>2 DEF View, TypeOK
      <4>2. view' = [view EXCEPT ![d] = [view[d] EXCEPT !.items = session[s].items]]
        BY <3>2
      <4>3. QED
        BY <4>1, <4>2 DEF TypeOK
    <3>3. QED
      BY <1>13, <3>1, <3>2 DEF Fetch
  <2>3. UNCHANGED <<archived, session, checkout, txn>> /\ txn[d].pc = "idle"
    BY <1>13 DEF Fetch
  <2>4. TypeOK'
    BY <2>2, <2>3 DEF TypeOK
  <2>5. QED
    BY <1>13, <2>3, <2>4 DEF Fetch, SessionLockOK, FinalizeOK, DirectOK, HoldsSession,
       Txn, Idle, View, TypeOK
<1>14. ASSUME NEW d \in Devices, NEW b \in MaybeBorrower, UpdateSession(d, b) PROVE TypeInv'
  <2> DEFINE s == view[d].id
  <2> DEFINE x == [session[s] EXCEPT !.borrower = b, !.revision = Bump(s)]
  <2>1. s \in Sessions /\ session[s] \in SessionRow /\ Bump(s) \in 1..MaxRevision /\ SessionFree(s)
    BY <1>14, EditableIs DEF UpdateSession
  <2>2. x \in SessionRow
    BY <2>1 DEF SessionRow
  <2>3. session' = [session EXCEPT ![s] = x] /\ UNCHANGED <<archived, checkout, view, txn>>
    BY <1>14 DEF UpdateSession
  <2>4. QED
    BY <2>1, <2>2, <2>3, EditTyped
<1>15. ASSUME NEW d \in Devices, NEW i \in Items, AddRead(d, i) PROVE TypeInv'
  <2> DEFINE s == view[d].id
  <2>1. /\ UNCHANGED <<archived, session, checkout, view>>
        /\ txn' = [txn EXCEPT ![d] = [Idle EXCEPT !.pc = "add", !.id = s, !.item = i]]
        /\ txn[d].pc = "idle"
        /\ view[d] # NoView
        /\ session[s].status = "active" /\ session[s].actor = UserOf[d]
        /\ session[s].revision < MaxRevision
        /\ SessionFree(s)
    BY <1>15 DEF AddRead, Request, Editable, Bounded
  <2>2. s \in Sessions
    BY <2>1 DEF TypeOK, View
  <2>3. TypeOK'
    BY <2>1, <2>2 DEF TypeOK, Txn, Idle, MaybeBorrower
  <2>4. SessionLockOK' /\ FinalizeOK'
    BY <2>1, <2>2 DEF TypeOK, SessionLockOK, FinalizeOK, HoldsSession, SessionFree, Idle
  <2>5. DirectOK'
    BY <2>1 DEF TypeOK, DirectOK, Idle
  <2>6. QED
    BY <2>3, <2>4, <2>5
<1>16. ASSUME NEW d \in Devices, NEW i \in Items, RemoveItem(d, i) PROVE TypeInv'
  <2> DEFINE s == view[d].id
  <2> DEFINE x == [session[s] EXCEPT !.items = @ \ {i}, !.revision = Bump(s)]
  <2>1. s \in Sessions /\ session[s] \in SessionRow /\ Bump(s) \in 1..MaxRevision /\ SessionFree(s)
    BY <1>16, EditableIs DEF RemoveItem
  <2>2. x \in SessionRow
    BY <2>1 DEF SessionRow
  <2>3. session' = [session EXCEPT ![s] = x] /\ UNCHANGED <<archived, checkout, view, txn>>
    BY <1>16 DEF RemoveItem
  <2>4. QED
    BY <2>1, <2>2, <2>3, EditTyped
<1>17. ASSUME NEW d \in Devices, NEW i \in Items, DeleteItem(d, i) PROVE TypeInv'
  BY <1>17 DEF DeleteItem,
     TypeOK, SessionLockOK, FinalizeOK, DirectOK, HoldsSession,
     SessionRow, NoRow, CheckoutRow, FreeRow, View, Txn, Idle, MaybeBorrower
<1>18. ASSUME NEW d \in Devices, NEW i \in Items, NEW b \in Borrowers, CreateRead(d, i, b) PROVE TypeInv'
  <2>1. TypeOK'
    BY <1>18 DEF CreateRead,
       TypeOK, SessionLockOK, FinalizeOK, DirectOK, HoldsSession,
       SessionRow, NoRow, CheckoutRow, FreeRow, View, Txn, Idle, MaybeBorrower
  <2>2. SessionLockOK'
    BY <1>18 DEF CreateRead,
       TypeOK, SessionLockOK, FinalizeOK, HoldsSession,
       SessionRow, NoRow, CheckoutRow, FreeRow, View, Txn, Idle, MaybeBorrower
  <2>3. FinalizeOK'
    BY <1>18 DEF CreateRead,
       TypeOK, SessionLockOK, FinalizeOK, HoldsSession,
       SessionRow, NoRow, CheckoutRow, FreeRow, View, Txn, Idle, MaybeBorrower
  <2>4. DirectOK'
    BY <1>18 DEF CreateRead, TypeOK, DirectOK,
       SessionRow, NoRow, CheckoutRow, FreeRow, View, Txn, Idle, MaybeBorrower
  <2>5. QED
    BY <2>1, <2>2, <2>3, <2>4
<1>19. ASSUME NEW d \in Devices, NEW c \in Checkouts, ReturnCheckout(d, c) PROVE TypeInv'
  BY <1>19 DEF ReturnCheckout,
     TypeOK, SessionLockOK, FinalizeOK, DirectOK, HoldsSession,
     SessionRow, NoRow, CheckoutRow, FreeRow, View, Txn, Idle, MaybeBorrower
<1>20. CASE UNCHANGED vars
  BY <1>20 DEF vars, TypeOK, SessionLockOK, FinalizeOK, DirectOK, HoldsSession
<1>21. QED
  BY <1>1, <1>2, <1>3, <1>4, <1>5, <1>6, <1>7, <1>8, <1>9, <1>10, <1>11, <1>12, <1>13, <1>14,
     <1>15, <1>16, <1>17, <1>18, <1>19, <1>20 DEF Next, Progress, Start

\* Every state of a behaviour is well typed.
THEOREM TypeCorrect == Spec => []TypeOK
<1>1. Spec => []TypeInv
  BY InitTypeInv, NextTypeInv, PTL DEF Spec
<1>2. TypeInv => TypeOK
  BY DEF TypeInv
<1>3. QED
  BY <1>1, <1>2, PTL

LEMMA RequestsInOrder == Spec => []TypeInv
BY InitTypeInv, NextTypeInv, PTL DEF Spec

-----------------------------------------------------------------------------
(* The revision counter. *)

\* Every change of a session's row raises its revision, and only a new or an
\* active session changes.
LEMMA SessionSteps ==
  ASSUME TypeInv, [Next]_vars, NEW t \in Sessions
  PROVE  \/ session'[t] = session[t]
         \/ /\ session[t].status \in {"absent", "active"}
            /\ session[t].revision < session'[t].revision
<1> DEFINE Goal == \/ session'[t] = session[t]
                   \/ /\ session[t].status \in {"absent", "active"}
                      /\ session[t].revision < session'[t].revision
<1> USE DEF TypeInv, TypeOK, SessionRow, NoRow
<1>1. ASSUME NEW d \in Devices, OpenInsert(d) PROVE Goal
  BY <1>1 DEF OpenInsert, Unborn
<1>2. ASSUME NEW d \in Devices, AddCommit(d) PROVE Goal
  BY <1>2 DEF AddCommit, Bump, RequestOK, SessionLockOK, HoldsSession
<1>3. ASSUME NEW d \in Devices, FinalizeCommit(d) PROVE Goal
  <2>1. /\ txn[d].id \in Sessions
        /\ session[txn[d].id].status = "active"
    BY <1>3 DEF FinalizeCommit, RequestOK, SessionLockOK, HoldsSession
  <2>2. \/ UNCHANGED session
        \/ session' = [session EXCEPT ![txn[d].id].status = "completed",
                                       ![txn[d].id].revision = Bump(txn[d].id)]
    BY <1>3 DEF FinalizeCommit
  <2>3. QED
    BY <2>1, <2>2 DEF Bump
<1>4. ASSUME NEW d \in Devices, AbandonSession(d) PROVE Goal
  BY <1>4 DEF AbandonSession, Editable, Request, Bump, View
<1>5. ASSUME NEW d \in Devices, NEW b \in MaybeBorrower, UpdateSession(d, b) PROVE Goal
  BY <1>5 DEF UpdateSession, Editable, Request, Bump, View
<1>6. ASSUME NEW d \in Devices, NEW i \in Items, RemoveItem(d, i) PROVE Goal
  BY <1>6 DEF RemoveItem, Editable, Request, Bump, View
<1>7. QED
  BY <1>1, <1>2, <1>3, <1>4, <1>5, <1>6, Writers

Current(x) == view[x].id \in Sessions /\ view[x] = Snapshot(view[x].id)

\* The items arrive behind the row they were read for.
ItemsArrive(x) ==
  /\ view[x] # NoView
  /\ view'[x] = [view[x] EXCEPT !.items = session[view[x].id].items]
  /\ session' = session

\* A step that changes a device's view sets it, or its items, to what the database then
\* holds.
LEMMA ViewsAreReads ==
  ASSUME TypeInv, [Next]_vars, NEW x \in Devices
  PROVE  \/ view'[x] = view[x]
         \/ Current(x)'
         \/ ItemsArrive(x)
<1> DEFINE Goal == \/ view'[x] = view[x]
                   \/ Current(x)'
                   \/ ItemsArrive(x)
<1> USE DEF TypeInv, TypeOK, Current
<1>1. ASSUME NEW d \in Devices, OpenInsert(d) PROVE Goal
  <2>1. CASE MayOpen(UserOf[d])
    <3>1. PICK s \in Unborn :
            /\ session' = [session EXCEPT ![s] =
                 [actor |-> UserOf[d], status |-> "active",
                  borrower |-> InitialBorrower(UserOf[d]), revision |-> 1, items |-> {}]]
            /\ view' = [view EXCEPT ![d] =
                 [id |-> s, revision |-> 1, borrower |-> InitialBorrower(UserOf[d]), items |-> {}]]
      BY <1>1, <2>1 DEF OpenInsert
    <3>2. s \in Sessions
      BY DEF Unborn
    <3>3. CASE x = d
      BY <3>1, <3>2, <3>3 DEF Snapshot
    <3>4. CASE x # d
      BY <3>1, <3>4
    <3>5. QED
      BY <3>3, <3>4
  <2>2. CASE ~ MayOpen(UserOf[d])
    BY <1>1, <2>2 DEF OpenInsert
  <2>3. QED
    BY <2>1, <2>2
<1>2. ASSUME NEW d \in Devices, OpenReread(d) PROVE Goal
  BY <1>2 DEF OpenReread, ActiveOf, Snapshot
<1>3. ASSUME NEW d \in Devices, OpenRead(d) PROVE Goal
  BY <1>3 DEF OpenRead, ActiveOf, Snapshot
<1>4. ASSUME NEW d \in Devices, NEW s \in Sessions, Fetch(d, s) PROVE Goal
  <2>1. CASE view' = [view EXCEPT ![d] = Snapshot(s)]
    BY <1>4, <2>1 DEF Fetch, Snapshot
  <2>2. CASE view[d] # NoView /\ view' = [view EXCEPT ![d].items = session[view[d].id].items]
    BY <1>4, <2>2 DEF Fetch, ItemsArrive
  <2>3. QED
    BY <1>4, <2>1, <2>2 DEF Fetch
<1>5. QED
  BY <1>1, <1>2, <1>3, <1>4, Writers

\* The optimistic concurrency control is sound: a device that has the current
\* revision has the current content, whatever happened since it read it.
THEOREM RevisionSound == Spec => []RevisionIdentifiesContent
<1>1. Init => RevisionIdentifiesContent
  BY DEF Init, RevisionIdentifiesContent
<1>2. TypeInv /\ RevisionIdentifiesContent /\ [Next]_vars => RevisionIdentifiesContent'
  <2> SUFFICES ASSUME TypeInv, RevisionIdentifiesContent, [Next]_vars,
                      NEW x \in Devices, view'[x] # NoView
               PROVE  (/\ view[x].revision <= session[view[x].id].revision
                       /\ view[x].revision = session[view[x].id].revision
                            => view[x] = Snapshot(view[x].id))'
    BY DEF RevisionIdentifiesContent
  <2>0. TypeInv'
    BY NextTypeInv
  <2>1. CASE view'[x] = view[x]
    <3> DEFINE t == view[x].id
    <3>1. t \in Sessions /\ view[x].revision \in Nat
      BY <2>1 DEF TypeInv, TypeOK, View
    <3>2. session[t].revision \in Nat /\ session'[t].revision \in Nat
      BY <3>1, <2>0 DEF TypeInv, TypeOK, SessionRow, NoRow
    <3>3. \/ session'[t] = session[t]
          \/ session[t].revision < session'[t].revision
      BY <3>1, SessionSteps
    <3>4. /\ view[x].revision <= session[t].revision
          /\ view[x].revision = session[t].revision => view[x] = Snapshot(t)
      BY <2>1 DEF RevisionIdentifiesContent
    <3>5. session'[t] = session[t] => Snapshot(t) = Snapshot(t)'
      BY <2>1 DEF Snapshot
    <3>6. QED
      BY <2>1, <3>1, <3>2, <3>3, <3>4, <3>5
  <2>2. CASE Current(x)'
    <3>1. session'[view'[x].id].revision \in Nat
      BY <2>2, <2>0 DEF TypeInv, TypeOK, SessionRow, NoRow, Current
    <3>2. QED
      BY <2>2, <3>1 DEF Current, Snapshot
  <2>3. CASE ItemsArrive(x)
    <3> DEFINE t == view[x].id
    <3>1. view[x] \in View /\ t \in Sessions
      BY <2>3 DEF ItemsArrive, TypeInv, TypeOK, View
    <3>2. view'[x].id = t /\ view'[x].revision = view[x].revision
      BY <2>3, <3>1 DEF ItemsArrive, View
    <3>3. view[x].revision <= session'[t].revision
      BY <2>3 DEF ItemsArrive, RevisionIdentifiesContent
    <3>4. ASSUME view[x].revision = session'[t].revision PROVE view'[x] = Snapshot(t)'
      <4>1. view[x] = Snapshot(t)
        BY <2>3, <3>4 DEF ItemsArrive, RevisionIdentifiesContent
      <4>2. view'[x] = Snapshot(t)
        BY <2>3, <4>1 DEF ItemsArrive, Snapshot
      <4>3. QED
        BY <2>3, <4>2 DEF ItemsArrive, Snapshot
    <3>5. QED
      BY <3>2, <3>3, <3>4
  <2>4. QED
    BY <2>1, <2>2, <2>3, ViewsAreReads
<1>3. QED
  BY <1>1, <1>2, RequestsInOrder, PTL DEF Spec

\* No request in flight changes a session that is completed or abandoned.
THEOREM SettledFrozen == Spec => SettledSessionsFrozen
<1>1. TypeInv /\ [Next]_vars =>
        [\A s \in Sessions :
           session[s].status \in {"completed", "abandoned"} => session'[s] = session[s]]_vars
  BY SessionSteps
<1>2. QED
  BY <1>1, RequestsInOrder, PTL DEF Spec, SettledSessionsFrozen

-----------------------------------------------------------------------------
(* Custody. *)

LEMMA CustodyStep ==
  TypeInv /\ OneActiveCheckoutPerItem /\ [Next]_vars => OneActiveCheckoutPerItem'
<1> SUFFICES ASSUME TypeInv, OneActiveCheckoutPerItem, [Next]_vars
             PROVE  OneActiveCheckoutPerItem'
  OBVIOUS
<1> USE DEF OneActiveCheckoutPerItem
<1>1. ASSUME NEW d \in Devices, FinalizeCommit(d) PROVE OneActiveCheckoutPerItem'
  <2> DEFINE items == ToLend(txn[d].id)
  <2>1. CASE UNCHANGED <<checkout, session>>
    BY <2>1
  <2>2. ASSUME \A i \in items : Live(i) = {},
               NEW rowOf \in [items -> Free],
               \A i, j \in items : rowOf[i] = rowOf[j] => i = j,
               checkout' = [c \in Checkouts |->
                 IF \E i \in items : rowOf[i] = c
                 THEN [status |-> "active", item |-> CHOOSE i \in items : rowOf[i] = c,
                       borrower |-> session[txn[d].id].borrower, by |-> UserOf[d]]
                 ELSE checkout[c]]
        PROVE OneActiveCheckoutPerItem'
    <3> DEFINE New(c) == \E i \in items : rowOf[i] = c
    <3>1. \A c \in Checkouts : New(c) =>
            /\ checkout'[c].item \in items
            /\ rowOf[checkout'[c].item] = c
      BY <2>2
    <3>2. \A c \in Checkouts : ~ New(c) => checkout'[c] = checkout[c]
      BY <2>2
    <3>3. \A c \in Checkouts : checkout[c] # FreeRow => checkout[c].item \notin items
      BY <2>2 DEF Live
    <3> HIDE DEF New
    <3>4. QED
      BY <2>2, <3>1, <3>2, <3>3
  <2>3. QED
    BY <1>1, <2>1, <2>2 DEF FinalizeCommit, RowsFor
<1>2. ASSUME NEW d \in Devices, CreateInsert(d) PROVE OneActiveCheckoutPerItem'
  <2>1. CASE UNCHANGED checkout
    BY <2>1
  <2>2. ASSUME Live(txn[d].item) = {}, NEW c \in Free,
               checkout' = [checkout EXCEPT ![c] =
                 [status |-> "pending", item |-> txn[d].item, borrower |-> txn[d].borrower,
                  by |-> UserOf[d]]]
        PROVE OneActiveCheckoutPerItem'
    BY <2>2 DEF Live, Free, TypeInv, TypeOK
  <2>3. QED
    BY <1>2, <2>1, <2>2 DEF CreateInsert
<1>3. ASSUME NEW d \in Devices, CreateCommit(d) PROVE OneActiveCheckoutPerItem'
  <2>1. txn[d].row \in Checkouts /\ checkout[txn[d].row].status = "pending"
    BY <1>3 DEF CreateCommit, TypeInv, RequestOK, DirectOK
  <2>2. QED
    BY <1>3, <2>1 DEF CreateCommit, TypeInv, TypeOK, CheckoutRow, FreeRow
<1>4. ASSUME NEW d \in Devices, DeadlockAbort(d) PROVE OneActiveCheckoutPerItem'
  BY <1>4 DEF DeadlockAbort
<1>5. ASSUME NEW d \in Devices, NEW c \in Checkouts, ReturnCheckout(d, c) PROVE OneActiveCheckoutPerItem'
  BY <1>5 DEF ReturnCheckout, TypeInv, TypeOK
<1>6. QED
  BY <1>1, <1>2, <1>3, <1>4, <1>5, Writers

\* At every moment an item has at most one active or uncommitted checkout.
THEOREM CustodyExclusive == Spec => []OneActiveCheckoutPerItem
<1>1. Init => OneActiveCheckoutPerItem
  BY DEF Init, OneActiveCheckoutPerItem
<1>2. QED
  BY <1>1, CustodyStep, RequestsInOrder, PTL DEF Spec

\* Only FinalizeCommit completes a session, and it lends what the device showed.
LEMMA CompletionStep ==
  ASSUME TypeInv, RevisionIdentifiesContent, [Next]_vars, NEW t \in Sessions,
         session[t].status = "active", session'[t].status = "completed"
  PROVE  \E x \in Devices :
           /\ UserOf[x] = session[t].actor
           /\ view[x] # NoView /\ view[x].id = t
           /\ {<<checkout'[c].item, checkout'[c].borrower>> :
                 c \in {c \in Checkouts : checkout'[c] # checkout[c]}}
                = view[x].items \X {view[x].borrower}
<1> DEFINE Goal == \E x \in Devices :
                     /\ UserOf[x] = session[t].actor
                     /\ view[x] # NoView /\ view[x].id = t
                     /\ {<<checkout'[c].item, checkout'[c].borrower>> :
                           c \in {c \in Checkouts : checkout'[c] # checkout[c]}}
                          = view[x].items \X {view[x].borrower}
<1> USE DEF TypeInv, TypeOK, SessionRow, NoRow
<1>1. ASSUME NEW d \in Devices, OpenInsert(d) PROVE Goal
  BY <1>1 DEF OpenInsert, Unborn
<1>2. ASSUME NEW d \in Devices, AddCommit(d) PROVE Goal
  BY <1>2 DEF AddCommit
<1>3. ASSUME NEW d \in Devices, FinalizeCommit(d) PROVE Goal
  <2>1. /\ txn[d].id \in Sessions
        /\ view[d] # NoView /\ view[d].id = txn[d].id
        /\ view[d].revision = session[txn[d].id].revision
        /\ session[txn[d].id].actor = UserOf[d]
    BY <1>3 DEF FinalizeCommit, RequestOK, SessionLockOK, FinalizeOK, HoldsSession
  <2>2. txn[d].id = t
    BY <1>3, <2>1 DEF FinalizeCommit
  <2>3. view[d].items = session[t].items /\ view[d].borrower = session[t].borrower
    BY <2>1, <2>2 DEF RevisionIdentifiesContent, Snapshot
  <2> DEFINE items == session[t].items
  <2>4. PICK rowOf \in [items -> Free] :
          /\ \A i, j \in items : rowOf[i] = rowOf[j] => i = j
          /\ checkout' = [c \in Checkouts |->
               IF \E i \in items : rowOf[i] = c
               THEN [status |-> "active", item |-> CHOOSE i \in items : rowOf[i] = c,
                     borrower |-> session[t].borrower, by |-> UserOf[d]]
               ELSE checkout[c]]
    BY <1>3, <2>2 DEF FinalizeCommit, RowsFor, ToLend
  <2> DEFINE New == {c \in Checkouts : checkout'[c] # checkout[c]}
  <2>5. ASSUME NEW c \in Checkouts, \E i \in items : rowOf[i] = c
        PROVE  /\ c \in New
               /\ checkout'[c].item \in items
               /\ rowOf[checkout'[c].item] = c
               /\ checkout'[c].borrower = session[t].borrower
    BY <2>4, <2>5 DEF Free, FreeRow
  <2>6. ASSUME NEW c \in New
        PROVE  /\ checkout'[c].item \in items
               /\ checkout'[c].borrower = session[t].borrower
    <3>1. CASE \E i \in items : rowOf[i] = c
      BY <2>5, <3>1
    <3>2. CASE ~ \E i \in items : rowOf[i] = c
      BY <2>4, <3>2
    <3>3. QED
      BY <3>1, <3>2
  <2>7. ASSUME NEW i \in items
        PROVE  \E c \in New : <<checkout'[c].item, checkout'[c].borrower>>
                                 = <<i, session[t].borrower>>
    <3>1. rowOf[i] \in Checkouts
      BY DEF Free
    <3>2. /\ rowOf[i] \in New
          /\ checkout'[rowOf[i]].item \in items
          /\ rowOf[checkout'[rowOf[i]].item] = rowOf[i]
          /\ checkout'[rowOf[i]].borrower = session[t].borrower
      BY <2>5, <3>1
    <3>3. QED
      BY <2>4, <3>2
  <2> DEFINE Lent == {<<checkout'[c].item, checkout'[c].borrower>> : c \in New}
  <2>8. Lent = items \X {session[t].borrower}
    <3> HIDE DEF New
    <3>1. ASSUME NEW p \in Lent PROVE p \in items \X {session[t].borrower}
      BY <2>6
    <3>2. ASSUME NEW p \in items \X {session[t].borrower} PROVE p \in Lent
      <4>1. PICK i \in items : p = <<i, session[t].borrower>>
        OBVIOUS
      <4>2. QED
        BY <2>7, <4>1
    <3>3. QED
      BY <3>1, <3>2
  <2>9. QED
    BY <2>1, <2>2, <2>3, <2>8
<1>4. ASSUME NEW d \in Devices, AbandonSession(d) PROVE Goal
  BY <1>4 DEF AbandonSession, Editable, Request, View
<1>5. ASSUME NEW d \in Devices, NEW b \in MaybeBorrower, UpdateSession(d, b) PROVE Goal
  BY <1>5 DEF UpdateSession, Editable, Request, View
<1>6. ASSUME NEW d \in Devices, NEW i \in Items, RemoveItem(d, i) PROVE Goal
  BY <1>6 DEF RemoveItem, Editable, Request, View
<1>7. QED
  BY <1>1, <1>2, <1>3, <1>4, <1>5, <1>6, Writers

\* Completing a session lends exactly what the confirming device showed.
THEOREM ConfirmedIsLent == Spec => ConfirmedContentIsCheckedOut
<1>1. TypeInv /\ RevisionIdentifiesContent /\ [Next]_vars =>
        [\A s \in Sessions :
           session[s].status = "active" /\ session'[s].status = "completed" =>
             \E d \in Devices :
               /\ UserOf[d] = session[s].actor
               /\ view[d] # NoView /\ view[d].id = s
               /\ {<<checkout'[c].item, checkout'[c].borrower>> :
                     c \in {c \in Checkouts : checkout'[c] # checkout[c]}}
                    = view[d].items \X {view[d].borrower}]_vars
  BY CompletionStep
<1>2. QED
  BY <1>1, RequestsInOrder, RevisionSound, PTL DEF Spec, ConfirmedContentIsCheckedOut

-----------------------------------------------------------------------------
(* Who lends what, and the carts and loans of Lending.  LendInv makes them a *)
(* mapping: a user has one active session (the partial index of              *)
(* checkout_sessions) and a completion in flight holds one that is not empty. *)
(* OwnBorrowers and LockInv say what was checked of the rows that are written *)
(* and of the items that are locked.  All three rest on SessionMoves,         *)
(* CheckoutMoves and RequestMoves, which say in how many ways a step changes  *)
(* each table.                                                                *)
Active(s) == session[s].status = "active"

\* A user has one active session.
OneCart ==
  \A s, t \in Sessions : Active(s) /\ Active(t) /\ session[s].actor = session[t].actor => s = t

\* The items of a completion in flight do not vanish.
NotEmpty ==
  \A d \in Devices : txn[d].pc \in {"lock", "finalize"} => session[txn[d].id].items # {}

\* Every borrower that is written was one its user may lend to.
OwnBorrowers ==
  /\ \A s \in Sessions : Active(s) => MayLendTo(session[s].actor, session[s].borrower)
  /\ \A d \in Devices : txn[d].pc = "create" => MayLendTo(UserOf[d], txn[d].borrower)
  /\ \A c \in Checkouts : checkout[c] # FreeRow => MayLendTo(checkout[c].by, checkout[c].borrower)

LendInv == OneCart /\ NotEmpty

-----------------------------------------------------------------------------
(* What a step does to the sessions. *)

\* The row of session s is the only one that changes; it is an active one of user u.
Writes(u, s) ==
  /\ Active(s)
  /\ session[s].actor = u
  /\ session' \in [Sessions -> SessionRow \cup {NoRow}]
  /\ session'[s].actor = u
  /\ \A t \in Sessions \ {s} : session'[t] = session[t]

\* A user without an active session gets one.
Opens(d, s) ==
  /\ txn[d].pc = "open"
  /\ ActiveOf(UserOf[d]) = {}
  /\ session[s] = NoRow
  /\ session' = [session EXCEPT ![s] =
       [actor |-> UserOf[d], status |-> "active",
        borrower |-> InitialBorrower(UserOf[d]), revision |-> 1, items |-> {}]]
  /\ txn' = [txn EXCEPT ![d] = Idle]
  /\ UNCHANGED checkout

\* Its borrower or its items change, and no completion holds it.
Edits(d, s) ==
  /\ Writes(UserOf[d], s)
  /\ session'[s].status = "active"
  /\ session'[s].borrower = session[s].borrower \/ MayLendTo(UserOf[d], session'[s].borrower)
  /\ \A e \in Devices : txn[e].pc \in {"lock", "finalize"} => txn[e].id # s
  /\ \A e \in Devices : txn'[e] = txn[e] \/ txn'[e] = Idle
  /\ UNCHANGED checkout

Abandons(d, s) ==
  /\ Writes(UserOf[d], s)
  /\ session'[s].status = "abandoned"
  /\ \A e \in Devices : txn[e].pc \in {"lock", "finalize"} => txn[e].id # s
  /\ UNCHANGED <<checkout, txn>>

\* All its items are lent at once, and were free.
Completes(d, s) ==
  /\ Writes(UserOf[d], s)
  /\ session'[s].status = "completed"
  /\ txn[d].pc = "finalize" /\ txn[d].id = s
  /\ txn' = [txn EXCEPT ![d] = Idle]
  /\ \A i \in session[s].items : Live(i) = {}
  /\ \E rowOf \in [session[s].items -> Free] :
       /\ \A i, j \in session[s].items : rowOf[i] = rowOf[j] => i = j
       /\ checkout' = [c \in Checkouts |->
            IF \E i \in session[s].items : rowOf[i] = c
            THEN [status |-> "active", item |-> CHOOSE i \in session[s].items : rowOf[i] = c,
                  borrower |-> session[s].borrower, by |-> UserOf[d]]
            ELSE checkout[c]]

\* Every other step leaves the sessions alone.
LEMMA SessionMoves ==
  ASSUME TypeInv, [Next]_vars
  PROVE  \/ UNCHANGED session
         \/ \E d \in Devices, s \in Sessions :
              Opens(d, s) \/ Edits(d, s) \/ Abandons(d, s) \/ Completes(d, s)
<1> DEFINE Goal == \/ UNCHANGED session
                   \/ \E d \in Devices, s \in Sessions :
                        Opens(d, s) \/ Edits(d, s) \/ Abandons(d, s) \/ Completes(d, s)
<1>0. TypeInv'
  BY NextTypeInv
<1>1. ASSUME NEW d \in Devices, OpenInsert(d) PROVE Goal
  <2>1. CASE MayOpen(UserOf[d])
    <3>1. PICK s \in Unborn : Opens(d, s)
      BY <1>1, <2>1 DEF OpenInsert, Finish, Opens, MayOpen, Unborn
    <3>2. QED
      BY <3>1 DEF Unborn
  <2>2. CASE ~ MayOpen(UserOf[d])
    BY <1>1, <2>2 DEF OpenInsert
  <2>3. QED
    BY <2>1, <2>2
<1>2. ASSUME NEW d \in Devices, AddCommit(d) PROVE Goal
  <2> DEFINE s == txn[d].id
  <2>1. s \in Sessions /\ Active(s) /\ session[s].actor = UserOf[d] /\ session[s] \in SessionRow
    BY <1>2 DEF AddCommit, TypeInv, TypeOK, RequestOK, SessionLockOK, HoldsSession, Active, NoRow
  <2>2. \A e \in Devices : txn[e].pc \in {"lock", "finalize"} => txn[e].id # s
    BY <1>2 DEF AddCommit, TypeInv, RequestOK, SessionLockOK, HoldsSession
  <2>3. \A e \in Devices : txn'[e] = txn[e] \/ txn'[e] = Idle
    BY <1>2 DEF AddCommit, Finish, TypeInv, TypeOK
  <2>4. CASE session' = [session EXCEPT ![s].items = @ \cup {txn[d].item}, ![s].revision = Bump(s)]
    <3>1. /\ session'[s].actor = UserOf[d] /\ session'[s].status = "active"
          /\ session'[s].borrower = session[s].borrower
          /\ \A t \in Sessions \ {s} : session'[t] = session[t]
      BY <2>1, <2>4 DEF TypeInv, TypeOK, SessionRow, Active
    <3>2. Edits(d, s)
      BY <1>0, <1>2, <2>1, <2>2, <2>3, <3>1
      DEF Edits, Writes, Active, AddCommit, TypeInv, TypeOK
    <3>3. QED
      BY <2>1, <3>2
  <2>5. QED
    BY <1>2, <2>4 DEF AddCommit
<1>3. ASSUME NEW d \in Devices, FinalizeCommit(d) PROVE Goal
  <2> DEFINE s == txn[d].id
  <2>1. s \in Sessions /\ Active(s) /\ session[s].actor = UserOf[d] /\ session[s] \in SessionRow
    BY <1>3 DEF FinalizeCommit, TypeInv, TypeOK, RequestOK, SessionLockOK, HoldsSession, Active,
       NoRow
  <2>2. CASE UNCHANGED session
    BY <2>2
  <2>3. CASE ~ UNCHANGED session
    <3>1. session' = [session EXCEPT ![s].status = "completed", ![s].revision = Bump(s)]
      BY <1>3, <2>3 DEF FinalizeCommit
    <3>2. /\ session'[s].actor = UserOf[d] /\ session'[s].status = "completed"
          /\ \A t \in Sessions \ {s} : session'[t] = session[t]
      BY <2>1, <3>1 DEF TypeInv, TypeOK, SessionRow
    <3>3. Writes(UserOf[d], s)
      BY <1>0, <2>1, <3>2 DEF Writes, TypeInv, TypeOK
    <3>4. Completes(d, s)
      BY <1>3, <2>3, <3>2, <3>3 DEF Completes, FinalizeCommit, RowsFor, ToLend, Finish
    <3>5. QED
      BY <2>1, <3>4
  <2>4. QED
    BY <2>2, <2>3
<1> DEFINE Own(d) == /\ view[d].id \in Sessions /\ Active(view[d].id)
                     /\ session[view[d].id].actor = UserOf[d]
                     /\ session[view[d].id] \in SessionRow
                     /\ \A e \in Devices :
                          txn[e].pc \in {"lock", "finalize"} => txn[e].id # view[d].id
<1>4. ASSUME NEW d \in Devices, Request(d), Editable(d, view[d].id) PROVE Own(d)
  BY <1>4 DEF Request, Editable, SessionFree, TypeInv, TypeOK, View, Active, NoRow
<1>5. ASSUME NEW d \in Devices, AbandonSession(d) PROVE Goal
  <2> DEFINE s == view[d].id
  <2>1. Own(d)
    BY <1>4, <1>5 DEF AbandonSession
  <2>2. /\ session'[s].actor = UserOf[d] /\ session'[s].status = "abandoned"
        /\ \A t \in Sessions \ {s} : session'[t] = session[t]
    BY <1>5, <2>1 DEF AbandonSession, TypeInv, TypeOK, SessionRow
  <2>3. Abandons(d, s)
    BY <1>0, <1>5, <2>1, <2>2 DEF Abandons, Writes, AbandonSession, TypeInv, TypeOK
  <2>4. QED
    BY <2>1, <2>3
<1>6. ASSUME NEW d \in Devices, NEW b \in MaybeBorrower, UpdateSession(d, b) PROVE Goal
  <2> DEFINE s == view[d].id
  <2>1. Own(d)
    BY <1>4, <1>6 DEF UpdateSession
  <2>2. /\ session'[s].actor = UserOf[d] /\ session'[s].status = "active"
        /\ session'[s].borrower = b /\ MayLendTo(UserOf[d], b)
        /\ \A t \in Sessions \ {s} : session'[t] = session[t]
    BY <1>6, <2>1 DEF UpdateSession, TypeInv, TypeOK, SessionRow, Active
  <2>3. Edits(d, s)
    BY <1>0, <1>6, <2>1, <2>2 DEF Edits, Writes, Active, UpdateSession, TypeInv, TypeOK
  <2>4. QED
    BY <2>1, <2>3
<1>7. ASSUME NEW d \in Devices, NEW i \in Items, RemoveItem(d, i) PROVE Goal
  <2> DEFINE s == view[d].id
  <2>1. Own(d)
    BY <1>4, <1>7 DEF RemoveItem
  <2>2. /\ session'[s].actor = UserOf[d] /\ session'[s].status = "active"
        /\ session'[s].borrower = session[s].borrower
        /\ \A t \in Sessions \ {s} : session'[t] = session[t]
    BY <1>7, <2>1 DEF RemoveItem, TypeInv, TypeOK, SessionRow, Active
  <2>3. Edits(d, s)
    BY <1>0, <1>7, <2>1, <2>2 DEF Edits, Writes, Active, RemoveItem, TypeInv, TypeOK
  <2>4. QED
    BY <2>1, <2>3
<1>8. QED
  BY <1>1, <1>2, <1>3, <1>5, <1>6, <1>7, Writers

-----------------------------------------------------------------------------
(* One cart, and no empty completion. *)

\* Only one session is written.
LEMMA OtherSessionsStay ==
  ASSUME TypeInv, NEW d \in Devices, NEW s \in Sessions, NEW t \in Sessions \ {s},
         Opens(d, s) \/ Edits(d, s) \/ Abandons(d, s) \/ Completes(d, s)
  PROVE  session'[t] = session[t]
BY DEF Opens, Edits, Abandons, Completes, Writes, TypeInv, TypeOK

\* A row that was active and is written again, or a first one: one cart still.
LEMMA OneCartStep ==
  ASSUME TypeInv, OneCart, [Next]_vars
  PROVE  OneCart'
<1>1. CASE UNCHANGED session
  BY <1>1 DEF OneCart, Active
<1>2. ASSUME NEW d \in Devices, NEW s \in Sessions, Opens(d, s) PROVE OneCart'
  <2>1. \A t \in Sessions \ {s} : session'[t] = session[t]
    BY <1>2 DEF Opens
  <2>2. session'[s].actor = UserOf[d]
    BY <1>2 DEF Opens, TypeInv, TypeOK
  <2>3. \A t \in Sessions : Active(t) => session[t].actor # UserOf[d]
    BY <1>2 DEF Opens, ActiveOf, Active
  <2>4. QED
    BY <2>1, <2>2, <2>3 DEF OneCart, Active
<1>3. ASSUME NEW d \in Devices, NEW s \in Sessions, Writes(UserOf[d], s) PROVE OneCart'
  BY <1>3 DEF Writes, OneCart, Active
<1>4. QED
  BY <1>1, <1>2, <1>3, SessionMoves DEF Edits, Abandons, Completes

\* A step is one of one request.
LEMMA OtherRequestsStay ==
  ASSUME TypeInv, NEW d \in Devices, NEW e \in Devices \ {d}, Progress(d) \/ Start(d)
  PROVE  txn'[e] = txn[e]
BY DEF Progress, Start, TypeInv, TypeOK, Finish,
   OpenInsert, OpenReread, AddCommit, FinalizeLockItem, FinalizeValidate, FinalizeCommit,
   CreateInsert, CreateCommit, DeadlockAbort, OpenRead, AbandonSession, FinalizeLock, Fetch,
   UpdateSession, AddRead, RemoveItem, DeleteItem, CreateRead, ReturnCheckout

\* How a request in flight goes on, as far as completions and direct checkouts
\* before their insert are concerned.
LEMMA RequestMoves ==
  ASSUME TypeInv, [Next]_vars, NEW e \in Devices
  PROVE  \/ txn'[e] = txn[e]
         \/ /\ txn'[e].pc \notin {"lock", "finalize", "create"}
            /\ \/ txn'[e].locked = {}
               \/ txn'[e].locked = txn[e].locked /\ txn[e].pc \in {"open", "create"}
         \/ FinalizeLockItem(e)
         \/ FinalizeValidate(e) /\ txn'[e] = [txn[e] EXCEPT !.pc = "finalize"]
         \/ FinalizeLock(e)
         \/ \E i \in Items, b \in Borrowers : CreateRead(e, i, b)
<1> DEFINE Goal == \/ txn'[e] = txn[e]
                   \/ /\ txn'[e].pc \notin {"lock", "finalize", "create"}
                      /\ \/ txn'[e].locked = {}
                         \/ txn'[e].locked = txn[e].locked /\ txn[e].pc \in {"open", "create"}
                   \/ FinalizeLockItem(e)
                   \/ FinalizeValidate(e) /\ txn'[e] = [txn[e] EXCEPT !.pc = "finalize"]
                   \/ FinalizeLock(e)
                   \/ \E i \in Items, b \in Borrowers : CreateRead(e, i, b)
<1>1. ASSUME NEW d \in Devices, d # e, Progress(d) \/ Start(d) PROVE txn'[e] = txn[e]
  BY <1>1, OtherRequestsStay
<1>2. CASE Finish(e)
  BY <1>2 DEF Finish, TypeInv, TypeOK, Idle
<1>4. CASE FinalizeValidate(e)
  BY <1>2, <1>4 DEF FinalizeValidate, TypeInv, TypeOK
<1>5. CASE OpenInsert(e)
  BY <1>2, <1>5 DEF OpenInsert, TypeInv, TypeOK, Txn
<1>6. CASE CreateInsert(e)
  <2>1. ASSUME NEW c \in Free, txn' = [txn EXCEPT ![e].pc = "created", ![e].row = c] PROVE Goal
    <3>1. txn'[e].pc = "created" /\ txn'[e].locked = txn[e].locked
      BY <2>1 DEF TypeInv, TypeOK, Txn
    <3>2. QED
      BY <1>6, <3>1 DEF CreateInsert
  <2>2. QED
    BY <1>2, <1>6, <2>1 DEF CreateInsert
<1>7. CASE OpenReread(e) \/ AddCommit(e) \/ FinalizeCommit(e) \/ CreateCommit(e)
             \/ DeadlockAbort(e)
  BY <1>2, <1>7 DEF OpenReread, AddCommit, FinalizeCommit, CreateCommit, DeadlockAbort
<1>8. CASE OpenRead(e)
  BY <1>8 DEF OpenRead, TypeInv, TypeOK, Idle
<1>9. ASSUME NEW i \in Items, AddRead(e, i) PROVE txn'[e].pc = "add" /\ txn'[e].locked = {}
  BY <1>9 DEF AddRead, TypeInv, TypeOK, Idle
<1>10. CASE AbandonSession(e)
  BY <1>10 DEF AbandonSession
<1>11. ASSUME NEW s \in Sessions, Fetch(e, s) PROVE txn'[e] = txn[e]
  BY <1>11 DEF Fetch
<1>12. ASSUME NEW b \in MaybeBorrower, UpdateSession(e, b) PROVE txn'[e] = txn[e]
  BY <1>12 DEF UpdateSession
<1>13. ASSUME NEW i \in Items, RemoveItem(e, i) \/ DeleteItem(e, i) PROVE txn'[e] = txn[e]
  BY <1>13 DEF RemoveItem, DeleteItem
<1>14. ASSUME NEW c \in Checkouts, ReturnCheckout(e, c) PROVE txn'[e] = txn[e]
  BY <1>14 DEF ReturnCheckout
<1>15. CASE Progress(e)
  BY <1>4, <1>5, <1>6, <1>7, <1>15 DEF Progress
<1>16. CASE Start(e)
  BY <1>8, <1>9, <1>10, <1>11, <1>12, <1>13, <1>14, <1>16 DEF Start
<1>17. CASE UNCHANGED vars
  BY <1>17 DEF vars
<1>18. QED
  BY <1>1, <1>15, <1>16, <1>17 DEF Next

\* Nobody else writes the session that a completion holds.
LEMMA HeldSessionStays ==
  ASSUME TypeInv, [Next]_vars, NEW e \in Devices,
         txn[e].pc \in {"lock", "finalize"}, txn'[e].pc \in {"lock", "finalize"}
  PROVE  txn'[e].id = txn[e].id /\ session'[txn[e].id] = session[txn[e].id]
<1> DEFINE t == txn[e].id
<1>1. t \in Sessions /\ Active(t)
  BY DEF TypeInv, RequestOK, SessionLockOK, HoldsSession, Active
<1>2. txn'[e].id = txn[e].id
  <2>1. CASE FinalizeLock(e)
    BY <2>1 DEF FinalizeLock, Request
  <2>2. ASSUME NEW i \in Items, NEW b \in Borrowers, CreateRead(e, i, b) PROVE FALSE
    BY <2>2 DEF CreateRead
  <2>3. CASE FinalizeLockItem(e)
    BY <2>3 DEF FinalizeLockItem, TypeInv, TypeOK, Txn
  <2>4. CASE txn'[e] = [txn[e] EXCEPT !.pc = "finalize"]
    BY <2>4 DEF TypeInv, TypeOK, Txn
  <2>5. QED
    BY <2>1, <2>2, <2>3, <2>4, RequestMoves
<1>3. ASSUME NEW d \in Devices, NEW s \in Sessions,
             Opens(d, s) \/ Edits(d, s) \/ Abandons(d, s) \/ Completes(d, s)
      PROVE  session'[t] = session[t]
  <2>1. s # t
    <3>1. CASE Opens(d, s)
      BY <1>1, <3>1 DEF Opens, Active, NoRow
    <3>2. CASE Edits(d, s) \/ Abandons(d, s)
      BY <3>2 DEF Edits, Abandons
    <3>3. CASE Completes(d, s)
      <4>1. txn[d].pc = "finalize" /\ txn[d].id = s /\ txn'[d].pc = "idle"
        BY <3>3 DEF Completes, TypeInv, TypeOK, Idle
      <4>2. QED
        BY <4>1 DEF TypeInv, RequestOK, SessionLockOK, HoldsSession
    <3>4. QED
      BY <1>3, <3>1, <3>2, <3>3
  <2>2. QED
    BY <1>1, <1>3, <2>1, OtherSessionsStay
<1>4. session'[t] = session[t]
  BY <1>3, SessionMoves
<1>5. QED
  BY <1>2, <1>4

\* A completion that begins has items, and keeps them.
LEMMA NotEmptyStep ==
  ASSUME TypeInv, NotEmpty, [Next]_vars
  PROVE  NotEmpty'
<1> SUFFICES ASSUME NEW e \in Devices, txn'[e].pc \in {"lock", "finalize"}
             PROVE  session'[txn'[e].id].items # {}
  BY DEF NotEmpty
<1>1. CASE txn[e].pc \in {"lock", "finalize"}
  BY <1>1, HeldSessionStays DEF NotEmpty
<1>2. CASE txn[e].pc \notin {"lock", "finalize"}
  <2>1. CASE FinalizeLock(e)
    BY <2>1 DEF FinalizeLock, TypeInv, TypeOK, Idle
  <2>2. ASSUME NEW i \in Items, NEW b \in Borrowers, CreateRead(e, i, b) PROVE FALSE
    BY <2>2 DEF CreateRead, TypeInv, TypeOK, Idle
  <2>3. QED
    BY <1>2, <2>1, <2>2, RequestMoves DEF FinalizeLockItem, FinalizeValidate
<1>3. QED
  BY <1>1, <1>2

-----------------------------------------------------------------------------
(* Locks on items. *)

\* Items are locked by completions, in their order; a completion that has passed
\* its checks has locked all its items, none of which is archived.
LockInv ==
  \A d \in Devices :
    /\ txn[d].locked # {} => txn[d].pc \in {"lock", "finalize"}
    /\ txn[d].pc = "lock" => \A i \in txn[d].locked, j \in ToLock(d) : i < j
    /\ txn[d].pc = "finalize" =>
         \A i \in session[txn[d].id].items : i \in txn[d].locked /\ i \notin archived

\* An item that is locked by another request is not archived.
LEMMA LockedNotArchived ==
  ASSUME TypeInv, LockInv, [Next]_vars, NEW d \in Devices, NEW i \in txn[d].locked,
         i \notin archived
  PROVE  i \notin archived'
<1>1. ASSUME NEW e \in Devices, NEW j \in Items, DeleteItem(e, j) PROVE j # i
  BY <1>1 DEF DeleteItem, ItemFree, LockInv
<1>2. ASSUME NEW e \in Devices, NEW j \in Items, DeleteItem(e, j) PROVE i \notin archived'
  BY <1>1, <1>2 DEF DeleteItem
<1>3. QED
  BY <1>2, Writers

\* Each request keeps to the order and to its checks.
LEMMA LockStep ==
  ASSUME TypeInv, LockInv, [Next]_vars
  PROVE  LockInv'
<1> SUFFICES ASSUME NEW d \in Devices
             PROVE  (/\ txn[d].locked # {} => txn[d].pc \in {"lock", "finalize"}
                     /\ txn[d].pc = "lock" => \A i \in txn[d].locked, j \in ToLock(d) : i < j
                     /\ txn[d].pc = "finalize" =>
                          \A i \in session[txn[d].id].items :
                            i \in txn[d].locked /\ i \notin archived)'
  BY DEF LockInv
<1>1. CASE txn'[d] = txn[d]
  <2>1. txn[d].pc \in {"lock", "finalize"} => session'[txn[d].id] = session[txn[d].id]
    BY <1>1, HeldSessionStays
  <2>2. txn[d].pc = "lock" => \A i \in txn'[d].locked, j \in ToLock(d)' : i < j
    BY <1>1, <2>1 DEF LockInv, ToLock
  <2>3. txn[d].pc = "finalize" =>
          \A i \in session'[txn'[d].id].items : i \in txn'[d].locked /\ i \notin archived'
    BY <1>1, <2>1, LockedNotArchived DEF LockInv
  <2>4. QED
    BY <1>1, <2>2, <2>3 DEF LockInv
<1>2. CASE /\ txn'[d].pc \notin {"lock", "finalize", "create"}
           /\ \/ txn'[d].locked = {}
              \/ txn'[d].locked = txn[d].locked /\ txn[d].pc \in {"open", "create"}
  BY <1>2 DEF LockInv
<1>3. CASE FinalizeLockItem(d)
  <2>1. PICK i \in NextToLock(d) : txn' = [txn EXCEPT ![d].locked = @ \cup {i}]
    BY <1>3 DEF FinalizeLockItem
  <2>2. /\ txn'[d].pc = "lock" /\ txn'[d].locked = txn[d].locked \cup {i}
        /\ txn'[d].id = txn[d].id /\ txn[d].pc = "lock" /\ session' = session
    BY <1>3, <2>1 DEF FinalizeLockItem, TypeInv, TypeOK, Txn
  <2>3. session[txn[d].id].items \subseteq Int
    <3>1. txn[d].id \in Sessions
      BY <2>2 DEF TypeInv, RequestOK, SessionLockOK, HoldsSession
    <3>2. session[txn[d].id].items \subseteq Items
      BY <3>1 DEF TypeInv, TypeOK, SessionRow, NoRow
    <3>3. QED
      BY <3>2, ConstantsAssumption
  <2>4. i \in ToLock(d) /\ ToLock(d) \subseteq Int /\ \A j \in ToLock(d) : i <= j
    BY <2>3 DEF NextToLock, ToLock
  <2>5. ToLock(d)' = ToLock(d) \ {i}
    BY <2>2 DEF ToLock
  <2>6. \A k \in txn[d].locked, j \in ToLock(d) : k < j
    BY <2>2 DEF LockInv
  <2>7. \A j \in ToLock(d) \ {i} : i < j
    BY <2>4
  <2>8. QED
    BY <2>2, <2>5, <2>6, <2>7
<1>4. CASE FinalizeValidate(d) /\ txn'[d] = [txn[d] EXCEPT !.pc = "finalize"]
  <2>1. /\ txn'[d].pc = "finalize" /\ txn'[d].locked = txn[d].locked /\ txn'[d].id = txn[d].id
        /\ txn[d].pc = "lock" /\ session' = session /\ archived' = archived
    BY <1>4 DEF FinalizeValidate, TypeInv, TypeOK, Txn
  <2>2. txn' # [txn EXCEPT ![d] = Idle]
    BY <2>1 DEF TypeInv, TypeOK, Idle
  <2>3. \A i \in session[txn[d].id].items : i \in txn[d].locked /\ Available(i)
    BY <1>4, <2>2 DEF FinalizeValidate, Finish, ToLock
  <2>4. QED
    BY <2>1, <2>3 DEF Available
<1>5. CASE FinalizeLock(d)
  <2>1. txn'[d].pc = "lock" /\ txn'[d].locked = {}
    BY <1>5 DEF FinalizeLock, TypeInv, TypeOK, Idle
  <2>2. QED
    BY <2>1
<1>6. ASSUME NEW i \in Items, NEW b \in Borrowers, CreateRead(d, i, b)
      PROVE  txn'[d].pc = "create" /\ txn'[d].locked = {}
  BY <1>6 DEF CreateRead, TypeInv, TypeOK, Idle
<1>7. QED
  BY <1>1, <1>2, <1>3, <1>4, <1>5, <1>6, RequestMoves

\* LockInv holds in every reachable state.
LEMMA LockInvHolds == Spec => []LockInv
<1>1. Init => LockInv
  BY DEF Init, LockInv, Idle
<1>2. TypeInv /\ LockInv /\ [Next]_vars => LockInv'
  BY LockStep
<1>3. QED
  BY <1>1, <1>2, RequestsInOrder, PTL DEF Spec

\* A set of naturals has a first.
LEMMA FirstNatural ==
  ASSUME NEW T \in SUBSET Nat, T # {}
  PROVE  \E n \in T : \A p \in T : ~ (p < n)
<1> DEFINE R == OpToRel(<, Nat)
<1>1. IsWellFoundedOn(R, Nat)
  BY NatLessThanWellFounded
<1>2. \A p, n \in Nat : p < n => <<p, n>> \in R
  BY DEF OpToRel
<1> HIDE DEF R
<1>3. PICK n \in T : \A p \in T : ~ (<<p, n>> \in R)
  BY <1>1, WFMin
<1>4. QED
  BY <1>2, <1>3

\* Of some items one has the highest id: the ids below the highest of all are
\* counted down to it.
LEMMA HighestExists ==
  ASSUME NEW S \in SUBSET Items, S # {}
  PROVE  \E i \in S : \A j \in S : j <= i
<1>1. PICK lowest, highest \in Items : Items \subseteq lowest..highest
  BY ItemsAssumption
<1>2. \A j \in Items : j \in Int /\ highest - j \in Nat
  BY <1>1, ConstantsAssumption
<1> DEFINE T == {highest - j : j \in S}
<1>3. T \in SUBSET Nat /\ T # {}
  BY <1>2
<1>4. PICK n \in T : \A p \in T : ~ (p < n)
  BY <1>3, FirstNatural
<1>5. PICK i \in S : n = highest - i
  OBVIOUS
<1>6. \A j \in S : ~ (highest - j < highest - i)
  BY <1>4, <1>5
<1>7. QED
  BY <1>2, <1>6

\* And one the lowest, which is the next that a completion locks.
LEMMA LowestExists ==
  ASSUME NEW S \in SUBSET Items, S # {}
  PROVE  \E i \in S : \A j \in S : i <= j
<1>1. PICK lowest, highest \in Items : Items \subseteq lowest..highest
  BY ItemsAssumption
<1>2. \A j \in Items : j \in Int /\ j - lowest \in Nat
  BY <1>1, ConstantsAssumption
<1> DEFINE T == {j - lowest : j \in S}
<1>3. T \in SUBSET Nat /\ T # {}
  BY <1>2
<1>4. PICK n \in T : \A p \in T : ~ (p < n)
  BY <1>3, FirstNatural
<1>5. PICK i \in S : n = i - lowest
  OBVIOUS
<1>6. \A j \in S : ~ (j - lowest < i - lowest)
  BY <1>4, <1>5
<1>7. QED
  BY <1>2, <1>6

\* Requests that all wait for each other: one of them is past its checks and waits
\* for a direct checkout that waits for it.  Otherwise completions would wait in a
\* circle, each for an item higher than those it holds, so higher than the last one.
LEMMA WaitingInCircle == TypeInv /\ LockInv => DeadlockNeedsDirectCheckout
<1> SUFFICES ASSUME TypeInv, LockInv, NEW W \in SUBSET Devices, W # {},
                    \A d \in W : WaitsFor(d) \cap W # {}
             PROVE  \E d, e \in W :
                      e \in WaitsFor(d) /\ d \in WaitsFor(e) /\ txn[e].pc = "created"
  BY DEF DeadlockNeedsDirectCheckout
<1>1. ASSUME NEW d \in W, NEW e \in WaitsFor(d)
      PROVE  txn[e].pc \in {"lock", "finalize", "created"}
  BY DEF WaitsFor, LockInv
<1>2. \E g \in W : txn[g].pc \in {"lock", "finalize"}
  <2>1. PICK d \in W : TRUE
    OBVIOUS
  <2>2. PICK e \in W : e \in WaitsFor(d)
    OBVIOUS
  <2>3. CASE txn[e].pc = "created"
    <3>1. PICK f \in W : f \in WaitsFor(e)
      OBVIOUS
    <3>2. txn[e].item \in txn[f].locked
      BY <2>3, <3>1 DEF WaitsFor
    <3>3. QED
      BY <3>2 DEF LockInv
  <2>4. QED
    BY <1>1, <2>2, <2>3
<1>3. ASSUME NEW g \in W, txn[g].pc = "finalize"
      PROVE  \E d, e \in W : e \in WaitsFor(d) /\ d \in WaitsFor(e) /\ txn[e].pc = "created"
  <2>1. PICK h \in W : h \in WaitsFor(g)
    OBVIOUS
  <2>2. txn[h].pc = "created" /\ txn[h].item \in session[txn[g].id].items
    BY <1>3, <2>1 DEF WaitsFor
  <2>3. txn[h].item \in txn[g].locked
    BY <1>3, <2>2 DEF LockInv
  <2>4. g \in WaitsFor(h)
    BY <1>3, <2>2, <2>3 DEF WaitsFor
  <2>5. QED
    BY <2>1, <2>2, <2>4
<1>4. CASE \A g \in W : txn[g].pc # "finalize"
  <2> DEFINE wanted == {i \in Items : \E g \in W : txn[g].pc = "lock" /\ i \in NextToLock(g)}
  <2>1. ASSUME NEW g \in W, txn[g].pc = "lock"
        PROVE  \E e \in W, i \in wanted :
                 txn[e].pc = "lock" /\ i \in NextToLock(g) /\ i \in txn[e].locked
    <3>1. PICK e \in W : e \in WaitsFor(g)
      OBVIOUS
    <3>2. PICK i \in NextToLock(g) : i \in txn[e].locked
      BY <2>1, <3>1 DEF WaitsFor
    <3>3. i \in Items
      BY <3>2 DEF TypeInv, TypeOK, Txn
    <3>4. txn[e].pc = "lock"
      BY <1>4, <3>2 DEF LockInv
    <3>5. QED
      BY <2>1, <3>2, <3>3, <3>4
  <2>2. wanted # {}
    BY <1>2, <1>4, <2>1
  <2>3. PICK i \in wanted : \A j \in wanted : j <= i
    <3>1. wanted \in SUBSET Items
      OBVIOUS
    <3>2. QED
      BY <2>2, <3>1, HighestExists
  <2>4. PICK g \in W : txn[g].pc = "lock" /\ i \in NextToLock(g)
    OBVIOUS
  <2>5. PICK e \in W, j \in wanted :
          txn[e].pc = "lock" /\ j \in NextToLock(g) /\ j \in txn[e].locked
    BY <2>1, <2>4
  <2>6. PICK k \in wanted : k \in NextToLock(e)
    BY <2>1, <2>5
  <2>7. j < k
    BY <2>5, <2>6 DEF LockInv, NextToLock
  <2>8. j <= i /\ i <= j /\ k <= i
    BY <2>3, <2>4, <2>5, <2>6 DEF NextToLock
  <2>9. i \in Int /\ j \in Int /\ k \in Int
    BY ConstantsAssumption
  <2>10. QED
    BY <2>7, <2>8, <2>9
<1>5. QED
  BY <1>3, <1>4

\* So it is in every reachable state.
THEOREM DeadlocksAreDirect == Spec => []DeadlockNeedsDirectCheckout
BY WaitingInCircle, LockInvHolds, RequestsInOrder, PTL

\* However long its items were in the draft, a session completes only over items
\* none of which is archived or on loan: what was checked is locked until then.
THEOREM EveryItemChecked == Spec => CompletionChecksEveryItem
<1>1. ASSUME TypeInv, LockInv, [Next]_vars, NEW s \in Sessions,
             session[s].status = "active", session'[s].status = "completed",
             NEW i \in session[s].items
      PROVE  i \notin archived /\ ~ CheckedOut(i)
  <2>1. PICK d \in Devices : Completes(d, s)
    <3>1. ASSUME NEW d \in Devices, NEW t \in Sessions \ {s},
                 Opens(d, t) \/ Edits(d, t) \/ Abandons(d, t) \/ Completes(d, t)
          PROVE  session'[s] = session[s]
      BY <1>1, <3>1, OtherSessionsStay
    <3>2. ASSUME NEW d \in Devices, Opens(d, s) \/ Edits(d, s) \/ Abandons(d, s) PROVE FALSE
      BY <1>1, <3>2 DEF Opens, Edits, Abandons, NoRow
    <3>3. QED
      BY <1>1, <3>1, <3>2, SessionMoves
  <2>2. txn[d].pc = "finalize" /\ txn[d].id = s /\ Live(i) = {}
    BY <2>1 DEF Completes
  <2>3. ~ CheckedOut(i)
    BY <2>2 DEF Live, CheckedOut, FreeRow
  <2>4. QED
    BY <1>1, <2>2, <2>3 DEF LockInv
<1>2. TypeInv /\ LockInv /\ [Next]_vars =>
        [\A s \in Sessions :
           session[s].status = "active" /\ session'[s].status = "completed" =>
             \A i \in session[s].items : i \notin archived /\ ~ CheckedOut(i)]_vars
  BY <1>1
<1>3. QED
  BY <1>2, LockInvHolds, RequestsInOrder, PTL DEF Spec, CompletionChecksEveryItem

-----------------------------------------------------------------------------
(* No request hangs. *)

\* The step with which a request in flight goes on takes it to a later stage, ends
\* it, or locks another item of the session it completes, which nobody changes.
Advances(d) ==
  \/ txn'[d] = Idle
  \/ txn[d].pc = "open" /\ txn'[d] = [txn[d] EXCEPT !.pc = "reopen"]
  \/ txn[d].pc = "create" /\ \E c \in Checkouts :
                               txn'[d] = [txn[d] EXCEPT !.pc = "created", !.row = c]
  \/ txn[d].pc = "lock" /\ txn'[d] = [txn[d] EXCEPT !.pc = "finalize"]
  \/ /\ txn[d].pc = "lock"
     /\ \E i \in ToLock(d) : txn'[d] = [txn[d] EXCEPT !.locked = @ \cup {i}]

\* One step of d.
LEMMA ProgressAdvances ==
  ASSUME TypeInv, NEW d \in Devices, Progress(d)
  PROVE  txn[d].pc # "idle" /\ Advances(d)
<1>1. Finish(d) => Advances(d)
  BY DEF Finish, Advances, TypeInv, TypeOK
<1>2. CASE OpenInsert(d)
  BY <1>1, <1>2 DEF OpenInsert, Advances, TypeInv, TypeOK
<1>3. CASE FinalizeLockItem(d)
  BY <1>3 DEF FinalizeLockItem, NextToLock, Advances, TypeInv, TypeOK
<1>4. CASE FinalizeValidate(d)
  BY <1>1, <1>4 DEF FinalizeValidate, Advances, TypeInv, TypeOK
<1>5. CASE CreateInsert(d)
  <2>1. ASSUME NEW c \in Free, txn' = [txn EXCEPT ![d].pc = "created", ![d].row = c]
        PROVE  txn'[d] = [txn[d] EXCEPT !.pc = "created", !.row = c] /\ c \in Checkouts
    BY <2>1 DEF TypeInv, TypeOK, Free
  <2>2. QED
    BY <1>1, <1>5, <2>1 DEF CreateInsert, Advances
<1>6. CASE OpenReread(d) \/ AddCommit(d) \/ FinalizeCommit(d) \/ CreateCommit(d)
  BY <1>1, <1>6 DEF OpenReread, AddCommit, FinalizeCommit, CreateCommit
<1>7. CASE DeadlockAbort(d)
  <2>1. txn[d].pc # "idle"
    BY <1>7 DEF DeadlockAbort, WaitsFor
  <2>2. QED
    BY <1>1, <1>7, <2>1 DEF DeadlockAbort
<1>8. QED
  BY <1>2, <1>3, <1>4, <1>5, <1>6, <1>7 DEF Progress

\* A request begins when its device has none in flight.
LEMMA StartsIdle ==
  ASSUME NEW d \in Devices, Start(d)
  PROVE  txn[d].pc = "idle"
BY DEF Start, Request, OpenRead, AbandonSession, FinalizeLock, Fetch, UpdateSession, AddRead,
       RemoveItem, DeleteItem, CreateRead, ReturnCheckout

\* Whoever takes a step.
LEMMA StaysOrAdvances ==
  ASSUME TypeInv, [Next]_vars, NEW d \in Devices, txn[d].pc # "idle"
  PROVE  txn'[d] = txn[d] \/ Advances(d)
<1>1. ASSUME NEW e \in Devices, Progress(e) \/ Start(e), e # d PROVE txn'[d] = txn[d]
  BY <1>1, OtherRequestsStay
<1>2. ASSUME Progress(d) \/ Start(d) PROVE Advances(d)
  BY <1>2, ProgressAdvances, StartsIdle
<1>3. UNCHANGED vars => txn'[d] = txn[d]
  BY DEF vars
<1>4. QED
  BY <1>1, <1>2, <1>3 DEF Next

\* A request that opens a session has read that there is none.
LEMMA OpensFromRead ==
  ASSUME TypeInv, [Next]_vars, NEW d \in Devices, txn[d].pc = "idle", txn'[d].pc = "open"
  PROVE  OpenRead(d) /\ txn' # txn
<1>1. ASSUME NEW e \in Devices, Progress(e) \/ Start(e), e # d PROVE FALSE
  BY <1>1, OtherRequestsStay
<1>2. ~ Progress(d)
  BY ProgressAdvances
<1>3. ASSUME Start(d) PROVE OpenRead(d)
  <2>1. ASSUME NEW i \in Items, AddRead(d, i) \/ RemoveItem(d, i) \/ DeleteItem(d, i) PROVE FALSE
    BY <2>1 DEF AddRead, RemoveItem, DeleteItem, Idle, TypeInv, TypeOK
  <2>2. ASSUME NEW i \in Items, NEW b \in Borrowers, CreateRead(d, i, b) PROVE FALSE
    BY <2>2 DEF CreateRead, Idle, TypeInv, TypeOK
  <2>3. CASE AbandonSession(d) \/ FinalizeLock(d)
    BY <2>3 DEF AbandonSession, FinalizeLock, Idle, TypeInv, TypeOK
  <2>4. CASE \/ \E s \in Sessions : Fetch(d, s)
             \/ \E b \in MaybeBorrower : UpdateSession(d, b)
             \/ \E c \in Checkouts : ReturnCheckout(d, c)
    BY <2>4 DEF Fetch, UpdateSession, ReturnCheckout
  <2>5. QED
    BY <1>3, <2>1, <2>2, <2>3, <2>4 DEF Start
<1>4. UNCHANGED vars => FALSE
  BY DEF vars
<1>5. QED
  BY <1>1, <1>2, <1>3, <1>4 DEF Next

\* There are finitely many items.
LEMMA ItemsFinite == IsFiniteSet(Items)
<1>1. CASE Items # {}
  <2>1. PICK lowest, highest \in Items : Items \in SUBSET (lowest..highest)
    BY <1>1, ItemsAssumption
  <2>2. IsFiniteSet(lowest..highest)
    BY ConstantsAssumption, FS_Interval
  <2>3. QED
    BY <2>1, <2>2, FS_Subset
<1>2. QED
  BY <1>1, FS_EmptySet

\* The most steps a request in flight has left.
StepsLeft(d) ==
  CASE txn[d].pc = "idle" -> 0
    [] txn[d].pc \in {"reopen", "add", "created", "finalize"} -> 1
    [] txn[d].pc \in {"open", "create"} -> 2
    [] txn[d].pc = "lock" -> Cardinality(ToLock(d)) + 2

\* Whoever takes a step, a request in flight stays as it is or has fewer steps left:
\* no request is carried on for ever, and none can send another one back.
RequestsAdvance ==
  [][\A d \in Devices :
       txn[d].pc # "idle" =>
         \/ txn'[d] = txn[d] /\ StepsLeft(d)' = StepsLeft(d)
         \/ StepsLeft(d)' < StepsLeft(d)]_vars

\* What a completion has yet to lock are items.
LEMMA ToLockFinite ==
  ASSUME TypeInv, NEW d \in Devices, txn[d].pc = "lock"
  PROVE  IsFiniteSet(ToLock(d)) /\ Cardinality(ToLock(d)) \in Nat
<1>1. txn[d].id \in Sessions
  BY DEF TypeInv, RequestOK, SessionLockOK, HoldsSession
<1>2. ToLock(d) \in SUBSET Items
  BY <1>1 DEF ToLock, TypeInv, TypeOK, SessionRow, NoRow
<1>3. IsFiniteSet(ToLock(d))
  BY <1>2, ItemsFinite, FS_Subset
<1>4. QED
  BY <1>3, FS_CardinalityType

\* The steps left are a number, and none are left when the request has ended.
LEMMA StepsLeftIs ==
  ASSUME TypeInv, NEW d \in Devices
  PROVE  StepsLeft(d) \in Nat /\ (StepsLeft(d) = 0 <=> txn[d].pc = "idle")
<1>1. txn[d].pc \in {"idle", "open", "reopen", "create", "created", "add", "lock", "finalize"}
  BY DEF TypeInv, TypeOK, Txn
<1>2. CASE txn[d].pc = "lock"
  BY <1>2, ToLockFinite DEF StepsLeft
<1>3. QED
  BY <1>1, <1>2 DEF StepsLeft

\* No request goes on for ever: EveryStepAdvances holds for every number of devices
\* that step in between, and for every number of items.
THEOREM EveryStepAdvances == Spec => RequestsAdvance
<1>1. ASSUME TypeInv, [Next]_vars, NEW d \in Devices, txn[d].pc # "idle"
      PROVE  txn'[d] = txn[d] \/ Advances(d)
  BY <1>1, StaysOrAdvances
<1>2. ASSUME TypeInv, [Next]_vars, NEW d \in Devices, txn[d].pc # "idle"
      PROVE  \/ txn'[d] = txn[d] /\ StepsLeft(d)' = StepsLeft(d)
             \/ StepsLeft(d)' < StepsLeft(d)
  <2>1. StepsLeft(d) \in Nat /\ StepsLeft(d) >= 1
    BY <1>2, StepsLeftIs
  <2>2. CASE txn[d].pc = "lock" /\ txn'[d].pc \in {"lock", "finalize"}
    <3>1. txn'[d].id = txn[d].id /\ session'[txn[d].id] = session[txn[d].id]
      BY <1>2, <2>2, HeldSessionStays
    <3>2. IsFiniteSet(ToLock(d)) /\ Cardinality(ToLock(d)) \in Nat
      BY <1>2, <2>2, ToLockFinite
    <3>3. CASE txn'[d] = txn[d]
      <4>1. ToLock(d)' = ToLock(d)
        BY <3>1, <3>3 DEF ToLock
      <4>2. QED
        BY <2>2, <3>3, <4>1 DEF StepsLeft
    <3>4. ASSUME NEW i \in ToLock(d), txn'[d] = [txn[d] EXCEPT !.locked = @ \cup {i}]
          PROVE  StepsLeft(d)' < StepsLeft(d)
      <4>1. txn'[d].locked = txn[d].locked \cup {i} /\ txn'[d].pc = "lock"
        BY <1>2, <2>2, <3>4 DEF TypeInv, TypeOK, Txn
      <4>2. ToLock(d)' = ToLock(d) \ {i}
        BY <3>1, <4>1 DEF ToLock
      <4>3. Cardinality(ToLock(d) \ {i}) = Cardinality(ToLock(d)) - 1
        BY <3>2, FS_RemoveElement
      <4>4. QED
        BY <2>2, <3>2, <4>1, <4>2, <4>3 DEF StepsLeft
    <3>5. CASE txn'[d].pc = "finalize"
      BY <2>2, <3>2, <3>5 DEF StepsLeft
    <3>6. \/ txn'[d] = txn[d]
          \/ \E i \in ToLock(d) : txn'[d] = [txn[d] EXCEPT !.locked = @ \cup {i}]
          \/ txn'[d] = [txn[d] EXCEPT !.pc = "finalize"]
      <4>1. txn'[d] # Idle
        BY <2>2 DEF Idle
      <4>2. txn'[d] = txn[d] \/ Advances(d)
        BY <1>1, <1>2
      <4>3. QED
        BY <2>2, <4>1, <4>2 DEF Advances
    <3>7. txn'[d] = [txn[d] EXCEPT !.pc = "finalize"] => txn'[d].pc = "finalize"
      BY <1>2 DEF TypeInv, TypeOK, Txn
    <3>8. QED
      BY <3>3, <3>4, <3>5, <3>6, <3>7
  <2>3. CASE txn'[d] = txn[d] /\ txn[d].pc # "lock"
    BY <1>2, <2>3 DEF StepsLeft
  <2>4. CASE txn'[d] = Idle
    <3>1. StepsLeft(d)' = 0
      BY <2>4 DEF StepsLeft, Idle
    <3>2. QED
      BY <2>1, <3>1
  <2>5. CASE \/ txn[d].pc = "open" /\ txn'[d] = [txn[d] EXCEPT !.pc = "reopen"]
             \/ txn[d].pc = "create" /\ \E c \in Checkouts :
                                          txn'[d] = [txn[d] EXCEPT !.pc = "created", !.row = c]
    <3>1. \/ txn[d].pc = "open" /\ txn'[d].pc = "reopen"
          \/ txn[d].pc = "create" /\ txn'[d].pc = "created"
      BY <1>2, <2>5 DEF TypeInv, TypeOK, Txn
    <3>2. QED
      BY <3>1 DEF StepsLeft
  <2>6. CASE \/ txn[d].pc = "lock" /\ txn'[d] = [txn[d] EXCEPT !.pc = "finalize"]
             \/ /\ txn[d].pc = "lock"
                /\ \E i \in ToLock(d) : txn'[d] = [txn[d] EXCEPT !.locked = @ \cup {i}]
    <3>1. txn[d].pc = "lock" /\ txn'[d].pc \in {"lock", "finalize"}
      BY <1>2, <2>6 DEF TypeInv, TypeOK, Txn
    <3>2. QED
      BY <2>2, <3>1
  <2>7. QED
    BY <1>1, <1>2, <2>2, <2>3, <2>4, <2>5, <2>6 DEF Advances
<1>3. TypeInv /\ [Next]_vars =>
        [\A d \in Devices :
           txn[d].pc # "idle" =>
             \/ txn'[d] = txn[d] /\ StepsLeft(d)' = StepsLeft(d)
             \/ StepsLeft(d)' < StepsLeft(d)]_vars
  BY <1>2
<1>4. QED
  BY <1>3, RequestsInOrder, PTL DEF Spec, RequestsAdvance

\* The requests that are about to insert a session.
Opening == {d \in Devices : txn[d].pc = "open"}

\* Each of them has an id left.
Room == Cardinality(Opening) <= Cardinality(Unborn)

\* The sets that are counted are finite.
LEMMA CountedFinite ==
  /\ IsFiniteSet(Opening) /\ Cardinality(Opening) \in Nat
  /\ IsFiniteSet(Unborn) /\ Cardinality(Unborn) \in Nat
<1>1. Opening \in SUBSET Devices /\ Unborn \in SUBSET Sessions
  BY DEF Opening, Unborn
<1>2. IsFiniteSet(Opening) /\ IsFiniteSet(Unborn)
  BY <1>1, FiniteAssumption, FS_Subset
<1>3. QED
  BY <1>2, FS_CardinalityType

\* Whoever reads that there is no session leaves an id for it, and whoever inserts
\* it takes one and is done.
LEMMA RoomStep ==
  ASSUME TypeInv, Room, [Next]_vars
  PROVE  Room'
<1> USE DEF Room
<1>0. /\ IsFiniteSet(Opening) /\ Cardinality(Opening) \in Nat
      /\ IsFiniteSet(Unborn) /\ Cardinality(Unborn) \in Nat
  BY CountedFinite
<1>1. ASSUME NEW d \in Devices, NEW s \in Sessions, Opens(d, s) PROVE Room'
  <2>1. d \in Opening /\ s \in Unborn
    BY <1>1 DEF Opens, Opening, Unborn
  <2>2. Opening' = Opening \ {d}
    BY <1>1 DEF Opens, Opening, Idle, TypeInv, TypeOK
  <2>3. Unborn' = Unborn \ {s}
    BY <1>1 DEF Opens, Unborn, NoRow, TypeInv, TypeOK
  <2>4. /\ Cardinality(Opening \ {d}) = Cardinality(Opening) - 1
        /\ Cardinality(Unborn \ {s}) = Cardinality(Unborn) - 1
    BY <1>0, <2>1, FS_RemoveElement
  <2>5. QED
    BY <1>0, <2>2, <2>3, <2>4
<1>2. ASSUME NEW d \in Devices, OpenRead(d), txn' # txn PROVE Room'
  <2>1. Cardinality(Unborn) > Cardinality(Opening) /\ txn[d].pc = "idle" /\ Unborn' = Unborn
    BY <1>2 DEF OpenRead, Opening, Unborn
  <2>2. Opening' = Opening \cup {d} /\ d \notin Opening
    BY <1>2 DEF OpenRead, Opening, Idle, TypeInv, TypeOK
  <2>3. Cardinality(Opening \cup {d}) = Cardinality(Opening) + 1
    BY <1>0, <2>2, FS_AddElement
  <2>4. QED
    BY <1>0, <2>1, <2>2, <2>3
<1>3. CASE /\ ~ \E d \in Devices, s \in Sessions : Opens(d, s)
           /\ ~ \E d \in Devices : OpenRead(d) /\ txn' # txn
  <2>1. Unborn \subseteq Unborn'
    <3>1. ASSUME NEW d \in Devices, NEW s \in Sessions, NEW t \in Unborn,
                 Edits(d, s) \/ Abandons(d, s) \/ Completes(d, s)
          PROVE  session'[t] = session[t]
      <4>1. t \in Sessions \ {s}
        BY <3>1 DEF Edits, Abandons, Completes, Writes, Active, Unborn, NoRow
      <4>2. QED
        BY <3>1, <4>1, OtherSessionsStay
    <3>2. \A t \in Unborn : session'[t] = session[t]
      BY <1>3, <3>1, SessionMoves
    <3>3. QED
      BY <3>2 DEF Unborn
  <2>2. Opening' \subseteq Opening
    <3> SUFFICES ASSUME NEW e \in Devices, txn'[e].pc = "open" PROVE txn[e].pc = "open"
      BY DEF Opening
    <3>1. CASE txn[e].pc # "idle"
      <4>1. txn'[e] = txn[e] \/ Advances(e)
        BY <3>1, StaysOrAdvances
      <4>2. txn[e] \in Txn
        BY DEF TypeInv, TypeOK
      <4>3. /\ txn'[e] # Idle
            /\ ~ \E c \in Checkouts : txn'[e] = [txn[e] EXCEPT !.pc = "created", !.row = c]
            /\ txn'[e] # [txn[e] EXCEPT !.pc = "finalize"]
        <5>1. txn'[e] # Idle
          BY DEF Idle
        <5>2. ASSUME NEW c \in Checkouts, txn'[e] = [txn[e] EXCEPT !.pc = "created", !.row = c]
              PROVE  FALSE
          BY <4>2, <5>2 DEF Txn
        <5>3. CASE txn'[e] = [txn[e] EXCEPT !.pc = "finalize"]
          BY <4>2, <5>3 DEF Txn
        <5>4. QED
          BY <5>1, <5>2, <5>3
      <4>4. \A i : [txn[e] EXCEPT !.locked = @ \cup {i}].pc = txn[e].pc
        BY <4>2 DEF Txn
      <4>5. QED
        BY <4>1, <4>3, <4>4 DEF Advances
    <3>2. CASE txn[e].pc = "idle"
      BY <1>3, <3>2, OpensFromRead
    <3>3. QED
      BY <3>1, <3>2
  <2>3. /\ IsFiniteSet(Opening') /\ Cardinality(Opening') \in Nat
        /\ IsFiniteSet(Unborn') /\ Cardinality(Unborn') \in Nat
    <3>1. Opening' \in SUBSET Devices /\ Unborn' \in SUBSET Sessions
      BY DEF Opening, Unborn
    <3>2. IsFiniteSet(Opening') /\ IsFiniteSet(Unborn')
      BY <3>1, FiniteAssumption, FS_Subset
    <3>3. QED
      BY <3>2, FS_CardinalityType
  <2>4. Cardinality(Unborn) <= Cardinality(Unborn') /\ Cardinality(Opening') <= Cardinality(Opening)
    <3>1. IsFiniteSet(Unborn')
      BY <2>3
    <3>2. QED
      BY <1>0, <2>1, <2>2, <3>1, FS_Subset
  <2>5. QED
    BY <1>0, <2>3, <2>4
<1>4. QED
  BY <1>1, <1>2, <1>3

\* The session of an insert is there to be inserted, in every reachable state.
LEMMA RoomHolds == Spec => []Room
<1>1. Init => Room
  <2> SUFFICES ASSUME Init PROVE Cardinality(Opening) <= Cardinality(Unborn)
    BY DEF Room
  <2>1. Opening = {}
    BY DEF Init, Opening, Idle
  <2>2. QED
    BY <2>1, CountedFinite, FS_EmptySet
<1>2. TypeInv /\ Room /\ [Next]_vars => Room'
  BY RoomStep
<1>3. QED
  BY <1>1, <1>2, RequestsInOrder, PTL DEF Spec

\* A row that is not committed belongs to the direct checkout that inserted it.
PendingOwned ==
  \A c \in Checkouts :
    checkout[c].status = "pending" =>
      \E d \in Devices :
        txn[d].pc = "created" /\ txn[d].row = c /\ txn[d].item = checkout[c].item

\* The row goes, or is committed, when its request ends.
LEMMA PendingStep ==
  ASSUME TypeInv, PendingOwned, [Next]_vars
  PROVE  PendingOwned'
<1> DEFINE Owned(c) == \E e \in Devices : /\ txn'[e].pc = "created" /\ txn'[e].row = c
                                          /\ txn'[e].item = checkout'[c].item
<1> SUFFICES ASSUME NEW c \in Checkouts, checkout'[c].status = "pending" PROVE Owned(c)
  BY DEF PendingOwned
<1>1. ASSUME NEW d \in Devices, Progress(d) \/ Start(d), checkout'[c] = checkout[c],
             ~ (txn[d].pc = "created" /\ txn[d].row = c)
      PROVE  Owned(c)
  <2>1. PICK e \in Devices : /\ txn[e].pc = "created" /\ txn[e].row = c
                             /\ txn[e].item = checkout[c].item
    BY <1>1 DEF PendingOwned
  <2>2. txn'[e] = txn[e]
    BY <1>1, <2>1, OtherRequestsStay
  <2>3. QED
    BY <1>1, <2>1, <2>2
<1>2. ASSUME NEW d \in Devices, CreateInsert(d) PROVE Owned(c)
  <2>1. ~ (txn[d].pc = "created" /\ txn[d].row = c) /\ Progress(d)
    BY <1>2 DEF CreateInsert, Progress
  <2>2. CASE UNCHANGED checkout
    BY <1>1, <2>1, <2>2
  <2>3. ASSUME NEW r \in Free,
               checkout' = [checkout EXCEPT ![r] =
                 [status |-> "pending", item |-> txn[d].item, borrower |-> txn[d].borrower,
                  by |-> UserOf[d]]],
               txn' = [txn EXCEPT ![d].pc = "created", ![d].row = r]
        PROVE  Owned(c)
    <3>1. CASE c = r
      <4>1. /\ txn'[d].pc = "created" /\ txn'[d].row = r /\ txn'[d].item = txn[d].item
        BY <2>3 DEF TypeInv, TypeOK, Txn
      <4>2. checkout'[c].item = txn[d].item
        BY <2>3, <3>1 DEF TypeInv, TypeOK
      <4>3. QED
        BY <3>1, <4>1, <4>2
    <3>2. CASE c # r
      <4>1. checkout'[c] = checkout[c]
        BY <2>3, <3>2 DEF TypeInv, TypeOK
      <4>2. QED
        BY <1>1, <2>1, <4>1
    <3>3. QED
      BY <3>1, <3>2
  <2>4. QED
    BY <1>2, <2>2, <2>3 DEF CreateInsert
<1>3. ASSUME NEW d \in Devices, CreateCommit(d) PROVE Owned(c)
  <2>1. txn[d].pc = "created" /\ txn[d].row \in Checkouts /\ Progress(d)
    BY <1>3 DEF CreateCommit, Progress, TypeInv, RequestOK, DirectOK
  <2>2. checkout' = [checkout EXCEPT ![txn[d].row].status = "active"]
    BY <1>3 DEF CreateCommit
  <2>3. c # txn[d].row
    <3>1. checkout[txn[d].row] \in CheckoutRow
      BY <2>1 DEF TypeInv, TypeOK, RequestOK, DirectOK, FreeRow
    <3>2. checkout'[txn[d].row].status = "active"
      BY <2>1, <2>2, <3>1 DEF TypeInv, TypeOK, CheckoutRow
    <3>3. QED
      BY <3>2
  <2>4. checkout'[c] = checkout[c]
    BY <2>2, <2>3 DEF TypeInv, TypeOK
  <2>5. QED
    BY <1>1, <2>1, <2>3, <2>4
<1>4. ASSUME NEW d \in Devices, DeadlockAbort(d) PROVE Owned(c)
  <2>1. checkout'[c] = IF txn[d].row = c THEN FreeRow ELSE checkout[c]
    BY <1>4 DEF DeadlockAbort
  <2>2. txn[d].row # c /\ checkout'[c] = checkout[c]
    BY <2>1 DEF FreeRow
  <2>3. QED
    BY <1>1, <1>4, <2>2 DEF Progress
<1>5. ASSUME NEW d \in Devices, FinalizeCommit(d) PROVE Owned(c)
  <2>1. checkout'[c] = checkout[c]
    <3>1. CASE UNCHANGED checkout
      BY <3>1
    <3>2. ASSUME NEW rowOf, checkout' = [e \in Checkouts |->
                   IF \E i \in ToLend(txn[d].id) : rowOf[i] = e
                   THEN [status |-> "active", item |-> CHOOSE i \in ToLend(txn[d].id) : rowOf[i] = e,
                         borrower |-> session[txn[d].id].borrower, by |-> UserOf[d]]
                   ELSE checkout[e]]
          PROVE  checkout'[c] = checkout[c]
      <4>1. CASE \E i \in ToLend(txn[d].id) : rowOf[i] = c
        BY <3>2, <4>1
      <4>2. CASE ~ \E i \in ToLend(txn[d].id) : rowOf[i] = c
        BY <3>2, <4>2
      <4>3. QED
        BY <4>1, <4>2
    <3>3. QED
      BY <1>5, <3>1, <3>2 DEF FinalizeCommit
  <2>2. txn[d].pc # "created" /\ Progress(d)
    BY <1>5 DEF FinalizeCommit, Progress
  <2>3. QED
    BY <1>1, <2>1, <2>2
<1>6. ASSUME NEW d \in Devices,
             \/ OpenInsert(d) \/ OpenReread(d) \/ AddCommit(d)
             \/ FinalizeLockItem(d) \/ FinalizeValidate(d)
      PROVE  Owned(c)
  <2>1. txn[d].pc # "created" /\ checkout' = checkout
    BY <1>6 DEF OpenInsert, OpenReread, AddCommit, FinalizeLockItem, FinalizeValidate
  <2>2. QED
    BY <1>1, <1>6, <2>1 DEF Progress
<1>7. ASSUME NEW d \in Devices, Start(d) PROVE Owned(c)
  <2>1. txn[d].pc # "created"
    BY <1>7, StartsIdle
  <2>2. ASSUME NEW r \in Checkouts, ReturnCheckout(d, r) PROVE checkout'[c] = checkout[c]
    <3>1. checkout' = [checkout EXCEPT ![r] = FreeRow]
      BY <2>2 DEF ReturnCheckout
    <3>2. c # r
      BY <3>1 DEF FreeRow, TypeInv, TypeOK
    <3>3. QED
      BY <3>1, <3>2 DEF TypeInv, TypeOK
  <2>3. CASE ~ \E r \in Checkouts : ReturnCheckout(d, r)
    <3>1. checkout' = checkout
      BY <1>7, <2>3 DEF Start, OpenRead, AbandonSession, FinalizeLock, Fetch, UpdateSession,
                        AddRead, RemoveItem, DeleteItem, CreateRead
    <3>2. QED
      BY <1>1, <1>7, <2>1, <3>1
  <2>4. QED
    BY <1>1, <1>7, <2>1, <2>2, <2>3
<1>8. CASE UNCHANGED vars
  BY <1>8 DEF vars, PendingOwned
<1>9. QED
  BY <1>2, <1>3, <1>4, <1>5, <1>6, <1>7, <1>8 DEF Next, Progress

\* So it is in every reachable state.
LEMMA PendingHolds == Spec => []PendingOwned
<1>1. Init => PendingOwned
  BY DEF Init, PendingOwned, FreeRow
<1>2. TypeInv /\ PendingOwned /\ [Next]_vars => PendingOwned'
  BY PendingStep
<1>3. QED
  BY <1>1, <1>2, RequestsInOrder, PTL DEF Spec

\* What is left of a finite set without some of its elements.
LEMMA WithoutSome ==
  ASSUME NEW A, IsFiniteSet(A), NEW B \in SUBSET A
  PROVE  /\ IsFiniteSet(A \ B) /\ IsFiniteSet(B)
         /\ Cardinality(A) \in Nat /\ Cardinality(B) \in Nat /\ Cardinality(A \ B) \in Nat
         /\ Cardinality(A \ B) = Cardinality(A) - Cardinality(B)
<1>1. A \cap B = B
  OBVIOUS
<1>2. IsFiniteSet(A \ B) /\ Cardinality(A \ B) = Cardinality(A) - Cardinality(A \cap B)
  BY FS_Difference
<1>3. IsFiniteSet(B)
  BY FS_Subset
<1>4. QED
  BY <1>1, <1>2, <1>3, FS_CardinalityType

\* Items on which no row is live have a free row each: the other rows of as many
\* ids as there are items are live for different ones of the other items.
LEMMA RowsEnough ==
  ASSUME TypeInv, OneActiveCheckoutPerItem,
         NEW S \in SUBSET Items, \A i \in S : Live(i) = {}
  PROVE  RowsFor(S) # {}
<1>1. PICK idOf \in [Items -> Checkouts] : \A i, j \in Items : idOf[i] = idOf[j] => i = j
  BY RowsAssumption
<1> DEFINE ids == {idOf[i] : i \in Items}
           used == ids \ Free
           left == ids \ used
<1>2. IsFiniteSet(ids) /\ Cardinality(ids) = Cardinality(Items)
  <2>1. idOf \in [Items -> ids] /\ \A c \in ids : \E i \in Items : idOf[i] = c
    BY <1>1
  <2>2. idOf \in Injection(Items, ids) /\ idOf \in Surjection(Items, ids)
    BY <1>1, <2>1 DEF Injection, IsInjective, Surjection
  <2>3. ExistsBijection(Items, ids)
    BY <2>2 DEF Bijection, ExistsBijection
  <2>4. QED
    BY <2>3, ItemsFinite, FS_Bijection
<1>3. /\ IsFiniteSet(S) /\ IsFiniteSet(Items \ S)
      /\ Cardinality(Items) \in Nat /\ Cardinality(S) \in Nat /\ Cardinality(Items \ S) \in Nat
      /\ Cardinality(Items \ S) = Cardinality(Items) - Cardinality(S)
  BY ItemsFinite, WithoutSome
<1>4. Cardinality(used) <= Cardinality(Items \ S)
  <2> DEFINE itemOf == [c \in used |-> checkout[c].item]
  <2>1. ASSUME NEW c \in used
        PROVE  c \in Checkouts /\ checkout[c] # FreeRow /\ checkout[c].item \in Items \ S
    <3>1. c \in Checkouts /\ checkout[c] # FreeRow
      BY <1>1 DEF Free
    <3>2. checkout[c].item \in Items
      BY <3>1 DEF TypeInv, TypeOK, CheckoutRow
    <3>3. checkout[c].item \notin S
      BY <3>1 DEF Live
    <3>4. QED
      BY <3>1, <3>2, <3>3
  <2>2. \A c, e \in used : checkout[c].item = checkout[e].item => c = e
    BY <2>1 DEF OneActiveCheckoutPerItem
  <2> HIDE DEF used
  <2>3. itemOf \in Injection(used, Items \ S)
    BY <2>1, <2>2 DEF Injection, IsInjective
  <2>4. QED
    BY <1>3, <2>3, FS_Injection
<1>5. IsFiniteSet(left) /\ Cardinality(S) <= Cardinality(left)
  <2>1. used \in SUBSET ids
    OBVIOUS
  <2> HIDE DEF used, ids
  <2>2. /\ IsFiniteSet(left) /\ Cardinality(used) \in Nat
        /\ Cardinality(left) = Cardinality(ids) - Cardinality(used)
    BY <1>2, <2>1, WithoutSome
  <2>3. QED
    BY <1>2, <1>3, <1>4, <2>2
<1>6. left \subseteq Free
  OBVIOUS
<1> HIDE DEF left
<1>7. PICK f \in Bijection(1..Cardinality(left), left) : Cardinality(left) \in Nat
  BY <1>5, FS_CardinalityType DEF ExistsBijection
<1>8. PICK g \in Bijection(1..Cardinality(S), S) : TRUE
  BY <1>3, FS_CardinalityType DEF ExistsBijection
<1> DEFINE position == [i \in S |-> CHOOSE n \in 1..Cardinality(S) : g[n] = i]
           rowOf == [i \in S |-> f[position[i]]]
<1>9. \A i \in S : position[i] \in 1..Cardinality(S) /\ g[position[i]] = i
  BY <1>8 DEF Bijection, Surjection
<1>10. \A i \in S : position[i] \in 1..Cardinality(left)
  BY <1>3, <1>5, <1>7, <1>9
<1> HIDE DEF position
<1>11. rowOf \in [S -> Free]
  BY <1>6, <1>7, <1>10 DEF Bijection, Injection, IsInjective
<1>12. ASSUME NEW i \in S, NEW j \in S, f[position[i]] = f[position[j]] PROVE i = j
  <2>1. position[i] = position[j]
    BY <1>7, <1>10, <1>12 DEF Bijection, Injection, IsInjective
  <2>2. QED
    BY <1>9, <2>1
<1>13. rowOf \in RowsFor(S)
  BY <1>11, <1>12 DEF RowsFor
<1>14. QED
  BY <1>13

\* A row that is not free is committed, or its request is.
LEMMA LiveIs ==
  ASSUME TypeInv, NEW i \in Items, ~ Reserved(i), ~ CheckedOut(i)
  PROVE  Live(i) = {}
BY DEF TypeInv, TypeOK, CheckoutRow, Live, Reserved, CheckedOut

\* A request that waits for nobody can go on.
LEMMA FreeToGoOn ==
  ASSUME TypeInv, LockInv, Room, PendingOwned, OneActiveCheckoutPerItem,
         NEW d \in InFlight, WaitsFor(d) = {}
  PROVE  MayGoOn(d)
<1>1. /\ d \in Devices
      /\ txn[d].pc \in {"open", "reopen", "create", "created", "add", "lock", "finalize"}
  BY DEF InFlight, TypeInv, TypeOK, Txn
<1>2. CASE txn[d].pc = "open"
  <2>1. d \in Opening /\ Opening # {}
    BY <1>1, <1>2 DEF Opening
  <2>2. Cardinality(Opening) # 0 /\ Cardinality(Opening) \in Nat /\ Cardinality(Unborn) \in Nat
    BY <2>1, CountedFinite, FS_EmptySet
  <2>3. Unborn # {}
    BY <2>2, CountedFinite, FS_EmptySet DEF Room
  <2>4. QED
    BY <1>2, <2>3 DEF MayGoOn
<1>3. CASE txn[d].pc = "reopen"
  BY <1>3 DEF MayGoOn
<1>4. CASE txn[d].pc \in {"add", "created"}
  <2>1. ItemFree(d, txn[d].item)
    BY <1>4 DEF WaitsFor, ItemFree
  <2>2. QED
    BY <1>4, <2>1 DEF MayGoOn
<1>5. CASE txn[d].pc = "lock" /\ ToLock(d) # {}
  <2>1. ToLock(d) \in SUBSET Items
    <3>1. txn[d].id \in Sessions
      BY <1>1, <1>5 DEF TypeInv, RequestOK, SessionLockOK, HoldsSession
    <3>2. QED
      BY <3>1 DEF ToLock, TypeInv, TypeOK, SessionRow, NoRow
  <2>2. PICK i \in ToLock(d) : i \in NextToLock(d)
    BY <1>5, <2>1, LowestExists DEF NextToLock
  <2>3. ItemFree(d, i)
    BY <1>5, <2>2 DEF WaitsFor, ItemFree
  <2>4. QED
    BY <1>5, <2>2, <2>3 DEF MayGoOn
<1>6. CASE txn[d].pc = "lock" /\ ToLock(d) = {}
  BY <1>6 DEF MayGoOn
<1>7. CASE txn[d].pc = "create"
  <2>1. txn[d].item \in Items
    BY <1>1, <1>7 DEF TypeInv, RequestOK, DirectOK
  <2>2. ~ Reserved(txn[d].item)
    BY <1>7 DEF WaitsFor, Reserved, PendingOwned
  <2>3. CASE Live(txn[d].item) = {}
    <3>1. RowsFor({txn[d].item}) # {}
      BY <2>1, <2>3, RowsEnough
    <3>2. Free # {}
      BY <3>1 DEF RowsFor
    <3>3. QED
      BY <1>7, <2>3, <3>2 DEF MayGoOn
  <2>4. CASE CheckedOut(txn[d].item)
    BY <1>7, <2>4 DEF MayGoOn
  <2>5. QED
    BY <2>1, <2>2, <2>3, <2>4, LiveIs
<1>8. CASE txn[d].pc = "finalize"
  <2> DEFINE items == ToLend(txn[d].id)
  <2>1. items \in SUBSET Items
    <3>1. txn[d].id \in Sessions
      BY <1>1, <1>8 DEF TypeInv, RequestOK, SessionLockOK, HoldsSession
    <3>2. QED
      BY <3>1 DEF ToLend, TypeInv, TypeOK, SessionRow, NoRow
  <2>2. \A i \in items : ~ Reserved(i)
    BY <1>8 DEF WaitsFor, Reserved, PendingOwned, ToLend
  <2>3. CASE \E i \in items : CheckedOut(i)
    BY <1>8, <2>2, <2>3 DEF MayGoOn
  <2>4. CASE ~ \E i \in items : CheckedOut(i)
    <3>1. \A i \in items : Live(i) = {}
      BY <2>1, <2>2, <2>4, LiveIs
    <3>2. RowsFor(items) # {}
      BY <2>1, <3>1, RowsEnough
    <3>3. QED
      BY <1>8, <2>2, <3>1, <3>2 DEF MayGoOn
  <2>5. QED
    BY <2>3, <2>4
<1>9. QED
  BY <1>1, <1>2, <1>3, <1>4, <1>5, <1>6, <1>7, <1>8

\* Only requests in flight are waited for.
LEMMA WaitsForInFlight ==
  ASSUME LockInv, NEW d \in Devices
  PROVE  WaitsFor(d) \subseteq InFlight
BY DEF WaitsFor, LockInv, InFlight

\* Requests in flight that wait for no others in flight have one among them that
\* can go on.
SomebodyMayGoOn ==
  \A some \in (SUBSET InFlight) \ {{}} :
    (\A d \in some : WaitsFor(d) \cap InFlight \subseteq some) => \E d \in some : MayGoOn(d)

\* However many requests hold and wait for each other's locks, rows and index
\* entries: either one of them waits for nobody, and finds the ids and the rows that
\* its step takes, or they wait in a circle and the database aborts one.
THEOREM NobodyStuck == Spec => []SomebodyMayGoOn
<1>1. ASSUME TypeInv, LockInv, Room, PendingOwned, OneActiveCheckoutPerItem,
             NEW some \in SUBSET InFlight, some # {},
             \A d \in some : WaitsFor(d) \cap InFlight \subseteq some
      PROVE  \E d \in some : MayGoOn(d)
  <2>1. some \subseteq Devices
    BY DEF InFlight
  <2>2. \A d \in some : WaitsFor(d) \subseteq some
    BY <1>1, <2>1, WaitsForInFlight
  <2>3. CASE \A d \in some : WaitsFor(d) # {}
    <3>1. \A d \in some : WaitsFor(d) \cap some # {}
      BY <2>2, <2>3
    <3>2. DeadlockNeedsDirectCheckout
      BY <1>1, WaitingInCircle
    <3>3. PICK d, e \in some : e \in WaitsFor(d) /\ d \in WaitsFor(e)
      BY <1>1, <2>1, <3>1, <3>2 DEF DeadlockNeedsDirectCheckout
    <3>4. QED
      BY <3>3 DEF MayGoOn
  <2>4. CASE \E d \in some : WaitsFor(d) = {}
    BY <1>1, <2>4, FreeToGoOn
  <2>5. QED
    BY <2>3, <2>4
<1>2. TypeInv /\ LockInv /\ Room /\ PendingOwned /\ OneActiveCheckoutPerItem => SomebodyMayGoOn
  BY <1>1 DEF SomebodyMayGoOn
<1>3. QED
  BY <1>2, RequestsInOrder, LockInvHolds, RoomHolds, PendingHolds, CustodyExclusive, PTL

\* NobodyHangs in every state in which the guards of Progress are what MayGoOn says.
THEOREM NobodyHangsByGuards ==
  Spec => []((\A d \in Devices : MayGoOn(d) => ENABLED Progress(d)) => NobodyHangs)
<1>1. SomebodyMayGoOn =>
        ((\A d \in Devices : MayGoOn(d) => ENABLED Progress(d)) => NobodyHangs)
  BY DEF SomebodyMayGoOn, NobodyHangs, InFlight
<1>2. QED
  BY <1>1, NobodyStuck, PTL

-----------------------------------------------------------------------------
\* LendInv holds in every reachable state.
LEMMA LendInvHolds == Spec => []LendInv
<1>1. Init => LendInv
  BY DEF Init, LendInv, OneCart, NotEmpty, Active, NoRow, Idle
<1>2. TypeInv /\ LendInv /\ [Next]_vars => LendInv'
  BY OneCartStep, NotEmptyStep DEF LendInv
<1>3. QED
  BY <1>1, <1>2, RequestsInOrder, PTL DEF Spec

-----------------------------------------------------------------------------
(* What a step does to the rows of checkouts. *)

\* A direct checkout inserts its row.
Reserves(d, c) ==
  /\ txn[d].pc = "create"
  /\ txn[d].item \in Items /\ txn[d].borrower \in Borrowers
  /\ checkout[c] = FreeRow
  /\ checkout' = [checkout EXCEPT ![c] =
       [status |-> "pending", item |-> txn[d].item, borrower |-> txn[d].borrower,
        by |-> UserOf[d]]]

\* And commits it.
Commits(c) ==
  /\ checkout[c].status = "pending"
  /\ checkout' = [checkout EXCEPT ![c].status = "active"]

\* A row is returned or rolled back.
Frees(c) == checkout' = [checkout EXCEPT ![c] = FreeRow]

\* Every other step leaves the rows alone.
LEMMA CheckoutMoves ==
  ASSUME TypeInv, [Next]_vars
  PROVE  \/ UNCHANGED checkout
         \/ \E d \in Devices, s \in Sessions : Completes(d, s)
         \/ /\ UNCHANGED session
            /\ \E c \in Checkouts : \/ \E d \in Devices : Reserves(d, c)
                                    \/ Commits(c)
                                    \/ Frees(c)
<1> DEFINE Goal == \/ UNCHANGED checkout
                   \/ \E d \in Devices, s \in Sessions : Completes(d, s)
                   \/ /\ UNCHANGED session
                      /\ \E c \in Checkouts : \/ \E d \in Devices : Reserves(d, c)
                                              \/ Commits(c)
                                              \/ Frees(c)
<1>1. ASSUME NEW d \in Devices, FinalizeCommit(d) PROVE Goal
  <2>1. CASE UNCHANGED <<checkout, session>>
    BY <2>1
  <2>2. CASE ~ UNCHANGED <<checkout, session>>
    <3>1. txn[d].id \in Sessions /\ session[txn[d].id] \in SessionRow
      BY <1>1 DEF FinalizeCommit, TypeInv, TypeOK, RequestOK, SessionLockOK, HoldsSession, NoRow
    <3>2. session' = [session EXCEPT ![txn[d].id].status = "completed",
                                     ![txn[d].id].revision = Bump(txn[d].id)]
      BY <1>1, <2>2 DEF FinalizeCommit
    <3>3. session'[txn[d].id].status = "completed"
      BY <3>1, <3>2 DEF TypeInv, TypeOK, SessionRow
    <3>4. session[txn[d].id].status = "active"
      BY <1>1 DEF FinalizeCommit, TypeInv, RequestOK, SessionLockOK, HoldsSession
    <3>5. \A e \in Devices, s \in Sessions : ~ Opens(e, s) /\ ~ Edits(e, s) /\ ~ Abandons(e, s)
      BY <3>1, <3>3, <3>4 DEF Opens, Edits, Abandons, Writes, Active, NoRow, TypeInv, TypeOK
    <3>6. ~ UNCHANGED session
      BY <3>3, <3>4
    <3>7. QED
      BY <3>5, <3>6, SessionMoves
  <2>3. QED
    BY <2>1, <2>2
<1>2. ASSUME NEW d \in Devices, CreateInsert(d) PROVE Goal
  <2>1. txn[d].pc = "create" /\ txn[d].item \in Items /\ txn[d].borrower \in Borrowers
    BY <1>2 DEF CreateInsert, TypeInv, RequestOK, DirectOK
  <2>2. ASSUME NEW c \in Free,
               checkout' = [checkout EXCEPT ![c] =
                 [status |-> "pending", item |-> txn[d].item, borrower |-> txn[d].borrower,
                  by |-> UserOf[d]]]
        PROVE  c \in Checkouts /\ Reserves(d, c)
    BY <2>1, <2>2 DEF Free, Reserves
  <2>3. QED
    BY <1>2, <2>2 DEF CreateInsert
<1>3. ASSUME NEW d \in Devices, CreateCommit(d) PROVE Goal
  <2>1. txn[d].row \in Checkouts /\ Commits(txn[d].row)
    BY <1>3 DEF CreateCommit, Commits, TypeInv, RequestOK, DirectOK
  <2>2. QED
    BY <1>3, <2>1 DEF CreateCommit
<1>4. ASSUME NEW d \in Devices, DeadlockAbort(d) PROVE Goal
  <2>1. checkout' = [c \in Checkouts |-> IF txn[d].row = c THEN FreeRow ELSE checkout[c]]
    BY <1>4 DEF DeadlockAbort
  <2>2. CASE txn[d].row \in Checkouts
    BY <1>4, <2>1, <2>2 DEF DeadlockAbort, Frees, TypeInv, TypeOK
  <2>3. CASE txn[d].row \notin Checkouts
    BY <2>1, <2>3 DEF TypeInv, TypeOK
  <2>4. QED
    BY <2>2, <2>3
<1>5. ASSUME NEW d \in Devices, NEW c \in Checkouts, ReturnCheckout(d, c) PROVE Goal
  BY <1>5 DEF ReturnCheckout, Frees
<1>6. QED
  BY <1>1, <1>2, <1>3, <1>4, <1>5, Writers

\* A session, a request and a row are written for a borrower their user may lend to.
LEMMA OwnBorrowersStep ==
  ASSUME TypeInv, OwnBorrowers, [Next]_vars
  PROVE  OwnBorrowers'
<1>1. ASSUME NEW s \in Sessions, session'[s].status = "active"
      PROVE  MayLendTo(session'[s].actor, session'[s].borrower)
  <2>1. CASE session'[s] = session[s]
    BY <1>1, <2>1 DEF OwnBorrowers, Active
  <2>2. ASSUME NEW d \in Devices, Opens(d, s)
        PROVE  MayLendTo(session'[s].actor, session'[s].borrower)
    BY <2>2 DEF Opens, InitialBorrower, MayLendTo, TypeInv, TypeOK
  <2>3. ASSUME NEW d \in Devices, Edits(d, s)
        PROVE  MayLendTo(session'[s].actor, session'[s].borrower)
    BY <2>3 DEF Edits, Writes, OwnBorrowers, Active
  <2>4. ASSUME NEW d \in Devices, Abandons(d, s) \/ Completes(d, s) PROVE FALSE
    BY <1>1, <2>4 DEF Abandons, Completes
  <2>5. ASSUME NEW d \in Devices, NEW t \in Sessions \ {s},
               Opens(d, t) \/ Edits(d, t) \/ Abandons(d, t) \/ Completes(d, t)
        PROVE  session'[s] = session[s]
    BY <2>5, OtherSessionsStay
  <2>6. QED
    BY <2>1, <2>2, <2>3, <2>4, <2>5, SessionMoves
<1>2. ASSUME NEW e \in Devices, txn'[e].pc = "create"
      PROVE  MayLendTo(UserOf[e], txn'[e].borrower)
  <2>1. CASE txn'[e] = txn[e]
    BY <1>2, <2>1 DEF OwnBorrowers
  <2>2. CASE FinalizeLock(e)
    BY <1>2, <2>2 DEF FinalizeLock, TypeInv, TypeOK, Idle
  <2>3. ASSUME NEW i \in Items, NEW b \in Borrowers, CreateRead(e, i, b)
        PROVE  MayLendTo(UserOf[e], txn'[e].borrower)
    BY <2>3 DEF CreateRead, TypeInv, TypeOK, Idle
  <2>4. CASE FinalizeLockItem(e)
    BY <1>2, <2>4 DEF FinalizeLockItem, TypeInv, TypeOK, Txn
  <2>5. CASE txn'[e] = [txn[e] EXCEPT !.pc = "finalize"]
    BY <1>2, <2>5 DEF TypeInv, TypeOK, Txn
  <2>6. QED
    BY <1>2, <2>1, <2>2, <2>3, <2>4, <2>5, RequestMoves
<1>3. ASSUME NEW c \in Checkouts, checkout'[c] # FreeRow
      PROVE  MayLendTo(checkout'[c].by, checkout'[c].borrower)
  <2>1. CASE checkout'[c] = checkout[c]
    BY <1>3, <2>1 DEF OwnBorrowers
  <2>2. ASSUME NEW d \in Devices, Reserves(d, c)
        PROVE  MayLendTo(checkout'[c].by, checkout'[c].borrower)
    BY <2>2 DEF Reserves, OwnBorrowers, TypeInv, TypeOK
  <2>3. CASE Commits(c)
    <3>1. checkout[c] \in CheckoutRow
      BY <2>3 DEF Commits, TypeInv, TypeOK, FreeRow
    <3>2. checkout'[c].by = checkout[c].by /\ checkout'[c].borrower = checkout[c].borrower
      BY <2>3, <3>1 DEF Commits, TypeInv, TypeOK, CheckoutRow
    <3>3. checkout[c] # FreeRow
      BY <2>3 DEF Commits, FreeRow
    <3>4. QED
      BY <3>2, <3>3 DEF OwnBorrowers
  <2>4. CASE Frees(c)
    BY <1>3, <2>4 DEF Frees, TypeInv, TypeOK
  <2>5. ASSUME NEW e \in Checkouts \ {c},
               Commits(e) \/ Frees(e) \/ \E d \in Devices : Reserves(d, e)
        PROVE  checkout'[c] = checkout[c]
    BY <2>5 DEF Reserves, Commits, Frees, TypeInv, TypeOK
  <2>6. ASSUME NEW d \in Devices, NEW s \in Sessions, Completes(d, s)
        PROVE  \/ checkout'[c] = checkout[c]
               \/ /\ checkout'[c].by = session[s].actor
                  /\ checkout'[c].borrower = session[s].borrower
                  /\ Active(s)
    BY <2>6 DEF Completes, Writes
  <2>7. QED
    BY <2>1, <2>2, <2>3, <2>4, <2>5, <2>6, CheckoutMoves DEF OwnBorrowers
<1>4. QED
  BY <1>1, <1>2, <1>3 DEF OwnBorrowers, Active

\* A borrower-role user never holds an item under somebody else's profile, by a
\* direct checkout or through a session, whoever edits it meanwhile.
THEOREM ForThemselves == Spec => []BorrowersOnlyForThemselves
<1>1. Init => OwnBorrowers
  BY DEF Init, OwnBorrowers, Active, NoRow, Idle
<1>2. TypeInv /\ OwnBorrowers /\ [Next]_vars => OwnBorrowers'
  BY OwnBorrowersStep
<1>3. OwnBorrowers => BorrowersOnlyForThemselves
  BY DEF OwnBorrowers, BorrowersOnlyForThemselves, MayLendTo
<1>4. QED
  BY <1>1, <1>2, <1>3, RequestsInOrder, PTL DEF Spec

-----------------------------------------------------------------------------
(* Carts and loans. *)

Content(s) == [items |-> session[s].items, borrower |-> session[s].borrower]

Carts == [u \in Users |-> CartOf(u)]

\* The cart of a user is the content of the one active session.
LEMMA CartIs ==
  ASSUME OneCart, NEW s \in Sessions, Active(s), NEW u, session[s].actor = u
  PROVE  CartOf(u) = Content(s)
<1>1. ActiveOf(u) = {s}
  BY DEF OneCart, Active, ActiveOf
<1>2. QED
  BY <1>1 DEF CartOf, Content

\* And so it is after a step.
LEMMA CartWillBe ==
  ASSUME OneCart', NEW s \in Sessions, session'[s].status = "active", NEW u, session'[s].actor = u
  PROVE  CartOf(u)' = Content(s)'
<1>1. ActiveOf(u)' = {s}
  BY DEF OneCart, Active, ActiveOf
<1>2. QED
  BY <1>1 DEF CartOf, Content

\* Nobody else's cart changes with a session.
LEMMA CartsChange ==
  ASSUME OneCart, OneCart', NEW v \in Users, NEW s \in Sessions,
         \A t \in Sessions \ {s} : session'[t] = session[t],
         Active(s) => session[s].actor = v,
         session'[s].status = "active" => session'[s].actor = v,
         NEW x, CartOf(v)' = x
  PROVE  Carts' = [Carts EXCEPT ![v] = x]
<1>1. ASSUME NEW u \in Users, u # v PROVE CartOf(u)' = CartOf(u)
  <2>1. ActiveOf(u)' = ActiveOf(u) /\ s \notin ActiveOf(u)
    BY <1>1 DEF ActiveOf, Active
  <2>2. CASE ActiveOf(u) = {}
    BY <2>1, <2>2 DEF CartOf
  <2>3. ASSUME NEW t \in ActiveOf(u) PROVE CartOf(u)' = CartOf(u)
    <3>1. /\ t \in Sessions \ {s} /\ Active(t) /\ session[t].actor = u
          /\ session'[t] = session[t]
      BY <2>1 DEF ActiveOf, Active
    <3>2. CartOf(u) = Content(t)
      BY <3>1, CartIs
    <3>3. CartOf(u)' = Content(t)'
      BY <3>1, CartWillBe DEF Active
    <3>4. QED
      BY <3>1, <3>2, <3>3 DEF Content
  <2>4. QED
    BY <2>2, <2>3
<1>2. QED
  BY <1>1 DEF Carts

\* Sessions that do not change leave the carts alone.
LEMMA CartsStay == UNCHANGED session => Carts' = Carts
BY DEF Carts, CartOf, ActiveOf

\* A row is a loan while it is active.
LEMMA LoansStay ==
  ASSUME \A c \in Checkouts :
           checkout[c].status = "active" \/ checkout'[c].status = "active"
             => checkout'[c] = checkout[c]
  PROVE  Loans' = Loans
BY DEF Loans

\* A reservation is not a loan.
LEMMA ReservesLoans ==
  ASSUME TypeInv, NEW d \in Devices, NEW c \in Checkouts, Reserves(d, c)
  PROVE  Loans' = Loans
<1>1. /\ checkout[c].status = "free" /\ checkout'[c].status = "pending"
      /\ \A e \in Checkouts \ {c} : checkout'[e] = checkout[e]
  BY DEF Reserves, FreeRow, TypeInv, TypeOK
<1>2. QED
  BY <1>1, LoansStay

\* A committed row is a new loan of an item that nobody has.
LEMMA CommitsLends ==
  ASSUME TypeInv, OneActiveCheckoutPerItem, NEW c \in Checkouts, Commits(c)
  PROVE  \E i \in Items, b \in Borrowers :
           i \notin Abstract!OnLoan /\ Loans' = Loans \cup {<<i, b>>}
<1> DEFINE i == checkout[c].item
           b == checkout[c].borrower
<1>1. checkout[c] \in CheckoutRow /\ checkout[c] # FreeRow
  BY DEF Commits, TypeInv, TypeOK, FreeRow
<1>2. /\ checkout'[c].status = "active" /\ checkout'[c].item = i /\ checkout'[c].borrower = b
      /\ checkout[c].status = "pending"
      /\ \A e \in Checkouts \ {c} : checkout'[e] = checkout[e]
  BY <1>1 DEF Commits, TypeInv, TypeOK, CheckoutRow
<1>3. \A e \in Checkouts : checkout[e].status = "active" => checkout[e].item # i
  BY <1>1, <1>2 DEF OneActiveCheckoutPerItem, FreeRow
<1>4. i \notin Abstract!OnLoan
  BY <1>3 DEF Abstract!OnLoan, Loans
<1>5. Loans' = Loans \cup {<<i, b>>}
  BY <1>2 DEF Loans
<1>6. i \in Items /\ b \in Borrowers
  BY <1>1 DEF CheckoutRow
<1>7. QED
  BY <1>4, <1>5, <1>6

\* A row that goes takes its loan along, if it was one.
LEMMA FreesLoans ==
  ASSUME TypeInv, OneActiveCheckoutPerItem, NEW c \in Checkouts, Frees(c)
  PROVE  Loans' = Loans \/ \E l \in Loans : Loans' = Loans \ {l}
<1>1. /\ checkout'[c] = FreeRow
      /\ \A e \in Checkouts \ {c} : checkout'[e] = checkout[e]
  BY DEF Frees, TypeInv, TypeOK
<1>2. CASE checkout[c].status # "active"
  BY <1>1, <1>2, LoansStay DEF FreeRow
<1>3. CASE checkout[c].status = "active"
  <2> DEFINE l == <<checkout[c].item, checkout[c].borrower>>
  <2>1. l \in Loans
    BY <1>3 DEF Loans
  <2>2. \A e \in Checkouts \ {c} :
          checkout[e].status = "active" => checkout[e].item # checkout[c].item
    BY <1>3 DEF OneActiveCheckoutPerItem, FreeRow
  <2>3. ASSUME NEW p \in Loans' PROVE p \in Loans \ {l}
    <3>1. PICK e \in Checkouts : checkout'[e].status = "active"
                                 /\ p = <<checkout'[e].item, checkout'[e].borrower>>
      BY DEF Loans
    <3>2. e # c /\ checkout'[e] = checkout[e]
      BY <1>1, <3>1 DEF FreeRow
    <3>3. QED
      BY <2>2, <3>1, <3>2 DEF Loans
  <2>4. ASSUME NEW p \in Loans \ {l} PROVE p \in Loans'
    <3>1. PICK e \in Checkouts : checkout[e].status = "active"
                                 /\ p = <<checkout[e].item, checkout[e].borrower>>
      BY DEF Loans
    <3>2. e # c /\ checkout'[e] = checkout[e]
      BY <1>1, <3>1
    <3>3. QED
      BY <3>1, <3>2 DEF Loans
  <2>5. Loans' = Loans \ {l}
    BY <2>3, <2>4
  <2>6. QED
    BY <2>1, <2>5
<1>4. QED
  BY <1>2, <1>3

\* A completion lends the whole cart, of which nothing was on loan.
LEMMA CompletesLends ==
  ASSUME TypeInv, NEW d \in Devices, NEW s \in Sessions, Completes(d, s)
  PROVE  /\ Loans' = Loans \cup (session[s].items \X {session[s].borrower})
         /\ session[s].items \cap Abstract!OnLoan = {}
<1> DEFINE items == session[s].items
           b == session[s].borrower
<1>1. PICK rowOf \in [items -> Free] :
        /\ \A i, j \in items : rowOf[i] = rowOf[j] => i = j
        /\ checkout' = [c \in Checkouts |->
             IF \E i \in items : rowOf[i] = c
             THEN [status |-> "active", item |-> CHOOSE i \in items : rowOf[i] = c,
                   borrower |-> b, by |-> UserOf[d]]
             ELSE checkout[c]]
  BY DEF Completes
<1> DEFINE New(c) == \E i \in items : rowOf[i] = c
<1>2. \A c \in Checkouts : New(c) =>
        /\ checkout[c].status = "free"
        /\ checkout'[c].status = "active"
        /\ checkout'[c].item \in items
        /\ rowOf[checkout'[c].item] = c
        /\ checkout'[c].borrower = b
  BY <1>1 DEF Free, FreeRow
<1>3. \A c \in Checkouts : ~ New(c) => checkout'[c] = checkout[c]
  BY <1>1
<1>4. \A i \in items : rowOf[i] \in Checkouts /\ New(rowOf[i])
  BY DEF Free
<1>5. \A i \in items : checkout'[rowOf[i]].item = i
  BY <1>1, <1>2, <1>4
<1> HIDE DEF New
<1>6. ASSUME NEW p \in Loans' PROVE p \in Loans \cup (items \X {b})
  <2>1. PICK c \in Checkouts : checkout'[c].status = "active"
                               /\ p = <<checkout'[c].item, checkout'[c].borrower>>
    BY DEF Loans
  <2>2. CASE New(c)
    BY <1>2, <2>1, <2>2
  <2>3. CASE ~ New(c)
    BY <1>3, <2>1, <2>3 DEF Loans
  <2>4. QED
    BY <2>2, <2>3
<1>7. ASSUME NEW p \in Loans PROVE p \in Loans'
  <2>1. PICK c \in Checkouts : checkout[c].status = "active"
                               /\ p = <<checkout[c].item, checkout[c].borrower>>
    BY DEF Loans
  <2>2. checkout'[c] = checkout[c]
    BY <1>2, <1>3, <2>1
  <2>3. QED
    BY <2>1, <2>2 DEF Loans
<1>8. ASSUME NEW i \in items PROVE <<i, b>> \in Loans'
  BY <1>2, <1>4, <1>5 DEF Loans
<1>9. Loans' = Loans \cup (items \X {b})
  BY <1>6, <1>7, <1>8
<1>10. ASSUME NEW i \in items PROVE i \notin Abstract!OnLoan
  <2>1. \A c \in Checkouts : checkout[c].item = i => checkout[c] = FreeRow
    BY DEF Completes, Live
  <2>2. QED
    BY <2>1 DEF Abstract!OnLoan, Loans, FreeRow
<1>11. QED
  BY <1>9, <1>10

-----------------------------------------------------------------------------
\* Each step of the backend is one of Lending, or leaves loans and carts alone.
LEMMA StepImplements ==
  ASSUME TypeInv, LendInv, LendInv', OneActiveCheckoutPerItem, [Next]_vars
  PROVE  [Abstract!Next]_(Abstract!vars)
<1> USE DEF LendInv
<1>1. UserOf \in [Devices -> Users] /\ TypeInv'
  BY ConstantsAssumption, NextTypeInv
<1>2. ASSUME NEW d \in Devices, NEW s \in Sessions, Opens(d, s) PROVE Abstract!Next
  <2> DEFINE u == UserOf[d]
             b == InitialBorrower(u)
  <2>1. u \in Users /\ b \in Borrowers \cup {NoBorrower}
    BY <1>1, ConstantsAssumption DEF InitialBorrower
  <2>2. Carts[u] = Nothing
    BY <1>2, <2>1 DEF Opens, Carts, CartOf
  <2>3. /\ session'[s].status = "active" /\ session'[s].actor = u
        /\ session'[s].items = {} /\ session'[s].borrower = b
        /\ \A t \in Sessions \ {s} : session'[t] = session[t]
        /\ ~ Active(s)
    BY <1>2 DEF Opens, Active, NoRow, TypeInv, TypeOK
  <2>4. CartOf(u)' = [items |-> {}, borrower |-> b]
    BY <2>3, CartWillBe DEF Content
  <2>5. Carts' = [Carts EXCEPT ![u] = [items |-> {}, borrower |-> b]]
    BY <2>1, <2>3, <2>4, CartsChange
  <2>6. Loans' = Loans
    BY <1>2, LoansStay DEF Opens
  <2>7. Abstract!Begin(u, b)
    BY <2>2, <2>5, <2>6 DEF Abstract!Begin, Carts
  <2>8. QED
    BY <2>1, <2>7 DEF Abstract!Next
<1>3. ASSUME NEW d \in Devices, NEW s \in Sessions, Writes(UserOf[d], s)
      PROVE  /\ Carts[UserOf[d]] = Content(s)
             /\ Content(s) # Nothing
             /\ \A x : CartOf(UserOf[d])' = x => Carts' = [Carts EXCEPT ![UserOf[d]] = x]
  <2>1. Active(s) /\ session[s].actor = UserOf[d] /\ UserOf[d] \in Users
    BY <1>1, <1>3 DEF Writes
  <2>2. Carts[UserOf[d]] = Content(s)
    BY <2>1, CartIs DEF Carts
  <2>3. Content(s) \in [items : SUBSET Items, borrower : MaybeBorrower]
    BY <2>1 DEF Content, TypeInv, TypeOK, SessionRow, NoRow, Active
  <2>4. ASSUME NEW x, CartOf(UserOf[d])' = x PROVE Carts' = [Carts EXCEPT ![UserOf[d]] = x]
    BY <1>3, <2>1, <2>4, CartsChange DEF Writes
  <2>5. QED
    BY <2>2, <2>3, <2>4, NoCartAssumption
<1>4. ASSUME NEW d \in Devices, NEW s \in Sessions, Edits(d, s) PROVE Abstract!Next
  <2> DEFINE u == UserOf[d]
             c == [items |-> session'[s].items, borrower |-> session'[s].borrower]
  <2>1. u \in Users /\ Writes(u, s) /\ session'[s].status = "active" /\ session'[s].actor = u
    BY <1>1, <1>4 DEF Edits, Writes
  <2>2. c \in Abstract!Cart
    BY <1>1, <2>1 DEF Abstract!Cart, TypeInv, TypeOK, SessionRow, NoRow, MaybeBorrower
  <2>3. CartOf(u)' = c
    BY <2>1, CartWillBe DEF Content
  <2> HIDE DEF c
  <2>4. Carts' = [Carts EXCEPT ![u] = c] /\ Carts[u] # Nothing
    BY <1>3, <2>1, <2>3
  <2>5. Loans' = Loans
    BY <1>4, LoansStay DEF Edits
  <2>6. Abstract!Change(u, c)
    BY <2>4, <2>5 DEF Abstract!Change, Carts
  <2>7. QED
    BY <2>1, <2>2, <2>6 DEF Abstract!Next
<1>5. ASSUME NEW d \in Devices, NEW s \in Sessions, Writes(UserOf[d], s),
             session'[s].status # "active"
      PROVE  Carts' = [Carts EXCEPT ![UserOf[d]] = Nothing]
  <2>1. ActiveOf(UserOf[d])' = {}
    BY <1>5 DEF Writes, ActiveOf, Active, OneCart
  <2>2. CartOf(UserOf[d])' = Nothing
    BY <2>1 DEF CartOf
  <2>3. QED
    BY <1>3, <1>5, <2>2
<1>6. ASSUME NEW d \in Devices, NEW s \in Sessions, Abandons(d, s) PROVE Abstract!Next
  <2> DEFINE u == UserOf[d]
  <2>1. u \in Users /\ Writes(u, s) /\ session'[s].status # "active"
    BY <1>1, <1>6 DEF Abandons
  <2>2. Carts' = [Carts EXCEPT ![u] = Nothing] /\ Carts[u] # Nothing
    BY <1>3, <1>5, <2>1
  <2>3. Loans' = Loans
    BY <1>6, LoansStay DEF Abandons
  <2>4. Abstract!Discard(u)
    BY <2>2, <2>3 DEF Abstract!Discard, Carts
  <2>5. QED
    BY <2>1, <2>4 DEF Abstract!Next
<1>7. ASSUME NEW d \in Devices, NEW s \in Sessions, Completes(d, s) PROVE Abstract!Next
  <2> DEFINE u == UserOf[d]
  <2>1. /\ u \in Users /\ Writes(u, s) /\ session'[s].status # "active"
        /\ txn[d].pc = "finalize" /\ txn[d].id = s
    BY <1>1, <1>7 DEF Completes
  <2>2. Carts' = [Carts EXCEPT ![u] = Nothing] /\ Carts[u] = Content(s) /\ Content(s) # Nothing
    BY <1>3, <1>5, <2>1
  <2>3. Content(s).items = session[s].items /\ Content(s).borrower = session[s].borrower
    BY DEF Content
  <2>4. session[s].items # {} /\ session[s].borrower # NoBorrower
    BY <2>1 DEF NotEmpty, TypeInv, RequestOK, FinalizeOK
  <2>5. /\ Loans' = Loans \cup (session[s].items \X {session[s].borrower})
        /\ session[s].items \cap Abstract!OnLoan = {}
    BY <1>7, CompletesLends
  <2>6. Abstract!Complete(u)
    <3>1. Carts[u].items = session[s].items /\ Carts[u].borrower = session[s].borrower
      BY <2>2, <2>3
    <3>2. /\ Carts[u] # Nothing /\ Carts[u].items # {} /\ Carts[u].borrower # NoBorrower
          /\ Carts[u].items \cap Abstract!OnLoan = {}
          /\ Loans' = Loans \cup (Carts[u].items \X {Carts[u].borrower})
      BY <2>2, <2>4, <2>5, <3>1
    <3>3. QED
      BY <2>2, <3>2 DEF Abstract!Complete, Carts
  <2>7. QED
    BY <2>1, <2>6 DEF Abstract!Next
<1>8. CASE UNCHANGED session
  <2>1. Carts' = Carts
    BY <1>8, CartsStay
  <2>2. CASE Loans' = Loans
    BY <2>1, <2>2 DEF Abstract!vars, Carts
  <2>3. ASSUME NEW c \in Checkouts, Commits(c) PROVE Abstract!Next
    <3>1. PICK i \in Items, b \in Borrowers :
            i \notin Abstract!OnLoan /\ Loans' = Loans \cup {<<i, b>>}
      BY <2>3, CommitsLends
    <3>2. Abstract!Lend(i, b)
      BY <2>1, <3>1 DEF Abstract!Lend, Carts
    <3>3. QED
      BY <3>2 DEF Abstract!Next
  <2>4. ASSUME NEW l \in Loans, Loans' = Loans \ {l} PROVE Abstract!Next
    <3>1. Abstract!GiveBack(l)
      BY <2>1, <2>4 DEF Abstract!GiveBack, Carts
    <3>2. QED
      BY <3>1 DEF Abstract!Next
  <2>5. ASSUME NEW d \in Devices, NEW s \in Sessions, Completes(d, s) PROVE FALSE
    BY <1>8, <2>5 DEF Completes, Writes, Active
  <2>6. UNCHANGED checkout => Loans' = Loans
    BY LoansStay
  <2>7. QED
    BY <2>2, <2>3, <2>4, <2>5, <2>6, ReservesLoans, FreesLoans, CheckoutMoves
<1>9. QED
  BY <1>2, <1>4, <1>6, <1>7, <1>8, SessionMoves

\* Locks, revisions and direct checkouts in flight are invisible: a cart becomes
\* loans all at once or not at all, and an item is lent to one borrower at a time.
THEOREM Implements == Spec => ImplementsLending
<1>1. Init => Abstract!Init
  <2> SUFFICES ASSUME Init PROVE Abstract!Init
    OBVIOUS
  <2>1. Loans = {}
    BY DEF Init, Loans, FreeRow
  <2>2. \A u \in Users : CartOf(u) = Nothing
    BY DEF Init, CartOf, ActiveOf, NoRow
  <2>3. QED
    BY <2>1, <2>2 DEF Abstract!Init
<1>2. TypeInv /\ LendInv /\ LendInv' /\ OneActiveCheckoutPerItem /\ [Next]_vars =>
        [Abstract!Next]_(Abstract!vars)
  BY StepImplements
<1>3. QED
  BY <1>1, <1>2, RequestsInOrder, LendInvHolds, CustodyExclusive, PTL
  DEF Spec, ImplementsLending, Abstract!Spec
=============================================================================
