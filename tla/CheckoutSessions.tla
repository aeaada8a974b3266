-------------------------- MODULE CheckoutSessions --------------------------
(***************************************************************************)
(* The checkout component of the backend: direct checkouts, returns, and   *)
(* the multi-item checkout sessions that several devices of one user edit  *)
(* together (backend/app/application/checkouts/capabilities.py), over the  *)
(* row locks and the two partial unique indexes of PostgreSQL (READ        *)
(* COMMITTED).                                                             *)
(*                                                                         *)
(* One workspace.  A device runs one request at a time; a request that     *)
(* holds a row lock from its first read to its commit and reads nothing    *)
(* that another table can change is one action, any other is one action    *)
(* for each read or write another request can come between.                *)
(*                                                                         *)
(* A definition marked Fault is used by no action: it is a mistake in the  *)
(* definition after it that the property in parentheses would catch.       *)
(***************************************************************************)
EXTENDS Integers, FiniteSets

CONSTANTS Items,        \* item ids; an integer, because ids are ordered
          Users,        \* acting users with a membership
          Owners,       \* the users with the owner role, the others are borrowers
          Borrowers,    \* borrower profiles
          ProfileOf,    \* the profile linked to each borrower-role user
          Devices,      \* clients, each serving one user
          UserOf,       \* the user of each device
          Sessions,     \* ids for checkout sessions
          Checkouts,    \* ids for checkout rows, used again after a return
          MaxRevision,  \* bound on a session's revision counter
          Archivable,   \* bound: the items that may be archived
          NoBorrower, NoView, Nothing

ASSUME ConstantsAssumption ==
  /\ Items \subseteq Int
  /\ Archivable \subseteq Items
  /\ Owners \subseteq Users
  /\ ProfileOf \in [Users \ Owners -> Borrowers]
  /\ UserOf \in [Devices -> Users]
  /\ MaxRevision \in Nat \ {0}
  /\ NoBorrower \notin Borrowers
  /\ Nothing \notin Items \cup Sessions \cup Checkouts \cup Users

VARIABLES archived,  \* items with is_archived
          session,   \* rows of checkout_sessions with their items
          checkout,  \* rows of checkouts, uncommitted ones included
          view,      \* the session each device last read
          txn        \* the request each device has in flight

vars == <<archived, session, checkout, view, txn>>

-----------------------------------------------------------------------------
MaybeBorrower == Borrowers \cup {NoBorrower}

SessionRow == [actor : Users, status : {"active", "completed", "abandoned"},
               borrower : MaybeBorrower, revision : 1..MaxRevision, items : SUBSET Items]

NoRow == [actor |-> Nothing, status |-> "absent", borrower |-> NoBorrower,
          revision |-> 0, items |-> {}]

\* A row of checkouts with no returned_at; "pending" until its transaction commits.
CheckoutRow == [status : {"pending", "active"}, item : Items, borrower : Borrowers, by : Users]

\* No row, or a returned one: nothing in this component reads it again.
FreeRow == [status |-> "free", item |-> Nothing, borrower |-> NoBorrower, by |-> Nothing]

View == [id : Sessions, revision : 1..MaxRevision, borrower : MaybeBorrower,
         items : SUBSET Items]

\* The table of items is finite.
ASSUME ItemsAssumption ==
  Items # {} => \E lowest, highest \in Items : Items \subseteq lowest..highest

\* So are the clients, and the ids of this instance, which OpenRead counts.
ASSUME FiniteAssumption == IsFiniteSet(Devices) /\ IsFiniteSet(Sessions)

\* An id for a row is there when one is needed: a row for each item.
ASSUME RowsAssumption ==
  \E rowOf \in [Items -> Checkouts] : \A i, j \in Items : rowOf[i] = rowOf[j] => i = j

ASSUME NoViewAssumption == NoView \notin View

ASSUME NoCartAssumption == Nothing \notin [items : SUBSET Items, borrower : MaybeBorrower]

Txn == [pc : {"idle", "open", "reopen", "create", "created", "add", "lock", "finalize"},
        id : Sessions \cup {Nothing}, item : Items \cup {Nothing},
        borrower : MaybeBorrower, row : Checkouts \cup {Nothing}, locked : SUBSET Items]

Idle == [pc |-> "idle", id |-> Nothing, item |-> Nothing, borrower |-> NoBorrower,
         row |-> Nothing, locked |-> {}]

\* Fault: an off-by-one in the revision the response carries (TypeOK).
SnapshotBehind(s) == [id |-> s, revision |-> session[s].revision - 1,
                      borrower |-> session[s].borrower, items |-> session[s].items]

Snapshot(s) == [id |-> s, revision |-> session[s].revision,
                borrower |-> session[s].borrower, items |-> session[s].items]

\* The bound Sessions: ids no session has yet.
Unborn == {s \in Sessions : session[s] = NoRow}

ActiveOf(u) == {s \in Sessions : session[s].status = "active" /\ session[s].actor = u}

\* Fault: an index that sees committed rows only (OneActiveCheckoutPerItem).
LiveCommitted(i) == {c \in Checkouts : checkout[c].status = "active" /\ checkout[c].item = i}

\* Rows under the partial index uq_checkout_active_item, committed or not.
Live(i) == {c \in Checkouts : checkout[c] # FreeRow /\ checkout[c].item = i}

Free == {c \in Checkouts : checkout[c] = FreeRow}

\* One new row for each of the items.
RowsFor(items) == {rowOf \in [items -> Free] : \A i, j \in items : rowOf[i] = rowOf[j] => i = j}

CheckedOut(i) == \E c \in Checkouts : checkout[c].status = "active" /\ checkout[c].item = i

Reserved(i) == \E c \in Checkouts : checkout[c].status = "pending" /\ checkout[c].item = i

\* Fault: the session read without FOR UPDATE (SettledSessionsFrozen).
SessionUnlocked(s) == TRUE

\* SELECT ... FOR UPDATE on a session row is granted: no request in flight holds it.
SessionFree(s) == \A e \in Devices : txn[e].pc \in {"add", "lock", "finalize"} => txn[e].id # s

\* No other transaction holds FOR UPDATE on the item, so an UPDATE of it, or the
\* KEY SHARE lock of a foreign-key check, is granted.
ItemFree(d, i) == \A e \in Devices \ {d} : i \notin txn[e].locked

\* require_editable_session with lock=True
Editable(d, s) == /\ SessionFree(s)
                  /\ session[s].status = "active"
                  /\ session[s].actor = UserOf[d]

\* A request of device d on the session it shows.
Request(d) == txn[d].pc = "idle" /\ view[d] # NoView

\* Fault: a change that forgets the revision (RevisionIdentifiesContent).
BumpForgotten(s) == session[s].revision

Bump(s) == session[s].revision + 1

Bounded(s) == session[s].revision < MaxRevision

\* Fault: the expected revision is not compared (ConfirmedContentIsCheckedOut).
Unchecked(d, s) == TRUE

Fresh(d, s) == session[s].revision = view[d].revision

\* Fault: the role is not looked at (BorrowersOnlyForThemselves).
AnyProfile(u, b) == TRUE

\* Owners act for every borrower, a borrower only for the linked profile.
MayLendTo(u, b) == u \notin Owners => b = ProfileOf[u]

\* Fault: an error path that keeps the row locks (NobodyHangs).
FinishHoldingLocks(d) == txn' = [txn EXCEPT ![d] = [Idle EXCEPT !.locked = txn[d].locked]]

Finish(d) == txn' = [txn EXCEPT ![d] = Idle]
-----------------------------------------------------------------------------
Init == /\ archived = {}
        /\ session = [s \in Sessions |-> NoRow]
        /\ checkout = [c \in Checkouts |-> FreeRow]
        /\ view = [d \in Devices |-> NoView]
        /\ txn = [d \in Devices |-> Idle]

\* A device reads an active session: list_checkout_sessions, or the body of a
\* response.  A response that is lost is a read that is not taken.  The row and its
\* items are two SELECTs without a lock, so the items may be newer than the revision.
Fetch(d, s) ==
  /\ txn[d].pc = "idle"
  /\ \/ /\ session[s].status = "active"
        /\ UserOf[d] \in Owners \/ session[s].actor = UserOf[d]
        /\ view' = [view EXCEPT ![d] = Snapshot(s)]
     \/ /\ view[d] # NoView /\ view[d].id = s
        /\ view' = [view EXCEPT ![d].items = session[s].items]
  /\ UNCHANGED <<archived, session, checkout, txn>>

(* get_or_create_active_session: read, insert, and read again on a conflict. *)
OpenRead(d) ==
  /\ txn[d].pc = "idle"
  /\ IF ActiveOf(UserOf[d]) # {}
     THEN /\ \E s \in ActiveOf(UserOf[d]) : view' = [view EXCEPT ![d] = Snapshot(s)]
          /\ UNCHANGED txn
     ELSE /\ Cardinality(Unborn) > Cardinality({e \in Devices : txn[e].pc = "open"})
          /\ txn' = [txn EXCEPT ![d] = [Idle EXCEPT !.pc = "open"]]
          /\ UNCHANGED view
  /\ UNCHANGED <<archived, session, checkout>>

InitialBorrower(u) == IF u \in Owners THEN NoBorrower ELSE ProfileOf[u]

MayOpen(u) == ActiveOf(u) = {}

\* uq_checkout_session_active_actor lets the row in only if the user has no active one.
OpenInsert(d) ==
  /\ txn[d].pc = "open"
  /\ IF MayOpen(UserOf[d])
     THEN \E s \in Unborn :
            /\ session' = [session EXCEPT ![s] =
                 [actor |-> UserOf[d], status |-> "active",
                  borrower |-> InitialBorrower(UserOf[d]), revision |-> 1, items |-> {}]]
            /\ view' = [view EXCEPT ![d] =
                 [id |-> s, revision |-> 1, borrower |-> InitialBorrower(UserOf[d]), items |-> {}]]
            /\ Finish(d)
     ELSE /\ txn' = [txn EXCEPT ![d].pc = "reopen"]
          /\ UNCHANGED <<session, view>>
  /\ UNCHANGED <<archived, checkout>>

\* The winner's session may be gone again by now; then the IntegrityError is raised.
OpenReread(d) ==
  /\ txn[d].pc = "reopen"
  /\ IF ActiveOf(UserOf[d]) # {}
     THEN \E s \in ActiveOf(UserOf[d]) : view' = [view EXCEPT ![d] = Snapshot(s)]
     ELSE UNCHANGED view
  /\ Finish(d)
  /\ UNCHANGED <<archived, session, checkout>>

(* update_active_session *)
UpdateSession(d, b) ==
  /\ Request(d)
  /\ LET s == view[d].id IN
       /\ Editable(d, s)
       /\ Fresh(d, s)
       /\ MayLendTo(UserOf[d], b)
       /\ Bounded(s)
       /\ session' = [session EXCEPT ![s].borrower = b, ![s].revision = Bump(s)]
  /\ UNCHANGED <<archived, checkout, view, txn>>

(* add_session_item: the session row stays locked from AddRead to AddCommit. *)
AddRead(d, i) ==
  /\ Request(d)
  /\ Editable(d, view[d].id)
  /\ Bounded(view[d].id)
  /\ i \notin archived
  /\ ~ CheckedOut(i)
  /\ txn' = [txn EXCEPT ![d] = [Idle EXCEPT !.pc = "add", !.id = view[d].id, !.item = i]]
  /\ UNCHANGED <<archived, session, checkout, view>>

AddCommit(d) ==
  /\ txn[d].pc = "add"
  /\ LET s == txn[d].id
         i == txn[d].item
     IN \/ /\ i \notin session[s].items
           /\ ItemFree(d, i)
           /\ session' = [session EXCEPT ![s].items = @ \cup {i}, ![s].revision = Bump(s)]
        \/ /\ i \in session[s].items
           /\ UNCHANGED session
  /\ Finish(d)
  /\ UNCHANGED <<archived, checkout, view>>

(* remove_session_item *)
RemoveItem(d, i) ==
  /\ Request(d)
  /\ LET s == view[d].id IN
       /\ Editable(d, s)
       /\ i \in session[s].items
       /\ Bounded(s)
       /\ session' = [session EXCEPT ![s].items = @ \ {i}, ![s].revision = Bump(s)]
  /\ UNCHANGED <<archived, checkout, view, txn>>

(* abandon_session *)
AbandonSession(d) ==
  /\ Request(d)
  /\ LET s == view[d].id IN
       /\ Editable(d, s)
       /\ Bounded(s)
       /\ session' = [session EXCEPT ![s].status = "abandoned", ![s].revision = Bump(s)]
  /\ UNCHANGED <<archived, checkout, view, txn>>

(* finalize_session: the revision the device shows, then the item locks in id *)
(* order, then the availability of every item, then all the rows at once.     *)
FinalizeLock(d) ==
  /\ Request(d)
  /\ LET s == view[d].id IN
       /\ Editable(d, s)
       /\ Fresh(d, s)
       /\ session[s].borrower # NoBorrower
       /\ MayLendTo(UserOf[d], session[s].borrower)
       /\ session[s].items # {}
       /\ Bounded(s)
       /\ txn' = [txn EXCEPT ![d] = [Idle EXCEPT !.pc = "lock", !.id = s]]
  /\ UNCHANGED <<archived, session, checkout, view>>

ToLock(d) == session[txn[d].id].items \ txn[d].locked

\* Fault: no ORDER BY under FOR UPDATE (DeadlockNeedsDirectCheckout).
AnyToLock(d) == ToLock(d)

NextToLock(d) == {i \in ToLock(d) : \A j \in ToLock(d) : i <= j}

FinalizeLockItem(d) ==
  /\ txn[d].pc = "lock"
  /\ \E i \in NextToLock(d) :
       /\ ItemFree(d, i)
       /\ txn' = [txn EXCEPT ![d].locked = @ \cup {i}]
  /\ UNCHANGED <<archived, session, checkout, view>>

\* Fault: archived items are not looked for (CompletionChecksEveryItem).
AvailableOrArchived(i) == ~ CheckedOut(i)

Available(i) == i \notin archived /\ ~ CheckedOut(i)

FinalizeValidate(d) ==
  /\ txn[d].pc = "lock"
  /\ ToLock(d) = {}
  /\ IF \A i \in session[txn[d].id].items : Available(i)
     THEN txn' = [txn EXCEPT ![d].pc = "finalize"]
     ELSE Finish(d)
  /\ UNCHANGED <<archived, session, checkout, view>>

\* Fault: items lost to another request are skipped (ImplementsLending).
ToLendStill(s) == {i \in session[s].items : Live(i) = {}}

ToLend(s) == session[s].items

\* The unique index makes the insert wait for an uncommitted row of another
\* transaction, and fail on a committed one (IntegrityError, rolled back).
FinalizeCommit(d) ==
  /\ txn[d].pc = "finalize"
  /\ LET s == txn[d].id
         items == ToLend(s)
     IN /\ \A i \in items : ~ Reserved(i)
        /\ \/ /\ \A i \in items : Live(i) = {}
              /\ \E rowOf \in RowsFor(items) :
                   checkout' = [c \in Checkouts |->
                     IF \E i \in items : rowOf[i] = c
                     THEN [status |-> "active", item |-> CHOOSE i \in items : rowOf[i] = c,
                           borrower |-> session[s].borrower, by |-> UserOf[d]]
                     ELSE checkout[c]]
              /\ session' = [session EXCEPT ![s].status = "completed", ![s].revision = Bump(s)]
           \/ /\ \E i \in items : CheckedOut(i)
              /\ UNCHANGED <<checkout, session>>
  /\ Finish(d)
  /\ UNCHANGED <<archived, view>>

(* create_checkout: two reads without a lock, the insert, the foreign-key check. *)
CreateRead(d, i, b) ==
  /\ txn[d].pc = "idle"
  /\ Available(i)
  /\ MayLendTo(UserOf[d], b)
  /\ txn' = [txn EXCEPT ![d] = [Idle EXCEPT !.pc = "create", !.item = i, !.borrower = b]]
  /\ UNCHANGED <<archived, session, checkout, view>>

CreateInsert(d) ==
  /\ txn[d].pc = "create"
  /\ LET i == txn[d].item IN
       \/ /\ Live(i) = {}
          /\ \E c \in Free :
               /\ checkout' = [checkout EXCEPT ![c] =
                    [status |-> "pending", item |-> i, borrower |-> txn[d].borrower,
                     by |-> UserOf[d]]]
               /\ txn' = [txn EXCEPT ![d].pc = "created", ![d].row = c]
       \/ /\ CheckedOut(i)
          /\ Finish(d)
          /\ UNCHANGED checkout
  /\ UNCHANGED <<archived, session, view>>

CreateCommit(d) ==
  /\ txn[d].pc = "created"
  /\ ItemFree(d, txn[d].item)
  /\ checkout' = [checkout EXCEPT ![txn[d].row].status = "active"]
  /\ Finish(d)
  /\ UNCHANGED <<archived, session, view>>

(* return_checkout *)
ReturnCheckout(d, c) ==
  /\ txn[d].pc = "idle"
  /\ checkout[c].status = "active"
  /\ MayLendTo(UserOf[d], checkout[c].borrower)
  /\ checkout' = [checkout EXCEPT ![c] = FreeRow]
  /\ UNCHANGED <<archived, session, view, txn>>

(* delete_item archives the item, checked out or not; the UPDATE waits for a *)
(* finalize that holds the row.                                              *)
DeleteItem(d, i) ==
  /\ txn[d].pc = "idle"
  /\ i \in Archivable \ archived
  /\ ItemFree(d, i)
  /\ archived' = archived \cup {i}
  /\ UNCHANGED <<session, checkout, view, txn>>

-----------------------------------------------------------------------------
\* d cannot go on before every transaction of WaitsFor(d) has ended.
WaitsFor(d) ==
  CASE txn[d].pc = "lock" -> {e \in Devices \ {d} : NextToLock(d) \cap txn[e].locked # {}}
    [] txn[d].pc = "add" -> {e \in Devices \ {d} : txn[d].item \in txn[e].locked}
    [] txn[d].pc = "created" -> {e \in Devices \ {d} : txn[d].item \in txn[e].locked}
    [] txn[d].pc = "create" ->
         {e \in Devices : txn[e].pc = "created" /\ txn[e].item = txn[d].item}
    [] txn[d].pc = "finalize" ->
         {e \in Devices : txn[e].pc = "created" /\ txn[e].item \in session[txn[d].id].items}
    [] OTHER -> {}

\* PostgreSQL finds the cycle and aborts one transaction of it; the error is no
\* IntegrityError, so the request ends with a server error.  The rows it
\* inserted are gone.
DeadlockAbort(d) ==
  /\ \E e \in WaitsFor(d) : d \in WaitsFor(e)
  /\ checkout' = [c \in Checkouts |->
       IF txn[d].row = c THEN FreeRow ELSE checkout[c]]
  /\ Finish(d)
  /\ UNCHANGED <<archived, session, view>>

\* The steps a request in flight takes without its device.
Progress(d) == \/ OpenInsert(d) \/ OpenReread(d) \/ AddCommit(d)
               \/ FinalizeLockItem(d) \/ FinalizeValidate(d) \/ FinalizeCommit(d)
               \/ CreateInsert(d) \/ CreateCommit(d) \/ DeadlockAbort(d)

Start(d) == \/ OpenRead(d) \/ AbandonSession(d) \/ FinalizeLock(d)
            \/ \E s \in Sessions : Fetch(d, s)
            \/ \E b \in MaybeBorrower : UpdateSession(d, b)
            \/ \E i \in Items : AddRead(d, i) \/ RemoveItem(d, i) \/ DeleteItem(d, i)
            \/ \E i \in Items, b \in Borrowers : CreateRead(d, i, b)
            \/ \E c \in Checkouts : ReturnCheckout(d, c)

Next == \E d \in Devices : Progress(d) \/ Start(d)

Spec == Init /\ [][Next]_vars
-----------------------------------------------------------------------------
\* Shape of the state: rows, views and requests hold what their columns may.
TypeOK ==
  /\ archived \subseteq Items
  /\ session \in [Sessions -> SessionRow \cup {NoRow}]
  /\ checkout \in [Checkouts -> CheckoutRow \cup {FreeRow}]
  /\ view \in [Devices -> View \cup {NoView}]
  /\ txn \in [Devices -> Txn]

\* The custody rule: whatever the requests of several devices interleave, no
\* two rows that are active or about to be commit for the same item.
OneActiveCheckoutPerItem ==
  \A c, e \in Checkouts :
    checkout[c] # FreeRow /\ checkout[e] # FreeRow /\ checkout[c].item = checkout[e].item
      => c = e

\* The optimistic revision is a faithful version number: a device whose view
\* carries the current revision of an open session shows its current content.
RevisionIdentifiesContent ==
  \A d \in Devices :
    view[d] # NoView =>
      /\ view[d].revision <= session[view[d].id].revision
      /\ view[d].revision = session[view[d].id].revision => view[d] = Snapshot(view[d].id)

\* A borrower-role user never holds an item under somebody else's profile,
\* by a direct checkout or through a session.
BorrowersOnlyForThemselves ==
  \A c \in Checkouts :
    checkout[c] # FreeRow /\ checkout[c].by \notin Owners
      => checkout[c].borrower = ProfileOf[checkout[c].by]

\* Item locks are taken in id order, so completions alone never wait in a circle:
\* among requests that all wait for each other, however many they are, there are two
\* that wait for one another directly, one of them a direct checkout between its
\* insert and its commit.  That is the cycle DeadlockAbort breaks.
DeadlockNeedsDirectCheckout ==
  \A waiting \in SUBSET Devices :
    waiting # {} /\ (\A d \in waiting : WaitsFor(d) \cap waiting # {}) =>
      \E d, e \in waiting : e \in WaitsFor(d) /\ d \in WaitsFor(e) /\ txn[e].pc = "created"

\* The guards of Progress, stage by stage: what is left of the step are assignments.
MayGoOn(d) ==
  \/ txn[d].pc = "open" /\ (MayOpen(UserOf[d]) => Unborn # {})
  \/ txn[d].pc = "reopen"
  \/ txn[d].pc = "add" /\ (txn[d].item \in session[txn[d].id].items \/ ItemFree(d, txn[d].item))
  \/ txn[d].pc = "lock" /\ (ToLock(d) = {} \/ \E i \in NextToLock(d) : ItemFree(d, i))
  \/ /\ txn[d].pc = "finalize"
     /\ LET items == ToLend(txn[d].id) IN
          /\ \A i \in items : ~ Reserved(i)
          /\ \/ (\A i \in items : Live(i) = {}) /\ RowsFor(items) # {}
             \/ \E i \in items : CheckedOut(i)
  \/ /\ txn[d].pc = "create"
     /\ (Live(txn[d].item) = {} /\ Free # {}) \/ CheckedOut(txn[d].item)
  \/ txn[d].pc = "created" /\ ItemFree(d, txn[d].item)
  \/ \E e \in WaitsFor(d) : d \in WaitsFor(e)

InFlight == {d \in Devices : txn[d].pc # "idle"}

\* No request hangs: requests in flight that wait for no others in flight have one
\* among them that can go on, be it that it is aborted to break a cycle.
NobodyHangs ==
  \A some \in (SUBSET InFlight) \ {{}} :
    (\A d \in some : WaitsFor(d) \cap InFlight \subseteq some) =>
      \E d \in some : MayGoOn(d) /\ ENABLED Progress(d)

\* What the user confirmed is what is lent: the step that completes a session
\* creates one checkout for each item the confirming device showed, to the
\* borrower it showed, and none else.
ConfirmedContentIsCheckedOut ==
  [][\A s \in Sessions :
       session[s].status = "active" /\ session'[s].status = "completed" =>
         \E d \in Devices :
           /\ UserOf[d] = session[s].actor
           /\ view[d] # NoView /\ view[d].id = s
           /\ {<<checkout'[c].item, checkout'[c].borrower>> :
                 c \in {c \in Checkouts : checkout'[c] # checkout[c]}}
                = view[d].items \X {view[d].borrower}]_vars

\* A session completes only over items none of which is archived or on loan,
\* however long its items were in the draft.
CompletionChecksEveryItem ==
  [][\A s \in Sessions :
       session[s].status = "active" /\ session'[s].status = "completed" =>
         \A i \in session[s].items : i \notin archived /\ ~ CheckedOut(i)]_vars

\* A completed or abandoned session is history: a request that was in flight
\* when it settled does not change it any more.
SettledSessionsFrozen ==
  [][\A s \in Sessions :
       session[s].status \in {"completed", "abandoned"} => session'[s] = session[s]]_vars

(* The component implements the abstract lending of items from carts. *)
CartOf(u) == IF ActiveOf(u) = {} THEN Nothing
             ELSE LET s == CHOOSE s \in ActiveOf(u) : TRUE
                  IN [items |-> session[s].items, borrower |-> session[s].borrower]

Loans == {<<checkout[c].item, checkout[c].borrower>> :
            c \in {c \in Checkouts : checkout[c].status = "active"}}

Abstract == INSTANCE Lending WITH loans <- Loans, cart <- [u \in Users |-> CartOf(u)],
                                  NoCart <- Nothing

\* Every step of the backend is a step of Lending or leaves loans and carts
\* alone: completion is all or nothing, and no intermediate state is visible.
ImplementsLending == Abstract!Spec
=============================================================================
