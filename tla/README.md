# WhereHouse: a formal model

WhereHouse is a self-hosted inventory of a household or small workshop: a FastAPI backend over
PostgreSQL, a web client, a phone client that queues work while it is offline and writes NFC tags,
and the Raspberry Pi appliance that runs them and updates itself. These modules model the parts
where several devices, processes or failures meet: who holds which item, what a replayed request
does, which label means which thing, how containers nest, what a browser shows while others change
it, what its forms do when calls fail, which household a phone belongs to, and how the appliance
replaces its own software. `PROJECT.json` lists the components, runs, theorems, hazards and the lines each
definition stands for.

Contents: 1 inventory · 2 modules and code · 3 runs and bounds · 4 fairness · 5 proofs ·
6 disagreements with the documentation · 7 other observations · 8 what is not modelled · 9 plan

## 1. Inventory

| Component | State | Operations | What is hard | What makes it correct |
|---|---|---|---|---|
| **Checkouts and sessions** `backend/app/application/checkouts` | tables `checkouts`, `checkout_sessions`, `checkout_session_items`; two partial unique indexes; an optimistic `revision` | open, edit, confirm, abandon a draft; direct checkout; return | several devices of one user share a draft; a read precedes each write; row locks of two tables | an item is lent once; what was confirmed is what is lent, whole or not at all; settled drafts stay settled; every request is answered |
| **Mobile offline queue** `apps/mobile/src/services/itemQueue.ts`, `queuePolicy.ts`, `database.ts`; server side `create_item` | SQLite `pending_operations`, the stored pairing; `items.creation_operation_id` | queue, sync, retry, quarantine, restart | lost answers, late requests, revocation during a sync, a kill anywhere | one item per draft; a draft goes only when the server has it; set-aside work stays aside |
| **Mobile inventory cache** `inventory.ts` | SQLite `inventory_cache` | optimistic insert and removal; rebuild | a rebuild overlaps with the queue | it shows no item that does not exist, and heals with the next rebuild |
| **Mobile pairing** `pairing.ts`, `App.tsx`; `dependencies.py` | secure store, state of `App`, effects and promises under way | pair, rename, forget, handle a revocation, restart | answers of an old pairing arrive after the next one; awaits between a check and the call it guards | only the pairing a message belongs to is revoked; old pairings stay gone; a revoked phone notices |
| **Realtime and revocation** `realtime.py`, `services/realtime.py`, `packages/api-client/src/realtime.ts` | `RealtimeHub` in memory; one socket per client | connect, publish, revoke, disconnect, reconnect | the hub keeps nothing for a socket that is not there; a socket joins during a revocation; a database connection per socket | what was missed is made up for by a read; a revoked device is told |
| **Web views** `Dashboard`, `useOverviewInventory`, `ItemsView`, `LocationsView`, `CheckoutsView` | lists in component state | read on open, on an event, on a new connection, on a switch | reads overlap and take several requests each | at rest a view whose last read did not fail is current and of the selected household |
| **Web forms** the same, `GlobalFeatureHost`, `SettingsView`, `AuthScreen`, `WorkspaceSetup`; on the phone `EditItemScreen`, `SettingsScreen` | the open dialog, a saving flag, the selected area | open, submit call by call, fail, submit again, dismiss, leave | a call is given up and still carried out; the selection moves under a dialog | no unexplained duplicate; a dialog acts on what it was opened for; no error goes unseen; no form is stuck |
| **Physical identifiers** `backend/app/application/identifiers`, migration 0014 | `physical_identifiers` with two partial unique indexes | register, activate (and replace), revoke, resolve | no row is locked before it is written, so late requests meet | one live identifier per target and medium; no gap when a tag is replaced; every call is answered |
| **NFC assignment** `nfcAssignment.ts`, `identifierResolution.ts` | the tag itself | write, verify, activate, revoke the old one; recover on read | the phone goes between any two steps | a half-written tag is finished by reading it |
| **Container nesting** `locations/capabilities.py`, `routes/locations.py` | `containers`, `container_placements` with cascades | create, move, delete, place, take out | the ancestor walk holds no lock | no container is inside itself; no request hangs |
| **Appliance updates** `deploy/raspberry-pi/wherehouse-ops` | `update-state.json`, lock file, `appliance.env`, marker, payloads, image tags, containers, database, backups | check, accept, install, roll back, recover; console commands | a power failure between any two steps; three kinds of process share the files | one release installed; what is shown is what is validated; a way back; no update is refused for ever |
| Items, placements, search | `items`, `item_placements` | create, edit, archive, move | little: one row at a time | – |
| Areas, zones, positions | `areas`, `zones` | create, edit, delete (areas: in the web forms) | little | – |
| Borrowers and invitations | `borrowers`, `borrower_invitations` | invite, claim, revoke | two lock orders; an unlocked revocation | a profile is claimed once |
| Authentication | `users`, `pairing_sessions`, `devices` | sign in, mint, redeem, authenticate | a token that is consumed while its answer is lost (a phone meets it in mobile pairing) | a token yields one credential |
| Images | files beside a column that names them | upload, replace | the file is written before the commit, removed after it | the named file exists |
| Backups and restore | archives, local or Dropbox | create, prune, restore | keys listed before the snapshot | a backup restores |
| Storage, NAS, factory reset | fstab, mounts, Samba | prepare, migrate, reset | partial failure; no common lock | the data is on one drive |
| Other phone screens, device stub, build tools | none that lasts | – | – | – |

Interactions. The clients call the backend over HTTP and listen to its websocket; a realtime event
only makes a client read again, and the last message a revoked device gets. The backend's requests share nothing but PostgreSQL (READ
COMMITTED) and the hub in memory. `delete_item` archives an item under the feet of the checkouts.
`create_item` is what the phone's queue replays, and archives, containers and items are the targets
of identifiers. The updater is a separate process: it stops and starts the backend, migrates the
database behind it, and runs the backend's own backup command first.

The properties were chosen from the hazards listed in `PROJECT.json`: what a request read before
somebody else's commit, what a retry does to work that was done, what a stopped process leaves
behind, and what must eventually happen.

## 2. Modules and how they correspond to the code

Each actor runs one step at a time. A step is the code between two points at which somebody else
can act: a `SELECT` and the later write of one request are two actions, two `await`s of the phone
enclose one action, and so are two commands of the updater. A request that takes a row lock with
its first read and only touches that row and constants is one action, because nothing can come
between. Guards are the code's conditions; a refused request that changes nothing is a step that is
not taken, except where it ends a request in flight. A definition marked *Fault* is used by no
action: it is the mistake in the definition after it that the named property would catch.

**`Lending`** – the promise of the checkouts, without transactions: a user has at most one cart,
which becomes loans as a whole or not at all, and an item is lent once.

**`CheckoutSessions`** – the backend's implementation. `session`, `checkout` and `archived` are
rows, `view` is what each device last read (the revision it will send), `txn` the request in flight
with the rows it has locked.

| Code | Actions |
|---|---|
| `get_or_create_active_session` | `OpenRead`, `OpenInsert`, `OpenReread` (the `IntegrityError` path) |
| `update_active_session`, `remove_session_item`, `abandon_session` | `UpdateSession`, `RemoveItem`, `AbandonSession` |
| `add_session_item` | `AddRead`, `AddCommit` (the session row is locked in between, the item is not) |
| `finalize_session` | `FinalizeLock`, `FinalizeLockItem` in id order, `FinalizeValidate`, `FinalizeCommit` |
| `create_checkout` | `CreateRead`, `CreateInsert` (row pending, waits on the unique index), `CreateCommit` (foreign-key lock) |
| `return_checkout`, `delete_item` | `ReturnCheckout`, `DeleteItem` |
| PostgreSQL's deadlock detection | `DeadlockAbort` |

The lock model is what the statements ask for: `FOR UPDATE` on the session, `FOR UPDATE` on items
one by one in `ORDER BY id`, `KEY SHARE` of foreign-key checks (which `FOR UPDATE` blocks), and an
insert that waits for an uncommitted row with the same unique key.

**`OfflineCreation`** – the promise of the queue: a draft becomes one item, its photo is stored for an
item that exists, it is forgotten only when both are there, and it stays aside once put aside.

**`MobileQueue`** – the phone's queue, the server's `create_item` and the credential. `row` is
`pending_operations` (status, whether `remote_entity_id` is set, whether `next_attempt_at` is in the
future), `sync` the running `syncPendingItemsOnce`, `request` what is on the wire: it survives the
phone's time-out and restart. `queuedBy` is history. `SyncStart` … `SyncRemove` are the loop between
its awaits, `Fail` its `catch`; `LearnRevoked` and `SettleRevoked` are `handleRevoked` before and
after its await; `Crash` is a kill and the `initializeDatabase` of the next start; `ServerRead` and
`ServerInsert` are the look-up by operation id and the insert under its unique constraint.

**`MobileCache`** extends `MobileQueue`: each queue step is joined with what it does to
`inventory_cache` in the same SQLite transaction, and `syncInventoryOnce` is four actions beside it.

**`Identifiers`** – `ident` are the rows, `call` the request of each phone (an uncommitted flush is
kept there), `job` the `assignNfcTag` that issued it, `tag` what is on each tag. Create is read,
insert and re-read; activate is read, look-up of the previous identifier, flush, the `UPDATE` of the
commit, and its end (the row is locked before the unique index makes it wait); revoke is read and commit.
The reads lock nothing; flush and update keep their rows locked until the end (`Locked`), and
who writes such a row waits (`WaitsFor`). Late activations can lock each other's identifiers: PostgreSQL
aborts a member of the circle (`InCircle`, `ActivateAborted`), which is answered with an error.
`AssignWrite` and `AssignReadBack` are the two taps of `writeNfcIdentifier`; the activation is requested
after the second. `GiveUp` ends a job at any await while its request goes on.

**`ContainerPlacement`** – `zone` and `parent` are the two tables, `req` each `place_container`: one
action for each `SELECT` of the walk, one for the read of the row it will change, one for the write
or its failure. Deletion cascades to placements and makes a later write of a row that was read fail.

**`ApplianceUpdate`** – `proc` holds the program counter of the controller, its worker threads and
the consoles; the other variables are files and the state of Docker and PostgreSQL. Every command
of `install_release` and of its rollback is an action. `write_state` reads the update state, merges and
writes it without a lock: where the caller does not hold the lifecycle lock either (accepting an update,
reporting a failure, the recovery at the start of the daemon), or keeps the phase it has read (the outcome
of the backup), these are two actions, `MergeInto` and `WriteBack`, so that what others write in between is
lost. Under the lock the phase is written, and a write that is lost in between is one that had gone
just before. `Break` is any exception that is not a failed
command, `Kill` a power failure, a stopped daemon or a killed console, at any point; the kernel
releases the lock of a process that ends. Three history variables say what properties need:
`validated`, the releases that passed the health check, `torn`, that an install was left half
done and no later one has completed, and `cutOff`, that one was at some time.

**`LiveViews`** – one browser, one of its views (`overview`, `items`, `checkouts`) and the
households of its user. What a view shows of a household is its version in `world`; a change is committed
(`Commit`), then published to whoever is in the hub (`Publish`), and travels on `wire`. What the overview and
the items show is only changed by routes that publish `inventory.changed` to every socket. Of what the
checkouts show, much changes without an event that the page acts on (`Silent`): the client drops
`checkout.created` and `checkout.returned`, borrowers and invitations publish nothing, and the sessions of
others are announced to them and to owners only. `Refuse` is a close with 4401 or 4403, after which the
client never opens the socket again. `failed` is the history of the last read, not what a page renders:
the overview keeps an error that it never shows. The socket is
opened, joins the hub, gets `realtime.ready`, is lost without notice (`Lose`, `BackendRestart`), is
noticed to be dead and opened again. `ReadAgain` is what the effect does when the revision or the
household changes: the reads under way are superseded, a new one starts. A read is two steps,
because the lists are asked for before the details of each area. `Guarded` and `Reconciles` are what
differs between views: `ItemsView` does not look whether a read was superseded, and
`CheckoutsView` passes no `onReady`. `missed` is history.

**`ClientForms`** – the dialogs of one page. A form is the host that keeps its saving flag, whether it
is held open while that flag is set, and the calls a submission makes, in order: `FormsOf(page)`
lists them for the four pages of the dashboard, the two that come before it, and two screens of the
phone. `Submit`, `Perform` (the backend does the next call), `Answer`, `GiveUp` (it failed, or ran
out of time before or after the backend did it) and `Stray` (the backend does a creation that was
given up) are any submission; areas are modelled as rows, because `loadAreas` (`Refresh`,
`ArriveList`, `Take`) and `Reveal` move the selection that two dialogs act on. `Vanish` is a reload that no
longer lists the item of an open dialog, or the container of an open form; `RevealItem` shows another
item in the open dialog. Both cut off what is under way for that dialog (`CutOff`): it goes on, and when it
ends, `Intrude` says what its `onUpdated` or `onDeleted` does to the dialog that is open by then. `opened` counts for each
dialog the rows its submissions made, the failures it showed and what may still be created.

**`DevicePairing`** – the phone's `App.tsx` with `pairing.ts`, the rebuilds of `inventory.ts`, the
subscription, and the part of the backend they meet. JavaScript between two awaits is one action.
`queue` holds the calls of the secure store in the order they were made; `tasks` the async functions
under way, each with the pairing it closed over; `rebuild` is `inventorySyncs`, shared by household.
Clean-ups of effects mark their tasks as cancelled, and `Takes` says who looks at that.

| Code | Actions |
|---|---|
| `pair`, `pairFromScan`, `consume_pairing` | `Pair`, `PairAnswer`, `PairFails`, then `Store` (`StorePairing`) |
| `forget` | `Forget`, `Quarantined`, `Store` (`StoreForgotten`) |
| `handleRevoked` | `Refused` or `EndRebuild` start it; `Quarantined`, `Store` (`LoadRevoked`), `Store` (`StoreRevoked`) |
| the effect that asks for the household's name | `Renamed`, `Store` (`StoreName`) |
| `reconcile`, `refreshInventory`, `syncInventory` | `Ready`, `Event`, `Refresh`, `Sync`, `Serve`, `Rebuilt`, `RebuildFails` |
| `realtime`, `subscribeToWorkspace` | `Authenticate`, `ComesLate` (4401 after ten seconds), `Join`, `Ready`, `Event`, `Refused`, `Drop` |
| `revoke_device` | `Revoke` (commit), `Tell` (the hub) |
| start of the app | `Restart` |

`MC*` modules only give constants their instances and symmetry sets. `CheckoutSessionsProofs`,
`MobileQueueProofs` (with the cache), `IdentifiersProofs`, `ContainerPlacementProofs`,
`ApplianceUpdateProofs`, `LiveViewsProofs`, `ClientFormsProofs` and `DevicePairingProofs` hold the proofs.

## 3. Runs and bounds

States are distinct states as TLC counts them, with symmetry where a run uses it.

| Run | Instance | What it shows | States |
|---|---|---|---|
| `checkout_shared` | two devices of one borrower, two items, two sessions, two checkouts, revisions to 4 | `RevisionIdentifiesContent`, `ConfirmedContentIsCheckedOut`, `CompletionChecksEveryItem`, `SettledSessionsFrozen`; the component implements `Lending`; nobody waits for ever (`NobodyHangs`), here with two devices that open one session | 1 743 511 |
| `checkout_rivals` | two borrowers with a device each, the same two items | custody is exclusive; a borrower lends to the linked profile only; requests that all wait for each other include two in direct wait, one a direct checkout; nobody waits for ever on a lock nobody gives back | 1 817 672 |
| `mobile_replay` | two drafts, one with a photo, two requests, two pairings, one quarantine in each run of the app, one restart | nothing is left where neither a timer nor a sync comes to it (`NoneAbandoned`); quarantine holds; the queue implements `OfflineCreation` | 679 337 |
| `mobile_settles` | one draft with a photo, two requests, one restart, rebuilds without bound | a draft settles, whatever rebuilds do (`EveryDraftSettles`); the cache heals for good (`CacheHeals`) | 45 619 |
| `mobile_replay_revoked` | one draft, two pairings | violated: §6.1 | – |
| `identifiers` | three phones of which one only reads, two targets, one tag, two identifiers, both media | one live identifier, no gap, a written tag wakes, no call hangs (`NoCallHangs`) | 254 649 |
| `identifiers_reactivated` | the same with two phones | violated: §6.2 | – |
| `placement_walks` | three containers (two permanent), one zone, two requests | only overlapping writes close a cycle; every request is answered | 402 516 |
| `appliance_update` | controller, one worker, one console; a factory release and one with a migration; one interruption | lock discipline (in `TypeOK`), `WholeUnlessTorn`, `CompletedIsInstalled`, `ReportedVersionValidated`, `RecoveryPoint`, `NoPhaseLeftBehind` | 7 487 407 |
| `live_views` | any of the three views, two households with a change each, two lost connections or restarts, one switch, one superseded read under way at a time | unless the last read failed, what is shown at rest is current and of the selected household (`QuietMeansCurrent`, `OwnHousehold`); the overview gets there (`Converges`) | 578 054 |
| `client_forms` | any of the eight pages, two dialogs one after the other, two disturbances, two areas, one reported failure and two copies for each dialog | `CopiesAreReported`, `ActsOnItsSubject`, `HeldDialogsStay`, `SubmissionsEnd` | 761 904 |
| `device_pairing` | two pairings with one or two households, one revocation, one disturbance (a lost answer, event or connection, a rename, a restart, a refresh, a credential that comes late, the end of a pairing) | `RevokedIsRevoked`, `OldPairingsStayGone`, `InventoryIsOwn`, `RevokedPhoneNotices` | 1 049 372 |

Why the bounds are enough. The races of the checkouts are between two requests (a row lock or an
index has one holder and one waiter), two items are the least that can be locked in two orders, and
four revisions open a draft, give it two items and confirm it. An owner, who first chooses a
borrower, needs a fifth for that: the runs have borrowers, to whom `MayLendTo` leaves one choice.
A replay needs two requests for one draft and a draft behind it in the queue; two pairings are the
least that tell an old credential from a new one, and one quarantine and one restart can happen at
every point. Two identifiers replace each other, and three phones are two activations that do so and one
that overtakes both, which is what it takes for them to lock each other out. Three containers give walks of more than one step, and a cycle needs two placements. The
updater has one lock, so a daemon's update, a console and one interruption are every pair of actors
and every point to stop at; two releases are the least that have something to roll back to.
A view is wrong when a message is missed while a read is under way, and again while the socket that
should make up for it is lost: two lost connections, one superseded read beside the last one, and a
change to be missed. Two dialogs are the one that is dismissed or left and the one that its answer
meets; two disturbances delete and reveal an area, or read a list and overtake it. A phone confuses
two pairings, of one household (they share a rebuild) or of two (their inventories differ).
Bounds appear as constants (`MaxRevision`, `MaxCred`, `MaxEpoch`, `MaxCrashes`, `MaxStops`,
`MaxChanges`, `MaxDrops`, `MaxSwitches`, `MaxBehind`, `MaxDialogs`, `MaxDisturbances`, `MaxReports`,
`MaxCopies`, `MaxRevoked`, `Archivable`, `Taggers`, `Settled`, the sets of ids) in the guards. Where ids
and revisions run out a behaviour ends, so deadlock is checked only for the appliance, which never stops;
what a request, a draft or a form may be stuck in is checked by `NobodyHangs`, `NoCallHangs` and the
liveness properties instead. Symmetry is used in safety runs only.

Every property of a passing run has a *Fault* in the module, listed under `mutants`, with which TLC
finds the property violated.

## 4. Fairness

* `CheckoutSessions`: none; its properties are safety properties. `NobodyHangs` says of requests in
  flight that wait for no others that one of them can go on, be it that the deadlock check aborts it.
  `MayGoOn` spells out the guards of its next step; the run checks that the step is then `ENABLED`.
  Nothing is assumed of the devices.
* `MobileQueue`, `MobileCache`: weak fairness of what runs on the phone (timers, the loop, the
  time-out of a request) and of each request at the server; strong fairness of a request's parts
  while the phone waits for it: a network that answers now and then. Without it nothing uploads.
  Pairing, revocation, saving and restarts have none, and neither have rebuilds of the cache: they
  start on an event, a connection, a save or a refresh, and one that fails need not be followed by
  another. That a sync starts again while a draft waits is an assumption: it is what the timer of
  `App.tsx` 207–225 is for, whose condition (`pendingCount`) is not modelled.
* `Identifiers`: requests and jobs go on (weak), a job may end by giving up; each tag is read
  now and then, which is what recovery depends on (strong, because phones are busy in between).
  `NoCallHangs` is `NobodyHangs` for its calls, and needs no fairness.
* `ContainerPlacement`: weak fairness of each request; it never waits for another.
* `ApplianceUpdate`: none; its properties are safety properties.
* `LiveViews`: weak fairness of `Following`: messages are delivered, dead sockets are noticed and opened
  again, requests are answered. A request may fail at any time instead, and the socket may be refused for good;
  `Converges` allows for both. Changes, losses, refusals and switches have none.
* `ClientForms`: weak fairness of giving up a call that has a time limit (`apiRequest` aborts after
  15 s, `uploadItemImage` after 30 s). Nothing is assumed of the backend, the user or the network.
* `DevicePairing`: weak fairness of what runs by itself: the secure store, the async functions, the
  opening of the socket, the answers to rebuilds, and the call of the hub that follows a revocation.

## 5. Proofs

The theorems hold for sets of any size: devices, sessions, items, drafts, phones, tags, identifiers,
containers, requests, releases, workers, households, areas and dialogs. They rest on the named `ASSUME`s
of the modules about constants, which TLC evaluates in the runs; where a theorem counts the members of a
set, an `ASSUME` says that it is finite.

**`CheckoutSessionsProofs`**, from `ConstantsAssumption`, `NoViewAssumption` and `NoCartAssumption` (the
values for "no view" and "no cart" are none), `ItemsAssumption` (item ids lie between a lowest and a
highest one), and, for what is counted, `FiniteAssumption` (finitely many devices, and session ids of an
instance) and `RowsAssumption` (a row id is left for each item)

* `TypeCorrect`: `Spec => []TypeOK`. `TypeOK` is not inductive: `AddCommit` writes
  `session[txn[d].id]`, so one must know what each stage of a request has set. `TypeInv` is `TypeOK`
  and `RequestOK`: a request that holds a session row holds it alone, and the session is an active one
  of its user below the bound (`SessionLockOK`); a completion in flight still has the revision its
  device showed (`FinalizeOK`); a direct checkout owns the pending row it inserted (`DirectOK`).
* `RevisionSound`: a step changes a session only under a higher revision (`SessionSteps`), and a view
  only to what is in the table (`ViewsAreReads`).
* `SettledFrozen`: no action writes a session that is not active. For `AddCommit` and
  `FinalizeCommit`, whose check was made a step earlier, this is `SessionLockOK`.
* `CustodyExclusive`: `FinalizeCommit` and `CreateInsert` write only where `Live(i) = {}`, and give
  different items different rows; every other action frees rows or commits a pending one.
* `ConfirmedIsLent`, from `FinalizeOK` and `RevisionSound`: the device that completes a session still
  shows the revision that is in the table, so it shows the items and the borrower, and the rows that
  change are in bijection with the items.
* The theorems that follow are proved about `SessionMoves`, `CheckoutMoves` and `RequestMoves`: in how many
  ways a step changes the sessions, the rows and the requests, instead of the nineteen actions.
* `ForThemselves` proves `BorrowersOnlyForThemselves`. `OwnBorrowers` adds the active sessions and the
  direct checkouts before their insert: each is for a borrower its user may lend to.
* `DeadlocksAreDirect` and `EveryItemChecked` prove `DeadlockNeedsDirectCheckout` and
  `CompletionChecksEveryItem` from `LockInv`: only completions keep items locked, each below all it has
  still to lock, and one that is past its checks has locked every item of its session, none archived.
  Among requests that all wait for each other, a completion past its checks waits for a direct checkout of
  one of its items, which waits for it: the cycle `DeadlockAbort` breaks. Without one, completions would
  wait each for an item that another holds; the highest of those (`HighestExists`, from the
  well-foundedness of the naturals) is held by a completion that waits for a higher one.
* `Implements` proves `ImplementsLending`. The mapping needs `LendInv`: a user has one active session
  (the partial index of `checkout_sessions`, and an insert is one step with its commit), and the session
  a completion holds is not empty. `CustodyExclusive` makes a loan one row. Each move of the sessions or
  rows is one step of `Lending` or none.
* That no request hangs is two theorems. `EveryStepAdvances`: whoever takes a step, a request in flight
  stays as it is or has fewer steps left (`StepsLeft`; a completion has one for each item it has yet to
  lock, because its session stays as it is while it is held). `NobodyStuck`: requests that wait for
  no others have one among them that meets its guards. If one waits for nobody, it does: an id for its
  session is left (`Room`: as many as there are requests that may insert one), and so is a row, and
  whatever it finds on loan is committed or its owner is waited for (`PendingOwned`: every pending row
  is that of one request). If all wait, `DeadlocksAreDirect` gives the cycle that `DeadlockAbort` breaks.
  `NobodyHangsByGuards` puts this into the words of `NobodyHangs`: what remains to the run is that a
  step whose guards are met is `ENABLED`.

**`MobileQueueProofs`**, from `ConstantsAssumption`

* `TypeCorrect`, with `Inv`, which relates the three actors. `RequestOK`: an answer "ok" is true of the
  server's table, whoever still listens, and a request is for a draft that was saved. `RowOK`: the phone
  knows an item only when there is one, and removes a row only when it knows its item. `SyncOK`: while
  the epoch has not changed, the rows a sync has loaded are pending or retryable and the one it works on
  is `in_progress`; a quarantine takes this away by raising the epoch (`QuarantineInv`), which is why the
  catch compares it before it writes (`FailInv`).
* `Quarantined` and `Implements` prove `QuarantineHolds` and `ImplementsOfflineCreation`, for which `Inv`
  also has that a draft has one item at most. Both follow from
  `StepMoves`: every step saves one draft, creates the item of one draft, stores the photo of one that has
  its item (whatever the phone learns of it), removes one that has its item and its photo, puts some
  drafts aside, or is invisible. `FirstExists`, from the well-foundedness of the naturals, gives the row a
  sync takes next.
* `NobodyAbandons` proves `NoneAbandoned`, the safety in `EveryDraftSettles`: a queued draft is one the next
  sync loads, or in back-off, or the one the sync under way is at and may still write. `Owned` is what is inductive: a
  draft in progress is that of the running sync, and no quarantine has come since it was taken up – a
  quarantine and a restart put down whatever is in progress, and the catch everything but that.
* The cache adds no step to the queue (`CacheKeepsQueue`), so all of this holds beside it.
  `NothingInvented`: every item the cache shows exists, every optimistic row is one of a saved draft.
  `Heals` proves `CacheHeals`. A rebuild that was under way when the phone
  was done with a draft may still write an old list or an old row. After it, the item is in every list
  fetched, because a removed draft has its item, and its row is in no join with the queue; so the next
  write makes the cache right, and no later one makes it wrong.

**`IdentifiersProofs`**, from `ConstantsAssumption`, and for what is counted `FiniteAssumption` (finitely
many phones, and ids of an instance)

* `TypeCorrect`, with `Inv`: the rows a request is about to write were created, and the row it replaces is
  another one of the same target and medium (`Replaces`); an assignment that runs has a tag, and a
  written tag carries a created row. The reads lock nothing, so no other request may undo this: the
  target and the medium of a row never change (`Lasting`).
* `OneLive` proves `OneLivePerTarget` and `NoGap` proves `ReplacementHasNoGap`, both from `RowSteps`: a step
  inserts one row, activates one and revokes the one it replaces, revokes one on request, or changes
  none. The two partial unique indexes are the guards of the first two, and a replacement commits both
  of its rows at once.
* `EveryStepAdvances`, `NoCallStuck` and `NoCallHangsByGuards` are for `NoCallHangs` what the theorems of
  the same kind are for the checkouts. Any number of activations may wait for each other here, and no
  order of locks forbids it. Of some calls that wait for nobody but each other, the smallest closed
  set (`SmallestExists`) cannot be split into two parts of which one does not wait for the other:
  that is `InCircle` (`WaitersInCircle`), so the database aborts one of them.

**`ContainerPlacementProofs`**, from `ConstantsAssumption` and, for `WalksEnd`, `FiniteAssumption` (a table
of containers is finite)

* `TypeCorrect`, with `Inv`: `StageOK`, what each stage of a request has set, and `PathOK`.
* `WalkSound`: `Spec => CycleNeedsOverlap`. `PathOK` says of a request that no placement has
  overlapped: the child is not among the visited containers, and the parent of a visited one is
  visited, is the cursor, or is none. At the write the walk has ended, so the visited set V leads
  only to itself and to none, and does not hold the child (`SoundWalk`). Let S be a set of containers
  that lead only to S after the write. Without the child it did so before. With the child it holds
  the new parent, which is in V, and the part of S in V, free of the child and of the new edge,
  already led only to itself. Either contradicts that there was no cycle. All other actions only
  take edges away (`ShrinkingKeepsAcyclic`).
* `WalksEnd`, the safety in `EveryRequestAnswered`: a step of a request leaves it fewer of them, and a
  step of another one as many. A walk never visits a container twice, so it ends in a cycle too, and
  one that is moved or deleted under it does not lengthen it.

**`ApplianceUpdateProofs`**

From `ReleasesAssumption`, `ActorsAssumption` and `StopsAssumption`, for any number of releases,
workers, consoles and interruptions:

* `TypeCorrect`: `TypeOK` with the release fields each stage relies on (`FieldsOK`): exactly the
  holder of the lock is at a stage that needs it (`Locked`).
* `OneReleaseInstalled`, `CompletedIsTrue`, `ReportedIsValidated` and `AlwaysAWayBack` prove
  `WholeUnlessTorn`, `CompletedIsInstalled`, `ReportedVersionValidated` and `RecoveryPoint`. None is
  inductive: they are about a host at rest, and an install leaves and comes back to that state over
  a dozen commands. `Inv` says what is true in between. `Stage(p)`: what the holder of the lock at
  each stage has already done to tags, files, schema and containers. `Undo(p)`: unless an install
  was cut off, what it found was one validated release, which a rollback from this stage restores.
  `Global`: the properties themselves, and that a host no install is changing or was cut off on is
  settled on one validated release.
* The update state is not the host: it may be written by anybody, from what was read long before. For
  `ReportedIsValidated`, `Shown` says that the version in the state, and the one in every write that is
  pending, were validated at some time (`Merges`, `Records`), or that an install was cut off. For
  `CompletedIsTrue` and `NothingBlocks`, `Pending` says which phases a pending write can carry.
* Only the holder writes to the host (`OthersSilent`), so a step of anybody else keeps `Stage` and
  `Undo`; `BootServices` moves the schema and the containers to what the tags say, and no further.
* `NothingBlocks` proves `NoPhaseLeftBehind`. Most ways out of an update write their own last phase
  (`UpdateEnds`); `Retain` does not, and the phase it finds may be that of an update accepted since.
  `Finishing`: the worker of that update is then still to be refused the lock or to report it.

**`LiveViewsProofs`**, from `LiveViewsAssumption` and `NothingAssumption`

* `TypeCorrect`, with `ListsFirst`: a read that has details has lists.
* `QuietIsCurrent` and `OwnHouseholdShown` prove `QuietMeansCurrent` and `OwnHousehold`. Neither is
  inductive: what is shown came from a read that began long before. `Heard(n)` says of a version
  that it is current, or that something will still make the page read again: an event not yet sent or
  on the wire, or a socket that is not open and will bring a `ready` (for the checkouts, which do not
  listen to it, that an event was lost or a change had none). No step of the hub or the socket takes that away
  (`HeardStays`); a read finds a version that is heard. `ViewInv` says of the one read that is not
  superseded (`OneLoads`) that it is of the selected household and has found what is heard
  (`LoadIsOwn`), and of what is shown the same when no such read is under way (`ShownIsOwn`).

**`ClientFormsProofs`**, from `NothingAssumption`

* `TypeCorrect`, with `Parts`: every submission belongs to a dialog of its component (`JobsOK`), the open
  dialog agrees with its own submissions (`DialogOK`), and two submissions of one component that was not
  left, or of one dialog, are copies only where the code keeps no flag (`OneSaves`, `OnePerDialog`).
  The facts about the forms themselves (only the first call of a plan creates, a form that is held
  archives nothing) are proved form by form (`FormsOK`).
* `HeldStay` proves `HeldDialogsStay`, inductive beside `Parts`: a dialog with a submission in flight is
  not dismissed if it is held, and another answer of its component could only be of a copy. Reloads, scans
  and late answers only mark submissions as cut off or left (`Marks`), which keeps the parts of the
  invariant they do not exempt (`MarksParts`); a late answer is the only one its dialog has (`LateIsAlone`).
* `CopiesReported` proves `CopiesAreReported`. The strengthening (`Counted`) says of a dialog for which
  a row may still be created – a creation is under way, or the dialog is open and nothing is – that
  it has no more rows than failures shown; a creation that is given up is paid for by its failure.
* `ActsOnSubject` proves `ActsOnItsSubject` from `SubjectInv`: the answer that was not overtaken has every
  area that is listed or in another answer and that still exists (`Newest`), so it cannot take the
  selection from the subject of an open dialog unless that is gone; the answer that belongs to a
  submission closes its dialog in the same step, by `HeldDialogsStay`.

**`DevicePairingProofs`**, from `ConstantsAssumption`, for any set of households and any number of pairings,
revocations and disturbances

* `Inv` says of everything that is under way on the phone what it may still do to the pairing, in the
  order in which it can arrive. `TaskOK`: `handleRevoked` runs only for a pairing that may be blamed (it
  is revoked, got the refusal of another one's rebuild, or had its credential refused as late: `Blamed`), and an effect that was not cleaned
  up is one of the current pairing. `CallOK` says the same of the calls queued at the secure store.
  `InOrder`: a call that is not `behind` a change of the pairing has only reads before it, so the store
  still holds the pairing it was made for. What the backend does to devices and to the blamed only
  grows (`Grows`), so a task or a call that was right when it began stays right (`StaysOK`).
* `OnlyRevokedIsMarked` and `OwnInventory` prove `RevokedIsRevoked` and `InventoryIsOwn`, parts of `Inv` or
  consequences of `StoredOK`.
* `OldPairingsGone` proves `OldPairingsStayGone`. Only `Store` writes the pairing, and it takes the first
  call; a saved name is one of the current pairing, and a mark meets the pairing that it read, or the
  call is `behind`. A restart empties queue and tasks, and starts from what is stored.

Only model-checked: liveness under fairness (`Converges`, `SubmissionsEnd`, `RevokedPhoneNotices`,
`EveryRequestAnswered`, `EveryDraftSettles`, `WrittenTagWakes`), because the rules for
`WF` and `SF` need `ENABLED`, and an induction over the steps that are left needs a theorem with an
operator as parameter; both are out of the prover's reach. What is safety in them is proved where it is
more than a guard: `WalksEnd`, `NobodyAbandons`, `QuietIsCurrent`, `RevocationFinds`. `NobodyHangs` and
`NoCallHangs` are proved up to `ENABLED`. Every other property of a passing run is a theorem.
`TypeOK` of `MobileQueue`, `Identifiers`, `LiveViews`, `ClientForms` and `DevicePairing` is only proved.

## 6. Disagreements with the documentation

Each is a run that ends in a counterexample; `PROJECT.json` quotes the sentence.

1. `mobile_replay_revoked`: a draft that was queued under a credential that is revoked is uploaded
   under the next pairing, although `account-household-validation.md` says it is not. A row does not
   say which credential queued it, and the quarantine, which would set it aside, may come late or
   early: a draft is sent by the next pairing when the phone is paired again before it has learnt of
   the revocation, or when it was saved after the quarantine in `handleRevoked` and before the call
   that marks the pairing.
2. `identifiers_reactivated`: `activate_identifier` overwrites the status it read; an identifier that
   another phone activated and revoked in between is active again.

## 7. Other observations

Behaviour the models include because the code has it; where a property has an exception, it is named
in the comment of the property.

* Two requests that place two containers in each other can both find no cycle, and both commit,
  because the walk holds no lock; `CycleNeedsOverlap` is what remains true of
  "cycle-protected by the API" (`docs/architecture/domain-model.md`). From then on
  `list_item_placements` answers 409 for the workspace as soon as an item lies in such a container.
* `verify_http_services` retries four kinds of error, and `install_release` rolls back for a failed
  command only. A connection that is closed before the response (`RemoteDisconnected`), as may happen
  while a container starts, is neither: the update fails, and the unverified images keep their tags and
  run on (`Break` at "validate"). What remains is that they never count as completed or validated.
* The items that took the late answer of a superseded read show an older version, or the household that
  was left, until the next event. The checkouts do not read again when their socket comes back, and hear
  nothing of direct checkouts and returns, of borrowers and invitations, and, for a borrower, of the
  sessions of others: they show what they had until the next event that does reach them.
* A failed read leaves the old contents on the page, those of the household that was left included. The
  overview keeps the error and never renders it; the checkouts show it, but not that they load again
  after a switch.
* A socket whose authenticate message comes after ten seconds is closed with 4401, as a refused one is.
  The client takes that for final: a browser gets no events until its page subscribes again, and a phone
  marks its pairing as revoked, sets its drafts aside and asks to be paired again, although the backend
  knows it still.
* The selection can be moved under an open dialog by a scan on the phone or by an answer of
  `listAreas` that was overtaken; the dialog then renames or deletes the area that is selected.
* A reload that no longer lists an item takes its dialog away while that saves or deletes, and a scan or a
  search gives the open dialog another item: the failure of what is under way is then not seen, or is
  seen under the other item, and its late answer opens the dialog of the first item again, or closes that
  of the second. If the first one was being edited, its fields stay in the form and may be saved on the
  second. The form for an item in a container goes when that is closed, or leaves the list, in the same way.
* A form that failed may have done its work: it reports the failure and can be submitted again. A
  backup started by hand is reported as failed after 15 s, whatever it is still doing. The dialog for a
  new borrower disables nothing while it saves, so two clicks are two borrowers; the upload of a
  container's image has no time limit, so its form may save for ever.
* On the phone, `syncInventory` joins whatever rebuild of the household is under way: a phone that was
  just paired again can be refused for its old credential, and marks the new pairing as revoked.
  `handleRevoked` compares the stored pairing and marks it in two calls; one that is saved in between is
  overwritten. The effect that asks for a new name saves the pairing it was started for. `reconcile` and
  `refreshInventory` set the inventory whatever pairing is current by then.
* A socket that was authenticated before `revoke_device` committed and joins the hub after it looked
  there stays connected; the phone finds out when it reads the next time.
* A rebuild of the phone's cache that read before a draft was queued or removed writes what it read:
  a temporary row can vanish or come back until the next rebuild (`CacheHeals` allows for it), which nothing
  promises if that one fails.
* `update_container` moves a container to another zone although its parent stays, and `delete_area`
  fails on an area that still has containers instead of cascading.
* A deadlock between a direct checkout and a finalize is answered with a server error, not with the
  conflict the `IntegrityError` handlers return. So is one of activations: two that the
  recoveries of a third phone overtook may each revoke the identifier the other one activates. The one
  that is aborted leaves everything as it was; a tag that is pending then is finished by reading it.
* After a first update that was cut off before the marker, `current_version` reports the release
  whose validation never ran (`ReportedVersionValidated` has the exception).
* Rolling back restores images, not the schema: the old API starts behind `alembic upgrade head`,
  which refuses a database of a later release, so the services may stay down until a backup is
  restored; `RecoveryPoint` says one exists.
* A backup is labelled with the head revision of the image that makes it, which after such a failure
  is not the schema the database has.
* An update that finds the lock taken reports "failed" over the phase of the update that holds it. As
  `write_state` writes back all it has read, a console update that is refused while another one completes
  may set the installed version shown to the one before; the next check corrects it.
* A check or an install from the console that fails leaves its active phase behind until the daemon
  restarts; a daemon with the policy "all" that starts while such a phase is being written exits.

## 8. What is not modelled

Left out of modelled parts:

* the content of items and names (only what a guard compares), HTTP codes beyond success, refusal and
  silence, roles other than owner and borrower in one workspace, the authorisation of container routes,
  container labels and codes, the relationship and position of a placement;
* the download's resumption, the signature of the manifest, progress figures, the other fields of the update state (`targetVersion`, `backupStatus`, messages) and the
  self-update of the updater;
* the reads of `LocationsView` (two effects of their own, which share one error) in `LiveViews`, and in
  `ClientForms` a dialog that a scan opens beside another one;
* of the pages: search, counters and the review queue of the dashboard, labels and image cropping, the
  switch of spaces, the change of a container's image, the check for updates, the panels that show a
  pairing code and wait for a device, and the draft of a session (its requests are in
  `CheckoutSessions`);
* of the phone: lists, scanning, link parsing, the creation of a household (refused for a device) and
  the switch to another (a device only knows its own).

Not modelled at all: edits, moves and search of items (one row at a time, last writer wins), borrowers
and invitations, the files of images, backups and restore, storage, NAS and factory reset, workspaces
(one transaction), status pages (reads), the device service (a stub), build and release tools (run
once). Of these, the claim of an invitation beside another one, two uploads of one image, the
connection each socket keeps from the pool, the image keys a backup lists before its snapshot, a
restore or a migration to another drive that fails half way, and `factory_reset` beside an update are
what a test would hardly reach; the first three are listed as hazards without a property.

## 9. Where to go on

1. **Borrower invitations** (`invite`, `claim`, `revoke`): at most one user per profile, no invitation
   both claimed and revoked; the two lock orders.
2. **Storage under the updater's lock** (`wherehouse-ops` 546–641) and `factory_reset`, as further
   tasks of the actors of `ApplianceUpdate`.
3. **Images**: the file put before the commit and deleted after it, beside a backup that lists the keys
   first; every row's image exists, every backup restores.
4. **Proofs**: the same for the forms, whose submissions have fewer calls left after each answer, as a
   step towards `SubmissionsEnd`.
