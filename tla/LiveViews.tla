------------------------------ MODULE LiveViews ------------------------------
(***************************************************************************)
(* What the pages of a browser show of a household, and how they follow its *)
(* changes: the realtime socket of the api-client, the hub of the backend   *)
(* that sends to it, and the reads that a change or a new connection        *)
(* starts.  A request publishes after its commit, to the sockets that are   *)
(* in the hub by then.  What a view shows of a household is its version, the *)
(* number of the changes that concern the view.  Views read on their own, so *)
(* a behaviour follows one: the overview, the items or the checkouts.        *)
(* Everything the first two show is announced to every socket as             *)
(* inventory.changed; much of what the checkouts show is not (Silent).       *)
(***************************************************************************)
EXTENDS Naturals, FiniteSets

CONSTANTS Workspaces,    \* the households of the user
          Nothing,       \* not read yet
          MaxChanges, MaxDrops, MaxSwitches, MaxBehind     \* bounds of the model

ASSUME LiveViewsAssumption ==
  /\ Nothing \notin Nat
  /\ \A n \in {MaxChanges, MaxDrops, MaxSwitches, MaxBehind} : n \in Nat

VARIABLES view,       \* the view that is followed
          world,      \* version of each household in the database
          unsent,     \* changes of each household whose event is not sent yet
          workspace,  \* the household the browser has selected
          socket,     \* the subscription of the page
          wire,       \* messages on the socket that make the page read again
          reads,      \* its reads in flight, superseded ones included
          shown,      \* what it shows
          failed,     \* has the last read it began failed?
          missed,     \* since that read began: an event lost, or a change without one?
          mishaps     \* what has happened so far of the bounded kinds

vars == <<view, world, unsent, workspace, socket, wire, reads, shown, failed, missed, mishaps>>

Views == {"overview", "items", "checkouts"}

\* Does the view drop the answer to a superseded read?
Guarded == view # "items"

\* Does its page read again when the socket is ready?
Reconciles == view # "checkouts"

\* A read takes the lists of the household and then the details of each area.
Read == [of : Workspaces, superseded : BOOLEAN,
         lists : Nat \cup {Nothing}, details : Nat \cup {Nothing}]

Answer == [of : Workspaces, lists : Nat, details : Nat, late : BOOLEAN]

ASSUME NothingAssumption == Nothing \notin Answer

NewRead(w) == [of |-> w, superseded |-> FALSE, lists |-> Nothing, details |-> Nothing]

Superseded(f) == [f EXCEPT !.superseded = TRUE]

\* The effect of the view runs again when workspace.id or the revision changes.
ReadAgain(w) ==
  /\ reads' = {Superseded(f) : f \in reads} \cup {NewRead(w)}
  /\ failed' = FALSE
  /\ missed' = FALSE

Spend(kind) == mishaps' = [mishaps EXCEPT ![kind] = @ + 1]
-----------------------------------------------------------------------------
Init == /\ view \in Views
        /\ world = [w \in Workspaces |-> 0]
        /\ unsent = [w \in Workspaces |-> 0]
        /\ workspace \in Workspaces
        /\ socket = "closed"
        /\ wire = 0
        /\ reads = {NewRead(workspace)}
        /\ shown = Nothing
        /\ failed = FALSE
        /\ missed = FALSE
        /\ mishaps = [drops |-> 0, switches |-> 0]

\* Any client changes something, by a request whose event this page reads again on.
Commit(w) ==
  /\ world[w] < MaxChanges
  /\ world' = [world EXCEPT ![w] = @ + 1]
  /\ unsent' = [unsent EXCEPT ![w] = @ + 1]
  /\ UNCHANGED <<view, workspace, socket, wire, reads, shown, failed, missed, mishaps>>

\* A change of what the checkouts show that reaches no handler of theirs: a direct
\* checkout or a return, whose events the client drops, a change of borrowers or of
\* invitations, which publish nothing, and the sessions of other users, whose events
\* go to them and to owners only.
Silent(w) ==
  /\ view = "checkouts"
  /\ world[w] < MaxChanges
  /\ world' = [world EXCEPT ![w] = @ + 1]
  /\ missed' = (missed \/ w = workspace)
  /\ UNCHANGED <<view, unsent, workspace, socket, wire, reads, shown, failed, mishaps>>

InHub == socket \in {"joined", "open"}

\* RealtimeHub.publish sends to the sockets it finds in the hub.
Publish(w) ==
  /\ unsent[w] > 0
  /\ unsent' = [unsent EXCEPT ![w] = @ - 1]
  /\ wire' = IF w = workspace /\ InHub THEN wire + 1 ELSE wire
  /\ missed' = (missed \/ (w = workspace /\ ~ InHub))
  /\ UNCHANGED <<view, world, workspace, socket, reads, shown, failed, mishaps>>

\* connect, also when the back-off timer fires: the backend knows the token and
\* adds the socket to the hub ...
Join ==
  /\ socket = "closed"
  /\ socket' = "joined"
  /\ UNCHANGED <<view, world, unsent, workspace, wire, reads, shown, failed, missed, mishaps>>

\* The backend closes with 4401 or 4403: the session has ended, the household is no
\* longer the user's, or the authenticate message came too late or was not understood.
\* The client takes each of them for final.
Refuse ==
  /\ socket = "closed"
  /\ socket' = "ended"
  /\ UNCHANGED <<view, world, unsent, workspace, wire, reads, shown, failed, missed, mishaps>>

\* Fault: a new connection is no reason to read again (QuietMeansCurrent).
NoReason == 0

ReadyMessages == IF Reconciles THEN 1 ELSE 0

\* ... and only then says that it is ready.
SendReady ==
  /\ socket = "joined"
  /\ socket' = "open"
  /\ wire' = wire + ReadyMessages
  /\ UNCHANGED <<view, world, unsent, workspace, reads, shown, failed, missed, mishaps>>

\* So many superseded reads at most are still on their way.
Room == Cardinality(reads) <= MaxBehind

\* onEvent and onReady raise the revision.
Receive ==
  /\ wire > 0
  /\ Room
  /\ InHub
  /\ wire' = wire - 1
  /\ ReadAgain(workspace)
  /\ UNCHANGED <<view, world, unsent, workspace, socket, shown, mishaps>>

\* The connection is gone: what is on the wire is lost, the hub drops the socket.
Lose ==
  /\ InHub
  /\ mishaps["drops"] < MaxDrops
  /\ Spend("drops")
  /\ socket' = "dead"
  /\ wire' = 0
  /\ missed' = (missed \/ wire > 0)
  /\ UNCHANGED <<view, world, unsent, workspace, reads, shown, failed>>

\* The hub is in the process of the backend: a restart ends its sockets and
\* forgets what it has not sent.
BackendRestart ==
  /\ mishaps["drops"] < MaxDrops
  /\ Spend("drops")
  /\ unsent' = [w \in Workspaces |-> 0]
  /\ socket' = IF InHub THEN "dead" ELSE socket
  /\ wire' = 0
  /\ missed' = (missed \/ wire > 0 \/ unsent[workspace] > 0)
  /\ UNCHANGED <<view, world, workspace, reads, shown, failed>>

\* Fault: a socket that closes is not opened again (Converges).
StayClosed ==
  /\ socket = "dead"
  /\ socket' = "given up"
  /\ UNCHANGED <<view, world, unsent, workspace, wire, reads, shown, failed, missed, mishaps>>

\* onclose: the browser finds out and sets the back-off timer.
Notice ==
  /\ socket = "dead"
  /\ socket' = "closed"
  /\ UNCHANGED <<view, world, unsent, workspace, wire, reads, shown, failed, missed, mishaps>>

\* onSelect: the effects end the subscription and start one for w.
SelectWorkspace(w) ==
  /\ w # workspace
  /\ Room
  /\ mishaps["switches"] < MaxSwitches
  /\ Spend("switches")
  /\ workspace' = w
  /\ socket' = "closed"
  /\ wire' = 0
  /\ ReadAgain(w)
  /\ UNCHANGED <<view, world, unsent, shown>>

ReadLists(f) ==
  /\ f.lists = Nothing
  /\ reads' = (reads \ {f}) \cup {[f EXCEPT !.lists = world[f.of]]}
  /\ UNCHANGED <<view, world, unsent, workspace, socket, wire, shown, failed, missed, mishaps>>

ReadDetails(f) ==
  /\ f.lists # Nothing
  /\ f.details = Nothing
  /\ reads' = (reads \ {f}) \cup {[f EXCEPT !.details = world[f.of]]}
  /\ UNCHANGED <<view, world, unsent, workspace, socket, wire, shown, failed, missed, mishaps>>

\* Fault: the flag of the effect's clean-up is not looked at (OwnHousehold).
Unchecked(f) == TRUE

\* if (!cancelled): a guarded view takes the answer to its last read only.
Taken(f) == Guarded => ~ f.superseded

Arrive(f) ==
  /\ f.details # Nothing
  /\ reads' = reads \ {f}
  /\ IF Taken(f)
     THEN /\ shown' = [of |-> f.of, lists |-> f.lists, details |-> f.details,
                       late |-> f.superseded]
     ELSE UNCHANGED shown
  /\ UNCHANGED <<view, world, unsent, workspace, socket, wire, failed, missed, mishaps>>

\* A request of the read fails, times out, or asks for an area that is gone.
Fail(f) ==
  /\ reads' = reads \ {f}
  /\ failed' = (failed \/ ~ f.superseded)
  /\ UNCHANGED <<view, world, unsent, workspace, socket, wire, shown, missed, mishaps>>

Following == \/ Join \/ SendReady \/ Receive \/ Notice
             \/ \E w \in Workspaces : Publish(w)
             \/ \E f \in reads : ReadLists(f) \/ ReadDetails(f) \/ Arrive(f)

Disturbance == \/ Lose
               \/ BackendRestart
               \/ Refuse
               \/ \E w \in Workspaces : Commit(w) \/ Silent(w) \/ SelectWorkspace(w)
               \/ \E f \in reads : Fail(f)

Next == Following \/ Disturbance

Spec == Init /\ [][Next]_vars
-----------------------------------------------------------------------------
TypeOK ==
  /\ view \in Views
  /\ world \in [Workspaces -> Nat]
  /\ unsent \in [Workspaces -> Nat]
  /\ workspace \in Workspaces
  /\ socket \in {"closed", "joined", "open", "dead", "ended"}
  /\ wire \in Nat
  /\ reads \subseteq Read
  /\ shown \in Answer \cup {Nothing}
  /\ failed \in BOOLEAN
  /\ missed \in BOOLEAN
  /\ mishaps \in [{"drops", "switches"} -> Nat]

\* Is a read under way whose answer counts?
Loading == \E f \in reads : ~ f.superseded

\* The browser has heard of everything it will hear of, and read it.
Quiet == socket = "open" /\ wire = 0 /\ unsent[workspace] = 0 /\ reads = {}

Current == /\ shown # Nothing
           /\ shown.of = workspace
           /\ shown.lists = world[workspace]
           /\ shown.details = world[workspace]

\* A missed message leaves nothing stale: when all is quiet, and the last read has
\* not failed, a view shows the household as it is.  The exceptions are those of the
\* code: the items, which take the late answer to a superseded read, and the
\* checkouts, which do not read again when the socket is ready nor hear of every
\* change that concerns them.
QuietMeansCurrent ==
  Quiet => \/ failed
           \/ Current
           \/ view = "items" /\ shown # Nothing /\ shown.late
           \/ view = "checkouts" /\ missed

\* After a switch a guarded view does not keep, nor go back to, the contents of the
\* household that was left, unless the read of the new one is under way or has failed
\* (the old contents then stay: the checkouts show an error, the overview none).
OwnHousehold ==
  Guarded /\ ~ Loading /\ ~ failed => shown # Nothing /\ shown.of = workspace

\* Messages are delivered, dead connections are noticed, requests end.
FairSpec == Spec /\ WF_vars(Following)

\* However often the connection was lost, once the household rests the overview
\* comes to show it, unless its last read failed or the backend refused its socket,
\* which the client never opens again.
Converges == <>[](view = "overview" => failed \/ Current \/ socket = "ended")
=============================================================================
