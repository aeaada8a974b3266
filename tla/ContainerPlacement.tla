------------------------- MODULE ContainerPlacement -------------------------
(***************************************************************************)
(* The nesting of containers: place_container with its unlocked walk up    *)
(* the hierarchy (backend/app/application/locations/capabilities.py), and  *)
(* the container and zone routes that change what it has read              *)
(* (backend/app/api/v1/routes/locations.py), over the unique index and the *)
(* cascades of container_placements.                                       *)
(*                                                                         *)
(* One area, which delete_area cannot delete while it has containers (the  *)
(* ORM would set their area to NULL).  Each SELECT of the walk is an       *)
(* action; the read of container and parent is one, and so is a request    *)
(* that only writes one row.                                               *)
(*                                                                         *)
(* A definition marked Fault is used by no action: it is a mistake in the  *)
(* definition after it that the property in parentheses would catch.       *)
(***************************************************************************)
EXTENDS FiniteSets

CONSTANTS Containers,  \* container ids
          Settled,     \* bound: containers that are there all the time, in no zone
          Clients,     \* requests that run at a time
          Zones,       \* zones of the area
          None,        \* no zone, no parent
          Unborn,      \* a container that is not there yet ...
          Deleted      \* ... or not any more

ASSUME ConstantsAssumption ==
  /\ Settled \subseteq Containers
  /\ None \notin {Unborn, Deleted}
  /\ {None, Unborn, Deleted} \cap (Containers \cup Zones) = {}

\* The table of containers is finite.
ASSUME FiniteAssumption == IsFiniteSet(Containers)

VARIABLES zone,     \* zone_id of the rows of containers
          parent,   \* rows of container_placements: the parent of each child
          req       \* the place_container each client has in flight

vars == <<zone, parent, req>>
-----------------------------------------------------------------------------
Alive == {x \in Containers : zone[x] \notin {Unborn, Deleted}}

\* seen is the parent in the row read before the write, lost says that this row
\* is gone again, and overlap is history: another placement has been written
\* since this request began to walk.
Req == [pc : {"idle", "walk", "row", "commit"}, child : Containers \cup {None},
        under : Containers \cup {None}, cursor : Containers \cup {None},
        visited : SUBSET Containers, seen : Containers \cup {None},
        lost : BOOLEAN, overlap : BOOLEAN]

Idle == [pc |-> "idle", child |-> None, under |-> None, cursor |-> None, visited |-> {},
         seen |-> None, lost |-> FALSE, overlap |-> FALSE]

Finish(c) == req' = [req EXCEPT ![c] = Idle]

\* A container is its own ancestor: some containers only lead to each other.
Cyclic == \E S \in SUBSET Containers : S # {} /\ \A x \in S : parent[x] \in S

\* The rows of the children in S are deleted under requests that have read them.
LoseRows(S) ==
  req' = [c \in Clients |->
    [req[c] EXCEPT !.lost = @ \/ (req[c].pc = "commit" /\ req[c].child \in S)]]
-----------------------------------------------------------------------------
Init == /\ zone = [x \in Containers |-> IF x \in Settled THEN None ELSE Unborn]
        /\ parent = [x \in Containers |-> None]
        /\ req = [c \in Clients |-> Idle]

CreateContainer(x, z) ==
  /\ zone[x] = Unborn
  /\ zone' = [zone EXCEPT ![x] = z]
  /\ UNCHANGED <<parent, req>>

\* A container may be moved to another zone whatever is nested in it.
UpdateContainer(x, z) ==
  /\ x \in Alive
  /\ zone' = [zone EXCEPT ![x] = z]
  /\ UNCHANGED <<parent, req>>

\* ON DELETE CASCADE on both columns: the children have no parent any more.
DeleteContainer(x) ==
  /\ x \in Alive
  /\ zone' = [zone EXCEPT ![x] = Deleted]
  /\ parent' = [y \in Containers |-> IF x \in {y, parent[y]} THEN None ELSE parent[y]]
  /\ LoseRows({y \in Containers : x \in {y, parent[y]}})

\* remove_container_placement
RemovePlacement(x) ==
  /\ parent[x] # None
  /\ parent' = [parent EXCEPT ![x] = None]
  /\ LoseRows({x})
  /\ UNCHANGED zone

(* place_container *)
PlaceRead(c, x, p) ==
  /\ req[c].pc = "idle"
  /\ {x, p} \subseteq Alive
  /\ zone[x] = zone[p]
  /\ req' = [req EXCEPT ![c] = [Idle EXCEPT !.pc = "walk", !.child = x, !.under = p,
                                            !.cursor = p]]
  /\ UNCHANGED <<zone, parent>>

\* Fault: the walk does not remember where it has been (EveryRequestAnswered).
MeetsChild(c) == req[c].cursor = req[c].child

\* Fault: the new parent itself is not compared (CycleNeedsOverlap).
SkipsFirst(c) == /\ req[c].cursor = req[c].child \/ req[c].cursor \in req[c].visited
                 /\ req[c].visited # {}

\* "would create a cycle", or "already contains a cycle"
Refused(c) == req[c].cursor = req[c].child \/ req[c].cursor \in req[c].visited

WalkRefuse(c) ==
  /\ req[c].pc = "walk"
  /\ Refused(c)
  /\ Finish(c)
  /\ UNCHANGED <<zone, parent>>

\* One SELECT of the parent of the cursor; the walk ends at a root.
WalkUp(c) ==
  /\ req[c].pc = "walk"
  /\ ~ Refused(c)
  /\ LET up == parent[req[c].cursor]
     IN req' = [req EXCEPT ![c] =
          [req[c] EXCEPT !.cursor = up, !.visited = @ \cup {req[c].cursor},
                         !.pc = IF up = None THEN "row" ELSE "walk"]]
  /\ UNCHANGED <<zone, parent>>

PlaceRow(c) ==
  /\ req[c].pc = "row"
  /\ req' = [req EXCEPT ![c] = [req[c] EXCEPT !.pc = "commit", !.seen = parent[req[c].child]]]
  /\ UNCHANGED <<zone, parent>>

\* Fault: no foreign keys (TypeOK).
MayDangle(c) == IF req[c].seen = None THEN parent[req[c].child] = None ELSE ~ req[c].lost

\* The INSERT meets no row of the child, or the UPDATE still finds the row it
\* has read, and the foreign keys hold.
MayWrite(c) ==
  /\ {req[c].child, req[c].under} \subseteq Alive
  /\ IF req[c].seen = None THEN parent[req[c].child] = None ELSE ~ req[c].lost

\* Only a changed parent is written.
PlaceWrite(c) ==
  /\ req[c].pc = "commit"
  /\ MayWrite(c)
  /\ req[c].seen # req[c].under
  /\ parent' = [parent EXCEPT ![req[c].child] = req[c].under]
  /\ req' = [d \in Clients |-> IF d = c \/ req[d].pc = "idle"
                               THEN Idle
                               ELSE [req[d] EXCEPT !.overlap = TRUE]]
  /\ UNCHANGED zone

\* Nothing to write, or an IntegrityError or a StaleDataError that nobody handles.
PlaceEnd(c) ==
  /\ req[c].pc = "commit"
  /\ ~ MayWrite(c) \/ req[c].seen = req[c].under
  /\ Finish(c)
  /\ UNCHANGED <<zone, parent>>

Progress(c) == WalkRefuse(c) \/ WalkUp(c) \/ PlaceRow(c) \/ PlaceWrite(c) \/ PlaceEnd(c)

Next == \/ \E x \in Containers :
             \/ RemovePlacement(x)
             \/ /\ x \notin Settled
                /\ \/ \E z \in Zones \cup {None} : CreateContainer(x, z) \/ UpdateContainer(x, z)
                   \/ DeleteContainer(x)
        \/ \E c \in Clients, x, p \in Containers : PlaceRead(c, x, p)
        \/ \E c \in Clients : Progress(c)

Spec == Init /\ [][Next]_vars
-----------------------------------------------------------------------------
\* Shape of the state; a row of container_placements joins two rows of containers.
TypeOK ==
  /\ zone \in [Containers -> Zones \cup {None, Unborn, Deleted}]
  /\ parent \in [Containers -> Containers \cup {None}]
  /\ \A x \in Containers : parent[x] # None => {x, parent[x]} \subseteq Alive
  /\ req \in [Clients -> Req]

\* The walk is a sound check when nobody interferes: however containers are
\* moved, deleted and placed, a step that closes a cycle is the write of a
\* request during whose walk another placement was written.
CycleNeedsOverlap ==
  [][~ Cyclic /\ Cyclic' =>
       \E c \in Clients : req[c].pc = "commit" /\ req[c].overlap /\ req'[c] = Idle]_vars

\* PostgreSQL and the event loop run every request on.
FairSpec == Spec /\ \A c \in Clients : WF_vars(Progress(c))

\* A hierarchy that a race has broken, or that changes under the walk, hangs
\* nobody: every request is answered.
EveryRequestAnswered == \A c \in Clients : req[c].pc # "idle" ~> req[c].pc = "idle"
=============================================================================
