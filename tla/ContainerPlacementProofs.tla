---------------------- MODULE ContainerPlacementProofs ----------------------
(***************************************************************************)
(* Proofs about ContainerPlacement, for any number of containers, zones    *)
(* and requests.  The argument: what a walk has visited is closed under    *)
(* "parent of" up to its cursor and does not hold the child, as long as no *)
(* other placement is written (PathOK).  A set of containers that only     *)
(* lead to each other after the write would then meet the visited ones in  *)
(* a set that did so before it.                                            *)
(***************************************************************************)
EXTENDS ContainerPlacement, FiniteSetTheorems, TLAPS

\* What a request knows at each stage.
StageOK(c) ==
  /\ req[c].pc # "idle" => req[c].child \in Containers /\ req[c].under \in Containers
  /\ req[c].pc = "walk" => /\ req[c].cursor \in Containers
                           /\ req[c].cursor = req[c].under \/ req[c].under \in req[c].visited
  /\ req[c].pc \in {"row", "commit"} => req[c].cursor = None /\ req[c].under \in req[c].visited

\* What it has visited, unless another placement was written meanwhile.
PathOK(c) ==
  req[c].pc # "idle" /\ ~ req[c].overlap =>
    /\ req[c].child \notin req[c].visited
    /\ \A v \in req[c].visited : parent[v] \in req[c].visited \cup {req[c].cursor, None}

Inv == TypeOK /\ \A c \in Clients : StageOK(c) /\ PathOK(c)

Step == Next \/ UNCHANGED vars

\* No action but a write adds an edge to the hierarchy.
Shrinks == \A x \in Containers : parent'[x] \in {parent[x], None}

\* A hierarchy that only loses edges stays without a cycle.
LEMMA ShrinkingKeepsAcyclic ==
  ASSUME Shrinks, ~ Cyclic
  PROVE  ~ Cyclic'
<1> SUFFICES ASSUME NEW S \in SUBSET Containers, S # {}, \A x \in S : parent'[x] \in S
             PROVE  FALSE
  BY DEF Cyclic
<1>1. None \notin Containers
  BY ConstantsAssumption
<1>2. \A x \in S : parent[x] \in S
  BY <1>1 DEF Shrinks
<1> QED
  BY <1>2 DEF Cyclic

\* Init establishes the invariant.
LEMMA InitInv == Init => Inv
<1> SUFFICES ASSUME Init PROVE Inv
  OBVIOUS
<1>1. TypeOK
  BY DEF Init, TypeOK, Idle, Req
<1>2. \A c \in Clients : StageOK(c) /\ PathOK(c)
  BY DEF Init, StageOK, PathOK, Idle
<1> QED
  BY <1>1, <1>2 DEF Inv

\* The requests of a step that changes no request, or only says that rows are lost.
SameRequests ==
  \A c \in Clients : \E b \in BOOLEAN : req'[c] = [req[c] EXCEPT !.lost = b]

LEMMA SameRequestsKeepStage ==
  ASSUME Inv, SameRequests, Shrinks, req' \in [Clients -> Req]
  PROVE  \A c \in Clients : StageOK(c)' /\ PathOK(c)'
<1> SUFFICES ASSUME NEW c \in Clients PROVE StageOK(c)' /\ PathOK(c)'
  OBVIOUS
<1>1. PICK b \in BOOLEAN : req'[c] = [req[c] EXCEPT !.lost = b]
  BY DEF SameRequests
<1>2. req[c] \in Req
  BY DEF Inv, TypeOK
<1>3. /\ req'[c].pc = req[c].pc /\ req'[c].child = req[c].child
      /\ req'[c].under = req[c].under /\ req'[c].cursor = req[c].cursor
      /\ req'[c].visited = req[c].visited /\ req'[c].overlap = req[c].overlap
      /\ req[c].visited \subseteq Containers
  BY <1>1, <1>2 DEF Req
<1>4. StageOK(c) /\ PathOK(c)
  BY DEF Inv
<1>5. StageOK(c)'
  BY <1>3, <1>4 DEF StageOK
<1>6. PathOK(c)'
  BY <1>3, <1>4 DEF PathOK, Shrinks
<1> QED
  BY <1>5, <1>6

\* LoseRows only touches the field lost.
LEMMA LoseRowsSame ==
  ASSUME NEW S, LoseRows(S), req \in [Clients -> Req]
  PROVE  SameRequests /\ req' \in [Clients -> Req]
<1> SUFFICES ASSUME NEW c \in Clients
             PROVE  /\ req'[c] \in Req
                    /\ \E b \in BOOLEAN : req'[c] = [req[c] EXCEPT !.lost = b]
  BY DEF LoseRows, SameRequests
<1> DEFINE b == req[c].lost \/ (req[c].pc = "commit" /\ req[c].child \in S)
<1>1. req'[c] = [req[c] EXCEPT !.lost = b]
  BY DEF LoseRows
<1>2. req[c] \in Req
  OBVIOUS
<1>3. b \in BOOLEAN
  BY <1>2 DEF Req
<1>4. [req[c] EXCEPT !.lost = b] \in Req
  BY <1>2, <1>3 DEF Req
<1> QED
  BY <1>1, <1>3, <1>4

\* TypeOK of a step that only changes zones, to none of the special values.
LEMMA ZoneStep ==
  ASSUME TypeOK, UNCHANGED <<parent, req>>,
         zone' \in [Containers -> Zones \cup {None, Unborn, Deleted}],
         Alive \subseteq Alive'
  PROVE  TypeOK' /\ SameRequests /\ Shrinks
<1>1. TypeOK'
  BY DEF TypeOK
<1>2. SameRequests
  <2> SUFFICES ASSUME NEW c \in Clients
               PROVE  \E b \in BOOLEAN : req'[c] = [req[c] EXCEPT !.lost = b]
    BY DEF SameRequests
  <2>1. req[c] \in Req
    BY DEF TypeOK
  <2>2. req[c].lost \in BOOLEAN /\ req[c] = [req[c] EXCEPT !.lost = req[c].lost]
    BY <2>1 DEF Req
  <2> QED
    BY <2>2
<1> QED
  BY <1>1, <1>2 DEF Shrinks

\* The actions outside place_container: no edge is added and no request changes.
LEMMA EditStep ==
  ASSUME TypeOK,
         \/ \E x \in Containers, z \in Zones \cup {None} :
              CreateContainer(x, z) \/ UpdateContainer(x, z)
         \/ \E x \in Containers : DeleteContainer(x) \/ RemovePlacement(x)
         \/ UNCHANGED vars
  PROVE  TypeOK' /\ SameRequests /\ Shrinks
<1> USE ConstantsAssumption
<1>1. ASSUME NEW x \in Containers, NEW z \in Zones \cup {None}, CreateContainer(x, z)
      PROVE  TypeOK' /\ SameRequests /\ Shrinks
  <2>1. Alive \subseteq Alive'
    BY <1>1 DEF CreateContainer, Alive, TypeOK
  <2> QED
    BY <1>1, <2>1, ZoneStep DEF CreateContainer, TypeOK
<1>2. ASSUME NEW x \in Containers, NEW z \in Zones \cup {None}, UpdateContainer(x, z)
      PROVE  TypeOK' /\ SameRequests /\ Shrinks
  <2>1. Alive \subseteq Alive'
    BY <1>2 DEF UpdateContainer, Alive, TypeOK
  <2> QED
    BY <1>2, <2>1, ZoneStep DEF UpdateContainer, TypeOK
<1>4. CASE UNCHANGED vars
  <2>1. Alive \subseteq Alive'
    BY <1>4 DEF vars, Alive
  <2> QED
    BY <1>4, <2>1, ZoneStep DEF vars, TypeOK
<1>5. ASSUME NEW x \in Containers, RemovePlacement(x)
      PROVE  TypeOK' /\ SameRequests /\ Shrinks
  <2>1. SameRequests /\ req' \in [Clients -> Req]
    BY <1>5, LoseRowsSame DEF RemovePlacement, TypeOK
  <2>2. Shrinks /\ parent' \in [Containers -> Containers \cup {None}]
    BY <1>5 DEF RemovePlacement, Shrinks, TypeOK
  <2>3. \A y \in Containers : parent'[y] # None => {y, parent'[y]} \subseteq Alive'
    BY <1>5, <2>2 DEF RemovePlacement, Shrinks, TypeOK, Alive
  <2> QED
    BY <1>5, <2>1, <2>2, <2>3 DEF RemovePlacement, TypeOK
<1>6. ASSUME NEW x \in Containers, DeleteContainer(x)
      PROVE  TypeOK' /\ SameRequests /\ Shrinks
  <2>1. SameRequests /\ req' \in [Clients -> Req]
    BY <1>6, LoseRowsSame DEF DeleteContainer, TypeOK
  <2>2. Shrinks /\ parent' \in [Containers -> Containers \cup {None}]
    BY <1>6 DEF DeleteContainer, Shrinks, TypeOK
  <2>3. zone' \in [Containers -> Zones \cup {None, Unborn, Deleted}]
    BY <1>6 DEF DeleteContainer, TypeOK
  <2>4. \A y \in Containers : parent'[y] # None => {y, parent'[y]} \subseteq Alive'
    <3> SUFFICES ASSUME NEW y \in Containers, parent'[y] # None
                 PROVE  {y, parent'[y]} \subseteq Alive'
      OBVIOUS
    <3>1. parent'[y] = parent[y] /\ y # x /\ parent[y] # x
      BY <1>6 DEF DeleteContainer, TypeOK
    <3>2. \A w \in Alive \ {x} : w \in Alive'
      BY <1>6 DEF DeleteContainer, TypeOK, Alive
    <3> QED
      BY <3>1, <3>2 DEF TypeOK
  <2> QED
    BY <2>1, <2>2, <2>3, <2>4 DEF TypeOK
<1> QED
  BY <1>1, <1>2, <1>4, <1>5, <1>6

\* A step of one request that writes nothing: the others are as they were.
LEMMA OthersKeep ==
  ASSUME Inv, NEW c \in Clients, NEW r \in Req, req' = [req EXCEPT ![c] = r],
         UNCHANGED <<zone, parent>>, StageOK(c)', PathOK(c)'
  PROVE  Inv'
<1>1. TypeOK'
  BY DEF Inv, TypeOK, Alive
<1>2. ASSUME NEW d \in Clients \ {c} PROVE StageOK(d)' /\ PathOK(d)'
  <2>1. req'[d] = req[d]
    BY DEF Inv, TypeOK
  <2> QED
    BY <2>1 DEF Inv, StageOK, PathOK
<1> QED
  BY <1>1, <1>2 DEF Inv

LEMMA IdleIsReq == Idle \in Req
BY DEF Idle, Req

LEMMA WalkStep ==
  ASSUME Inv, NEW c \in Clients,
         \/ \E x, p \in Containers : PlaceRead(c, x, p)
         \/ WalkRefuse(c) \/ WalkUp(c) \/ PlaceRow(c) \/ PlaceEnd(c)
  PROVE  Inv' /\ parent' = parent
<1> USE ConstantsAssumption, IdleIsReq
<1>1. req \in [Clients -> Req] /\ req[c] \in Req /\ StageOK(c) /\ PathOK(c)
      /\ parent \in [Containers -> Containers \cup {None}]
  BY DEF Inv, TypeOK
<1>2. ASSUME NEW x \in Containers, NEW p \in Containers, PlaceRead(c, x, p)
      PROVE  Inv' /\ parent' = parent
  <2> DEFINE r == [Idle EXCEPT !.pc = "walk", !.child = x, !.under = p, !.cursor = p]
  <2>1. r \in Req /\ req' = [req EXCEPT ![c] = r] /\ UNCHANGED <<zone, parent>>
    BY <1>2 DEF PlaceRead, Idle, Req
  <2>2. StageOK(c)' /\ PathOK(c)'
    BY <1>1, <2>1 DEF StageOK, PathOK, Idle
  <2> QED
    BY <2>1, <2>2, OthersKeep
<1>3. CASE WalkRefuse(c) \/ PlaceEnd(c)
  <2>1. req' = [req EXCEPT ![c] = Idle] /\ UNCHANGED <<zone, parent>>
    BY <1>3 DEF WalkRefuse, PlaceEnd, Finish
  <2>2. StageOK(c)' /\ PathOK(c)'
    BY <1>1, <2>1 DEF StageOK, PathOK, Idle
  <2> QED
    BY <2>1, <2>2, OthersKeep
<1>4. CASE WalkUp(c)
  <2> DEFINE up == parent[req[c].cursor]
             r == [req[c] EXCEPT !.cursor = up, !.visited = @ \cup {req[c].cursor},
                                 !.pc = IF up = None THEN "row" ELSE "walk"]
  <2>1. req' = [req EXCEPT ![c] = r] /\ UNCHANGED <<zone, parent>>
    BY <1>4 DEF WalkUp
  <2>2. req[c].pc = "walk" /\ ~ Refused(c) /\ req[c].cursor \in Containers
        /\ up \in Containers \cup {None} /\ req[c].visited \subseteq Containers
    BY <1>1, <1>4 DEF WalkUp, StageOK, Req
  <2>3. /\ r \in Req /\ r.cursor = up /\ r.visited = req[c].visited \cup {req[c].cursor}
        /\ r.pc = IF up = None THEN "row" ELSE "walk"
        /\ r.child = req[c].child /\ r.under = req[c].under /\ r.overlap = req[c].overlap
    BY <1>1, <2>2 DEF Req
  <2>4. StageOK(c)'
    BY <1>1, <2>1, <2>2, <2>3 DEF StageOK
  <2>5. PathOK(c)'
    BY <1>1, <2>1, <2>2, <2>3 DEF PathOK, Refused
  <2> QED
    BY <2>1, <2>3, <2>4, <2>5, OthersKeep
<1>5. CASE PlaceRow(c)
  <2> DEFINE r == [req[c] EXCEPT !.pc = "commit", !.seen = parent[req[c].child]]
  <2>1. req' = [req EXCEPT ![c] = r] /\ UNCHANGED <<zone, parent>> /\ req[c].pc = "row"
    BY <1>5 DEF PlaceRow
  <2>2. parent[req[c].child] \in Containers \cup {None}
    BY <1>1, <2>1 DEF StageOK
  <2>3. /\ r \in Req /\ r.pc = "commit" /\ r.cursor = req[c].cursor
        /\ r.visited = req[c].visited /\ r.child = req[c].child /\ r.under = req[c].under
        /\ r.overlap = req[c].overlap
    BY <1>1, <2>2 DEF Req
  <2>4. StageOK(c)' /\ PathOK(c)'
    BY <1>1, <2>1, <2>3 DEF StageOK, PathOK
  <2> QED
    BY <2>1, <2>3, <2>4, OthersKeep
<1> QED
  BY <1>2, <1>3, <1>4, <1>5 DEF WalkRefuse, WalkUp, PlaceRow, PlaceEnd, PlaceRead

\* The write: every other request in flight is marked, so nothing is claimed of it.
LEMMA WriteStep ==
  ASSUME Inv, NEW c \in Clients, PlaceWrite(c)
  PROVE  Inv' /\ req'[c] = Idle
<1> USE ConstantsAssumption, IdleIsReq
<1>1. req \in [Clients -> Req] /\ StageOK(c) /\ req[c] \in Req
  BY DEF Inv, TypeOK
<1>2. req[c].child \in Alive /\ req[c].under \in Alive
      /\ req[c].child \in Containers /\ req[c].under \in Containers
  BY DEF PlaceWrite, MayWrite, Alive
<1>3. ASSUME NEW d \in Clients
      PROVE  req'[d] \in Req /\ StageOK(d)' /\ PathOK(d)'
  <2>1. CASE d = c \/ req[d].pc = "idle"
    <3>1. req'[d] = Idle
      BY <2>1 DEF PlaceWrite
    <3> QED
      BY <3>1 DEF StageOK, PathOK, Idle
  <2>2. CASE ~ (d = c \/ req[d].pc = "idle")
    <3>1. req'[d] = [req[d] EXCEPT !.overlap = TRUE] /\ req[d] \in Req /\ StageOK(d)
      BY <2>2 DEF PlaceWrite, Inv, TypeOK
    <3>2. /\ req'[d] \in Req /\ req'[d].pc = req[d].pc /\ req'[d].child = req[d].child
          /\ req'[d].under = req[d].under /\ req'[d].cursor = req[d].cursor
          /\ req'[d].visited = req[d].visited /\ req'[d].overlap = TRUE
      BY <3>1 DEF Req
    <3> QED
      BY <3>1, <3>2 DEF StageOK, PathOK
  <2> QED
    BY <2>1, <2>2
<1>4. req' \in [Clients -> Req] /\ req'[c] = Idle
  BY <1>3 DEF PlaceWrite
<1>5. parent' \in [Containers -> Containers \cup {None}] /\ zone' = zone /\ Alive' = Alive
  BY <1>2 DEF PlaceWrite, Inv, TypeOK, Alive
<1>6. \A x \in Containers : parent'[x] # None => {x, parent'[x]} \subseteq Alive
  BY <1>2, <1>5 DEF PlaceWrite, Inv, TypeOK
<1>7. TypeOK'
  BY <1>4, <1>5, <1>6 DEF Inv, TypeOK
<1> QED
  BY <1>3, <1>4, <1>7 DEF Inv

\* The core: a write after an undisturbed walk closes no cycle.  The part of S
\* that was visited only leads to itself already, and does not hold the child.
LEMMA SoundWalk ==
  ASSUME Inv, NEW c \in Clients, PlaceWrite(c), ~ req[c].overlap, ~ Cyclic
  PROVE  ~ Cyclic'
<1> USE ConstantsAssumption
<1> SUFFICES ASSUME NEW S \in SUBSET Containers, S # {}, \A x \in S : parent'[x] \in S
             PROVE  FALSE
  BY DEF Cyclic
<1> DEFINE child == req[c].child
           V == req[c].visited
<1>1. /\ req[c].pc = "commit" /\ req[c].cursor = None /\ req[c].under \in V
      /\ child \in Containers /\ child \notin V
      /\ \A v \in V : parent[v] \in V \cup {None}
  BY DEF PlaceWrite, Inv, StageOK, PathOK
<1>2. /\ parent'[child] = req[c].under
      /\ \A x \in Containers \ {child} : parent'[x] = parent[x]
  BY <1>1 DEF PlaceWrite, Inv, TypeOK
<1>3. CASE child \notin S
  <2>1. \A x \in S : parent[x] \in S
    BY <1>2, <1>3
  <2> QED
    BY <2>1 DEF Cyclic
<1>4. CASE child \in S
  <2> DEFINE T == S \cap V
  <2>1. req[c].under \in T
    BY <1>1, <1>2, <1>4
  <2>2. \A x \in T : parent[x] \in T
    BY <1>1, <1>2
  <2>3. T \in SUBSET Containers /\ T # {}
    BY <2>1
  <2> QED
    BY <2>2, <2>3 DEF Cyclic
<1> QED
  BY <1>3, <1>4

\* Every step keeps the invariant, and adds an edge only by a write.
LEMMA NextInv ==
  ASSUME Inv, Step
  PROVE  Inv' /\ (Shrinks \/ \E c \in Clients : PlaceWrite(c) /\ req'[c] = Idle)
<1>1. CASE \/ \E x \in Containers, z \in Zones \cup {None} :
                CreateContainer(x, z) \/ UpdateContainer(x, z)
           \/ \E x \in Containers : DeleteContainer(x) \/ RemovePlacement(x)
           \/ UNCHANGED vars
  <2>1. TypeOK' /\ SameRequests /\ Shrinks
    BY <1>1, EditStep DEF Inv
  <2>2. \A c \in Clients : StageOK(c)' /\ PathOK(c)'
    BY <2>1, SameRequestsKeepStage DEF TypeOK
  <2> QED
    BY <2>1, <2>2 DEF Inv
<1>2. ASSUME NEW c \in Clients,
             \/ \E x, p \in Containers : PlaceRead(c, x, p)
             \/ WalkRefuse(c) \/ WalkUp(c) \/ PlaceRow(c) \/ PlaceEnd(c)
      PROVE  Inv' /\ Shrinks
  BY <1>2, WalkStep DEF Shrinks
<1>3. ASSUME NEW c \in Clients, PlaceWrite(c) PROVE Inv' /\ req'[c] = Idle
  BY <1>3, WriteStep
<1>4. CASE Next
  <2>1. CASE \E c \in Clients : (\E x, p \in Containers : PlaceRead(c, x, p)) \/ Progress(c)
    BY <2>1, <1>2, <1>3 DEF Progress
  <2>2. CASE \E x \in Containers : RemovePlacement(x) \/ DeleteContainer(x)
    BY <2>2, <1>1
  <2>3. CASE \E x \in Containers, z \in Zones \cup {None} :
               CreateContainer(x, z) \/ UpdateContainer(x, z)
    BY <2>3, <1>1
  <2> QED
    BY <1>4, <2>1, <2>2, <2>3 DEF Next
<1>5. CASE UNCHANGED vars
  BY <1>5, <1>1
<1> QED
  BY <1>4, <1>5 DEF Step

\* Rows, requests and the foreign keys of placements are right in every
\* reachable state, for any number of containers and of requests in flight.
THEOREM TypeCorrect == Spec => []TypeOK
<1>1. Inv /\ [Next]_vars => Inv'
  BY NextInv DEF Step
<1>2. Inv => TypeOK
  BY DEF Inv
<1> QED
  BY InitInv, <1>1, <1>2, PTL DEF Spec

\* The walk of place_container is a sound check against cycles for every
\* hierarchy, unless another placement is written during it.
THEOREM WalkSound == Spec => CycleNeedsOverlap
<1> DEFINE A == ~ Cyclic /\ Cyclic' =>
                  \E c \in Clients : req[c].pc = "commit" /\ req[c].overlap /\ req'[c] = Idle
<1>1. Inv /\ [Next]_vars => Inv'
  BY NextInv DEF Step
<1>2. Inv /\ [Next]_vars => [A]_vars
  <2> SUFFICES ASSUME Inv, Step, ~ Cyclic, Cyclic'
               PROVE  \E c \in Clients : req[c].pc = "commit" /\ req[c].overlap /\ req'[c] = Idle
    BY DEF Step
  <2>1. ~ Shrinks
    BY ShrinkingKeepsAcyclic
  <2>2. PICK c \in Clients : PlaceWrite(c) /\ req'[c] = Idle
    BY <2>1, NextInv
  <2>3. req[c].overlap /\ req[c].pc = "commit"
    BY <2>2, SoundWalk DEF PlaceWrite
  <2> QED
    BY <2>2, <2>3
<1> QED
  BY InitInv, <1>1, <1>2, PTL DEF Spec, CycleNeedsOverlap

-----------------------------------------------------------------------------
(* How long a request may take. *)

\* The most steps a request in flight has left: a container that was visited is not
\* visited again.
StepsLeft(c) ==
  CASE req[c].pc = "idle" -> 0
    [] req[c].pc = "walk" -> Cardinality(Containers \ req[c].visited) + 3
    [] req[c].pc = "row" -> 2
    [] req[c].pc = "commit" -> 1

\* Each step of a request leaves it fewer, and what others place, move or delete under
\* its walk leaves it as many: no cycle and no change of the hierarchy lengthens a walk.
WalksAreBounded ==
  [][\A c \in Clients :
       req[c].pc # "idle" =>
         IF Progress(c) THEN StepsLeft(c)' < StepsLeft(c) ELSE StepsLeft(c)' = StepsLeft(c)]_vars

\* The steps left are a number, and none are left when the request is answered.
LEMMA StepsLeftIs ==
  ASSUME Inv, NEW c \in Clients
  PROVE  StepsLeft(c) \in Nat /\ (StepsLeft(c) = 0 <=> req[c].pc = "idle")
<1>1. req[c].pc \in {"idle", "walk", "row", "commit"}
  BY DEF Inv, TypeOK, Req
<1>2. Cardinality(Containers \ req[c].visited) \in Nat
  BY FiniteAssumption, FS_Difference, FS_CardinalityType
<1>3. QED
  BY <1>1, <1>2 DEF StepsLeft

\* A step of the request itself.
LEMMA OwnStep ==
  ASSUME Inv, NEW c \in Clients, Progress(c)
  PROVE  StepsLeft(c)' < StepsLeft(c)
<1>1. req \in [Clients -> Req] /\ req[c] \in Req /\ StageOK(c)
  BY DEF Inv, TypeOK
<1>2. CASE WalkUp(c)
  <2> DEFINE rest == Containers \ req[c].visited
  <2>1. req[c].pc = "walk" /\ req[c].cursor \in rest
    BY <1>1, <1>2 DEF WalkUp, Refused, StageOK
  <2>2. req'[c].visited = req[c].visited \cup {req[c].cursor} /\ req'[c].pc \in {"walk", "row"}
    BY <1>1, <1>2 DEF WalkUp, Req
  <2>3. Containers \ req'[c].visited = rest \ {req[c].cursor}
    BY <2>2
  <2>4. IsFiniteSet(rest) /\ Cardinality(rest) \in Nat
    BY FiniteAssumption, FS_Difference, FS_CardinalityType
  <2>5. Cardinality(rest \ {req[c].cursor}) = Cardinality(rest) - 1
    BY <2>1, <2>4, FS_RemoveElement
  <2>6. StepsLeft(c) = Cardinality(rest) + 3
    BY <2>1 DEF StepsLeft
  <2>7. StepsLeft(c)' \in {Cardinality(rest \ {req[c].cursor}) + 3, 2}
    BY <2>2, <2>3 DEF StepsLeft
  <2>8. QED
    BY <2>4, <2>5, <2>6, <2>7
<1>3. CASE PlaceRow(c)
  <2>1. req[c].pc = "row" /\ req'[c].pc = "commit"
    BY <1>1, <1>3 DEF PlaceRow, Req
  <2>2. QED
    BY <2>1 DEF StepsLeft
<1>4. CASE WalkRefuse(c) \/ PlaceWrite(c) \/ PlaceEnd(c)
  <2>1. req[c].pc # "idle" /\ req'[c] = Idle
    BY <1>1, <1>4, WriteStep DEF WalkRefuse, PlaceWrite, PlaceEnd, Finish
  <2>2. StepsLeft(c) \in Nat /\ StepsLeft(c) # 0
    BY <2>1, StepsLeftIs
  <2>3. StepsLeft(c)' = 0
    BY <2>1 DEF StepsLeft, Idle
  <2>4. QED
    BY <2>2, <2>3
<1>5. QED
  BY <1>2, <1>3, <1>4 DEF Progress

\* A step of another one, or of a request outside place_container.
LEMMA OtherStep ==
  ASSUME Inv, Step, NEW c \in Clients, req[c].pc # "idle", ~ Progress(c)
  PROVE  StepsLeft(c)' = StepsLeft(c)
<1> SUFFICES req'[c].pc = req[c].pc /\ req'[c].visited = req[c].visited
  BY DEF StepsLeft
<1>1. req \in [Clients -> Req] /\ req[c] \in Req
  BY DEF Inv, TypeOK
<1>2. CASE \/ \E x \in Containers, z \in Zones \cup {None} :
                CreateContainer(x, z) \/ UpdateContainer(x, z)
           \/ \E x \in Containers : DeleteContainer(x) \/ RemovePlacement(x)
           \/ UNCHANGED vars
  <2>1. SameRequests
    BY <1>2, EditStep DEF Inv
  <2>2. PICK b \in BOOLEAN : req'[c] = [req[c] EXCEPT !.lost = b]
    BY <2>1 DEF SameRequests
  <2>3. QED
    BY <1>1, <2>2 DEF Req
<1>3. ASSUME NEW d \in Clients, \E x, p \in Containers : PlaceRead(d, x, p)
      PROVE  req'[c] = req[c]
  BY <1>1, <1>3 DEF PlaceRead
<1>4. ASSUME NEW d \in Clients \ {c}, WalkRefuse(d) \/ WalkUp(d) \/ PlaceRow(d) \/ PlaceEnd(d)
      PROVE  req'[c] = req[c]
  BY <1>1, <1>4 DEF WalkRefuse, WalkUp, PlaceRow, PlaceEnd, Finish
<1>5. ASSUME NEW d \in Clients \ {c}, PlaceWrite(d)
      PROVE  req'[c].pc = req[c].pc /\ req'[c].visited = req[c].visited
  <2>1. req'[c] = [req[c] EXCEPT !.overlap = TRUE]
    BY <1>5 DEF PlaceWrite
  <2>2. QED
    BY <1>1, <2>1 DEF Req
<1>6. CASE \E d \in Clients : Progress(d)
  <2>1. PICK d \in Clients : Progress(d)
    BY <1>6
  <2>2. d # c
    BY <2>1
  <2>3. QED
    BY <2>1, <2>2, <1>4, <1>5 DEF Progress
<1>7. QED
  BY <1>2, <1>3, <1>6 DEF Step, Next

\* Whatever the hierarchy becomes, a place_container visits each container once at
\* most: with a step of it run again and again, it is answered.
THEOREM WalksEnd == Spec => WalksAreBounded
<1>1. Inv /\ [Next]_vars => Inv'
  BY NextInv DEF Step
<1>2. Inv /\ [Next]_vars =>
        [\A c \in Clients :
           req[c].pc # "idle" =>
             IF Progress(c) THEN StepsLeft(c)' < StepsLeft(c)
                            ELSE StepsLeft(c)' = StepsLeft(c)]_vars
  BY OwnStep, OtherStep DEF Step
<1>3. QED
  BY InitInv, <1>1, <1>2, PTL DEF Spec, WalksAreBounded
=============================================================================
