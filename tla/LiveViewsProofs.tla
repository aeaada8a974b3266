--------------------------- MODULE LiveViewsProofs ---------------------------
(***************************************************************************)
(* Proofs about LiveViews, for any number of households, of changes, of     *)
(* lost connections and of reads that overlap.                              *)
(*                                                                          *)
(* The heart is Heard: a version that a view has, or is about to take, is   *)
(* the current one unless something will still make the page read again (or,*)
(* for the checkouts, an event was lost or never sent).  It is kept by every step of the  *)
(* hub and the socket, and it is what a read finds: ViewInv says so of the  *)
(* one read that is not superseded and, when there is none, of what is      *)
(* shown.                                                                   *)
(***************************************************************************)
EXTENDS LiveViews, TLAPS

\* Version n of the selected household is current, or the page will hear of a change.
Heard(n) == \/ n = world[workspace]
            \/ unsent[workspace] > 0
            \/ wire > 0
            \/ IF Reconciles THEN socket # "open" ELSE missed

OneLoads ==
  \A f, g \in reads : ~ f.superseded /\ ~ g.superseded => f = g

ListsFirst == \A f \in reads : f.details # Nothing => f.lists # Nothing

LoadIsOwn ==
  \A f \in reads : ~ f.superseded =>
    /\ f.of = workspace
    /\ f.lists # Nothing => Heard(f.lists)
    /\ f.details # Nothing => Heard(f.details)

ShownLate == view = "items" /\ shown # Nothing /\ shown.late

ShownIsOwn ==
  ~ Loading /\ ~ failed /\ ~ ShownLate =>
    /\ shown # Nothing
    /\ shown.of = workspace
    /\ Heard(shown.lists)
    /\ Heard(shown.details)

TypeInv == TypeOK /\ ListsFirst

ViewInv == TypeInv /\ OneLoads /\ LoadIsOwn /\ ShownIsOwn
-----------------------------------------------------------------------------
\* The page starts with a read of the selected household.
LEMMA InitView == Init => ViewInv
<1> USE LiveViewsAssumption
<1> SUFFICES ASSUME Init PROVE ViewInv
  OBVIOUS
<1>1. TypeInv
  <2>1. mishaps \in [{"drops", "switches"} -> Nat]
    BY DEF Init
  <2>2. reads \subseteq Read /\ ListsFirst
    BY DEF Init, NewRead, Read, ListsFirst
  <2>3. QED
    BY <2>1, <2>2 DEF Init, TypeInv, TypeOK, Views
<1>2. OneLoads /\ LoadIsOwn
  BY DEF Init, OneLoads, LoadIsOwn, NewRead
<1>3. ShownIsOwn
  BY DEF Init, ShownIsOwn, Loading, NewRead
<1>4. QED
  BY <1>1, <1>2, <1>3 DEF ViewInv

\* What superseding makes of the reads, and the read that takes their place, is typed.
LEMMA ReadAgainTyped ==
  ASSUME TypeOK, ListsFirst, NEW w \in Workspaces, ReadAgain(w)
  PROVE  /\ reads' \subseteq Read
         /\ failed' \in BOOLEAN
         /\ missed' \in BOOLEAN
         /\ ListsFirst'
<1>1. NewRead(w) \in Read
  BY DEF NewRead, Read
<1>2. \A f \in reads : Superseded(f) \in Read
  BY DEF TypeOK, Read, Superseded
<1>3. ListsFirst'
  BY DEF ReadAgain, ListsFirst, NewRead, Superseded, TypeOK, Read
<1>4. QED
  BY <1>1, <1>2, <1>3 DEF ReadAgain, TypeOK

\* A step that changes neither the reads nor what is shown keeps them typed.
LEMMA StillTyped ==
  ASSUME TypeInv, UNCHANGED <<view, workspace, reads, shown, failed>>,
         world' \in [Workspaces -> Nat], unsent' \in [Workspaces -> Nat],
         socket' \in {"closed", "joined", "open", "dead", "ended"}, wire' \in Nat,
         missed' \in BOOLEAN, mishaps' \in [{"drops", "switches"} -> Nat]
  PROVE  TypeInv'
BY DEF TypeInv, TypeOK, ListsFirst

\* Every step of the system leaves every variable in its type, and details are
\* read after the lists.
LEMMA NextTyped == TypeInv /\ [Next]_vars => TypeInv'
<1> USE LiveViewsAssumption
<1> SUFFICES ASSUME TypeInv, [Next]_vars PROVE TypeInv'
  OBVIOUS
<1>0. TypeOK /\ ListsFirst
  BY DEF TypeInv
<1>1. ASSUME NEW w \in Workspaces, Commit(w) PROVE TypeInv'
  BY <1>0, <1>1, StillTyped DEF Commit, TypeOK
<1>2. ASSUME NEW w \in Workspaces, Publish(w) PROVE TypeInv'
  BY <1>0, <1>2, StillTyped DEF Publish, TypeOK
<1>3. CASE Join
  BY <1>0, <1>3, StillTyped DEF Join, TypeOK
<1>4. CASE SendReady
  BY <1>0, <1>4, StillTyped DEF SendReady, ReadyMessages, TypeOK
<1>5. CASE Receive
  <2>1. workspace \in Workspaces /\ ReadAgain(workspace)
    BY <1>0, <1>5 DEF Receive, TypeOK
  <2>2. reads' \subseteq Read /\ failed' \in BOOLEAN /\ missed' \in BOOLEAN /\ ListsFirst'
    BY <1>0, <2>1, ReadAgainTyped
  <2>3. QED
    BY <1>0, <1>5, <2>2 DEF Receive, TypeInv, TypeOK
<1>6. CASE Lose
  BY <1>0, <1>6, StillTyped DEF Lose, Spend, TypeOK
<1>7. CASE BackendRestart
  BY <1>0, <1>7, StillTyped DEF BackendRestart, Spend, TypeOK
<1>8. CASE Notice
  BY <1>0, <1>8, StillTyped DEF Notice, TypeOK
<1>9. ASSUME NEW w \in Workspaces, SelectWorkspace(w) PROVE TypeInv'
  <2>1. reads' \subseteq Read /\ failed' \in BOOLEAN /\ missed' \in BOOLEAN /\ ListsFirst'
    BY <1>0, <1>9, ReadAgainTyped DEF SelectWorkspace
  <2>2. QED
    BY <1>0, <1>9, <2>1 DEF SelectWorkspace, Spend, TypeInv, TypeOK
<1>10. ASSUME NEW f \in reads, ReadLists(f) PROVE TypeInv'
  <2>1. f \in Read /\ world[f.of] \in Nat
    BY <1>0 DEF TypeOK, Read
  <2>2. [f EXCEPT !.lists = world[f.of]] \in Read
    BY <2>1 DEF Read
  <2>3. [f EXCEPT !.lists = world[f.of]].lists # Nothing
    BY <2>1 DEF Read
  <2>4. QED
    BY <1>0, <1>10, <2>2, <2>3 DEF ReadLists, TypeInv, TypeOK, ListsFirst
<1>11. ASSUME NEW f \in reads, ReadDetails(f) PROVE TypeInv'
  <2>1. f \in Read /\ world[f.of] \in Nat
    BY <1>0 DEF TypeOK, Read
  <2>2. /\ [f EXCEPT !.details = world[f.of]] \in Read
        /\ [f EXCEPT !.details = world[f.of]].lists # Nothing
    BY <1>11, <2>1 DEF Read, ReadDetails
  <2>3. QED
    BY <1>0, <1>11, <2>2 DEF ReadDetails, TypeInv, TypeOK, ListsFirst
<1>12. ASSUME NEW f \in reads, Arrive(f) PROVE TypeInv'
  <2>1. /\ f \in Read
        /\ f.lists \in Nat
        /\ f.details \in Nat
    BY <1>0, <1>12 DEF TypeOK, ListsFirst, Read, Arrive
  <2>2. [of |-> f.of, lists |-> f.lists, details |-> f.details, late |-> f.superseded] \in Answer
    BY <2>1 DEF Read, Answer
  <2>3. QED
    BY <1>0, <1>12, <2>2 DEF Arrive, TypeInv, TypeOK, ListsFirst
<1>13. ASSUME NEW f \in reads, Fail(f) PROVE TypeInv'
  <2>1. f.superseded \in BOOLEAN
    BY <1>0 DEF TypeOK, Read
  <2>2. QED
    BY <1>0, <1>13, <2>1 DEF Fail, TypeInv, TypeOK, ListsFirst
<1>14. ASSUME NEW w \in Workspaces, Silent(w) PROVE TypeInv'
  BY <1>0, <1>14, StillTyped DEF Silent, TypeOK
<1>15. CASE Refuse
  BY <1>0, <1>15, StillTyped DEF Refuse, TypeOK
<1>16. CASE UNCHANGED vars
  BY <1>0, <1>16, StillTyped DEF vars, TypeOK
<1>17. QED
  BY <1>1, <1>2, <1>3, <1>4, <1>5, <1>6, <1>7, <1>8, <1>9, <1>10, <1>11, <1>12, <1>13, <1>14,
     <1>15, <1>16
  DEF Next, Following, Disturbance

\* Every reachable state has the shape of TypeOK, and a read asks for details only
\* of areas it has listed.
THEOREM TypeCorrect == Spec => []TypeOK
<1>1. Init => TypeInv
  BY InitView DEF ViewInv
<1>2. TypeInv /\ [Next]_vars => TypeInv'
  BY NextTyped
<1>3. TypeInv => TypeOK
  BY DEF TypeInv
<1>4. QED
  BY <1>1, <1>2, <1>3, PTL DEF Spec
-----------------------------------------------------------------------------
(* What is heard stays heard.                                              *)

SocketStep == \/ Join \/ SendReady \/ Refuse \/ Lose \/ BackendRestart \/ Notice
              \/ \E w \in Workspaces : Commit(w) \/ Silent(w) \/ Publish(w)

\* No change, no delivery and no loss of a connection lets a version become stale
\* without a reason to read again.
LEMMA HeardStays ==
  ASSUME TypeOK, SocketStep, NEW n, Heard(n)
  PROVE  Heard(n)'
<1> USE DEF TypeOK
<1>1. ASSUME NEW w \in Workspaces, Commit(w) PROVE Heard(n)'
  BY <1>1 DEF Commit, Heard, Reconciles
<1>2. ASSUME NEW w \in Workspaces, Publish(w) PROVE Heard(n)'
  <2>1. UNCHANGED <<view, world, workspace, socket>>
    BY <1>2 DEF Publish
  <2>2. CASE w # workspace
    <3>1. unsent'[workspace] = unsent[workspace] /\ UNCHANGED <<wire, missed>>
      BY <1>2, <2>2 DEF Publish
    <3>2. QED
      BY <2>1, <3>1 DEF Heard, Reconciles
  <2>3. CASE w = workspace /\ InHub
    BY <1>2, <2>3 DEF Publish, Heard
  <2>4. CASE w = workspace /\ ~ InHub
    <3>1. missed' /\ socket' # "open"
      BY <1>2, <2>1, <2>4 DEF Publish, InHub
    <3>2. QED
      BY <3>1 DEF Heard
  <2>5. QED
    BY <2>2, <2>3, <2>4
<1>3. CASE Join
  BY <1>3 DEF Join, Heard, Reconciles
<1>4. CASE SendReady
  BY <1>4 DEF SendReady, ReadyMessages, Heard, Reconciles
<1>5. CASE Lose
  BY <1>5 DEF Lose, Heard, Reconciles
<1>6. CASE BackendRestart
  BY <1>6 DEF BackendRestart, Heard, Reconciles, InHub
<1>7. CASE Notice
  BY <1>7 DEF Notice, Heard, Reconciles
<1>8. ASSUME NEW w \in Workspaces, Silent(w) PROVE Heard(n)'
  <2>1. CASE w = workspace
    BY <1>8, <2>1 DEF Silent, Heard, Reconciles
  <2>2. CASE w # workspace
    <3>1. /\ world'[workspace] = world[workspace]
          /\ UNCHANGED <<view, unsent, workspace, socket, wire>> /\ (missed => missed')
      BY <1>8, <2>2 DEF Silent
    <3>2. QED
      BY <3>1 DEF Heard, Reconciles
  <2>3. QED
    BY <2>1, <2>2
<1>9. CASE Refuse
  BY <1>9 DEF Refuse, Heard, Reconciles
<1>10. QED
  BY <1>1, <1>2, <1>3, <1>4, <1>5, <1>6, <1>7, <1>8, <1>9 DEF SocketStep

OwnParts == OneLoads /\ LoadIsOwn /\ ShownIsOwn

\* So such steps, which leave the reads and the view alone, keep the invariant.
LEMMA SocketKeeps ==
  ASSUME TypeOK, OwnParts, SocketStep
  PROVE  OwnParts'
<1>1. UNCHANGED <<view, workspace, reads, shown, failed>>
  BY DEF SocketStep, Join, SendReady, Refuse, Lose, BackendRestart, Notice, Commit, Silent,
     Publish
<1>2. \A n : Heard(n) => Heard(n)'
  BY HeardStays
<1>3. OneLoads'
  BY <1>1 DEF OwnParts, OneLoads
<1>4. LoadIsOwn'
  BY <1>1, <1>2 DEF OwnParts, LoadIsOwn
<1>5. ShownIsOwn'
  <2>1. Loading' = Loading /\ ShownLate' = ShownLate
    BY <1>1 DEF Loading, ShownLate
  <2>2. QED
    BY <1>1, <1>2, <2>1 DEF OwnParts, ShownIsOwn
<1>6. QED
  BY <1>3, <1>4, <1>5 DEF OwnParts

\* A page that reads again has one read that counts, and it has found nothing yet.
LEMMA AgainKeeps ==
  ASSUME TypeOK, NEW w \in Workspaces, ReadAgain(w), workspace' = w
  PROVE  OwnParts'
<1>1. \A f \in reads' : ~ f.superseded => f = NewRead(w)
  BY DEF ReadAgain, Superseded, TypeOK, Read
<1>2. NewRead(w) \in reads' /\ ~ NewRead(w).superseded
  BY DEF ReadAgain, NewRead
<1>3. OneLoads'
  BY <1>1 DEF OneLoads
<1>4. LoadIsOwn'
  BY <1>1 DEF LoadIsOwn, NewRead
<1>5. ShownIsOwn'
  BY <1>2 DEF ShownIsOwn, Loading
<1>6. QED
  BY <1>3, <1>4, <1>5 DEF OwnParts

\* The read goes on: what is heard does not depend on the reads.
LEMMA ReadKeeps ==
  ASSUME TypeInv, OwnParts, NEW f \in reads, ReadLists(f) \/ ReadDetails(f)
  PROVE  OwnParts'
<1> USE LiveViewsAssumption
<1>0. TypeOK /\ f \in Read /\ world[f.of] \in Nat
  BY DEF TypeInv, TypeOK, Read
<1>1. UNCHANGED <<view, world, unsent, workspace, socket, wire, shown, failed, missed>>
  BY DEF ReadLists, ReadDetails
<1>2. \A n : Heard(n)' = Heard(n)
  BY <1>1 DEF Heard, Reconciles
<1>3. PICK g \in Read :
        /\ reads' = (reads \ {f}) \cup {g}
        /\ g.superseded = f.superseded
        /\ g.of = f.of
        /\ g.lists \in {f.lists, world[f.of]}
        /\ g.details \in {f.details, world[f.of]}
  <2>1. CASE ReadLists(f)
    <3>1. [f EXCEPT !.lists = world[f.of]] \in Read
      BY <1>0 DEF Read
    <3>2. QED
      BY <1>0, <2>1, <3>1 DEF ReadLists, Read
  <2>2. CASE ReadDetails(f)
    <3>1. [f EXCEPT !.details = world[f.of]] \in Read
      BY <1>0 DEF Read
    <3>2. QED
      BY <1>0, <2>2, <3>1 DEF ReadDetails, Read
  <2>3. QED
    BY <2>1, <2>2
<1>4. OneLoads'
  BY <1>3 DEF OwnParts, OneLoads
<1>5. LoadIsOwn'
  <2>1. ~ f.superseded => f.of = workspace /\ Heard(world[f.of])
    BY DEF OwnParts, LoadIsOwn, Heard
  <2>2. ~ g.superseded => /\ g.of = workspace
                          /\ g.lists # Nothing => Heard(g.lists)
                          /\ g.details # Nothing => Heard(g.details)
    BY <1>3, <2>1 DEF OwnParts, LoadIsOwn
  <2>3. QED
    BY <1>1, <1>2, <1>3, <2>2 DEF OwnParts, LoadIsOwn
<1>6. ShownIsOwn'
  <2>1. Loading' = Loading
    BY <1>3 DEF Loading
  <2>2. ShownLate' = ShownLate
    BY <1>1 DEF ShownLate
  <2>3. QED
    BY <1>1, <1>2, <2>1, <2>2 DEF OwnParts, ShownIsOwn
<1>7. QED
  BY <1>4, <1>5, <1>6 DEF OwnParts

\* The read ends: its answer is shown if it counts, and else dropped or known to
\* be late.
LEMMA EndKeeps ==
  ASSUME TypeInv, OwnParts, NEW f \in reads, Arrive(f) \/ Fail(f)
  PROVE  OwnParts'
<1> USE LiveViewsAssumption
<1>0. /\ TypeOK
      /\ f \in Read
      /\ reads' = reads \ {f}
  BY DEF TypeInv, TypeOK, Arrive, Fail
<1>1. UNCHANGED <<view, world, unsent, workspace, socket, wire, missed>>
  BY DEF Arrive, Fail
<1>2. \A n : Heard(n)' = Heard(n)
  BY <1>1 DEF Heard, Reconciles
<1>3. OneLoads'
  BY <1>0 DEF OwnParts, OneLoads
<1>4. LoadIsOwn'
  BY <1>0, <1>1, <1>2 DEF OwnParts, LoadIsOwn
<1>5. f.superseded => Loading' = Loading
  BY <1>0 DEF Loading
<1>6. CASE Fail(f)
  <2>1. CASE f.superseded
    <3>1. UNCHANGED shown /\ (failed => failed')
      BY <1>6 DEF Fail
    <3>2. ShownLate' = ShownLate
      BY <1>1, <3>1 DEF ShownLate
    <3>3. ShownIsOwn'
      BY <1>1, <1>2, <1>5, <2>1, <3>1, <3>2 DEF OwnParts, ShownIsOwn
    <3>4. QED
      BY <1>3, <1>4, <3>3 DEF OwnParts
  <2>2. CASE ~ f.superseded
    <3>1. failed'
      BY <1>6, <2>2 DEF Fail
    <3>2. QED
      BY <1>3, <1>4, <3>1 DEF OwnParts, ShownIsOwn
  <2>3. QED
    BY <2>1, <2>2
<1>7. CASE Arrive(f) /\ ~ Taken(f)
  <2>1. f.superseded /\ UNCHANGED <<shown, failed>>
    BY <1>7 DEF Arrive, Taken, Guarded
  <2>2. ShownLate' = ShownLate
    BY <1>1, <2>1 DEF ShownLate
  <2>3. ShownIsOwn'
    BY <1>1, <1>2, <1>5, <2>1, <2>2 DEF OwnParts, ShownIsOwn
  <2>4. QED
    BY <1>3, <1>4, <2>3 DEF OwnParts
<1>8. CASE Arrive(f) /\ Taken(f)
  <2>1. /\ f.lists \in Nat
        /\ f.details \in Nat
    BY <1>0, <1>8 DEF TypeInv, ListsFirst, Read, Arrive
  <2>2. /\ shown' = [of |-> f.of, lists |-> f.lists, details |-> f.details,
                     late |-> f.superseded]
        /\ shown' # Nothing
    <3>1. [of |-> f.of, lists |-> f.lists, details |-> f.details, late |-> f.superseded]
            \in Answer
      BY <1>0, <2>1 DEF Read, Answer
    <3>2. QED
      BY <1>8, <3>1, NothingAssumption DEF Arrive
  <2>3. CASE f.superseded
    <3>1. ShownLate'
      BY <1>1, <1>8, <2>2, <2>3 DEF Taken, Guarded, ShownLate
    <3>2. QED
      BY <1>3, <1>4, <3>1 DEF OwnParts, ShownIsOwn
  <2>4. CASE ~ f.superseded
    <3>1. /\ shown'.of = workspace
          /\ Heard(shown'.lists)
          /\ Heard(shown'.details)
      BY <2>1, <2>2, <2>4, LiveViewsAssumption DEF OwnParts, LoadIsOwn
    <3>2. ShownIsOwn'
      BY <1>1, <1>2, <2>2, <3>1 DEF ShownIsOwn
    <3>3. QED
      BY <1>3, <1>4, <3>2 DEF OwnParts
  <2>5. QED
    BY <2>3, <2>4
<1>9. QED
  BY <1>6, <1>7, <1>8

\* No step disturbs the invariant.
LEMMA NextKeeps == ViewInv /\ [Next]_vars => ViewInv'
<1> SUFFICES ASSUME ViewInv, [Next]_vars PROVE ViewInv'
  OBVIOUS
<1>1. TypeInv /\ TypeOK /\ OwnParts
  BY DEF ViewInv, TypeInv, OwnParts
<1>2. TypeInv'
  BY <1>1, NextTyped
<1>3. ASSUME SocketStep PROVE OwnParts'
  BY <1>1, <1>3, SocketKeeps
<1>4. ASSUME Receive PROVE OwnParts'
  BY <1>1, <1>4, AgainKeeps DEF Receive, TypeOK
<1>5. ASSUME NEW w \in Workspaces, SelectWorkspace(w) PROVE OwnParts'
  BY <1>1, <1>5, AgainKeeps DEF SelectWorkspace
<1>6. ASSUME NEW f \in reads, ReadLists(f) \/ ReadDetails(f) PROVE OwnParts'
  BY <1>1, <1>6, ReadKeeps
<1>7. ASSUME NEW f \in reads, Arrive(f) \/ Fail(f) PROVE OwnParts'
  BY <1>1, <1>7, EndKeeps
<1>8. ASSUME UNCHANGED vars PROVE OwnParts'
  <2>1. \A n : Heard(n)' = Heard(n)
    BY <1>8 DEF vars, Heard, Reconciles
  <2>2. Loading' = Loading /\ ShownLate' = ShownLate
    BY <1>8 DEF vars, Loading, ShownLate
  <2>3. OneLoads' /\ LoadIsOwn'
    BY <1>1, <1>8, <2>1 DEF vars, OwnParts, OneLoads, LoadIsOwn
  <2>4. ShownIsOwn'
    BY <1>1, <1>8, <2>1, <2>2 DEF vars, OwnParts, ShownIsOwn
  <2>5. QED
    BY <2>3, <2>4 DEF OwnParts
<1>9. OwnParts'
  BY <1>3, <1>4, <1>5, <1>6, <1>7, <1>8 DEF Next, Following, Disturbance, SocketStep
<1>10. QED
  BY <1>2, <1>9 DEF ViewInv, OwnParts
-----------------------------------------------------------------------------
(* The properties.                                                         *)

LEMMA ViewInvariant == Spec => []ViewInv
<1>1. Init => ViewInv
  BY InitView
<1>2. ViewInv /\ [Next]_vars => ViewInv'
  BY NextKeeps
<1>3. QED
  BY <1>1, <1>2, PTL DEF Spec

\* However many events and connections are lost, a view for which all is quiet, and
\* whose last read has not failed, shows the household as it is, but for the
\* exceptions of the items and the checkouts.
THEOREM QuietIsCurrent == Spec => []QuietMeansCurrent
<1>1. ViewInv => QuietMeansCurrent
  <2> SUFFICES ASSUME ViewInv, Quiet PROVE
        failed \/ Current \/ ShownLate \/ (view = "checkouts" /\ missed)
    BY DEF QuietMeansCurrent, ShownLate
  <2>1. ~ Loading
    BY DEF Quiet, Loading
  <2>2. \A n : Heard(n) => n = world[workspace] \/ (view = "checkouts" /\ missed)
    BY DEF Quiet, Heard, Reconciles
  <2>3. QED
    BY <2>1, <2>2 DEF ViewInv, ShownIsOwn, Current
<1>2. QED
  BY <1>1, ViewInvariant, PTL

\* However reads of several households overlap, a guarded view whose last read has
\* succeeded shows the selected one.
THEOREM OwnHouseholdShown == Spec => []OwnHousehold
<1>1. ViewInv => OwnHousehold
  BY DEF ViewInv, ShownIsOwn, ShownLate, OwnHousehold, Guarded
<1>2. QED
  BY <1>1, ViewInvariant, PTL
=============================================================================
