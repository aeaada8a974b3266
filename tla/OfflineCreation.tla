--------------------------- MODULE OfflineCreation --------------------------
(***************************************************************************)
(* What saving an item on the phone promises, without the network: each    *)
(* draft becomes one item at the server, the phone forgets a draft only    *)
(* for an item that exists and has its photo, and a draft the phone has    *)
(* put aside for the user is never taken up again by itself.               *)
(***************************************************************************)
EXTENDS Naturals

CONSTANTS Ops,    \* the drafts
          Photos  \* those with a photo

VARIABLES items,   \* number of items the server has for each draft
          stored,  \* drafts whose photo the server has
          draft    \* what the phone keeps of each draft

vars == <<items, stored, draft>>

TypeOK == /\ items \in [Ops -> {0, 1}]
          /\ stored \subseteq Photos
          /\ draft \in [Ops -> {"unsaved", "queued", "aside", "gone"}]

Init == /\ items = [o \in Ops |-> 0]
        /\ stored = {}
        /\ draft = [o \in Ops |-> "unsaved"]

Save(o) == /\ draft[o] = "unsaved"
           /\ draft' = [draft EXCEPT ![o] = "queued"]
           /\ UNCHANGED <<items, stored>>

\* The item is created; the phone may have put the draft aside meanwhile.
Create(o) == /\ draft[o] \in {"queued", "aside"}
             /\ items[o] = 0
             /\ items' = [items EXCEPT ![o] = 1]
             /\ UNCHANGED <<stored, draft>>

\* Its photo is stored, for an item that exists.
Store(o) == /\ o \in Photos
            /\ draft[o] \in {"queued", "aside"}
            /\ items[o] = 1
            /\ stored' = stored \cup {o}
            /\ UNCHANGED <<items, draft>>

Forget(o) == /\ items[o] = 1
             /\ o \in Photos => o \in stored
             /\ draft[o] \in {"queued", "aside"}
             /\ draft' = [draft EXCEPT ![o] = "gone"]
             /\ UNCHANGED <<items, stored>>

\* One draft the server refuses, or all of them when the credential goes.
PutAside(S) == /\ \A o \in S : draft[o] = "queued"
               /\ draft' = [o \in Ops |-> IF o \in S THEN "aside" ELSE draft[o]]
               /\ UNCHANGED <<items, stored>>

Next == \/ \E o \in Ops : Save(o) \/ Create(o) \/ Store(o) \/ Forget(o)
        \/ \E S \in SUBSET Ops : PutAside(S)

Spec == Init /\ [][Next]_vars
=============================================================================
