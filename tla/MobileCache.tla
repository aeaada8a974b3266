----------------------------- MODULE MobileCache ----------------------------
(***************************************************************************)
(* The phone's inventory cache beside its queue: saving a draft writes an  *)
(* optimistic row, finishing it removes the row, and syncInventoryOnce     *)
(* replaces the whole cache by the canonical lists and the optimistic rows *)
(* it read before (apps/mobile/src/services/inventory.ts).  The queue is   *)
(* MobileQueue; each of its steps is joined with what it does to the cache.*)
(***************************************************************************)
EXTENDS MobileQueue

VARIABLES cached,   \* drafts with an optimistic row in inventory_cache
          shown,    \* drafts whose canonical item is in inventory_cache
          rebuild   \* syncInventoryOnce, at most one for the workspace

cacheVars == <<cached, shown, rebuild>>
allVars == <<vars, cacheVars>>

Rebuild == [pc : {"fetch", "fetched", "read"}, cred : Creds, canonical : SUBSET Ops,
            local : SUBSET Ops]

NoRebuild == [pc |-> "idle", cred |-> 0, canonical |-> {}, local |-> {}]
-----------------------------------------------------------------------------
CacheInit == Init /\ cached = {} /\ shown = {} /\ rebuild = NoRebuild

\* The operation leaves the queue in this step.
Leaves(o) == row[o].status # "removed" /\ row'[o].status = "removed"

Enters(o) == row[o].status = "none" /\ row'[o].status = "pending"

\* queueItem and syncPendingItemsOnce change queue and cache in one transaction.
QueueStep ==
  /\ Next
  /\ cached' = (cached \cup {o \in Ops : Enters(o)}) \ {o \in Ops : Leaves(o)}
  /\ rebuild' = IF crashes' # crashes THEN NoRebuild ELSE rebuild
  /\ UNCHANGED shown

RebuildStart ==
  /\ IsPaired
  /\ rebuild = NoRebuild
  /\ rebuild' = [NoRebuild EXCEPT !.pc = "fetch", !.cred = paired.cred]
  /\ UNCHANGED <<vars, cached, shown>>

\* The canonical lists arrive.
RebuildFetch ==
  /\ rebuild.pc = "fetch"
  /\ rebuild.cred \notin revoked
  /\ rebuild' = [rebuild EXCEPT !.pc = "fetched", !.canonical = {o \in Ops : items[o] > 0}]
  /\ UNCHANGED <<vars, cached, shown>>

\* No answer, or a refused credential (LearnRevoked is what follows from that).
RebuildFail ==
  /\ rebuild.pc = "fetch"
  /\ rebuild' = NoRebuild
  /\ UNCHANGED <<vars, cached, shown>>

\* Fault: optimistic rows are kept without their operation (CacheHeals).
NoJoin(o) == TRUE

InQueue(o) == row[o].status \notin {"none", "removed"}

\* The optimistic rows of operations that are still in the queue.
RebuildRead ==
  /\ rebuild.pc = "fetched"
  /\ rebuild' = [rebuild EXCEPT !.pc = "read", !.local = {o \in cached : InQueue(o)}]
  /\ UNCHANGED <<vars, cached, shown>>

\* One transaction deletes the cache and writes what was read.
RebuildWrite ==
  /\ rebuild.pc = "read"
  /\ cached' = rebuild.local
  /\ shown' = rebuild.canonical
  /\ rebuild' = NoRebuild
  /\ UNCHANGED vars

CacheNext == \/ QueueStep
             \/ RebuildStart \/ RebuildFetch \/ RebuildFail \/ RebuildRead \/ RebuildWrite

CacheSpec == CacheInit /\ [][CacheNext]_allVars

\* The queue beside rebuilds that nothing promises: they start on an event, a save or
\* a refresh, and one that fails need not be followed by another.
CacheFairSpec == CacheSpec /\ QueueFairness
-----------------------------------------------------------------------------
\* The phone is done with draft o, and so is what a rebuild that is under way will write.
Caught(o) ==
  /\ row[o].status = "removed"
  /\ rebuild.pc \in {"fetched", "read"} => o \in rebuild.canonical
  /\ rebuild.pc = "read" => o \notin rebuild.local

\* And the cache has the item and not the optimistic row.
Healed(o) == Caught(o) /\ o \in shown /\ o \notin cached

\* The end of a rebuild that was under way when the phone was done with a draft is the
\* last thing that can leave the cache wrong about it: from then on no rebuild takes the
\* item away or brings the optimistic row back, and the next one to be written heals.
CacheHeals ==
  [][\A o \in Ops :
       /\ row[o].status = "removed" /\ rebuild' = NoRebuild => Caught(o)'
       /\ Caught(o) => Caught(o)'
       /\ Caught(o) /\ RebuildWrite => Healed(o)'
       /\ Healed(o) => Healed(o)']_allVars
=============================================================================
