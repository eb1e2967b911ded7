------------------------- MODULE BlocklistReconciler -------------------------
(***************************************************************************)
(* The periodic comparison of policy status with the enforcement maps      *)
(* (blocklist_reconciler.go). A pass lists the policies from the informer   *)
(* cache, reads the maps, re-applies what is missing at once and removes    *)
(* what was unclaimed on the previous pass too.                            *)
(***************************************************************************)
EXTENDS Cluster

CONSTANT RunSync  \* a Blocklist and an Inspector are wired

ASSUME SyncAssumption == RunSync \in BOOLEAN

VARIABLE sync  \* the goroutine's program counter, locals and unclaimed set

\* add and del: corrections still to make; still: stillUnclaimed.
SyncState ==
    [pc : {"idle", "read", "fix"}, desired : SUBSET Target,
     add : SUBSET Target, del : SUBSET Target, still : SUBSET Target,
     unclaimed : SUBSET Target]

SyncStart ==
    [pc |-> "idle", desired |-> {}, add |-> {}, del |-> {}, still |-> {},
     unclaimed |-> {}]

SyncInit == sync = SyncStart

\* desiredEnforcement over the listed policies.
DesiredEnforcement == UNION {Claims(hist[p][seen[p]]) : p \in Policy}

\* The list. A list that fails ends the pass before anything is read, and
\* leaves every variable as it was.
SyncList ==
    /\ RunSync /\ sync.pc = "idle"
    /\ sync' = [sync EXCEPT !.pc = "read", !.desired = DesiredEnforcement]
    /\ UNCHANGED clusterVars

\* Mutant: missing keys wait for a second pass too, which never counts them.
SyncReadNoReplay ==
    /\ sync.pc = "read"
    /\ LET extra == kernel \ sync.desired
       IN  sync' = [sync EXCEPT
             !.pc = "fix", !.desired = {}, !.add = {},
             !.del = extra \cap sync.unclaimed, !.still = extra]
    /\ UNCHANGED clusterVars

\* BlockedIPs and BlockedTunnels, and the comparison with the list.
SyncRead ==
    /\ sync.pc = "read"
    /\ LET extra == kernel \ sync.desired
       IN  sync' = [sync EXCEPT
             !.pc = "fix", !.desired = {}, !.add = sync.desired \ kernel,
             !.del = extra \cap sync.unclaimed, !.still = extra]
    /\ UNCHANGED clusterVars

\* The maps could not be read: the pass ends and unclaimed is kept.
SyncReadFails ==
    /\ sync.pc = "read" /\ Spend("faults")
    /\ sync' = [sync EXCEPT !.pc = "idle", !.desired = {}]
    /\ UNCHANGED <<hist, seen, queue, delayed, index, kernel, mesh, tracker,
                   engaged, now>>

\* One correction. A failed one is joined into the error and not retried
\* within the pass.
Reapply(k) ==
    /\ sync.pc = "fix" /\ k \in sync.add
    /\ BlockDone(k) \/ BlockFails(k)
    /\ sync' = [sync EXCEPT !.add = @ \ {k}]
    /\ UNCHANGED <<hist, seen, queue, delayed, index, mesh, tracker, engaged,
                   now>>

RemoveUnclaimed(k) ==
    /\ sync.pc = "fix" /\ k \in sync.del
    /\ \/ kernel' = kernel \ {k} /\ UNCHANGED left
       \/ UNCHANGED kernel /\ Spend("faults")
    /\ sync' = [sync EXCEPT !.del = @ \ {k}]
    /\ UNCHANGED <<hist, seen, queue, delayed, index, mesh, tracker, engaged,
                   now>>

\* Mutant: the pass forgets what it found unclaimed.
SyncEndForgets ==
    /\ sync.pc = "fix" /\ sync.add = {} /\ sync.del = {}
    /\ sync' = [sync EXCEPT !.pc = "idle", !.still = {}]
    /\ UNCHANGED clusterVars

SyncEnd ==
    /\ sync.pc = "fix" /\ sync.add = {} /\ sync.del = {}
    /\ sync' = [sync EXCEPT !.pc = "idle", !.still = {},
                            !.unclaimed = sync.still]
    /\ UNCHANGED clusterVars

SyncStep ==
    \/ SyncList \/ SyncRead \/ SyncReadFails
    \/ \E k \in sync.add : Reapply(k)
    \/ \E k \in sync.del : RemoveUnclaimed(k)
    \/ SyncEnd
=============================================================================
