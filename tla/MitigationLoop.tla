--------------------------- MODULE MitigationLoop ---------------------------
(***************************************************************************)
(* The closed mitigation loop: the score watcher, the policy controller and *)
(* the blocklist reconciler of one operator process over the cluster they   *)
(* share, with users, informer lag, lost calls and restarts.               *)
(***************************************************************************)
EXTENDS ThreatScoreWatcher, PolicyReconciler, BlocklistReconciler

CONSTANT Pinned  \* BPF_PIN_PATH is set: the maps outlive the process

ASSUME LoopAssumption == Pinned \in BOOLEAN

vars == <<clusterVars, watcher, worker, sync>>

TypeOK ==
    /\ ClusterTypeOK
    /\ watcher \in WatcherState
    /\ worker \in WorkerState
    /\ sync \in SyncState

Init == ClusterInit /\ WatcherInit /\ ReconcilerInit /\ SyncInit

\* The process dies and a new one starts: its memory is lost, its informer
\* lists the current objects and every live one is queued. Pinned maps are
\* kept unless the new build cannot reuse them.
Restart ==
    /\ Spend("crashes")
    /\ watcher' = WatcherStart /\ worker' = WorkerIdle /\ sync' = SyncStart
    /\ index' = [p \in Policy |-> 0]
    /\ seen' = [p \in Policy |-> Len(hist[p])]
    /\ queue' = {p \in Policy : Latest(p).live}
    /\ delayed' = {} /\ tracker' = TrackerStart
    /\ \/ Pinned /\ UNCHANGED kernel
       \/ kernel' = {}
    /\ UNCHANGED <<hist, mesh, engaged, now>>

Next ==
    \/ (Environment \/ Tick) /\ UNCHANGED <<watcher, worker, sync>>
    \/ (Deliver \/ WatcherStep) /\ UNCHANGED <<worker, sync>>
    \/ WorkerStep /\ UNCHANGED <<watcher, sync>>
    \/ SyncStep /\ UNCHANGED <<watcher, worker>>
    \/ Restart

Spec == Init /\ [][Next]_vars

-----------------------------------------------------------------------------
(* Safety. *)

\* Every key some stored version of some policy has claimed.
EverClaimed ==
    {k \in Target : \E p \in Policy : \E v \in 1..Len(hist[p]) :
        k \in hist[p][v].status.blocked}

\* Write-ahead: whatever the kernel drops, a stored policy status recorded
\* first. applyPolicy persists a key before it blocks it, a throttled write
\* repeats a decision that was persisted, and Sync applies persisted status.
\* The comment in Sync (blocklist_reconciler.go:271) has the order the other
\* way round: "blocks in the kernel BEFORE it writes the status".
EveryDropWasRecorded == kernel \subseteq EverClaimed

Timed(st) == st.phase = "Mitigating" \/ st.blocked # {} => st.last # Never

\* No stored status is Mitigating, or claims a key, without a mitigation
\* time: tryDeEscalate gives up on a nil LastMitigationTime ("shouldn't
\* happen"), and such a policy would never be de-escalated.
MitigationIsTimed ==
    \A p \in Policy : \A v \in 1..Len(hist[p]) : Timed(hist[p][v].status)

ReleaseIsQuiet(p) ==
    LET old == Latest(p).status new == Latest(p)'.status
    IN  /\ Latest(p).live /\ Latest(p)'.live
        /\ ~(old.blocked \subseteq new.blocked)
        => old.phase = "Mitigating" /\ old.last \in 0..(now - Dwell)

\* A live policy's claims shrink only when it is Mitigating and the newest
\* stored mitigation is a whole dwell old, although tryDeEscalate judges the
\* dwell on a cached copy and the watcher writes at the same time.
QuietBeforeRelease == [][\A p \in Policy : ReleaseIsQuiet(p)]_vars

DeletionFreezes(p) ==
    Latest(p).live /\ Latest(p).deleting /\ Latest(p)'.live
        => Latest(p)'.status = Latest(p).status

\* Once a policy is being deleted its status never changes again, so the
\* copy finalize works from lists everything there is to undo.
DeletingStatusIsFrozen == [][\A p \in Policy : DeletionFreezes(p)]_vars

-----------------------------------------------------------------------------
(* What the loop implements. *)

\* A stored object as the claim of its policy.
ClaimOf(obj) ==
    [stage |-> IF ~obj.live THEN "none"
               ELSE IF obj.deleting THEN "leaving"
               ELSE IF obj.status.phase = "Mitigating" THEN "mitigating"
               ELSE "watching",
     keys |-> obj.status.blocked, since |-> obj.status.last]

claimed == [p \in Policy |-> ClaimOf(Latest(p))]

Promise ==
    INSTANCE Enforcement WITH clock <- now, claim <- claimed,
                              recorded <- EverClaimed, drops <- kernel

\* The stored policies and the maps together behave as Enforcement says,
\* although three goroutines write them from copies that may be out of date:
\* resourceVersions and the order of the writes make up for it.
KeepsPromise == Promise!EnforcementSpec

-----------------------------------------------------------------------------
(* Why they hold: what is true of the copies the goroutines hold. *)

\* v is a stored version of p in which p is not being deleted.
Undeleted(p, v) == v \in 1..Len(hist[p]) /\ ~hist[p][v].deleting

IndexInv == \A p \in Policy : index[p] # 0 => Undeleted(p, index[p])

WatcherInv ==
    /\ \A c \in watcher.todo : Undeleted(c[1], c[2])
    /\ watcher.pc = "put" => Undeleted(watcher.pol, watcher.ver)
    /\ watcher.acts \cap Target \subseteq EverClaimed

Finalizing == {"finRelease", "finUnblock", "finRemove", "finForget"}

WorkerInv ==
    /\ worker.pc # "idle" => worker.ver \in 1..Len(hist[worker.pol])
    /\ worker.pc \notin Finalizing \cup {"idle"} => ~Held.deleting
    /\ worker.pc \in {"quiet", "release", "clear"} =>
        Held.status.phase = "Mitigating"
    /\ worker.pc \in {"release", "clear"} => DwellElapsed(Held.status)

SyncInv == sync.desired \cup sync.add \subseteq EverClaimed

\* The inductive invariant. An index entry, a score being applied and a
\* reconcile under way hold versions from before any deletion, so none of
\* their writes is accepted after it; and every key about to be blocked has
\* been claimed.
IndInv ==
    /\ TypeOK
    /\ IndexInv /\ WatcherInv /\ WorkerInv /\ SyncInv
    /\ EveryDropWasRecorded
    /\ MitigationIsTimed

-----------------------------------------------------------------------------
(* What the repository says of the loop and its code does not keep. *)

\* What a score would change in the stored policy, were it applied to that.
DecisionDue(p) ==
    /\ Latest(p).live /\ ~Latest(p).deleting
    /\ StatusDecisionChanged(
           Latest(p).status, Decide(Latest(p), watcher.score, engaged, now))

\* "without ever dropping a decision": no write is throttled while the score
\* changes the decision in the stored status. writeStatus compares with the
\* indexed copy, which a de-escalation may just have overtaken; a refresh
\* before it has taken the last token.
ThrottleDropsNoDecision ==
    [][\A c \in watcher.todo : ApplyThrottled(c) => ~DecisionDue(c[1])]_vars

\* The finalizer "ensures the operator releases any active ... mesh
\* quarantine before a TelecomSecurityPolicy is actually removed": the
\* workload of a policy that was removed with its finalizer on is not
\* quarantined, unless a policy that is left targets it. The watcher may
\* quarantine after finalize has released.
RemovedPolicyIsReleased ==
    \A p \in Policy :
        LET last == hist[p][Len(hist[p]) - 1]
        IN  /\ ~Latest(p).live /\ Len(hist[p]) > 1
            /\ last.finalizer /\ last.spec.target \in mesh
            => \E q \in Policy :
                Latest(q).live /\ Latest(q).spec.target = last.spec.target

-----------------------------------------------------------------------------
(* Liveness. *)

\* The goroutines run, the informer delivers and requeues fire. The work
\* queue is first-in first-out, so no queued policy is passed over for ever.
\* Nothing is assumed of users, scores, failures or restarts.
Scheduling ==
    /\ WF_vars(WatcherStep /\ UNCHANGED <<worker, sync>>)
    /\ WF_vars(WorkerStep /\ UNCHANGED <<watcher, sync>>)
    /\ WF_vars(SyncStep /\ UNCHANGED <<watcher, worker>>)
    /\ \A p \in Policy :
        /\ SF_vars(ReconcileGet(p) /\ UNCHANGED <<watcher, sync>>)
        /\ WF_vars(InformerEvent(p) /\ UNCHANGED <<watcher, worker, sync>>)
        /\ WF_vars(RequeueFires(p) /\ UNCHANGED <<watcher, worker, sync>>)

\* The dwell may outlast everything else, or time passes as well.
TimePasses == WF_vars(Tick /\ UNCHANGED <<watcher, worker, sync>>)
PromptSpec == Spec /\ Scheduling
FairSpec == PromptSpec /\ TimePasses

\* Scores, users and failures stop at their bounds. From then on every claim
\* is de-escalated or finalized and every drop leaves the kernel, whatever
\* wake-up, write or restart went astray before.
QuietLiftsEverything ==
    <>[](kernel = {} /\ \A p \in Policy : Latest(p).status.blocked = {})

\* The same where the dwell may last for ever: it is lifted if time passes.
TimeLiftsEverything == TimePasses => QuietLiftsEverything

\* A key that stored policies claim is enforced, unless the claim goes first
\* or the map has no room for it, however long the dwell: Sync repairs a
\* block that failed, was lost with the maps or was undone by a stale
\* de-escalation, and one that was refused once there is room.
ClaimIsEnforced ==
    \A k \in Target :
        (\E p \in Policy : k \in Claims(Latest(p)))
            ~> (\/ k \in kernel \/ ~HasRoom(k)
                \/ \A p \in Policy : k \notin Claims(Latest(p)))

\* A policy that no score ever touches still learns that scoring works: the
\* requeues reportScoringPipeline asks for are never lost.
ScoringIsReported ==
    \A p \in Policy :
        (TrackScoring /\ tracker.scored)
            ~> (\/ ~tracker.scored
                \/ ~Latest(p).live \/ Latest(p).deleting
                \/ Latest(p).status.scoring = "ScoresReceived")
=============================================================================
