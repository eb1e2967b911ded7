-------------------------- MODULE PolicyReconciler --------------------------
(***************************************************************************)
(* The TelecomSecurityPolicy controller                                    *)
(* (telecomsecuritypolicy_controller.go): one worker that takes a policy    *)
(* off the work queue, reads it from the informer cache and reconciles or   *)
(* finalizes that copy.                                                    *)
(***************************************************************************)
EXTENDS Cluster

VARIABLE worker  \* the worker's program counter and locals

WorkerPC ==
    {"idle", "finalizer", "index", "phase", "phaseIndex", "scoring",
     "scoringIndex", "quiet", "release", "clear", "clearIndex",
     "finRelease", "finUnblock", "finRemove", "finForget"}

\* ver: the version of pol in hand; retry: reportScoringPipeline asked for a
\* requeue of its own.
WorkerState == [pc : WorkerPC, pol : Policy, ver : Nat, retry : BOOLEAN]

WorkerIdle ==
    [pc |-> "idle", pol |-> CHOOSE p \in Policy : TRUE, ver |-> 0,
     retry |-> FALSE]

ReconcilerInit == worker = WorkerIdle

\* The copy in hand.
Held == hist[worker.pol][worker.ver]

-----------------------------------------------------------------------------
(* Ways for a step to end. *)

\* Go on at pc with version v, or return with the requeue asked for.
Continue(pc, v, retry) ==
    IF pc = "idle"
    THEN /\ worker' = WorkerIdle
         /\ delayed' = delayed \cup {p \in {worker.pol} : retry}
    ELSE /\ worker' = [worker EXCEPT !.pc = pc, !.ver = v, !.retry = retry]
         /\ UNCHANGED delayed

\* Return an error: the work queue retries the policy.
ReturnError ==
    /\ worker' = WorkerIdle
    /\ queue' = queue \cup {worker.pol}
    /\ UNCHANGED delayed

AfterScoring(obj) ==
    IF obj.status.phase = "Mitigating" THEN "quiet" ELSE "idle"
AfterPhase(obj) == IF TrackScoring THEN "scoring" ELSE AfterScoring(obj)
AfterIndex(obj) == IF obj.status.phase = "" THEN "phase" ELSE AfterPhase(obj)

\* Mutant: the update carries no resourceVersion and overwrites.
WriteHeldForced(obj, pc) ==
    /\ hist' = Store(worker.pol, obj)
    /\ Continue(pc, Len(hist'[worker.pol]), worker.retry)
    /\ UNCHANGED <<queue, left>>

\* A write of obj over the copy in hand: accepted and on to pc, or failed.
WriteHeld(obj, pc) ==
    \/ /\ Accepts(worker.pol, worker.ver)
       /\ hist' = Store(worker.pol, obj)
       /\ Continue(pc, Len(hist'[worker.pol]), worker.retry)
       /\ UNCHANGED <<queue, left>>
    \/ /\ UpdateFails(worker.pol, worker.ver, obj)
       /\ ReturnError

-----------------------------------------------------------------------------
(* Reconcile. *)

\* The cached Get, and the branch on what it returned.
ReconcileGet(p) ==
    LET obj == hist[p][seen[p]]
        first == CASE obj.deleting   -> IF obj.finalizer THEN "finRelease"
                                                         ELSE "idle"
                   [] ~obj.deleting  -> IF obj.finalizer THEN "index"
                                                         ELSE "finalizer"
    IN  /\ worker.pc = "idle" /\ p \in queue
        /\ queue' = queue \ {p}
        /\ IF obj.live
           THEN /\ worker' = IF first = "idle" THEN WorkerIdle
                             ELSE [pc |-> first, pol |-> p, ver |-> seen[p],
                                   retry |-> FALSE]
                /\ UNCHANGED index
           ELSE /\ index' = [index EXCEPT ![p] = 0]
                /\ UNCHANGED worker
        /\ UNCHANGED <<hist, seen, delayed, kernel, mesh, tracker, engaged,
                       now, left>>

AddFinalizer ==
    /\ worker.pc = "finalizer"
    /\ WriteHeld([Held EXCEPT !.finalizer = TRUE], "index")
    /\ UNCHANGED <<seen, index, kernel, mesh, tracker, engaged, now>>

\* Each of Reconcile's Index.Puts, and the branch after it.
ReconcilePut ==
    /\ worker.pc \in {"index", "phaseIndex", "scoringIndex", "clearIndex"}
    /\ index' = [index EXCEPT ![worker.pol] = worker.ver]
    /\ Continue(CASE worker.pc = "index"        -> AfterIndex(Held)
                  [] worker.pc = "phaseIndex"   -> AfterPhase(Held)
                  [] worker.pc = "scoringIndex" -> AfterScoring(Held)
                  [] worker.pc = "clearIndex"   -> "idle",
                worker.ver, worker.retry)
    /\ UNCHANGED <<hist, seen, queue, kernel, mesh, tracker, engaged,
                   now, left>>

\* "" and Pending become Monitoring.
InitPhase ==
    /\ worker.pc = "phase"
    /\ WriteHeld([Held EXCEPT !.status.phase = "Monitoring"], "phaseIndex")
    /\ UNCHANGED <<seen, index, kernel, mesh, tracker, engaged, now>>

\* ScoringPipelineTracker.Status.
ScoringStatus ==
    CASE tracker.scored -> "ScoresReceived"
      [] ~tracker.scored /\ ~tracker.graceOver -> "AwaitingFirstScore"
      [] ~tracker.scored /\ tracker.graceOver -> "NoThreatScoresReceived"

\* Mutant: a not-ready answer is not rechecked.
NoRecheck == FALSE

\* Status's retryAfter: every not-ready answer is to be rechecked.
Recheck == ~tracker.scored

\* reportScoringPipeline writes only a changed condition. A conflict asks
\* for a requeue and goes on with the old copy; other errors, an object that
\* is gone among them, are returned.
ReportScoring ==
    LET obj == [Held EXCEPT !.status.scoring = ScoringStatus]
    IN  /\ worker.pc = "scoring"
        /\ \/ /\ obj = Held
              /\ Continue(AfterScoring(Held), worker.ver, Recheck)
              /\ UNCHANGED <<hist, queue, left>>
           \/ /\ obj # Held /\ Accepts(worker.pol, worker.ver)
              /\ hist' = Store(worker.pol, obj)
              /\ Continue("scoringIndex", Len(hist'[worker.pol]), Recheck)
              /\ UNCHANGED <<queue, left>>
           \/ /\ obj # Held /\ ~Accepts(worker.pol, worker.ver)
              /\ Latest(worker.pol).live
              /\ Continue(AfterScoring(Held), worker.ver, TRUE)
              /\ UNCHANGED <<hist, queue, left>>
           \/ /\ obj # Held
              /\ \/ ~Latest(worker.pol).live /\ UNCHANGED <<hist, left>>
                 \/ CallFails(worker.pol, worker.ver, obj)
              /\ ReturnError
        /\ UNCHANGED <<seen, index, kernel, mesh, tracker, engaged, now>>

-----------------------------------------------------------------------------
(* Undoing a policy's mitigations. *)

\* The Unblock loop over the held copy's keys, addresses before tunnels. An
\* error stops it part-way. Removing an absent key is no error.
UnblockHeld(pc) ==
    LET keys == Held.status.blocked
    IN  \/ /\ kernel' = kernel \ keys
           /\ Continue(pc, worker.ver, worker.retry)
           /\ UNCHANGED <<queue, left>>
        \/ /\ Spend("faults")
           /\ \E done \in SUBSET keys :
                /\ done # keys
                /\ done \cap Tunnel # {} => keys \cap Source \subseteq done
                /\ kernel' = kernel \ done
           /\ ReturnError

\* A release that returns an error may have been done all the same.
ReleaseHeld(pc) ==
    \/ /\ mesh' = mesh \ {Held.spec.target}
       /\ Continue(pc, worker.ver, worker.retry)
       /\ UNCHANGED <<queue, left>>
    \/ /\ mesh' \in {mesh, mesh \ {Held.spec.target}}
       /\ Spend("faults") /\ ReturnError

\* Mutant: the dwell is one tick short.
DwellAlmostElapsed(st) == st.last # Never /\ now - st.last >= Dwell - 1

DwellElapsed(st) == st.last # Never /\ now - st.last >= Dwell

\* tryDeEscalate with the quiet period still running.
AwaitQuiet ==
    /\ worker.pc = "quiet" /\ ~DwellElapsed(Held.status)
    /\ Continue("idle", worker.ver, worker.retry \/ Held.status.last # Never)
    /\ UNCHANGED <<hist, seen, queue, index, kernel, mesh, tracker, engaged,
                   now, left>>

DeEscalateUnblock ==
    /\ worker.pc = "quiet" /\ DwellElapsed(Held.status)
    /\ UnblockHeld(IF Held.spec.isolatePod THEN "release" ELSE "clear")
    /\ UNCHANGED <<hist, seen, index, mesh, tracker, engaged, now>>

DeEscalateRelease ==
    /\ worker.pc = "release"
    /\ ReleaseHeld("clear")
    /\ UNCHANGED <<hist, seen, index, kernel, tracker, engaged, now>>

DeEscalateClear ==
    /\ worker.pc = "clear"
    /\ WriteHeld(SetStatus(Held, DeEscalated(Held.status)), "clearIndex")
    /\ UNCHANGED <<seen, index, kernel, mesh, tracker, engaged, now>>

FinalizeRelease ==
    /\ worker.pc = "finRelease"
    /\ ReleaseHeld("finUnblock")
    /\ UNCHANGED <<hist, seen, index, kernel, tracker, engaged, now>>

FinalizeUnblock ==
    /\ worker.pc = "finUnblock"
    /\ UnblockHeld("finRemove")
    /\ UNCHANGED <<hist, seen, index, mesh, tracker, engaged, now>>

\* Removing the last finalizer of an object being deleted deletes it.
FinalizeRemove ==
    /\ worker.pc = "finRemove"
    /\ WriteHeld(Absent, "finForget")
    /\ UNCHANGED <<seen, index, kernel, mesh, tracker, engaged, now>>

FinalizeForget ==
    /\ worker.pc = "finForget"
    /\ index' = [index EXCEPT ![worker.pol] = 0]
    /\ Continue("idle", worker.ver, FALSE)
    /\ UNCHANGED <<hist, seen, queue, kernel, mesh, tracker, engaged,
                   now, left>>

WorkerStep ==
    \/ \E p \in Policy : ReconcileGet(p)
    \/ AddFinalizer \/ ReconcilePut \/ InitPhase \/ ReportScoring
    \/ AwaitQuiet \/ DeEscalateUnblock \/ DeEscalateRelease \/ DeEscalateClear
    \/ FinalizeRelease \/ FinalizeUnblock \/ FinalizeRemove \/ FinalizeForget
=============================================================================
