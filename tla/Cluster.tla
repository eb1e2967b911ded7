------------------------------- MODULE Cluster -------------------------------
(***************************************************************************)
(* What the operator's goroutines share: the API server's policy objects,  *)
(* the informer cache behind the manager's client, the controller work     *)
(* queue, PolicyIndex, the enforcement maps, the mesh and the clock.       *)
(*                                                                         *)
(* Every copy of a policy is a version of it: hist[p] lists the versions   *)
(* the API server has stored, a resourceVersion is a position in hist[p],  *)
(* and an update is accepted only from the last position.                  *)
(***************************************************************************)
EXTENDS TelecomSecurityPolicy, Sequences, FiniteSets

CONSTANTS
    SpecChoices,    \* specs a user may write
    Dwell,          \* DeEscalationDwell, in ticks
    BlocklistCap, TunnelCap,  \* room in the two non-evicting maps, beside the
                              \* entries of policies outside the model
    Budgets,        \* bounds on the environment, of which a run has one
    TrackScoring,   \* whether the ScoringPipelineReady condition is wired
    UseKillSwitch   \* whether anybody engages the kill switch

\* What is bounded: creations, edits, deletions and switch flips; delivered
\* scores; operator restarts; and failed API, map and mesh calls.
Bound == {"user", "scores", "crashes", "faults"}

ASSUME ClusterAssumption ==
    /\ SpecChoices \subseteq PolicySpec /\ SpecChoices # {}
    /\ Policy # {}
    /\ {Dwell, BlocklistCap, TunnelCap} \subseteq Nat
    /\ Budgets \subseteq [Bound -> Nat]
    /\ {TrackScoring, UseKillSwitch} \subseteq BOOLEAN

VARIABLES
    hist,     \* hist[p]: the versions of p the API server has stored
    seen,     \* seen[p]: the version the informer cache holds
    queue,    \* policies in the controller work queue
    delayed,  \* policies with a pending RequeueAfter
    index,    \* PolicyIndex: the version it holds of each policy, 0 for none
    kernel,   \* keys in the enforcement maps
    mesh,     \* quarantined workloads
    tracker,  \* ScoringPipelineTracker
    engaged,  \* what KillSwitch.Engaged returns
    now,      \* the clock
    left      \* what remains of the bounds on the environment

clusterVars ==
    <<hist, seen, queue, delayed, index, kernel, mesh, tracker, engaged, now,
      left>>

Absent ==
    [live |-> FALSE, deleting |-> FALSE, finalizer |-> FALSE,
     spec |-> CHOOSE spec \in SpecChoices : TRUE, status |-> NewStatus]

TrackerState == [scored : BOOLEAN, graceOver : BOOLEAN]

Latest(p) == hist[p][Len(hist[p])]

ClusterTypeOK ==
    /\ hist \in [Policy -> Seq(Object)]
    /\ \A p \in Policy : Len(hist[p]) > 0
    /\ seen \in [Policy -> Nat]
    /\ \A p \in Policy : seen[p] \in 1..Len(hist[p])
    /\ queue \subseteq Policy /\ delayed \subseteq Policy
    /\ index \in [Policy -> Nat]
    /\ \A p \in Policy : index[p] \in 0..Len(hist[p])
    /\ kernel \subseteq Target
    /\ mesh \subseteq Workload
    /\ tracker \in TrackerState
    /\ engaged \in BOOLEAN
    /\ now \in Nat
    /\ left \in [Bound -> Nat]

TrackerStart == [scored |-> FALSE, graceOver |-> FALSE]

ClusterInit ==
    /\ hist = [p \in Policy |-> <<Absent>>]
    /\ seen = [p \in Policy |-> 1]
    /\ queue = {} /\ delayed = {}
    /\ index = [p \in Policy |-> 0]
    /\ kernel = {} /\ mesh = {} /\ tracker = TrackerStart
    /\ engaged = FALSE /\ now = 0
    /\ left \in Budgets

Spend(b) == left[b] > 0 /\ left' = [left EXCEPT ![b] = @ - 1]

-----------------------------------------------------------------------------
(* The API server's side of an update of version v of p. *)

\* The resourceVersion check; a deleted object is not found.
Accepts(p, v) == v = Len(hist[p]) /\ Latest(p).live

\* Storing an object equal to the stored one makes no new version.
Store(p, obj) ==
    IF obj = Latest(p) THEN hist ELSE [hist EXCEPT ![p] = Append(@, obj)]

\* A call that fails on its way: the request is lost, or only the reply is
\* and the server has stored obj.
CallFails(p, v, obj) ==
    /\ Spend("faults")
    /\ \/ UNCHANGED hist
       \/ Accepts(p, v) /\ hist' = Store(p, obj)

\* An update that returns an error.
UpdateFails(p, v, obj) ==
    \/ ~Accepts(p, v) /\ UNCHANGED <<hist, left>>
    \/ CallFails(p, v, obj)

\* ScoringPipelineTracker.Observe; skipped when no tracker is wired.
Observe == tracker' = [tracker EXCEPT !.scored = @ \/ TrackScoring]

SetStatus(obj, st) == [obj EXCEPT !.status = st]

-----------------------------------------------------------------------------
(* The enforcement maps: hash maps that refuse an insert when full. *)

HasRoom(k) ==
    \/ k \in kernel
    \/ k \in Source /\ Cardinality(kernel \cap Source) < BlocklistCap
    \/ k \in Tunnel /\ Cardinality(kernel \cap Tunnel) < TunnelCap

\* Loader.Block or BlockTunnel of k: done, or refused with an error.
BlockDone(k) == HasRoom(k) /\ kernel' = kernel \cup {k} /\ UNCHANGED left
BlockFails(k) ==
    /\ UNCHANGED kernel
    /\ \/ ~HasRoom(k) /\ UNCHANGED left
       \/ Spend("faults")

-----------------------------------------------------------------------------
(* Users, the informer and the grace period. *)

CreatePolicy(p) ==
    /\ ~Latest(p).live /\ Spend("user")
    /\ \E spec \in SpecChoices :
        hist' = Store(p, [Absent EXCEPT !.live = TRUE, !.spec = spec])
    /\ UNCHANGED <<seen, queue, delayed, index, kernel, mesh, tracker,
                   engaged, now>>

EditSpec(p) ==
    /\ Latest(p).live /\ Spend("user")
    /\ \E spec \in SpecChoices \ {Latest(p).spec} :
        hist' = Store(p, [Latest(p) EXCEPT !.spec = spec])
    /\ UNCHANGED <<seen, queue, delayed, index, kernel, mesh, tracker,
                   engaged, now>>

\* A delete only marks an object that carries a finalizer.
DeletePolicy(p) ==
    /\ Latest(p).live /\ ~Latest(p).deleting /\ Spend("user")
    /\ hist' = Store(p, IF Latest(p).finalizer
                        THEN [Latest(p) EXCEPT !.deleting = TRUE] ELSE Absent)
    /\ UNCHANGED <<seen, queue, delayed, index, kernel, mesh, tracker,
                   engaged, now>>

\* Somebody edits the kill switch's ConfigMap, which the watcher is taken to
\* read at once; ScoreGates has the cached read.
ToggleKillSwitch ==
    /\ UseKillSwitch /\ Spend("user")
    /\ engaged' = ~engaged
    /\ UNCHANGED <<hist, seen, queue, delayed, index, kernel, mesh, tracker,
                   now>>

\* A watch event updates the cache and wakes the controller.
InformerEvent(p) ==
    /\ seen[p] < Len(hist[p])
    /\ seen' = [seen EXCEPT ![p] = @ + 1]
    /\ queue' = queue \cup {p}
    /\ UNCHANGED <<hist, delayed, index, kernel, mesh, tracker, engaged,
                   now, left>>

\* A RequeueAfter elapses. It may fire early: Reconcile checks the time.
RequeueFires(p) ==
    /\ p \in delayed
    /\ delayed' = delayed \ {p} /\ queue' = queue \cup {p}
    /\ UNCHANGED <<hist, seen, index, kernel, mesh, tracker, engaged,
                   now, left>>

\* The scoring grace period runs out.
GraceExpires ==
    /\ TrackScoring /\ ~tracker.graceOver
    /\ tracker' = [tracker EXCEPT !.graceOver = TRUE]
    /\ UNCHANGED <<hist, seen, queue, delayed, index, kernel, mesh, engaged,
                   now, left>>

Environment ==
    \/ \E p \in Policy : CreatePolicy(p) \/ EditSpec(p) \/ DeletePolicy(p)
    \/ \E p \in Policy : InformerEvent(p) \/ RequeueFires(p)
    \/ ToggleKillSwitch \/ GraceExpires
=============================================================================
