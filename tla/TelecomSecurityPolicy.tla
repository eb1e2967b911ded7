------------------------ MODULE TelecomSecurityPolicy ------------------------
(***************************************************************************)
(* The TelecomSecurityPolicy resource (api/v1alpha1) and the pure decisions *)
(* the controller takes on one: the effective threshold, the keys a score   *)
(* would block, and the status a score turns an old status into.           *)
(***************************************************************************)
EXTENDS Integers

CONSTANTS
    Policy,         \* names of TelecomSecurityPolicy objects, one namespace
    Source, NoIP,   \* source addresses; NoIP: one net.ParseIP rejects
    TEID, NoTEID,   \* GTP-U tunnel ids; NoTEID is the wire value 0
    Workload,       \* workloads a policy can target (the mesh selector)
    BaseThreshold   \* THREAT_SCORE_THRESHOLD, in per cent

\* The two enforcement map families: blocklist and tunnel_blocklist.
Tunnel == Source \X TEID
Target == Source \cup Tunnel

ASSUME PolicyAssumption ==
    /\ BaseThreshold \in 0..100
    /\ NoIP \notin Source /\ NoTEID \notin TEID
    /\ Workload \cap Target = {}

Never == -1  \* a nil LastMitigationTime

PolicySpec ==
    [target : Workload, sensitivity : {"low", "medium", "high"},
     autoMitigate : BOOLEAN, ebpfBlock : BOOLEAN, ebpfBlockTunnel : BOOLEAN,
     isolatePod : BOOLEAN]

PolicyPhase == {"", "Monitoring", "Alerting", "Mitigating"}

ScoringReason ==
    {"", "AwaitingFirstScore", "NoThreatScoresReceived", "ScoresReceived"}

\* observed is ObservedThreatScore, last is LastMitigationTime, blocked the
\* union of BlockedSourceIPs and BlockedTunnels, and scoring the reason of
\* the ScoringPipelineReady condition.
PolicyStatus ==
    [phase : PolicyPhase, observed : Nat, last : Nat \cup {Never},
     blocked : SUBSET Target, scoring : ScoringReason]

NewStatus ==
    [phase |-> "", observed |-> 0, last |-> Never, blocked |-> {},
     scoring |-> ""]

\* A stored object; live is FALSE once the object is gone.
Object ==
    [live : BOOLEAN, deleting : BOOLEAN, finalizer : BOOLEAN,
     spec : PolicySpec, status : PolicyStatus]

Score ==
    [workload : Workload, source : Source \cup {NoIP},
     teid : TEID \cup {NoTEID}, score : 0..100]

-----------------------------------------------------------------------------
\* sensitivityMultiplier, in per cent.
Multiplier(sensitivity) ==
    CASE sensitivity = "high"   -> 80
      [] sensitivity = "medium" -> 100
      [] sensitivity = "low"    -> 120

\* The effective threshold in hundredths of a per cent, clamped to 1.0.
Threshold(spec) ==
    LET raw == BaseThreshold * Multiplier(spec.sensitivity)
    IN  IF raw > 10000 THEN 10000 ELSE raw

Crosses(spec, s) == 100 * s.score >= Threshold(spec)

\* Mutant: a tunnel block for a score that carries no TEID.
BlockTunnelAnyTEID(spec, s) == spec.ebpfBlockTunnel /\ s.source # NoIP

BlockTunnel(spec, s) ==
    spec.ebpfBlockTunnel /\ s.source # NoIP /\ s.teid # NoTEID

BlockSource(spec, s) == spec.ebpfBlock /\ s.source # NoIP

\* The enforcement keys a mitigating score records and then blocks.
Keys(spec, s) ==
    {k \in {s.source} : BlockSource(spec, s)}
        \cup {k \in {<<s.source, s.teid>>} : BlockTunnel(spec, s)}

\* Everything a mitigating score does once its status write is done.
Actions(spec, s) == Keys(spec, s) \cup {x \in {spec.target} : spec.isolatePod}

\* Actions are taken in this order: tunnel block, source block, quarantine.
Rank(a) == IF a \in Tunnel THEN 1 ELSE IF a \in Source THEN 2 ELSE 3

Mitigates(spec, s, engaged) ==
    Crosses(spec, s) /\ spec.autoMitigate /\ ~engaged

\* Mutant: applyPolicy forgets to set LastMitigationTime.
DecideUntimed(obj, s, engaged, time) ==
    LET seen == [obj.status EXCEPT !.observed = s.score]
    IN  IF Mitigates(obj.spec, s, engaged)
        THEN [seen EXCEPT !.phase = "Mitigating",
                          !.blocked = @ \cup Keys(obj.spec, s)]
        ELSE IF Crosses(obj.spec, s)
        THEN [seen EXCEPT !.phase = "Alerting"]
        ELSE [seen EXCEPT !.phase = IF @ = "Mitigating" THEN @
                                                        ELSE "Monitoring"]

\* The status applyPolicy decides on: withheld actions (autoMitigate off or
\* the kill switch engaged) alert, and a low score never leaves Mitigating.
Decide(obj, s, engaged, time) ==
    LET seen == [obj.status EXCEPT !.observed = s.score]
    IN  IF Mitigates(obj.spec, s, engaged)
        THEN [seen EXCEPT !.phase = "Mitigating", !.last = time,
                          !.blocked = @ \cup Keys(obj.spec, s)]
        ELSE IF Crosses(obj.spec, s)
        THEN [seen EXCEPT !.phase = "Alerting"]
        ELSE [seen EXCEPT !.phase = IF @ = "Mitigating" THEN @
                                                        ELSE "Monitoring"]

\* The differences writeStatus never throttles.
StatusDecisionChanged(prev, next) ==
    prev.phase # next.phase \/ prev.blocked # next.blocked

\* The status tryDeEscalate writes; LastMitigationTime stays as it was.
DeEscalated(st) == [st EXCEPT !.blocked = {}, !.phase = "Monitoring"]

\* What one object asks the kernel to enforce.
Claims(obj) == IF obj.live /\ ~obj.deleting THEN obj.status.blocked ELSE {}
=============================================================================
