----------------------------- MODULE ScoreGates -----------------------------
(***************************************************************************)
(* What stands between a score and a policy's status: the kill switch and  *)
(* the write limiter, as ThreatScoreWatcher.applyPolicy goes through them, *)
(* and the dwell of Reconciler.tryDeEscalate behind them, for policies     *)
(* that mitigate automatically. One score is handled at a time. The        *)
(* object itself is never stale here; MitigationLoop                       *)
(* has the caches, the kernel and what a mitigation does.                  *)
(***************************************************************************)
EXTENDS KillSwitch, ReactorLimiter

CONSTANTS
    Dwell,        \* the de-escalation dwell, in ticks
    MaxFailures   \* bound on failed status writes

ASSUME GatesAssumption == {Dwell, MaxFailures} \subseteq Nat

VARIABLES
    status,     \* per policy: phase and lastMitigationTime
    pending,    \* the score whose call of Engaged waits: its policy, if any
    failures,
    attempted,  \* history: per policy, when a status write was last sent
    handled,    \* history: per policy, when a score was last through
    crossed     \* history: per policy, when one last decided to mitigate

gateVars == <<bucket, status, pending, failures, attempted, handled, crossed>>
gatesVars == <<switchVars, gateVars>>

GatesInit ==
    /\ SwitchInit /\ LimiterInit
    /\ status = [p \in Policy |-> [phase |-> "Monitoring", last |-> 0]]
    /\ pending = {} /\ failures = MaxFailures
    /\ attempted = [p \in Policy |-> 0]
    /\ handled = [p \in Policy |-> 0]
    /\ crossed = [p \in Policy |-> 0]

-----------------------------------------------------------------------------
(* The write. *)

\* updateStatus, which may fail.
Attempt(p, next) ==
    /\ attempted' = [attempted EXCEPT ![p] = clock]
    /\ \/ status' = [status EXCEPT ![p] = next] /\ UNCHANGED failures
       \/ failures > 0 /\ failures' = failures - 1 /\ UNCHANGED status

\* A write that changes the decision is sent; any other takes a token, or is
\* skipped. decides: the score adds a source or a tunnel to the status.
writeStatus(p, next, decides) ==
    /\ handled' = [handled EXCEPT ![p] = clock]
    /\ \/ /\ decides \/ status[p].phase # next.phase
          /\ Attempt(p, next) /\ UNCHANGED bucket
       \/ /\ ~decides /\ status[p].phase = next.phase
          /\ Allow(p, clock)
          /\ bucket' = Taken(p, clock)
          /\ Attempt(p, next)
       \/ /\ ~decides /\ status[p].phase = next.phase
          /\ ~Allow(p, clock)
          /\ UNCHANGED <<bucket, status, failures, attempted>>

-----------------------------------------------------------------------------
(* applyPolicy. *)

\* Mutant: a score below the threshold ends a mitigation as well.
BenignEnds(p) ==
    /\ pc = "idle"
    /\ writeStatus(p, [status[p] EXCEPT !.phase = "Monitoring"], FALSE)
    /\ UNCHANGED <<switchVars, pending, crossed>>

\* A score below the threshold: only an alert is over with it.
Benign(p) ==
    /\ pc = "idle"
    /\ writeStatus(p, IF status[p].phase = "Mitigating" THEN status[p]
                      ELSE [status[p] EXCEPT !.phase = "Monitoring"], FALSE)
    /\ UNCHANGED <<switchVars, pending, crossed>>

\* A score that crosses it, with the kill switch's answer.
Decide(p, suppressed) ==
    IF suppressed
    THEN /\ writeStatus(p, [status[p] EXCEPT !.phase = "Alerting"], FALSE)
         /\ UNCHANGED crossed
    ELSE /\ \E new \in BOOLEAN :
                writeStatus(p, [phase |-> "Mitigating", last |-> clock], new)
         /\ crossed' = [crossed EXCEPT ![p] = clock]

CrossCached(p) ==
    /\ pc = "idle" /\ Fresh
    /\ Decide(p, engaged)
    /\ UNCHANGED <<switchVars, pending>>

CrossAsks(p) ==
    /\ Send /\ pending' = {p}
    /\ UNCHANGED <<bucket, status, failures, attempted, handled, crossed>>

CrossAnswered(p) ==
    /\ Return /\ p \in pending /\ pending' = {}
    /\ Decide(p, engaged')

-----------------------------------------------------------------------------
(* The other side of the dwell, and the environment. *)

DeEscalate(p) ==
    /\ status[p].phase = "Mitigating" /\ clock - status[p].last >= Dwell
    /\ status' = [status EXCEPT ![p].phase = "Monitoring"]
    /\ UNCHANGED <<switchVars, bucket, pending, failures, attempted, handled,
                   crossed>>

ServeConfigMap == Serve /\ UNCHANGED gateVars
FlipConfigMap == Flip /\ UNCHANGED gateVars
Time == SwitchTick /\ UNCHANGED gateVars

GatesNext ==
    \/ \E p \in Policy : \/ Benign(p)
                         \/ CrossCached(p) \/ CrossAsks(p) \/ CrossAnswered(p)
                         \/ DeEscalate(p)
    \/ ServeConfigMap \/ FlipConfigMap \/ Time

GatesSpec == GatesInit /\ [][GatesNext]_gatesVars

-----------------------------------------------------------------------------
Mitigates(p) == crossed'[p] # crossed[p]

\* Engaging the kill switch stops mitigation, "within the switch's own TTL":
\* no score mitigates once a Get has found the switch engaged, whatever Gets
\* fail after it, nor a TTL and one Get after the ConfigMap was set unless
\* the last Get failed.
ArmedSwitchStops ==
    [][\A p \in Policy : Mitigates(p) => ~Armed \/ Unnoticed]_gatesVars

\* Throttling thins out the refreshes of a policy's status but does not stop
\* them, whatever mix of scores takes the tokens: when a score is through, a
\* write for its policy was sent less than a token's time ago.
RefreshIsRecent ==
    \A p \in Policy : handled[p] < attempted[p] + Interval

EndsMitigation(p) ==
    status[p].phase = "Mitigating" /\ status'[p].phase = "Monitoring"

\* LastMitigationTime may lag "by a throttle window" and no more: a policy
\* returns to Monitoring when, but for less than a token's time, no score has
\* mitigated for the dwell. This takes that the last write sent is the one
\* that set the time: a later refresh by a benign score takes the token of
\* the next mitigation's and leaves the time behind.
QuietBeforeDeEscalation ==
    [][\A p \in Policy :
        EndsMitigation(p) /\ attempted[p] = status[p].last
            => clock + Interval > crossed[p] + Dwell]_gatesVars

\* A bucket has at least the ticks between the last write and the last time
\* it was drawn from, so that a refusal follows a write closely.
GatesInv ==
    /\ SwitchInv
    /\ bucket \in [Policy -> [tokens : Nat, at : Nat]]
    /\ status \in [Policy -> [phase : {"Monitoring", "Alerting", "Mitigating"},
                              last : Nat]]
    /\ {attempted, handled, crossed} \subseteq [Policy -> Nat]
    /\ \A p \in Policy :
        /\ bucket[p].at <= clock
        /\ bucket[p].tokens + attempted[p] >= bucket[p].at
        /\ attempted[p] <= clock
        /\ crossed[p] <= handled[p] /\ handled[p] <= clock
    /\ RefreshIsRecent
=============================================================================
