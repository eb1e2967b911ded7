------------------------------- MODULE Detect -------------------------------
(***************************************************************************)
(* The two GTP-U flood rules of pkg/detect. Each reports a tunnel, or a    *)
(* source, at most once per cooldown, and remembers what it reported in a  *)
(* map of fixed capacity from which a ring evicts in order of insertion.   *)
(***************************************************************************)
EXTENDS Integers, FiniteSets, Sequences

CONSTANTS
    Source,               \* addresses of GTP-U peers
    TEID, NoTEID,         \* tunnel ids; NoTEID is 0
    PacketsPerSecond,     \* per tunnel; 0 turns the tunnel rule off
    Cooldown,             \* of the tunnel rule, in ticks
    Capacity,             \* MaxTrackedTunnels
    SourcePPS,            \* per source; 0 turns this half off
    DistinctTunnels,      \* TEIDs of a source; 0 turns this half off
    Window, SourceCooldown,
    MaxTrackedSources, MaxTunnelsPerSource,
    MaxTime               \* bound on the clock

ASSUME DetectAssumption ==
    /\ NoTEID \notin TEID
    /\ {PacketsPerSecond, SourcePPS, DistinctTunnels, MaxTime} \subseteq Nat
    /\ {Cooldown, Capacity, Window, SourceCooldown, MaxTrackedSources,
        MaxTunnelsPerSource} \subseteq Nat \ {0}

Tunnel == Source \X TEID
Never == -1

VARIABLES
    now,
    lastFired,          \* tracked tunnels, with the time each last fired
    order, next,        \* the tunnel rule's ring
    sources,            \* tracked sources, with their windows
    srcOrder, srcNext,  \* the source rule's ring
    reported,           \* history: when each tunnel was last reported
    newer,              \* history: tunnels entered since each one was
    srcReported,        \* history: when each source was last reported
    log                 \* history: a tracked source's packets of one Window

tunnelVars == <<lastFired, order, next, reported, newer>>
sourceVars == <<sources, srcOrder, srcNext, srcReported, log>>
detectVars == <<now, tunnelVars, sourceVars>>

DetectInit ==
    /\ now = 0
    /\ lastFired = <<>> /\ sources = <<>>
    /\ order = [i \in 0 .. Capacity - 1 |-> <<>>] /\ next = 0
    /\ srcOrder = [i \in 0 .. MaxTrackedSources - 1 |-> <<>>] /\ srcNext = 0
    /\ reported = [t \in Tunnel |-> Never] /\ newer = [t \in Tunnel |-> 0]
    /\ srcReported = [s \in Source |-> Never]
    /\ log = [s \in Source |-> <<>>]

-----------------------------------------------------------------------------
(* The map and the ring of either rule. *)

\* Mutant: the slot after the one that is overwritten is evicted.
EvictedNext(map, ring, slot, cap) ==
    IF Cardinality(DOMAIN map) >= cap THEN {ring[(slot + 1) % cap]} ELSE {}

\* What entering a new key evicts: the key it overwrites in a full ring.
Evicted(map, ring, slot, cap) ==
    IF Cardinality(DOMAIN map) >= cap THEN {ring[slot]} ELSE {}

Set(map, k, v) ==
    [j \in DOMAIN map \cup {k} |-> IF j = k THEN v ELSE map[j]]

Without(map, keys) == [k \in DOMAIN map \ keys |-> map[k]]

-----------------------------------------------------------------------------
(* GTPUFloodDetector *)

TunnelOf(evt) == <<evt.source, evt.teid>>

IsFlood(evt) ==
    /\ PacketsPerSecond # 0
    /\ evt.gtpu /\ evt.teid # NoTEID
    /\ evt.rate >= PacketsPerSecond

\* What claim lets through: a tunnel not reported within the cooldown, as far
\* as the map remembers.
TunnelDue(evt) ==
    /\ IsFlood(evt)
    /\ TunnelOf(evt) \in DOMAIN lastFired =>
        now - lastFired[TunnelOf(evt)] >= Cooldown

\* The rest of claim, for a tunnel that is tracked and for one that is not.
Refresh(t) ==
    /\ t \in DOMAIN lastFired
    /\ lastFired' = [lastFired EXCEPT ![t] = now]
    /\ UNCHANGED <<order, next, newer>>

Enter(t) ==
    /\ t \notin DOMAIN lastFired
    /\ lastFired' =
        Set(Without(lastFired, Evicted(lastFired, order, next, Capacity)),
            t, now)
    /\ order' = [order EXCEPT ![next] = t]
    /\ next' = (next + 1) % Capacity
    /\ newer' = [u \in Tunnel |-> IF u = t THEN 0 ELSE newer[u] + 1]

Claim(t) ==
    /\ Refresh(t) \/ Enter(t)
    /\ reported' = [reported EXCEPT ![t] = now]

EvaluateTunnel(evt) ==
    IF TunnelDue(evt) THEN Claim(TunnelOf(evt)) ELSE UNCHANGED tunnelVars

-----------------------------------------------------------------------------
(* GTPUSourceFloodDetector *)

Observes(evt) ==
    /\ SourcePPS > 0 \/ DistinctTunnels > 0
    /\ evt.gtpu /\ evt.teid # NoTEID /\ evt.source \in Source

\* Mutant: a new window keeps the tunnels of the last one.
RollKeepsTEIDs(w) ==
    IF now - w.start < Window THEN w
    ELSE [w EXCEPT !.start = now, !.packets = 0]

\* The window the packet falls in. The cooldown spans windows.
Roll(w) ==
    IF now - w.start < Window THEN w
    ELSE [w EXCEPT !.start = now, !.packets = 0, !.teids = {}]

Count(w, teid) ==
    [w EXCEPT !.packets = @ + 1,
              !.teids = IF Cardinality(@) < MaxTunnelsPerSource
                        THEN @ \cup {teid} ELSE @]

\* Mutant: a threshold has to be exceeded.
CrossesAbove(packets, distinct) ==
    \/ SourcePPS > 0 /\ packets > SourcePPS
    \/ DistinctTunnels > 0 /\ distinct > DistinctTunnels

\* report
Crosses(packets, distinct) ==
    \/ SourcePPS > 0 /\ packets >= SourcePPS
    \/ DistinctTunnels > 0 /\ distinct >= DistinctTunnels

Emits(w) ==
    /\ Crosses(w.packets, Cardinality(w.teids))
    /\ w.lastFired = Never \/ now - w.lastFired >= SourceCooldown

NewWindow == [start |-> now, packets |-> 0, teids |-> {}, lastFired |-> Never]

\* Find or enter the source's window and count the packet in it.
Counted(evt) ==
    Count(Roll(IF evt.source \in DOMAIN sources THEN sources[evt.source]
               ELSE NewWindow), evt.teid)

SourceDue(evt) == Observes(evt) /\ Emits(Counted(evt))

\* observe
Observe(evt) ==
    LET s == evt.source
        w == Counted(evt)
        new == s \notin DOMAIN sources
        gone == IF new
                THEN Evicted(sources, srcOrder, srcNext, MaxTrackedSources)
                ELSE {}
    IN  /\ sources' =
            Set(Without(sources, gone), s,
                IF Emits(w) THEN [w EXCEPT !.lastFired = now] ELSE w)
        /\ srcOrder' = IF new THEN [srcOrder EXCEPT ![srcNext] = s]
                       ELSE srcOrder
        /\ srcNext' = IF new THEN (srcNext + 1) % MaxTrackedSources
                      ELSE srcNext
        /\ srcReported' = IF Emits(w) THEN [srcReported EXCEPT ![s] = now]
                          ELSE srcReported
        /\ log' = [r \in Source |->
                    IF r = s THEN Append(log[s], [at |-> now, teid |-> evt.teid])
                    ELSE IF r \in gone THEN <<>> ELSE log[r]]

EvaluateSource(evt) ==
    IF Observes(evt) THEN Observe(evt) ELSE UNCHANGED sourceVars

-----------------------------------------------------------------------------
\* History: the packets a Window old, at the front of a log, leave it.
Old(l, t) ==
    CHOOSE k \in 0 .. Len(l) : \A i \in DOMAIN l : i > k <=> t - l[i].at < Window

Younger(l, t) == SubSeq(l, Old(l, t) + 1, Len(l))

DetectTick ==
    /\ now < MaxTime /\ now' = now + 1
    /\ log' = [s \in Source |-> Younger(log[s], now')]
    /\ UNCHANGED <<tunnelVars, sources, srcOrder, srcNext, srcReported>>

-----------------------------------------------------------------------------
\* A tunnel that was reported is remembered, with the time of its last report,
\* until Capacity other tunnels have been entered after it, and no longer: the
\* ring and the map evict the same tunnel, and a repeated report within the
\* cooldown takes a full turn of the ring.
ReportsAreRemembered ==
    \A t \in Tunnel :
        IF reported[t] # Never /\ newer[t] < Capacity
        THEN t \in DOMAIN lastFired /\ lastFired[t] = reported[t]
        ELSE t \notin DOMAIN lastFired

Distinct(s) == {log[s][i].teid : i \in DOMAIN log[s]}

\* "a missed detection, never a false one": a source is reported only when the
\* packets, or the distinct tunnels, it sent within the last Window reach a
\* threshold, whatever the window resets and evictions before.
SourceReportIsReal ==
    [][\A s \in Source : srcReported'[s] # srcReported[s] =>
        Crosses(Len(log'[s]), Cardinality(Distinct(s)'))]_detectVars

\* Windows follow one another and a burst may straddle two of them, but one
\* of the two then holds half of it. A source that sent twice the threshold
\* within a Window, while tracked, was reported, unless it had been within a
\* cooldown before.
SustainedFloodIsReported ==
    \A s \in Source :
        \/ SourcePPS > 0 /\ Len(log[s]) >= 2 * SourcePPS - 1
        \/ /\ DistinctTunnels \in 1 .. MaxTunnelsPerSource
           /\ Cardinality(Distinct(s)) >= 2 * DistinctTunnels - 1
        => /\ srcReported[s] # Never
           /\ now - srcReported[s] < SourceCooldown + Window
=============================================================================
