---------------------------- MODULE DetectProofs ----------------------------
(***************************************************************************)
(* The two flood rules remember, report and miss what they say they do, in *)
(* the publisher that runs them: for any number of tunnels and sources and *)
(* every threshold, window, cooldown and capacity.                         *)
(***************************************************************************)
EXTENDS Publisher, FloodLogProofs

(* The SMT solver may take its time on a leaf that names no prover. *)
USE SMTT(60)

-----------------------------------------------------------------------------
(* The tunnel rule: the ring holds the tracked tunnels in order of age. *)

Filled == IF Cardinality(DOMAIN lastFired) = Capacity THEN 0 .. Capacity - 1
          ELSE 0 .. next - 1

\* How many tunnels have been entered since the one in slot i.
Age(i) == next - 1 - i + IF i < next THEN 0 ELSE Capacity

RingOK ==
    /\ next \in 0 .. Capacity - 1
    /\ order \in [0 .. Capacity - 1 -> Tunnel \cup {<<>>}]
    /\ DOMAIN lastFired \subseteq Tunnel /\ IsFiniteSet(DOMAIN lastFired)
    /\ Cardinality(DOMAIN lastFired) \in {next, Capacity}
    /\ \A i \in Filled : order[i] \in DOMAIN lastFired /\ newer[order[i]] = Age(i)
    /\ \A t \in DOMAIN lastFired : \E i \in Filled : t = order[i]

MemoryOK ==
    /\ reported \in [Tunnel -> Nat \cup {Never}] /\ newer \in [Tunnel -> Nat]
    /\ \A t \in DOMAIN lastFired : reported[t] # Never /\ lastFired[t] = reported[t]
    /\ \A t \in Tunnel \ DOMAIN lastFired : reported[t] # Never => newer[t] >= Capacity

TunnelInv == now \in Nat /\ RingOK /\ MemoryOK

LEMMA Wraps ==
    ASSUME NEW C \in Nat \ {0}, NEW n \in 0 .. C - 1
    PROVE  (n + 1) % C = IF n + 1 = C THEN 0 ELSE n + 1
<1>1. CASE n + 1 = C
    BY <1>1
<1>2. CASE n + 1 < C
    BY <1>2
<1> QED BY <1>1, <1>2

\* A full ring evicts its oldest tunnel.
LEMMA OldestGoes ==
    ASSUME TunnelInv, NEW t \in Tunnel, Enter(t)
    PROVE  LET gone == Evicted(lastFired, order, next, Capacity)
           IN  /\ DOMAIN lastFired' = (DOMAIN lastFired \ gone) \cup {t}
               /\ lastFired'[t] = now
               /\ \A u \in DOMAIN lastFired \ gone : lastFired'[u] = lastFired[u]
               /\ IsFiniteSet(DOMAIN lastFired')
               /\ IF Cardinality(DOMAIN lastFired) = Capacity
                  THEN /\ gone = {order[next]} /\ newer[order[next]] = Capacity - 1
                       /\ order[next] \in DOMAIN lastFired
                       /\ \A i \in Filled \ {next} : order[i] # order[next]
                       /\ Cardinality(DOMAIN lastFired') = Capacity
                  ELSE /\ gone = {} /\ Cardinality(DOMAIN lastFired) = next
                       /\ Cardinality(DOMAIN lastFired') = next + 1
<1> DEFINE D == DOMAIN lastFired
           gone == Evicted(lastFired, order, next, Capacity)
<1>1. /\ Capacity \in Nat \ {0} /\ next \in 0 .. Capacity - 1 /\ t \notin D
      /\ IsFiniteSet(D) /\ Cardinality(D) \in {next, Capacity}
    BY DetectFacts, Zenon DEF TunnelInv, RingOK, Enter
<1>2. /\ DOMAIN lastFired' = (D \ gone) \cup {t} /\ lastFired'[t] = now
      /\ \A u \in D \ gone : lastFired'[u] = lastFired[u]
    <2> HIDE DEF gone
    <2>1. lastFired' = Set(Without(lastFired, gone), t, now)
        BY DEF Enter, gone
    <2>2. /\ DOMAIN Set(Without(lastFired, gone), t, now) = (D \ gone) \cup {t}
          /\ Set(Without(lastFired, gone), t, now)[t] = now
          /\ \A u \in D \ gone :
                u # t => Set(Without(lastFired, gone), t, now)[u] = lastFired[u]
        BY Zenon DEF Set, Without
    <2> QED BY <1>1, <2>1, <2>2, Zenon
<1>3. CASE Cardinality(D) = Capacity
    <2>1. gone = {order[next]}
        BY <1>1, <1>3 DEF Evicted
    <2>2. Filled = 0 .. Capacity - 1
        BY <1>3, Zenon DEF Filled
    <2>3. order[next] \in D /\ newer[order[next]] = Capacity - 1
        BY <1>1, <2>2 DEF TunnelInv, RingOK, Age
    <2>4. ASSUME NEW i \in Filled \ {next} PROVE order[i] # order[next]
        <3>1. newer[order[i]] = Age(i)
            BY DEF TunnelInv, RingOK
        <3>2. Age(i) # Capacity - 1
            BY <1>1, <2>2 DEF Age
        <3> QED BY <2>3, <3>1, <3>2, Zenon
    <2>5. IsFiniteSet(D \ gone) /\ Cardinality(D \ gone) = Capacity - 1
        BY <1>1, <1>3, <2>1, <2>3, FS_RemoveElement, ZenonT(60)
    <2>6. IsFiniteSet(DOMAIN lastFired') /\ Cardinality(DOMAIN lastFired') = Capacity
        <3> HIDE DEF gone
        <3>1. t \notin D \ gone
            BY <1>1
        <3>2. Cardinality((D \ gone) \cup {t}) = Cardinality(D \ gone) + 1
            BY <2>5, <3>1, FS_AddElement, Zenon
        <3>3. IsFiniteSet((D \ gone) \cup {t})
            BY <2>5, FS_AddElement, Zenon
        <3> QED BY <1>1, <1>2, <2>5, <3>2, <3>3
    <2> QED BY <1>2, <1>3, <2>1, <2>3, <2>4, <2>6, Zenon
<1>4. CASE Cardinality(D) # Capacity
    <2>1. gone = {} /\ Cardinality(D) = next
        BY <1>1, <1>4 DEF Evicted
    <2>2. IsFiniteSet(DOMAIN lastFired') /\ Cardinality(DOMAIN lastFired') = next + 1
        BY <1>1, <1>2, <2>1, FS_AddElement
    <2> QED BY <1>2, <1>4, <2>1, <2>2, Zenon
<1> QED BY <1>3, <1>4, Zenon

LEMMA EnterStep ==
    ASSUME TunnelInv, NEW t \in Tunnel, Enter(t), now' = now,
           reported' = [reported EXCEPT ![t] = now]
    PROVE  TunnelInv'
<1> DEFINE D == DOMAIN lastFired
           full == Cardinality(D) = Capacity
<1>1. /\ Capacity \in Nat \ {0} /\ next \in 0 .. Capacity - 1 /\ t \notin D
      /\ D \subseteq Tunnel
    BY DetectFacts, Zenon DEF TunnelInv, RingOK, Enter
<1>2. next' = IF next + 1 = Capacity THEN 0 ELSE next + 1
    BY <1>1, Wraps, Zenon DEF Enter
<1>3. order' = [order EXCEPT ![next] = t] /\ order \in [0 .. Capacity - 1 -> Tunnel \cup {<<>>}]
    BY DEF Enter, TunnelInv, RingOK
<1>4. /\ newer \in [Tunnel -> Nat] /\ newer' \in [Tunnel -> Nat] /\ newer'[t] = 0
      /\ \A u \in Tunnel \ {t} : newer'[u] = newer[u] + 1
    BY DEF Enter, TunnelInv, MemoryOK
<1>10. IF full THEN Cardinality(DOMAIN lastFired') = Capacity
       ELSE Cardinality(D) = next /\ Cardinality(DOMAIN lastFired') = next + 1
    BY OldestGoes, Zenon
<1>5. next \in Filled' /\ Filled' \subseteq Filled \cup {next} /\ Filled' \subseteq 0 .. Capacity - 1
    <2>1. CASE full
        BY <1>1, <1>2, <1>10, <2>1, Zenon DEF Filled
    <2>2. CASE ~full
        <3>1. Filled = 0 .. next - 1 /\ Filled' = 0 .. next
            BY <1>1, <1>2, <1>10, <2>2 DEF Filled
        <3> QED BY <1>1, <3>1
    <2> QED BY <2>1, <2>2, Zenon
<1>6. Filled \subseteq Filled'
    <2>1. CASE full
        BY <1>1, <1>2, <1>10, <2>1, Zenon DEF Filled
    <2>2. CASE ~full
        <3>1. Filled = 0 .. next - 1 /\ Filled' = 0 .. next
            BY <1>1, <1>2, <1>10, <2>2 DEF Filled
        <3> QED BY <1>1, <3>1
    <2> QED BY <2>1, <2>2, Zenon
<1>7. ASSUME NEW i \in Filled' PROVE Age(i)' = IF i = next THEN 0 ELSE Age(i) + 1
    BY <1>1, <1>2, <1>5 DEF Age
<1>8. RingOK'
    <2>1. next' \in 0 .. Capacity - 1 /\ order' \in [0 .. Capacity - 1 -> Tunnel \cup {<<>>}]
        BY <1>1, <1>2, <1>3
    <2>2. DOMAIN lastFired' \subseteq Tunnel /\ IsFiniteSet(DOMAIN lastFired')
        BY <1>1, OldestGoes, Zenon
    <2>3. Cardinality(DOMAIN lastFired') \in {next', Capacity}
        BY <1>1, <1>2, OldestGoes, Zenon
    <2>4. ASSUME NEW i \in Filled'
          PROVE  order'[i] \in DOMAIN lastFired' /\ newer'[order'[i]] = Age(i)'
        <3>1. CASE i = next
            BY <1>1, <1>3, <1>4, <1>7, <3>1, OldestGoes, ZenonT(60)
        <3>2. CASE i # next
            <4>1. order'[i] = order[i] /\ i \in Filled
                BY <1>3, <1>5, <3>2, Zenon
            <4>2. order[i] \in D /\ newer[order[i]] = Age(i)
                BY <4>1, Zenon DEF TunnelInv, RingOK
            <4>3. order[i] \in DOMAIN lastFired'
                BY <3>2, <4>1, <4>2, OldestGoes, Zenon
            <4> QED BY <1>1, <1>4, <1>7, <3>2, <4>1, <4>2, <4>3
        <3> QED BY <3>1, <3>2, Zenon
    <2>5. ASSUME NEW u \in DOMAIN lastFired' PROVE \E i \in Filled' : u = order'[i]
        <3>1. CASE u = t
            BY <1>1, <1>3, <1>5, <3>1, Zenon
        <3>2. CASE u # t
            <4>1. u \in D /\ (full => u # order[next])
                BY <3>2, OldestGoes, Zenon
            <4>2. PICK i \in Filled : u = order[i]
                BY <4>1 DEF TunnelInv, RingOK
            <4>3. i # next
                BY <1>1, <4>1, <4>2, OldestGoes DEF Filled
            <4> QED BY <1>3, <1>5, <1>6, <4>2, <4>3, Zenon
        <3> QED BY <3>1, <3>2, Zenon
    <2> QED BY <2>1, <2>2, <2>3, <2>4, <2>5, Zenon DEF RingOK
<1>9. MemoryOK'
    <2>1. now \in Nat /\ reported \in [Tunnel -> Nat \cup {Never}]
        BY DEF TunnelInv, MemoryOK
    <2>2. /\ reported' \in [Tunnel -> Nat \cup {Never}] /\ reported'[t] = now
          /\ \A u \in Tunnel \ {t} : reported'[u] = reported[u]
        BY <2>1, Zenon
    <2>3. ASSUME NEW u \in DOMAIN lastFired'
          PROVE  reported'[u] # Never /\ lastFired'[u] = reported'[u]
        <3>1. CASE u = t
            <4>1. now # Never
                BY <2>1 DEF Never
            <4>2. lastFired'[t] = now
                BY OldestGoes, Zenon
            <4> QED BY <2>2, <3>1, <4>1, <4>2, Zenon
        <3>2. CASE u # t
            <4>1. u \in D /\ lastFired'[u] = lastFired[u]
                BY <3>2, OldestGoes, Zenon
            <4> QED BY <1>1, <2>2, <3>2, <4>1, Zenon DEF TunnelInv, MemoryOK
        <3> QED BY <3>1, <3>2, Zenon
    <2>4. ASSUME NEW u \in Tunnel \ DOMAIN lastFired', reported'[u] # Never
          PROVE  newer'[u] >= Capacity
        <3>1. u # t
            BY OldestGoes, Zenon
        <3>2. CASE u \in D
            <4>1. full /\ u = order[next] /\ newer[u] = Capacity - 1
                BY <3>2, OldestGoes, Zenon
            <4> QED BY <1>1, <1>4, <3>1, <4>1
        <3>3. CASE u \notin D
            <4>1. newer[u] >= Capacity
                BY <2>2, <2>4, <3>1, <3>3, Zenon DEF TunnelInv, MemoryOK
            <4> QED BY <1>1, <1>4, <3>1, <4>1
        <3> QED BY <3>2, <3>3
    <2> QED BY <1>4, <2>2, <2>3, <2>4, Zenon DEF MemoryOK
<1> QED BY <1>8, <1>9, Zenon DEF TunnelInv

LEMMA RefreshStep ==
    ASSUME TunnelInv, NEW t \in Tunnel, Refresh(t), now' = now,
           reported' = [reported EXCEPT ![t] = now]
    PROVE  TunnelInv'
<1>1. DOMAIN lastFired' = DOMAIN lastFired
    BY Zenon DEF Refresh
<1>2. RingOK'
    BY <1>1, Zenon DEF TunnelInv, RingOK, Filled, Age, Refresh
<1>3. now \in Nat /\ reported \in [Tunnel -> Nat \cup {Never}]
    BY DEF TunnelInv, MemoryOK
<1>4. MemoryOK'
    BY <1>1, <1>3 DEF TunnelInv, MemoryOK, Refresh, Never
<1> QED BY <1>2, <1>4 DEF TunnelInv


-----------------------------------------------------------------------------
(* The source rule: every source is tracked in step with its log. *)

TrackedOK(s) ==
    IF s \in DOMAIN sources
    THEN /\ Fits(log[s], sources[s], srcReported[s], now)
         /\ CrossingReported(log[s], sources[s], srcReported[s])
    ELSE log[s] = <<>>

FloodInv ==
    /\ now \in Nat /\ srcReported \in [Source -> Nat \cup {Never}]
    /\ \A s \in Source : srcReported[s] <= now /\ LogOK(log[s], now) /\ TrackedOK(s)

(* The steps of the rule. *)

RealReports ==
    \A s \in Source : srcReported'[s] # srcReported[s] =>
        Crosses(Len(log'[s]), Cardinality(Tunnels(log'[s])))

LEMMA CountType ==
    ASSUME NEW w \in SourceWindow, NEW teid \in TEID
    PROVE  /\ Count(w, teid) \in SourceWindow
           /\ Count(w, teid).start = w.start /\ Count(w, teid).lastFired = w.lastFired
           /\ Count(w, teid).packets = w.packets + 1
           /\ Count(w, teid).teids = IF Cardinality(w.teids) < MaxTunnelsPerSource
                                     THEN w.teids \cup {teid} ELSE w.teids
<1> DEFINE known == IF Cardinality(w.teids) < MaxTunnelsPerSource
                    THEN w.teids \cup {teid} ELSE w.teids
           v == [w EXCEPT !.packets = w.packets + 1, !.teids = known]
<1>1. Count(w, teid) = v
    BY Zenon DEF Count
<1>2. known \in SUBSET TEID /\ w.packets + 1 \in Nat
    BY WindowType
<1> HIDE DEF known
<1>3. v \in SourceWindow
    BY <1>2, Zenon DEF SourceWindow
<1>4. v.start = w.start /\ v.lastFired = w.lastFired
    BY DEF SourceWindow
<1>5. v.packets = w.packets + 1
    BY DEF SourceWindow
<1>6. v.teids = known
    BY Zenon DEF SourceWindow
<1> QED BY <1>1, <1>3, <1>4, <1>5, <1>6, Zenon DEF known

LEMMA ObserveStep ==
    ASSUME FloodInv, NEW evt, Observes(evt), evt.teid \in TEID, Observe(evt), now' = now
    PROVE  FloodInv' /\ RealReports
<1> DEFINE s == evt.source
           l == log[s]
           rep == srcReported[s]
           known == IF s \in DOMAIN sources THEN sources[s] ELSE NewWindow
           w == Roll(known)
           v == Count(w, evt.teid)
           emits == Emits(v)
           e == [at |-> now, teid |-> evt.teid]
           m == log'[s]
           x == IF emits THEN [v EXCEPT !.lastFired = now] ELSE v
           p == srcReported'[s]
           gone == IF s \in DOMAIN sources THEN {}
                   ELSE Evicted(sources, srcOrder, srcNext, MaxTrackedSources)
<1>1. /\ s \in Source /\ now \in Nat /\ LogOK(l, now) /\ rep \in Nat \cup {Never}
      /\ rep <= now
    BY Zenon DEF Observes, FloodInv
<1>2. Fits(l, known, rep, now) /\ CrossingReported(l, known, rep)
    <2>1. CASE s \in DOMAIN sources
        BY <1>1, <2>1, Zenon DEF FloodInv, TrackedOK
    <2>2. CASE s \notin DOMAIN sources
        <3>1. l = <<>>
            BY <1>1, <2>2, Zenon DEF FloodInv, TrackedOK
        <3> QED BY <1>1, <2>2, <3>1, NewFits, Zenon
    <2> QED BY <2>1, <2>2, Zenon
<1>3. Fits(l, w, rep, now) /\ now - w.start < Window
    <2> HIDE DEF known, l, rep
    <2> QED BY <1>1, <1>2, RollFits, Zenon
<1>4. w \in SourceWindow
    BY <1>3 DEF Fits, Placed
<1>5. /\ v \in SourceWindow /\ v.start = w.start /\ v.lastFired = w.lastFired
      /\ v.packets = w.packets + 1
      /\ v.teids = IF Cardinality(w.teids) < MaxTunnelsPerSource
                   THEN w.teids \cup {evt.teid} ELSE w.teids
    <2> HIDE DEF w
    <2> QED BY <1>4, CountType, Zenon
<1>6. e \in Logged /\ e.at = now /\ e.teid = evt.teid
    BY <1>1, Zenon DEF Logged
<1>9. /\ x \in SourceWindow /\ x.start = v.start /\ x.packets = v.packets
      /\ x.teids = v.teids /\ x.lastFired = IF emits THEN now ELSE w.lastFired
    <2> HIDE DEF v, emits
    <2> QED BY <1>1, <1>5, Zenon DEF SourceWindow
<1>10. /\ sources' = Set(Without(sources, gone), s, x)
       /\ srcReported' = IF emits THEN [srcReported EXCEPT ![s] = now] ELSE srcReported
       /\ log' = [r \in Source |-> IF r = s THEN Append(log[s], e)
                                   ELSE IF r \in gone THEN <<>> ELSE log[r]]
    BY Zenon DEF Observe, Counted
<1> HIDE DEF known, w, v, emits, e, x, gone
<1>11. m = Append(l, e) /\ p = IF emits THEN now ELSE rep
    BY <1>1, <1>10, Zenon DEF FloodInv
<1>12. /\ LogOK(m, now) /\ Fits(m, x, p, now) /\ CrossingReported(m, x, p)
       /\ emits => Crosses(Len(m), Cardinality(Tunnels(m)))
    <2> HIDE DEF s, l, m, p, rep
    <2>1. /\ x.start = w.start /\ x.packets = w.packets + 1
          /\ x.teids = IF Cardinality(w.teids) < MaxTunnelsPerSource
                       THEN w.teids \cup {e.teid} ELSE w.teids
        BY <1>5, <1>6, <1>9, Zenon
    <2>2. emits <=> Fires(w, x, now)
        BY <1>5, <1>9, Zenon DEF Fires, Emits, emits
    <2>3. CountsTo(w, x, e, now) /\ p = IF Fires(w, x, now) THEN now ELSE rep
        BY <1>9, <1>11, <2>1, <2>2, Zenon DEF CountsTo
    <2>4. /\ LogOK(m, now) /\ Fits(m, x, p, now) /\ CrossingReported(m, x, p)
          /\ Fires(w, x, now) => Crosses(Len(m), Cardinality(Tunnels(m)))
        BY <1>1, <1>3, <1>6, <1>11, <2>3, CountFits, Zenon
    <2> QED BY <2>2, <2>4, Zenon
<1>13. srcReported' \in [Source -> Nat \cup {Never}]
    BY <1>1, <1>10, Zenon DEF FloodInv
<1>14. s \in DOMAIN sources' /\ sources'[s] = x
    BY <1>10, Zenon DEF Set, Without
<1>15. ASSUME NEW r \in Source, r # s
       PROVE  srcReported'[r] = srcReported[r] /\ LogOK(log'[r], now) /\ TrackedOK(r)'
    <2>1. srcReported'[r] = srcReported[r] /\ LogOK(log[r], now) /\ TrackedOK(r)
        BY <1>10, <1>15, Zenon DEF FloodInv
    <2>2. CASE r \in gone
        <3>1. r \notin DOMAIN sources' /\ log'[r] = <<>>
            BY <1>10, <1>15, <2>2, Zenon DEF Set, Without
        <3>2. LogOK(<<>>, now)
            BY DEF LogOK
        <3> QED BY <2>1, <3>1, <3>2, Zenon DEF TrackedOK
    <2>3. CASE r \notin gone
        <3>1. /\ log'[r] = log[r]
              /\ r \in DOMAIN sources' <=> r \in DOMAIN sources
              /\ r \in DOMAIN sources => sources'[r] = sources[r]
            BY <1>10, <1>15, <2>3, Zenon DEF Set, Without
        <3> QED BY <2>1, <3>1, Zenon DEF TrackedOK
    <2> QED BY <2>2, <2>3, Zenon
<1>16. ASSUME NEW r \in Source
       PROVE  srcReported'[r] <= now /\ LogOK(log'[r], now) /\ TrackedOK(r)'
    <2>1. CASE r = s
        <3>1. p <= now
            BY <1>1, <1>11
        <3> QED BY <1>12, <1>14, <2>1, <3>1, Zenon DEF TrackedOK
    <2>2. CASE r # s
        BY <1>15, <2>2, Zenon DEF FloodInv
    <2> QED BY <2>1, <2>2, Zenon
<1>17. FloodInv'
    BY <1>1, <1>13, <1>16, Zenon DEF FloodInv
<1>18. RealReports
    BY <1>11, <1>12, <1>15, Zenon DEF RealReports
<1> QED BY <1>17, <1>18, Zenon

LEMMA TickStep ==
    ASSUME FloodInv, DetectTick PROVE FloodInv' /\ RealReports
<1>1. /\ now \in Nat /\ now' = now + 1 /\ UNCHANGED <<sources, srcReported>>
      /\ log' = [s \in Source |-> Younger(log[s], now')]
    BY Zenon DEF FloodInv, DetectTick
<1>2. ASSUME NEW s \in Source
      PROVE  srcReported'[s] <= now' /\ LogOK(log[s], now)' /\ TrackedOK(s)'
    <2> DEFINE l == log[s]
               m == log'[s]
               u == now'
               rep == srcReported[s]
    <2>1. LogOK(l, now) /\ TrackedOK(s) /\ rep <= now /\ rep \in Nat \cup {Never}
        BY Zenon DEF FloodInv
    <2>2. u = now + 1 /\ m = Younger(l, u)
        BY <1>1, Zenon
    <2> HIDE DEF l, m, u, rep
    <2>3. PICK k \in 0 .. Len(l) : Drops(l, m, k, u)
        BY <1>1, <2>1, <2>2, YoungerIs, Zenon
    <2>4. srcReported'[s] <= u
        BY <1>1, <2>1, <2>2 DEF rep, Never
    <2>5. LogOK(m, u)
        BY <1>1, <2>1, <2>2, <2>3, TickLog, Zenon
    <2>6. CASE s \in DOMAIN sources
        <3>1. Fits(l, sources[s], rep, now) /\ CrossingReported(l, sources[s], rep)
            BY <2>1, <2>6, Zenon DEF TrackedOK, l, rep
        <3>2. Fits(m, sources[s], rep, u) /\ CrossingReported(m, sources[s], rep)
            BY <1>1, <2>1, <2>2, <2>3, <3>1, TickFits
        <3>3. TrackedOK(s)'
            BY <1>1, <2>6, <3>2, Zenon DEF TrackedOK, m, u, rep
        <3> QED BY <2>4, <2>5, <3>3, Zenon DEF m, u
    <2>7. CASE s \notin DOMAIN sources
        <3>1. l = <<>>
            BY <2>1, <2>7, Zenon DEF TrackedOK, l
        <3>2. m = <<>>
            BY <2>3, <3>1 DEF Drops
        <3>3. TrackedOK(s)'
            BY <1>1, <2>7, <3>2, Zenon DEF TrackedOK, m
        <3> QED BY <2>4, <2>5, <3>3 DEF m, u
    <2> QED BY <2>6, <2>7, Zenon
<1>3. FloodInv'
    BY <1>1, <1>2 DEF FloodInv
<1> QED BY <1>1, <1>3, Zenon DEF RealReports

-----------------------------------------------------------------------------
(* The publisher runs the rules. *)

publishing == <<detectVars, busVars, publisherVars>>

LEMMA FloodStep ==
    ASSUME FloodInv, [PublisherNext]_publishing PROVE FloodInv' /\ RealReports
<1>1. CASE UNCHANGED <<now, sourceVars>>
    BY <1>1, Zenon DEF FloodInv, TrackedOK, RealReports, sourceVars
<1>2. ASSUME NEW evt \in Packet, Receive(evt), Observes(evt) PROVE FloodInv' /\ RealReports
    <2>1. evt.teid \in TEID
        BY <1>2, PublisherAssumption, Zenon DEF Observes
    <2>2. Observe(evt) /\ now' = now
        BY <1>2, Zenon DEF Receive, EvaluateSource
    <2> QED BY <1>2, <2>1, <2>2, ObserveStep, Zenon
<1>3. CASE PublisherTick
    BY <1>3, TickStep, Zenon DEF PublisherTick
<1>4. ASSUME NEW evt \in Packet, Receive(evt), ~Observes(evt) PROVE UNCHANGED <<now, sourceVars>>
    BY <1>4, Zenon DEF Receive, EvaluateSource
<1>5. CASE Drop \/ TickerFlush \/ Stop \/ PublisherConnect \/ UNCHANGED publishing
    BY <1>1, <1>5, Zenon
       DEF Drop, TickerFlush, Stop, FlushRest, PublisherConnect, publishing, detectVars
<1> QED BY <1>1, <1>2, <1>3, <1>4, <1>5, Zenon DEF PublisherNext

LEMMA TunnelStep ==
    ASSUME TunnelInv, [PublisherNext]_publishing PROVE TunnelInv'
<1>1. CASE UNCHANGED tunnelVars /\ now' \in Nat
    <2>1. RingOK'
        BY <1>1, Zenon DEF TunnelInv, RingOK, Filled, Age, tunnelVars
    <2>2. MemoryOK'
        BY <1>1, Zenon DEF TunnelInv, MemoryOK, tunnelVars
    <2> QED BY <1>1, <2>1, <2>2, Zenon DEF TunnelInv
<1>2. ASSUME NEW evt \in Packet, Receive(evt), TunnelDue(evt) PROVE TunnelInv'
    <2>1. TunnelOf(evt) \in Tunnel
        BY <1>2, PublisherAssumption, Zenon DEF TunnelDue, IsFlood, TunnelOf, Tunnel
    <2>2. Claim(TunnelOf(evt)) /\ now' = now
        BY <1>2, Zenon DEF Receive, EvaluateTunnel
    <2> QED BY <2>1, <2>2, RefreshStep, EnterStep, Zenon DEF Claim
<1>3. ASSUME NEW evt \in Packet, Receive(evt), ~TunnelDue(evt)
      PROVE  UNCHANGED <<now, tunnelVars>>
    BY <1>3, Zenon DEF Receive, EvaluateTunnel
<1>4. CASE PublisherTick
    <2>1. UNCHANGED tunnelVars /\ now' \in Nat
        BY <1>4 DEF PublisherTick, DetectTick, TunnelInv
    <2> QED BY <1>1, <2>1, Zenon
<1>5. now \in Nat
    BY Zenon DEF TunnelInv
<1>6. CASE Drop \/ TickerFlush \/ Stop \/ PublisherConnect \/ UNCHANGED publishing
    BY <1>1, <1>5, <1>6, Zenon
       DEF Drop, TickerFlush, Stop, FlushRest, PublisherConnect, publishing, detectVars
<1> QED BY <1>1, <1>2, <1>3, <1>4, <1>5, <1>6, Zenon DEF PublisherNext

LEMMA Start ==
    ASSUME DetectInit PROVE TunnelInv /\ FloodInv
<1>1. Capacity \in Nat \ {0}
    BY DetectFacts, Zenon
<1>2. DOMAIN lastFired = {} /\ DOMAIN sources = {} /\ now = 0 /\ next = 0
    BY DEF DetectInit
<1>3. IsFiniteSet({}) /\ Cardinality({}) = 0
    BY FS_EmptySet, Zenon
<1>4. Filled = {}
    BY <1>1, <1>2, <1>3 DEF Filled
<1>5. RingOK
    BY <1>1, <1>2, <1>3, <1>4 DEF RingOK, DetectInit
<1>6. MemoryOK
    BY <1>2, Zenon DEF MemoryOK, DetectInit
<1>7. FloodInv
    BY <1>2 DEF FloodInv, DetectInit, LogOK, TrackedOK, Never
<1> QED BY <1>2, <1>5, <1>6, <1>7, Zenon DEF TunnelInv

LEMMA FloodInvariance == PublisherSpec => [](TunnelInv /\ FloodInv)
<1>1. IngestInit => TunnelInv /\ FloodInv
    BY Start, Zenon DEF IngestInit
<1>2. TunnelInv /\ FloodInv /\ [PublisherNext]_publishing => (TunnelInv /\ FloodInv)'
    BY TunnelStep, FloodStep, Zenon
<1> QED BY <1>1, <1>2, PTL DEF PublisherSpec, publishing

\* The map and the ring of the tunnel rule evict the same tunnel, whatever the
\* capacity: a report is forgotten after a full turn of the ring and no sooner.
THEOREM Remembered == PublisherSpec => []ReportsAreRemembered
<1>1. TunnelInv => ReportsAreRemembered
    <2> SUFFICES ASSUME TunnelInv, NEW t \in Tunnel
                 PROVE  IF reported[t] # Never /\ newer[t] < Capacity
                        THEN t \in DOMAIN lastFired /\ lastFired[t] = reported[t]
                        ELSE t \notin DOMAIN lastFired
        BY Zenon DEF ReportsAreRemembered
    <2>1. Capacity \in Nat \ {0} /\ newer[t] \in Nat
        BY DetectFacts, Zenon DEF TunnelInv, MemoryOK
    <2>2. CASE t \in DOMAIN lastFired
        <3>1. PICK i \in Filled : t = order[i]
            BY <2>2, Zenon DEF TunnelInv, RingOK
        <3>2. newer[t] = Age(i) /\ i \in 0 .. Capacity - 1 /\ next \in 0 .. Capacity - 1
            BY <2>1, <3>1 DEF TunnelInv, RingOK, Filled
        <3>3. newer[t] < Capacity
            BY <2>1, <3>2 DEF Age
        <3> QED BY <2>2, <3>3, Zenon DEF TunnelInv, MemoryOK
    <2>3. CASE t \notin DOMAIN lastFired
        BY <2>1, <2>3 DEF TunnelInv, MemoryOK
    <2> QED BY <2>2, <2>3, Zenon
<1> QED BY <1>1, FloodInvariance, PTL

\* The source rule reports no source whose packets or tunnels within the last
\* Window do not reach a threshold, for every threshold and window.
THEOREM ReportsAreReal == PublisherSpec => SourceReportIsReal
<1>1. RealReports => \A s \in Source : srcReported'[s] # srcReported[s] =>
        Crosses(Len(log'[s]), Cardinality(Distinct(s)'))
    BY Zenon DEF RealReports, Distinct, Tunnels
<1>2. TunnelInv /\ FloodInv /\ [PublisherNext]_publishing =>
        [\A s \in Source : srcReported'[s] # srcReported[s] =>
            Crosses(Len(log'[s]), Cardinality(Distinct(s)'))]_detectVars
    BY <1>1, FloodStep, Zenon
<1> QED BY <1>2, FloodInvariance, PTL DEF PublisherSpec, SourceReportIsReal, publishing

\* A source that sent twice a threshold within a Window was reported at most a
\* cooldown and a window ago, for every threshold, window and cooldown.
THEOREM FloodsAreReported == PublisherSpec => []SustainedFloodIsReported
<1>1. FloodInv => SustainedFloodIsReported
    <2> SUFFICES ASSUME FloodInv, NEW s \in Source, Sustained(log[s])
                 PROVE  /\ srcReported[s] # Never
                        /\ now - srcReported[s] < SourceCooldown + Window
        BY Zenon DEF SustainedFloodIsReported, Sustained, Distinct, Tunnels
    <2>1. /\ LogOK(log[s], now) /\ TrackedOK(s) /\ now \in Nat
          /\ srcReported[s] \in Nat \cup {Never}
        BY DEF FloodInv
    <2>2. Len(log[s]) > 0
        BY <2>1, SustainedLogged, Zenon
    <2>3. /\ Fits(log[s], sources[s], srcReported[s], now)
          /\ CrossingReported(log[s], sources[s], srcReported[s])
        BY <2>1, <2>2 DEF TrackedOK
    <2> QED BY <2>1, <2>2, <2>3, SustainedReported, Zenon
<1> QED BY <1>1, FloodInvariance, PTL
=============================================================================
