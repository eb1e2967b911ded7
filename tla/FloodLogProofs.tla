--------------------------- MODULE FloodLogProofs ---------------------------
(***************************************************************************)
(* What the window of a tracked source says of the packets the source sent *)
(* in the last Window: how rolling the window, counting a packet and the   *)
(* passing of time keep the two in step, and why a flood was reported.     *)
(***************************************************************************)
EXTENDS Detect, FiniteSetTheorems, TLAPS

(* The SMT solver may take its time on a leaf that names no prover. *)
USE SMTT(60)

LEMMA DetectFacts ==
    /\ Capacity \in Nat \ {0} /\ Window \in Nat \ {0} /\ SourceCooldown \in Nat \ {0}
    /\ MaxTunnelsPerSource \in Nat \ {0}
    /\ SourcePPS \in Nat /\ DistinctTunnels \in Nat
BY DetectAssumption

-----------------------------------------------------------------------------
(* The source rule: the log and the window of a tracked source. *)

Logged == [at : Nat, teid : TEID]

SourceWindow ==
    [start : Nat, packets : Nat, teids : SUBSET TEID, lastFired : Nat \cup {Never}]

Tunnels(l) == {l[i].teid : i \in DOMAIN l}

\* The last packets of a log l are those of the window w, the others older.
Before(l, w) == Len(l) - w.packets

Older(l, w) == {l[i].teid : i \in {j \in DOMAIN l : j <= Before(l, w)}}

Current(l, w) == {l[i].teid : i \in {j \in DOMAIN l : j > Before(l, w)}}

Floods(packets, distinct) ==
    \/ SourcePPS > 0 /\ packets >= SourcePPS
    \/ DistinctTunnels \in 1 .. MaxTunnelsPerSource /\ distinct >= DistinctTunnels

\* The last report, at rep, was less than a cooldown before packet i.
ReportedNear(l, i, rep) == rep # Never /\ l[i].at - rep < SourceCooldown

\* A window's packets and tunnels are those of the log, unless it is over.
Placed(l, w, t) ==
    /\ w \in SourceWindow /\ IsFiniteSet(w.teids) /\ w.start <= t
    /\ \A i \in DOMAIN l : /\ l[i].at - w.start < Window
                           /\ i > Before(l, w) <=> l[i].at >= w.start
    /\ t - w.start < Window => w.packets <= Len(l) /\ w.teids \subseteq Current(l, w)
    /\ Current(l, w) \subseteq w.teids \/ Cardinality(w.teids) >= MaxTunnelsPerSource

\* The packets before a window come from one earlier window, which was
\* reported if they are a flood.
FloodReported(l, w, rep) ==
    Before(l, w) > 0 /\ Floods(Before(l, w), Cardinality(Older(l, w))) =>
        ReportedNear(l, Before(l, w), rep)

Fits(l, w, rep, t) ==
    /\ Placed(l, w, t) /\ FloodReported(l, w, rep)
    /\ w.lastFired # Never => w.lastFired = rep

CrossingReported(l, w, rep) ==
    Len(l) > 0 /\ Crosses(w.packets, Cardinality(w.teids)) => ReportedNear(l, Len(l), rep)

\* Packets are logged in order of time and forgotten after a Window.
LogOK(l, t) ==
    /\ l \in Seq(Logged)
    /\ \A i \in DOMAIN l : l[i].at <= t /\ t - l[i].at < Window
    /\ \A i, j \in DOMAIN l : i <= j => l[i].at <= l[j].at

-----------------------------------------------------------------------------
\* The entries of a log are records of a time and a tunnel.
LEMMA Entry ==
    ASSUME NEW l \in Seq(Logged), NEW i \in DOMAIN l
    PROVE  /\ Len(l) \in Nat /\ i \in 1 .. Len(l)
           /\ l[i] \in Logged /\ l[i].at \in Nat /\ l[i].teid \in TEID
<1>1. Len(l) \in Nat /\ i \in 1 .. Len(l) /\ l[i] \in Logged
    OBVIOUS
<1> QED BY <1>1 DEF Logged

\* The tunnels of some of a log's packets are finitely many.
LEMMA TunnelsFinite ==
    ASSUME NEW l \in Seq(Logged), NEW I \in SUBSET (DOMAIN l)
    PROVE  IsFiniteSet({l[i].teid : i \in I})
<1>1. DOMAIN l = 1 .. Len(l) /\ Len(l) \in Nat
    OBVIOUS
<1>2. IsFiniteSet(1 .. Len(l))
    BY <1>1, FS_Interval
<1>3. IsFiniteSet(I)
    BY <1>1, <1>2, FS_Subset
<1> DEFINE f == [i \in I |-> l[i].teid]
<1>4. f \in Surjection(I, {l[i].teid : i \in I})
    BY DEF Surjection
<1> QED BY <1>3, <1>4, FS_Surjection

LEMMA PartsFinite ==
    ASSUME NEW l \in Seq(Logged), NEW w \in SourceWindow
    PROVE  /\ IsFiniteSet(Older(l, w)) /\ IsFiniteSet(Current(l, w))
           /\ IsFiniteSet(Tunnels(l)) /\ Tunnels(l) = Older(l, w) \cup Current(l, w)
<1>1. IsFiniteSet(Older(l, w)) /\ IsFiniteSet(Current(l, w)) /\ IsFiniteSet(Tunnels(l))
    BY TunnelsFinite, Zenon DEF Older, Current, Tunnels
<1>2. Tunnels(l) = Older(l, w) \cup Current(l, w)
    <2>1. Len(l) \in Nat /\ DOMAIN l \subseteq Nat /\ w.packets \in Nat
        BY DEF SourceWindow
    <2>2. \A i \in DOMAIN l : i <= Before(l, w) \/ i > Before(l, w)
        BY <2>1 DEF Before
    <2> QED BY <2>2 DEF Tunnels, Older, Current
<1> QED BY <1>1, <1>2

LEMMA WindowType ==
    ASSUME NEW w \in SourceWindow
    PROVE  /\ w.start \in Nat /\ w.packets \in Nat /\ w.teids \subseteq TEID
           /\ w.lastFired \in Nat \cup {Never}
BY DEF SourceWindow

LEMMA NewFits ==
    ASSUME now \in Nat, NEW l, l = <<>>, NEW rep
    PROVE  Fits(l, NewWindow, rep, now) /\ CrossingReported(l, NewWindow, rep)
<1>1. NewWindow \in SourceWindow
    BY DEF NewWindow, SourceWindow
<1>2. /\ NewWindow.start = now /\ NewWindow.packets = 0 /\ NewWindow.teids = {}
      /\ NewWindow.lastFired = Never
    BY DEF NewWindow
<1>3. Len(l) = 0 /\ DOMAIN l = {}
    OBVIOUS
<1>4. Before(l, NewWindow) = 0
    BY <1>2, <1>3 DEF Before
<1>5. Current(l, NewWindow) = {}
    BY <1>3 DEF Current
<1>6. IsFiniteSet({})
    BY FS_EmptySet
<1>7. Fits(l, NewWindow, rep, now)
    BY <1>1, <1>2, <1>3, <1>4, <1>5, <1>6 DEF Fits, Placed, FloodReported
<1> QED BY <1>3, <1>7 DEF CrossingReported

\* When a window is over, what the log holds is of that window alone.
LEMMA RollFits ==
    ASSUME now \in Nat, NEW l, LogOK(l, now), NEW rep,
           NEW w, Fits(l, w, rep, now), CrossingReported(l, w, rep)
    PROVE  Fits(l, Roll(w), rep, now) /\ now - Roll(w).start < Window
<1> DEFINE L == Len(l)
           r == [w EXCEPT !.start = now, !.packets = 0, !.teids = {}]
<1>1. w \in SourceWindow /\ Window \in Nat \ {0} /\ l \in Seq(Logged) /\ L \in Nat
    BY DetectFacts DEF Fits, Placed, FloodReported, LogOK
<1>2. CASE now - w.start < Window
    BY <1>2 DEF Roll
<1>3. CASE ~(now - w.start < Window)
    <2>1. Roll(w) = r
        BY <1>3 DEF Roll
    <2>2. /\ r.start = now /\ r.packets = 0 /\ r.teids = {} /\ r.lastFired = w.lastFired
          /\ r \in SourceWindow
        BY <1>1, Zenon DEF SourceWindow
    <2> HIDE DEF r
    <2>3. ASSUME NEW i \in DOMAIN l
          PROVE  l[i].at < now /\ i <= L /\ i > Before(l, w) /\ i \in Nat
        <3>1. now - l[i].at < Window /\ l[i].at - w.start < Window
            BY DEF LogOK, Fits, Placed
        <3>2. l[i].at \in Nat /\ w.start \in Nat /\ i \in 1 .. L
            BY <1>1, Entry, WindowType, Zenon
        <3>3. l[i].at >= w.start /\ l[i].at < now
            BY <1>1, <1>3, <3>1, <3>2
        <3> QED BY <1>1, <3>2, <3>3 DEF Fits, Placed, FloodReported
    <2>4. Before(l, r) = L
        BY <1>1, <2>2 DEF Before
    <2>5. Current(l, r) = {}
        BY <1>1, <2>3, <2>4 DEF Current
    <2>6. Older(l, r) = Current(l, w)
        BY <2>3, <2>4, Zenon DEF Older, Current
    <2>7. ASSUME L > 0, Floods(L, Cardinality(Older(l, r))) PROVE ReportedNear(l, L, rep)
        <3>1. L <= w.packets
            <4>1. 1 \in DOMAIN l
                BY <1>1, <2>7
            <4>2. 1 > L - w.packets /\ w.packets \in Nat
                BY <1>1, <2>3, <4>1, WindowType, Zenon DEF Before
            <4> QED BY <1>1, <4>2
        <3>2. ASSUME DistinctTunnels \in 1 .. MaxTunnelsPerSource,
                     Cardinality(Older(l, r)) >= DistinctTunnels
              PROVE  Cardinality(w.teids) >= DistinctTunnels
            <4>1. IsFiniteSet(w.teids) /\ Cardinality(w.teids) \in Nat
                BY FS_CardinalityType DEF Fits, Placed, FloodReported
            <4>2. CASE Current(l, w) \subseteq w.teids
                <5>1. Cardinality(Current(l, w)) <= Cardinality(w.teids)
                    BY <4>1, <4>2, FS_Subset, Zenon
                <5>2. Cardinality(Current(l, w)) \in Nat
                    BY <1>1, PartsFinite, FS_CardinalityType, Zenon
                <5> QED BY <2>6, <3>2, <4>1, <5>1, <5>2
            <4>3. CASE Cardinality(w.teids) >= MaxTunnelsPerSource
                BY <3>2, <4>1, <4>3, DetectFacts
            <4> QED BY <4>2, <4>3, Zenon DEF Fits, Placed, FloodReported
        <3>3. Crosses(w.packets, Cardinality(w.teids))
            <4>1. w.packets \in Nat
                BY <1>1, WindowType
            <4>2. CASE SourcePPS > 0 /\ L >= SourcePPS
                BY <1>1, <3>1, <4>1, <4>2, DetectFacts DEF Crosses
            <4>3. CASE /\ DistinctTunnels \in 1 .. MaxTunnelsPerSource
                       /\ Cardinality(Older(l, r)) >= DistinctTunnels
                BY <3>2, <4>3, DetectFacts DEF Crosses
            <4> QED BY <2>7, <4>2, <4>3 DEF Floods
        <3> QED BY <2>7, <3>3 DEF CrossingReported
    <2>8. \A i \in DOMAIN l : /\ l[i].at - r.start < Window
                              /\ i > Before(l, r) <=> l[i].at >= r.start
        BY <1>1, <2>2, <2>3, <2>4, Entry
    <2>9. Fits(l, r, rep, now)
        <3>1. IsFiniteSet(r.teids) /\ r.start <= now
            BY <2>2, FS_EmptySet
        <3>2. r.lastFired # Never => r.lastFired = rep
            BY <2>2, Zenon DEF Fits, Placed, FloodReported
        <3>3. r.packets <= Len(l) /\ r.teids \subseteq Current(l, r)
            BY <1>1, <2>2
        <3>4. FloodReported(l, r, rep)
            BY <2>4, <2>7, Zenon DEF FloodReported
        <3>5. r \in SourceWindow /\ Current(l, r) \subseteq r.teids
            BY <2>2, <2>5, Zenon
        <3>6. Placed(l, r, now)
            BY <2>8, <3>1, <3>3, <3>5, Zenon DEF Placed
        <3> QED BY <3>2, <3>4, <3>6, Zenon DEF Fits
    <2> QED BY <1>1, <2>1, <2>2, <2>9
<1> QED BY <1>2, <1>3, Zenon

-----------------------------------------------------------------------------
\* A packet counted in an unexpired window is the last of the log.
Lengthens(l, w, e, m, x) ==
    /\ Len(m) = Len(l) + 1 /\ DOMAIN m = DOMAIN l \cup {Len(m)} /\ m[Len(m)] = e
    /\ \A i \in DOMAIN l : m[i] = l[i] /\ i < Len(m)
    /\ Before(m, x) = Before(l, w) /\ Before(l, w) \in 0 .. Len(l)
    /\ Older(m, x) = Older(l, w) /\ Current(m, x) = Current(l, w) \cup {e.teid}

LEMMA Counts ==
    ASSUME NEW l \in Seq(Logged), NEW e \in Logged, NEW m, m = Append(l, e),
           NEW w \in SourceWindow, w.packets <= Len(l),
           NEW x \in SourceWindow, x.packets = w.packets + 1
    PROVE  Lengthens(l, w, e, m, x)
<1> DEFINE L == Len(l)
           M == Len(m)
           B == Before(l, w)
<1>1. L \in Nat /\ w.packets \in Nat
    BY WindowType
<1>3. /\ Len(m) = L + 1 /\ DOMAIN l = 1 .. L /\ DOMAIN m = 1 .. L + 1
      /\ m[L + 1] = e /\ \A i \in 1 .. L : m[i] = l[i]
    BY <1>1
<1>4. Before(l, w) = L - w.packets /\ Before(m, x) = Before(l, w)
    <2>1. \A a, b \in Nat : (a + 1) - (b + 1) = a - b
        OBVIOUS
    <2>2. Len(m) - x.packets = L - w.packets
        BY <1>1, <1>3, <2>1, Zenon
    <2> QED BY <2>2, Zenon DEF Before
<1>5. Before(l, w) \in 0 .. L
    BY <1>1, <1>4
<1>6. Older(m, x) = Older(l, w)
    <2> DEFINE I == {j \in DOMAIN l : j <= Before(l, w)}
    <2>1. {j \in DOMAIN m : j <= Before(l, w)} = I
        BY <1>1, <1>3, <1>5
    <2>2. Older(m, x) = {m[i].teid : i \in I}
        BY <1>4, <2>1, Zenon DEF Older
    <2>3. \A i \in I : m[i] = l[i]
        BY <1>3
    <2> HIDE DEF I
    <2>4. {m[i].teid : i \in I} = {l[i].teid : i \in I}
        BY <2>3, Zenon
    <2> QED BY <2>2, <2>4, Zenon DEF Older, I
<1>7. Current(m, x) = Current(l, w) \cup {e.teid}
    <2> DEFINE J == {j \in DOMAIN l : j > B}
    <2>1. {j \in DOMAIN m : j > B} = J \cup {L + 1}
        BY <1>1, <1>3, <1>5
    <2>2. Current(m, x) = {m[i].teid : i \in J \cup {L + 1}}
        BY <1>4, <2>1, Zenon DEF Current
    <2>3. (\A i \in J : m[i] = l[i]) /\ m[L + 1] = e
        BY <1>3
    <2> HIDE DEF J
    <2>4. {m[i].teid : i \in J \cup {L + 1}} = {l[i].teid : i \in J} \cup {e.teid}
        BY <2>3, Zenon
    <2> QED BY <2>2, <2>4, Zenon DEF Current, J
<1>8. M = L + 1 /\ DOMAIN m = DOMAIN l \cup {M} /\ m[M] = e
    BY <1>1, <1>3
<1>9. \A i \in DOMAIN l : m[i] = l[i] /\ i < M
    BY <1>1, <1>3, <1>8
<1>10. Before(m, x) = B /\ B \in 0 .. L
    BY <1>4, <1>5
<1> QED BY <1>6, <1>7, <1>8, <1>9, <1>10, Zenon DEF Lengthens

LEMMA MoreCrosses ==
    ASSUME NEW a \in Nat, NEW b \in Nat, Crosses(a, b),
           NEW c \in Nat, a <= c, NEW d \in Nat, b <= d
    PROVE  Crosses(c, d)
BY DetectFacts DEF Crosses

Fires(w, x, t) ==
    /\ Crosses(x.packets, Cardinality(x.teids))
    /\ w.lastFired = Never \/ t - w.lastFired >= SourceCooldown

\* The window x is w after the packet e at time t.
CountsTo(w, x, e, t) ==
    /\ x \in SourceWindow /\ x.start = w.start /\ x.packets = w.packets + 1
    /\ x.teids = IF Cardinality(w.teids) < MaxTunnelsPerSource
                 THEN w.teids \cup {e.teid} ELSE w.teids
    /\ x.lastFired = IF Fires(w, x, t) THEN t ELSE w.lastFired

\* Counting the packet, and reporting where the rule does, keeps the invariant,
\* and what is reported is in the log.
LEMMA CountFits ==
    ASSUME NEW t \in Nat, NEW l, LogOK(l, t), NEW rep \in Nat \cup {Never}, rep <= t,
           NEW w, Fits(l, w, rep, t), t - w.start < Window,
           NEW e \in Logged, e.at = t, NEW m, m = Append(l, e),
           NEW x, CountsTo(w, x, e, t), NEW p, p = IF Fires(w, x, t) THEN t ELSE rep
    PROVE  /\ LogOK(m, t) /\ Fits(m, x, p, t) /\ CrossingReported(m, x, p)
           /\ Fires(w, x, t) => Crosses(Len(m), Cardinality(Tunnels(m)))
<1> USE DEF CountsTo
<1> DEFINE L == Len(l)
           M == Len(m)
           B == Before(l, w)
<1>1. /\ w \in SourceWindow /\ l \in Seq(Logged) /\ L \in Nat /\ w.packets <= L
      /\ Window \in Nat \ {0} /\ SourceCooldown \in Nat \ {0}
      /\ MaxTunnelsPerSource \in Nat \ {0} /\ IsFiniteSet(w.teids)
    BY DetectFacts DEF Fits, Placed, FloodReported, LogOK
<1>2. /\ w.start \in Nat /\ w.packets \in Nat /\ w.teids \subseteq TEID
      /\ w.lastFired \in Nat \cup {Never} /\ w.start <= t
    BY <1>1, WindowType, Zenon DEF Fits, Placed, FloodReported
<1>5. /\ M = L + 1 /\ DOMAIN m = DOMAIN l \cup {M} /\ m[M] = e
      /\ \A i \in DOMAIN l : m[i] = l[i] /\ i < M
      /\ Before(m, x) = B /\ B \in 0 .. L
      /\ Older(m, x) = Older(l, w) /\ Current(m, x) = Current(l, w) \cup {e.teid}
    <2>1. Lengthens(l, w, e, m, x)
        BY <1>1, Counts, Zenon
    <2> QED BY <2>1, Zenon DEF Lengthens
<1>6. m[M].at = t
    BY <1>5, Zenon
<1>7. DOMAIN l = 1 .. L /\ \A i \in DOMAIN l : l[i].at \in Nat
    BY <1>1, Entry
<1>8. LogOK(m, t)
    <2>1. ASSUME NEW i \in DOMAIN m
          PROVE  m[i].at <= t /\ t - m[i].at < Window
        BY <1>1, <1>5, <1>6, <1>7 DEF LogOK
    <2>2. ASSUME NEW i \in DOMAIN m, NEW j \in DOMAIN m, i <= j
          PROVE  m[i].at <= m[j].at
        <3>1. CASE j = M
            BY <1>6, <2>1, <3>1, Zenon
        <3>2. CASE j \in DOMAIN l
            <4>1. i \in DOMAIN l
                BY <1>1, <1>5, <1>7, <2>2, <3>2
            <4> QED BY <1>5, <2>2, <3>2, <4>1, Zenon DEF LogOK
        <3> QED BY <1>5, <3>1, <3>2, Zenon
    <2>3. m \in Seq(Logged)
        BY <1>1
    <2> QED BY <2>1, <2>2, <2>3, Zenon DEF LogOK
<1>9. IsFiniteSet(x.teids) /\ Cardinality(x.teids) \in Nat
    <2>1. IsFiniteSet(w.teids \cup {e.teid})
        BY <1>1, FS_AddElement, Zenon
    <2>2. IsFiniteSet(x.teids)
        BY <1>1, <2>1, Zenon
    <2> QED BY <2>2, FS_CardinalityType
<1>10. Fires(w, x, t) => Crosses(x.packets, Cardinality(x.teids))
    BY Zenon DEF Fires
<1>11. Crosses(x.packets, Cardinality(x.teids)) => ReportedNear(m, M, p)
    <2> SUFFICES ASSUME Crosses(x.packets, Cardinality(x.teids))
                 PROVE  p # Never /\ t - p < SourceCooldown
        BY <1>6, Zenon DEF ReportedNear
    <2>1. CASE Fires(w, x, t)
        BY <1>1, <2>1 DEF Never
    <2>2. CASE ~Fires(w, x, t)
        <3>1. w.lastFired # Never /\ t - w.lastFired < SourceCooldown
            <4>1. w.lastFired # Never /\ ~(t - w.lastFired >= SourceCooldown)
                BY <2>2, Zenon DEF Fires
            <4>2. \A a, b, c \in Int : ~(a - b >= c) => a - b < c
                OBVIOUS
            <4>3. t \in Int /\ w.lastFired \in Int /\ SourceCooldown \in Int
                BY <1>1, <1>2, <4>1
            <4> QED BY <4>1, <4>2, <4>3, Zenon
        <3>2. w.lastFired = rep
            BY <3>1, Zenon DEF Fits, Placed, FloodReported
        <3> QED BY <2>2, <3>1, <3>2, Zenon
    <2> QED BY <2>1, <2>2, Zenon
<1>12. CrossingReported(m, x, p)
    BY <1>11, Zenon DEF CrossingReported
<1>13. ASSUME NEW i \in DOMAIN m
       PROVE  /\ m[i].at - x.start < Window
              /\ i > Before(m, x) <=> m[i].at >= x.start
    <2>1. CASE i = M
        <3>1. M > Before(m, x) /\ t >= w.start
            BY <1>1, <1>2, <1>5
        <3> QED BY <1>6, <2>1, <3>1, Zenon
    <2>2. CASE i \in DOMAIN l
        BY <1>5, <2>2, Zenon DEF Fits, Placed, FloodReported
    <2> QED BY <1>5, <2>1, <2>2, Zenon
<1>14. x.packets <= M /\ x.teids \subseteq Current(m, x)
    <2>1. w.packets <= L /\ w.teids \subseteq Current(l, w)
        BY Zenon DEF Fits, Placed, FloodReported
    <2>2. x.packets <= M
        BY <1>1, <1>2, <1>5, <2>1
    <2>3. x.teids \subseteq w.teids \cup {e.teid}
        BY Zenon
    <2> QED BY <1>5, <2>1, <2>2, <2>3, Zenon
<1>15. Current(m, x) \subseteq x.teids \/ Cardinality(x.teids) >= MaxTunnelsPerSource
    <2>1. Cardinality(w.teids) \in Nat
        BY <1>1, FS_CardinalityType, Zenon
    <2>2. CASE Cardinality(w.teids) >= MaxTunnelsPerSource
        BY <1>1, <2>1, <2>2
    <2>3. CASE Cardinality(w.teids) < MaxTunnelsPerSource
        <3>1. Current(l, w) \subseteq w.teids
            BY <1>1, <2>1, <2>3 DEF Fits, Placed, FloodReported
        <3> QED BY <1>5, <2>3, <3>1, Zenon
    <2> QED BY <1>1, <2>1, <2>2, <2>3
<1>16. B > 0 /\ Floods(B, Cardinality(Older(l, w))) => ReportedNear(m, B, p)
    <2> SUFFICES ASSUME B > 0, Floods(B, Cardinality(Older(l, w)))
                 PROVE  ReportedNear(m, B, p)
        BY Zenon
    <2>1. B \in DOMAIN l /\ ReportedNear(l, B, rep)
        BY <1>1, <1>5, <1>7 DEF Fits, Placed, FloodReported
    <2>2. m[B].at = l[B].at /\ l[B].at <= t /\ l[B].at \in Nat
        BY <1>5, <1>7, <2>1, Zenon DEF LogOK
    <2> QED BY <1>1, <2>1, <2>2 DEF ReportedNear, Never
<1>17. x.lastFired # Never => x.lastFired = p
    BY DEF Fits, Placed, FloodReported
<1>18. x.start <= t
    BY <1>2, Zenon
<1>19. Fits(m, x, p, t)
    BY <1>5, <1>9, <1>13, <1>14, <1>15, <1>16, <1>17, <1>18, Zenon DEF Fits, Placed, FloodReported
<1>20. Fires(w, x, t) => Crosses(M, Cardinality(Tunnels(m)))
    <2>1. IsFiniteSet(Tunnels(m)) /\ Current(m, x) \subseteq Tunnels(m)
        BY <1>8, PartsFinite, Zenon DEF LogOK
    <2>2. Cardinality(x.teids) <= Cardinality(Tunnels(m))
        BY <1>14, <2>1, FS_Subset, Zenon
    <2>3. Cardinality(Tunnels(m)) \in Nat
        BY <2>1, FS_CardinalityType, Zenon
    <2>4. x.packets \in Nat /\ x.packets <= Len(m) /\ Len(m) \in Nat
        BY <1>2, <1>14
    <2> QED BY <1>9, <1>10, <2>2, <2>3, <2>4, MoreCrosses, Zenon
<1> QED BY <1>8, <1>12, <1>19, <1>20, Zenon

-----------------------------------------------------------------------------
\* A set of numbers that has an element has a least one.
LEMMA Least ==
    ASSUME NEW S \in SUBSET Nat, S # {}
    PROVE  \E p \in S : \A q \in S : p <= q
<1> DEFINE R == OpToRel(<, Nat)
<1>1. PICK p \in S : \A q \in S : <<q, p>> \notin R
    BY NatLessThanWellFounded, WFMin, Zenon
<1>2. ASSUME NEW q \in S PROVE p <= q
    <2>1. q \in Nat /\ p \in Nat
        OBVIOUS
    <2>2. q < p => <<q, p>> \in R
        BY <2>1 DEF OpToRel
    <2>3. ~(q < p)
        BY <1>1, <2>2, Zenon
    <2> QED BY <2>1, <2>3
<1> QED BY <1>2

\* Dropping k elements of a sequence.
LEMMA Dropped ==
    ASSUME NEW S, NEW l \in Seq(S), NEW k \in 0 .. Len(l)
    PROVE  /\ SubSeq(l, k + 1, Len(l)) \in Seq(S)
           /\ Len(SubSeq(l, k + 1, Len(l))) = Len(l) - k
           /\ \A i \in 1 .. Len(l) - k : SubSeq(l, k + 1, Len(l))[i] = l[i + k]
<1>1. Len(l) \in Nat /\ k \in Nat /\ k <= Len(l)
    OBVIOUS
<1>2. SubSeq(l, k + 1, Len(l)) \in Seq(S)
    BY <1>1
<1>3. \A i \in 1 .. Len(l) - k : SubSeq(l, k + 1, Len(l))[i] = l[i + k]
    BY <1>1
<1>4. DOMAIN SubSeq(l, k + 1, Len(l)) = 1 .. Len(l) - k
    BY <1>1
<1>5. Len(SubSeq(l, k + 1, Len(l))) = Len(l) - k
    BY <1>1, <1>2, <1>4
<1> QED BY <1>2, <1>3, <1>5, Zenon

\* Time passes: what is left, m, of a log l is all but its k packets that are
\* a Window old at time u.
Drops(l, m, k, u) ==
    /\ m \in Seq(Logged) /\ Len(m) = Len(l) - k
    /\ \A i \in DOMAIN m : i + k \in DOMAIN l /\ m[i] = l[i + k]
    /\ \A i \in DOMAIN l : i > k <=> u - l[i].at < Window

LEMMA YoungerIs ==
    ASSUME NEW t \in Nat, NEW u, u = t + 1, NEW l, LogOK(l, t)
    PROVE  \E k \in 0 .. Len(l) : Drops(l, Younger(l, u), k, u)
<1> DEFINE Splits(k) == \A i \in DOMAIN l : i > k <=> u - l[i].at < Window
           Y == {i \in DOMAIN l : u - l[i].at < Window}
<1>1. /\ l \in Seq(Logged) /\ Len(l) \in Nat /\ DOMAIN l = 1 .. Len(l)
      /\ Window \in Nat \ {0}
    BY DetectFacts DEF LogOK
<1>2. \A i \in DOMAIN l : l[i].at \in Nat
    BY <1>1, Entry, Zenon
<1>3. \E k \in 0 .. Len(l) : Splits(k)
    <2>1. CASE Y = {}
        <3>1. Splits(Len(l))
            BY <1>1, <2>1
        <3> QED BY <1>1, <3>1
    <2>2. CASE Y # {}
        <3>1. PICK i \in Y : \A j \in Y : i <= j
            <4>1. Y \subseteq Nat
                BY <1>1
            <4> HIDE DEF Y
            <4> QED BY <2>2, <4>1, Least, Zenon
        <3>2. i \in 1 .. Len(l) /\ \A j \in Y : i <= j
            BY <1>1, <3>1, Zenon
        <3>3. Splits(i - 1)
            <4> SUFFICES ASSUME NEW j \in DOMAIN l
                         PROVE  j > i - 1 <=> u - l[j].at < Window
                BY Zenon
            <4>1. ASSUME j > i - 1 PROVE u - l[j].at < Window
                <5>1. i <= j /\ i \in DOMAIN l /\ u - l[i].at < Window
                    BY <1>1, <3>2, <4>1
                <5>2. l[i].at <= l[j].at
                    BY <5>1, Zenon DEF LogOK
                <5> QED BY <1>1, <1>2, <5>1, <5>2
            <4>2. ASSUME u - l[j].at < Window PROVE j > i - 1
                BY <1>1, <3>2, <4>2
            <4> QED BY <4>1, <4>2, Zenon
        <3>4. i - 1 \in 0 .. Len(l)
            BY <1>1, <3>2
        <3> HIDE DEF Splits
        <3> QED BY <3>3, <3>4, Zenon
    <2> QED BY <2>1, <2>2, Zenon
<1>4. Old(l, u) \in 0 .. Len(l) /\ Splits(Old(l, u))
    <2>1. Old(l, u) = CHOOSE k \in 0 .. Len(l) : Splits(k)
        BY Zenon DEF Old
    <2> HIDE DEF Splits
    <2> QED BY <1>3, <2>1, Zenon
<1>5. Drops(l, Younger(l, u), Old(l, u), u)
    <2> DEFINE k == Old(l, u)
               m == SubSeq(l, k + 1, Len(l))
    <2>1. k \in 0 .. Len(l) /\ Splits(k)
        BY <1>4
    <2> HIDE DEF k
    <2>2. /\ m \in Seq(Logged) /\ Len(m) = Len(l) - k
          /\ \A i \in 1 .. Len(l) - k : m[i] = l[i + k]
        BY <1>1, <2>1, Dropped, Zenon
    <2> HIDE DEF m
    <2>3. \A i \in DOMAIN m : i + k \in DOMAIN l /\ m[i] = l[i + k]
        BY <1>1, <2>1, <2>2
    <2>4. Younger(l, u) = m
        BY DEF Younger, m, k
    <2> QED BY <2>1, <2>2, <2>3, <2>4, Zenon DEF Drops, k
<1> QED BY <1>4, <1>5, Zenon

\* What the tick leaves of a log: a window's part of it, and what came before.
LEMMA Suffix ==
    ASSUME NEW l \in Seq(Logged), NEW k \in 0 .. Len(l), NEW u, NEW m, Drops(l, m, k, u),
           NEW w \in SourceWindow
    PROVE  /\ Before(m, w) = Before(l, w) - k /\ Before(l, w) \in Int
           /\ \A i \in DOMAIN m : /\ i > Before(m, w) <=> i + k > Before(l, w)
                                  /\ i <= Before(m, w) <=> i + k <= Before(l, w)
           /\ Current(m, w) \subseteq Current(l, w) /\ Older(m, w) \subseteq Older(l, w)
<1>1. /\ Len(l) \in Nat /\ w.packets \in Nat /\ k \in Nat
      /\ Len(m) = Len(l) - k /\ DOMAIN m \subseteq Nat
    BY WindowType DEF Drops
<1>2. Before(m, w) = Before(l, w) - k /\ Before(l, w) \in Int
    BY <1>1 DEF Before
<1>3. \A i \in DOMAIN m : /\ i > Before(m, w) <=> i + k > Before(l, w)
                          /\ i <= Before(m, w) <=> i + k <= Before(l, w)
    <2>1. \A b, i \in Int : (i > b - k <=> i + k > b) /\ (i <= b - k <=> i + k <= b)
        BY <1>1
    <2> QED BY <1>1, <1>2, <2>1
<1>4. ASSUME NEW i \in DOMAIN m PROVE i + k \in DOMAIN l /\ m[i] = l[i + k]
    BY Zenon DEF Drops
<1>5. Current(m, w) \subseteq Current(l, w)
    BY <1>3, <1>4, Zenon DEF Current
<1>6. Older(m, w) \subseteq Older(l, w)
    BY <1>3, <1>4, Zenon DEF Older
<1> QED BY <1>2, <1>3, <1>5, <1>6, Zenon

LEMMA TickLog ==
    ASSUME NEW t \in Nat, NEW u, u = t + 1, NEW l, LogOK(l, t),
           NEW k \in 0 .. Len(l), NEW m, Drops(l, m, k, u)
    PROVE  LogOK(m, u)
<1>1. /\ l \in Seq(Logged) /\ m \in Seq(Logged) /\ k \in Nat
      /\ \A i \in DOMAIN m : i + k \in DOMAIN l /\ m[i] = l[i + k]
      /\ \A i \in DOMAIN l : i > k <=> u - l[i].at < Window
    BY DEF LogOK, Drops
<1>2. ASSUME NEW i \in DOMAIN m PROVE i \in Nat \ {0} /\ i + k > k
    BY <1>1
<1>3. ASSUME NEW i \in DOMAIN m PROVE m[i].at <= u /\ u - m[i].at < Window
    <2>1. i + k \in DOMAIN l /\ l[i + k].at \in Nat
        BY <1>1, Entry
    <2>2. l[i + k].at <= t
        BY <2>1, Zenon DEF LogOK
    <2> QED BY <1>1, <1>2, <2>1, <2>2
<1>4. ASSUME NEW i \in DOMAIN m, NEW j \in DOMAIN m, i <= j PROVE m[i].at <= m[j].at
    <2>1. i + k <= j + k
        BY <1>1, <1>2, <1>4
    <2> QED BY <1>1, <2>1, Zenon DEF LogOK
<1> QED BY <1>1, <1>3, <1>4, Zenon DEF LogOK

\* A window fits what the tick leaves of its log.
LEMMA TickFits ==
    ASSUME NEW t \in Nat, NEW u, u = t + 1, NEW l, LogOK(l, t), NEW rep,
           NEW w, Fits(l, w, rep, t), CrossingReported(l, w, rep),
           NEW k \in 0 .. Len(l), NEW m, Drops(l, m, k, u)
    PROVE  Fits(m, w, rep, u) /\ CrossingReported(m, w, rep)
<1>1. /\ l \in Seq(Logged) /\ Len(l) \in Nat /\ DOMAIN l = 1 .. Len(l) /\ k \in Nat
      /\ w \in SourceWindow /\ w.start \in Nat /\ w.packets \in Nat
    BY WindowType DEF LogOK, Fits, Placed
<1>2. /\ m \in Seq(Logged) /\ Len(m) = Len(l) - k /\ Len(m) \in Nat
      /\ DOMAIN m = 1 .. Len(m)
    BY <1>1 DEF Drops
<1>3. ASSUME NEW i \in DOMAIN m PROVE i + k \in DOMAIN l /\ m[i] = l[i + k]
    BY DEF Drops
<1>4. /\ Before(m, w) = Before(l, w) - k /\ Before(l, w) \in Int
      /\ \A i \in DOMAIN m : i > Before(m, w) <=> i + k > Before(l, w)
      /\ Current(m, w) \subseteq Current(l, w) /\ Older(m, w) \subseteq Older(l, w)
    BY <1>1, Suffix, ZenonT(60)
<1>5. ASSUME NEW i \in DOMAIN m
      PROVE  /\ m[i].at - w.start < Window
             /\ i > Before(m, w) <=> m[i].at >= w.start
    <2>1. /\ l[i + k].at - w.start < Window
          /\ i + k > Before(l, w) <=> l[i + k].at >= w.start
        BY <1>3, Zenon DEF Fits, Placed
    <2> QED BY <1>3, <1>4, <2>1, Zenon
<1>6. ASSUME u - w.start < Window
      PROVE  w.packets <= Len(m) /\ w.teids \subseteq Current(m, w)
    <2>1. t - w.start < Window
        BY <1>1, <1>6, DetectFacts
    <2>2. w.packets <= Len(l) /\ w.teids \subseteq Current(l, w)
        BY <2>1 DEF Fits, Placed
    <2>3. ASSUME NEW i \in DOMAIN l, i > Before(l, w) PROVE i > k
        <3>1. l[i].at >= w.start /\ l[i].at \in Nat
            BY <1>1, <2>3, Entry, Zenon DEF Fits, Placed
        <3>2. \A a, b, c, d \in Nat : c - a < d /\ b >= a => c - b < d
            OBVIOUS
        <3>3. u \in Nat /\ Window \in Nat
            BY DetectFacts
        <3>4. u - l[i].at < Window
            BY <1>1, <1>6, <3>1, <3>2, <3>3, Zenon
        <3> QED BY <3>4, Zenon DEF Drops
    <2>4. k <= Before(l, w)
        <3> SUFFICES ASSUME k > Before(l, w) PROVE FALSE
            BY <1>1, <1>4
        <3>1. Before(l, w) >= 0
            BY <1>1, <2>2 DEF Before
        <3>2. k \in DOMAIN l
            BY <1>1, <1>4, <3>1
        <3> QED BY <1>1, <2>3, <3>2
    <2>5. w.packets <= Len(m)
        BY <1>1, <1>2, <2>4 DEF Before
    <2>6. ASSUME NEW i \in DOMAIN l, i > Before(l, w) PROVE l[i].teid \in Current(m, w)
        <3>1. i - k \in DOMAIN m /\ (i - k) + k = i
            BY <1>1, <1>2, <2>3, <2>6
        <3>2. i - k > Before(m, w) /\ m[i - k] = l[i]
            BY <1>3, <1>4, <2>6, <3>1, Zenon
        <3> QED BY <3>1, <3>2, Zenon DEF Current
    <2>7. Current(l, w) \subseteq Current(m, w)
        BY <2>6, Zenon DEF Current
    <2> QED BY <2>2, <2>5, <2>7, Zenon
<1>7. Placed(m, w, u)
    <2>1. /\ Current(l, w) \subseteq w.teids \/ Cardinality(w.teids) >= MaxTunnelsPerSource
          /\ IsFiniteSet(w.teids) /\ w.start <= t
        BY Zenon DEF Fits, Placed
    <2>2. w.start <= u
        BY <1>1, <2>1
    <2> QED BY <1>1, <1>4, <1>5, <1>6, <2>1, <2>2, Zenon DEF Placed
<1>8. ASSUME Before(m, w) > 0, Floods(Before(m, w), Cardinality(Older(m, w)))
      PROVE  ReportedNear(m, Before(m, w), rep)
    <2>1. Before(l, w) > 0 /\ Before(m, w) <= Before(l, w) /\ Before(m, w) \in Nat
        BY <1>1, <1>4, <1>8
    <2>2. Cardinality(Older(m, w)) <= Cardinality(Older(l, w))
        BY <1>1, <1>4, PartsFinite, FS_Subset, Zenon
    <2>3. Cardinality(Older(m, w)) \in Nat /\ Cardinality(Older(l, w)) \in Nat
        BY <1>1, <1>2, PartsFinite, FS_CardinalityType, Zenon
    <2>4. Floods(Before(l, w), Cardinality(Older(l, w)))
        BY <1>4, <1>8, <2>1, <2>2, <2>3, DetectFacts DEF Floods
    <2>5. ReportedNear(l, Before(l, w), rep)
        BY <2>1, <2>4, Zenon DEF Fits, FloodReported
    <2>6. Before(m, w) <= Len(m)
        BY <1>1, <1>2 DEF Before
    <2>7. Before(m, w) \in DOMAIN m /\ Before(m, w) + k = Before(l, w)
        BY <1>1, <1>2, <1>4, <2>1, <2>6, <1>8
    <2> QED BY <1>3, <2>5, <2>7, Zenon DEF ReportedNear
<1>9. CrossingReported(m, w, rep)
    <2> SUFFICES ASSUME Len(m) > 0, Crosses(w.packets, Cardinality(w.teids))
                 PROVE  ReportedNear(m, Len(m), rep)
        BY Zenon DEF CrossingReported
    <2>1. Len(m) \in DOMAIN m /\ Len(m) + k = Len(l) /\ Len(l) > 0
        BY <1>1, <1>2
    <2>2. ReportedNear(l, Len(l), rep)
        BY <2>1, Zenon DEF CrossingReported
    <2> QED BY <1>3, <2>1, <2>2, Zenon DEF ReportedNear
<1> QED BY <1>7, <1>8, <1>9, Zenon DEF Fits, FloodReported

-----------------------------------------------------------------------------
\* Twice a threshold in a Window: the packets before the window w, or those in
\* it, are a flood of their own.
Sustained(l) ==
    \/ SourcePPS > 0 /\ Len(l) >= 2 * SourcePPS - 1
    \/ /\ DistinctTunnels \in 1 .. MaxTunnelsPerSource
       /\ Cardinality(Tunnels(l)) >= 2 * DistinctTunnels - 1

LEMMA SustainedLogged ==
    ASSUME NEW t, NEW l, LogOK(l, t), Sustained(l) PROVE Len(l) > 0
<1>1. Len(l) \in Nat
    BY DEF LogOK
<1> SUFFICES ASSUME Len(l) = 0 PROVE FALSE
    BY <1>1
<1>2. Tunnels(l) = {} /\ Cardinality({}) = 0
    BY FS_EmptySet DEF Tunnels, LogOK
<1> QED BY <1>2, DetectFacts DEF Sustained

LEMMA SustainedReported ==
    ASSUME NEW t \in Nat, NEW l, LogOK(l, t), Len(l) > 0, NEW rep \in Nat \cup {Never},
           NEW w, Fits(l, w, rep, t), CrossingReported(l, w, rep), Sustained(l)
    PROVE  rep # Never /\ t - rep < SourceCooldown + Window
<1> DEFINE L == Len(l)
           B == Before(l, w)
           O == Older(l, w)
           C == Current(l, w)
<1>1. /\ l \in Seq(Logged) /\ L \in Nat /\ DOMAIN l = 1 .. L
      /\ w \in SourceWindow /\ w.packets \in Nat /\ IsFiniteSet(w.teids)
      /\ Cardinality(w.teids) \in Nat /\ B = L - w.packets
    <2>1. l \in Seq(Logged)
        BY Zenon DEF LogOK
    <2>2. w \in SourceWindow /\ IsFiniteSet(w.teids)
        BY DEF Fits, Placed
    <2>3. w.packets \in Nat /\ Cardinality(w.teids) \in Nat
        BY <2>2, WindowType, FS_CardinalityType, Zenon
    <2> QED BY <2>1, <2>2, <2>3 DEF Before
<1>2. \/ B > 0 /\ Floods(B, Cardinality(O))
      \/ Crosses(w.packets, Cardinality(w.teids))
    <2>1. CASE SourcePPS > 0 /\ L >= 2 * SourcePPS - 1
        <3>1. B >= SourcePPS \/ w.packets >= SourcePPS
            BY <1>1, <2>1, DetectFacts
        <3> QED BY <1>1, <2>1, <3>1, DetectFacts DEF Floods, Crosses
    <2>2. CASE /\ DistinctTunnels \in 1 .. MaxTunnelsPerSource
               /\ Cardinality(Tunnels(l)) >= 2 * DistinctTunnels - 1
        <3>1. IsFiniteSet(O) /\ IsFiniteSet(C) /\ Tunnels(l) = O \cup C
            BY <1>1, PartsFinite
        <3>2. ~(B > 0) => Cardinality(O) = 0
            <4>1. ~(B > 0) => O = {}
                BY <1>1 DEF Older
            <4> QED BY <4>1, FS_EmptySet, Zenon
        <3>3. C \subseteq w.teids \/ Cardinality(w.teids) >= MaxTunnelsPerSource
            BY DEF Fits, Placed
        <3> HIDE DEF O, C
        <3>4. /\ Cardinality(O) \in Nat /\ Cardinality(C) \in Nat
              /\ Cardinality(O \cap C) \in Nat
              /\ Cardinality(O \cup C) = Cardinality(O) + Cardinality(C) - Cardinality(O \cap C)
            BY <3>1, FS_Union, FS_CardinalityType, FS_Intersection, Zenon
        <3>5. Cardinality(O) >= DistinctTunnels \/ Cardinality(C) >= DistinctTunnels
            <4>1. \A a, b, c, n \in Nat : a + b - c >= 2 * n - 1 => a >= n \/ b >= n
                OBVIOUS
            <4>2. Cardinality(O) + Cardinality(C) - Cardinality(O \cap C)
                    >= 2 * DistinctTunnels - 1
                BY <2>2, <3>1, <3>4, Zenon
            <4> QED BY <3>4, <4>1, <4>2, DetectFacts, Zenon
        <3>6. CASE Cardinality(O) >= DistinctTunnels
            BY <2>2, <3>2, <3>4, <3>6, DetectFacts DEF Floods
        <3>7. CASE Cardinality(C) >= DistinctTunnels
            <4>1. C \subseteq w.teids => Cardinality(C) <= Cardinality(w.teids)
                BY <1>1, FS_Subset, Zenon
            <4>2. Cardinality(w.teids) >= DistinctTunnels
                <5>1. \A a, b, n \in Nat : b >= n /\ (b <= a \/ a >= b) => a >= n
                    OBVIOUS
                <5>2. MaxTunnelsPerSource \in Nat /\ MaxTunnelsPerSource >= DistinctTunnels
                    BY <2>2, DetectFacts
                <5>3. CASE C \subseteq w.teids
                    BY <1>1, <3>4, <3>7, <4>1, <5>1, <5>3, DetectFacts, Zenon
                <5>4. CASE Cardinality(w.teids) >= MaxTunnelsPerSource
                    BY <1>1, <5>1, <5>2, <5>4, DetectFacts, Zenon
                <5> QED BY <3>3, <5>3, <5>4, Zenon
            <4> QED BY <2>2, <4>2, DetectFacts DEF Crosses
        <3> QED BY <3>5, <3>6, <3>7, Zenon
    <2> QED BY <2>1, <2>2, Zenon DEF Sustained
<1>3. PICK i \in DOMAIN l : ReportedNear(l, i, rep)
    <2>1. CASE B > 0 /\ Floods(B, Cardinality(O))
        BY <1>1, <2>1 DEF Fits, FloodReported
    <2>2. CASE Crosses(w.packets, Cardinality(w.teids))
        BY <1>1, <2>2 DEF CrossingReported
    <2> QED BY <1>2, <2>1, <2>2, Zenon
<1>4. l[i].at \in Nat /\ t - l[i].at < Window
    BY <1>1, Entry, Zenon DEF LogOK
<1> QED BY <1>3, <1>4, DetectFacts DEF ReportedNear, Never
=============================================================================
