-------------------------- MODULE PacketReportProofs -------------------------
(***************************************************************************)
(* Proofs about what the packet filter reports, for any number of CPUs,    *)
(* any traffic and any interleaving of the runs: a port scan is real, and  *)
(* a record of a GTP-U packet is marked malformed exactly when its header  *)
(* is unsound and carries the tunnel and the rate that go with it.         *)
(*                                                                         *)
(* What parse_gtpu's loop over the extension headers computes is shown by  *)
(* induction over its turns. That is over a set of naturals and rests on   *)
(* WFMin: the library's induction rules have a predicate as a parameter,   *)
(* WFMin has none.                                                         *)
(***************************************************************************)
EXTENDS PacketFilterProofs, WellFoundedInduction

(* The SMT solver may take its time on a leaf that names no prover. *)
USE SMTT(60)

-----------------------------------------------------------------------------
(* Port scans are real. *)

\* The first port of a window was tried within it. Where one queue's packets
\* reach the entry so were all its ports, and they are distinct.
HasPorts(s, e) ==
    /\ e.count >= 1 /\ e.ports[0] \in PortsTried(s, e.start)
    /\ SoleQueue(s) =>
        /\ e.count <= MultiportThreshold
        /\ \A i \in 0 .. e.count - 1 : e.ports[i] \in PortsTried(s, e.start)
        /\ \A i, j \in 0 .. e.count - 1 : e.ports[i] = e.ports[j] => i = j

\* What a run has in hand has such ports, and while it is live the entry is
\* still of the same window.
PortRun(c) ==
    cpu[c].pc = "ports" /\ cpu[c].stage # "look" =>
        \A e \in cpu[c].seen :
            /\ HasPorts(Slot(c), e)
            /\ cpu[c].live => /\ table[Slot(c)].start = e.start
                              /\ SoleQueue(Slot(c)) => table[Slot(c)] = e

IsReal(s, start) ==
    /\ \E p, q \in PortsTried(s, start) : p # q
    /\ SoleQueue(s) => Injection(Ports, PortsTried(s, start)) # {}

RealReports ==
    \A s \in DOMAIN reports : IsPortScan(s) =>
        \A start \in Range(reports[s]) : IsReal(s, start)

PortInv ==
    /\ \A s \in DOMAIN table : IsPortScan(s) => HasPorts(s, table[s])
    /\ \A c \in CPU : PortRun(c)
    /\ RealReports

\* Ports that were tried stay tried.
LEMMA PortsKept ==
    ASSUME node' = node, touched \subseteq touched', NEW s, NEW start
    PROVE  /\ PortsTried(s, start) \subseteq PortsTried(s, start)'
           /\ SoleQueue(s)' <=> SoleQueue(s)
           /\ IsReal(s, start) => IsReal(s, start)'
<1>1. PortsTried(s, start) \subseteq PortsTried(s, start)'
    BY DEF PortsTried
<1>2. SoleQueue(s)' <=> SoleQueue(s)
    BY DEF SoleQueue
<1>3. \A S, T : S \subseteq T /\ Injection(Ports, S) # {} => Injection(Ports, T) # {}
    BY DEF Injection
<1>. QED
    BY <1>1, <1>2, <1>3, Zenon DEF IsReal

LEMMA HasPortsKept ==
    ASSUME node' = node, touched \subseteq touched', NEW s, NEW e, HasPorts(s, e)
    PROVE  HasPorts(s, e)'
BY PortsKept, Zenon DEF HasPorts

LEMMA RealReportsKept ==
    ASSUME node' = node, touched \subseteq touched', IsLog(reports), RealReports,
           NEW s, NEW t \in Nat,
           \/ reports' = reports
           \/ reports' = Record(reports, s, t) /\ (IsPortScan(s) => IsReal(s, t)')
    PROVE  RealReports'
<1>1. CASE reports' = reports
    BY <1>1, PortsKept, Zenon DEF RealReports, IsPortScan
<1>2. CASE reports' = Record(reports, s, t) /\ (IsPortScan(s) => IsReal(s, t)')
    <2>. SUFFICES ASSUME NEW r \in DOMAIN reports', IsPortScan(r),
                         NEW u \in Range(reports'[r])
                  PROVE  IsReal(r, u)'
        BY Zenon DEF RealReports, IsPortScan
    <2>1. CASE r # s
        <3>1. r \in DOMAIN reports /\ reports'[r] = reports[r]
            BY <1>2, <2>1, Zenon DEF Record
        <3>. QED
            BY <3>1, PortsKept, Zenon DEF RealReports
    <2>2. CASE r = s
        <3>. DEFINE old == Logged(reports, s)
        <3>1. old \in Seq(Nat) /\ reports'[s] = Append(old, t)
            BY <1>2, RecordFacts, Zenon DEF Record
        <3>2. s \in DOMAIN reports => old = reports[s]
            BY DEF Logged
        <3>3. s \notin DOMAIN reports => Range(old) = {}
            BY DEF Logged, Range
        <3>4. u = t \/ u \in Range(old)
            BY <2>2, <3>1 DEF Range
        <3>. HIDE DEF old
        <3>. QED
            BY <1>2, <2>2, <3>2, <3>3, <3>4, PortsKept, Zenon DEF RealReports
    <2>. QED
        BY <2>1, <2>2, Zenon
<1>. QED
    BY <1>1, <1>2, Zenon

LEMMA TouchedGrows ==
    ASSUME [FilterNext]_filterVars
    PROVE  touched \subseteq touched'
<1>1. ASSUME NEW c \in CPU, xdp_packet_filter(c)
      PROVE  touched \subseteq touched'
    <2>1. CASE \E p \in node.traffic : ReceiveIPv4(c, p) \/ ReceiveIPv6(c, p)
        BY <2>1, Zenon DEF ReceiveIPv4, ReceiveIPv6, Begin, history
    <2>2. CASE CheckTunnel(c) \/ Look(c) \/ Roll(c)
        BY <2>2, Zenon DEF CheckTunnel, Look, Roll, history
    <2>3. CASE emit_signaling_event(c) \/ emit_signaling_event_v6(c)
        BY <2>3, Zenon DEF emit_signaling_event, emit_signaling_event_v6, Emit, history
    <2>4. CASE CountSource(c) \/ CountTunnel(c) \/ CountScan(c)
        BY <2>2, <2>4, Zenon DEF CountSource, CountTunnel, CountScan, Traces
    <2>5. CASE TouchPort(c)
        BY <2>2, <2>5, Zenon DEF TouchPort
    <2>. QED
        BY <1>1, <2>1, <2>2, <2>3, <2>4, <2>5, Zenon
        DEF xdp_packet_filter, track_signal_rate, track_signal_rate_v6,
            track_tunnel_rate, track_tunnel_rate_v6, track_scan_rate,
            track_scan_rate_v6, track_port_scan, track_port_scan_v6
<1>2. CASE \/ \E f \in {4, 6} : ReadEvent(f)
           \/ \E k \in Source \cup Tunnel : Block(k) \/ Unblock(k)
           \/ \E s \in DOMAIN table : Evict(s)
           \/ FilterTick \/ UNCHANGED filterVars
    BY <1>2, Zenon
       DEF ReadEvent, Block, Unblock, Evict, FilterTick, filterVars, history
<1>. QED
    BY <1>1, <1>2, Zenon DEF FilterNext

\* A run that looks at ports is at an entry of the port scan maps.
LEMMA PortSlot ==
    ASSUME FilterType, NEW c \in CPU, cpu[c].pc \in Tracking
    PROVE  /\ IsPortScan(Slot(c)) <=> cpu[c].pc = "ports"
           /\ c \in node.queues[Slot(c)[2]]
<1>1. cpu[c].pkt \in Packet /\ c \in node.queues[cpu[c].pkt.source]
    BY Zenon DEF FilterType, RunInv, Tracking
<1>. QED
    BY <1>1, SlotFacts, Zenon DEF Slot

PortTable(s) == IsPortScan(s) => HasPorts(s, table[s])

\* Of a step, what the run itself, its entry and the runs at it must keep.
LEMMA PortFrame ==
    ASSUME FilterType, PortInv, NEW c \in CPU, Moves(c),
           touched \subseteq touched', RealReports', PortRun(c)',
           \A s \in DOMAIN table' : s = Slot(c) => PortTable(s)',
           \A d \in CPU \ {c} :
                /\ cpu[d].pc = "ports" /\ cpu[d].stage # "look"
                /\ cpu'[d].live /\ cpu[d].seen # {} /\ Slot(d) = Slot(c)
                => /\ table'[Slot(d)].start = table[Slot(d)].start
                   /\ ~SoleQueue(Slot(d)) \/ table'[Slot(d)] = table[Slot(d)]
    PROVE  PortInv'
<1>1. /\ node' = node /\ DOMAIN table' \subseteq DOMAIN table \cup {Slot(c)}
      /\ \A s \in DOMAIN table : s # Slot(c) => table'[s] = table[s]
    BY DEF Moves
<1>2. ASSUME NEW s \in DOMAIN table', s # Slot(c)
      PROVE  PortTable(s)'
    <2>1. s \in DOMAIN table /\ table'[s] = table[s]
        BY <1>1, <1>2, Zenon
    <2>2. IsPortScan(s) => HasPorts(s, table[s])
        BY <2>1, Zenon DEF PortInv
    <2>. QED
        BY <1>1, <2>1, <2>2, HasPortsKept, Zenon DEF PortTable
<1>3. ASSUME NEW d \in CPU \ {c}
      PROVE  PortRun(d)'
    <2>1. /\ cpu'[d].pc = cpu[d].pc /\ cpu'[d].stage = cpu[d].stage
          /\ cpu'[d].seen = cpu[d].seen /\ (cpu'[d].live => cpu[d].live)
          /\ Slot(d)' = Slot(d)
        BY <1>3, Zenon DEF Moves, Bystander
    <2>. SUFFICES ASSUME cpu[d].pc = "ports", cpu[d].stage # "look",
                         NEW e \in cpu[d].seen, NEW s, s = Slot(d)
                  PROVE  /\ HasPorts(s, e)'
                         /\ cpu'[d].live => /\ table'[s].start = e.start
                                            /\ SoleQueue(s)' => table'[s] = e
        BY <2>1, ZenonT(60) DEF PortRun
    <2>2. /\ HasPorts(s, e)
          /\ cpu[d].live => /\ table[s].start = e.start
                            /\ SoleQueue(s) => table[s] = e
        BY <1>3, Zenon DEF PortInv, PortRun
    <2>3. HasPorts(s, e)' /\ (SoleQueue(s)' <=> SoleQueue(s))
        BY <1>1, <2>2, HasPortsKept, PortsKept, Zenon
    <2>4. cpu[d].live => s \in DOMAIN table
        BY <1>3, Zenon DEF FilterType, RunInv
    <2>. QED
        BY <1>1, <1>3, <2>1, <2>2, <2>3, <2>4, Zenon
<1>. QED
    BY <1>2, <1>3, Zenon DEF PortInv, PortTable

\* A window that begins has the port of the packet that begins it.
LEMMA FirstHasPorts ==
    ASSUME FilterType, NEW c \in CPU, cpu[c].pc = "ports", NEW s, s = Slot(c),
           Tried(c) \in touched', NEW e, e = FirstPort(c).entry
    PROVE  HasPorts(s, e)'
<1>1. cpu[c].now \in Nat /\ MultiportWindow \in Nat /\ 0 \in Ports
      /\ MultiportThreshold \in Nat \ {0, 1}
    BY FilterAssumption DEF FilterType, Run, Ports
<1>2. e.start = cpu[c].now /\ e.count = 1 /\ e.ports[0] = cpu[c].pkt.port
    BY <1>1, Zenon DEF FirstPort
<1>3. e.ports[0] \in PortsTried(s, e.start)'
    BY <1>1, <1>2 DEF Tried, PortsTried
<1>4. \A i \in 0 .. e.count - 1 : i = 0
    BY <1>2
<1>. QED
    BY <1>1, <1>2, <1>3, <1>4 DEF HasPorts

\* A time at which a window is open is one of the window.
LEMMA OpenWindow ==
    ASSUME NEW t \in Nat, NEW a \in Nat, NEW W \in Nat, ~Expired(t, a, W)
    PROVE  t \in a .. a + W
BY DEF Expired

\* Where the next port of a list of n goes, and where those before it are.
LEMMA PortIndices ==
    ASSUME NEW n \in Nat, n >= 1, NEW M \in Nat, n < M
    PROVE  /\ n \in 0 .. M - 1 /\ 0 \in (0 .. M - 1) \ {n}
           /\ \A i \in 0 .. n - 1 : i \in (0 .. M - 1) \ {n}
           /\ \A i \in 0 .. n : i \in 0 .. n - 1 \/ i = n
           /\ n + 1 <= M /\ (n + 1 = M => 0 .. M - 1 = 0 .. n)
OBVIOUS

\* One more port of a window: it is not the first one, and where one queue's
\* packets reach the entry it is none of those before it.
LEMMA NextHasPorts ==
    ASSUME FilterType, FilterType', PortInv, node' = node,
           NEW c \in CPU, touched' = touched \cup {Tried(c)},
           cpu[c].pc = "ports", cpu[c].stage # "look",
           NEW s, s = Slot(c), NEW d \in cpu[c].seen,
           NEW w, w = Current(c, d), NEW n \in {d.count, w.count},
           ~Expired(cpu[c].now, d.start, MultiportWindow),
           NEW port, port = cpu[c].pkt.port, IsNewPort(d, port),
           NEW e, e = NextPort(c, d, n).entry
    PROVE  /\ HasPorts(s, e)' /\ e.start = w.start
           /\ e.start \in Nat
           /\ n + 1 = MultiportThreshold => IsReal(s, e.start)'
<1>. DEFINE b == w.emitted \/ n + 1 = MultiportThreshold
<1>1. /\ cpu[c].now \in Nat /\ MultiportWindow \in Nat
      /\ MultiportThreshold \in Nat \ {0, 1} /\ Ports = 0 .. MultiportThreshold - 1
    BY FilterAssumption, Zenon DEF FilterType, Run, Ports
<1>2. /\ d \in PortEntry /\ w \in PortEntry
      /\ cpu[c].live => s \in DOMAIN table
    <2>1. /\ cpu[c].seen \subseteq Entry(s) /\ IsPortScan(s)
          /\ cpu[c].live => s \in DOMAIN table
        BY PortSlot, Zenon DEF FilterType, RunInv, Tracking
    <2>. QED
        BY <2>1, Zenon DEF FilterType, TableInv, Entry, Current
<1>3. /\ HasPorts(s, d)
      /\ cpu[c].live => table[s].start = d.start /\ (SoleQueue(s) => table[s] = d)
    BY Zenon DEF PortInv, PortRun
<1>4. HasPorts(s, w) /\ w.start = d.start /\ (SoleQueue(s) => w = d)
    <2>1. cpu[c].live => HasPorts(s, table[s])
        BY <1>2, PortSlot, Zenon DEF PortInv, Tracking
    <2>. QED
        BY <1>3, <2>1, ZenonT(60) DEF Current
<1>5. e = Entered(w, d.count, port, n, b)
    BY Zenon DEF NextPort, Entered
<1>. HIDE DEF b
<1>6. /\ e.start = d.start /\ e.count = n + 1
      /\ e.ports = [w.ports EXCEPT ![d.count] = port]
    <2>1. /\ e.start = w.start /\ e.count = n + 1
          /\ e.ports = [w.ports EXCEPT ![d.count] = port]
        BY <1>2, <1>5, Zenon DEF Entered, PortEntry
    <2>. QED
        BY <1>4, <2>1, Zenon
<1>7. /\ HasPorts(s, d)' /\ HasPorts(s, w)' /\ (SoleQueue(s)' <=> SoleQueue(s))
    BY <1>3, <1>4, HasPortsKept, PortsKept, Zenon
<1>8. port \in PortsTried(s, d.start)'
    <2>1. cpu[c].now \in d.start .. d.start + MultiportWindow
        BY <1>1, <1>2, OpenWindow, Zenon DEF PortEntry
    <2>. QED
        BY <2>1, ZenonT(60) DEF Tried, PortsTried
<1>9. /\ w.ports \in [Ports -> Port \cup SignalingPort \cup {NoPort}]
      /\ d.count \in Nat /\ n \in Nat
      /\ d.count >= 1 /\ n >= 1 /\ d.start \in Nat
    BY <1>2, <1>3, <1>4, Zenon DEF PortEntry, HasPorts
<1>10. d.count < MultiportThreshold /\ \A i \in 0 .. d.count - 1 : d.ports[i] # port
    BY Zenon DEF IsNewPort
<1>11. /\ d.count \in Ports /\ 0 \in Ports \ {d.count}
       /\ \A i \in 0 .. d.count - 1 : i \in Ports \ {d.count}
       /\ \A i \in 0 .. d.count : i \in 0 .. d.count - 1 \/ i = d.count
       /\ d.count + 1 <= MultiportThreshold
       /\ d.count + 1 = MultiportThreshold => Ports = 0 .. d.count
       /\ e.ports[d.count] = port
       /\ \A i \in Ports \ {d.count} : e.ports[i] = w.ports[i]
    <2>1. /\ d.count \in Ports /\ 0 \in Ports \ {d.count}
          /\ \A i \in 0 .. d.count - 1 : i \in Ports \ {d.count}
          /\ \A i \in 0 .. d.count : i \in 0 .. d.count - 1 \/ i = d.count
          /\ d.count + 1 <= MultiportThreshold
          /\ d.count + 1 = MultiportThreshold => Ports = 0 .. d.count
        BY <1>1, <1>9, <1>10, PortIndices, Zenon
    <2>. QED
        BY <1>6, <1>9, <2>1, Zenon
<1>12. e.ports[0] = w.ports[0] /\ e.ports[0] \in PortsTried(s, d.start)'
    <2>1. e.ports[0] = w.ports[0]
        BY <1>11, Zenon
    <2>. QED
        BY <1>4, <1>7, <2>1, Zenon DEF HasPorts
<1>13. ASSUME SoleQueue(s)
       PROVE  /\ n = d.count
              /\ \A i \in 0 .. d.count : e.ports[i] \in PortsTried(s, d.start)'
              /\ \A i, j \in 0 .. d.count : e.ports[i] = e.ports[j] => i = j
    <2>1. w = d /\ n = d.count
        BY <1>4, <1>13, Zenon
    <2>2. \A i \in 0 .. d.count - 1 : e.ports[i] = d.ports[i]
        BY <1>11, <2>1, Zenon
    <2>3. /\ \A i \in 0 .. d.count - 1 : d.ports[i] \in PortsTried(s, d.start)'
          /\ \A i, j \in 0 .. d.count - 1 : d.ports[i] = d.ports[j] => i = j
        BY <1>7, <1>13, Zenon DEF HasPorts
    <2>4. \A i \in 0 .. d.count - 1 : e.ports[i] # e.ports[d.count]
        BY <1>10, <1>11, <2>2, Zenon
    <2>5. \A i \in 0 .. d.count : e.ports[i] \in PortsTried(s, d.start)'
        BY <1>8, <1>11, <2>2, <2>3, Zenon
    <2>6. \A i, j \in 0 .. d.count : e.ports[i] = e.ports[j] => i = j
        <3>1. ASSUME NEW i \in 0 .. d.count - 1, NEW j \in 0 .. d.count - 1,
                     e.ports[i] = e.ports[j]
              PROVE  i = j
            <4>1. e.ports[i] = d.ports[i] /\ e.ports[j] = d.ports[j]
                BY <2>2, Zenon
            <4>. QED
                BY <2>3, <3>1, <4>1, Zenon
        <3>. QED
            BY <1>11, <2>4, <3>1, ZenonT(60)
    <2>. QED
        BY <2>1, <2>5, <2>6, Zenon
<1>14. HasPorts(s, e)'
    <2>1. e.count >= 1 /\ e.count - 1 = n
        BY <1>6, <1>9
    <2>2. SoleQueue(s) => e.count <= MultiportThreshold
        <3>1. SoleQueue(s) => e.count = d.count + 1
            BY <1>6, <1>13, Zenon
        <3>. QED
            BY <1>11, <3>1, Zenon
    <2>. QED
        BY <1>6, <1>7, <1>12, <1>13, <2>1, <2>2, ZenonT(60) DEF HasPorts
<1>15. ASSUME n + 1 = MultiportThreshold
       PROVE  IsReal(s, d.start)'
    <2>1. d.ports[0] \in PortsTried(s, d.start)' /\ d.ports[0] # port
        BY <1>7, <1>9, <1>10 DEF HasPorts
    <2>2. ASSUME SoleQueue(s)
          PROVE  Injection(Ports, PortsTried(s, d.start)') # {}
        <3>1. Ports = 0 .. d.count
            BY <1>11, <1>13, <1>15, <2>2, Zenon
        <3>. DEFINE f == [i \in Ports |-> e.ports[i]]
        <3>2. f \in Injection(Ports, PortsTried(s, d.start)')
            BY <1>13, <2>2, <3>1, Zenon DEF Injection, IsInjective
        <3>. QED
            BY <3>2, Zenon
    <2>. QED
        BY <1>7, <1>8, <2>1, <2>2, ZenonT(60) DEF IsReal
<1>. QED
    BY <1>4, <1>6, <1>9, <1>14, <1>15, Zenon

LEMMA RunPorts ==
    ASSUME FilterType, FilterType', PortInv, NEW c \in CPU, Moves(c), Kinds(c),
           touched \subseteq touched'
    PROVE  PortInv'
<1>1. /\ node' = node /\ IsLog(reports) /\ RealReports
      /\ DOMAIN table' \subseteq DOMAIN table \cup {Slot(c)}
    BY Zenon DEF Moves, FilterType, PortInv
<1>2. reports' = reports => RealReports'
    BY <1>1, RealReportsKept, Zenon
<1>3. ASSUME table' = table, RealReports', PortRun(c)'
      PROVE  PortInv'
    <2>1. \A s \in DOMAIN table' : PortTable(s)'
        BY <1>1, <1>3, HasPortsKept, Zenon DEF PortInv, PortTable, IsPortScan
    <2>. QED
        BY <1>3, <2>1, PortFrame, Zenon
<1>4. ASSUME cpu[c].pc \in Tracking \ {"ports"}, cpu'[c].stage = "look" \/ Rolls(c),
             RealReports'
      PROVE  PortInv'
    <2>1. ~IsPortScan(Slot(c))
        BY <1>4, PortSlot, Zenon
    <2>2. \A d \in CPU : cpu[d].pc = "ports" => Slot(d) # Slot(c)
        BY <2>1, PortSlot, Zenon DEF Tracking
    <2>3. PortRun(c)'
        BY <1>4, Zenon DEF PortRun, Rolls, Remains
    <2>4. \A s : s = Slot(c) => PortTable(s)'
        BY <2>1, Zenon DEF PortTable, IsPortScan
    <2>. QED
        BY <1>4, <2>2, <2>3, <2>4, PortFrame, Zenon
<1>5. CASE Quiet(c)
    BY <1>2, <1>3, <1>5, Zenon DEF Quiet, Silently, PortRun
<1>6. CASE Looks(c)
    <2>1. /\ cpu[c].pc \in Tracking /\ table' = table /\ reports' = reports
          /\ cpu'[c].pc = cpu[c].pc /\ Slot(c)' = Slot(c)
          /\ cpu'[c].seen = {table[s] : s \in {Slot(c)} \cap DOMAIN table}
        BY <1>6, Zenon DEF Looks, Remains, Silently
    <2>2. ASSUME cpu[c].pc = "ports", NEW e \in cpu'[c].seen, NEW s, s = Slot(c)
          PROVE  HasPorts(s, e)' /\ table'[s] = e
        <3>1. s \in DOMAIN table /\ e = table[s]
            BY <2>1, <2>2, Zenon
        <3>2. HasPorts(s, e)
            BY <2>1, <2>2, <3>1, PortSlot, Zenon DEF PortInv
        <3>. QED
            BY <1>1, <2>1, <3>1, <3>2, HasPortsKept, Zenon
    <2>3. PortRun(c)'
        BY <2>1, <2>2, Zenon DEF PortRun
    <2>. QED
        BY <1>2, <1>3, <2>1, <2>3, Zenon
<1>7. CASE Rolls(c)
    <2>1. RealReports'
        BY <1>2, <1>7, Zenon DEF Rolls
    <2>. QED
        BY <1>4, <1>7, <2>1, Zenon DEF Rolls, Remains
<1>8. ASSUME NEW o, Counts(c, o)
      PROVE  PortInv'
    <2>1. /\ cpu[c].pc \in Tracking \ {"ports"} /\ cpu'[c].stage = "look"
          /\ cpu[c].stage # "look" /\ o \in Count(c)
          /\ Reports(c, o) \/ reports' = reports
        BY <1>8, Zenon DEF Counts, Stores
    <2>2. o.entry.start \in Nat /\ ~IsPortScan(Slot(c))
        BY <2>1, CountFacts, PortSlot, Zenon DEF Entry, RateEntry
    <2>3. RealReports'
        BY <1>1, <2>1, <2>2, RealReportsKept, Zenon DEF Reports
    <2>. QED
        BY <1>4, <2>1, <2>3, Zenon
<1>9. ASSUME NEW o, Touches(c, o)
      PROVE  PortInv'
    <2>1. /\ cpu[c].pc = "ports" /\ cpu[c].stage # "look" /\ o \in Touch(c)
          /\ touched' = touched \cup {Tried(c)} /\ cpu'[c].stage = "look"
          /\ IF o.report THEN Reports(c, o) ELSE reports' = reports
          /\ IF o.insert \/ cpu[c].live
             THEN Slot(c) \in DOMAIN table' /\ table'[Slot(c)] = o.entry
             ELSE table' = table
          /\ o.insert => \A d \in CPU \ {c} :
                cpu[d].stage # "look" /\ Slot(d) = Slot(c) => ~cpu'[d].live
        BY <1>9, Zenon DEF Touches, Stores
    <2>2. PICK s : s = Slot(c)
        BY Zenon
    <2>3. PICK e : e = o.entry
        BY Zenon
    <2>4. IsPortScan(s) /\ PortRun(c)'
        BY <2>1, <2>2, PortSlot, Zenon DEF Tracking, PortRun
    <2>5. ASSUME HasPorts(s, e)', o.insert \/ cpu[c].live,
                 NEW r \in DOMAIN table', r = Slot(c)
          PROVE  PortTable(r)'
        BY <2>1, <2>2, <2>3, <2>5, Zenon DEF PortTable
    <2>6. CASE o = FirstPort(c)
        <3>1. o.insert /\ ~o.report
            BY <2>6, Zenon DEF FirstPort
        <3>2. HasPorts(s, e)'
            BY <2>1, <2>2, <2>3, <2>6, FirstHasPorts, Zenon
        <3>3. RealReports'
            BY <1>2, <2>1, <3>1, Zenon
        <3>. QED
            BY <2>1, <2>4, <2>5, <3>1, <3>2, <3>3, PortFrame, Zenon
    <2>7. ASSUME NEW d \in cpu[c].seen, NEW n \in {d.count, Current(c, d).count},
                 ~Expired(cpu[c].now, d.start, MultiportWindow),
                 IsNewPort(d, cpu[c].pkt.port), o = NextPort(c, d, n)
          PROVE  PortInv'
        <3>1. PICK w : w = Current(c, d)
            OBVIOUS
        <3>2. /\ ~o.insert /\ (o.report <=> n + 1 = MultiportThreshold)
            BY <2>7, Zenon DEF NextPort
        <3>3. PICK port : port = cpu[c].pkt.port
            BY Zenon
        <3>4. /\ HasPorts(s, e)' /\ e.start = w.start /\ e.start \in Nat
              /\ o.report => IsReal(s, e.start)'
            <4>1. /\ n \in {d.count, w.count} /\ IsNewPort(d, port)
                  /\ e = NextPort(c, d, n).entry
                BY <2>3, <2>7, <3>1, <3>3, Zenon
            <4>2. /\ HasPorts(s, e)' /\ e.start = w.start /\ e.start \in Nat
                  /\ n + 1 = MultiportThreshold => IsReal(s, e.start)'
                BY <1>1, <2>1, <2>2, <2>7, <3>1, <3>3, <4>1, NextHasPorts
            <4>. QED
                BY <3>2, <4>2, Zenon
        <3>5. RealReports'
            BY <1>1, <2>1, <2>2, <2>3, <3>4, RealReportsKept, Zenon DEF Reports
        <3>6. CASE ~cpu[c].live
            BY <1>3, <2>1, <2>4, <3>2, <3>5, <3>6, Zenon
        <3>7. CASE cpu[c].live
            <4>1. table'[s] = e /\ w = table[s]
                BY <2>1, <2>2, <2>3, <3>1, <3>7, Zenon DEF Current
            <4>2. ASSUME NEW q \in CPU \ {c}, cpu[q].pc = "ports",
                         Slot(q) = Slot(c)
                  PROVE  ~SoleQueue(Slot(q))
                BY <2>1, <4>2, PortSlot, Zenon DEF SoleQueue, Tracking
            <4>. QED
                BY <2>2, <2>4, <2>5, <3>4, <3>5, <3>7, <4>1, <4>2, PortFrame, ZenonT(60)
        <3>. QED
            BY <3>6, <3>7, Zenon
    <2>. QED
        BY <2>1, <2>6, <2>7, TouchCases, Zenon
<1>. QED
    BY <1>5, <1>6, <1>7, <1>8, <1>9, ZenonT(60) DEF Kinds

LEMMA PortNext ==
    ASSUME FilterType, PortInv, [FilterNext]_filterVars
    PROVE  PortInv'
<1>1. FilterType' /\ touched \subseteq touched'
    BY TypeStep, TouchedGrows, Zenon
<1>2. ASSUME NEW s \in DOMAIN table, Evicts(s)
      PROVE  PortInv'
    <2>1. /\ node' = node /\ reports' = reports /\ DOMAIN table' = DOMAIN table \ {s}
          /\ \A r \in DOMAIN table' : table'[r] = table[r]
        BY <1>2, Zenon DEF Evicts
    <2>2. \A r \in DOMAIN table' : IsPortScan(r) => HasPorts(r, table[r])'
        BY <1>1, <2>1, HasPortsKept, Zenon DEF PortInv, IsPortScan
    <2>3. RealReports'
        BY <1>1, <2>1, RealReportsKept, Zenon DEF PortInv, FilterType
    <2>4. ASSUME NEW d \in CPU
          PROVE  PortRun(d)'
        <3>1. /\ cpu'[d].pc = cpu[d].pc /\ cpu'[d].stage = cpu[d].stage
              /\ cpu'[d].seen = cpu[d].seen /\ Slot(d)' = Slot(d)
              /\ cpu'[d].live <=>
                    cpu[d].live /\ (cpu[d].stage = "look" \/ Slot(d) # s)
            BY <1>2, Zenon DEF Evicts
        <3>. SUFFICES ASSUME cpu[d].pc = "ports", cpu[d].stage # "look",
                             NEW e \in cpu[d].seen, NEW r, r = Slot(d)
                      PROVE  /\ HasPorts(r, e)'
                             /\ cpu'[d].live =>
                                    /\ table'[r].start = e.start
                                    /\ SoleQueue(r)' => table'[r] = e
            BY <3>1, ZenonT(60) DEF PortRun
        <3>2. /\ HasPorts(r, e)
              /\ cpu[d].live => /\ table[r].start = e.start
                                /\ SoleQueue(r) => table[r] = e
              /\ cpu[d].live => r \in DOMAIN table
            BY DEF PortInv, PortRun, FilterType, RunInv
        <3>3. HasPorts(r, e)' /\ (SoleQueue(r)' <=> SoleQueue(r))
            BY <1>1, <2>1, <3>2, HasPortsKept, PortsKept, Zenon
        <3>. QED
            BY <2>1, <3>1, <3>2, <3>3, Zenon
    <2>. QED
        BY <2>2, <2>3, <2>4, Zenon DEF PortInv
<1>3. CASE Elsewhere
    <2>1. node' = node /\ cpu' = cpu /\ table' = table /\ reports' = reports
        BY <1>3, Zenon DEF Elsewhere
    <2>2. RealReports'
        BY <1>1, <2>1, RealReportsKept, Zenon DEF PortInv, FilterType
    <2>3. \A r : SoleQueue(r)' <=> SoleQueue(r)
        BY <2>1, Zenon DEF SoleQueue
    <2>4. \A r, e : HasPorts(r, e) => HasPorts(r, e)'
        BY <1>1, <2>1, HasPortsKept, Zenon
    <2>. QED
        BY <2>1, <2>2, <2>3, <2>4, Zenon DEF PortInv, PortRun, Slot, IsPortScan
<1>. QED
    BY <1>1, <1>2, <1>3, StepCases, RunPorts, Zenon

\* A port scan that track_port_scan reports is real: packets of its source
\* tried at least two ports within the window, however many CPUs race for the
\* entry, and as many as the threshold asks for when one queue's packets reach
\* it, evictions included.
THEOREM PortScansHold == FilterSpec => []PortScanIsReal
<1>1. FilterInit => FilterType /\ PortInv
    <2>1. FilterInit => /\ table = <<>> /\ reports = <<>>
                        /\ \A c \in CPU : cpu[c].stage = "look"
        BY DEF FilterInit, Idle
    <2>. QED
        BY <2>1, TypeInit DEF PortInv, PortRun, RealReports
<1>2. FilterType /\ PortInv /\ [FilterNext]_filterVars => (FilterType /\ PortInv)'
    BY TypeStep, PortNext, Zenon
<1>3. FilterType /\ PortInv => PortScanIsReal
    BY Zenon DEF PortInv, RealReports, IsReal, PortScanIsReal, Range
<1>. QED
    BY <1>1, <1>2, <1>3, PTL DEF FilterSpec

-----------------------------------------------------------------------------
(* Malformed headers are attributed. *)

\* What a run's place says of its packet, and of the rate in its record.
Rated(pc, p, rate) ==
    /\ pc = "short" => ~p.whole
    /\ pc \in {"scan", "burst", "ports", "portscan"} => p.port # "gtpu"
    /\ pc = "emit" /\ p.port = "gtpu" => (rate > 0 <=> TEIDOf(p.gtp) # NoTEID)

RateInv == \A c \in CPU : Rated(cpu[c].pc, cpu[c].pkt, cpu[c].rate)

IsAttributed(e) ==
    e.pkt.whole /\ e.pkt.port = "gtpu" =>
        /\ e.malformed <=> Malformed(e.pkt.gtp)
        /\ HasTEID(e.pkt.gtp) => e.teid = e.pkt.gtp.teid
        /\ e.teid # NoTEID <=> e.rate > 0

Events ==
    [pkt : Packet, rate : Nat, malformed : BOOLEAN, teid : TEID \cup {NoTEID}]

RingInv == ring \in [{4, 6} -> Seq({e \in Events : IsAttributed(e)})]

LEMMA GotoRated ==
    ASSUME FilterType, RateInv, NEW c \in CPU, Moves(c), NEW pc \in Pcs,
           NEW rate \in Nat, cpu'[c] = Goto(c, pc, rate),
           pc # "idle" => Rated(pc, cpu[c].pkt, rate)
    PROVE  RateInv'
<1>1. cpu[c] \in Run
    BY DEF FilterType
<1>2. Rated(cpu'[c].pc, cpu'[c].pkt, cpu'[c].rate)
    <2>1. CASE pc = "idle"
        <3>1. cpu'[c].pc = "idle"
            BY <1>1, <2>1, GotoFacts
        <3>. QED
            BY <3>1, Zenon DEF Rated
    <2>2. CASE pc # "idle"
        BY <1>1, <2>2, GotoFacts
    <2>. QED
        BY <2>1, <2>2, Zenon
<1>3. \A d \in CPU \ {c} :
        cpu'[d].pc = cpu[d].pc /\ cpu'[d].pkt = cpu[d].pkt /\ cpu'[d].rate = cpu[d].rate
    BY Zenon DEF Moves, Bystander
<1>. QED
    BY <1>2, <1>3, Zenon DEF RateInv

\* A packet that is counted is one at least.
LEMMA CountIsPositive ==
    ASSUME FilterType, NEW c \in CPU, cpu[c].stage # "look",
           cpu[c].pc \in Tracking \ {"ports"}, NEW o \in Count(c)
    PROVE  o.entry.count \in Nat /\ o.entry.count > 0
<1>1. cpu[c] \in Run /\ RunInv(c)
    BY DEF FilterType
<1>2. Entry(Slot(c)) = RateEntry
    BY <1>1, SlotFacts DEF RunInv, Slot, Entry, Tracking
<1>3. cpu[c].seen \subseteq RateEntry /\ cpu[c].now \in Nat
    BY <1>1, <1>2, Zenon DEF RunInv, Run
<1>4. cpu[c].live /\ cpu[c].seen # {} => table[Slot(c)] \in RateEntry
    BY <1>1, <1>2, Zenon DEF FilterType, TableInv, RunInv
<1>5. CASE o = Fresh(c)
    BY <1>5 DEF Fresh
<1>6. CASE cpu[c].seen # {} /\ o = Restart(c)
    BY <1>3, <1>4, <1>6 DEF RateEntry, Restart, Current
<1>7. ASSUME NEW e \in cpu[c].seen, NEW n \in {e.count, Current(c, e).count},
             o = Increment(c, e, n)
      PROVE  o.entry.count \in Nat /\ o.entry.count > 0
    <2>1. e \in RateEntry
        BY <1>3, Zenon
    <2>. QED
        BY <1>4, <1>7, <2>1 DEF RateEntry, Current, Increment
<1>. QED
    BY <1>5, <1>6, <1>7, CountCases, ZenonT(60)

LEMMA RunRates ==
    ASSUME FilterType, RateInv, NEW c \in CPU, xdp_packet_filter(c)
    PROVE  RateInv'
<1>1. /\ Moves(c) /\ cpu[c] \in Run /\ cpu \in [CPU -> Run] /\ RunInv(c)
      /\ Rated(cpu[c].pc, cpu[c].pkt, cpu[c].rate)
    BY RunSteps, Zenon DEF FilterType, RateInv
<1>2. ASSUME Rated(cpu'[c].pc, cpu'[c].pkt, cpu'[c].rate)
      PROVE  RateInv'
    BY <1>1, <1>2, Zenon DEF Moves, Bystander, RateInv
<1>3. CASE \E p \in node.traffic : ReceiveIPv4(c, p) \/ ReceiveIPv6(c, p)
    <2>1. PICK p \in node.traffic : ReceiveIPv4(c, p) \/ ReceiveIPv6(c, p)
        BY <1>3, Zenon
    <2>2. PICK pc \in {"idle", FirstStep(p)} : Begin(c, p, pc)
        BY <2>1, Zenon DEF ReceiveIPv4, ReceiveIPv6
    <2>3. cpu'[c] = IF pc = "idle" THEN Idle
                    ELSE [Idle EXCEPT !.pc = pc, !.pkt = p, !.now = time]
        BY <1>1, <2>2, Zenon DEF Begin
    <2>4. IF pc = "idle" THEN cpu'[c].pc = "idle"
          ELSE cpu'[c].pc = pc /\ cpu'[c].pkt = p
        BY <2>3 DEF Idle
    <2>5. Rated(cpu'[c].pc, cpu'[c].pkt, cpu'[c].rate)
        BY <2>2, <2>4, Zenon DEF Rated, FirstStep, SignalingPort
    <2>. QED
        BY <1>2, <2>5, Zenon
<1>4. CASE Look(c) \/ Roll(c)
    <2>1. CASE Look(c)
        BY <1>1, <1>2, <2>1, Zenon DEF Look, Run
    <2>2. CASE Roll(c)
        BY <1>1, <1>2, <2>2, Zenon DEF Roll, Run
    <2>. QED
        BY <1>4, <2>1, <2>2, Zenon
<1>5. CASE /\ track_signal_rate(c) \/ track_signal_rate_v6(c)
           /\ ~(Look(c) \/ Roll(c))
    <2>. DEFINE pc == IF /\ cpu[c].pkt.port = "gtpu"
                         /\ TEIDOf(cpu[c].pkt.gtp) # NoTEID
                      THEN "teid" ELSE "emit"
    <2>1. \E o : Store(c, o, pc, 0)
        BY <1>5, Zenon DEF track_signal_rate, track_signal_rate_v6, CountSource
    <2>2. cpu'[c] = Goto(c, pc, 0)
        BY <2>1, Zenon DEF Store
    <2>3. pc \in Pcs /\ Rated(pc, cpu[c].pkt, 0)
        BY DEF Pcs, Rated
    <2>. HIDE DEF pc
    <2>. QED
        BY <1>1, <2>2, <2>3, GotoRated, Zenon
<1>6. CASE /\ track_tunnel_rate(c) \/ track_tunnel_rate_v6(c)
           /\ ~(Look(c) \/ Roll(c))
    <2>1. /\ cpu[c].pc = "tunnel" /\ cpu[c].stage # "look"
          /\ \E o \in Count(c) : Store(c, o, "emit", o.entry.count)
        BY <1>6, Zenon DEF track_tunnel_rate, track_tunnel_rate_v6, At, CountTunnel
    <2>2. PICK o \in Count(c) : Store(c, o, "emit", o.entry.count)
        BY <2>1, Zenon
    <2>3. cpu'[c] = Goto(c, "emit", o.entry.count)
        BY <2>2, Zenon DEF Store
    <2>4. o.entry.count \in Nat /\ o.entry.count > 0 /\ TEIDOf(cpu[c].pkt.gtp) # NoTEID
        BY <1>1, <2>1, CountIsPositive, Zenon DEF Tracking, RunInv
    <2>5. Rated("emit", cpu[c].pkt, o.entry.count)
        BY <2>4, Zenon DEF Rated
    <2>. QED
        BY <1>1, <2>3, <2>4, <2>5, GotoRated, Zenon DEF Pcs
<1>7. CASE /\ track_scan_rate(c) \/ track_scan_rate_v6(c)
           /\ ~(Look(c) \/ Roll(c))
    <2>1. /\ cpu[c].pc = "scan"
          /\ \E o, pc : pc \in {"burst", "ports"} /\ Store(c, o, pc, 0)
        BY <1>7, Zenon DEF track_scan_rate, track_scan_rate_v6, At, CountScan
    <2>2. PICK pc \in {"burst", "ports"} : cpu'[c] = Goto(c, pc, 0)
        BY <2>1, ZenonT(60) DEF Store
    <2>. QED
        BY <1>1, <2>1, <2>2, GotoRated, Zenon DEF Rated, Pcs
<1>8. CASE (track_port_scan(c) \/ track_port_scan_v6(c)) /\ ~Look(c)
    <2>1. /\ cpu[c].pc = "ports"
          /\ \/ cpu' = [cpu EXCEPT ![c] = Idle]
             \/ \E o, pc : pc \in {"portscan", "idle"} /\ Store(c, o, pc, 0)
        BY <1>8, Zenon DEF track_port_scan, track_port_scan_v6, At, TouchPort
    <2>2. PICK pc \in {"portscan", "idle"} : cpu'[c] = Goto(c, pc, 0)
        <3>1. Goto(c, "idle", 0) = Idle
            BY Zenon DEF Goto
        <3>. QED
            BY <1>1, <2>1, <3>1, Zenon DEF Store
    <2>. QED
        BY <1>1, <2>1, <2>2, GotoRated, Zenon DEF Rated, Pcs
<1>9. CASE CheckTunnel(c)
    <2>1. PICK pc \in {"idle", "tunnel"} : cpu'[c] = Goto(c, pc, 0)
        BY <1>1, <1>9, Zenon DEF CheckTunnel
    <2>. QED
        BY <1>1, <2>1, GotoRated, Zenon DEF Rated, Pcs
<1>10. CASE emit_signaling_event(c) \/ emit_signaling_event_v6(c)
    <2>1. PICK pc \in {"idle", "ports"} :
            cpu'[c] = Goto(c, pc, 0) /\ (pc = "ports" => cpu[c].pc = "burst")
        BY <1>1, <1>10, Zenon DEF emit_signaling_event, emit_signaling_event_v6, Emit
    <2>. QED
        BY <1>1, <2>1, GotoRated, Zenon DEF Rated, Pcs
<1>. QED
    BY <1>3, <1>4, <1>5, <1>6, <1>7, <1>8, <1>9, <1>10, Zenon DEF xdp_packet_filter

\* The record of a packet is attributed, sound or not.
LEMMA EventIsAttributed ==
    ASSUME FilterType, RateInv, NEW c \in CPU,
           cpu[c].pc \in {"short", "emit", "burst", "portscan"}
    PROVE  Event(c) \in {e \in Events : IsAttributed(e)}
<1>. DEFINE p == cpu[c].pkt
            pc == cpu[c].pc
            rate == cpu[c].rate
            e == Event(c)
<1>1. p \in Packet /\ rate \in Nat /\ Rated(pc, p, rate)
    BY Zenon DEF FilterType, RunInv, Run, RateInv
<1>2. /\ e.pkt = p /\ e.rate = rate
      /\ e.teid = IF pc = "emit" /\ p.port = "gtpu" THEN TEIDOf(p.gtp) ELSE NoTEID
      /\ pc = "emit" /\ p.port = "gtpu" => (e.malformed <=> Malformed(p.gtp))
    BY Zenon DEF Event
<1>3. TEIDOf(p.gtp) \in TEID \cup {NoTEID}
    BY <1>1, Zenon DEF Packet, Payload, TEIDOf
<1>4. e \in Events
    BY <1>1, <1>3, Zenon DEF Event, Events
<1>. HIDE DEF p, pc, rate, e
<1>5. IsAttributed(e)
    <2>. SUFFICES ASSUME p.whole, p.port = "gtpu"
                  PROVE  /\ e.malformed <=> Malformed(p.gtp)
                         /\ HasTEID(p.gtp) => e.teid = p.gtp.teid
                         /\ e.teid # NoTEID <=> rate > 0
        BY <1>2, Zenon DEF IsAttributed
    <2>1. pc = "emit"
        BY <1>1, Zenon DEF Rated, pc
    <2>. QED
        BY <1>1, <1>2, <2>1, Zenon DEF Rated, TEIDOf
<1>. QED
    BY <1>4, <1>5, Zenon DEF e

LEMMA RingStep ==
    ASSUME FilterType, RateInv, RingInv, [FilterNext]_filterVars
    PROVE  RingInv'
<1>. DEFINE Good == {e \in Events : IsAttributed(e)}
<1>1. ring \in [{4, 6} -> Seq(Good)]
    BY DEF RingInv
<1>2. ASSUME NEW c \in CPU, NEW f \in {4, 6}, Emit(c, f)
      PROVE  ring' \in [{4, 6} -> Seq(Good)]
    <2>1. Event(c) \in Good
        BY <1>2, EventIsAttributed, Zenon DEF Emit
    <2>2. \/ ring' = ring
          \/ ring' = [ring EXCEPT ![f] = Append(@, Event(c))]
        BY <1>2, Zenon DEF Emit
    <2>. HIDE DEF Good
    <2>3. Append(ring[f], Event(c)) \in Seq(Good)
        BY <1>1, <2>1
    <2>. QED
        BY <1>1, <2>2, <2>3, Zenon
<1>3. ASSUME NEW f \in {4, 6}, ReadEvent(f)
      PROVE  ring' \in [{4, 6} -> Seq(Good)]
    <2>1. ring[f] # <<>> /\ ring' = [ring EXCEPT ![f] = Tail(@)]
        BY <1>3, Zenon DEF ReadEvent
    <2>. HIDE DEF Good
    <2>2. Tail(ring[f]) \in Seq(Good)
        BY <1>1, <2>1
    <2>. QED
        BY <1>1, <2>1, <2>2, Zenon
<1>4. ASSUME NEW c \in CPU, xdp_packet_filter(c), ~Emit(c, 4), ~Emit(c, 6)
      PROVE  ring' = ring
    <2>1. CASE \E p \in node.traffic : ReceiveIPv4(c, p) \/ ReceiveIPv6(c, p)
        BY <2>1, Zenon DEF ReceiveIPv4, ReceiveIPv6, Begin
    <2>2. CASE CheckTunnel(c) \/ Look(c) \/ Roll(c)
        BY <2>2, Zenon DEF CheckTunnel, Look, Roll
    <2>3. CASE CountSource(c) \/ CountTunnel(c) \/ CountScan(c) \/ TouchPort(c)
        BY <2>2, <2>3, Zenon DEF CountSource, CountTunnel, CountScan, TouchPort, Store
    <2>. QED
        BY <1>4, <2>1, <2>2, <2>3, Zenon
        DEF xdp_packet_filter, track_signal_rate, track_signal_rate_v6,
            track_tunnel_rate, track_tunnel_rate_v6, track_scan_rate,
            track_scan_rate_v6, track_port_scan, track_port_scan_v6,
            emit_signaling_event, emit_signaling_event_v6
<1>5. CASE \/ \E k \in Source \cup Tunnel : Block(k) \/ Unblock(k)
           \/ \E s \in DOMAIN table : Evict(s)
           \/ FilterTick \/ UNCHANGED filterVars
    BY <1>5, Zenon DEF Block, Unblock, Evict, FilterTick, filterVars, RingInv
<1>. QED
    BY <1>1, <1>2, <1>3, <1>4, <1>5, Zenon DEF FilterNext, RingInv

LEMMA RingHolds == FilterSpec => [](FilterType /\ RateInv /\ RingInv)
<1>1. FilterInit => FilterType /\ RateInv /\ RingInv
    <2>1. FilterInit => /\ ring = [f \in {4, 6} |-> <<>>]
                        /\ \A c \in CPU : cpu[c].pc = "idle"
        BY DEF FilterInit, Idle
    <2>2. (\A c \in CPU : cpu[c].pc = "idle") => RateInv
        BY DEF RateInv, Rated
    <2>3. ring = [f \in {4, 6} |-> <<>>] => RingInv
        BY DEF RingInv
    <2>. QED
        BY <2>1, <2>2, <2>3, TypeInit, Zenon
<1>2. FilterType /\ RateInv /\ RingInv /\ [FilterNext]_filterVars
        => (FilterType /\ RateInv /\ RingInv)'
    <2>. SUFFICES ASSUME FilterType, RateInv, RingInv, [FilterNext]_filterVars
                  PROVE  (FilterType /\ RateInv /\ RingInv)'
        BY Zenon
    <2>1. ASSUME \A d \in CPU : /\ cpu'[d].pc = cpu[d].pc /\ cpu'[d].pkt = cpu[d].pkt
                                /\ cpu'[d].rate = cpu[d].rate
          PROVE  RateInv'
        BY <2>1, Zenon DEF RateInv
    <2>2. ASSUME NEW s \in DOMAIN table, Evict(s)
          PROVE  RateInv'
        BY <2>1, <2>2, EvictIsEvicts, Zenon DEF Evicts
    <2>3. ASSUME \/ \E f \in {4, 6} : ReadEvent(f)
                 \/ \E k \in Source \cup Tunnel : Block(k) \/ Unblock(k)
                 \/ FilterTick \/ UNCHANGED filterVars
          PROVE  RateInv'
        <3>1. UNCHANGED cpu
            BY <2>3, Zenon DEF ReadEvent, Block, Unblock, FilterTick, filterVars
        <3>. QED
            BY <2>1, <3>1, Zenon
    <2>4. RateInv'
        BY <2>2, <2>3, RunRates, Zenon DEF FilterNext
    <2>. QED
        BY <2>4, TypeStep, RingStep, Zenon
<1>. QED
    BY <1>1, <1>2, PTL DEF FilterSpec

LEMMA RingIsAttributed ==
    ASSUME RingInv, NEW f \in {4, 6}, NEW i \in DOMAIN ring[f]
    PROVE  ring[f][i] \in Events /\ IsAttributed(ring[f][i])
<1>. DEFINE Good == {e \in Events : IsAttributed(e)}
<1>1. ring[f] \in Seq(Good)
    BY Zenon DEF RingInv
<1>. HIDE DEF Good
<1>2. ring[f][i] \in Good
    BY <1>1
<1>. QED
    BY <1>2, Zenon DEF Good

\* The records of whole GTP-U packets that the ring buffers hold carry the
\* TEID that parse_gtpu read, malformed extension headers or not, and the
\* tunnel's rate exactly when there is a tunnel.
THEOREM AttributionHolds == FilterSpec => []MalformedIsAttributed
<1>1. RingInv => MalformedIsAttributed
    BY RingIsAttributed, Zenon DEF MalformedIsAttributed, IsAttributed
<1>. QED
    BY <1>1, RingHolds, PTL

-----------------------------------------------------------------------------
(* The loop of parse_gtpu. *)

\* A set of naturals that is not empty has a least member.
LEMMA LeastNat ==
    ASSUME NEW S, S \subseteq Nat, S # {}
    PROVE  \E p \in S : \A q \in S : p <= q
<1> DEFINE R == OpToRel(<, Nat)
<1>1. PICK p \in S : \A q \in S : <<q, p>> \notin R
    BY NatLessThanWellFounded, WFMin, Zenon
<1>2. ASSUME NEW q \in S PROVE p <= q
    <2>1. q \in Nat /\ p \in Nat
        BY Zenon
    <2>2. q < p => <<q, p>> \in R
        BY <2>1, Zenon DEF OpToRel
    <2>3. ~(q < p)
        BY <1>1, <2>2, Zenon
    <2> QED BY <2>1, <2>3
<1> QED
    BY <1>2, Zenon

\* What holds of 0, and of a number if of the one before, holds up to N.
LEMMA Induction ==
    ASSUME NEW N \in Nat, NEW S, 0 \in S,
           \A m \in 1 .. N : m - 1 \in S => m \in S
    PROVE  0 .. N \subseteq S
<1>. DEFINE T == {m \in 0 .. N : m \notin S}
<1>. SUFFICES ASSUME T # {} PROVE FALSE
    OBVIOUS
<1>1. PICK m \in T : \A q \in T : m <= q
    <2>1. T \subseteq Nat
        OBVIOUS
    <2>. HIDE DEF T
    <2>. QED
        BY <2>1, LeastNat, Zenon
<1>2. m \in 1 .. N /\ m - 1 \in 0 .. N
    OBVIOUS
<1>3. m - 1 \in S
    BY <1>1, <1>2
<1>. QED
    BY <1>1, <1>2, <1>3, Zenon

\* Ends is the recursive function it is written as: there is one, built a
\* header at a time.
LEMMA EndsFacts ==
    ASSUME NEW g \in Payload(TEID)
    PROVE  Ends(g) = [i \in 0 .. Len(g.chain) |->
                        IF i = 0 THEN 12 ELSE Ends(g)[i - 1] + 4 * g.chain[i]]
<1>. DEFINE n == Len(g.chain)
            Part(h, m) == h = [i \in 0 .. m |->
                            IF i = 0 THEN 12 ELSE h[i - 1] + 4 * g.chain[i]]
            S == {m \in 0 .. n : \E h : Part(h, m)}
<1>1. n \in Nat
    BY DEF Payload
<1>2. 0 \in S
    <2>1. Part([i \in 0 .. 0 |-> 12], 0)
        OBVIOUS
    <2>. HIDE DEF Part
    <2>. QED
        BY <1>1, <2>1
<1>3. ASSUME NEW m \in 1 .. n, m - 1 \in S
      PROVE  m \in S
    <2>1. PICK h : Part(h, m - 1)
        BY <1>3, Zenon
    <2>2. \A i \in 0 .. m - 1 :
            h[i] = IF i = 0 THEN 12 ELSE h[i - 1] + 4 * g.chain[i]
        BY <2>1, Zenon
    <2>. DEFINE k == [i \in 0 .. m |->
                        IF i = m THEN h[m - 1] + 4 * g.chain[m] ELSE h[i]]
    <2>3. ASSUME NEW i \in 0 .. m
          PROVE  k[i] = IF i = 0 THEN 12 ELSE k[i - 1] + 4 * g.chain[i]
        <3>1. i # m => i \in 0 .. m - 1
            BY <1>1
        <3>2. i # 0 => i - 1 \in 0 .. m /\ i - 1 # m
            BY <1>1
        <3>. QED
            BY <1>1, <2>2, <3>1, <3>2
    <2>4. Part(k, m)
        BY <2>3, Zenon
    <2>. HIDE DEF Part, k
    <2>. QED
        BY <2>4
<1>. HIDE DEF S
<1>4. 0 .. n \subseteq S
    BY <1>1, <1>2, <1>3, Induction, Zenon
<1>5. \E h : Part(h, n)
    BY <1>1, <1>4 DEF S
<1>6. Ends(g) = CHOOSE h : Part(h, n)
    BY Zenon DEF Ends
<1>. HIDE DEF Part
<1>7. Part(Ends(g), n)
    BY <1>5, <1>6, Zenon
<1>. QED
    BY <1>7, Zenon DEF Part

\* So is Offsets, the offset after each turn of the loop.
LEMMA OffsetsFacts ==
    ASSUME NEW g
    PROVE  Offsets(g) = [i \in 0 .. MaxExtHeaders |->
                IF i = 0 THEN 12
                ELSE IF Offsets(g)[i - 1] = Truncated \/ i > Len(g.chain)
                THEN Offsets(g)[i - 1]
                ELSE Step(g, Offsets(g)[i - 1], i)]
<1>. DEFINE n == MaxExtHeaders
            Turn(h, i) == IF h[i - 1] = Truncated \/ i > Len(g.chain)
                          THEN h[i - 1] ELSE Step(g, h[i - 1], i)
            Part(h, m) == h = [i \in 0 .. m |-> IF i = 0 THEN 12 ELSE Turn(h, i)]
            S == {m \in 0 .. n : \E h : Part(h, m)}
<1>1. n \in Nat
    BY GTPUAssumption, Zenon
<1>2. 0 \in S
    <2>1. Part([i \in 0 .. 0 |-> 12], 0)
        OBVIOUS
    <2>. HIDE DEF Part
    <2>. QED
        BY <1>1, <2>1
<1>3. ASSUME NEW m \in 1 .. n, m - 1 \in S
      PROVE  m \in S
    <2>1. PICK h : Part(h, m - 1)
        BY <1>3, Zenon
    <2>2. \A i \in 0 .. m - 1 : h[i] = IF i = 0 THEN 12 ELSE Turn(h, i)
        BY <2>1, Zenon
    <2>. DEFINE k == [i \in 0 .. m |-> IF i = m THEN Turn(h, m) ELSE h[i]]
    <2>3. ASSUME NEW i \in 0 .. m
          PROVE  k[i] = IF i = 0 THEN 12 ELSE Turn(k, i)
        <3>1. i # m => i \in 0 .. m - 1
            BY <1>1
        <3>2. i # 0 => k[i - 1] = h[i - 1]
            BY <1>1
        <3>3. m # 0
            BY <1>1
        <3>. QED
            BY <2>2, <3>1, <3>2, <3>3, Zenon
    <2>4. Part(k, m)
        BY <2>3, Zenon
    <2>. HIDE DEF Part, k
    <2>. QED
        BY <2>4
<1>. HIDE DEF S
<1>4. 0 .. n \subseteq S
    BY <1>1, <1>2, <1>3, Induction, Zenon
<1>5. \E h : Part(h, n)
    BY <1>1, <1>4 DEF S
<1>6. Offsets(g) = CHOOSE h : Part(h, n)
    BY Zenon DEF Offsets
<1>. HIDE DEF Part
<1>7. Part(Offsets(g), n)
    BY <1>5, <1>6, Zenon
<1>. QED
    BY <1>7, Zenon DEF Part

\* The elements of a sequence, for a base set of any kind.
LEMMA Elements ==
    ASSUME NEW B, NEW s, s \in Seq(B)
    PROVE  Len(s) \in Nat /\ \A i \in 1 .. Len(s) : s[i] \in B
OBVIOUS

\* The headers end at growing offsets, from the 12 bytes before the chain on.
LEMMA EndsType ==
    ASSUME NEW g \in Payload(TEID), NEW n, n = Len(g.chain)
    PROVE  /\ n \in Nat /\ g.size \in Nat /\ Ends(g)[0] = 12
           /\ \A i \in 1 .. n : /\ g.chain[i] \in Nat
                                /\ Ends(g)[i] = Ends(g)[i - 1] + 4 * g.chain[i]
           /\ \A i \in 0 .. n : /\ Ends(g)[i] \in Nat /\ Ends(g)[i] >= 12
                                /\ Ends(g)[i] <= Ends(g)[n]
<1>. DEFINE E == Ends(g)
<1>1. n \in Nat /\ g.size \in Nat /\ \A i \in 1 .. n : g.chain[i] \in Nat
    <2>1. g.chain \in Seq(0 .. 255) /\ g.size \in Nat
        BY DEF Payload
    <2>2. n \in Nat /\ \A i \in 1 .. n : g.chain[i] \in 0 .. 255
        <3>1. /\ Len(g.chain) \in Nat
              /\ \A i \in 1 .. Len(g.chain) : g.chain[i] \in 0 .. 255
            BY <2>1, Elements, Zenon
        <3>. QED
            BY <3>1, Zenon
    <2>3. \A x \in 0 .. 255 : x \in Nat
        OBVIOUS
    <2>. QED
        BY <2>1, <2>2, <2>3, Zenon
<1>2. /\ E[0] = 12
      /\ \A i \in 1 .. n : E[i] = E[i - 1] + 4 * g.chain[i]
    BY <1>1, EndsFacts
<1>. HIDE DEF E
<1>3. \A i \in 0 .. n : E[i] \in Nat /\ E[i] >= 12
    <2>. DEFINE S == {i \in 0 .. n : E[i] \in Nat /\ E[i] >= 12}
    <2>1. 0 \in S
        BY <1>1, <1>2
    <2>2. ASSUME NEW m \in 1 .. n, m - 1 \in S
          PROVE  m \in S
        <3>1. /\ E[m - 1] \in Nat /\ E[m - 1] >= 12 /\ g.chain[m] \in Nat
              /\ E[m] = E[m - 1] + 4 * g.chain[m]
            BY <1>1, <1>2, <2>2, Zenon
        <3>2. \A x, y \in Nat : x >= 12 => x + 4 * y \in Nat /\ x + 4 * y >= 12
            OBVIOUS
        <3>3. m \in 0 .. n
            BY <1>1
        <3>. QED
            BY <3>1, <3>2, <3>3, Zenon
    <2>. HIDE DEF S
    <2>3. 0 .. n \subseteq S
        BY <1>1, <2>1, <2>2, Induction, Zenon
    <2>. QED
        BY <2>3 DEF S
<1>4. \A i \in 0 .. n : E[i] <= E[n]
    <2>. DEFINE S == {m \in 0 .. n : \A i \in 0 .. m : E[i] <= E[m]}
    <2>1. 0 \in S
        BY <1>1, <1>2
    <2>2. ASSUME NEW m \in 1 .. n, m - 1 \in S
          PROVE  m \in S
        <3>1. E[m - 1] \in Nat /\ E[m] \in Nat /\ E[m - 1] <= E[m]
            <4>1. /\ E[m - 1] \in Nat /\ g.chain[m] \in Nat
                  /\ E[m] = E[m - 1] + 4 * g.chain[m]
                BY <1>1, <1>2, <1>3
            <4>. QED
                BY <4>1
        <3>2. ASSUME NEW i \in 0 .. m
              PROVE  E[i] <= E[m]
            <4>1. i = m \/ i \in 0 .. m - 1
                BY <1>1
            <4>. QED
                BY <1>1, <1>3, <2>2, <3>1, <4>1
        <3>. QED
            BY <3>2
    <2>. HIDE DEF S
    <2>3. 0 .. n \subseteq S
        BY <1>1, <2>1, <2>2, Induction, Zenon
    <2>. QED
        BY <1>1, <2>3 DEF S
<1>. QED
    BY <1>1, <1>2, <1>3, <1>4, Zenon DEF E

\* A header that a turn of the loop accepts.
Fits(g, j) ==
    g.chain[j] > 0 /\ Ends(g)[j] <= MaxHdrBytes /\ Ends(g)[j] <= g.size

\* After a turn the offset is where the headers so far end, if all of them fit.
LEMMA OffsetsAreEnds ==
    ASSUME NEW g \in Payload(TEID), NEW n, n = Len(g.chain),
           NEW i \in 0 .. MaxExtHeaders
    PROVE  LET k == IF i <= n THEN i ELSE n
           IN  Offsets(g)[i] = IF \A j \in 1 .. k : Fits(g, j) THEN Ends(g)[k]
                               ELSE Truncated
<1>. DEFINE E == Ends(g)
            O == Offsets(g)
            Upto(m) == IF m <= n THEN m ELSE n
            Good(m) == \A j \in 1 .. Upto(m) : Fits(g, j)
            S == {m \in 0 .. MaxExtHeaders :
                    O[m] = IF Good(m) THEN E[Upto(m)] ELSE Truncated}
<1>1. /\ n \in Nat /\ g.size \in Nat /\ E[0] = 12
      /\ \A j \in 1 .. n : /\ g.chain[j] \in Nat
                           /\ E[j] = E[j - 1] + 4 * g.chain[j]
      /\ \A j \in 0 .. n : E[j] \in Nat /\ E[j] >= 12
      /\ MaxExtHeaders \in Nat /\ MaxHdrBytes \in Nat
    BY EndsType, GTPUAssumption, Zenon
<1>2. O[0] = 12 /\ \A m \in 1 .. MaxExtHeaders :
        O[m] = IF O[m - 1] = Truncated \/ m > n THEN O[m - 1]
               ELSE Step(g, O[m - 1], m)
    BY <1>1, OffsetsFacts
<1>. HIDE DEF E, O
<1>3. 0 \in S
    BY <1>1, <1>2
<1>4. ASSUME NEW m \in 1 .. MaxExtHeaders, m - 1 \in S
      PROVE  m \in S
    <2>1. O[m - 1] = IF Good(m - 1) THEN E[Upto(m - 1)] ELSE Truncated
        BY <1>4, Zenon
    <2>2. CASE m > n
        <3>1. Upto(m) = Upto(m - 1) /\ O[m] = O[m - 1]
            BY <1>1, <1>2, <2>2
        <3>. QED
            BY <2>1, <3>1
    <2>3. CASE m <= n
        <3>1. Upto(m) = m /\ Upto(m - 1) = m - 1 /\ m \in 1 .. n
            BY <1>1, <2>3
        <3>2. Good(m) <=> Good(m - 1) /\ Fits(g, m)
            BY <1>1, <3>1
        <3>. HIDE DEF Good, Upto
        <3>3. CASE ~Good(m - 1)
            <4>1. O[m] = Truncated
                BY <1>2, <2>1, <3>3, Zenon
            <4>. QED
                BY <3>2, <3>3, <4>1
        <3>4. CASE Good(m - 1)
            <4>1. O[m - 1] = E[m - 1] /\ E[m - 1] \in Nat /\ E[m - 1] >= 12
                BY <1>1, <2>1, <3>1, <3>4
            <4>2. O[m] = Step(g, E[m - 1], m)
                BY <1>1, <1>2, <3>1, <4>1 DEF Truncated
            <4>3. Step(g, E[m - 1], m) = IF Fits(g, m) THEN E[m] ELSE Truncated
                <5>1. /\ E[m] = E[m - 1] + 4 * g.chain[m] /\ g.chain[m] \in Nat
                      /\ g.size \in Nat /\ MaxHdrBytes \in Nat
                    BY <1>1, <3>1, Zenon
                <5>2. Fits(g, m) <=> /\ g.chain[m] > 0 /\ E[m] <= MaxHdrBytes
                                     /\ E[m] <= g.size
                    BY Zenon DEF Fits, E
                <5>3. \A a, x, L, z \in Nat :
                        \/ a > L - 4 \/ a + 1 > z
                        \/ x = 0 \/ a + 4 * x > L \/ a + 4 * x > z
                        <=> ~(x > 0 /\ a + 4 * x <= L /\ a + 4 * x <= z)
                    OBVIOUS
                <5>. QED
                    BY <4>1, <5>1, <5>2, <5>3, Zenon DEF Step
            <4>. QED
                BY <3>1, <3>2, <3>4, <4>2, <4>3
        <3>. QED
            BY <3>3, <3>4, Zenon
    <2>. QED
        BY <1>1, <2>2, <2>3
<1>. HIDE DEF S
<1>5. 0 .. MaxExtHeaders \subseteq S
    BY <1>1, <1>3, <1>4, Induction, Zenon
<1>6. i \in S
    BY <1>5, Zenon
<1>. QED
    BY <1>6, Zenon DEF S, O, E

\* parse_gtpu's loop accepts exactly the chains that are sound.
LEMMA WalkIsSound ==
    ASSUME NEW g \in Payload(TEID)
    PROVE  g.size >= 12 /\ Walk(g) <=> ChainIsSound(g)
<1>. DEFINE n == Len(g.chain)
            E == Ends(g)
            Good == \A j \in 1 .. n : Fits(g, j)
<1>1. /\ n \in Nat /\ g.size \in Nat /\ E[0] = 12 /\ DOMAIN g.chain = 1 .. n
      /\ \A j \in 0 .. n : E[j] \in Nat /\ E[j] >= 12 /\ E[j] <= E[n]
    BY EndsType DEF Payload
<1>2. MaxExtHeaders \in Nat /\ MaxHdrBytes \in Nat /\ MaxHdrBytes >= 12
    BY GTPUAssumption, Zenon
<1>3. Walk(g) <=> n <= MaxExtHeaders /\ Good
    <2>1. ASSUME n <= MaxExtHeaders
          PROVE  Offsets(g)[MaxExtHeaders] = IF Good THEN E[n] ELSE Truncated
        <3>1. MaxExtHeaders \in 0 .. MaxExtHeaders /\ (MaxExtHeaders <= n => MaxExtHeaders = n)
            BY <1>1, <1>2, <2>1
        <3>. QED
            BY <3>1, OffsetsAreEnds, Zenon
    <2>2. E[n] # Truncated
        BY <1>1 DEF Truncated
    <2>. QED
        BY <2>1, <2>2, Zenon DEF Walk
<1>4. Good /\ g.size >= 12 <=> /\ \A j \in 1 .. n : g.chain[j] > 0
                               /\ E[n] <= MaxHdrBytes /\ E[n] <= g.size
    <2>1. CASE n = 0
        BY <1>1, <1>2, <2>1
    <2>2. CASE n # 0
        <3>1. n \in 1 .. n
            BY <1>1, <2>2
        <3>2. Fits(g, n) <=> /\ g.chain[n] > 0 /\ E[n] <= MaxHdrBytes
                             /\ E[n] <= g.size
            BY Zenon DEF Fits
        <3>3. ASSUME NEW j \in 1 .. n, E[n] <= MaxHdrBytes, E[n] <= g.size
              PROVE  E[j] <= MaxHdrBytes /\ E[j] <= g.size
            <4>1. /\ E[j] \in Nat /\ E[n] \in Nat /\ E[j] <= E[n]
                  /\ MaxHdrBytes \in Nat /\ g.size \in Nat
                BY <1>1, <1>2, <3>1
            <4>. QED
                BY <3>3, <4>1
        <3>4. E[n] <= g.size => g.size >= 12
            BY <1>1, <3>1
        <3>. QED
            BY <3>1, <3>2, <3>3, <3>4, Zenon DEF Fits
    <2>. QED
        BY <2>1, <2>2, Zenon
<1>. QED
    BY <1>1, <1>3, <1>4, Zenon DEF ChainIsSound

\* parse_gtpu calls a header malformed exactly when it is unsound.
LEMMA MalformedIsUnsound ==
    ASSUME NEW g \in Payload(TEID)
    PROVE  Malformed(g) <=> ~FrameIsSound(g)
<1>1. g.size \in Nat /\ g.version1 \in BOOLEAN /\ g.optional \in BOOLEAN
    BY Zenon DEF Payload
<1>. QED
    BY <1>1, WalkIsSound DEF Malformed, FrameIsSound

\* The records of whole GTP-U packets that the ring buffers hold are marked
\* malformed exactly when their header is unsound, for headers of every size
\* and every chain of extension headers.
THEOREM MarkingHolds == FilterSpec => []MalformedIsMarked
<1>1. ASSUME RingInv, NEW f \in {4, 6}, NEW i \in DOMAIN ring[f],
             ring[f][i].pkt.whole, ring[f][i].pkt.port = "gtpu"
      PROVE  ring[f][i].malformed <=> ~FrameIsSound(ring[f][i].pkt.gtp)
    <2>1. ring[f][i].pkt.gtp \in Payload(TEID) /\ IsAttributed(ring[f][i])
        BY <1>1, RingIsAttributed, Zenon DEF Events, Packet
    <2>. QED
        BY <1>1, <2>1, MalformedIsUnsound, Zenon DEF IsAttributed
<1>2. RingInv => MalformedIsMarked
    BY <1>1, Zenon DEF MalformedIsMarked
<1>. QED
    BY <1>2, RingHolds, PTL
=============================================================================
