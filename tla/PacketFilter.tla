---------------------------- MODULE PacketFilter ----------------------------
(***************************************************************************)
(* The XDP program of bpf/packet_filter.c, run by several CPUs at once. A  *)
(* run holds a packet from its arrival to its verdict and reads and writes *)
(* the shared maps without atomic operations: each tracker looks an entry  *)
(* up, and stores through the pointer later. The rate maps evict; the      *)
(* blocklists are the operator's.                                          *)
(***************************************************************************)
EXTENDS GTPU, FiniteSets

CONSTANTS
    CPU,
    Source, TEID,
    Port,                \* UDP ports that are not signaling ports
    Nodes,               \* instances: the traffic and receive queues of a node
    ScanThreshold,       \* SCAN_EMIT_THRESHOLD
    MultiportThreshold,  \* MULTIPORT_SCAN_THRESHOLD
    RateWindow, MultiportWindow,  \* in ticks
    RingSize             \* records a ring buffer holds

Tunnel == Source \X TEID
SignalingPort == {"gtpu", "sip"}

\* The headers of a frame, as far as the program reads them.
Packet ==
    [ip : {4, 6}, source : Source, ihl : 0 .. 15, udp : BOOLEAN,
     offset : Nat, whole : BOOLEAN, port : Port \cup SignalingPort,
     gtp : Payload(TEID)]

ASSUME FilterAssumption ==
    /\ NoTEID \notin TEID
    /\ {ScanThreshold, MultiportThreshold} \subseteq Nat \ {0, 1}
    /\ {RateWindow, MultiportWindow, RingSize} \subseteq Nat
    /\ \A n \in Nodes :
        /\ n.traffic \subseteq Packet /\ n.queues \in [Source -> SUBSET CPU]
        /\ {n.packets, n.ticks, n.blocks, n.evictions} \subseteq Nat

VARIABLES
    node,      \* the instance: its traffic, the queues of a source, and the
               \* bounds: packets, ticks, blocks and evictions
    time,
    blocked,   \* blocklist and tunnel_blocklist, of both families
    table,     \* the entries of the LRU maps: <<map, key>> to entry
    ring,      \* signaling_events and signaling_events_v6
    cpu,       \* the run of the program on each CPU
    arrived,   \* packets so far
    left,      \* what remains of the bounds
    counted,   \* history: the times of the packets counted, by entry
    touched,   \* history: ports seen by the scan detector, with their times
    reports,   \* history: the starts of the windows reported, by entry
    evicted,   \* history: entries that were evicted
    late       \* history: packets a CPU counted for a key since it was blocked

history == <<counted, touched, reports, evicted, late>>
filterVars ==
    <<node, time, blocked, table, ring, cpu, arrived, left, history>>

-----------------------------------------------------------------------------
(* A run of the program: where it is, its packet and timestamp, and what its *)
(* tracker has in hand: the entry it read, if there was one, and whether the *)
(* element it points to is still in the map. A tracker looks, stores, and  *)
(* resets the count of a window it has just begun.                         *)

Idle ==
    [pc |-> "idle", pkt |-> <<>>, now |-> 0, stage |-> "look", seen |-> {},
     live |-> TRUE, rate |-> 0]

FilterInit ==
    /\ node \in Nodes
    /\ time = 0 /\ arrived = 0
    /\ blocked = {} /\ table = <<>> /\ ring = [f \in {4, 6} |-> <<>>]
    /\ cpu = [c \in CPU |-> Idle]
    /\ left = [blocks |-> node.blocks, evictions |-> node.evictions]
    /\ counted = <<>> /\ touched = {} /\ reports = <<>> /\ evicted = {}
    /\ late = [k \in Source \cup Tunnel |-> [c \in CPU |-> 0]]

\* The entry a run's tracker works on: map, source, and the tunnel or port of
\* the key. IPv6 has a map of its own for each purpose.
SlotOf(pc, p) ==
    LET v6 == p.ip = 6
    IN  CASE pc = "signal" ->
               <<IF v6 THEN "signal_rate_v6" ELSE "signal_rate", p.source, "">>
          [] pc = "tunnel" ->
               <<IF v6 THEN "tunnel_rate_v6" ELSE "tunnel_rate", p.source,
                 p.gtp.teid>>
          [] pc = "scan" ->
               <<IF v6 THEN "scan_rate_v6" ELSE "scan_rate", p.source, p.port>>
          [] pc = "ports" ->
               <<IF v6 THEN "port_scan_v6" ELSE "port_scan", p.source, "">>

Slot(c) == SlotOf(cpu[c].pc, cpu[c].pkt)

At(c, pc, ip) == cpu[c].pc = pc /\ cpu[c].pkt.ip = ip

\* The rest of a run, once its tracker or its emission is done.
Goto(c, pc, rate) ==
    IF pc = "idle" THEN Idle
    ELSE [cpu[c] EXCEPT !.pc = pc, !.stage = "look", !.seen = {},
                        !.live = TRUE, !.rate = rate]

-----------------------------------------------------------------------------
(* Arrival: the headers and the source blocklist. *)

\* is_signaling_port, after the check for a complete UDP header.
FirstStep(p) ==
    IF ~p.whole THEN "short"
    ELSE IF p.port \in SignalingPort THEN "signal" ELSE "scan"

Begin(c, p, pc) ==
    /\ cpu' = [cpu EXCEPT ![c] =
                IF pc = "idle" THEN Idle
                ELSE [Idle EXCEPT !.pc = pc, !.pkt = p, !.now = time]]
    /\ arrived' = arrived + 1
    /\ UNCHANGED <<node, time, blocked, table, ring, left, history>>

\* A packet of a source comes on one of its queues. Past the Ethernet header
\* and at most one VLAN tag it is IPv4 or IPv6: anything else passes.
Arrives(c, p) ==
    /\ cpu[c].pc = "idle" /\ arrived < node.packets
    /\ c \in node.queues[p.source]

ReceiveIPv6(c, p) ==
    /\ Arrives(c, p) /\ p.ip = 6
    /\ Begin(c, p, IF p.source \in blocked \/ ~p.udp THEN "idle"
                   ELSE FirstStep(p))

\* A header length below the minimum passes before the blocklist is asked,
\* a fragment that is not the first passes after.
ReceiveIPv4(c, p) ==
    /\ Arrives(c, p) /\ p.ip = 4
    /\ Begin(c, p, IF \/ p.ihl < 5 \/ p.source \in blocked
                      \/ ~p.udp \/ p.offset # 0
                   THEN "idle" ELSE FirstStep(p))

-----------------------------------------------------------------------------
(* The trackers. *)

Look(c) ==
    /\ cpu[c].stage = "look"
    /\ cpu' = [cpu EXCEPT ![c].stage = "store",
                          ![c].seen = {table[s] :
                                s \in {Slot(c)} \cap DOMAIN table}]
    /\ UNCHANGED <<node, time, blocked, table, ring, arrived, left, history>>

\* Mutant: a window lasts a tick too long.
ExpiredLate(now, start, window) == now < start \/ now - start > window + 1

\* The comparison of unsigned 64-bit times: a start that is later than now
\* wraps round and counts as expired.
Expired(now, start, window) == now < start \/ now - start > window

\* What the store may find at the end of its pointer: the entry as it is by
\* now, or what became of it when it left the map.
Current(c, e) == IF cpu[c].live THEN table[Slot(c)] ELSE e

\* A window that has run out begins anew with two stores, of its start and
\* then of its count. Others may run between them.
Roll(c) ==
    /\ cpu[c].stage = "store"
    /\ \E e \in cpu[c].seen : Expired(cpu[c].now, e.start, RateWindow)
    /\ cpu' = [cpu EXCEPT ![c].stage = "reset"]
    /\ table' = IF cpu[c].live
                THEN [table EXCEPT ![Slot(c)].start = cpu[c].now] ELSE table
    /\ UNCHANGED <<node, time, blocked, ring, arrived, left, history>>

\* The ways to count a packet: a new entry, the first packet of a window, and
\* one more. An increment that races may use the count it read or the one it
\* finds.
Count(c) ==
    LET fresh == [start |-> cpu[c].now, count |-> 1]
    IN  IF cpu[c].seen = {}
        THEN {[insert |-> TRUE, entry |-> fresh, prior |-> 0]}
        ELSE UNION {IF cpu[c].stage = "reset"
                    THEN {[insert |-> FALSE, prior |-> 0,
                           entry |-> [Current(c, fresh) EXCEPT !.count = 1]]}
                    ELSE IF Expired(cpu[c].now, e.start, RateWindow) THEN {}
                    ELSE {[insert |-> FALSE, prior |-> e.count,
                           entry |-> [Current(c, e) EXCEPT !.count = n + 1]] :
                             n \in {e.count, Current(c, e).count}}
                      : e \in cpu[c].seen}

\* The store goes to the map, unless its element has left it. Inserting
\* replaces the element others may point to.
Store(c, o, pc, rate) ==
    LET s == Slot(c)
    IN  /\ table' = IF o.insert \/ cpu[c].live
                    THEN [r \in DOMAIN table \cup {s} |->
                            IF r = s THEN o.entry ELSE table[r]]
                    ELSE table
        /\ cpu' = [d \in CPU |->
                    IF d = c THEN Goto(c, pc, rate)
                    ELSE IF /\ o.insert /\ cpu[d].stage # "look"
                            /\ Slot(d) = s
                    THEN [cpu[d] EXCEPT !.live = FALSE] ELSE cpu[d]]
        /\ UNCHANGED <<node, time, blocked, ring, arrived, left, evicted>>

\* The times a history has of an entry, and the history with one more.
Logged(log, s) == IF s \in DOMAIN log THEN log[s] ELSE <<>>
Record(log, s, t) ==
    [r \in DOMAIN log \cup {s} |->
        IF r = s THEN Append(Logged(log, s), t) ELSE log[r]]

\* History of a packet that is counted for a key.
Traces(c, key) ==
    /\ counted' = Record(counted, Slot(c), cpu[c].now)
    /\ late' = IF key \in blocked
               THEN [late EXCEPT ![key][c] = @ + 1] ELSE late
    /\ UNCHANGED touched

Reports(c, o) == reports' = Record(reports, Slot(c), o.entry.start)

CountSource(c) ==
    \/ Look(c) \/ Roll(c)
    \/ /\ cpu[c].stage # "look"
       /\ \E o \in Count(c) :
            Store(c, o, IF /\ cpu[c].pkt.port = "gtpu"
                           /\ TEIDOf(cpu[c].pkt.gtp) # NoTEID
                        THEN "teid" ELSE "emit", 0)
       /\ Traces(c, cpu[c].pkt.source)
       /\ UNCHANGED reports

track_signal_rate(c) == At(c, "signal", 4) /\ CountSource(c)
track_signal_rate_v6(c) == At(c, "signal", 6) /\ CountSource(c)

\* The rate that goes into the event includes the packet.
CountTunnel(c) ==
    \/ Look(c) \/ Roll(c)
    \/ /\ cpu[c].stage # "look"
       /\ \E o \in Count(c) : Store(c, o, "emit", o.entry.count)
       /\ Traces(c, <<cpu[c].pkt.source, cpu[c].pkt.gtp.teid>>)
       /\ UNCHANGED reports

track_tunnel_rate(c) == At(c, "tunnel", 4) /\ CountTunnel(c)
track_tunnel_rate_v6(c) == At(c, "tunnel", 6) /\ CountTunnel(c)

\* Mutant: every packet from the threshold on is reported.
IsOver(prior) == prior + 1 >= ScanThreshold

\* The count before the packet tells the one that crosses the threshold.
Crosses(prior) == prior + 1 = ScanThreshold

CountScan(c) ==
    \/ Look(c) \/ Roll(c)
    \/ /\ cpu[c].stage # "look"
       /\ \E o \in Count(c) :
            /\ Store(c, o, IF Crosses(o.prior) THEN "burst" ELSE "ports", 0)
            /\ IF Crosses(o.prior) THEN Reports(c, o) ELSE UNCHANGED reports
       /\ Traces(c, cpu[c].pkt.source)

track_scan_rate(c) == At(c, "scan", 4) /\ CountScan(c)
track_scan_rate_v6(c) == At(c, "scan", 6) /\ CountScan(c)

Ports == 0 .. MultiportThreshold - 1
NoPort == "none"

\* Mutant: a port is new although the window has it.
AnyPort(e, port) == ~e.emitted /\ e.count < MultiportThreshold

\* Not reported yet, and none of the ports the window has.
IsNewPort(e, port) ==
    /\ ~e.emitted /\ e.count < MultiportThreshold
    /\ \A i \in 0 .. e.count - 1 : e.ports[i] # port

\* The ways a packet's port may be entered: a new window, or one more port of
\* the window. The place in the array is the one that was read; an increment
\* that races may use the count it read or the count it finds.
Touch(c) ==
    LET port == cpu[c].pkt.port
        old == {e \in cpu[c].seen :
                    ~Expired(cpu[c].now, e.start, MultiportWindow)}
    IN  IF old = {}
        THEN {[insert |-> TRUE, report |-> FALSE,
               entry |-> [start |-> cpu[c].now, count |-> 1,
                          emitted |-> FALSE,
                          ports |-> [i \in Ports |->
                                       IF i = 0 THEN port ELSE NoPort]]]}
        ELSE UNION {{[insert |-> FALSE, report |-> n + 1 = MultiportThreshold,
                      entry |-> [Current(c, e) EXCEPT
                                    !.ports[e.count] = port, !.count = n + 1,
                                    !.emitted = @ \/ n + 1 = MultiportThreshold]] :
                       n \in {e.count, Current(c, e).count}} :
                         e \in {d \in old : IsNewPort(d, port)}}

TouchPort(c) ==
    LET tried == [slot |-> Slot(c), port |-> cpu[c].pkt.port,
                  now |-> cpu[c].now]
    IN  \/ Look(c)
        \/ /\ cpu[c].stage = "store"
           /\ \/ \E o \in Touch(c) :
                   /\ Store(c, o, IF o.report THEN "portscan" ELSE "idle", 0)
                   /\ IF o.report THEN Reports(c, o) ELSE UNCHANGED reports
              \/ /\ Touch(c) = {} /\ cpu' = [cpu EXCEPT ![c] = Idle]
                 /\ UNCHANGED <<node, time, blocked, table, ring, arrived,
                                left, evicted, reports>>
           /\ touched' = touched \cup {tried}
           /\ UNCHANGED <<counted, late>>

track_port_scan(c) == At(c, "ports", 4) /\ TouchPort(c)
track_port_scan_v6(c) == At(c, "ports", 6) /\ TouchPort(c)

-----------------------------------------------------------------------------
(* The tunnel blocklist, the ring buffers and the verdict. *)

\* Mutant: the tunnel's blocklist is not asked.
CheckNoTunnel(c) ==
    /\ cpu[c].pc = "teid"
    /\ cpu' = [cpu EXCEPT ![c] = Goto(c, "tunnel", 0)]
    /\ UNCHANGED <<node, time, blocked, table, ring, arrived, left, history>>

\* A packet of a blocked tunnel is dropped here, after it was counted for its
\* source and before it is counted for its tunnel.
CheckTunnel(c) ==
    /\ cpu[c].pc = "teid"
    /\ cpu' = [cpu EXCEPT ![c] =
                Goto(c, IF <<cpu[c].pkt.source, cpu[c].pkt.gtp.teid>> \in blocked
                        THEN "idle" ELSE "tunnel", 0)]
    /\ UNCHANGED <<node, time, blocked, table, ring, arrived, left, history>>

\* The record of the packet in hand.
Event(c) ==
    LET p == cpu[c].pkt
        gtpu == cpu[c].pc = "emit" /\ p.port = "gtpu"
    IN  [pkt |-> p, rate |-> cpu[c].rate,
         malformed |-> cpu[c].pc = "short" \/ (gtpu /\ Malformed(p.gtp)),
         teid |-> IF gtpu THEN TEIDOf(p.gtp) ELSE NoTEID]

\* A full ring buffer loses the observation, never the packet.
Emit(c, f) ==
    /\ cpu[c].pc \in {"short", "emit", "burst", "portscan"}
    /\ cpu[c].pkt.ip = f
    /\ ring' = IF Len(ring[f]) < RingSize
               THEN [ring EXCEPT ![f] = Append(@, Event(c))] ELSE ring
    /\ cpu' = [cpu EXCEPT ![c] =
                Goto(c, IF cpu[c].pc = "burst" THEN "ports" ELSE "idle", 0)]
    /\ UNCHANGED <<node, time, blocked, table, arrived, left, history>>

emit_signaling_event(c) == Emit(c, 4)
emit_signaling_event_v6(c) == Emit(c, 6)

-----------------------------------------------------------------------------
(* The operator, the kernel's eviction and the clock. *)

\* readSignalingEvents and its twin take a record off their ring buffer.
ReadEvent(f) ==
    /\ ring[f] # <<>>
    /\ ring' = [ring EXCEPT ![f] = Tail(@)]
    /\ UNCHANGED <<node, time, blocked, table, cpu, arrived, left, history>>

\* Loader.Block and BlockTunnel, Unblock and UnblockTunnel.
Block(k) ==
    /\ k \notin blocked /\ left.blocks > 0
    /\ blocked' = blocked \cup {k}
    /\ left' = [left EXCEPT !.blocks = @ - 1]
    /\ late' = [late EXCEPT ![k] = [c \in CPU |-> 0]]
    /\ UNCHANGED <<node, time, table, ring, cpu, arrived, counted, touched,
                   reports, evicted>>

Unblock(k) ==
    /\ k \in blocked
    /\ blocked' = blocked \ {k}
    /\ UNCHANGED <<node, time, table, ring, cpu, arrived, left, history>>

\* The kernel makes room in an LRU map. Runs that point to the element keep
\* their pointer.
Evict(s) ==
    /\ left.evictions > 0 /\ left' = [left EXCEPT !.evictions = @ - 1]
    /\ table' = [r \in DOMAIN table \ {s} |-> table[r]]
    /\ cpu' = [c \in CPU |->
                IF cpu[c].stage # "look" /\ Slot(c) = s
                THEN [cpu[c] EXCEPT !.live = FALSE] ELSE cpu[c]]
    /\ evicted' = evicted \cup {s}
    /\ UNCHANGED <<node, time, blocked, ring, arrived, counted, touched,
                   reports, late>>

FilterTick ==
    /\ time < node.ticks /\ time' = time + 1
    /\ UNCHANGED <<node, blocked, table, ring, cpu, arrived, left, history>>

xdp_packet_filter(c) ==
    \/ \E p \in node.traffic : ReceiveIPv4(c, p) \/ ReceiveIPv6(c, p)
    \/ track_signal_rate(c) \/ track_signal_rate_v6(c)
    \/ CheckTunnel(c)
    \/ track_tunnel_rate(c) \/ track_tunnel_rate_v6(c)
    \/ track_scan_rate(c) \/ track_scan_rate_v6(c)
    \/ track_port_scan(c) \/ track_port_scan_v6(c)
    \/ emit_signaling_event(c) \/ emit_signaling_event_v6(c)

FilterNext ==
    \/ \E c \in CPU : xdp_packet_filter(c)
    \/ \E f \in {4, 6} : ReadEvent(f)
    \/ \E k \in Source \cup Tunnel : Block(k) \/ Unblock(k)
    \/ \E s \in DOMAIN table : Evict(s)
    \/ FilterTick

FilterSpec == FilterInit /\ [][FilterNext]_filterVars

-----------------------------------------------------------------------------
\* One CPU takes all the packets that reach the entry.
SoleQueue(s) == \E c \in CPU : node.queues[s[2]] = {c}

\* That is so, and the entry was not evicted and is not between the two stores
\* that begin a window.
Exact(s) ==
    /\ s \notin evicted /\ SoleQueue(s)
    /\ \A c \in CPU : cpu[c].stage = "reset" => Slot(c) # s

IsPortScan(s) == s[1] \in {"port_scan", "port_scan_v6"}
IsScan(s) == s[1] \in {"scan_rate", "scan_rate_v6"}

\* Exactly the latest n of a history are of those times.
Latest(log, times, n) ==
    /\ n <= Len(log)
    /\ \A i \in DOMAIN log : log[i] \in times <=> i > Len(log) - n

\* A rate counter never holds more packets than its key sent, whatever runs
\* of the program race for it; and when they cannot, it holds exactly the
\* packets of the window that began at its start: the latest of its key.
CountsAreReal ==
    \A s \in DOMAIN table : ~IsPortScan(s) =>
        LET e == table[s]
            window == e.start .. e.start + RateWindow
        IN  /\ e.count <= Len(Logged(counted, s))
            /\ Exact(s) => Latest(Logged(counted, s), window, e.count)

\* "emit once per window rather than once per packet", and "returns 1 exactly
\* once": an entry that one queue reaches has been reported once for its
\* window if it is over its threshold, and never otherwise.
OneReportPerWindow ==
    \A s \in DOMAIN table : Exact(s) /\ (IsScan(s) \/ IsPortScan(s)) =>
        LET over == IF IsScan(s) THEN table[s].count >= ScanThreshold
                    ELSE table[s].emitted
        IN  Latest(Logged(reports, s), {table[s].start}, IF over THEN 1 ELSE 0)

\* The ports of an entry's packets in the window that began at a start.
PortsTried(s, start) ==
    {x.port : x \in {y \in touched :
        /\ y.slot = s
        /\ y.now \in start .. start + MultiportWindow}}

\* A port scan is reported after MultiportThreshold distinct ports within a
\* window, when one queue's packets reach the entry. A run on another CPU may
\* enter a port that was entered since it looked, or overwrite one, which is
\* then entered again, so that fewer ports can count for that many: but one
\* port alone is never a scan.
PortScanIsReal ==
    \A s \in DOMAIN reports : \A i \in DOMAIN reports[s] : IsPortScan(s) =>
        LET ports == PortsTried(s, reports[s][i])
        IN  /\ \E p, q \in ports : p # q
            /\ SoleQueue(s) => Injection(Ports, ports) # {}

\* Packets of a blocked source or tunnel leave no trace in its own counters,
\* so that its rate can fall and its policy de-escalate: after a key is
\* blocked only packets that were past the check are counted for it, one a
\* CPU. (Packets of a blocked tunnel still count for their source.)
BlockedTrafficIsSilent ==
    \A k \in Source \cup Tunnel, c \in CPU : late[k][c] <= 1

\* An event is marked malformed exactly when its header is unsound.
MalformedIsMarked ==
    \A f \in {4, 6} : \A i \in DOMAIN ring[f] :
        LET e == ring[f][i]
        IN  e.pkt.whole /\ e.pkt.port = "gtpu" =>
                (e.malformed <=> ~FrameIsSound(e.pkt.gtp))

\* An event whose extension headers are unsound is still attributed to its
\* tunnel, and it carries a tunnel's rate exactly when it has a tunnel: a bad
\* chain is no way round the per-tunnel rate.
MalformedIsAttributed ==
    \A f \in {4, 6} : \A i \in DOMAIN ring[f] :
        LET e == ring[f][i]
        IN  e.pkt.whole /\ e.pkt.port = "gtpu" =>
            /\ HasTEID(e.pkt.gtp) => e.teid = e.pkt.gtp.teid
            /\ e.teid # NoTEID <=> e.rate > 0
=============================================================================
