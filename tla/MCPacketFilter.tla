--------------------------- MODULE MCPacketFilter ---------------------------
(***************************************************************************)
(* Small nodes for the packet filter: which packets come, how many, and    *)
(* the CPUs that serve each source's receive queues.                       *)
(***************************************************************************)
EXTENDS PacketFilter, SequencesExt, TLC

CONSTANTS c1, c2, s1, s2, t1, portA, portB, portC

NoGTP ==
    [size |-> 0, version1 |-> FALSE, type |-> "undefined", teid |-> NoTEID,
     optional |-> FALSE, chain |-> <<>>]

UDP(port) ==
    [ip |-> 4, source |-> s1, ihl |-> 5, udp |-> TRUE, offset |-> 0,
     whole |-> TRUE, port |-> port, gtp |-> NoGTP]

GTP(g) == [UDP("gtpu") EXCEPT !.gtp = g]

Plain == [NoGTP EXCEPT !.size = 20, !.version1 = TRUE, !.type = "tpdu",
                       !.teid = t1]
BadChain == [Plain EXCEPT !.optional = TRUE, !.chain = <<0>>]

OnIPv6(p) == [p EXCEPT !.ip = 6, !.source = s2]

\* Every header with up to five short or long extension headers, cut off
\* anywhere around their ends.
Headers ==
    {[Plain EXCEPT !.size = n, !.optional = o, !.chain = ch] :
        n \in {7, 8, 11, 12, 13, 16, 20, 31, 32, 63, 64, 68}, o \in BOOLEAN,
        ch \in {<<>>} \cup BoundedSeq({0, 1, 5, 13}, 2) \cup {<<1, 1, 1, 1>>,
                <<1, 1, 1, 1, 1>>, <<1, 1, 1, 0>>, <<5, 5, 3>>, <<5, 5, 4>>}}
    \cup {[Plain EXCEPT !.version1 = v, !.type = y, !.teid = t] :
            v \in BOOLEAN, y \in {"tpdu", "path", "undefined"},
            t \in {t1, NoTEID}}

OneQueue == [s \in Source |-> {c1}]
AllQueues == [s \in Source |-> CPU]

Node(traffic, queues, packets, ticks, blocks, evictions) ==
    [traffic |-> traffic, queues |-> queues, packets |-> packets,
     ticks |-> ticks, blocks |-> blocks, evictions |-> evictions]

\* Every header once; signaling and other traffic on one queue and on two.
Oddities ==
    {[UDP("sip") EXCEPT !.ihl = 4], [UDP("sip") EXCEPT !.udp = FALSE],
     [UDP("sip") EXCEPT !.offset = 1], [UDP("sip") EXCEPT !.whole = FALSE],
     UDP("sip")}
Tunnels == {GTP(Plain), GTP(BadChain)}
Probes == {UDP(portA), UDP(portB), UDP(portC)}

MCNodes ==
    {Node({GTP(g) : g \in Headers} \cup Oddities, OneQueue, 1, 0, 0, 0),
     Node(Tunnels, OneQueue, 3, 3, 1, 0),
     Node({GTP(Plain)}, AllQueues, 3, 2, 1, 1),
     Node(Probes, OneQueue, 4, 3, 0, 1),
     Node({UDP(portA), UDP(portB)}, AllQueues, 3, 3, 0, 0),
     Node({OnIPv6(p) : p \in Oddities \cup {GTP(Plain), UDP(portA),
            UDP(portB), UDP(portC)}}, OneQueue, 2, 1, 1, 1)}
=============================================================================
