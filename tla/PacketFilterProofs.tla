------------------------- MODULE PacketFilterProofs -------------------------
(***************************************************************************)
(* Proofs about the packet filter, for any number of CPUs, any traffic and *)
(* any interleaving of the runs: what the steps of a run may do, the types *)
(* of its state, and that blocked traffic leaves no trace.                 *)
(***************************************************************************)
EXTENDS PacketFilter, TLAPS

(* The SMT solver may take its time on a leaf that names no prover. *)
USE SMTT(60)

Pcs == {"idle", "short", "signal", "teid", "tunnel", "scan", "burst", "ports",
        "portscan", "emit"}
Tracking == {"signal", "tunnel", "scan", "ports"}

RateEntry == [start : Nat, count : Nat]
PortEntry ==
    [start : Nat, count : Nat, emitted : BOOLEAN,
     ports : [Ports -> Port \cup SignalingPort \cup {NoPort}]]
Entry(s) == IF IsPortScan(s) THEN PortEntry ELSE RateEntry

Run ==
    [pc : Pcs, pkt : Packet \cup {<<>>}, now : Nat,
     stage : {"look", "store", "reset"}, seen : SUBSET (RateEntry \cup PortEntry),
     live : BOOLEAN, rate : Nat]

Slots == {SlotOf(pc, p) : pc \in Tracking, p \in Packet}
IsLog(log) == \A s \in DOMAIN log : log[s] \in Seq(Nat)

\* A run has a packet of one of its CPU's queues, and a tunnel's packet has a
\* TEID. What a tracker has in hand is typed, and while it is live the element
\* it points to is in the map.
RunInv(c) ==
    /\ cpu[c].now <= time
    /\ cpu[c].pc # "idle" =>
        cpu[c].pkt \in Packet /\ c \in node.queues[cpu[c].pkt.source]
    /\ cpu[c].pc \in {"teid", "tunnel"} => TEIDOf(cpu[c].pkt.gtp) # NoTEID
    /\ cpu[c].stage = "look" => cpu[c].live
    /\ cpu[c].stage # "look" =>
        /\ cpu[c].pc \in Tracking /\ cpu[c].seen \subseteq Entry(Slot(c))
        /\ cpu[c].live /\ cpu[c].seen # {} => Slot(c) \in DOMAIN table
        /\ cpu[c].stage = "reset" => cpu[c].pc # "ports" /\ cpu[c].seen # {}

TableInv ==
    \A s \in DOMAIN table :
        s \in Slots /\ table[s] \in Entry(s) /\ table[s].start <= time

FilterType ==
    /\ node \in Nodes /\ time \in Nat /\ cpu \in [CPU -> Run]
    /\ IsLog(counted) /\ IsLog(reports)
    /\ TableInv /\ \A c \in CPU : RunInv(c)

-----------------------------------------------------------------------------
(* What the steps do. *)

LEMMA SlotFacts ==
    ASSUME NEW pc \in Tracking, NEW p \in Packet
    PROVE  /\ SlotOf(pc, p) \in Slots
           /\ SlotOf(pc, p)[2] = p.source
           /\ IsPortScan(SlotOf(pc, p)) <=> pc = "ports"
           /\ IsScan(SlotOf(pc, p)) <=> pc = "scan"
<1>1. SlotOf(pc, p) \in Slots
    BY DEF Slots
<1>2. p.ip \in {4, 6}
    BY DEF Packet
<1>3. CASE pc = "signal"
    BY <1>1, <1>2, <1>3, Zenon DEF SlotOf, IsPortScan, IsScan
<1>4. CASE pc = "tunnel"
    BY <1>1, <1>2, <1>4 DEF SlotOf, IsPortScan, IsScan
<1>5. CASE pc = "scan"
    BY <1>1, <1>2, <1>5 DEF SlotOf, IsPortScan, IsScan
<1>6. CASE pc = "ports"
    BY <1>1, <1>2, <1>6, Zenon DEF SlotOf, IsPortScan, IsScan
<1>. QED
    BY <1>3, <1>4, <1>5, <1>6 DEF Tracking

LEMMA IdleIsRun == Idle \in Run
BY DEF Idle, Run, Pcs

LEMMA GotoFacts ==
    ASSUME NEW c \in CPU, cpu[c] \in Run, NEW pc \in Pcs, NEW rate \in Nat
    PROVE  /\ Goto(c, pc, rate) \in Run
           /\ Goto(c, pc, rate).pc = pc /\ Goto(c, pc, rate).stage = "look"
           /\ pc # "idle" => /\ Goto(c, pc, rate).pkt = cpu[c].pkt
                             /\ Goto(c, pc, rate).now = cpu[c].now
                             /\ Goto(c, pc, rate).rate = rate
           /\ pc = "idle" => Goto(c, pc, rate) = Idle
BY IdleIsRun, Zenon DEF Goto, Idle, Run

LEMMA GotoIsLive ==
    ASSUME NEW c \in CPU, cpu[c] \in Run, NEW pc, NEW rate
    PROVE  Goto(c, pc, rate).live
BY Zenon DEF Goto, Idle, Run

\* The three ways to count a packet, and the two ways to enter a port.
Fresh(c) ==
    [insert |-> TRUE, prior |-> 0,
     entry |-> [start |-> cpu[c].now, count |-> 1]]
Restart(c) ==
    [insert |-> FALSE, prior |-> 0,
     entry |-> [Current(c, [start |-> cpu[c].now, count |-> 1])
                    EXCEPT !.count = 1]]
Increment(c, e, n) ==
    [insert |-> FALSE, prior |-> e.count,
     entry |-> [Current(c, e) EXCEPT !.count = n + 1]]

FirstPort(c) ==
    [insert |-> TRUE, report |-> FALSE,
     entry |-> [start |-> cpu[c].now, count |-> 1, emitted |-> FALSE,
                ports |-> [i \in Ports |->
                            IF i = 0 THEN cpu[c].pkt.port ELSE NoPort]]]
NextPort(c, e, n) ==
    [insert |-> FALSE, report |-> n + 1 = MultiportThreshold,
     entry |-> [Current(c, e) EXCEPT
                    !.ports[e.count] = cpu[c].pkt.port, !.count = n + 1,
                    !.emitted = @ \/ n + 1 = MultiportThreshold]]

LEMMA CountCases ==
    ASSUME NEW c \in CPU, NEW o \in Count(c)
    PROVE  \/ cpu[c].seen = {} /\ o = Fresh(c)
           \/ cpu[c].seen # {} /\ cpu[c].stage = "reset" /\ o = Restart(c)
           \/ /\ cpu[c].stage # "reset"
              /\ \E e \in cpu[c].seen : \E n \in {e.count, Current(c, e).count} :
                    /\ ~Expired(cpu[c].now, e.start, RateWindow)
                    /\ o = Increment(c, e, n)
<1>1. CASE cpu[c].seen = {}
    BY <1>1 DEF Count, Fresh
<1>2. CASE cpu[c].seen # {}
    <2>1. PICK e \in cpu[c].seen :
            o \in IF cpu[c].stage = "reset" THEN {Restart(c)}
                  ELSE IF Expired(cpu[c].now, e.start, RateWindow) THEN {}
                  ELSE {Increment(c, e, n) : n \in {e.count, Current(c, e).count}}
        BY <1>2, Zenon DEF Count, Restart, Increment
    <2>. QED
        BY <1>2, <2>1, Zenon
<1>. QED
    BY <1>1, <1>2

LEMMA TouchCases ==
    ASSUME NEW c \in CPU, NEW o \in Touch(c)
    PROVE  \/ /\ \A e \in cpu[c].seen :
                    Expired(cpu[c].now, e.start, MultiportWindow)
              /\ o = FirstPort(c)
           \/ \E e \in cpu[c].seen : \E n \in {e.count, Current(c, e).count} :
                /\ ~Expired(cpu[c].now, e.start, MultiportWindow)
                /\ IsNewPort(e, cpu[c].pkt.port)
                /\ o = NextPort(c, e, n)
<1>. DEFINE old == {e \in cpu[c].seen :
                        ~Expired(cpu[c].now, e.start, MultiportWindow)}
<1>1. CASE old = {}
    BY <1>1 DEF Touch, FirstPort
<1>2. CASE old # {}
    <2>1. PICK e \in {d \in old : IsNewPort(d, cpu[c].pkt.port)} :
            o \in {NextPort(c, e, n) : n \in {e.count, Current(c, e).count}}
        BY <1>2, Zenon DEF Touch, NextPort
    <2>. QED
        BY <2>1, Zenon
<1>. QED
    BY <1>1, <1>2

\* A count that is stored is typed, and a window never begins in the future.
LEMMA CountFacts ==
    ASSUME FilterType, NEW c \in CPU, cpu[c].stage # "look",
           cpu[c].pc \in Tracking \ {"ports"}, NEW o \in Count(c)
    PROVE  /\ o.insert \in BOOLEAN /\ o.prior \in Nat
           /\ o.entry \in Entry(Slot(c))
           /\ o.insert \/ cpu[c].live => o.entry.start <= time
<1>1. /\ cpu[c] \in Run /\ RunInv(c) /\ time \in Nat
    BY DEF FilterType
<1>2. Entry(Slot(c)) = RateEntry
    BY <1>1, SlotFacts DEF RunInv, Slot, Entry, Tracking
<1>3. cpu[c].seen \subseteq RateEntry /\ cpu[c].now \in 0 .. time
    BY <1>1, <1>2 DEF RunInv, Run
<1>4. ASSUME cpu[c].live, cpu[c].seen # {}
      PROVE  table[Slot(c)] \in RateEntry /\ table[Slot(c)].start <= time
    BY <1>1, <1>2, <1>4 DEF FilterType, TableInv, RunInv
<1>5. CASE o = Fresh(c)
    BY <1>2, <1>3, <1>5 DEF RateEntry, Fresh
<1>6. CASE cpu[c].seen # {} /\ o = Restart(c)
    BY <1>2, <1>3, <1>4, <1>6 DEF RateEntry, Restart, Current
<1>7. ASSUME NEW e \in cpu[c].seen, NEW n \in {e.count, Current(c, e).count},
             o = Increment(c, e, n)
      PROVE  /\ o.insert \in BOOLEAN /\ o.prior \in Nat
             /\ o.entry \in Entry(Slot(c))
             /\ o.insert \/ cpu[c].live => o.entry.start <= time
    <2>1. e \in RateEntry
        BY <1>3
    <2>. QED
        BY <1>2, <1>4, <1>7, <2>1 DEF RateEntry, Current, Increment
<1>. QED
    BY <1>5, <1>6, <1>7, CountCases, ZenonT(60)

Entered(w, i, port, n, b) ==
    [w EXCEPT !.ports[i] = port, !.count = n + 1, !.emitted = b]

LEMMA PortEntered ==
    ASSUME NEW w \in PortEntry, NEW i \in Nat, NEW port \in Port \cup SignalingPort,
           NEW n \in Nat, NEW b \in BOOLEAN
    PROVE  /\ Entered(w, i, port, n, b) \in PortEntry
           /\ Entered(w, i, port, n, b).start = w.start
           /\ Entered(w, i, port, n, b).emitted = b
<1>. DEFINE e == Entered(w, i, port, n, b)
<1>. DEFINE q == [w.ports EXCEPT ![i] = port]
<1>1. q \in [Ports -> Port \cup SignalingPort \cup {NoPort}]
    BY Zenon DEF PortEntry
<1>2. e = [w EXCEPT !.ports = q, !.count = n + 1, !.emitted = b]
    BY DEF PortEntry, Entered
<1>. HIDE DEF q, e
<1>3. e = [start |-> w.start, count |-> n + 1, emitted |-> b, ports |-> q]
    BY <1>2, Zenon DEF PortEntry
<1>4. w.start \in Nat /\ n + 1 \in Nat
    BY DEF PortEntry
<1>5. e.start = w.start /\ e.emitted = b
    BY <1>3
<1>6. e \in PortEntry
    BY <1>1, <1>3, <1>4 DEF PortEntry
<1>. QED
    BY <1>5, <1>6 DEF e

LEMMA TouchFacts ==
    ASSUME FilterType, NEW c \in CPU, cpu[c].stage # "look",
           cpu[c].pc = "ports", NEW o \in Touch(c)
    PROVE  /\ o.insert \in BOOLEAN /\ o.report \in BOOLEAN
           /\ o.entry \in Entry(Slot(c))
           /\ o.insert \/ cpu[c].live => o.entry.start <= time
<1>1. /\ cpu[c] \in Run /\ RunInv(c) /\ time \in Nat
    BY DEF FilterType
<1>2. Entry(Slot(c)) = PortEntry
    BY <1>1, SlotFacts DEF RunInv, Slot, Entry, Tracking
<1>3. /\ cpu[c].seen \subseteq PortEntry /\ cpu[c].now \in 0 .. time
      /\ cpu[c].pkt.port \in Port \cup SignalingPort
    BY <1>1, <1>2 DEF RunInv, Run, Packet
<1>4. ASSUME cpu[c].live, cpu[c].seen # {}
      PROVE  table[Slot(c)] \in PortEntry /\ table[Slot(c)].start <= time
    BY <1>1, <1>2, <1>4, Zenon DEF FilterType, TableInv, RunInv
<1>5. CASE o = FirstPort(c)
    BY <1>2, <1>3, <1>5 DEF PortEntry, FirstPort
<1>6. ASSUME NEW e \in cpu[c].seen, NEW n \in {e.count, Current(c, e).count},
             o = NextPort(c, e, n)
      PROVE  /\ o.insert \in BOOLEAN /\ o.report \in BOOLEAN
             /\ o.entry \in Entry(Slot(c))
             /\ o.insert \/ cpu[c].live => o.entry.start <= time
    <2>. DEFINE w == Current(c, e)
    <2>1. e \in PortEntry /\ w \in PortEntry
        BY <1>3, <1>4 DEF Current
    <2>2. n \in Nat /\ e.count \in Nat
        BY <2>1 DEF PortEntry
    <2>. DEFINE b == w.emitted \/ n + 1 = MultiportThreshold
    <2>3. /\ o.entry = Entered(w, e.count, cpu[c].pkt.port, n, b)
          /\ o.insert = FALSE /\ o.report = (n + 1 = MultiportThreshold)
        BY <1>6, Zenon DEF NextPort, Entered
    <2>4. b \in BOOLEAN /\ o.report \in BOOLEAN
        BY <2>3, Zenon
    <2>. HIDE DEF w, b
    <2>5. o.entry.start = w.start /\ o.entry \in PortEntry
        <3>1. cpu[c].pkt.port \in Port \cup SignalingPort
            BY <1>3
        <3>2. LET new == Entered(w, e.count, cpu[c].pkt.port, n, b)
              IN  new \in PortEntry /\ new.start = w.start
            BY <2>1, <2>2, <2>4, <3>1, PortEntered
        <3>. QED
            BY <2>3, <3>2, Zenon
    <2>. QED
        BY <1>2, <1>4, <1>6, <2>3, <2>4, <2>5, Zenon DEF Current, w
<1>. QED
    BY <1>5, <1>6, TouchCases, Zenon

-----------------------------------------------------------------------------
(* What the steps of a run do, as far as the properties tell. *)

\* Is past the check of a key, and has yet to count for it.
IsPast(c, k) ==
    \/ cpu[c].pc \in {"signal", "scan"} /\ cpu[c].pkt.source = k
    \/ cpu[c].pc = "tunnel" /\ <<cpu[c].pkt.source, cpu[c].pkt.gtp.teid>> = k

\* The run of another CPU keeps its place; at most, its element is gone.
Bystander(c, d) ==
    /\ cpu'[d] \in Run /\ Slot(d)' = Slot(d)
    /\ cpu'[d].pc = cpu[d].pc /\ cpu'[d].pkt = cpu[d].pkt
    /\ cpu'[d].now = cpu[d].now /\ cpu'[d].stage = cpu[d].stage
    /\ cpu'[d].rate = cpu[d].rate
    /\ cpu'[d].seen = cpu[d].seen /\ (cpu'[d].live => cpu[d].live)
    /\ cpu[d].live /\ (cpu[d].stage = "look" \/ Slot(d) # Slot(c)) => cpu'[d].live

\* The entries that a run is not at stay as they are.
Moves(c) ==
    /\ node' = node /\ time' = time /\ evicted' = evicted /\ blocked' = blocked
    /\ cpu' = [d \in CPU |-> cpu'[d]] /\ cpu'[c] \in Run
    /\ \A d \in CPU \ {c} : Bystander(c, d)
    /\ DOMAIN table \subseteq DOMAIN table'
    /\ DOMAIN table' \subseteq DOMAIN table \cup {Slot(c)}
    /\ \A s \in DOMAIN table : s # Slot(c) => table'[s] = table[s]

Silently == table' = table /\ counted' = counted /\ reports' = reports /\ late' = late

\* Leaves a tracker, or has none.
Quiet(c) ==
    /\ cpu[c].stage # "reset" /\ Silently
    /\ \A d \in CPU \ {c} : cpu'[d] = cpu[d]
    /\ cpu'[c].stage = "look" /\ cpu'[c].live
    /\ IF cpu'[c].pc = "idle" THEN cpu'[c].now = 0
       ELSE /\ cpu'[c].pkt \in Packet /\ c \in node.queues[cpu'[c].pkt.source]
            /\ cpu'[c].now = IF cpu[c].pc = "idle" THEN time ELSE cpu[c].now
    /\ cpu'[c].pc \in {"teid", "tunnel"} => TEIDOf(cpu'[c].pkt.gtp) # NoTEID
    /\ \A k \in blocked : ~IsPast(c, k)'

Remains(c) ==
    /\ cpu[c].pc \in Tracking /\ Slot(c)' = Slot(c)
    /\ cpu'[c].pc = cpu[c].pc /\ cpu'[c].pkt = cpu[c].pkt
    /\ cpu'[c].now = cpu[c].now /\ (cpu'[c].live <=> cpu[c].live)

Looks(c) ==
    /\ Remains(c) /\ Silently
    /\ cpu[c].stage = "look" /\ cpu'[c].stage = "store"
    /\ cpu'[c].seen = {table[s] : s \in {Slot(c)} \cap DOMAIN table}

Rolls(c) ==
    /\ Remains(c) /\ cpu[c].pc # "ports"
    /\ cpu[c].stage = "store" /\ cpu'[c].stage = "reset"
    /\ cpu'[c].seen = cpu[c].seen
    /\ \E e \in cpu[c].seen : Expired(cpu[c].now, e.start, RateWindow)
    /\ counted' = counted /\ reports' = reports /\ late' = late
    /\ IF cpu[c].live
       THEN table'[Slot(c)] = [table[Slot(c)] EXCEPT !.start = cpu[c].now]
       ELSE table' = table

\* Stores, and goes on.
Stores(c, o) ==
    /\ cpu[c].stage # "look"
    /\ cpu'[c].pc \in Pcs \ {"signal", "scan", "tunnel"}
    /\ cpu'[c].stage = "look" /\ cpu'[c].live
    /\ IF cpu'[c].pc = "idle" THEN cpu'[c].now = 0
       ELSE cpu'[c].pkt = cpu[c].pkt /\ cpu'[c].now = cpu[c].now
    /\ cpu'[c].pc = "teid" => TEIDOf(cpu[c].pkt.gtp) # NoTEID
    /\ IF o.insert \/ cpu[c].live
       THEN Slot(c) \in DOMAIN table' /\ table'[Slot(c)] = o.entry
       ELSE table' = table
    /\ o.insert => \A d \in CPU \ {c} :
            cpu[d].stage # "look" /\ Slot(d) = Slot(c) => ~cpu'[d].live

KeyOf(c) ==
    IF cpu[c].pc = "tunnel" THEN <<cpu[c].pkt.source, cpu[c].pkt.gtp.teid>>
    ELSE cpu[c].pkt.source

Counts(c, o) ==
    /\ cpu[c].pc \in Tracking \ {"ports"} /\ o \in Count(c) /\ Stores(c, o)
    /\ counted' = Record(counted, Slot(c), cpu[c].now)
    /\ late' = IF KeyOf(c) \in blocked
               THEN [late EXCEPT ![KeyOf(c)][c] = @ + 1] ELSE late
    /\ IF cpu[c].pc = "scan" /\ Crosses(o.prior) THEN Reports(c, o)
       ELSE reports' = reports

Tried(c) ==
    [slot |-> Slot(c), port |-> cpu[c].pkt.port, now |-> cpu[c].now]

Touches(c, o) ==
    /\ cpu[c].pc = "ports" /\ o \in Touch(c) /\ Stores(c, o)
    /\ touched' = touched \cup {Tried(c)}
    /\ IF o.report THEN Reports(c, o) ELSE reports' = reports
    /\ counted' = counted /\ late' = late

Kinds(c) ==
    \/ Quiet(c) \/ Looks(c) \/ Rolls(c)
    \/ \E o : Counts(c, o) \/ Touches(c, o)

\* A step that changes no other run.
LEMMA OwnStep ==
    ASSUME FilterType, NEW c \in CPU, NEW r \in Run,
           cpu' = [cpu EXCEPT ![c] = r], DOMAIN table' = DOMAIN table,
           \A s \in DOMAIN table : s # Slot(c) => table'[s] = table[s],
           node' = node,
           time' = time, evicted' = evicted, blocked' = blocked
    PROVE  Moves(c) /\ cpu'[c] = r /\ \A d \in CPU \ {c} : cpu'[d] = cpu[d]
<1>1. \A d \in CPU : cpu[d] \in Run
    BY DEF FilterType
<1>2. /\ cpu' = [d \in CPU |-> cpu'[d]] /\ cpu'[c] = r
      /\ \A d \in CPU \ {c} : cpu'[d] = cpu[d]
    BY Zenon DEF FilterType
<1>3. ASSUME NEW d \in CPU \ {c}
      PROVE  Bystander(c, d)
    BY <1>1, <1>2, <1>3, Zenon DEF Bystander, Slot
<1>. QED
    BY <1>2, <1>3, Zenon DEF Moves

LEMMA ReceiveIsQuiet ==
    ASSUME FilterType, NEW c \in CPU, NEW p \in node.traffic,
           ReceiveIPv4(c, p) \/ ReceiveIPv6(c, p)
    PROVE  Moves(c) /\ Quiet(c)
<1>1. PICK pc \in {"idle", "short", "signal", "scan"} :
        Begin(c, p, pc) /\ (pc \in {"signal", "scan"} => p.source \notin blocked)
    BY DEF ReceiveIPv4, ReceiveIPv6, FirstStep
<1>2. cpu[c].pc = "idle" /\ c \in node.queues[p.source]
    BY DEF ReceiveIPv4, ReceiveIPv6, Arrives
<1>3. p \in Packet /\ time \in Nat
    BY FilterAssumption DEF FilterType
<1>. DEFINE r == IF pc = "idle" THEN Idle
                 ELSE [Idle EXCEPT !.pc = pc, !.pkt = p, !.now = time]
<1>4. /\ r \in Run /\ r.stage = "look" /\ r.live /\ r.pc = pc
      /\ IF pc = "idle" THEN r.now = 0 ELSE r.pkt = p /\ r.now = time
    BY <1>3, IdleIsRun, Zenon DEF Run, Idle, Pcs
<1>5. /\ cpu' = [cpu EXCEPT ![c] = r] /\ Silently /\ node' = node /\ time' = time
      /\ evicted' = evicted /\ blocked' = blocked
    BY <1>1 DEF Begin, history, Silently
<1>. HIDE DEF r
<1>6. Moves(c) /\ cpu'[c] = r /\ \A d \in CPU \ {c} : cpu'[d] = cpu[d]
    BY <1>4, <1>5, OwnStep, Zenon DEF Silently
<1>7. cpu[c].stage # "reset"
    BY <1>2, Zenon DEF FilterType, RunInv, Tracking
<1>8. \A k \in blocked : ~IsPast(c, k)'
    BY <1>1, <1>4, <1>6, Zenon DEF IsPast
<1>. QED
    BY <1>2, <1>3, <1>4, <1>5, <1>6, <1>7, <1>8, Zenon DEF Quiet

LEMMA GotoIsQuiet ==
    ASSUME FilterType, NEW c \in CPU, NEW pc \in Pcs \ {"signal", "scan", "teid"},
           cpu[c].stage # "reset", cpu[c].pc # "idle",
           pc = "tunnel" => /\ TEIDOf(cpu[c].pkt.gtp) # NoTEID
                            /\ <<cpu[c].pkt.source, cpu[c].pkt.gtp.teid>> \notin blocked,
           cpu' = [cpu EXCEPT ![c] = Goto(c, pc, 0)], Silently, node' = node,
           time' = time, evicted' = evicted, blocked' = blocked
    PROVE  Moves(c) /\ Quiet(c)
<1>. DEFINE r == Goto(c, pc, 0)
<1>1. cpu[c] \in Run /\ RunInv(c)
    BY Zenon DEF FilterType
<1>2. /\ r \in Run /\ r.pc = pc /\ r.stage = "look" /\ r.live
      /\ pc # "idle" => r.pkt = cpu[c].pkt /\ r.now = cpu[c].now
      /\ pc = "idle" => r = Idle
    BY <1>1, GotoFacts, GotoIsLive
<1>3. cpu' = [cpu EXCEPT ![c] = r]
    OBVIOUS
<1>. HIDE DEF r
<1>4. Moves(c) /\ cpu'[c] = r /\ \A d \in CPU \ {c} : cpu'[d] = cpu[d]
    BY <1>2, <1>3, OwnStep, ZenonT(60) DEF Silently
<1>5. \A k \in blocked : ~IsPast(c, k)'
    BY <1>2, <1>4 DEF IsPast
<1>6. IF r.pc = "idle" THEN r.now = 0
      ELSE r.pkt \in Packet /\ c \in node.queues[r.pkt.source] /\ r.now = cpu[c].now
    BY <1>1, <1>2 DEF RunInv, Idle
<1>. QED
    BY <1>2, <1>4, <1>5, <1>6, Zenon DEF Quiet

LEMMA LookIsLooks ==
    ASSUME FilterType, NEW c \in CPU, cpu[c].pc \in Tracking, Look(c)
    PROVE  Moves(c) /\ Looks(c)
<1>. DEFINE S == {table[s] : s \in {Slot(c)} \cap DOMAIN table}
            r == [cpu[c] EXCEPT !.stage = "store", !.seen = S]
<1>1. cpu[c] \in Run /\ cpu \in [CPU -> Run] /\ TableInv
    BY DEF FilterType
<1>2. S \subseteq RateEntry \cup PortEntry
    BY <1>1 DEF TableInv, Entry
<1>3. /\ cpu' = [cpu EXCEPT ![c].stage = "store", ![c].seen = S]
      /\ Silently /\ node' = node /\ time' = time /\ evicted' = evicted
      /\ blocked' = blocked /\ cpu[c].stage = "look"
    BY Zenon DEF Look, Silently, history
<1>. HIDE DEF S
<1>4. /\ r \in Run /\ r.pc = cpu[c].pc /\ r.pkt = cpu[c].pkt /\ r.now = cpu[c].now
      /\ r.stage = "store" /\ r.seen = S /\ (r.live <=> cpu[c].live)
    BY <1>1, <1>2, Zenon DEF Run
<1>5. cpu' = [cpu EXCEPT ![c] = r]
    BY <1>1, <1>3, Zenon
<1>. HIDE DEF r
<1>6. Moves(c) /\ cpu'[c] = r
    BY <1>3, <1>4, <1>5, OwnStep, Zenon DEF Silently
<1>7. Slot(c)' = Slot(c)
    BY <1>4, <1>6, Zenon DEF Slot
<1>. QED
    BY <1>3, <1>4, <1>6, <1>7, Zenon DEF Looks, Remains, S

LEMMA RollIsRolls ==
    ASSUME FilterType, NEW c \in CPU, cpu[c].pc \in Tracking \ {"ports"}, Roll(c)
    PROVE  Moves(c) /\ Rolls(c)
<1>. DEFINE r == [cpu[c] EXCEPT !.stage = "reset"]
<1>1. cpu[c] \in Run /\ cpu \in [CPU -> Run] /\ RunInv(c)
    BY DEF FilterType
<1>2. /\ cpu' = [cpu EXCEPT ![c].stage = "reset"] /\ cpu[c].stage = "store"
      /\ counted' = counted /\ reports' = reports /\ late' = late
      /\ node' = node /\ time' = time /\ evicted' = evicted /\ blocked' = blocked
      /\ \E e \in cpu[c].seen : Expired(cpu[c].now, e.start, RateWindow)
      /\ table' = IF cpu[c].live
                  THEN [table EXCEPT ![Slot(c)].start = cpu[c].now] ELSE table
    BY Zenon DEF Roll, history
<1>3. /\ r \in Run /\ r.pc = cpu[c].pc /\ r.pkt = cpu[c].pkt /\ r.now = cpu[c].now
      /\ r.stage = "reset" /\ r.seen = cpu[c].seen /\ (r.live <=> cpu[c].live)
    BY <1>1, Zenon DEF Run
<1>4. cpu' = [cpu EXCEPT ![c] = r]
    BY <1>1, <1>2, Zenon
<1>. HIDE DEF r
<1>5. cpu[c].live => Slot(c) \in DOMAIN table
    BY <1>1, <1>2, Zenon DEF RunInv
<1>6. /\ DOMAIN table' = DOMAIN table
      /\ \A s \in DOMAIN table : s # Slot(c) => table'[s] = table[s]
      /\ cpu[c].live =>
            table'[Slot(c)] = [table[Slot(c)] EXCEPT !.start = cpu[c].now]
      /\ ~cpu[c].live => table' = table
    BY <1>2, <1>5
<1>7. Moves(c) /\ cpu'[c] = r
    BY <1>2, <1>3, <1>4, <1>6, OwnStep, ZenonT(60)
<1>8. Slot(c)' = Slot(c)
    BY <1>3, <1>7, Zenon DEF Slot
<1>. QED
    BY <1>2, <1>3, <1>6, <1>7, <1>8, Zenon DEF Rolls, Remains

LEMMA StoreIsStores ==
    ASSUME FilterType, NEW c \in CPU, NEW o, NEW rate \in Nat,
           NEW pc \in Pcs \ {"signal", "scan", "tunnel"}, Store(c, o, pc, rate),
           cpu[c].stage # "look", pc = "teid" => TEIDOf(cpu[c].pkt.gtp) # NoTEID
    PROVE  Moves(c) /\ Stores(c, o)
<1>1. \A d \in CPU : cpu[d] \in Run
    BY DEF FilterType
<1>2. /\ node' = node /\ time' = time /\ evicted' = evicted /\ blocked' = blocked
      /\ cpu' = [d \in CPU |-> cpu'[d]] /\ cpu'[c] = Goto(c, pc, rate)
    BY Zenon DEF Store
<1>3. /\ cpu'[c] \in Run /\ cpu'[c].pc = pc /\ cpu'[c].stage = "look"
      /\ cpu'[c].live
      /\ pc # "idle" => cpu'[c].pkt = cpu[c].pkt /\ cpu'[c].now = cpu[c].now
      /\ pc = "idle" => cpu'[c] = Idle
    BY <1>1, <1>2, GotoFacts, GotoIsLive
<1>4. ASSUME NEW d \in CPU \ {c}
      PROVE  Bystander(c, d)
    <2>1. CASE cpu'[d] = cpu[d]
        BY <1>1, <2>1, Zenon DEF Bystander, Slot
    <2>2. CASE cpu[d].stage # "look" /\ Slot(d) = Slot(c)
                /\ cpu'[d] = [cpu[d] EXCEPT !.live = FALSE]
        <3>1. /\ cpu'[d] \in Run
              /\ cpu'[d].pc = cpu[d].pc /\ cpu'[d].pkt = cpu[d].pkt
              /\ cpu'[d].now = cpu[d].now /\ cpu'[d].stage = cpu[d].stage
              /\ cpu'[d].seen = cpu[d].seen /\ cpu'[d].live = FALSE
              /\ cpu'[d].rate = cpu[d].rate
            BY <1>1, <2>2, Zenon DEF Run
        <3>. QED
            BY <2>2, <3>1, Zenon DEF Bystander, Slot
    <2>. QED
        BY <2>1, <2>2, Zenon DEF Store
<1>5. /\ DOMAIN table \subseteq DOMAIN table'
      /\ DOMAIN table' \subseteq DOMAIN table \cup {Slot(c)}
      /\ \A s \in DOMAIN table : s # Slot(c) => table'[s] = table[s]
      /\ o.insert \/ cpu[c].live =>
            Slot(c) \in DOMAIN table' /\ table'[Slot(c)] = o.entry
      /\ ~(o.insert \/ cpu[c].live) => table' = table
    <2>1. table' = IF o.insert \/ cpu[c].live
                   THEN [s \in DOMAIN table \cup {Slot(c)} |->
                            IF s = Slot(c) THEN o.entry ELSE table[s]]
                   ELSE table
        BY Zenon DEF Store
    <2>2. CASE o.insert \/ cpu[c].live
        BY <2>1, <2>2
    <2>3. CASE ~(o.insert \/ cpu[c].live)
        BY <2>1, <2>3
    <2>. QED
        BY <2>2, <2>3
<1>6. Moves(c)
    BY <1>2, <1>3, <1>4, <1>5, Zenon DEF Moves
<1>7. /\ cpu'[c].pc \in Pcs \ {"signal", "scan", "tunnel"}
      /\ IF cpu'[c].pc = "idle" THEN cpu'[c].now = 0
         ELSE cpu'[c].pkt = cpu[c].pkt /\ cpu'[c].now = cpu[c].now
      /\ cpu'[c].pc = "teid" => TEIDOf(cpu[c].pkt.gtp) # NoTEID
    BY <1>3 DEF Idle
<1>8. ASSUME o.insert, NEW d \in CPU \ {c}, cpu[d].stage # "look",
             Slot(d) = Slot(c)
      PROVE  ~cpu'[d].live
    <2>1. cpu[d] \in Run /\ cpu'[d] = [cpu[d] EXCEPT !.live = FALSE]
        BY <1>1, <1>8, Zenon DEF Store
    <2>. QED
        BY <2>1, Zenon DEF Run
<1>. QED
    BY <1>3, <1>5, <1>6, <1>7, <1>8, Zenon DEF Stores

LEMMA CountIsCounts ==
    ASSUME FilterType, NEW c \in CPU,
           \/ cpu[c].pc = "signal" /\ CountSource(c)
           \/ cpu[c].pc = "tunnel" /\ CountTunnel(c)
           \/ cpu[c].pc = "scan" /\ CountScan(c)
    PROVE  Moves(c) /\ Kinds(c)
<1>1. cpu[c].pc \in Tracking \ {"ports"}
    BY DEF Tracking
<1>2. CASE Look(c) \/ Roll(c)
    BY <1>1, <1>2, LookIsLooks, RollIsRolls, Zenon DEF Kinds
<1>3. ASSUME Traces(c, KeyOf(c)), cpu[c].stage # "look", NEW o \in Count(c),
             NEW rate \in Nat, NEW pc \in Pcs \ {"signal", "scan", "tunnel"},
             Store(c, o, pc, rate),
             pc = "teid" => TEIDOf(cpu[c].pkt.gtp) # NoTEID,
             IF cpu[c].pc = "scan" /\ Crosses(o.prior) THEN Reports(c, o)
             ELSE reports' = reports
      PROVE  Moves(c) /\ Kinds(c)
    <2>1. Moves(c) /\ Stores(c, o)
        BY <1>3, StoreIsStores, Zenon
    <2>. QED
        BY <1>1, <1>3, <2>1, Zenon DEF Traces, Counts, Kinds
<1>4. CASE cpu[c].pc = "signal" /\ CountSource(c) /\ ~(Look(c) \/ Roll(c))
    <2>. DEFINE pc == IF /\ cpu[c].pkt.port = "gtpu"
                         /\ TEIDOf(cpu[c].pkt.gtp) # NoTEID
                      THEN "teid" ELSE "emit"
    <2>1. /\ cpu[c].stage # "look" /\ reports' = reports
          /\ Traces(c, cpu[c].pkt.source)
          /\ \E o \in Count(c) : Store(c, o, pc, 0)
        BY <1>4, Zenon DEF CountSource
    <2>2. /\ pc \in Pcs \ {"signal", "scan", "tunnel"}
          /\ pc = "teid" => TEIDOf(cpu[c].pkt.gtp) # NoTEID
        BY Zenon DEF Pcs
    <2>. HIDE DEF pc
    <2>3. KeyOf(c) = cpu[c].pkt.source
        BY <1>4, Zenon DEF KeyOf
    <2>. QED
        BY <1>3, <1>4, <2>1, <2>2, <2>3, Zenon
<1>5. CASE cpu[c].pc = "tunnel" /\ CountTunnel(c) /\ ~(Look(c) \/ Roll(c))
    <2>1. PICK o \in Count(c) : Store(c, o, "emit", o.entry.count)
        BY <1>5, Zenon DEF CountTunnel
    <2>2. /\ cpu[c].stage # "look" /\ reports' = reports /\ Traces(c, KeyOf(c))
        BY <1>5, Zenon DEF CountTunnel, KeyOf
    <2>3. o.entry.count \in Nat
        BY <1>1, <2>2, CountFacts, Zenon DEF Entry, RateEntry, PortEntry
    <2>. QED
        BY <1>3, <1>5, <2>1, <2>2, <2>3, Zenon DEF Pcs
<1>6. CASE cpu[c].pc = "scan" /\ CountScan(c) /\ ~(Look(c) \/ Roll(c))
    <2>1. PICK o \in Count(c) :
            /\ Store(c, o, IF Crosses(o.prior) THEN "burst" ELSE "ports", 0)
            /\ IF Crosses(o.prior) THEN Reports(c, o) ELSE reports' = reports
        BY <1>6, Zenon DEF CountScan
    <2>2. cpu[c].stage # "look" /\ Traces(c, cpu[c].pkt.source)
        BY <1>6, Zenon DEF CountScan
    <2>3. KeyOf(c) = cpu[c].pkt.source
        BY <1>6 DEF KeyOf
    <2>. QED
        BY <1>3, <1>6, <2>1, <2>2, <2>3, Zenon DEF Pcs
<1>. QED
    BY <1>2, <1>4, <1>5, <1>6, Zenon

\* A run's step is of one of these kinds.
LEMMA RunSteps ==
    ASSUME FilterType, NEW c \in CPU, xdp_packet_filter(c)
    PROVE  Moves(c) /\ Kinds(c)
<1>1. cpu[c] \in Run /\ RunInv(c)
    BY DEF FilterType
<1>2. CASE \E p \in node.traffic : ReceiveIPv4(c, p) \/ ReceiveIPv6(c, p)
    BY <1>2, ReceiveIsQuiet, Zenon DEF Kinds
<1>3. CASE \/ track_signal_rate(c) \/ track_signal_rate_v6(c)
           \/ track_tunnel_rate(c) \/ track_tunnel_rate_v6(c)
           \/ track_scan_rate(c) \/ track_scan_rate_v6(c)
    BY <1>3, CountIsCounts, Zenon
    DEF track_signal_rate, track_signal_rate_v6, track_tunnel_rate,
        track_tunnel_rate_v6, track_scan_rate, track_scan_rate_v6, At
<1>4. CASE CheckTunnel(c)
    <2>. DEFINE k == <<cpu[c].pkt.source, cpu[c].pkt.gtp.teid>>
                pc == IF k \in blocked THEN "idle" ELSE "tunnel"
    <2>1. /\ cpu' = [cpu EXCEPT ![c] = Goto(c, pc, 0)] /\ Silently
          /\ node' = node /\ time' = time /\ evicted' = evicted /\ blocked' = blocked
        BY <1>4, Zenon DEF CheckTunnel, history, Silently
    <2>2. cpu[c].pc = "teid" /\ TEIDOf(cpu[c].pkt.gtp) # NoTEID
        BY <1>1, <1>4, Zenon DEF CheckTunnel, RunInv
    <2>3. pc \in Pcs \ {"signal", "scan", "teid"} /\ (pc = "tunnel" => k \notin blocked)
        BY Zenon DEF Pcs
    <2>4. cpu[c].stage # "reset"
        BY <1>1, <2>2 DEF RunInv, Tracking
    <2>. HIDE DEF pc
    <2>. QED
        BY <2>1, <2>2, <2>3, <2>4, GotoIsQuiet, Zenon DEF Kinds
<1>5. CASE track_port_scan(c) \/ track_port_scan_v6(c)
    <2>1. cpu[c].pc = "ports" /\ TouchPort(c)
        BY <1>5, Zenon DEF track_port_scan, track_port_scan_v6, At
    <2>2. CASE Look(c)
        BY <2>1, <2>2, LookIsLooks, Zenon DEF Kinds, Tracking
    <2>3. CASE ~Look(c) /\ Touch(c) = {}
        <3>1. /\ cpu' = [cpu EXCEPT ![c] = Idle] /\ Silently /\ cpu[c].stage = "store"
              /\ node' = node /\ time' = time /\ evicted' = evicted /\ blocked' = blocked
            BY <2>1, <2>3, Zenon DEF TouchPort, Silently
        <3>2. Goto(c, "idle", 0) = Idle
            BY DEF Goto
        <3>. QED
            BY <2>1, <3>1, <3>2, GotoIsQuiet, Zenon DEF Pcs, Kinds
    <2>4. CASE ~Look(c) /\ Touch(c) # {}
        <3>1. PICK o \in Touch(c) :
                /\ Store(c, o, IF o.report THEN "portscan" ELSE "idle", 0)
                /\ IF o.report THEN Reports(c, o) ELSE reports' = reports
            BY <2>1, <2>4, Zenon DEF TouchPort
        <3>2. /\ cpu[c].stage = "store" /\ counted' = counted /\ late' = late
              /\ touched' = touched \cup {Tried(c)}
            BY <2>1, <2>4, Zenon DEF TouchPort, Tried
        <3>3. Moves(c) /\ Stores(c, o)
            BY <3>1, <3>2, StoreIsStores, Zenon DEF Pcs
        <3>. QED
            BY <2>1, <3>1, <3>2, <3>3, Zenon DEF Touches, Kinds
    <2>. QED
        BY <2>2, <2>3, <2>4, Zenon
<1>6. CASE emit_signaling_event(c) \/ emit_signaling_event_v6(c)
    <2>1. PICK f : Emit(c, f)
        BY <1>6, Zenon DEF emit_signaling_event, emit_signaling_event_v6
    <2>. DEFINE pc == IF cpu[c].pc = "burst" THEN "ports" ELSE "idle"
    <2>2. /\ cpu' = [cpu EXCEPT ![c] = Goto(c, pc, 0)] /\ Silently
          /\ node' = node /\ time' = time /\ evicted' = evicted /\ blocked' = blocked
        BY <2>1, Zenon DEF Emit, history, Silently
    <2>3. cpu[c].pc \notin Tracking \cup {"idle"} /\ pc \in {"ports", "idle"}
        BY <2>1, Zenon DEF Emit, Tracking
    <2>4. cpu[c].stage # "reset"
        BY <1>1, <2>3 DEF RunInv
    <2>. HIDE DEF pc
    <2>. QED
        BY <2>2, <2>3, <2>4, GotoIsQuiet, Zenon DEF Pcs, Kinds
<1>. QED
    BY <1>2, <1>3, <1>4, <1>5, <1>6, Zenon DEF xdp_packet_filter

\* The kernel takes an entry away.
Evicts(s) ==
    /\ node' = node /\ time' = time /\ evicted' = evicted \cup {s}
    /\ blocked' = blocked /\ late' = late
    /\ counted' = counted /\ reports' = reports
    /\ DOMAIN table' = DOMAIN table \ {s}
    /\ \A r \in DOMAIN table' : table'[r] = table[r]
    /\ cpu' = [d \in CPU |-> cpu'[d]]
    /\ \A d \in CPU :
        /\ cpu'[d] \in Run /\ Slot(d)' = Slot(d)
        /\ cpu'[d].pc = cpu[d].pc /\ cpu'[d].pkt = cpu[d].pkt
        /\ cpu'[d].now = cpu[d].now /\ cpu'[d].stage = cpu[d].stage
        /\ cpu'[d].seen = cpu[d].seen /\ cpu'[d].rate = cpu[d].rate
        /\ cpu'[d].live <=>
            cpu[d].live /\ (cpu[d].stage = "look" \/ Slot(d) # s)

LEMMA EvictIsEvicts ==
    ASSUME FilterType, NEW s \in DOMAIN table, Evict(s)
    PROVE  Evicts(s)
<1>1. /\ node' = node /\ time' = time /\ evicted' = evicted \cup {s}
      /\ blocked' = blocked /\ late' = late
      /\ counted' = counted /\ reports' = reports
      /\ table' = [r \in DOMAIN table \ {s} |-> table[r]]
      /\ cpu' = [d \in CPU |-> cpu'[d]]
      /\ \A d \in CPU : cpu'[d] = IF cpu[d].stage # "look" /\ Slot(d) = s
                                  THEN [cpu[d] EXCEPT !.live = FALSE] ELSE cpu[d]
    BY Zenon DEF Evict
<1>2. ASSUME NEW d \in CPU
      PROVE  /\ cpu'[d] \in Run
             /\ cpu'[d].pc = cpu[d].pc /\ cpu'[d].pkt = cpu[d].pkt
             /\ cpu'[d].now = cpu[d].now /\ cpu'[d].stage = cpu[d].stage
             /\ cpu'[d].seen = cpu[d].seen /\ cpu'[d].rate = cpu[d].rate
             /\ cpu'[d].live <=>
                    cpu[d].live /\ (cpu[d].stage = "look" \/ Slot(d) # s)
    <2>1. cpu[d] \in Run
        BY DEF FilterType
    <2>2. CASE cpu[d].stage # "look" /\ Slot(d) = s
        BY <1>1, <2>1, <2>2, Zenon DEF Run
    <2>3. CASE ~(cpu[d].stage # "look" /\ Slot(d) = s)
        BY <1>1, <2>1, <2>3, Zenon
    <2>. QED
        BY <2>2, <2>3
<1>3. \A d \in CPU : Slot(d)' = Slot(d)
    BY <1>2, Zenon DEF Slot
<1>. QED
    BY <1>1, <1>2, <1>3, Zenon DEF Evicts

\* The operator and the clock leave the maps and the runs alone.
Elsewhere ==
    /\ time' \in Nat /\ time <= time' /\ node' = node /\ cpu' = cpu
    /\ table' = table /\ counted' = counted /\ reports' = reports
    /\ evicted' = evicted

LEMMA StepCases ==
    ASSUME FilterType, [FilterNext]_filterVars
    PROVE  \/ \E c \in CPU : Moves(c) /\ Kinds(c)
           \/ \E s \in DOMAIN table : Evicts(s)
           \/ Elsewhere
<1>1. time \in Nat
    BY DEF FilterType
<1>2. CASE \/ \E f \in {4, 6} : ReadEvent(f)
           \/ \E k \in Source \cup Tunnel : Block(k) \/ Unblock(k)
           \/ UNCHANGED filterVars
    <2>1. UNCHANGED <<node, time, cpu, table, counted, reports, evicted>>
        BY <1>2, Zenon DEF ReadEvent, Block, Unblock, filterVars, history
    <2>. QED
        BY <1>1, <2>1 DEF Elsewhere
<1>3. CASE FilterTick
    BY <1>1, <1>3 DEF FilterTick, Elsewhere, history
<1>. QED
    BY <1>2, <1>3, RunSteps, EvictIsEvicts, Zenon DEF FilterNext

-----------------------------------------------------------------------------
(* Types. *)

\* Of a step, what the run itself and the entry it is at must keep.
LEMMA StepType ==
    ASSUME FilterType, NEW c \in CPU, Moves(c), RunInv(c)',
           IsLog(counted)', IsLog(reports)',
           Slot(c) \in DOMAIN table' =>
                /\ Slot(c) \in Slots /\ table'[Slot(c)] \in Entry(Slot(c))
                /\ table'[Slot(c)].start <= time
    PROVE  FilterType'
<1>1. /\ node' = node /\ time' = time /\ cpu' = [d \in CPU |-> cpu'[d]]
      /\ cpu'[c] \in Run /\ DOMAIN table \subseteq DOMAIN table'
      /\ DOMAIN table' \subseteq DOMAIN table \cup {Slot(c)}
      /\ \A s \in DOMAIN table : s # Slot(c) => table'[s] = table[s]
    BY DEF Moves
<1>2. TableInv'
    BY <1>1, Zenon DEF FilterType, TableInv
<1>3. ASSUME NEW d \in CPU \ {c}
      PROVE  cpu'[d] \in Run /\ RunInv(d)'
    <2>1. /\ cpu'[d] \in Run /\ Slot(d)' = Slot(d)
          /\ cpu'[d].pc = cpu[d].pc /\ cpu'[d].pkt = cpu[d].pkt
          /\ cpu'[d].now = cpu[d].now /\ cpu'[d].stage = cpu[d].stage
          /\ cpu'[d].seen = cpu[d].seen /\ (cpu'[d].live => cpu[d].live)
          /\ cpu[d].stage = "look" /\ cpu[d].live => cpu'[d].live
        BY <1>3, Zenon DEF Moves, Bystander
    <2>2. cpu'[d].seen \subseteq Entry(Slot(d))' <=>
            cpu[d].seen \subseteq Entry(Slot(d))
        BY <2>1, Zenon DEF Entry, IsPortScan
    <2>. QED
        BY <1>1, <2>1, <2>2, Zenon DEF FilterType, RunInv
<1>. QED
    BY <1>1, <1>2, <1>3, Zenon DEF FilterType

LEMMA RecordFacts ==
    ASSUME NEW log, IsLog(log), NEW s, NEW t \in Nat
    PROVE  /\ IsLog(Record(log, s, t)) /\ Logged(log, s) \in Seq(Nat)
           /\ Logged(Record(log, s, t), s) = Append(Logged(log, s), t)
           /\ \A r : r # s => Logged(Record(log, s, t), r) = Logged(log, r)
<1>1. Logged(log, s) \in Seq(Nat)
    BY DEF IsLog, Logged
<1>2. IsLog(Record(log, s, t))
    BY <1>1 DEF IsLog, Record
<1>. QED
    BY <1>1, <1>2, Zenon DEF Record, Logged

LEMMA RunType ==
    ASSUME FilterType, NEW c \in CPU, Moves(c), Kinds(c)
    PROVE  FilterType'
<1>1. /\ cpu[c] \in Run /\ RunInv(c) /\ time \in Nat /\ cpu[c].now \in Nat
      /\ IsLog(counted) /\ IsLog(reports) /\ node' = node /\ time' = time
      /\ DOMAIN table' \subseteq DOMAIN table \cup {Slot(c)}
      /\ DOMAIN table \subseteq DOMAIN table'
    BY DEF FilterType, Run, Moves
<1>2. ASSUME NEW s \in DOMAIN table
      PROVE  s \in Slots /\ table[s] \in Entry(s) /\ table[s].start <= time
    BY DEF FilterType, TableInv
<1>3. CASE Quiet(c)
    <2>1. RunInv(c)'
        <3>1. cpu'[c].now \in {cpu[c].now, time, 0}
            BY <1>3, Zenon DEF Quiet
        <3>2. 0 <= time /\ time <= time
            BY DEF FilterType
        <3>3. cpu'[c].now <= time
            BY <1>1, <3>1, <3>2, Zenon DEF RunInv
        <3>. QED
            BY <1>1, <1>3, <3>3, Zenon DEF Quiet, RunInv
    <2>. QED
        BY <1>1, <1>2, <1>3, <2>1, StepType, Zenon DEF Quiet, Silently
<1>4. CASE Looks(c)
    <2>1. cpu'[c].seen \subseteq Entry(Slot(c)) /\ table' = table
        BY <1>2, <1>4, Zenon DEF Looks, Silently
    <2>2. cpu'[c].seen # {} => Slot(c) \in DOMAIN table
        BY <1>4 DEF Looks
    <2>3. RunInv(c)'
        BY <1>1, <1>4, <2>1, <2>2, Zenon DEF Looks, Remains, RunInv, Entry, IsPortScan
    <2>. QED
        BY <1>1, <1>2, <1>4, <2>3, StepType, Zenon DEF Looks, Silently
<1>5. CASE Rolls(c)
    <2>1. RunInv(c)'
        BY <1>1, <1>5, Zenon DEF Rolls, Remains, RunInv, Entry, IsPortScan
    <2>2. ASSUME Slot(c) \in DOMAIN table', cpu[c].live
          PROVE  /\ Slot(c) \in Slots /\ table'[Slot(c)] \in Entry(Slot(c))
                 /\ table'[Slot(c)].start <= time
        <3>1. Slot(c) \in DOMAIN table /\ Entry(Slot(c)) = RateEntry
            BY <1>1, <1>5, <2>2, SlotFacts, Zenon
            DEF Rolls, Remains, RunInv, Slot, Entry, Tracking
        <3>2. /\ table'[Slot(c)] = [table[Slot(c)] EXCEPT !.start = cpu[c].now]
              /\ table[Slot(c)] \in RateEntry
            BY <1>2, <1>5, <2>2, <3>1, Zenon DEF Rolls
        <3>3. table'[Slot(c)] \in RateEntry /\ table'[Slot(c)].start = cpu[c].now
            BY <1>1, <3>2, Zenon DEF RateEntry
        <3>. QED
            BY <1>1, <1>2, <3>1, <3>3, Zenon DEF RunInv
    <2>3. Slot(c) \in DOMAIN table' /\ ~cpu[c].live =>
            /\ Slot(c) \in Slots /\ table'[Slot(c)] \in Entry(Slot(c))
            /\ table'[Slot(c)].start <= time
        BY <1>2, <1>5, Zenon DEF Rolls
    <2>. QED
        BY <1>1, <1>5, <2>1, <2>2, <2>3, StepType, Zenon DEF Rolls
<1>6. ASSUME NEW o, Counts(c, o) \/ Touches(c, o)
      PROVE  FilterType'
    <2>1. /\ Stores(c, o) /\ cpu[c].stage # "look" /\ cpu[c].pc \in Tracking
          /\ cpu[c].pkt \in Packet /\ c \in node.queues[cpu[c].pkt.source]
        BY <1>1, <1>6 DEF Counts, Touches, Stores, RunInv, Tracking
    <2>2. /\ o.insert \in BOOLEAN /\ o.entry \in Entry(Slot(c))
          /\ o.insert \/ cpu[c].live => o.entry.start <= time
        BY <1>6, <2>1, CountFacts, TouchFacts, Zenon DEF Counts, Touches
    <2>3. Slot(c) \in Slots /\ o.entry.start \in Nat
        BY <2>1, <2>2, SlotFacts, Zenon DEF Slot, Entry, RateEntry, PortEntry
    <2>4. IsLog(counted)' /\ IsLog(reports)'
        <3>1. \A log : \A t \in Nat : IsLog(log) => IsLog(Record(log, Slot(c), t))
            BY RecordFacts
        <3>. QED
            BY <1>1, <1>6, <2>3, <3>1, Zenon DEF Counts, Touches, Reports
    <2>5. RunInv(c)'
        <3>1. cpu'[c].now \in {cpu[c].now, 0}
            BY <2>1, Zenon DEF Stores
        <3>2. 0 <= time
            BY DEF FilterType
        <3>3. cpu'[c].now <= time
            BY <1>1, <3>1, <3>2, Zenon DEF RunInv
        <3>. QED
            BY <1>1, <2>1, <3>3, ZenonT(60) DEF Stores, RunInv
    <2>6. Slot(c) \in DOMAIN table' =>
            table'[Slot(c)] \in Entry(Slot(c)) /\ table'[Slot(c)].start <= time
        BY <1>2, <2>1, <2>2, Zenon DEF Stores
    <2>. QED
        BY <2>3, <2>4, <2>5, <2>6, StepType, ZenonT(60)
<1>. QED
    BY <1>3, <1>4, <1>5, <1>6, Zenon DEF Kinds

LEMMA TypeStep ==
    ASSUME FilterType, [FilterNext]_filterVars
    PROVE  FilterType'
<1>1. ASSUME NEW s \in DOMAIN table, Evicts(s)
      PROVE  FilterType'
    <2>1. TableInv'
        BY <1>1, Zenon DEF FilterType, TableInv, Evicts
    <2>2. ASSUME NEW d \in CPU
          PROVE  cpu'[d] \in Run /\ RunInv(d)'
        <3>1. /\ cpu'[d] \in Run /\ Slot(d)' = Slot(d)
              /\ cpu'[d].pc = cpu[d].pc /\ cpu'[d].pkt = cpu[d].pkt
              /\ cpu'[d].now = cpu[d].now /\ cpu'[d].stage = cpu[d].stage
              /\ cpu'[d].seen = cpu[d].seen
              /\ cpu'[d].live <=>
                    cpu[d].live /\ (cpu[d].stage = "look" \/ Slot(d) # s)
              /\ node' = node /\ time' = time /\ DOMAIN table' = DOMAIN table \ {s}
            BY <1>1, Zenon DEF Evicts
        <3>2. cpu'[d].seen \subseteq Entry(Slot(d))' <=>
                cpu[d].seen \subseteq Entry(Slot(d))
            BY <3>1, Zenon DEF Entry, IsPortScan
        <3>. QED
            BY <3>1, <3>2 DEF FilterType, RunInv
    <2>. QED
        BY <1>1, <2>1, <2>2, Zenon DEF FilterType, Evicts
<1>2. CASE Elsewhere
    <2>1. TableInv'
        <3>1. ASSUME NEW s \in DOMAIN table
              PROVE  table[s].start \in Nat
            BY DEF FilterType, TableInv, Entry, RateEntry, PortEntry
        <3>. QED
            BY <1>2, <3>1 DEF FilterType, TableInv, Elsewhere
    <2>2. ASSUME NEW c \in CPU
          PROVE  RunInv(c)'
        <3>1. cpu[c].now <= time' /\ RunInv(c)
            BY <1>2 DEF RunInv, Run, FilterType, Elsewhere
        <3>. QED
            BY <1>2, <3>1, ZenonT(60) DEF RunInv, Slot, Entry, IsPortScan, Elsewhere
    <2>. QED
        BY <1>2, <2>1, <2>2, Zenon DEF FilterType, Elsewhere
<1>. QED
    BY <1>1, <1>2, StepCases, RunType, Zenon

LEMMA TypeInit == FilterInit => FilterType
<1>. SUFFICES ASSUME FilterInit PROVE FilterType
    BY Zenon
<1>1. /\ node \in Nodes /\ time = 0 /\ table = <<>>
      /\ cpu = [c \in CPU |-> Idle] /\ counted = <<>> /\ reports = <<>>
    BY DEF FilterInit
<1>2. cpu \in [CPU -> Run]
    BY <1>1, IdleIsRun, Zenon
<1>3. TableInv
    BY <1>1 DEF TableInv
<1>4. ASSUME NEW c \in CPU
      PROVE  RunInv(c)
    BY <1>1 DEF RunInv, Idle
<1>. QED
    BY <1>1, <1>2, <1>3, <1>4 DEF FilterType, IsLog

-----------------------------------------------------------------------------
(* Blocked traffic is silent. *)

Key == Source \cup Tunnel

\* A CPU that may still count for a blocked key has not done so since.
SilentKey(k, c) ==
    /\ late[k][c] <= 1
    /\ k \in blocked /\ IsPast(c, k) => late[k][c] = 0

SilentInv ==
    /\ late \in [Key -> [CPU -> Nat]]
    /\ \A k \in Key, c \in CPU : SilentKey(k, c)

\* No CPU comes to be past the check of a blocked key, and one that counts
\* for it is past it no more.
LEMMA RunSilent ==
    ASSUME FilterType, SilentInv, NEW c \in CPU, Moves(c), Kinds(c)
    PROVE  SilentInv'
<1>1. blocked' = blocked /\ RunInv(c) /\ late \in [Key -> [CPU -> Nat]]
    BY DEF Moves, FilterType, SilentInv
<1>2. ASSUME NEW d \in CPU \ {c}, NEW k
      PROVE  IsPast(d, k)' <=> IsPast(d, k)
    BY <1>2, Zenon DEF Moves, Bystander, IsPast
<1>3. ASSUME late' = late, \A k \in blocked : IsPast(c, k)' => IsPast(c, k)
      PROVE  SilentInv'
    BY <1>1, <1>2, <1>3, Zenon DEF SilentInv, SilentKey
<1>4. CASE Quiet(c)
    BY <1>3, <1>4, Zenon DEF Quiet, Silently
<1>5. CASE Looks(c) \/ Rolls(c)
    <2>1. late' = late /\ cpu'[c].pc = cpu[c].pc /\ cpu'[c].pkt = cpu[c].pkt
        BY <1>5, Zenon DEF Looks, Rolls, Remains, Silently
    <2>. QED
        BY <1>3, <2>1, Zenon DEF IsPast
<1>6. ASSUME NEW o, Stores(c, o)
      PROVE  \A k : ~IsPast(c, k)'
    BY <1>6 DEF Stores, IsPast
<1>7. ASSUME NEW o, Touches(c, o)
      PROVE  SilentInv'
    BY <1>3, <1>6, <1>7, Zenon DEF Touches
<1>8. ASSUME NEW o, Counts(c, o)
      PROVE  SilentInv'
    <2>. DEFINE k == KeyOf(c)
    <2>1. /\ late' = IF k \in blocked THEN [late EXCEPT ![k][c] = @ + 1] ELSE late
          /\ cpu[c].pc \in {"signal", "tunnel", "scan"} /\ Stores(c, o)
        BY <1>8, Zenon DEF Counts, Tracking
    <2>2. k \in Key /\ IsPast(c, k)
        <3>1. /\ cpu[c].pkt \in Packet
              /\ cpu[c].pc = "tunnel" => TEIDOf(cpu[c].pkt.gtp) # NoTEID
            BY <1>1, <2>1, Zenon DEF RunInv
        <3>2. cpu[c].pkt.source \in Source /\ cpu[c].pkt.gtp \in Payload(TEID)
            BY <3>1, Zenon DEF Packet
        <3>3. cpu[c].pc = "tunnel" => cpu[c].pkt.gtp.teid \in TEID
            BY <3>1, <3>2, Zenon DEF TEIDOf, Payload
        <3>. QED
            BY <2>1, <3>2, <3>3, Zenon DEF KeyOf, Key, Tunnel, IsPast
    <2>. HIDE DEF k
    <2>3. late' \in [Key -> [CPU -> Nat]]
        BY <1>1, <2>1, <2>2
    <2>4. \A j \in Key, d \in CPU :
            IF k \in blocked /\ j = k /\ d = c THEN late'[j][d] = late[j][d] + 1
            ELSE late'[j][d] = late[j][d]
        BY <1>1, <2>1, <2>2, Zenon
    <2>5. k \in blocked => late[k][c] = 0
        BY <2>2 DEF SilentInv, SilentKey
    <2>6. ASSUME NEW j \in Key, NEW d \in CPU
          PROVE  SilentKey(j, d)'
        <3>1. CASE d = c
            BY <1>1, <1>6, <2>1, <2>4, <2>5, <3>1 DEF SilentInv, SilentKey
        <3>2. CASE d # c
            BY <1>1, <1>2, <2>4, <3>2, Zenon DEF SilentInv, SilentKey
        <3>. QED
            BY <3>1, <3>2, Zenon
    <2>. QED
        BY <2>3, <2>6 DEF SilentInv
<1>. QED
    BY <1>4, <1>5, <1>7, <1>8, Zenon DEF Kinds

LEMMA SilentNext ==
    ASSUME FilterType, SilentInv, [FilterNext]_filterVars
    PROVE  SilentInv'
<1>1. ASSUME blocked' \subseteq blocked, UNCHANGED late,
             \A d \in CPU : cpu'[d].pc = cpu[d].pc /\ cpu'[d].pkt = cpu[d].pkt
      PROVE  SilentInv'
    BY <1>1, Zenon DEF SilentInv, SilentKey, IsPast
<1>2. ASSUME NEW s \in DOMAIN table, Evict(s)
      PROVE  SilentInv'
    BY <1>1, <1>2, EvictIsEvicts, Zenon DEF Evicts
<1>3. ASSUME NEW k \in Key, Block(k)
      PROVE  SilentInv'
    <2>1. /\ blocked' = blocked \cup {k} /\ UNCHANGED cpu
          /\ late' = [late EXCEPT ![k] = [c \in CPU |-> 0]]
        BY <1>3, Zenon DEF Block
    <2>2. /\ late' \in [Key -> [CPU -> Nat]]
          /\ \A c \in CPU : late'[k][c] = 0
          /\ \A j \in Key \ {k} : late'[j] = late[j]
        BY <2>1, Zenon DEF SilentInv
    <2>. QED
        BY <2>1, <2>2 DEF SilentInv, SilentKey, IsPast
<1>4. ASSUME NEW k \in Key, Unblock(k)
      PROVE  SilentInv'
    <2>1. blocked' = blocked \ {k} /\ UNCHANGED late /\ UNCHANGED cpu
        BY <1>4, Zenon DEF Unblock, history
    <2>. QED
        BY <1>1, <2>1, Zenon
<1>5. CASE (\E f \in {4, 6} : ReadEvent(f)) \/ FilterTick \/ UNCHANGED filterVars
    <2>1. UNCHANGED blocked /\ UNCHANGED late /\ UNCHANGED cpu
        BY <1>5, Zenon DEF ReadEvent, FilterTick, filterVars, history
    <2>. QED
        BY <1>1, <2>1, Zenon
<1>. QED
    BY <1>2, <1>3, <1>4, <1>5, RunSteps, RunSilent, Zenon DEF FilterNext, Key

\* Packets of a blocked source or tunnel leave no trace in its counters, but
\* for at most one on each CPU that was past the check of packet_filter.c's
\* blocklists when the key was blocked, however many CPUs there are.
THEOREM BlockedIsSilent == FilterSpec => []BlockedTrafficIsSilent
<1>1. FilterInit => FilterType /\ SilentInv
    <2>1. FilterInit => late = [k \in Key |-> [c \in CPU |-> 0]] /\ blocked = {}
        BY DEF FilterInit, Key
    <2>. QED
        BY <2>1, TypeInit DEF SilentInv, SilentKey
<1>2. FilterType /\ SilentInv /\ [FilterNext]_filterVars
        => (FilterType /\ SilentInv)'
    BY TypeStep, SilentNext, Zenon
<1>3. FilterType /\ SilentInv => BlockedTrafficIsSilent
    BY DEF SilentInv, SilentKey, BlockedTrafficIsSilent, Key
<1>. QED
    BY <1>1, <1>2, <1>3, PTL DEF FilterSpec
=============================================================================
