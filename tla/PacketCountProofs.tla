-------------------------- MODULE PacketCountProofs -------------------------
(***************************************************************************)
(* Proofs about the packet filter's counters, for any number of CPUs, any  *)
(* traffic and any interleaving of the runs: a counter counts real packets *)
(* and an entry is reported once a window.                                 *)
(***************************************************************************)
EXTENDS PacketFilterProofs

(* The SMT solver may take its time on a leaf that names no prover. *)
USE SMTT(60)

-----------------------------------------------------------------------------
(* The histories. *)

\* When a history has an entry.
Times(log, s) == {Logged(log, s)[i] : i \in DOMAIN Logged(log, s)}

LEMMA LoggedType ==
    ASSUME NEW log, IsLog(log), NEW s
    PROVE  /\ Logged(log, s) \in Seq(Nat) /\ Len(Logged(log, s)) \in Nat
           /\ Times(log, s) \subseteq Nat
<1>1. Logged(log, s) \in Seq(Nat)
    BY DEF IsLog, Logged
<1>. QED
    BY <1>1 DEF Times

LEMMA LatestNone ==
    ASSUME NEW log, IsLog(log), NEW s, NEW T, \A t \in Times(log, s) : t \notin T
    PROVE  Latest(Logged(log, s), T, 0)
BY LoggedType DEF Latest, Times

LEMMA LatestNow ==
    ASSUME NEW log, IsLog(log), NEW s, NEW t \in Nat
    PROVE  LET new == Record(log, s, t)
           IN  /\ Times(new, s) = Times(log, s) \cup {t}
               /\ Len(Logged(new, s)) = Len(Logged(log, s)) + 1
               /\ \A T : \A n \in Nat : t \in T /\ Latest(Logged(log, s), T, n)
                            => Latest(Logged(new, s), T, n + 1)
<1>. DEFINE old == Logged(log, s)  new == Append(old, t)
<1>1. old \in Seq(Nat) /\ Logged(Record(log, s, t), s) = new
    BY RecordFacts
<1>2. /\ Len(old) \in Nat /\ Len(new) = Len(old) + 1
      /\ DOMAIN old = 1 .. Len(old) /\ DOMAIN new = 1 .. Len(old) + 1
      /\ new[Len(old) + 1] = t /\ \A i \in DOMAIN old : new[i] = old[i]
    BY <1>1
<1>. HIDE DEF old, new
<1>3. Times(Record(log, s, t), s) = Times(log, s) \cup {t}
    BY <1>1, <1>2 DEF Times, old
<1>4. ASSUME NEW T, NEW n \in Nat, t \in T, Latest(old, T, n)
      PROVE  Latest(new, T, n + 1)
    BY <1>2, <1>4 DEF Latest
<1>. QED
    BY <1>1, <1>2, <1>3, <1>4, Zenon DEF old

-----------------------------------------------------------------------------
(* No count is above the number of packets of its key. *)

Counted(s) == Len(Logged(counted, s))

UpperTable(s) == ~IsPortScan(s) => table[s].count <= Counted(s)

UpperRun(c) ==
    cpu[c].stage # "look" /\ cpu[c].pc # "ports" =>
        \A e \in cpu[c].seen : e.count <= Counted(Slot(c))

UpperInv ==
    (\A s \in DOMAIN table : UpperTable(s)) /\ \A c \in CPU : UpperRun(c)

LEMMA CountsNat ==
    ASSUME FilterType
    PROVE  /\ \A s \in DOMAIN table : table[s].count \in Nat /\ table[s].start \in Nat
           /\ \A c \in CPU : \A e \in cpu[c].seen : e.count \in Nat /\ e.start \in Nat
<1>1. ASSUME NEW s \in DOMAIN table
      PROVE  table[s].count \in Nat /\ table[s].start \in Nat
    BY DEF FilterType, TableInv, Entry, RateEntry, PortEntry
<1>2. ASSUME NEW c \in CPU, NEW e \in cpu[c].seen
      PROVE  e.count \in Nat /\ e.start \in Nat
    <2>1. e \in RateEntry \cup PortEntry
        BY DEF FilterType, Run
    <2>. QED
        BY <2>1 DEF RateEntry, PortEntry
<1>. QED
    BY <1>1, <1>2, Zenon

\* Runs and entries that a step leaves alone keep their bounds.
LEMMA UpperFrame ==
    ASSUME FilterType, FilterType', UpperInv, NEW c \in CPU, Moves(c),
           \A s : Counted(s) <= Counted(s)', UpperRun(c)',
           \A s \in DOMAIN table' : s = Slot(c) => UpperTable(s)'
    PROVE  UpperInv'
<1>1. \A s : Counted(s) \in Nat /\ Counted(s)' \in Nat
    BY LoggedType, Zenon DEF FilterType, Counted
<1>2. ASSUME NEW s \in DOMAIN table', s # Slot(c)
      PROVE  UpperTable(s)'
    <2>1. s \in DOMAIN table /\ table'[s] = table[s] /\ table[s].count \in Nat
        BY <1>2, CountsNat, Zenon DEF Moves
    <2>2. ~IsPortScan(s) => table[s].count <= Counted(s)
        BY <2>1, Zenon DEF UpperInv, UpperTable
    <2>. QED
        BY <1>1, <2>1, <2>2 DEF UpperTable, IsPortScan
<1>3. ASSUME NEW d \in CPU \ {c}
      PROVE  UpperRun(d)'
    <2>1. /\ cpu'[d].pc = cpu[d].pc /\ cpu'[d].stage = cpu[d].stage
          /\ cpu'[d].seen = cpu[d].seen /\ Slot(d)' = Slot(d)
        BY <1>3, Zenon DEF Moves, Bystander
    <2>2. \A e \in cpu[d].seen : e.count \in Nat
        BY <1>3, CountsNat, Zenon
    <2>. DEFINE m == Len(Logged(counted, Slot(d)))
                n == Len(Logged(counted', Slot(d)))
    <2>3. UpperRun(d) /\ m <= n /\ m \in Nat /\ n \in Nat
        BY <1>1, <1>3, Zenon DEF UpperInv, Counted
    <2>. QED
        BY <2>1, <2>2, <2>3 DEF UpperRun, Counted
<1>. QED
    BY <1>2, <1>3, Zenon DEF UpperInv

\* What a run may count to, from what it read or from what it finds.
LEMMA CountIsUpper ==
    ASSUME FilterType, UpperInv, NEW c \in CPU, NEW o \in Count(c),
           cpu[c].pc \in Tracking \ {"ports"}, cpu[c].stage # "look",
           o.insert \/ cpu[c].live
    PROVE  o.entry.count <= Counted(Slot(c)) + 1
<1>. DEFINE N == Counted(Slot(c))
<1>1. /\ cpu[c].pkt \in Packet /\ cpu[c].seen \subseteq Entry(Slot(c))
      /\ cpu[c].live /\ cpu[c].seen # {} => Slot(c) \in DOMAIN table
    BY DEF FilterType, RunInv, Tracking
<1>2. ~IsPortScan(Slot(c)) /\ Entry(Slot(c)) = RateEntry
    BY <1>1, SlotFacts DEF Slot, Entry
<1>3. N \in Nat
    BY LoggedType DEF FilterType, Counted
<1>4. ASSUME cpu[c].live, cpu[c].seen # {}
      PROVE  table[Slot(c)] \in RateEntry /\ table[Slot(c)].count <= N
    BY <1>1, <1>2, <1>4 DEF UpperInv, UpperTable, FilterType, TableInv
<1>5. \A e \in cpu[c].seen : e.count <= N
    BY DEF UpperInv, UpperRun
<1>. HIDE DEF N
<1>6. CASE o = Fresh(c)
    BY <1>3, <1>6 DEF Fresh, N
<1>7. CASE cpu[c].seen # {} /\ o = Restart(c)
    BY <1>3, <1>4, <1>7 DEF Restart, Current, RateEntry, N
<1>8. ASSUME NEW e \in cpu[c].seen, NEW n \in {e.count, Current(c, e).count},
             o = Increment(c, e, n)
      PROVE  o.entry.count <= N + 1
    BY <1>1, <1>2, <1>3, <1>4, <1>5, <1>8 DEF Increment, Current, RateEntry
<1>. QED
    BY <1>6, <1>7, <1>8, CountCases, ZenonT(60) DEF N

LEMMA RunUpper ==
    ASSUME FilterType, FilterType', UpperInv, NEW c \in CPU, Moves(c), Kinds(c)
    PROVE  UpperInv'
<1>1. /\ IsLog(counted) /\ RunInv(c) /\ cpu[c].now \in Nat
      /\ DOMAIN table' \subseteq DOMAIN table \cup {Slot(c)}
    BY DEF FilterType, Moves, Run
<1>2. \A s : Counted(s) \in Nat /\ Counted(s)' \in Nat
    BY LoggedType, Zenon DEF FilterType, Counted
<1>3. counted' = counted => \A s : Counted(s)' = Counted(s)
    BY <1>1, Zenon DEF Counted
<1>4. ASSUME table' = table, counted' = counted, NEW s \in DOMAIN table'
      PROVE  UpperTable(s)'
    BY <1>3, <1>4, Zenon DEF UpperInv, UpperTable, IsPortScan
<1>5. ASSUME cpu[c].pc \in Tracking
      PROVE  Slot(c) \in Slots /\ (IsPortScan(Slot(c)) <=> cpu[c].pc = "ports")
    BY <1>1, <1>5, SlotFacts, Zenon DEF RunInv, Slot, Tracking
<1>6. CASE Quiet(c)
    <2>1. UpperRun(c)'
        BY <1>6, Zenon DEF Quiet, UpperRun
    <2>. QED
        BY <1>2, <1>3, <1>4, <1>6, <2>1, UpperFrame DEF Quiet, Silently
<1>7. CASE Looks(c)
    <2>1. UpperRun(c)'
        BY <1>3, <1>5, <1>7, Zenon
        DEF Looks, Remains, Silently, UpperInv, UpperTable, UpperRun, Counted
    <2>. QED
        BY <1>2, <1>3, <1>4, <1>7, <2>1, UpperFrame DEF Looks, Silently
<1>8. CASE Rolls(c)
    <2>1. UpperRun(c)'
        BY <1>1, <1>8, Zenon DEF Rolls, Remains, UpperInv, UpperRun, Counted
    <2>2. ASSUME NEW s \in DOMAIN table', s = Slot(c)
          PROVE  UpperTable(s)'
        <3>1. CASE ~cpu[c].live
            BY <1>4, <1>8, <2>2, <3>1, Zenon DEF Rolls
        <3>2. CASE cpu[c].live
            <4>1. s \in DOMAIN table
                BY <1>1, <1>8, <2>2, <3>2, Zenon DEF Rolls, RunInv
            <4>2. table[s] \in RateEntry \cup PortEntry
                BY <4>1, Zenon DEF FilterType, TableInv, Entry
            <4>3. table'[s] = [table[s] EXCEPT !.start = cpu[c].now]
                BY <1>8, <2>2, <3>2, Zenon DEF Rolls
            <4>4. table'[s].count = table[s].count
                BY <4>2, <4>3, Zenon DEF RateEntry, PortEntry
            <4>. QED
                BY <1>3, <1>8, <4>1, <4>4, Zenon DEF Rolls, UpperInv, UpperTable, IsPortScan
        <3>. QED
            BY <3>1, <3>2, Zenon
    <2>. QED
        BY <1>2, <1>3, <1>8, <2>1, <2>2, UpperFrame DEF Rolls
<1>9. ASSUME NEW o, Counts(c, o)
      PROVE  UpperInv'
    <2>1. /\ counted' = Record(counted, Slot(c), cpu[c].now)
          /\ cpu[c].pc \in Tracking \ {"ports"}
          /\ cpu[c].stage # "look" /\ o \in Count(c) /\ cpu'[c].stage = "look"
          /\ IF o.insert \/ cpu[c].live THEN table'[Slot(c)] = o.entry
             ELSE table' = table
        BY <1>9, Zenon DEF Counts, Stores
    <2>2. \A s : s # Slot(c) => Logged(counted', s) = Logged(counted, s)
        BY <1>1, <2>1, RecordFacts
    <2>3. Len(Logged(counted', Slot(c))) = Len(Logged(counted, Slot(c))) + 1
        BY <1>1, <2>1, LatestNow, Zenon
    <2>4. \A s : Counted(s)' = Counted(s) + IF s = Slot(c) THEN 1 ELSE 0
        BY <1>2, <2>2, <2>3 DEF Counted
    <2>5. \A s : Counted(s) <= Counted(s)'
        BY <1>2, <2>4
    <2>6. ASSUME NEW s \in DOMAIN table', s = Slot(c)
          PROVE  UpperTable(s)'
        <3>1. CASE o.insert \/ cpu[c].live
            BY <2>1, <2>4, <2>6, <3>1, CountIsUpper, Zenon DEF UpperTable
        <3>2. CASE ~(o.insert \/ cpu[c].live)
            <4>1. s \in DOMAIN table /\ table'[s] = table[s] /\ table[s].count \in Nat
                BY <2>1, <2>6, <3>2, CountsNat, Zenon
            <4>2. ~IsPortScan(s) => table[s].count <= Counted(s)
                BY <4>1, Zenon DEF UpperInv, UpperTable
            <4>. QED
                BY <1>2, <2>5, <4>1, <4>2 DEF UpperTable, IsPortScan
        <3>. QED
            BY <3>1, <3>2, Zenon
    <2>7. UpperRun(c)'
        BY <2>1, Zenon DEF UpperRun
    <2>. QED
        BY <2>5, <2>6, <2>7, UpperFrame, Zenon
<1>10. ASSUME NEW o, Touches(c, o)
       PROVE  UpperInv'
    <2>1. /\ counted' = counted /\ cpu[c].pc = "ports" /\ cpu'[c].stage = "look"
        BY <1>10, Zenon DEF Touches, Stores
    <2>2. \A s \in DOMAIN table' : s = Slot(c) => UpperTable(s)'
        BY <1>5, <2>1, Zenon DEF UpperTable, IsPortScan, Tracking
    <2>3. UpperRun(c)'
        BY <2>1 DEF UpperRun
    <2>. QED
        BY <1>2, <1>3, <2>1, <2>2, <2>3, UpperFrame
<1>. QED
    BY <1>6, <1>7, <1>8, <1>9, <1>10, Zenon DEF Kinds

LEMMA UpperNext ==
    ASSUME FilterType, FilterType', UpperInv, [FilterNext]_filterVars
    PROVE  UpperInv'
<1>2. ASSUME NEW r \in DOMAIN table, Evicts(r)
      PROVE  UpperInv'
    <2>1. \A s : Counted(s)' = Counted(s)
        BY <1>2, Zenon DEF Evicts, Counted
    <2>2. \A s \in DOMAIN table' : UpperTable(s)'
        BY <1>2, <2>1, Zenon DEF Evicts, UpperInv, UpperTable, IsPortScan
    <2>3. ASSUME NEW c \in CPU
          PROVE  UpperRun(c)'
        <3>1. UpperRun(c) /\ counted' = counted /\ time' = time
            BY <1>2 DEF UpperInv, Evicts
        <3>2. /\ cpu'[c].stage = cpu[c].stage /\ cpu'[c].pc = cpu[c].pc
              /\ cpu'[c].seen = cpu[c].seen /\ Slot(c)' = Slot(c)
            BY <1>2, Zenon DEF Evicts
        <3>. QED
            BY <3>1, <3>2, Zenon DEF UpperRun, Counted
    <2>. QED
        BY <2>2, <2>3, Zenon DEF UpperInv
<1>3. CASE Elsewhere
    <2>1. \A s : Counted(s)' = Counted(s)
        BY <1>3, Zenon DEF Elsewhere, Counted
    <2>2. \A s \in DOMAIN table' : UpperTable(s)'
        BY <1>3, <2>1, Zenon DEF Elsewhere, UpperInv, UpperTable, IsPortScan
    <2>3. ASSUME NEW c \in CPU
          PROVE  UpperRun(c)'
        BY <1>3, Zenon DEF Elsewhere, UpperInv, UpperRun, Counted, Slot
    <2>. QED
        BY <2>2, <2>3, Zenon DEF UpperInv
<1>. QED
    BY <1>2, <1>3, StepCases, RunUpper, Zenon

-----------------------------------------------------------------------------
(* Entries that one queue's packets reach. Its CPU finds them as it left     *)
(* them, so that counts and reports are exact.                               *)

Own(c, s) == node.queues[s[2]] = {c} /\ s \notin evicted

\* Between the two stores that begin a window.
Resets(c, s) == cpu[c].stage = "reset" /\ Slot(c) = s

\* What its CPU read is what the entry is.
Hand(c, s) ==
    cpu[c].stage # "look" /\ Slot(c) = s =>
        /\ cpu[c].live
        /\ s \notin DOMAIN table => cpu[c].seen = {}
        /\ s \in DOMAIN table =>
            /\ cpu[c].stage = "store" => cpu[c].seen = {table[s]}
            /\ cpu[c].stage = "reset" => table[s].start = cpu[c].now

Order(c, s) ==
    cpu[c].pc # "idle" /\ s \in DOMAIN table => table[s].start <= cpu[c].now

\* A count is that of its window, and no packet is later than the window.
Tally(c, s) ==
    ~IsPortScan(s) =>
        /\ \A t \in Times(counted, s) :
            /\ s \in DOMAIN table
            /\ IF Resets(c, s) THEN t < table[s].start
               ELSE t <= table[s].start + RateWindow
        /\ s \in DOMAIN table /\ ~Resets(c, s) =>
            Latest(Logged(counted, s),
                   table[s].start .. table[s].start + RateWindow, table[s].count)

Over(s, e) == IF IsScan(s) THEN e.count >= ScanThreshold ELSE e.emitted

\* No report is of a later window, and there is one if the entry is over its
\* threshold.
Reported(c, s) ==
    IsScan(s) \/ IsPortScan(s) =>
        /\ \A t \in Times(reports, s) :
            /\ s \in DOMAIN table
            /\ IF Resets(c, s) THEN t < table[s].start ELSE t <= table[s].start
        /\ s \in DOMAIN table /\ ~Resets(c, s) =>
            Latest(Logged(reports, s), {table[s].start},
                   IF Over(s, table[s]) THEN 1 ELSE 0)

OwnInv(c, s) == Hand(c, s) /\ Order(c, s) /\ Tally(c, s) /\ Reported(c, s)

ExactInv == \A c \in CPU, s \in Slots : Own(c, s) => OwnInv(c, s)

\* No other run gets to the entry.
LEMMA SoleRun ==
    ASSUME FilterType, NEW c \in CPU, NEW s, Own(c, s),
           NEW d \in CPU, cpu[d].pc \in Tracking, Slot(d) = s
    PROVE  d = c
<1>1. cpu[d].pkt \in Packet /\ d \in node.queues[cpu[d].pkt.source]
    BY Zenon DEF FilterType, RunInv, Tracking
<1>2. s[2] = cpu[d].pkt.source
    BY <1>1, SlotFacts, Zenon DEF Slot
<1>. QED
    BY <1>1, <1>2, Zenon DEF Own

Untouched(s) ==
    /\ s \in DOMAIN table' <=> s \in DOMAIN table
    /\ s \in DOMAIN table => table'[s] = table[s]
    /\ Logged(counted', s) = Logged(counted, s)
    /\ Logged(reports', s) = Logged(reports, s)

LEMMA SilentlyUntouched ==
    ASSUME Silently, NEW s
    PROVE  Untouched(s)
BY DEF Silently, Untouched

\* A run leaves alone what it is not at.
LEMMA StepUntouched ==
    ASSUME FilterType, FilterType', NEW c \in CPU, Moves(c), Kinds(c), NEW s,
           cpu[c].pc \in Tracking => s # Slot(c)
    PROVE  Untouched(s)
<1>1. CASE Quiet(c) \/ Looks(c)
    BY <1>1, SilentlyUntouched, Zenon DEF Quiet, Looks
<1>2. ASSUME cpu[c].pc \in Tracking
      PROVE  /\ s \in DOMAIN table' <=> s \in DOMAIN table
             /\ s \in DOMAIN table => table'[s] = table[s]
    BY <1>2, Zenon DEF Moves
<1>3. CASE Rolls(c)
    BY <1>2, <1>3, Zenon DEF Rolls, Remains, Untouched
<1>4. ASSUME NEW o, Counts(c, o) \/ Touches(c, o)
      PROVE  Untouched(s)
    <2>1. cpu[c].pc \in Tracking /\ cpu[c].pkt \in Packet /\ cpu[c].now \in Nat
        BY <1>4 DEF Counts, Touches, Tracking, FilterType, RunInv, Run
    <2>2. o.entry.start \in Nat
        <3>1. o.entry \in Entry(Slot(c))
            BY <1>4, CountFacts, TouchFacts, Zenon DEF Counts, Touches, Stores
        <3>. QED
            BY <3>1, Zenon DEF Entry, RateEntry, PortEntry
    <2>3. /\ counted' = counted \/ counted' = Record(counted, Slot(c), cpu[c].now)
          /\ reports' = reports \/ reports' = Record(reports, Slot(c), o.entry.start)
        BY <1>4, Zenon DEF Counts, Touches, Reports
    <2>4. /\ Logged(counted', s) = Logged(counted, s)
          /\ Logged(reports', s) = Logged(reports, s)
        BY <2>1, <2>2, <2>3, RecordFacts DEF FilterType
    <2>. QED
        BY <1>2, <2>1, <2>4, Zenon DEF Untouched
<1>. QED
    BY <1>1, <1>3, <1>4, Zenon DEF Kinds

\* What is left alone stays exact.
LEMMA UntouchedInv ==
    ASSUME NEW c, NEW s, OwnInv(c, s), Untouched(s),
           Resets(c, s)' <=> Resets(c, s), Hand(c, s)', Order(c, s)'
    PROVE  OwnInv(c, s)'
<1>1. Tally(c, s)'
    BY Zenon DEF OwnInv, Untouched, Tally, Times, IsPortScan
<1>2. Reported(c, s)'
    BY Zenon DEF OwnInv, Untouched, Reported, Over, Times, IsPortScan, IsScan
<1>. QED
    BY <1>1, <1>2, Zenon DEF OwnInv

LEMMA RollOwn ==
    ASSUME FilterType, NEW c \in CPU, NEW s \in Slots, OwnInv(c, s),
           Moves(c), Rolls(c), Slot(c) = s
    PROVE  OwnInv(c, s)'
<1>1. /\ cpu[c].live /\ s \in DOMAIN table /\ cpu[c].seen = {table[s]}
      /\ cpu[c].pc \in Tracking \ {"ports"} /\ cpu[c].stage = "store"
    BY Zenon DEF OwnInv, Hand, Rolls, Remains
<1>2. /\ ~IsPortScan(s) /\ table[s] \in RateEntry /\ cpu[c].now \in Nat
      /\ RateWindow \in Nat /\ IsLog(counted) /\ IsLog(reports)
    BY <1>1, SlotFacts, FilterAssumption, Zenon
    DEF FilterType, TableInv, Entry, Slot, RunInv, Tracking, Run
<1>3. table[s].start + RateWindow < cpu[c].now
    <2>1. Expired(cpu[c].now, table[s].start, RateWindow)
        BY <1>1, Zenon DEF Rolls
    <2>2. table[s].start <= cpu[c].now
        BY <1>1, Zenon DEF OwnInv, Order, Tracking
    <2>. QED
        BY <1>2, <2>1, <2>2 DEF Expired, RateEntry
<1>4. /\ s \in DOMAIN table' /\ table'[s].start = cpu[c].now
      /\ cpu'[c].now = cpu[c].now /\ Slot(c)' = s /\ cpu'[c].stage = "reset"
      /\ cpu'[c].live /\ counted' = counted /\ reports' = reports
    BY <1>1, <1>2, Zenon DEF Rolls, Remains, Moves, RateEntry
<1>5. Resets(c, s)' /\ ~Resets(c, s)
    BY <1>1, <1>4, Zenon DEF Resets
<1>6. Hand(c, s)' /\ Order(c, s)'
    BY <1>2, <1>4 DEF Hand, Order
<1>7. Tally(c, s)'
    <2>1. \A t \in Times(counted, s) : t <= table[s].start + RateWindow /\ t \in Nat
        BY <1>2, <1>5, LoggedType, Zenon DEF OwnInv, Tally
    <2>. QED
        BY <1>2, <1>3, <1>4, <1>5, <2>1 DEF Tally, RateEntry
<1>8. Reported(c, s)'
    <2>1. IsScan(s) => \A t \in Times(reports, s) : t <= table[s].start /\ t \in Nat
        BY <1>2, <1>5, LoggedType, Zenon DEF OwnInv, Reported
    <2>. QED
        BY <1>2, <1>3, <1>4, <1>5, <2>1 DEF Reported, RateEntry, IsScan, IsPortScan
<1>. QED
    BY <1>6, <1>7, <1>8, Zenon DEF OwnInv

\* A packet begins a window, or is one more of the window it is in.
LEMMA CountOwn ==
    ASSUME FilterType, NEW c \in CPU, NEW s \in Slots, OwnInv(c, s),
           Slot(c) = s, cpu[c].stage # "look", NEW o \in Count(c),
           cpu[c].pc \in Tracking \ {"ports"}
    PROVE  /\ o.entry \in RateEntry /\ o.entry.start <= cpu[c].now
           /\ cpu[c].now <= o.entry.start + RateWindow
           /\ \/ /\ o.entry.start = cpu[c].now /\ o.entry.count = 1 /\ o.prior = 0
                 /\ \A t \in Times(counted, s) : t < cpu[c].now
                 /\ IsScan(s) => \A t \in Times(reports, s) : t < cpu[c].now
              \/ /\ s \in DOMAIN table /\ ~Resets(c, s)
                 /\ o.entry.start = table[s].start /\ o.prior = table[s].count
                 /\ o.entry.count = table[s].count + 1
<1>1. /\ ~IsPortScan(s) /\ Entry(s) = RateEntry /\ cpu[c].now \in Nat
      /\ RateWindow \in Nat /\ cpu[c].stage \in {"store", "reset"}
      /\ cpu[c].stage = "reset" => cpu[c].seen # {}
    BY SlotFacts, FilterAssumption, Zenon DEF FilterType, Entry, Slot, RunInv, Tracking, Run
<1>2. cpu[c].live /\ cpu[c].pc # "idle"
    BY DEF OwnInv, Hand, Tracking
<1>3. s \in DOMAIN table => table[s] \in RateEntry
    BY <1>1, ZenonT(60) DEF FilterType, TableInv
<1>4. CASE s \notin DOMAIN table
    <2>1. o = Fresh(c)
        BY <1>4, CountCases, Zenon DEF OwnInv, Hand
    <2>2. Times(counted, s) = {} /\ (IsScan(s) => Times(reports, s) = {})
        BY <1>1, <1>4, Zenon DEF OwnInv, Tally, Reported
    <2>. QED
        BY <1>1, <2>1, <2>2 DEF Fresh, RateEntry
<1>5. CASE s \in DOMAIN table /\ cpu[c].stage = "reset"
    <2>1. o = Restart(c) /\ Current(c, [start |-> cpu[c].now, count |-> 1]) = table[s]
        BY <1>1, <1>2, <1>5, CountCases, Zenon DEF Current
    <2>2. table[s].start = cpu[c].now /\ Resets(c, s)
        BY <1>5, Zenon DEF OwnInv, Hand, Resets
    <2>3. /\ \A t \in Times(counted, s) : t < cpu[c].now
          /\ IsScan(s) => \A t \in Times(reports, s) : t < cpu[c].now
        BY <1>1, <2>2, Zenon DEF OwnInv, Tally, Reported
    <2>. QED
        BY <1>1, <1>3, <1>5, <2>1, <2>2, <2>3 DEF Restart, RateEntry
<1>6. CASE s \in DOMAIN table /\ cpu[c].stage = "store"
    <2>1. cpu[c].seen = {table[s]} /\ Current(c, table[s]) = table[s]
        BY <1>2, <1>6, ZenonT(60) DEF OwnInv, Hand, Current
    <2>2. /\ o = Increment(c, table[s], table[s].count)
          /\ ~Expired(cpu[c].now, table[s].start, RateWindow)
        BY <1>6, <2>1, CountCases
    <2>3. ~Resets(c, s)
        BY <1>6, Zenon DEF Resets
    <2>. QED
        BY <1>1, <1>3, <1>6, <2>1, <2>2, <2>3 DEF Increment, RateEntry, Expired
<1>. QED
    BY <1>1, <1>4, <1>5, <1>6, Zenon

\* The times of a window, and the times before it.
LEMMA WindowTimes ==
    ASSUME NEW a \in Nat, NEW R \in Nat
    PROVE  /\ \A t \in Nat : a <= t /\ t <= a + R => t \in a .. a + R
           /\ \A t \in Nat : t < a => t \notin a .. a + R /\ t \notin {a}
           /\ \A t \in Nat : t < a => t <= a /\ t <= a + R
OBVIOUS

LEMMA CountsOwn ==
    ASSUME FilterType, NEW c \in CPU, NEW s \in Slots, OwnInv(c, s),
           Moves(c), NEW o, Counts(c, o), Slot(c) = s
    PROVE  OwnInv(c, s)'
<1>. DEFINE now == cpu[c].now  a == o.entry.start  W == a .. a + RateWindow
            first == /\ a = now /\ o.entry.count = 1 /\ o.prior = 0
                     /\ \A t \in Times(counted, s) : t < now
                     /\ IsScan(s) => \A t \in Times(reports, s) : t < now
            next == /\ s \in DOMAIN table /\ ~Resets(c, s)
                    /\ a = table[s].start /\ o.prior = table[s].count
                    /\ o.entry.count = table[s].count + 1
<1>1. /\ cpu[c].stage # "look" /\ cpu[c].pc \in Tracking \ {"ports"}
      /\ o \in Count(c) /\ cpu'[c].stage = "look"
      /\ cpu'[c].pc # "idle" => cpu'[c].now = now
      /\ counted' = Record(counted, s, now)
    BY Zenon DEF Counts, Stores
<1>2. s \in DOMAIN table' /\ table'[s] = o.entry
    BY <1>1, ZenonT(60) DEF Counts, Stores, OwnInv, Hand
<1>3. /\ ~IsPortScan(s) /\ (IsScan(s) => cpu[c].pc = "scan")
      /\ now \in Nat /\ RateWindow \in Nat
      /\ ScanThreshold \in Nat \ {0, 1} /\ IsLog(counted) /\ IsLog(reports)
    BY <1>1, SlotFacts, FilterAssumption, ZenonT(60)
    DEF FilterType, Slot, RunInv, Tracking, Run
<1>4. /\ a \in Nat /\ o.entry.count \in Nat /\ a <= now /\ now <= a + RateWindow
      /\ first \/ next
    BY <1>1, CountOwn DEF RateEntry
<1>5. ~Resets(c, s)' /\ Hand(c, s)' /\ Order(c, s)'
    BY <1>1, <1>2, <1>4, Zenon DEF Resets, Hand, Order
<1>6. Tally(c, s)'
    <2>1. /\ Times(counted', s) = Times(counted, s) \cup {now}
          /\ \A n \in Nat : Latest(Logged(counted, s), W, n)
                => Latest(Logged(counted', s), W, n + 1)
        <3>1. now \in W
            BY <1>3, <1>4, WindowTimes, ZenonT(60)
        <3>2. /\ Times(Record(counted, s, now), s) = Times(counted, s) \cup {now}
              /\ \A T : \A n \in Nat : now \in T /\ Latest(Logged(counted, s), T, n)
                    => Latest(Logged(Record(counted, s, now), s), T, n + 1)
            BY <1>3, LatestNow
        <3>. HIDE DEF W, now
        <3>. QED
            BY <1>1, <3>1, <3>2, ZenonT(60)
    <2>2. CASE first
        <3>1. Latest(Logged(counted, s), W, 0)
            <4>1. \A t \in Times(counted, s) : t \notin W
                BY <1>3, <1>4, <2>2, LoggedType, WindowTimes, Zenon
            <4>. QED
                BY <1>3, <4>1, LatestNone, Zenon
        <3>2. \A t \in Times(counted', s) : t <= a + RateWindow
            <4>1. \A t \in Times(counted, s) : t <= a + RateWindow
                BY <1>3, <1>4, <2>2, LoggedType, WindowTimes, Zenon
            <4>. QED
                BY <1>4, <2>1, <4>1, Zenon
        <3>. HIDE DEF W
        <3>3. Latest(Logged(counted', s), W, o.entry.count)
            <4>1. 0 \in Nat /\ 0 + 1 = 1
                OBVIOUS
            <4>2. Latest(Logged(counted', s), W, 0 + 1)
                BY <2>1, <3>1, <4>1, Zenon
            <4>. QED
                BY <2>2, <4>1, <4>2, Zenon
        <3>. QED
            BY <1>2, <1>5, <3>2, <3>3, Zenon DEF Tally, W
    <2>3. CASE next
        <3>1. /\ table[s].count \in Nat
              /\ Latest(Logged(counted, s), W, table[s].count)
              /\ \A t \in Times(counted, s) : t <= a + RateWindow
            BY <1>3, <2>3, CountsNat, Zenon DEF OwnInv, Tally
        <3>2. \A t \in Times(counted', s) : t <= a + RateWindow
            BY <1>4, <2>1, <3>1, Zenon
        <3>. HIDE DEF W
        <3>3. Latest(Logged(counted', s), W, o.entry.count)
            BY <2>1, <2>3, <3>1, Zenon
        <3>. QED
            BY <1>2, <1>5, <3>2, <3>3, Zenon DEF Tally, W
    <2>. QED
        BY <1>4, <2>2, <2>3, Zenon
<1>7. Reported(c, s)'
    <2>. SUFFICES ASSUME IsScan(s) PROVE Reported(c, s)'
        BY <1>3, Zenon DEF Reported, IsScan, IsPortScan
    <2>1. IF Crosses(o.prior) THEN reports' = Record(reports, s, a)
          ELSE reports' = reports
        BY <1>3, Zenon DEF Counts, Reports
    <2>2. CASE first
        <3>1. reports' = reports /\ ~(o.entry.count >= ScanThreshold)
            BY <1>3, <2>1, <2>2 DEF Crosses
        <3>2. Latest(Logged(reports, s), {a}, 0)
            <4>1. \A t \in Times(reports, s) : t \notin {a}
                BY <1>3, <1>4, <2>2, LoggedType, WindowTimes, Zenon
            <4>. QED
                BY <1>3, <4>1, LatestNone, Zenon
        <3>3. \A t \in Times(reports, s) : t <= a
            BY <1>3, <1>4, <2>2, LoggedType, WindowTimes, Zenon
        <3>. QED
            BY <1>2, <1>5, <3>1, <3>2, <3>3, ZenonT(60) DEF Reported, Over, IsScan
    <2>3. CASE next
        <3>1. /\ \A t \in Times(reports, s) : t <= a
              /\ Latest(Logged(reports, s), {a},
                        IF table[s].count >= ScanThreshold THEN 1 ELSE 0)
            BY <2>3, Zenon DEF OwnInv, Reported, Over
        <3>2. table[s].count \in Nat
            BY <2>3, CountsNat, Zenon
        <3>3. CASE Crosses(o.prior)
            <4>1. /\ Times(reports', s) = Times(reports, s) \cup {a}
                  /\ Latest(Logged(reports, s), {a}, 0)
                        => Latest(Logged(reports', s), {a}, 1)
                <5>1. a \in Nat /\ reports' = Record(reports, s, a)
                    BY <1>4, <2>1, <3>3, Zenon
                <5>. QED
                    BY <1>3, <5>1, LatestNow
            <4>2. /\ o.entry.count >= ScanThreshold
                  /\ ~(table[s].count >= ScanThreshold)
                <5>1. /\ table[s].count + 1 = ScanThreshold /\ ScanThreshold \in Nat
                      /\ o.entry.count = table[s].count + 1
                    BY <1>3, <2>3, <3>3, Zenon DEF Crosses
                <5>. QED
                    BY <3>2, <5>1
            <4>3. /\ Latest(Logged(reports', s), {a}, 1)
                  /\ \A t \in Times(reports', s) : t <= a
                BY <1>4, <3>1, <4>1, <4>2
            <4>. QED
                BY <1>2, <1>5, <4>2, <4>3, Zenon DEF Reported, Over, IsScan
        <3>4. CASE ~Crosses(o.prior)
            <4>1. /\ reports' = reports
                  /\ o.entry.count >= ScanThreshold <=> table[s].count >= ScanThreshold
                BY <1>3, <2>1, <2>3, <3>2, <3>4 DEF Crosses
            <4>. QED
                BY <1>2, <1>5, <3>1, <4>1, Zenon DEF Reported, Over, IsScan
        <3>. QED
            BY <3>3, <3>4, Zenon
    <2>. QED
        BY <1>4, <2>2, <2>3, Zenon
<1>. QED
    BY <1>5, <1>6, <1>7, Zenon DEF OwnInv

\* A port begins a window, or is one more of the window it is in.
LEMMA TouchOwn ==
    ASSUME FilterType, NEW c \in CPU, NEW s \in Slots, OwnInv(c, s),
           Slot(c) = s, cpu[c].stage = "store", cpu[c].pc = "ports",
           NEW o \in Touch(c)
    PROVE  /\ o.entry.start \in Nat /\ o.entry.start <= cpu[c].now
           /\ o.entry.emitted \in BOOLEAN /\ (o.report <=> o.entry.emitted)
           /\ \/ /\ o.entry.start = cpu[c].now /\ ~o.report
                 /\ \A t \in Times(reports, s) : t < cpu[c].now
              \/ /\ s \in DOMAIN table
                 /\ o.entry.start = table[s].start /\ ~table[s].emitted
<1>1. /\ IsPortScan(s) /\ ~IsScan(s) /\ Entry(s) = PortEntry /\ cpu[c].now \in Nat
      /\ MultiportWindow \in Nat /\ cpu[c].pkt.port \in Port \cup SignalingPort
      /\ cpu[c].live /\ ~Resets(c, s) /\ IsLog(reports)
    BY SlotFacts, FilterAssumption, Zenon
    DEF FilterType, Entry, Slot, RunInv, Tracking, Run, Packet, OwnInv, Hand, Resets
<1>2. s \in DOMAIN table =>
        /\ table[s] \in PortEntry /\ table[s].start <= cpu[c].now
        /\ cpu[c].seen = {table[s]}
    BY <1>1, Zenon DEF FilterType, TableInv, OwnInv, Order, Hand
<1>3. CASE /\ \A e \in cpu[c].seen : Expired(cpu[c].now, e.start, MultiportWindow)
           /\ o = FirstPort(c)
    <2>1. \A t \in Times(reports, s) : t < cpu[c].now
        <3>1. \A t \in Times(reports, s) :
                s \in DOMAIN table /\ t <= table[s].start /\ t \in Nat
            BY <1>1, LoggedType, Zenon DEF OwnInv, Reported
        <3>. QED
            BY <1>1, <1>2, <1>3, <3>1 DEF Expired, PortEntry
    <2>2. /\ o.entry.start = cpu[c].now /\ o.entry.emitted = FALSE
          /\ o.report = FALSE
        BY <1>3, Zenon DEF FirstPort
    <2>3. o.entry.start \in Nat /\ o.entry.start <= cpu[c].now
        BY <1>1, <2>2
    <2>. QED
        BY <2>1, <2>2, <2>3, Zenon
<1>4. ASSUME NEW e \in cpu[c].seen, NEW n \in {e.count, Current(c, e).count},
             IsNewPort(e, cpu[c].pkt.port), o = NextPort(c, e, n)
      PROVE  /\ o.entry.start = table[s].start /\ s \in DOMAIN table
             /\ ~table[s].emitted /\ o.entry.emitted \in BOOLEAN
             /\ o.report <=> o.entry.emitted
             /\ o.entry.start \in Nat /\ o.entry.start <= cpu[c].now
    <2>1. s \in DOMAIN table
        BY <1>4, Zenon DEF OwnInv, Hand
    <2>2. /\ e = table[s] /\ Current(c, e) = table[s] /\ ~table[s].emitted
          /\ table[s] \in PortEntry
        BY <1>1, <1>2, <1>4, <2>1, Zenon DEF Current, IsNewPort
    <2>. DEFINE b == n + 1 = MultiportThreshold
    <2>3. b \in BOOLEAN /\ n \in Nat /\ e.count \in Nat
        BY <2>2, Zenon DEF PortEntry
    <2>4. o.entry = Entered(table[s], e.count, cpu[c].pkt.port, n, table[s].emitted \/ b)
        BY <1>4, <2>2, Zenon DEF NextPort, Entered
    <2>5. o.report = b
        BY <1>4, Zenon DEF NextPort
    <2>6. (table[s].emitted \/ b) = b
        BY <2>2, Zenon
    <2>. HIDE DEF b
    <2>7. o.entry.start = table[s].start /\ o.entry.emitted = b
        BY <1>1, <2>2, <2>3, <2>4, <2>6, PortEntered
    <2>8. o.entry.start \in Nat /\ o.entry.start <= cpu[c].now
        BY <1>2, <2>1, <2>2, <2>7, Zenon DEF PortEntry
    <2>. QED
        BY <2>1, <2>2, <2>3, <2>5, <2>7, <2>8, Zenon
<1>5. CASE \E e \in cpu[c].seen : \E n \in {e.count, Current(c, e).count} :
                IsNewPort(e, cpu[c].pkt.port) /\ o = NextPort(c, e, n)
    <2>1. PICK e \in cpu[c].seen : \E n \in {e.count, Current(c, e).count} :
            IsNewPort(e, cpu[c].pkt.port) /\ o = NextPort(c, e, n)
        BY <1>5, Zenon
    <2>2. PICK n \in {e.count, Current(c, e).count} :
            IsNewPort(e, cpu[c].pkt.port) /\ o = NextPort(c, e, n)
        BY <2>1, Zenon
    <2>. QED
        BY <1>4, <2>2, Zenon
<1>. QED
    BY <1>3, <1>5, TouchCases, Zenon

LEMMA TouchesOwn ==
    ASSUME FilterType, NEW c \in CPU, NEW s \in Slots, OwnInv(c, s),
           Moves(c), NEW o, Touches(c, o), Slot(c) = s
    PROVE  OwnInv(c, s)'
<1>. DEFINE now == cpu[c].now  a == o.entry.start
<1>1. /\ cpu[c].stage = "store" /\ cpu[c].pc = "ports" /\ o \in Touch(c)
      /\ cpu'[c].stage = "look" /\ (cpu'[c].pc # "idle" => cpu'[c].now = now)
      /\ IF o.report THEN reports' = Record(reports, s, a)
         ELSE reports' = reports
    <2>1. cpu[c].stage # "look" /\ cpu[c].pc = "ports"
        BY Zenon DEF Touches, Stores
    <2>2. cpu[c].stage = "store"
        BY <2>1, Zenon DEF FilterType, RunInv, Run
    <2>. QED
        BY <2>1, <2>2, Zenon DEF Touches, Stores, Reports
<1>2. s \in DOMAIN table' /\ table'[s] = o.entry
    BY <1>1, ZenonT(60) DEF Touches, Stores, OwnInv, Hand
<1>3. IsPortScan(s) /\ ~IsScan(s) /\ now \in Nat /\ IsLog(reports)
    BY <1>1, SlotFacts, Zenon DEF FilterType, Slot, RunInv, Tracking, Run
<1>4. /\ a \in Nat /\ a <= now /\ (o.report <=> o.entry.emitted)
      /\ \/ a = now /\ ~o.report /\ \A t \in Times(reports, s) : t < now
         \/ s \in DOMAIN table /\ a = table[s].start /\ ~table[s].emitted
    BY <1>1, TouchOwn, Zenon
<1>5. ~Resets(c, s)' /\ Hand(c, s)' /\ Order(c, s)'
    BY <1>1, <1>2, <1>4, Zenon DEF Resets, Hand, Order
<1>6. Tally(c, s)'
    BY <1>3, Zenon DEF Tally, IsPortScan
<1>7. (\A t \in Times(reports, s) : t <= a) /\ Latest(Logged(reports, s), {a}, 0)
    <2>1. CASE a = now /\ \A t \in Times(reports, s) : t < now
        BY <1>3, <2>1, LatestNone, LoggedType
    <2>2. CASE s \in DOMAIN table /\ a = table[s].start /\ ~table[s].emitted
        <3>1. ~Resets(c, s)
            BY <1>1, Zenon DEF Resets
        <3>. QED
            BY <1>3, <2>2, <3>1, Zenon DEF OwnInv, Reported, Over
    <2>. QED
        BY <1>4, <2>1, <2>2, Zenon
<1>8. /\ \A t \in Times(reports', s) : t <= a
      /\ Latest(Logged(reports', s), {a}, IF o.report THEN 1 ELSE 0)
    <2>1. CASE o.report
        <3>1. reports' = Record(reports, s, a) /\ a \in Nat
            BY <1>1, <1>4, <2>1, Zenon
        <3>2. /\ Times(reports', s) = Times(reports, s) \cup {a}
              /\ Latest(Logged(reports', s), {a}, 1)
            BY <1>3, <1>7, <3>1, LatestNow
        <3>. QED
            BY <1>7, <2>1, <3>1, <3>2
    <2>2. CASE ~o.report
        BY <1>1, <1>7, <2>2, Zenon
    <2>. QED
        BY <2>1, <2>2, Zenon
<1>9. Reported(c, s)'
    BY <1>2, <1>3, <1>4, <1>5, <1>8, Zenon DEF Reported, Over, IsScan, IsPortScan
<1>. QED
    BY <1>5, <1>6, <1>9 DEF OwnInv

LEMMA RunOwn ==
    ASSUME FilterType, FilterType', ExactInv, NEW c \in CPU, Moves(c), Kinds(c)
    PROVE  ExactInv'
<1>. SUFFICES ASSUME NEW d \in CPU, NEW s \in Slots, Own(d, s)'
              PROVE  OwnInv(d, s)'
    BY Zenon DEF ExactInv
<1>1. Own(d, s) /\ OwnInv(d, s)
    BY Zenon DEF ExactInv, Moves, Own
<1>2. RunInv(c) /\ RunInv(d) /\ cpu[c] \in Run /\ time \in Nat /\ cpu[d] \in Run
    BY Zenon DEF FilterType
<1>3. s \in DOMAIN table => table[s].start <= time
    BY Zenon DEF FilterType, TableInv
<1>4. CASE d # c
    <2>1. cpu[c].pc \in Tracking => s # Slot(c)
        BY <1>1, <1>4, SoleRun, Zenon
    <2>2. Untouched(s)
        BY <2>1, StepUntouched, Zenon
    <2>3. /\ Slot(d)' = Slot(d) /\ cpu'[d].pc = cpu[d].pc
          /\ cpu'[d].now = cpu[d].now /\ cpu'[d].stage = cpu[d].stage
          /\ cpu'[d].seen = cpu[d].seen
          /\ cpu[d].live /\ (cpu[d].stage = "look" \/ Slot(d) # Slot(c)) => cpu'[d].live
        BY <1>4, Zenon DEF Moves, Bystander
    <2>4. Slot(d) = s /\ cpu[d].live => cpu'[d].live
        <3>1. CASE cpu[c].pc \in Tracking
            BY <2>1, <2>3, <3>1, Zenon
        <3>2. CASE cpu[c].pc \notin Tracking
            <4>1. Quiet(c)
                BY <3>2, Zenon DEF Kinds, Looks, Rolls, Remains, Counts, Touches, Tracking
            <4>. QED
                BY <1>4, <4>1, Zenon DEF Quiet
        <3>. QED
            BY <3>1, <3>2, Zenon
    <2>5. Hand(d, s)' /\ Order(d, s)' /\ (Resets(d, s)' <=> Resets(d, s))
        BY <1>1, <2>2, <2>3, <2>4, Zenon
        DEF OwnInv, Hand, Order, Resets, Untouched
    <2>. QED
        BY <1>1, <2>2, <2>5, UntouchedInv, Zenon
<1>5. ASSUME d = c, Untouched(s), ~Resets(c, s)', ~Resets(c, s), Hand(c, s)'
      PROVE  OwnInv(d, s)'
    <2>1. cpu'[c].pc # "idle" =>
            cpu'[c].now = IF cpu[c].pc = "idle" THEN time ELSE cpu[c].now
        BY ZenonT(60) DEF Kinds, Quiet, Looks, Rolls, Remains, Counts, Touches, Stores, Tracking
    <2>2. Order(c, s)'
        BY <1>1, <1>3, <1>5, <2>1, Zenon DEF OwnInv, Order, Untouched
    <2>. QED
        BY <1>1, <1>5, <2>2, UntouchedInv, Zenon
<1>6. CASE d = c /\ (cpu[c].pc \in Tracking => Slot(c) # s)
    <2>1. Untouched(s)
        BY <1>6, StepUntouched, Zenon
    <2>2. ~(cpu[c].stage # "look" /\ Slot(c) = s)
        BY <1>2, <1>6, Zenon DEF RunInv
    <2>3. ~(cpu'[c].stage # "look" /\ Slot(c)' = s)
        BY <1>6, Zenon DEF Kinds, Quiet, Looks, Rolls, Remains, Counts, Touches, Stores
    <2>4. ~Resets(c, s)' /\ ~Resets(c, s) /\ Hand(c, s)'
        BY <2>2, <2>3, Zenon DEF Resets, Hand
    <2>. QED
        BY <1>5, <1>6, <2>1, <2>4, Zenon
<1>7. CASE d = c /\ cpu[c].pc \in Tracking /\ Slot(c) = s
    <2>1. CASE Quiet(c)
        BY <1>5, <1>7, <2>1, SilentlyUntouched, Zenon DEF Quiet, Resets, Hand
    <2>2. CASE Looks(c)
        <3>1. Untouched(s) /\ ~Resets(c, s)' /\ ~Resets(c, s)
            BY <2>2, SilentlyUntouched, Zenon DEF Looks, Resets
        <3>2. Hand(c, s)'
            BY <1>2, <1>7, <2>2, Zenon DEF Looks, Remains, Silently, Hand, RunInv
        <3>. QED
            BY <1>5, <1>7, <3>1, <3>2, Zenon
    <2>. QED
        BY <1>1, <1>7, <2>1, <2>2, RollOwn, CountsOwn, TouchesOwn, ZenonT(60) DEF Kinds
<1>. QED
    BY <1>4, <1>6, <1>7, Zenon

LEMMA ExactNext ==
    ASSUME FilterType, FilterType', ExactInv, [FilterNext]_filterVars
    PROVE  ExactInv'
<1>1. ASSUME NEW r \in DOMAIN table, Evicts(r)
      PROVE  ExactInv'
    <2>. SUFFICES ASSUME NEW c \in CPU, NEW s \in Slots, Own(c, s)'
                  PROVE  OwnInv(c, s)'
        BY Zenon DEF ExactInv
    <2>1. Own(c, s) /\ OwnInv(c, s) /\ s # r
        BY <1>1, Zenon DEF ExactInv, Evicts, Own
    <2>2. Untouched(s)
        BY <1>1, <2>1, Zenon DEF Evicts, Untouched
    <2>3. /\ Slot(c)' = Slot(c) /\ cpu'[c].pc = cpu[c].pc
          /\ cpu'[c].now = cpu[c].now /\ cpu'[c].stage = cpu[c].stage
          /\ cpu'[c].seen = cpu[c].seen
          /\ Slot(c) = s /\ cpu[c].live => cpu'[c].live
        BY <1>1, <2>1, Zenon DEF Evicts
    <2>4. Hand(c, s)' /\ Order(c, s)' /\ (Resets(c, s)' <=> Resets(c, s))
        BY <2>1, <2>2, <2>3, Zenon DEF OwnInv, Hand, Order, Resets, Untouched
    <2>. QED
        BY <2>1, <2>2, <2>4, UntouchedInv, Zenon
<1>2. CASE Elsewhere
    <2>. SUFFICES ASSUME NEW c \in CPU, NEW s \in Slots, Own(c, s)'
                  PROVE  OwnInv(c, s)'
        BY Zenon DEF ExactInv
    <2>1. Own(c, s) /\ OwnInv(c, s) /\ Untouched(s)
        BY <1>2, Zenon DEF ExactInv, Elsewhere, Own, Untouched
    <2>2. Hand(c, s)' /\ Order(c, s)' /\ (Resets(c, s)' <=> Resets(c, s))
        BY <1>2, <2>1, Zenon DEF Elsewhere, OwnInv, Hand, Order, Resets, Slot
    <2>. QED
        BY <2>1, <2>2, UntouchedInv, Zenon
<1>. QED
    BY <1>1, <1>2, StepCases, RunOwn, Zenon

CountInv == FilterType /\ UpperInv /\ ExactInv

LEMMA CountInit == FilterInit => CountInv
<1>. SUFFICES ASSUME FilterInit PROVE CountInv
    BY Zenon
<1>1. /\ table = <<>> /\ cpu = [c \in CPU |-> Idle]
      /\ counted = <<>> /\ reports = <<>>
    BY Zenon DEF FilterInit
<1>2. UpperInv
    BY <1>1 DEF UpperInv, UpperRun, Idle
<1>3. \A s : Times(counted, s) = {} /\ Times(reports, s) = {}
    BY <1>1 DEF Times, Logged
<1>4. ExactInv
    BY <1>1, <1>3
    DEF ExactInv, OwnInv, Hand, Order, Tally, Reported, Resets, Idle
<1>. QED
    BY <1>2, <1>4, TypeInit, Zenon DEF CountInv

LEMMA CountNext == CountInv /\ [FilterNext]_filterVars => CountInv'
BY TypeStep, UpperNext, ExactNext, Zenon DEF CountInv

\* An entry that is exact has a CPU of its own.
LEMMA ExactIsOwn ==
    ASSUME CountInv, NEW s \in DOMAIN table, Exact(s)
    PROVE  \E c \in CPU : OwnInv(c, s) /\ ~Resets(c, s)
<1>1. s \in Slots
    BY Zenon DEF CountInv, FilterType, TableInv
<1>2. PICK c \in CPU : Own(c, s)
    BY DEF Own, Exact, SoleQueue
<1>. QED
    BY <1>1, <1>2, Zenon DEF CountInv, ExactInv, Exact, SoleQueue, Resets

\* A counter of the rate maps never holds more packets than its key sent, for
\* any number of CPUs that race for it; and one that a single queue reaches
\* holds exactly the packets of its window.
THEOREM CountsHold == FilterSpec => []CountsAreReal
<1>1. ASSUME CountInv, NEW s \in DOMAIN table, ~IsPortScan(s)
      PROVE  /\ table[s].count <= Len(Logged(counted, s))
             /\ Exact(s) =>
                    Latest(Logged(counted, s),
                        table[s].start .. table[s].start + RateWindow, table[s].count)
    <2>1. table[s].count <= Len(Logged(counted, s))
        BY <1>1, Zenon DEF CountInv, UpperInv, UpperTable, Counted
    <2>. QED
        BY <1>1, <2>1, ExactIsOwn, Zenon DEF OwnInv, Tally
<1>2. CountInv => CountsAreReal
    BY <1>1, Zenon DEF CountsAreReal
<1>. QED
    BY <1>2, CountInit, CountNext, PTL DEF FilterSpec

\* Of an entry that a single queue reaches, track_scan_rate and
\* track_port_scan report each window at most once, and once if it is over
\* the threshold.
THEOREM ReportsHold == FilterSpec => []OneReportPerWindow
<1>1. CountInv => OneReportPerWindow
    BY ExactIsOwn, Zenon DEF OneReportPerWindow, OwnInv, Reported, Over
<1>. QED
    BY <1>1, CountInit, CountNext, PTL DEF FilterSpec
=============================================================================
