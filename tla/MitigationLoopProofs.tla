------------------------ MODULE MitigationLoopProofs ------------------------
(***************************************************************************)
(* Safety of the mitigation loop for any policies, sources, scores, bounds *)
(* and map capacities, from one inductive invariant; and that the loop     *)
(* implements Enforcement.                                                 *)
(***************************************************************************)
EXTENDS MitigationLoop, TLAPS

(* The SMT solver may take its time on a leaf that names no prover. *)
USE SMTT(60)

-----------------------------------------------------------------------------
(* The operators the actions are built from. *)

LEMMA AbsentType ==
  /\ Absent \in Object /\ Absent.status = NewStatus
  /\ ~Absent.live /\ ~Absent.deleting
BY ClusterAssumption
   DEF Absent, Object, NewStatus, PolicyStatus, PolicyPhase, ScoringReason,
       Never

LEMMA NewStatusTimed == Timed(NewStatus)
BY DEF Timed, NewStatus

LEMMA KeysType ==
  ASSUME NEW spec \in PolicySpec, NEW s \in Score
  PROVE  /\ Keys(spec, s) \subseteq Target
         /\ Actions(spec, s) \subseteq Target \cup Workload
BY DEF Keys, Actions, BlockSource, BlockTunnel, Target, Tunnel, Score,
       PolicySpec

LEMMA DecideType ==
  ASSUME NEW obj \in Object, NEW s \in Score, NEW e \in BOOLEAN, NEW t \in Nat
  PROVE  /\ Decide(obj, s, e, t) \in PolicyStatus
         /\ obj.status.blocked \subseteq Decide(obj, s, e, t).blocked
<1>1. Keys(obj.spec, s) \subseteq Target
  BY KeysType DEF Object
<1> DEFINE seen0 == [obj.status EXCEPT !.observed = s.score]
<1>2. seen0 \in PolicyStatus /\ seen0.blocked = obj.status.blocked
  BY DEF Object, PolicyStatus, Score
<1> HIDE DEF seen0
<1>3. QED
  BY <1>1, <1>2, Zenon DEF Decide, seen0, PolicyStatus, PolicyPhase

LEMMA StartTypes ==
  WatcherStart \in WatcherState /\ WorkerIdle \in WorkerState
  /\ SyncStart \in SyncState /\ TrackerStart \in TrackerState
<1>1. Burst * Interval \in Nat /\ 0 \in Nat
  BY WatcherAssumption
<1>2. QED
  BY <1>1, ClusterAssumption, WatcherAssumption, Zenon
     DEF WatcherStart, WatcherState, WorkerIdle, WorkerState, WorkerPC,
         SyncStart, SyncState, TrackerStart, TrackerState

-----------------------------------------------------------------------------
(* Stored versions are never lost or rewritten. *)

Grows(p) ==
    /\ Len(hist[p]) <= Len(hist'[p])
    /\ \A v \in 1..Len(hist[p]) : hist'[p][v] = hist[p][v]

\* What a store of obj does to the versions of p and of the other policies.
LEMMA StoreEffect ==
  ASSUME ClusterTypeOK, NEW p \in Policy, NEW obj \in Object,
         hist' = Store(p, obj)
  PROVE  /\ hist' \in [Policy -> Seq(Object)]
         /\ \A q \in Policy : Len(hist'[q]) > 0
         /\ \A q \in Policy : Grows(q)
         /\ \A q \in Policy : q # p => hist'[q] = hist[q]
         /\ hist'[p][Len(hist'[p])] = obj
         /\ \A v \in 1..Len(hist'[p]) :
              v \in 1..Len(hist[p]) \/ hist'[p][v] = obj
<1>1. CASE obj = Latest(p)
  BY <1>1 DEF Store, ClusterTypeOK, Grows, Latest
<1>2. CASE obj # Latest(p)
  <2>1. hist[p] \in Seq(Object) /\ Len(hist[p]) \in Nat
    BY DEF ClusterTypeOK
  <2>2. hist' = [hist EXCEPT ![p] = Append(hist[p], obj)]
    BY <1>2, Zenon DEF Store
  <2>3. /\ Append(hist[p], obj) \in Seq(Object)
        /\ Len(Append(hist[p], obj)) = Len(hist[p]) + 1
        /\ \A v \in 1..Len(hist[p]) : Append(hist[p], obj)[v] = hist[p][v]
        /\ Append(hist[p], obj)[Len(hist[p]) + 1] = obj
    BY <2>1
  <2>4. hist'[p] = Append(hist[p], obj)
    BY <2>2 DEF ClusterTypeOK
  <2>5. \A q \in Policy : q # p => hist'[q] = hist[q]
    BY <2>2 DEF ClusterTypeOK
  <2>6. hist' \in [Policy -> Seq(Object)]
    BY <2>2, <2>3 DEF ClusterTypeOK
  <2>7. \A q \in Policy : Len(hist'[q]) > 0 /\ Grows(q)
    <3> SUFFICES ASSUME NEW q \in Policy
                 PROVE  Len(hist'[q]) > 0 /\ Grows(q)
      OBVIOUS
    <3>1. hist[q] \in Seq(Object) /\ Len(hist[q]) \in Nat /\ Len(hist[q]) > 0
      BY DEF ClusterTypeOK
    <3>2. CASE q = p
      BY <2>1, <2>3, <2>4, <3>1, <3>2 DEF Grows
    <3>3. CASE q # p
      BY <2>5, <3>1, <3>3 DEF Grows
    <3>4. QED
      BY <3>2, <3>3
  <2>8. \A v \in 1..Len(hist'[p]) : v \in 1..Len(hist[p]) \/ hist'[p][v] = obj
    BY <2>1, <2>3, <2>4
  <2>9. QED
    BY <2>1, <2>3, <2>4, <2>5, <2>6, <2>7, <2>8, Zenon
<1>3. QED
  BY <1>1, <1>2, Zenon

\* Every version in hand, and the last one, is an object.
LEMMA VersionsAreObjects ==
  ASSUME ClusterTypeOK, NEW p \in Policy
  PROVE  /\ \A v \in 1..Len(hist[p]) : hist[p][v] \in Object
         /\ Latest(p) \in Object /\ Len(hist[p]) \in Nat \ {0}
         /\ seen[p] \in 1..Len(hist[p])
<1>1. hist[p] \in Seq(Object) /\ Len(hist[p]) > 0
  BY DEF ClusterTypeOK
<1>2. QED
  BY <1>1 DEF Latest, ClusterTypeOK

-----------------------------------------------------------------------------
(* What survives any step that only adds versions. *)

LEMMA VersionKept ==
  ASSUME ClusterTypeOK, NEW q \in Policy, Grows(q),
         hist' \in [Policy -> Seq(Object)], NEW v \in 1..Len(hist[q])
  PROVE  v \in 1..Len(hist'[q]) /\ hist'[q][v] = hist[q][v]
<1>1. Len(hist[q]) \in Nat /\ Len(hist'[q]) \in Nat
  BY DEF ClusterTypeOK
<1>2. QED
  BY <1>1 DEF Grows

LEMMA ClaimsKept ==
  ASSUME ClusterTypeOK, \A q \in Policy : Grows(q),
         hist' \in [Policy -> Seq(Object)]
  PROVE  EverClaimed \subseteq EverClaimed'
<1> SUFFICES ASSUME NEW k \in Target, NEW p \in Policy,
                    NEW v \in 1..Len(hist[p]), k \in hist[p][v].status.blocked
             PROVE  k \in EverClaimed'
  BY DEF EverClaimed
<1>1. v \in 1..Len(hist'[p]) /\ hist'[p][v] = hist[p][v]
  BY VersionKept
<1>2. QED
  BY <1>1, Zenon DEF EverClaimed

LEMMA UndeletedKept ==
  ASSUME ClusterTypeOK, \A q \in Policy : Grows(q),
         hist' \in [Policy -> Seq(Object)]
  PROVE  \A q \in Policy : \A v : Undeleted(q, v) => Undeleted(q, v)'
<1> SUFFICES ASSUME NEW q \in Policy, NEW v, Undeleted(q, v)
             PROVE  Undeleted(q, v)'
  OBVIOUS
<1>1. v \in 1..Len(hist[q]) /\ ~hist[q][v].deleting
  BY DEF Undeleted
<1>2. v \in 1..Len(hist'[q]) /\ hist'[q][v] = hist[q][v]
  BY <1>1, VersionKept, Zenon
<1>3. QED
  BY <1>1, <1>2 DEF Undeleted

\* The invariant of a component survives every step that leaves the
\* component's own state alone, adds versions and lets time pass.
LEMMA OthersKept ==
  ASSUME IndInv, \A q \in Policy : Grows(q),
         hist' \in [Policy -> Seq(Object)], now' \in Nat, now <= now'
  PROVE  /\ EverClaimed \subseteq EverClaimed'
         /\ index' = index => IndexInv'
         /\ watcher' = watcher => WatcherInv'
         /\ worker' = worker => WorkerInv'
         /\ sync' = sync => SyncInv'
         /\ kernel' \subseteq kernel => EveryDropWasRecorded'
<1>0. TypeOK /\ ClusterTypeOK
  BY DEF IndInv, TypeOK
<1>1. EverClaimed \subseteq EverClaimed'
  BY <1>0, ClaimsKept, Zenon
<1>2. \A q \in Policy : \A v : Undeleted(q, v) => Undeleted(q, v)'
  BY <1>0, UndeletedKept, Zenon
<1>3. ASSUME index' = index PROVE IndexInv'
  BY <1>2, <1>3, Zenon DEF IndInv, IndexInv
<1>4. ASSUME watcher' = watcher PROVE WatcherInv'
  <2>1. \A c \in watcher.todo : c[1] \in Policy
    BY <1>0 DEF TypeOK, WatcherState
  <2>2. watcher.pol \in Policy
    BY <1>0 DEF TypeOK, WatcherState
  <2>3. QED
    BY <1>1, <1>2, <1>4, <2>1, <2>2, Zenon DEF IndInv, WatcherInv
<1>5. ASSUME worker' = worker PROVE WorkerInv'
  <2>1. CASE worker.pc = "idle"
    BY <1>5, <2>1, Zenon DEF WorkerInv
  <2>2. CASE worker.pc # "idle"
    <3>1. worker.pol \in Policy /\ worker.ver \in 1..Len(hist[worker.pol])
      BY <1>0, <2>2, Zenon DEF IndInv, WorkerInv, TypeOK, WorkerState
    <3>2. worker.ver \in 1..Len(hist'[worker.pol]) /\ Held' = Held
      BY <1>0, <1>5, <3>1, VersionKept, Zenon DEF Held
    <3>3. Held.status.last \in Int
      BY <1>0, <3>1, VersionsAreObjects
         DEF Held, Object, PolicyStatus, Never
    <3>4. now \in Nat /\ Dwell \in Nat
      BY <1>0, ClusterAssumption DEF ClusterTypeOK
    <3>5. DwellElapsed(Held.status) => DwellElapsed(Held.status)'
      BY <3>2, <3>3, <3>4 DEF DwellElapsed
    <3>6. QED
      BY <1>5, <3>2, <3>5, Zenon DEF IndInv, WorkerInv
  <2>3. QED
    BY <2>1, <2>2, Zenon
<1>6. ASSUME sync' = sync PROVE SyncInv'
  BY <1>1, <1>6 DEF IndInv, SyncInv
<1>7. ASSUME kernel' \subseteq kernel PROVE EveryDropWasRecorded'
  BY <1>1, <1>7, Zenon DEF IndInv, EveryDropWasRecorded
<1>8. QED
  BY <1>1, <1>3, <1>4, <1>5, <1>6, <1>7, Zenon

\* Storing a timed status, or nothing, keeps every status timed.
LEMMA TimedKept ==
  ASSUME IndInv, NEW p \in Policy, NEW obj \in Object, Timed(obj.status),
         hist' = Store(p, obj)
  PROVE  MitigationIsTimed'
<1> SUFFICES ASSUME NEW q \in Policy, NEW v \in 1..Len(hist'[q])
             PROVE  Timed(hist'[q][v].status)
  BY DEF MitigationIsTimed, Timed
<1>0. ClusterTypeOK
  BY DEF IndInv, TypeOK
<1>1. CASE v \in 1..Len(hist[q])
  BY <1>0, <1>1, StoreEffect, VersionKept, ZenonT(60) DEF IndInv, MitigationIsTimed
<1>2. CASE v \notin 1..Len(hist[q])
  <2>1. /\ q # p => hist'[q] = hist[q]
        /\ \A x \in 1..Len(hist'[p]) :
             x \in 1..Len(hist[p]) \/ hist'[p][x] = obj
    BY <1>0, StoreEffect, Zenon
  <2>2. QED
    BY <1>2, <2>1, Zenon
<1>3. QED
  BY <1>1, <1>2, Zenon

\* The shared state keeps its type when a step adds versions only.
LEMMA ClusterTypeKept ==
  ASSUME ClusterTypeOK, \A q \in Policy : Grows(q) /\ Len(hist'[q]) > 0,
         hist' \in [Policy -> Seq(Object)], seen' = seen, index' = index,
         queue' \subseteq Policy, delayed' \subseteq Policy,
         kernel' \subseteq Target, mesh' \subseteq Workload,
         tracker' \in TrackerState, engaged' \in BOOLEAN, now' \in Nat,
         left' \in [Bound -> Nat]
  PROVE  ClusterTypeOK'
<1>1. \A q \in Policy : Len(hist[q]) \in Nat /\ Len(hist'[q]) \in Nat
  BY DEF ClusterTypeOK
<1>2. \A q \in Policy : seen'[q] \in 1..Len(hist'[q])
  BY <1>1 DEF ClusterTypeOK, Grows
<1>3. \A q \in Policy : index'[q] \in 0..Len(hist'[q])
  BY <1>1 DEF ClusterTypeOK, Grows
<1>4. QED
  BY <1>2, <1>3, Zenon DEF ClusterTypeOK

LEMMA SpendType ==
  ASSUME ClusterTypeOK, NEW b \in {"user", "scores", "crashes", "faults"},
         Spend(b)
  PROVE  left' \in [Bound -> Nat]
BY DEF ClusterTypeOK, Spend, Bound

-----------------------------------------------------------------------------
(* One lemma per process: its steps keep the invariant. *)

\* A step that stores a timed object for p, and whose goroutine keeps its own
\* invariant.
LEMMA StoreKeeps ==
  ASSUME IndInv, NEW p \in Policy, NEW obj \in Object, Timed(obj.status),
         hist' = Store(p, obj), left' \in [Bound -> Nat],
         queue' \subseteq Policy, delayed' \subseteq Policy,
         watcher' = watcher \/ (watcher' \in WatcherState /\ WatcherInv'),
         worker' = worker \/ (worker' \in WorkerState /\ WorkerInv'),
         UNCHANGED <<seen, index, kernel, mesh, tracker, engaged, now, sync>>
  PROVE  IndInv'
<1>0. ClusterTypeOK /\ TypeOK
  BY Zenon DEF IndInv, TypeOK
<1>1. /\ \A q \in Policy : Grows(q) /\ Len(hist'[q]) > 0
      /\ hist' \in [Policy -> Seq(Object)]
  BY <1>0, StoreEffect, Zenon
<1>2. ClusterTypeOK'
  <2>1. /\ kernel' \subseteq Target /\ mesh' \subseteq Workload
        /\ tracker' \in TrackerState /\ engaged' \in BOOLEAN /\ now' \in Nat
    BY <1>0, Zenon DEF ClusterTypeOK
  <2>2. QED
    BY <1>0, <1>1, <2>1, ClusterTypeKept, Zenon
<1>3. TypeOK'
  BY <1>0, <1>2, Zenon DEF TypeOK
<1>4. now' \in Nat /\ now <= now'
  BY <1>0 DEF ClusterTypeOK
<1>5. /\ IndexInv' /\ WatcherInv' /\ WorkerInv' /\ SyncInv'
      /\ EveryDropWasRecorded'
  BY <1>1, <1>4, OthersKept, Zenon
<1>6. MitigationIsTimed'
  BY TimedKept, Zenon
<1>7. QED
  BY <1>3, <1>5, <1>6, Zenon DEF IndInv

LEMMA UserWriteKeeps ==
  ASSUME IndInv, NEW p \in Policy, NEW obj \in Object, Timed(obj.status),
         hist' = Store(p, obj), Spend("user"),
         UNCHANGED <<seen, queue, delayed, index, kernel, mesh, tracker,
                     engaged, now, watcher, worker, sync>>
  PROVE  IndInv'
<1>1. ClusterTypeOK
  BY Zenon DEF IndInv, TypeOK
<1>2. left' \in [Bound -> Nat]
  BY <1>1, SpendType, Zenon
<1>3. queue' \subseteq Policy /\ delayed' \subseteq Policy
  BY <1>1, Zenon DEF ClusterTypeOK
<1>4. QED
  BY <1>2, <1>3, StoreKeeps, Zenon

LEMMA NothingStored ==
  ASSUME IndInv, hist' = hist
  PROVE  /\ \A q \in Policy : Grows(q) /\ Len(hist'[q]) > 0
         /\ hist' \in [Policy -> Seq(Object)]
         /\ MitigationIsTimed'
<1>1. ClusterTypeOK
  BY DEF IndInv, TypeOK
<1>2. \A q \in Policy : Len(hist[q]) \in Nat
  BY <1>1 DEF ClusterTypeOK
<1>3. QED
  BY <1>1, <1>2 DEF ClusterTypeOK, Grows, IndInv, MitigationIsTimed

LEMMA EnvironmentKeeps ==
  ASSUME IndInv, Environment \/ Tick, UNCHANGED <<watcher, worker, sync>>
  PROVE  IndInv'
<1>0. ClusterTypeOK /\ TypeOK
  BY DEF IndInv, TypeOK
<1>1. ASSUME NEW p \in Policy, CreatePolicy(p) PROVE IndInv'
  <2>1. PICK spec \in SpecChoices :
          hist' = Store(p, [Absent EXCEPT !.live = TRUE, !.spec = spec])
    BY <1>1, Zenon DEF CreatePolicy
  <2> DEFINE obj == [Absent EXCEPT !.live = TRUE, !.spec = spec]
  <2>2. obj \in Object /\ obj.status = NewStatus
    BY AbsentType, ClusterAssumption, Zenon DEF Object
  <2>3. Timed(obj.status)
    BY ONLY <2>2, NewStatusTimed, Zenon
  <2>4. Spend("user") /\ UNCHANGED <<seen, queue, delayed, index, kernel,
                                     mesh, tracker, engaged, now>>
    BY <1>1 DEF CreatePolicy
  <2> HIDE DEF obj
  <2>5. hist' = Store(p, obj)
    BY <2>1, Zenon DEF obj
  <2>6. QED
    BY <2>2, <2>3, <2>4, <2>5, UserWriteKeeps, Zenon
<1>2. ASSUME NEW p \in Policy, EditSpec(p) PROVE IndInv'
  <2>1. PICK spec \in SpecChoices :
          hist' = Store(p, [Latest(p) EXCEPT !.spec = spec])
    BY <1>2, Zenon DEF EditSpec
  <2> DEFINE obj == [Latest(p) EXCEPT !.spec = spec]
  <2>2. Latest(p) \in Object /\ Timed(Latest(p).status)
    BY <1>0, VersionsAreObjects DEF IndInv, MitigationIsTimed, Latest
  <2>3. obj \in Object /\ obj.status = Latest(p).status
    BY <2>2, ClusterAssumption DEF Object
  <2>4. Spend("user") /\ UNCHANGED <<seen, queue, delayed, index, kernel,
                                     mesh, tracker, engaged, now>>
    BY <1>2 DEF EditSpec
  <2> HIDE DEF obj
  <2>5. hist' = Store(p, obj)
    BY <2>1, Zenon DEF obj
  <2>6. QED
    BY <2>2, <2>3, <2>4, <2>5, UserWriteKeeps, Zenon
<1>3. ASSUME NEW p \in Policy, DeletePolicy(p) PROVE IndInv'
  <2>1. Latest(p) \in Object /\ Timed(Latest(p).status)
    BY <1>0, VersionsAreObjects DEF IndInv, MitigationIsTimed, Latest
  <2> DEFINE obj == IF Latest(p).finalizer
                    THEN [Latest(p) EXCEPT !.deleting = TRUE] ELSE Absent
  <2>2. obj \in Object /\ obj.status \in {Latest(p).status, NewStatus}
    BY <2>1, AbsentType, Zenon DEF Object
  <2>3. Timed(obj.status)
    BY ONLY <2>1, <2>2, NewStatusTimed, Zenon
  <2>4. /\ hist' = Store(p, obj) /\ Spend("user")
        /\ UNCHANGED <<seen, queue, delayed, index, kernel, mesh, tracker,
                       engaged, now>>
    BY <1>3, Zenon DEF DeletePolicy
  <2> HIDE DEF obj
  <2>5. QED
    BY <2>2, <2>3, <2>4, UserWriteKeeps, Zenon
<1>4. ASSUME hist' = hist, index' = index, kernel' = kernel, mesh' = mesh,
             ClusterTypeOK', now <= now'
      PROVE  IndInv'
  <2>1. TypeOK' /\ now' \in Nat
    BY <1>0, <1>4, Zenon DEF TypeOK, ClusterTypeOK
  <2>2. QED
    BY <1>4, <2>1, NothingStored, OthersKept, Zenon DEF IndInv
<1>5. ASSUME NEW p \in Policy, InformerEvent(p) PROVE IndInv'
  <2>1. ClusterTypeOK' /\ now <= now'
    <3>1. Len(hist[p]) \in Nat /\ seen[p] + 1 \in 1..Len(hist[p])
      BY <1>0, <1>5 DEF ClusterTypeOK, InformerEvent
    <3>2. QED
      BY <1>0, <1>5, <3>1 DEF ClusterTypeOK, InformerEvent
  <2>2. QED
    BY <1>4, <1>5, <2>1, Zenon DEF InformerEvent
<1>6. ASSUME NEW p \in Policy, RequeueFires(p) PROVE IndInv'
  BY <1>0, <1>4, <1>6 DEF ClusterTypeOK, RequeueFires
<1>7. CASE ToggleKillSwitch
  <2>1. left' \in [Bound -> Nat]
    BY <1>0, <1>7, SpendType, Zenon DEF ToggleKillSwitch
  <2>2. ClusterTypeOK' /\ now <= now'
    BY <1>0, <1>7, <2>1 DEF ClusterTypeOK, ToggleKillSwitch
  <2>3. QED
    BY <1>4, <1>7, <2>2, Zenon DEF ToggleKillSwitch
<1>8. CASE Tick
  BY <1>0, <1>4, <1>8 DEF ClusterTypeOK, Tick
<1>9. CASE GraceExpires
  <2>1. tracker' \in TrackerState
    BY <1>0, <1>9, Zenon DEF ClusterTypeOK, GraceExpires, TrackerState
  <2>2. ClusterTypeOK' /\ now <= now'
    BY <1>0, <1>9, <2>1 DEF ClusterTypeOK, GraceExpires
  <2>3. QED
    BY <1>4, <1>9, <2>2, Zenon DEF GraceExpires
<1>10. QED
  BY <1>1, <1>2, <1>3, <1>5, <1>6, <1>7, <1>8, <1>9, Zenon DEF Environment

\* OthersKept for a step that stores nothing.
LEMMA IdleHistoryKeeps ==
  ASSUME IndInv, hist' = hist, now' = now
  PROVE  /\ MitigationIsTimed'
         /\ EverClaimed' = EverClaimed
         /\ index' = index => IndexInv'
         /\ watcher' = watcher => WatcherInv'
         /\ worker' = worker => WorkerInv'
         /\ sync' = sync => SyncInv'
         /\ kernel' \subseteq kernel => EveryDropWasRecorded'
<1>1. now' \in Nat /\ now <= now'
  BY DEF IndInv, TypeOK, ClusterTypeOK
<1>2. EverClaimed' = EverClaimed
  BY Zenon DEF EverClaimed
<1>3. QED
  BY <1>1, <1>2, NothingStored, OthersKept, Zenon

LEMMA SyncKeeps ==
  ASSUME IndInv, SyncStep, UNCHANGED <<watcher, worker>>
  PROVE  IndInv'
<1>0. ClusterTypeOK /\ TypeOK /\ sync \in SyncState
  BY Zenon DEF IndInv, TypeOK
<1>1. ASSUME UNCHANGED <<hist, index, now>>, ClusterTypeOK',
             sync' \in SyncState, SyncInv', EveryDropWasRecorded'
      PROVE  IndInv'
  <2>1. TypeOK'
    BY <1>0, <1>1, Zenon DEF TypeOK
  <2>2. QED
    BY <1>1, <2>1, IdleHistoryKeeps, Zenon DEF IndInv
<1>2. ASSUME UNCHANGED <<hist, now>>
      PROVE  EverClaimed' = EverClaimed
             /\ (kernel' \subseteq kernel => EveryDropWasRecorded')
  BY <1>2, IdleHistoryKeeps
<1>3. CASE SyncList
  <2>1. DesiredEnforcement \subseteq EverClaimed
    <3> SUFFICES ASSUME NEW p \in Policy, NEW k \in Claims(hist[p][seen[p]])
                 PROVE  k \in EverClaimed
      BY Zenon DEF DesiredEnforcement
    <3>1. /\ seen[p] \in 1..Len(hist[p]) /\ hist[p][seen[p]] \in Object
          /\ k \in hist[p][seen[p]].status.blocked
      BY <1>0, VersionsAreObjects, Zenon DEF Claims
    <3>2. QED
      BY <3>1, Zenon DEF EverClaimed, Object, PolicyStatus
  <2>2. DesiredEnforcement \subseteq Target
    BY <2>1 DEF EverClaimed
  <2>3. sync' \in SyncState /\ sync'.desired = DesiredEnforcement
        /\ sync'.add = sync.add
    BY <1>0, <1>3, <2>2, Zenon DEF SyncList, SyncState
  <2>4. UNCHANGED clusterVars
    BY <1>3, Zenon DEF SyncList
  <2>5. ClusterTypeOK' /\ UNCHANGED <<hist, index, now>> /\ kernel' = kernel
    BY <1>0, <2>4, Zenon DEF ClusterTypeOK, clusterVars
  <2>6. QED
    BY <1>1, <1>2, <2>1, <2>3, <2>5, Zenon DEF SyncInv, IndInv
<1>4. CASE SyncRead
  <2>1. sync' \in SyncState /\ sync'.desired = {}
        /\ sync'.add \subseteq sync.desired
    BY <1>0, <1>4, Zenon DEF SyncRead, SyncState, ClusterTypeOK
  <2>2. UNCHANGED clusterVars
    BY <1>4 DEF SyncRead
  <2>3. ClusterTypeOK' /\ UNCHANGED <<hist, index, now>> /\ kernel' = kernel
    BY <1>0, <2>2, Zenon DEF ClusterTypeOK, clusterVars
  <2>4. QED
    BY <1>1, <1>2, <2>1, <2>3, Zenon DEF SyncInv, IndInv
<1>5. CASE SyncReadFails
  <2>1. sync' \in SyncState /\ sync'.desired = {} /\ sync'.add = sync.add
    BY <1>0, <1>5, Zenon DEF SyncReadFails, SyncState
  <2>2. left' \in [Bound -> Nat]
    BY <1>0, <1>5, SpendType, Zenon DEF SyncReadFails
  <2>3. ClusterTypeOK' /\ UNCHANGED <<hist, index, now>> /\ kernel' = kernel
    BY <1>0, <1>5, <2>2, Zenon DEF ClusterTypeOK, SyncReadFails
  <2>4. QED
    BY <1>1, <1>2, <2>1, <2>3, Zenon DEF SyncInv, IndInv
<1>6. ASSUME NEW k \in sync.add, Reapply(k) PROVE IndInv'
  <2>1. sync' \in SyncState /\ sync'.desired = sync.desired
        /\ sync'.add \subseteq sync.add
    BY <1>0, <1>6, Zenon DEF Reapply, SyncState
  <2>2. left' \in [Bound -> Nat]
    BY <1>0, <1>6, SpendType, Zenon DEF Reapply, BlockDone, BlockFails, ClusterTypeOK
  <2>3. kernel' \subseteq kernel \cup {k} /\ k \in Target /\ k \in EverClaimed
    BY <1>0, <1>6, Zenon
       DEF Reapply, BlockDone, BlockFails, SyncState, IndInv, SyncInv
  <2>4. ClusterTypeOK' /\ UNCHANGED <<hist, index, now>>
    BY <1>0, <1>6, <2>2, <2>3, Zenon DEF ClusterTypeOK, Reapply
  <2>5. EveryDropWasRecorded'
    BY <1>2, <2>3, <2>4 DEF IndInv, EveryDropWasRecorded
  <2>6. QED
    BY <1>1, <1>2, <2>1, <2>4, <2>5, Zenon DEF SyncInv, IndInv
<1>7. ASSUME NEW k \in sync.del, RemoveUnclaimed(k) PROVE IndInv'
  <2>1. sync' \in SyncState /\ sync'.desired = sync.desired
        /\ sync'.add = sync.add
    BY <1>0, <1>7, Zenon DEF RemoveUnclaimed, SyncState
  <2>2. left' \in [Bound -> Nat]
    BY <1>0, <1>7, SpendType, Zenon DEF RemoveUnclaimed, ClusterTypeOK
  <2>3. kernel' \subseteq kernel
    BY <1>7, Zenon DEF RemoveUnclaimed
  <2>4. ClusterTypeOK' /\ UNCHANGED <<hist, index, now>>
    BY <1>0, <1>7, <2>2, <2>3, Zenon DEF ClusterTypeOK, RemoveUnclaimed
  <2>5. QED
    BY <1>1, <1>2, <2>1, <2>3, <2>4, Zenon DEF SyncInv, IndInv
<1>8. CASE SyncEnd
  <2>1. sync' \in SyncState /\ sync'.desired = sync.desired
        /\ sync'.add = sync.add
    BY <1>0, <1>8, Zenon DEF SyncEnd, SyncState
  <2>2. UNCHANGED clusterVars
    BY <1>8, Zenon DEF SyncEnd
  <2>3. ClusterTypeOK' /\ UNCHANGED <<hist, index, now>> /\ kernel' = kernel
    BY <1>0, <2>2 DEF ClusterTypeOK, clusterVars
  <2>4. QED
    BY <1>1, <1>2, <2>1, <2>3, Zenon DEF SyncInv, IndInv
<1>9. QED
  BY <1>3, <1>4, <1>5, <1>6, <1>7, <1>8, Zenon DEF SyncStep

-----------------------------------------------------------------------------
(* The controller worker. *)

LEMMA HeldFacts ==
  ASSUME IndInv, worker.pc # "idle"
  PROVE  /\ worker.pol \in Policy /\ worker.retry \in BOOLEAN
         /\ worker.ver \in 1..Len(hist[worker.pol]) /\ worker.ver \in Nat
         /\ Held \in Object /\ Timed(Held.status)
<1>1. ClusterTypeOK /\ worker \in WorkerState
  BY DEF IndInv, TypeOK
<1>2. worker.pol \in Policy /\ worker.retry \in BOOLEAN
      /\ worker.ver \in Nat
  BY <1>1, Zenon DEF WorkerState
<1>3. worker.ver \in 1..Len(hist[worker.pol])
  BY DEF IndInv, WorkerInv
<1>4. Held \in Object /\ Timed(Held.status)
  BY <1>1, <1>2, <1>3, VersionsAreObjects, Zenon
     DEF Held, IndInv, MitigationIsTimed
<1>5. QED
  BY <1>2, <1>3, <1>4, Zenon

LEMMA ContinueEffect ==
  ASSUME TypeOK, NEW pc \in WorkerPC, NEW v \in Nat, NEW r \in BOOLEAN,
         Continue(pc, v, r)
  PROVE  /\ worker' \in WorkerState /\ worker'.pc = pc
         /\ delayed' \subseteq Policy
         /\ pc # "idle" => worker'.pol = worker.pol /\ worker'.ver = v
<1>1. worker \in WorkerState /\ delayed \subseteq Policy
  BY Zenon DEF TypeOK, ClusterTypeOK
<1>2. CASE pc = "idle"
  <2>1. worker' = WorkerIdle /\ worker'.pc = "idle"
    BY <1>2 DEF Continue, WorkerIdle
  <2>2. delayed' \subseteq Policy
    BY <1>1, <1>2 DEF Continue, WorkerState
  <2>3. QED
    BY <1>2, <2>1, <2>2, StartTypes, Zenon
<1>3. CASE pc # "idle"
  BY <1>1, <1>3, Zenon DEF Continue, WorkerState
<1>4. QED
  BY <1>2, <1>3, Zenon

LEMMA ReturnErrorEffect ==
  ASSUME TypeOK, ReturnError
  PROVE  /\ worker' \in WorkerState /\ WorkerInv'
         /\ delayed' \subseteq Policy /\ queue' \subseteq Policy
<1>1. worker \in WorkerState /\ delayed \subseteq Policy
      /\ queue \subseteq Policy
  BY Zenon DEF TypeOK, ClusterTypeOK
<1>2. worker' \in WorkerState /\ worker'.pc = "idle"
  BY StartTypes, Zenon DEF ReturnError, WorkerIdle
<1>3. WorkerInv'
  BY <1>2, Zenon DEF WorkerInv
<1>4. QED
  BY <1>1, <1>2, <1>3, Zenon DEF ReturnError, WorkerState

\* Going on with the same copy.
LEMMA ContinueInv ==
  ASSUME IndInv, worker.pc # "idle", hist' = hist, now' = now,
         NEW pc \in WorkerPC, NEW r \in BOOLEAN,
         Continue(pc, worker.ver, r),
         pc \notin Finalizing \cup {"idle"} => ~Held.deleting,
         pc \in {"quiet", "release", "clear"} =>
            Held.status.phase = "Mitigating",
         pc \in {"release", "clear"} => DwellElapsed(Held.status)
  PROVE  WorkerInv'
<1>0. TypeOK
  BY Zenon DEF IndInv
<1>1. /\ worker'.pc = pc
      /\ pc # "idle" => worker'.pol = worker.pol /\ worker'.ver = worker.ver
  BY <1>0, HeldFacts, ContinueEffect, Zenon
<1>2. CASE pc = "idle"
  BY <1>1, <1>2 DEF WorkerInv
<1>3. CASE pc # "idle"
  <2>1. Held' = Held /\ worker'.ver \in 1..Len(hist'[worker'.pol])
    BY <1>1, <1>3, HeldFacts, Zenon DEF Held
  <2>2. DwellElapsed(Held.status) => DwellElapsed(Held.status)'
    BY <2>1, Zenon DEF DwellElapsed
  <2>3. QED
    BY <1>1, <2>1, <2>2, Zenon DEF WorkerInv
<1>4. QED
  BY <1>2, <1>3

\* A worker step that stores nothing and does not touch the index.
LEMMA WorkerQuietKeeps ==
  ASSUME IndInv, worker' \in WorkerState, WorkerInv',
         UNCHANGED <<hist, seen, index, tracker, engaged, now, watcher, sync>>,
         queue' \subseteq Policy, delayed' \subseteq Policy,
         kernel' \subseteq kernel, mesh' \subseteq mesh,
         left' \in [Bound -> Nat]
  PROVE  IndInv'
<1>1. TypeOK'
  BY Zenon DEF IndInv, TypeOK, ClusterTypeOK
<1>2. QED
  BY <1>1, IdleHistoryKeeps, Zenon DEF IndInv

\* An accepted write of obj over the held copy.
LEMMA StoreHeldKeeps ==
  ASSUME IndInv, worker.pc # "idle", NEW obj \in Object, Timed(obj.status),
         NEW pc \in {"index", "phaseIndex", "scoringIndex", "clearIndex",
                     "finForget"},
         pc # "finForget" => ~obj.deleting, NEW r \in BOOLEAN,
         hist' = Store(worker.pol, obj),
         Continue(pc, Len(hist'[worker.pol]), r),
         UNCHANGED <<seen, queue, index, kernel, mesh, tracker, engaged, now,
                     left, watcher, sync>>
  PROVE  IndInv'
<1>0. ClusterTypeOK /\ TypeOK
  BY DEF IndInv, TypeOK
<1>1. worker.pol \in Policy
  BY HeldFacts, Zenon
<1>2. /\ hist' \in [Policy -> Seq(Object)] /\ Len(hist'[worker.pol]) > 0
      /\ hist'[worker.pol][Len(hist'[worker.pol])] = obj
  BY <1>0, <1>1, StoreEffect, Zenon
<1>3. Len(hist'[worker.pol]) \in Nat /\ Len(hist'[worker.pol]) > 0
  BY <1>1, <1>2
<1>4. /\ worker' \in WorkerState /\ worker'.pc = pc
      /\ delayed' \subseteq Policy /\ worker'.pol = worker.pol
      /\ worker'.ver = Len(hist'[worker.pol])
  BY <1>0, <1>3, ContinueEffect, Zenon DEF WorkerPC
<1>5. WorkerInv'
  <2>1. Held' = obj /\ worker'.ver \in 1..Len(hist'[worker'.pol])
    BY <1>2, <1>3, <1>4 DEF Held
  <2>2. QED
    BY <1>4, <2>1, ZenonT(60) DEF WorkerInv, Finalizing
<1>6. queue' \subseteq Policy /\ left' \in [Bound -> Nat]
  BY <1>0, Zenon DEF ClusterTypeOK
<1>7. QED
  BY <1>1, <1>4, <1>5, <1>6, StoreKeeps, Zenon

\* A write of obj over the held copy that returns an error, and may have been
\* stored all the same.
LEMMA StoreFailsKeeps ==
  ASSUME IndInv, worker.pc # "idle", NEW obj \in Object, Timed(obj.status),
         UpdateFails(worker.pol, worker.ver, obj), ReturnError,
         UNCHANGED <<seen, index, kernel, mesh, tracker, engaged, now,
                     watcher, sync>>
  PROVE  IndInv'
<1>0. ClusterTypeOK /\ TypeOK
  BY Zenon DEF IndInv, TypeOK
<1>1. left' \in [Bound -> Nat]
  BY <1>0, SpendType, Zenon DEF UpdateFails, CallFails, ClusterTypeOK
<1>2. /\ worker' \in WorkerState /\ WorkerInv'
      /\ delayed' \subseteq Policy /\ queue' \subseteq Policy
  BY <1>0, ReturnErrorEffect, Zenon
<1>3. CASE hist' = hist
  BY <1>1, <1>2, <1>3, WorkerQuietKeeps, Zenon
<1>4. CASE hist' = Store(worker.pol, obj)
  BY <1>1, <1>2, <1>4, HeldFacts, StoreKeeps, Zenon
<1>5. QED
  BY <1>3, <1>4, Zenon DEF UpdateFails, CallFails

\* The write of obj over the held copy, in all its outcomes.
LEMMA WriteHeldKeeps ==
  ASSUME IndInv, worker.pc # "idle", NEW obj \in Object, Timed(obj.status),
         NEW pc \in {"index", "phaseIndex", "clearIndex", "finForget"},
         pc # "finForget" => ~obj.deleting,
         WriteHeld(obj, pc),
         UNCHANGED <<seen, index, kernel, mesh, tracker, engaged, now,
                     watcher, sync>>
  PROVE  IndInv'
<1>1. ASSUME hist' = Store(worker.pol, obj),
             Continue(pc, Len(hist'[worker.pol]), worker.retry),
             UNCHANGED <<queue, left>>
      PROVE  IndInv'
  BY <1>1, HeldFacts, StoreHeldKeeps, Zenon
<1>2. ASSUME UpdateFails(worker.pol, worker.ver, obj), ReturnError
      PROVE  IndInv'
  BY <1>2, StoreFailsKeeps, Zenon
<1>3. QED
  BY <1>1, <1>2, Zenon DEF WriteHeld

LEMMA AfterFacts ==
  ASSUME NEW obj, NEW pc \in {AfterIndex(obj), AfterPhase(obj),
                              AfterScoring(obj), "idle"}
  PROVE  /\ pc \in {"phase", "scoring", "quiet", "idle"}
         /\ pc = "quiet" => obj.status.phase = "Mitigating"
BY Zenon DEF AfterIndex, AfterPhase, AfterScoring

LEMMA ReconcileGetKeeps ==
  ASSUME IndInv, NEW p \in Policy, ReconcileGet(p),
         UNCHANGED <<watcher, sync>>
  PROVE  IndInv'
<1> DEFINE obj == hist[p][seen[p]]
           first == CASE obj.deleting  -> IF obj.finalizer THEN "finRelease"
                                                           ELSE "idle"
                      [] ~obj.deleting -> IF obj.finalizer THEN "index"
                                                           ELSE "finalizer"
<1>0. ClusterTypeOK /\ TypeOK
  BY Zenon DEF IndInv, TypeOK
<1>1. /\ queue' \subseteq Policy /\ delayed' = delayed /\ worker.pc = "idle"
      /\ UNCHANGED <<hist, seen, kernel, mesh, tracker, engaged, now, left>>
  BY <1>0, Zenon DEF ReconcileGet, ClusterTypeOK
<1>2. seen[p] \in 1..Len(hist[p]) /\ obj \in Object /\ seen[p] \in Nat
  BY <1>0, VersionsAreObjects, Zenon DEF ClusterTypeOK
<1>3. CASE obj.live
  <2>1. /\ index' = index
        /\ worker' = IF first = "idle" THEN WorkerIdle
                     ELSE [pc |-> first, pol |-> p, ver |-> seen[p],
                           retry |-> FALSE]
    BY <1>3 DEF ReconcileGet
  <2>2. /\ first \in {"idle", "finRelease", "index", "finalizer"}
        /\ first \in {"index", "finalizer"} => ~obj.deleting
    BY <1>2, Zenon DEF Object
  <2> HIDE DEF first
  <2>3. CASE first = "idle"
    <3>1. worker' = WorkerIdle /\ worker'.pc = "idle"
      BY <2>1, <2>3, Zenon DEF WorkerIdle
    <3>2. worker' \in WorkerState /\ WorkerInv'
      BY <3>1, StartTypes, Zenon DEF WorkerInv
    <3>3. QED
      BY <1>0, <1>1, <2>1, <3>2, WorkerQuietKeeps, Zenon DEF ClusterTypeOK
  <2>4. CASE first # "idle"
    <3>1. worker' = [pc |-> first, pol |-> p, ver |-> seen[p],
                     retry |-> FALSE]
      BY <2>1, <2>4, Zenon
    <3>2. worker' \in WorkerState
      BY <1>2, <2>2, <3>1, Zenon DEF WorkerState, WorkerPC
    <3>3. Held' = obj
      BY <1>1, <3>1, Zenon DEF Held
    <3>4. WorkerInv'
      BY <1>1, <1>2, <2>2, <3>1, <3>3, Zenon DEF WorkerInv, Finalizing
    <3>5. QED
      BY <1>0, <1>1, <2>1, <3>2, <3>4, WorkerQuietKeeps, Zenon DEF ClusterTypeOK
  <2>5. QED
    BY <2>3, <2>4, ZenonT(60)
<1>4. CASE ~obj.live
  <2>1. index' = [index EXCEPT ![p] = 0] /\ worker' = worker
    BY <1>4 DEF ReconcileGet
  <2>2. IndexInv'
    BY <1>0, <1>1, <2>1, Zenon DEF IndInv, IndexInv, Undeleted, ClusterTypeOK
  <2>3. TypeOK'
    BY <1>0, <1>1, <2>1 DEF TypeOK, ClusterTypeOK
  <2>4. QED
    BY <1>1, <2>1, <2>2, <2>3, IdleHistoryKeeps, Zenon DEF IndInv
<1>5. QED
  BY <1>3, <1>4, Zenon

LEMMA ReconcilePutKeeps ==
  ASSUME IndInv, ReconcilePut, UNCHANGED <<watcher, sync>>
  PROVE  IndInv'
<1> DEFINE next == CASE worker.pc = "index"        -> AfterIndex(Held)
                     [] worker.pc = "phaseIndex"   -> AfterPhase(Held)
                     [] worker.pc = "scoringIndex" -> AfterScoring(Held)
                     [] worker.pc = "clearIndex"   -> "idle"
<1>0. ClusterTypeOK /\ TypeOK
  BY DEF IndInv, TypeOK
<1>1. /\ worker.pc \in {"index", "phaseIndex", "scoringIndex", "clearIndex"}
      /\ index' = [index EXCEPT ![worker.pol] = worker.ver]
      /\ Continue(next, worker.ver, worker.retry)
      /\ UNCHANGED <<hist, seen, queue, kernel, mesh, tracker, engaged, now,
                     left>>
  BY Zenon DEF ReconcilePut
<1>2. next \in {AfterIndex(Held), AfterPhase(Held), AfterScoring(Held),
                "idle"}
  BY <1>1
<1> HIDE DEF next
<1>3. /\ next \in {"phase", "scoring", "quiet", "idle"}
      /\ next = "quiet" => Held.status.phase = "Mitigating"
  BY <1>2, AfterFacts, Zenon
<1>4. ~Held.deleting /\ worker.pc # "idle"
  BY <1>1, Zenon DEF IndInv, WorkerInv, Finalizing
<1>5. WorkerInv'
  BY <1>1, <1>3, <1>4, HeldFacts, ContinueInv, Zenon DEF WorkerPC
<1>6. worker' \in WorkerState /\ delayed' \subseteq Policy
  BY <1>0, <1>1, <1>3, <1>4, HeldFacts, ContinueEffect, Zenon DEF WorkerPC
<1>7. IndexInv'
  BY <1>0, <1>1, <1>4, HeldFacts, Zenon
     DEF IndInv, IndexInv, Undeleted, Held, ClusterTypeOK
<1>8. TypeOK'
  BY <1>0, <1>1, <1>4, <1>6, HeldFacts DEF TypeOK, ClusterTypeOK
<1>9. QED
  BY <1>1, <1>5, <1>7, <1>8, IdleHistoryKeeps, Zenon DEF IndInv

\* The undo steps, in all their outcomes.
LEMMA UndoKeeps ==
  ASSUME IndInv, worker.pc # "idle", NEW pc \in WorkerPC,
         pc \notin Finalizing \cup {"idle"} => ~Held.deleting,
         pc \in {"quiet", "release", "clear"} =>
            Held.status.phase = "Mitigating",
         pc \in {"release", "clear"} => DwellElapsed(Held.status),
         \/ UnblockHeld(pc) /\ UNCHANGED mesh
         \/ ReleaseHeld(pc) /\ UNCHANGED kernel,
         UNCHANGED <<hist, seen, index, tracker, engaged, now, watcher, sync>>
  PROVE  IndInv'
<1>0. ClusterTypeOK /\ TypeOK
  BY ZenonT(60) DEF IndInv, TypeOK
<1>1. kernel' \subseteq kernel /\ mesh' \subseteq mesh
  BY DEF UnblockHeld, ReleaseHeld
<1>2. CASE Continue(pc, worker.ver, worker.retry) /\ UNCHANGED <<queue, left>>
  <2>1. worker' \in WorkerState /\ delayed' \subseteq Policy
    BY <1>0, <1>2, HeldFacts, ContinueEffect, Zenon
  <2>2. WorkerInv'
    BY <1>2, HeldFacts, ContinueInv, Zenon
  <2>3. QED
    BY <1>0, <1>1, <1>2, <2>1, <2>2, WorkerQuietKeeps, Zenon
       DEF ClusterTypeOK
<1>3. CASE Spend("faults") /\ ReturnError
  <2>1. left' \in [Bound -> Nat]
    BY <1>0, <1>3, SpendType, Zenon
  <2>2. QED
    BY <1>0, <1>1, <1>3, <2>1, ReturnErrorEffect, WorkerQuietKeeps, Zenon
<1>4. QED
  BY <1>2, <1>3, Zenon DEF UnblockHeld, ReleaseHeld

LEMMA ReportScoringKeeps ==
  ASSUME IndInv, ReportScoring, UNCHANGED <<watcher, sync>>
  PROVE  IndInv'
<1> DEFINE obj == [Held EXCEPT !.status.scoring = ScoringStatus]
<1>0. ClusterTypeOK /\ TypeOK
  BY DEF IndInv, TypeOK
<1>1. /\ worker.pc = "scoring" /\ worker.pc # "idle" /\ ~Held.deleting
      /\ UNCHANGED <<seen, index, kernel, mesh, tracker, engaged, now>>
  BY Zenon DEF ReportScoring, IndInv, WorkerInv, Finalizing
<1>2. /\ worker.pol \in Policy /\ worker.ver \in Nat /\ Held \in Object
      /\ worker.ver \in 1..Len(hist[worker.pol]) /\ Timed(Held.status)
  BY <1>1, HeldFacts
<1>3. Recheck \in BOOLEAN /\ ScoringStatus \in ScoringReason
  BY <1>0, Zenon DEF Recheck, ScoringStatus, ScoringReason, ClusterTypeOK,
              TrackerState
<1>4. /\ obj \in Object /\ obj.deleting = Held.deleting
      /\ obj.status.phase = Held.status.phase
      /\ obj.status.blocked = Held.status.blocked
      /\ obj.status.last = Held.status.last
  BY <1>2, <1>3 DEF Object, PolicyStatus
<1>5. Timed(obj.status)
  BY <1>2, <1>4, Zenon DEF Timed
<1>6. ASSUME NEW r \in BOOLEAN, Continue(AfterScoring(Held), worker.ver, r),
             UNCHANGED <<hist, queue, left>>
      PROVE  IndInv'
  <2>1. /\ AfterScoring(Held) \in {"quiet", "idle"}
        /\ AfterScoring(Held) = "quiet" => Held.status.phase = "Mitigating"
    BY Zenon DEF AfterScoring
  <2>2. worker' \in WorkerState /\ delayed' \subseteq Policy
    BY <1>0, <1>2, <1>6, <2>1, ContinueEffect, Zenon DEF WorkerPC
  <2>3. WorkerInv'
    BY <1>1, <1>6, <2>1, ContinueInv, Zenon DEF WorkerPC
  <2>4. QED
    BY <1>0, <1>1, <1>6, <2>2, <2>3, WorkerQuietKeeps, Zenon DEF ClusterTypeOK
<1>7. ASSUME hist' = Store(worker.pol, obj),
             Continue("scoringIndex", Len(hist'[worker.pol]), Recheck),
             UNCHANGED <<queue, left>>
      PROVE  IndInv'
  <2> HIDE DEF obj
  <2>1. QED
    BY <1>1, <1>3, <1>4, <1>5, <1>7, StoreHeldKeeps, Zenon
<1>8. ASSUME \/ ~Latest(worker.pol).live /\ UNCHANGED <<hist, left>>
             \/ CallFails(worker.pol, worker.ver, obj),
             ReturnError
      PROVE  IndInv'
  <2> HIDE DEF obj
  <2>1. UpdateFails(worker.pol, worker.ver, obj)
    BY <1>8, Zenon DEF UpdateFails, Accepts
  <2>2. QED
    BY <1>1, <1>4, <1>5, <1>8, <2>1, StoreFailsKeeps, Zenon
<1>9. QED
  BY <1>3, <1>6, <1>7, <1>8, Zenon DEF ReportScoring

LEMMA WorkerKeeps ==
  ASSUME IndInv, WorkerStep, UNCHANGED <<watcher, sync>>
  PROVE  IndInv'
<1>0. ClusterTypeOK /\ TypeOK
  BY DEF IndInv, TypeOK
<1>1. CASE AddFinalizer
  <2>1. worker.pc = "finalizer" /\ ~Held.deleting
    BY <1>1 DEF AddFinalizer, IndInv, WorkerInv, Finalizing
  <2> DEFINE obj == [Held EXCEPT !.finalizer = TRUE]
  <2>2. obj \in Object /\ ~obj.deleting /\ obj.status = Held.status
    BY <2>1, HeldFacts, Zenon DEF Object
  <2>3. WriteHeld(obj, "index")
        /\ UNCHANGED <<seen, index, kernel, mesh, tracker, engaged, now>>
    BY <1>1, Zenon DEF AddFinalizer
  <2> HIDE DEF obj
  <2>4. QED
    BY <2>1, <2>2, <2>3, HeldFacts, WriteHeldKeeps, Zenon
<1>2. CASE InitPhase
  <2>1. worker.pc = "phase" /\ ~Held.deleting
    BY <1>2, Zenon DEF InitPhase, IndInv, WorkerInv, Finalizing
  <2> DEFINE obj == [Held EXCEPT !.status.phase = "Monitoring"]
  <2>2. Held \in Object /\ Timed(Held.status)
    BY <2>1, HeldFacts, Zenon
  <2>3. /\ obj \in Object /\ ~obj.deleting
        /\ obj.status.phase = "Monitoring"
        /\ obj.status.blocked = Held.status.blocked
        /\ obj.status.last = Held.status.last
    BY <2>1, <2>2, Zenon DEF Object, PolicyStatus, PolicyPhase
  <2>4. Timed(obj.status)
    BY <2>2, <2>3 DEF Timed
  <2>5. WriteHeld(obj, "phaseIndex")
        /\ UNCHANGED <<seen, index, kernel, mesh, tracker, engaged, now>>
    BY <1>2 DEF InitPhase
  <2> HIDE DEF obj
  <2>6. QED
    BY <2>1, <2>3, <2>4, <2>5, WriteHeldKeeps, Zenon
<1>3. CASE AwaitQuiet
  <2>1. worker.pc = "quiet"
        /\ UNCHANGED <<hist, seen, queue, index, kernel, mesh, tracker,
                       engaged, now, left>>
    BY <1>3 DEF AwaitQuiet
  <2>2. PICK r \in BOOLEAN : Continue("idle", worker.ver, r)
    BY <1>3, <2>1, HeldFacts, Zenon DEF AwaitQuiet
  <2>3. worker' \in WorkerState /\ delayed' \subseteq Policy
    BY <1>0, <2>1, <2>2, HeldFacts, ContinueEffect, Zenon DEF WorkerPC
  <2>4. WorkerInv'
    BY <2>1, <2>2, ContinueInv, Zenon DEF WorkerPC
  <2>5. QED
    BY <1>0, <2>1, <2>3, <2>4, WorkerQuietKeeps, Zenon DEF ClusterTypeOK
<1>4. CASE DeEscalateUnblock
  <2>1. /\ worker.pc = "quiet" /\ DwellElapsed(Held.status)
        /\ ~Held.deleting /\ Held.status.phase = "Mitigating"
    BY <1>4, Zenon DEF DeEscalateUnblock, IndInv, WorkerInv, Finalizing
  <2>2. \E pc \in {"release", "clear"} : UnblockHeld(pc)
    BY <1>4 DEF DeEscalateUnblock
  <2>3. UNCHANGED <<hist, seen, index, mesh, tracker, engaged, now>>
    BY <1>4, Zenon DEF DeEscalateUnblock
  <2>4. QED
    BY <2>1, <2>2, <2>3, UndoKeeps, Zenon DEF WorkerPC
<1>5. CASE DeEscalateRelease
  <2>1. /\ worker.pc = "release" /\ DwellElapsed(Held.status)
        /\ ~Held.deleting /\ Held.status.phase = "Mitigating"
    BY <1>5 DEF DeEscalateRelease, IndInv, WorkerInv, Finalizing
  <2>2. ReleaseHeld("clear")
        /\ UNCHANGED <<hist, seen, index, kernel, tracker, engaged, now>>
    BY <1>5, Zenon DEF DeEscalateRelease
  <2>3. QED
    BY <2>1, <2>2, UndoKeeps, Zenon DEF WorkerPC
<1>6. CASE DeEscalateClear
  <2>1. worker.pc = "clear" /\ ~Held.deleting
    BY <1>6, Zenon DEF DeEscalateClear, IndInv, WorkerInv, Finalizing
  <2> DEFINE obj == SetStatus(Held, DeEscalated(Held.status))
  <2>2. Held \in Object
    BY <2>1, HeldFacts
  <2>3. /\ obj \in Object /\ ~obj.deleting
        /\ obj.status.phase = "Monitoring" /\ obj.status.blocked = {}
    BY <2>1, <2>2, Zenon
       DEF Object, PolicyStatus, PolicyPhase, SetStatus, DeEscalated
  <2>4. Timed(obj.status)
    BY <2>3, Zenon DEF Timed
  <2>5. WriteHeld(obj, "clearIndex")
        /\ UNCHANGED <<seen, index, kernel, mesh, tracker, engaged, now>>
    BY <1>6, Zenon DEF DeEscalateClear
  <2> HIDE DEF obj
  <2>6. QED
    BY <2>1, <2>3, <2>4, <2>5, WriteHeldKeeps, Zenon
<1>7. CASE FinalizeRelease
  <2>1. worker.pc = "finRelease" /\ ReleaseHeld("finUnblock")
        /\ UNCHANGED <<hist, seen, index, kernel, tracker, engaged, now>>
    BY <1>7, Zenon DEF FinalizeRelease
  <2>2. QED
    BY <2>1, UndoKeeps, Zenon DEF WorkerPC, Finalizing
<1>8. CASE FinalizeUnblock
  <2>1. worker.pc = "finUnblock" /\ UnblockHeld("finRemove")
        /\ UNCHANGED <<hist, seen, index, mesh, tracker, engaged, now>>
    BY <1>8 DEF FinalizeUnblock
  <2>2. QED
    BY <2>1, UndoKeeps, Zenon DEF WorkerPC, Finalizing
<1>9. CASE FinalizeRemove
  BY <1>9, AbsentType, NewStatusTimed, WriteHeldKeeps, Zenon DEF FinalizeRemove
<1>10. CASE FinalizeForget
  <2>1. /\ worker.pc = "finForget" /\ Continue("idle", worker.ver, FALSE)
        /\ index' = [index EXCEPT ![worker.pol] = 0]
        /\ UNCHANGED <<hist, seen, queue, kernel, mesh, tracker, engaged,
                       now, left>>
    BY <1>10, Zenon DEF FinalizeForget
  <2>2. worker' \in WorkerState /\ delayed' \subseteq Policy
    BY <1>0, <2>1, HeldFacts, ContinueEffect, Zenon DEF WorkerPC
  <2>3. WorkerInv'
    BY <2>1, ContinueInv, Zenon DEF WorkerPC
  <2>4. IndexInv'
    BY <1>0, <2>1, Zenon DEF IndInv, IndexInv, Undeleted, ClusterTypeOK
  <2>5. TypeOK'
    <3>1. \A q \in Policy : index'[q] \in 0..Len(hist[q])
      BY <1>0, <2>1 DEF ClusterTypeOK
    <3>2. QED
      BY <1>0, <2>1, <2>2, <3>1, Zenon DEF TypeOK, ClusterTypeOK
  <2>6. QED
    BY <2>1, <2>3, <2>4, <2>5, IdleHistoryKeeps, Zenon DEF IndInv
<1>11. QED
  BY <1>1, <1>2, <1>3, <1>4, <1>5, <1>6, <1>7, <1>8, <1>9, <1>10,
     ReconcileGetKeeps, ReconcilePutKeeps, ReportScoringKeeps, Zenon DEF WorkerStep

-----------------------------------------------------------------------------
(* The score watcher. *)

LEMMA CopyFacts ==
  ASSUME IndInv, NEW c \in watcher.todo
  PROVE  /\ c[1] \in Policy /\ c[2] \in Nat /\ c = <<c[1], c[2]>>
         /\ c[2] \in 1..Len(hist[c[1]])
         /\ hist[c[1]][c[2]] \in Object /\ ~hist[c[1]][c[2]].deleting
         /\ Timed(hist[c[1]][c[2]].status)
<1>1. ClusterTypeOK /\ watcher \in WatcherState
  BY DEF IndInv, TypeOK
<1>2. c \in Policy \X Nat
  BY <1>1, Zenon DEF WatcherState
<1>3. c[1] \in Policy /\ c[2] \in Nat /\ c = <<c[1], c[2]>>
  BY <1>2
<1>4. c[2] \in 1..Len(hist[c[1]]) /\ ~hist[c[1]][c[2]].deleting
  BY Zenon DEF IndInv, WatcherInv, Undeleted
<1>5. QED
  BY <1>1, <1>3, <1>4, VersionsAreObjects, Zenon DEF IndInv, MitigationIsTimed

\* The decision on a copy is a timed status, and whatever is blocked after
\* it is among the keys it claims.
LEMMA DecisionFacts ==
  ASSUME IndInv, NEW c \in watcher.todo
  PROVE  /\ Decision(c) \in PolicyStatus /\ Timed(Decision(c))
         /\ Follow(c) \subseteq Target \cup Workload
         /\ Follow(c) \cap Target \subseteq Decision(c).blocked
<1> DEFINE obj == hist[c[1]][c[2]]
<1>0. /\ watcher.score \in Score /\ engaged \in BOOLEAN /\ now \in Nat
      /\ now # Never
  BY DEF IndInv, TypeOK, ClusterTypeOK, WatcherState, Never
<1>1. obj \in Object /\ Timed(obj.status) /\ obj.spec \in PolicySpec
      /\ obj.status \in PolicyStatus
  BY CopyFacts DEF Object
<1>2. Decision(c) \in PolicyStatus
  BY <1>0, <1>1, DecideType, ZenonT(60) DEF Decision
<1> DEFINE mit == Mitigates(obj.spec, watcher.score, engaged)
<1>3. CASE mit
  <2>1. /\ Decision(c).last = now
        /\ Decision(c).blocked =
             obj.status.blocked \cup Keys(obj.spec, watcher.score)
    BY <1>1, <1>3, Zenon DEF Decision, Decide, PolicyStatus
  <2>2. Timed(Decision(c))
    BY <1>0, <2>1, Zenon DEF Timed
  <2>3. Follow(c) = Actions(obj.spec, watcher.score)
    BY <1>3, Zenon DEF Follow
  <2>4. Actions(obj.spec, watcher.score) \cap Target
          \subseteq Keys(obj.spec, watcher.score)
    BY <1>1, PolicyAssumption, Zenon DEF Actions, PolicySpec
  <2>5. Actions(obj.spec, watcher.score) \subseteq Target \cup Workload
    BY <1>0, <1>1, KeysType, Zenon
  <2>6. QED
    BY <1>2, <2>1, <2>2, <2>3, <2>4, <2>5, Zenon
<1>4. CASE ~mit
  <2>1. Follow(c) = {}
    BY <1>4 DEF Follow
  <2>2. /\ Decision(c).last = obj.status.last
        /\ Decision(c).blocked = obj.status.blocked
        /\ Decision(c).phase = "Mitigating" => obj.status.phase = "Mitigating"
    BY <1>1, <1>4, Zenon DEF Decision, Decide, PolicyStatus
  <2>3. Timed(Decision(c))
    BY <1>1, <2>2, Zenon DEF Timed
  <2>4. QED
    BY <1>2, <2>1, <2>3, Zenon
<1>5. QED
  BY <1>3, <1>4, Zenon

\* A write that is sent leaves the bucket with no fewer than no tokens.
LEMMA TokensType ==
  ASSUME IndInv, NEW c \in watcher.todo, Sends(c)
  PROVE  Tokens(c) \in [Policy -> [tokens : Nat, at : Nat]]
<1> DEFINE b == watcher.bucket[c[1]]
           a == Limiter!Available(c[1], now)
<1>1. /\ watcher.bucket \in [Policy -> [tokens : Nat, at : Nat]]
      /\ c[1] \in Policy /\ now \in Nat
  BY CopyFacts, Zenon DEF IndInv, TypeOK, ClusterTypeOK, WatcherState
<1>2. CASE Changed(c) \/ Burst = 0
  BY <1>1, <1>2, Zenon DEF Tokens, Limiter!Taken
<1>3. CASE ~Changed(c) /\ Burst # 0
  <2>1. a >= Interval
    BY <1>3, Zenon DEF Sends, Limiter!Allow
  <2>2. b.tokens \in Nat /\ b.at \in Nat
    BY <1>1, Zenon
  <2>3. a \in Int
    <3>1. Burst * Interval \in Int
      BY WatcherAssumption
    <3>2. b.tokens + (now - b.at) \in Int
      BY <1>1, <2>2
    <3> HIDE DEF b
    <3>3. QED
      BY <3>1, <3>2, Zenon DEF Limiter!Available, b
  <2>4. Tokens(c) =
          [watcher.bucket EXCEPT ![c[1]] = [tokens |-> a - Interval, at |-> now]]
    BY <1>3, Zenon DEF Tokens, Limiter!Taken
  <2> HIDE DEF a
  <2>5. a - Interval \in Nat
    BY <2>1, <2>3, WatcherAssumption
  <2>6. [tokens |-> a - Interval, at |-> now] \in [tokens : Nat, at : Nat]
    BY <1>1, <2>5, Zenon
  <2>7. QED
    BY <1>1, <2>4, <2>6, Zenon
<1>4. QED
  BY <1>2, <1>3, Zenon

LEMMA NextPolicyFacts ==
  ASSUME IndInv, NEW todo \in SUBSET watcher.todo,
         NEW b \in [Policy -> [tokens : Nat, at : Nat]]
  PROVE  /\ NextPolicy(todo, b) \in WatcherState
         /\ NextPolicy(todo, b).pc = "ready" /\ NextPolicy(todo, b).acts = {}
         /\ NextPolicy(todo, b).todo = todo
<1>1. watcher \in WatcherState /\ WatcherStart \in WatcherState
      /\ WatcherStart.acts = {} /\ WatcherStart.todo = {}
  BY StartTypes, Zenon DEF IndInv, TypeOK, WatcherStart
<1>2. QED
  BY <1>1, Zenon DEF NextPolicy, WatcherState

\* A watcher step that stores nothing.
LEMMA WatcherQuietKeeps ==
  ASSUME IndInv, UNCHANGED <<hist, now, worker, sync>>,
         ClusterTypeOK', watcher' \in WatcherState, WatcherInv', IndexInv',
         EveryDropWasRecorded'
  PROVE  IndInv'
<1>1. TypeOK'
  BY ZenonT(60) DEF IndInv, TypeOK
<1>2. QED
  BY <1>1, IdleHistoryKeeps, Zenon DEF IndInv

\* The same, when it keeps to its own state and takes on no new copies.
LEMMA WatcherLocalKeeps ==
  ASSUME IndInv, UNCHANGED <<hist, now, worker, sync, index, kernel>>,
         ClusterTypeOK', watcher' \in WatcherState,
         watcher'.todo \subseteq watcher.todo, watcher'.pc # "put",
         watcher'.acts \cap Target \subseteq EverClaimed
  PROVE  IndInv'
<1>1. EverClaimed' = EverClaimed /\ IndexInv' /\ EveryDropWasRecorded'
  BY IdleHistoryKeeps, Zenon
<1>2. WatcherInv'
  BY <1>1, Zenon DEF IndInv, WatcherInv, Undeleted
<1>3. QED
  BY <1>1, <1>2, WatcherQuietKeeps, Zenon

\* The status write of copy c is stored. The watcher goes on to the index and
\* the actions, or does not know.
LEMMA ApplyStoresKeeps ==
  ASSUME IndInv, NEW c \in watcher.todo,
         hist' = Store(c[1], SetStatus(hist[c[1]][c[2]], Decision(c))),
         left' \in [Bound -> Nat], watcher' \in WatcherState,
         watcher'.todo \subseteq watcher.todo,
         watcher'.pc = "put" => /\ watcher'.pol = c[1]
                                /\ watcher'.ver = Len(hist'[c[1]]),
         watcher'.acts \subseteq Follow(c),
         UNCHANGED <<tracker, seen, queue, delayed, index, kernel, mesh,
                     engaged, now, worker, sync>>
  PROVE  IndInv'
<1> DEFINE p == c[1]
           obj == SetStatus(hist[p][c[2]], Decision(c))
<1>0. ClusterTypeOK
  BY Zenon DEF IndInv, TypeOK
<1>1. p \in Policy /\ hist[p][c[2]] \in Object /\ ~hist[p][c[2]].deleting
  BY CopyFacts, Zenon
<1>2. obj \in Object /\ ~obj.deleting /\ obj.status = Decision(c)
  BY <1>1, DecisionFacts, Zenon DEF SetStatus, Object
<1>3. Timed(obj.status)
  BY <1>2, DecisionFacts, Zenon
<1>4. hist' = Store(p, obj)
  BY Zenon
<1> HIDE DEF obj
<1>5. /\ \A q \in Policy : Grows(q)
      /\ hist' \in [Policy -> Seq(Object)] /\ Len(hist'[p]) > 0
      /\ hist'[p][Len(hist'[p])] = obj
  BY <1>0, <1>1, <1>2, <1>4, StoreEffect, Zenon
<1>6. Len(hist'[p]) \in 1..Len(hist'[p])
  BY <1>1, <1>5
<1>7. WatcherInv'
  <2>1. \A d \in watcher'.todo : Undeleted(d[1], d[2])'
    <3> SUFFICES ASSUME NEW d \in watcher.todo
                 PROVE  Undeleted(d[1], d[2])'
      BY Zenon
    <3>1. d[1] \in Policy /\ Undeleted(d[1], d[2])
      BY CopyFacts, Zenon DEF Undeleted
    <3>2. QED
      BY <1>0, <1>5, <3>1, UndeletedKept, Zenon
  <2>2. watcher'.pc = "put" => Undeleted(watcher.pol, watcher.ver)'
    BY <1>2, <1>5, <1>6, Zenon DEF Undeleted
  <2>3. Follow(c) \cap Target \subseteq EverClaimed'
    BY <1>1, <1>2, <1>5, <1>6, DecisionFacts, Zenon DEF EverClaimed
  <2>4. QED
    BY <2>1, <2>2, <2>3, Zenon DEF WatcherInv
<1>8. queue' \subseteq Policy /\ delayed' \subseteq Policy
  BY <1>0, Zenon DEF ClusterTypeOK
<1>9. QED
  BY <1>1, <1>2, <1>3, <1>4, <1>7, <1>8, StoreKeeps, Zenon

LEMMA ApplyWritesKeeps ==
  ASSUME IndInv, NEW c \in watcher.todo, ApplyWrites(c),
         UNCHANGED <<worker, sync>>
  PROVE  IndInv'
<1> DEFINE p == c[1]
           obj == SetStatus(hist[p][c[2]], Decision(c))
<1>0. ClusterTypeOK /\ watcher \in WatcherState
  BY Zenon DEF IndInv, TypeOK
<1>1. /\ hist' = Store(p, obj) /\ Sends(c)
      /\ UNCHANGED <<tracker, seen, queue, delayed, index, kernel, mesh,
                     engaged, now, left>>
      /\ watcher' = [watcher EXCEPT
           !.pc = "put", !.todo = watcher.todo \ {c}, !.pol = p,
           !.ver = Len(hist'[p]), !.acts = Follow(c), !.bucket = Tokens(c)]
  BY Zenon DEF ApplyWrites
<1>2. p \in Policy /\ obj \in Object
  BY CopyFacts, DecisionFacts, Zenon DEF SetStatus, Object
<1> HIDE DEF obj
<1>3. Len(hist'[p]) \in Nat
  <2>1. hist' \in [Policy -> Seq(Object)]
    BY <1>0, <1>1, <1>2, StoreEffect, Zenon
  <2>2. QED
    BY <1>2, <2>1
<1>4. /\ watcher' \in WatcherState /\ watcher'.todo \subseteq watcher.todo
      /\ watcher'.pol = p /\ watcher'.ver = Len(hist'[p])
      /\ watcher'.acts = Follow(c)
  BY <1>0, <1>1, <1>2, <1>3, DecisionFacts, TokensType, Zenon DEF WatcherState
<1>5. left' \in [Bound -> Nat]
  BY <1>0, <1>1, Zenon DEF ClusterTypeOK
<1>6. QED
  BY <1>1, <1>4, <1>5, ApplyStoresKeeps, Zenon DEF obj

LEMMA WarmKeeps ==
  ASSUME IndInv, WarmList \/ WarmPut \/ Subscribe \/ WatcherPut,
         UNCHANGED <<worker, sync>>
  PROVE  IndInv'
<1>0. ClusterTypeOK /\ TypeOK /\ watcher \in WatcherState
  BY Zenon DEF IndInv, TypeOK
<1>1. CASE WarmList
  <2> DEFINE fresh == {<<p, seen[p]>> : p \in {q \in Policy :
                         /\ hist[q][seen[q]].live
                         /\ ~hist[q][seen[q]].deleting}}
  <2>1. /\ watcher' = [watcher EXCEPT !.pc = "warm", !.todo = fresh]
        /\ UNCHANGED clusterVars
    BY <1>1, Zenon DEF WarmList
  <2>2. fresh \subseteq Policy \X Nat
    BY <1>0 DEF ClusterTypeOK
  <2>3. \A c \in fresh : Undeleted(c[1], c[2])
    BY <1>0, VersionsAreObjects DEF Undeleted
  <2> HIDE DEF fresh
  <2>4. /\ watcher' \in WatcherState /\ watcher'.pc = "warm"
        /\ watcher'.todo = fresh /\ watcher'.acts = watcher.acts
    BY <1>0, <2>1, <2>2, Zenon DEF WatcherState
  <2>5. UNCHANGED <<hist, now, index, kernel>> /\ ClusterTypeOK'
    BY <1>0, <2>1, Zenon DEF clusterVars, ClusterTypeOK
  <2>6. EverClaimed' = EverClaimed /\ IndexInv' /\ EveryDropWasRecorded'
    BY <2>5, IdleHistoryKeeps, Zenon
  <2>7. WatcherInv'
    BY <2>3, <2>4, <2>5, <2>6, Zenon DEF IndInv, WatcherInv, Undeleted
  <2>8. QED
    BY <2>4, <2>5, <2>6, <2>7, WatcherQuietKeeps, Zenon
<1>2. ASSUME NEW p \in Policy, NEW v \in Nat, Undeleted(p, v),
             index' = [index EXCEPT ![p] = v],
             watcher' \in WatcherState, watcher'.pc # "put",
             watcher'.todo \subseteq watcher.todo,
             watcher'.acts = watcher.acts,
             UNCHANGED <<tracker, hist, seen, queue, delayed, kernel, mesh,
                         engaged, now, left>>
      PROVE  IndInv'
  <2>1. \A q \in Policy : index'[q] \in 0..Len(hist[q])
    BY <1>0, <1>2 DEF ClusterTypeOK, Undeleted
  <2>2. ClusterTypeOK'
    BY <1>0, <1>2, <2>1, Zenon DEF ClusterTypeOK
  <2>3. IndexInv'
    BY <1>0, <1>2, Zenon DEF IndInv, IndexInv, Undeleted, ClusterTypeOK
  <2>4. EverClaimed' = EverClaimed /\ EveryDropWasRecorded'
    BY <1>2, IdleHistoryKeeps, Zenon
  <2>5. WatcherInv'
    BY <1>2, <2>4, Zenon DEF IndInv, WatcherInv, Undeleted
  <2>6. QED
    BY <1>2, <2>2, <2>3, <2>4, <2>5, WatcherQuietKeeps, Zenon
<1>3. CASE WarmPut
  <2>1. PICK c \in watcher.todo :
          /\ index' = [index EXCEPT ![c[1]] = c[2]]
          /\ watcher' = [watcher EXCEPT !.todo = watcher.todo \ {c}]
    BY <1>3, Zenon DEF WarmPut
  <2>2. c[1] \in Policy /\ c[2] \in Nat /\ Undeleted(c[1], c[2])
    BY CopyFacts, Zenon DEF Undeleted
  <2>3. /\ watcher' \in WatcherState /\ watcher'.pc = "warm"
        /\ watcher'.todo \subseteq watcher.todo
        /\ watcher'.acts = watcher.acts
    BY <1>0, <1>3, <2>1, Zenon DEF WatcherState, WarmPut
  <2>4. QED
    BY <1>2, <1>3, <2>1, <2>2, <2>3, Zenon DEF WarmPut
<1>4. CASE WatcherPut
  <2>1. /\ watcher.pol \in Policy /\ watcher.ver \in Nat
        /\ Undeleted(watcher.pol, watcher.ver)
    BY <1>0, <1>4, Zenon DEF WatcherPut, WatcherState, IndInv, WatcherInv
  <2>2. /\ watcher' \in WatcherState /\ watcher'.pc = "act"
        /\ watcher'.todo = watcher.todo /\ watcher'.acts = watcher.acts
    BY <1>0, <1>4, Zenon DEF WatcherPut, WatcherState
  <2>3. QED
    BY <1>2, <1>4, <2>1, <2>2, Zenon DEF WatcherPut
<1>5. CASE Subscribe
  <2>1. /\ watcher' \in WatcherState /\ watcher'.pc = "ready"
        /\ watcher'.todo = watcher.todo /\ watcher'.acts = watcher.acts
    BY <1>0, <1>5, Zenon DEF Subscribe, WatcherState
  <2>2. tracker' \in TrackerState
    BY <1>0, <1>5, Zenon DEF Subscribe, ClusterTypeOK, TrackerState
  <2>3. ClusterTypeOK' /\ UNCHANGED <<hist, now, index, kernel>>
    BY <1>0, <1>5, <2>2, Zenon DEF Subscribe, ClusterTypeOK
  <2>4. QED
    BY <2>1, <2>3, WatcherLocalKeeps, Zenon DEF IndInv, WatcherInv
<1>6. QED
  BY <1>1, <1>3, <1>4, <1>5, Zenon

LEMMA DeliverKeeps ==
  ASSUME IndInv, Deliver, UNCHANGED <<worker, sync>>
  PROVE  IndInv'
<1>0. ClusterTypeOK /\ TypeOK /\ watcher \in WatcherState
  BY DEF IndInv, TypeOK
<1>1. /\ Spend("scores") /\ Observe /\ watcher.pc = "ready"
      /\ UNCHANGED <<hist, seen, queue, delayed, index, kernel, mesh, engaged,
                     now>>
  BY Zenon DEF Deliver, Handle, HandleNothing, Deliverable
<1>2. tracker' \in TrackerState
  BY <1>0, <1>1, ClusterAssumption, Zenon DEF Observe, ClusterTypeOK,
     TrackerState
<1>3. left' \in [Bound -> Nat]
  BY <1>0, <1>1, SpendType, Zenon
<1>4. ClusterTypeOK'
  BY <1>0, <1>1, <1>2, <1>3, Zenon DEF ClusterTypeOK
<1>5. CASE HandleNothing
  BY <1>0, <1>1, <1>4, <1>5, WatcherLocalKeeps, Zenon
     DEF HandleNothing, IndInv, WatcherInv
<1>6. ASSUME NEW s \in Scores, Handle(s) PROVE IndInv'
  <2> DEFINE matching == {p \in Policy :
               index[p] # 0 /\ hist[p][index[p]].spec.target = s.workload}
             taken == {<<p, index[p]>> : p \in matching}
  <2>1. watcher' = [watcher EXCEPT !.score = s, !.todo = taken]
    BY <1>6, Zenon DEF Handle
  <2>2. taken \subseteq Policy \X Nat
    BY <1>0 DEF ClusterTypeOK
  <2>3. \A c \in taken : Undeleted(c[1], c[2])
    BY DEF IndInv, IndexInv
  <2> HIDE DEF taken
  <2>4. /\ watcher' \in WatcherState /\ watcher'.pc = "ready"
        /\ watcher'.todo = taken /\ watcher'.acts = watcher.acts
    BY <1>0, <1>1, <2>1, <2>2, WatcherAssumption, Zenon DEF WatcherState
  <2>5. EverClaimed' = EverClaimed /\ IndexInv' /\ EveryDropWasRecorded'
    BY <1>1, IdleHistoryKeeps, Zenon
  <2>6. WatcherInv'
    BY <1>1, <2>3, <2>4, <2>5, Zenon DEF IndInv, WatcherInv, Undeleted
  <2>7. QED
    BY <1>1, <1>4, <2>4, <2>5, <2>6, WatcherQuietKeeps, Zenon
<1>7. QED
  BY <1>5, <1>6, Zenon DEF Deliver

LEMMA ActKeeps ==
  ASSUME IndInv, NEW a \in watcher.acts,
         Block(a) \/ Quarantine(a) \/ ActionFails(a),
         UNCHANGED <<worker, sync>>
  PROVE  IndInv'
<1>0. ClusterTypeOK /\ TypeOK /\ watcher \in WatcherState
  BY Zenon DEF IndInv, TypeOK
<1>1. /\ watcher.pc = "act"
      /\ UNCHANGED <<tracker, hist, seen, queue, delayed, index, engaged, now>>
  BY DEF Block, Quarantine, ActionFails, NextAction
<1>2. /\ watcher' \in WatcherState /\ watcher'.pc = "act"
      /\ watcher'.todo = watcher.todo /\ watcher'.acts \subseteq watcher.acts
  BY <1>0, <1>1, Zenon DEF Block, Quarantine, ActionFails, WatcherState
<1>3. left' \in [Bound -> Nat]
  <2>1. UNCHANGED left \/ Spend("faults")
    BY Zenon DEF Block, Quarantine, ActionFails, BlockDone, BlockFails
  <2>2. QED
    BY <1>0, <2>1, SpendType, Zenon DEF ClusterTypeOK
<1>4. mesh' \subseteq Workload
  BY <1>0 DEF ClusterTypeOK, Block, Quarantine, ActionFails
<1>5. kernel' \subseteq kernel \cup (watcher.acts \cap Target)
  BY Zenon DEF Block, Quarantine, ActionFails, BlockDone, BlockFails
<1>6. ClusterTypeOK'
  BY <1>0, <1>1, <1>3, <1>4, <1>5, Zenon DEF ClusterTypeOK
<1>7. EverClaimed' = EverClaimed /\ IndexInv'
  BY <1>1, IdleHistoryKeeps, Zenon
<1>8. EveryDropWasRecorded'
  BY <1>5, <1>7, Zenon DEF IndInv, WatcherInv, EveryDropWasRecorded
<1>9. WatcherInv'
  BY <1>1, <1>2, <1>7, Zenon DEF IndInv, WatcherInv, Undeleted
<1>10. QED
  BY <1>1, <1>2, <1>6, <1>7, <1>8, <1>9, WatcherQuietKeeps, Zenon

LEMMA WatcherKeeps ==
  ASSUME IndInv, WatcherStep, UNCHANGED <<worker, sync>>
  PROVE  IndInv'
<1>0. ClusterTypeOK /\ TypeOK /\ watcher \in WatcherState
  BY DEF IndInv, TypeOK
<1>1. ASSUME NEW c \in watcher.todo, ApplyFails(c) PROVE IndInv'
  <2> DEFINE obj == SetStatus(hist[c[1]][c[2]], Decision(c))
             next == NextPolicy(watcher.todo \ {c}, Tokens(c))
  <2>1. /\ Sends(c) /\ UpdateFails(c[1], c[2], obj) /\ watcher' = next
        /\ UNCHANGED <<tracker, seen, queue, delayed, index, kernel, mesh,
                       engaged, now>>
    BY <1>1, Zenon DEF ApplyFails
  <2>2. left' \in [Bound -> Nat]
    <3>1. UNCHANGED left \/ Spend("faults")
      BY <2>1, Zenon DEF UpdateFails, CallFails
    <3>2. QED
      BY <1>0, <3>1, SpendType, Zenon DEF ClusterTypeOK
  <2>3. watcher.todo \ {c} \in SUBSET watcher.todo
    BY Zenon
  <2>4. /\ next \in WatcherState /\ next.pc = "ready" /\ next.acts = {}
        /\ next.todo = watcher.todo \ {c}
    BY <2>1, <2>3, TokensType, NextPolicyFacts, Zenon
  <2> HIDE DEF next
  <2>5. CASE hist' = hist
    <3>1. ClusterTypeOK'
      BY <1>0, <2>1, <2>2, <2>5, Zenon DEF ClusterTypeOK
    <3>2. QED
      BY <2>1, <2>4, <2>5, <3>1, WatcherLocalKeeps, Zenon
  <2>6. CASE hist' = Store(c[1], obj)
    BY <2>1, <2>2, <2>4, <2>6, ApplyStoresKeeps, Zenon
  <2>7. QED
    BY <2>1, <2>5, <2>6, Zenon DEF UpdateFails, CallFails
<1>2. ASSUME NEW c \in watcher.todo, ApplyThrottled(c) PROVE IndInv'
  <2>1. ClusterTypeOK' /\ UNCHANGED <<hist, now, index, kernel>>
    BY <1>0, <1>2, Zenon DEF ApplyThrottled, clusterVars, ClusterTypeOK
  <2>2. /\ watcher' \in WatcherState /\ watcher'.pc = "act"
        /\ watcher'.todo \subseteq watcher.todo /\ watcher'.acts = Follow(c)
    BY <1>0, <1>2, CopyFacts, DecisionFacts, Zenon DEF ApplyThrottled,
       WatcherState
  <2>3. Follow(c) \cap Target \subseteq EverClaimed
    <3>1. Decision(c).blocked = hist[c[1]][c[2]].status.blocked
      BY <1>2, Zenon DEF ApplyThrottled, Sends, Changed, StatusDecisionChanged
    <3>2. QED
      BY <3>1, CopyFacts, DecisionFacts, Zenon DEF EverClaimed
  <2>4. QED
    BY <2>1, <2>2, <2>3, WatcherLocalKeeps, Zenon
<1>3. CASE ApplyDone
  <2>1. ClusterTypeOK' /\ UNCHANGED <<hist, now, index, kernel>>
    BY <1>0, <1>3, Zenon DEF ApplyDone, clusterVars, ClusterTypeOK
  <2>2. /\ watcher' \in WatcherState /\ watcher'.pc = "ready"
        /\ watcher'.todo \subseteq watcher.todo /\ watcher'.acts = {}
    <3>1. watcher.bucket \in [Policy -> [tokens : Nat, at : Nat]]
      BY <1>0, Zenon DEF WatcherState
    <3> DEFINE next == NextPolicy(watcher.todo, watcher.bucket)
    <3>2. watcher.todo \in SUBSET watcher.todo
      BY Zenon
    <3>3. /\ next \in WatcherState /\ next.pc = "ready" /\ next.acts = {}
          /\ next.todo = watcher.todo
      BY <3>1, <3>2, NextPolicyFacts, Zenon
    <3>4. watcher' = next
      BY <1>3, Zenon DEF ApplyDone
    <3> HIDE DEF next
    <3>5. QED
      BY <3>3, <3>4, Zenon
  <2>3. QED
    BY <2>1, <2>2, WatcherLocalKeeps, Zenon
<1>4. QED
  BY <1>1, <1>2, <1>3, WarmKeeps, ApplyWritesKeeps, ActKeeps, Zenon DEF WatcherStep

-----------------------------------------------------------------------------
(* Start, restart and the inductive step. *)

\* The invariants of freshly started goroutines.
LEMMA StartInv ==
  /\ watcher = WatcherStart => WatcherInv
  /\ worker = WorkerIdle => WorkerInv
  /\ sync = SyncStart => SyncInv
<1>1. watcher = WatcherStart => WatcherInv
  <2>1. watcher = WatcherStart =>
          watcher.pc = "list" /\ watcher.todo = {} /\ watcher.acts = {}
    BY DEF WatcherStart
  <2>2. QED
    BY <2>1 DEF WatcherInv
<1>2. worker = WorkerIdle => WorkerInv
  BY DEF WorkerIdle, WorkerInv
<1>3. sync = SyncStart => SyncInv
  BY DEF SyncStart, SyncInv
<1>4. QED
  BY <1>1, <1>2, <1>3, Zenon

LEMMA InitHolds == Init => IndInv
<1> SUFFICES ASSUME Init PROVE IndInv
  BY Zenon
<1>0. ClusterInit /\ watcher = WatcherStart /\ worker = WorkerIdle
      /\ sync = SyncStart
  BY Zenon DEF Init, WatcherInit, ReconcilerInit, SyncInit
<1>1. \A p \in Policy : hist[p] = <<Absent>>
  BY <1>0, Zenon DEF ClusterInit
<1>2. \A p \in Policy : Len(hist[p]) = 1 /\ hist[p][1] = Absent
  <2>1. Len(<<Absent>>) = 1 /\ <<Absent>>[1] = Absent
    BY Zenon
  <2>2. QED
    BY <1>1, <2>1, Zenon
<1>3. left \in [Bound -> Nat]
  BY <1>0, ClusterAssumption, Zenon DEF ClusterInit
<1>4. hist \in [Policy -> Seq(Object)]
  BY <1>0, AbsentType DEF ClusterInit
<1>5. ClusterTypeOK
  <2>1. \A p \in Policy : seen[p] = 1 /\ index[p] = 0
    BY <1>0, Zenon DEF ClusterInit
  <2>2. /\ \A p \in Policy : Len(hist[p]) > 0
        /\ \A p \in Policy : seen[p] \in 1..Len(hist[p])
        /\ \A p \in Policy : index[p] \in 0..Len(hist[p])
    BY <1>2, <2>1
  <2>3. /\ seen \in [Policy -> Nat] /\ index \in [Policy -> Nat]
        /\ queue \subseteq Policy /\ delayed \subseteq Policy
        /\ kernel \subseteq Target /\ mesh \subseteq Workload
        /\ tracker \in TrackerState /\ engaged \in BOOLEAN /\ now \in Nat
    BY <1>0, StartTypes, Zenon DEF ClusterInit
  <2>4. QED
    BY <1>3, <1>4, <2>2, <2>3, Zenon DEF ClusterTypeOK
<1>6. TypeOK
  BY <1>0, <1>5, StartTypes, Zenon DEF TypeOK
<1>7. IndexInv /\ EveryDropWasRecorded
  BY <1>0, Zenon DEF ClusterInit, IndexInv, EveryDropWasRecorded
<1>8. MitigationIsTimed
  BY <1>2, AbsentType, NewStatusTimed DEF MitigationIsTimed
<1>9. QED
  BY <1>0, <1>6, <1>7, <1>8, StartInv, Zenon DEF IndInv

LEMMA RestartKeeps ==
  ASSUME IndInv, Restart
  PROVE  IndInv'
<1>0. ClusterTypeOK /\ TypeOK
  BY Zenon DEF IndInv, TypeOK
<1>1. /\ watcher' = WatcherStart /\ worker' = WorkerIdle /\ sync' = SyncStart
      /\ index' = [p \in Policy |-> 0]
      /\ seen' = [p \in Policy |-> Len(hist[p])]
      /\ queue' \subseteq Policy /\ delayed' = {} /\ tracker' = TrackerStart
      /\ kernel' \subseteq kernel
      /\ UNCHANGED <<hist, mesh, engaged, now>>
  BY Zenon DEF Restart
<1>2. left' \in [Bound -> Nat]
  BY <1>0, SpendType, Zenon DEF Restart
<1>3. \A p \in Policy : Len(hist[p]) \in Nat \ {0}
  BY <1>0, VersionsAreObjects, Zenon
<1>4. ClusterTypeOK'
  BY <1>0, <1>1, <1>2, <1>3, StartTypes DEF ClusterTypeOK
<1>5. TypeOK'
  BY <1>1, <1>4, StartTypes, Zenon DEF TypeOK
<1>6. WatcherInv' /\ WorkerInv' /\ SyncInv'
  <2>1. WatcherInv'
    BY <1>1, Zenon DEF WatcherStart, WatcherInv
  <2>2. WorkerInv'
    BY <1>1, Zenon DEF WorkerIdle, WorkerInv
  <2>3. SyncInv'
    BY <1>1, Zenon DEF SyncStart, SyncInv
  <2>4. QED
    BY <2>1, <2>2, <2>3, Zenon
<1>7. IndexInv'
  BY <1>1, Zenon DEF IndexInv
<1>8. QED
  BY <1>1, <1>5, <1>6, <1>7, IdleHistoryKeeps, Zenon DEF IndInv

LEMMA StutterKeeps ==
  ASSUME IndInv, UNCHANGED vars
  PROVE  IndInv'
<1>1. UNCHANGED <<hist, seen, queue, delayed, index, kernel, mesh, tracker,
                  engaged, now, left, watcher, worker, sync>>
  BY Zenon DEF vars, clusterVars
<1>2. TypeOK'
  BY <1>1, Zenon DEF IndInv, TypeOK, ClusterTypeOK
<1>3. QED
  BY <1>1, <1>2, IdleHistoryKeeps, Zenon DEF IndInv

LEMMA NextKeeps == IndInv /\ [Next]_vars => IndInv'
BY EnvironmentKeeps, DeliverKeeps, WatcherKeeps, WorkerKeeps, SyncKeeps,
   RestartKeeps, StutterKeeps, Zenon DEF Next

\* The inductive invariant holds throughout.
THEOREM Invariance == Spec => []IndInv
BY InitHolds, NextKeeps, PTL DEF Spec

\* Every variable keeps its type, and every copy a goroutine holds is a
\* version the API server has stored.
THEOREM TypeCorrectness == Spec => []TypeOK
<1>1. IndInv => TypeOK
  BY DEF IndInv
<1>2. QED
  BY <1>1, Invariance, PTL

\* Whatever the kernel drops was recorded in a stored policy status first,
\* for any number of policies, scores, failed calls and restarts.
THEOREM WriteAhead == Spec => []EveryDropWasRecorded
<1>1. IndInv => EveryDropWasRecorded
  BY Zenon DEF IndInv
<1>2. QED
  BY <1>1, Invariance, PTL

\* No stored status claims keys, or is Mitigating, without a mitigation time.
THEOREM MitigationTimed == Spec => []MitigationIsTimed
<1>1. IndInv => MitigationIsTimed
  BY Zenon DEF IndInv
<1>2. QED
  BY <1>1, Invariance, PTL

-----------------------------------------------------------------------------
(* The mitigation loop implements Enforcement. Every step stores nothing, or *)
(* one object that moves its policy's claim in a way Enforcement allows; the *)
(* action properties of the loop follow from the same fact.                  *)

\* The live and undeleted policy p is stored again with status st.
Restated(p, st) ==
    LET old == Latest(p).status
    IN  \/ /\ old.blocked \subseteq st.blocked
           /\ st.last = now /\ st.phase = "Mitigating"
        \/ /\ st.blocked = old.blocked /\ st.last = old.last
           /\ st.phase = old.phase \/ st.phase # "Mitigating"
        \/ /\ old.phase = "Mitigating" /\ DwellElapsed(old)
           /\ st.blocked = {} /\ st.last = old.last
           /\ st.phase # "Mitigating"

\* The stores the loop makes over the last version of p.
Moves(p, obj) ==
    \/ ~obj.live /\ obj.status = NewStatus
    \/ /\ ~Latest(p).live /\ obj.live
       /\ ~obj.deleting /\ obj.status = NewStatus
    \/ /\ Latest(p).live /\ obj.live /\ obj.status = Latest(p).status
       /\ Latest(p).deleting => obj.deleting
    \/ /\ Latest(p).live /\ obj.live
       /\ ~Latest(p).deleting /\ ~obj.deleting
       /\ Restated(p, obj.status)

\* A step stores nothing, or one object over the last version of a policy,
\* and then leaves the clock and the maps alone.
StoresMove ==
    \/ hist' = hist
    \/ /\ UNCHANGED <<kernel, now>>
       /\ \E p \in Policy : \E obj \in Object :
            hist' = Store(p, obj) /\ Moves(p, obj)

LEMMA UsersMove ==
  ASSUME IndInv, Environment \/ Tick
  PROVE  StoresMove
<1>0. ClusterTypeOK
  BY Zenon DEF IndInv, TypeOK
<1>1. ASSUME NEW p \in Policy, CreatePolicy(p) PROVE StoresMove
  <2>1. PICK spec \in SpecChoices :
          hist' = Store(p, [Absent EXCEPT !.live = TRUE, !.spec = spec])
    BY <1>1, Zenon DEF CreatePolicy
  <2> DEFINE obj == [Absent EXCEPT !.live = TRUE, !.spec = spec]
  <2>2. /\ obj \in Object /\ obj.live /\ ~obj.deleting
        /\ obj.status = NewStatus
    BY AbsentType, ClusterAssumption, Zenon DEF Object
  <2> HIDE DEF obj
  <2>3. /\ hist' = Store(p, obj) /\ ~Latest(p).live
        /\ UNCHANGED <<kernel, now>>
    BY <1>1, <2>1, Zenon DEF obj, CreatePolicy
  <2>4. QED
    BY <2>2, <2>3, Zenon DEF StoresMove, Moves
<1>2. ASSUME NEW p \in Policy, EditSpec(p) PROVE StoresMove
  <2>1. PICK spec \in SpecChoices :
          hist' = Store(p, [Latest(p) EXCEPT !.spec = spec])
    BY <1>2, Zenon DEF EditSpec
  <2> DEFINE obj == [Latest(p) EXCEPT !.spec = spec]
  <2>2. /\ obj \in Object /\ obj.status = Latest(p).status
        /\ obj.live = Latest(p).live /\ obj.deleting = Latest(p).deleting
    BY <1>0, VersionsAreObjects, ClusterAssumption, Zenon DEF Object
  <2> HIDE DEF obj
  <2>3. hist' = Store(p, obj) /\ Latest(p).live /\ UNCHANGED <<kernel, now>>
    BY <1>2, <2>1, Zenon DEF obj, EditSpec
  <2>4. QED
    BY <2>2, <2>3, Zenon DEF StoresMove, Moves
<1>3. ASSUME NEW p \in Policy, DeletePolicy(p) PROVE StoresMove
  <2> DEFINE obj == IF Latest(p).finalizer
                    THEN [Latest(p) EXCEPT !.deleting = TRUE] ELSE Absent
  <2>1. /\ obj \in Object
        /\ \/ ~obj.live /\ obj.status = NewStatus
           \/ /\ obj.live = Latest(p).live /\ obj.deleting
              /\ obj.status = Latest(p).status
    BY <1>0, VersionsAreObjects, AbsentType, Zenon DEF Object
  <2>2. hist' = Store(p, obj) /\ Latest(p).live /\ UNCHANGED <<kernel, now>>
    BY <1>3, Zenon DEF DeletePolicy
  <2> HIDE DEF obj
  <2>3. QED
    BY <2>1, <2>2, Zenon DEF StoresMove, Moves
<1>4. QED
  BY <1>1, <1>2, <1>3, Zenon DEF Environment, InformerEvent, RequeueFires,
     ToggleKillSwitch, Tick, GraceExpires, StoresMove

\* A decision is a dated mitigation or leaves the claim and its date alone.
LEMMA DecisionRestates ==
  ASSUME IndInv, NEW c \in watcher.todo, hist[c[1]][c[2]] = Latest(c[1])
  PROVE  Restated(c[1], Decision(c))
<1>1. /\ Latest(c[1]) \in Object /\ watcher.score \in Score
      /\ engaged \in BOOLEAN /\ now \in Nat
  BY CopyFacts, Zenon DEF IndInv, TypeOK, ClusterTypeOK, WatcherState
<1> DEFINE old == Latest(c[1]).status
           seen0 == [old EXCEPT !.observed = watcher.score.score]
<1>2. /\ seen0 \in PolicyStatus /\ seen0.blocked = old.blocked
      /\ seen0.last = old.last /\ seen0.phase = old.phase
  BY <1>1 DEF Object, PolicyStatus, Score
<1>3. Decision(c) = Decide(Latest(c[1]), watcher.score, engaged, now)
  BY Zenon DEF Decision
<1> HIDE DEF seen0
<1>4. QED
  BY <1>2, <1>3 DEF Decide, seen0, PolicyStatus, Restated

LEMMA WatcherMoves ==
  ASSUME IndInv, Deliver \/ WatcherStep
  PROVE  StoresMove
<1>1. ASSUME NEW c \in watcher.todo, Accepts(c[1], c[2]),
             hist' = Store(c[1], SetStatus(hist[c[1]][c[2]], Decision(c))),
             UNCHANGED <<kernel, now>>
      PROVE  StoresMove
  <2> DEFINE obj == SetStatus(hist[c[1]][c[2]], Decision(c))
  <2>1. /\ hist' = Store(c[1], obj) /\ UNCHANGED <<kernel, now>>
        /\ c[2] = Len(hist[c[1]]) /\ Latest(c[1]).live
    BY <1>1, Zenon DEF Accepts
  <2>2. /\ c[1] \in Policy /\ hist[c[1]][c[2]] \in Object
        /\ hist[c[1]][c[2]] = Latest(c[1]) /\ ~Latest(c[1]).deleting
    BY <2>1, CopyFacts, Zenon DEF Latest
  <2>3. /\ obj \in Object /\ obj.status = Decision(c)
        /\ obj.live = Latest(c[1]).live
        /\ obj.deleting = Latest(c[1]).deleting
    BY <2>2, DecisionFacts, Zenon DEF SetStatus, Object
  <2>4. Restated(c[1], Decision(c))
    BY <2>2, DecisionRestates, Zenon
  <2> HIDE DEF obj
  <2>5. QED
    BY <2>1, <2>2, <2>3, <2>4, Zenon DEF StoresMove, Moves
<1>2. CASE Deliver
  BY <1>2, Zenon DEF Deliver, Handle, HandleNothing, StoresMove
<1>3. ASSUME NEW c \in watcher.todo, ApplyWrites(c) \/ ApplyFails(c)
      PROVE  StoresMove
  <2>1. /\ UNCHANGED <<kernel, now>>
        /\ \/ hist' = hist
           \/ /\ Accepts(c[1], c[2])
              /\ hist' = Store(c[1], SetStatus(hist[c[1]][c[2]], Decision(c)))
    BY <1>3, Zenon DEF ApplyWrites, ApplyFails, UpdateFails, CallFails
  <2>2. QED
    BY <1>1, <2>1, Zenon DEF StoresMove
<1>4. CASE WatcherStep
  BY <1>3, <1>4, Zenon DEF WatcherStep, WarmList, WarmPut, Subscribe,
     ApplyThrottled, WatcherPut, Block, Quarantine, ActionFails,
     ApplyDone, StoresMove, clusterVars
<1>5. QED
  BY <1>2, <1>4, Zenon

LEMMA WorkerMoves ==
  ASSUME IndInv, WorkerStep
  PROVE  StoresMove
<1>1. ASSUME worker.pc # "idle", NEW obj \in Object, UNCHANGED <<kernel, now>>,
             \/ ~obj.live /\ obj.status = NewStatus
             \/ /\ obj.live = Held.live /\ obj.deleting = Held.deleting
                /\ ~Held.deleting
                /\ \/ obj.status = Held.status
                   \/ Held = Latest(worker.pol)
                        => Restated(worker.pol, obj.status),
             \/ hist' = hist
             \/ /\ Accepts(worker.pol, worker.ver)
                /\ hist' = Store(worker.pol, obj)
      PROVE  StoresMove
  <2>1. worker.pol \in Policy
    BY <1>1, HeldFacts, Zenon
  <2>2. Accepts(worker.pol, worker.ver)
          => Held = Latest(worker.pol) /\ Latest(worker.pol).live
    BY Zenon DEF Accepts, Held, Latest
  <2>3. QED
    BY <1>1, <2>1, <2>2, Zenon DEF StoresMove, Moves
<1>2. CASE AddFinalizer
  <2> DEFINE obj == [Held EXCEPT !.finalizer = TRUE]
  <2>1. /\ worker.pc = "finalizer" /\ worker.pc # "idle" /\ ~Held.deleting
        /\ WriteHeld(obj, "index") /\ UNCHANGED <<kernel, now>>
    BY <1>2, Zenon DEF AddFinalizer, IndInv, WorkerInv, Finalizing
  <2>2. /\ obj \in Object /\ obj.status = Held.status
        /\ obj.live = Held.live /\ obj.deleting = Held.deleting
    BY <2>1, HeldFacts, Zenon DEF Object
  <2> HIDE DEF obj
  <2>3. QED
    BY <1>1, <2>1, <2>2, Zenon DEF WriteHeld, UpdateFails, CallFails
<1>3. CASE InitPhase
  <2> DEFINE obj == [Held EXCEPT !.status.phase = "Monitoring"]
  <2>1. /\ worker.pc = "phase" /\ worker.pc # "idle" /\ ~Held.deleting
        /\ WriteHeld(obj, "phaseIndex") /\ UNCHANGED <<kernel, now>>
    BY <1>3, Zenon DEF InitPhase, IndInv, WorkerInv, Finalizing
  <2>2. /\ obj \in Object /\ obj.status.blocked = Held.status.blocked
        /\ obj.status.last = Held.status.last
        /\ obj.status.phase = "Monitoring"
    BY <2>1, HeldFacts, Zenon DEF Object, PolicyStatus, PolicyPhase
  <2>3. obj.live = Held.live /\ obj.deleting = Held.deleting
    BY <2>1, HeldFacts, Zenon DEF Object
  <2> HIDE DEF obj
  <2>4. Held = Latest(worker.pol) => Restated(worker.pol, obj.status)
    BY <2>2, Zenon DEF Restated
  <2>5. QED
    BY <1>1, <2>1, <2>2, <2>3, <2>4, Zenon DEF WriteHeld, UpdateFails, CallFails
<1>4. CASE ReportScoring
  <2> DEFINE obj == [Held EXCEPT !.status.scoring = ScoringStatus]
  <2>1. /\ worker.pc = "scoring" /\ worker.pc # "idle" /\ ~Held.deleting
        /\ UNCHANGED <<kernel, now>>
        /\ \/ hist' = hist
           \/ /\ Accepts(worker.pol, worker.ver)
              /\ hist' = Store(worker.pol, obj)
    BY <1>4, Zenon DEF ReportScoring, CallFails, IndInv, WorkerInv, Finalizing
  <2>2. ScoringStatus \in ScoringReason
    BY Zenon DEF IndInv, TypeOK, ClusterTypeOK, TrackerState, ScoringStatus,
           ScoringReason
  <2>3. /\ obj \in Object /\ obj.status.blocked = Held.status.blocked
        /\ obj.status.last = Held.status.last
        /\ obj.status.phase = Held.status.phase
        /\ obj.live = Held.live /\ obj.deleting = Held.deleting
    BY <2>1, <2>2, HeldFacts, Zenon DEF Object, PolicyStatus
  <2> HIDE DEF obj
  <2>4. Held = Latest(worker.pol) => Restated(worker.pol, obj.status)
    BY <2>3, Zenon DEF Restated
  <2>5. QED
    BY <1>1, <2>1, <2>3, <2>4, Zenon
<1>5. CASE DeEscalateClear
  <2> DEFINE obj == SetStatus(Held, DeEscalated(Held.status))
  <2>1. /\ worker.pc = "clear" /\ worker.pc # "idle" /\ ~Held.deleting
        /\ WriteHeld(obj, "clearIndex") /\ UNCHANGED <<kernel, now>>
        /\ Held.status.phase = "Mitigating" /\ DwellElapsed(Held.status)
    BY <1>5, Zenon DEF DeEscalateClear, IndInv, WorkerInv, Finalizing
  <2>2. /\ obj \in Object /\ obj.status.blocked = {}
        /\ obj.status.last = Held.status.last
        /\ obj.status.phase = "Monitoring"
    BY <2>1, HeldFacts, Zenon
       DEF Object, PolicyStatus, PolicyPhase, SetStatus, DeEscalated
  <2>3. obj.live = Held.live /\ obj.deleting = Held.deleting
    BY <2>1, HeldFacts, Zenon DEF Object, SetStatus
  <2> HIDE DEF obj
  <2>4. Held = Latest(worker.pol) => Restated(worker.pol, obj.status)
    BY <2>1, <2>2, Zenon DEF Restated
  <2>5. QED
    BY <1>1, <2>1, <2>2, <2>3, <2>4, Zenon DEF WriteHeld, UpdateFails, CallFails
<1>6. CASE FinalizeRemove
  <2>1. /\ worker.pc # "idle" /\ WriteHeld(Absent, "finForget")
        /\ UNCHANGED <<kernel, now>>
    BY <1>6, Zenon DEF FinalizeRemove
  <2>2. QED
    BY <1>1, <2>1, AbsentType, Zenon DEF WriteHeld, UpdateFails, CallFails
<1>7. QED
  BY <1>2, <1>3, <1>4, <1>5, <1>6, Zenon DEF WorkerStep, ReconcileGet,
     ReconcilePut, AwaitQuiet, DeEscalateUnblock, DeEscalateRelease,
     FinalizeRelease, FinalizeUnblock, FinalizeForget, StoresMove

LEMMA StepsMove == IndInv /\ [Next]_vars => StoresMove
<1> SUFFICES ASSUME IndInv, [Next]_vars PROVE StoresMove
  BY Zenon
<1>1. CASE SyncStep \/ Restart \/ UNCHANGED vars
  BY <1>1, Zenon DEF SyncStep, SyncList, SyncRead, SyncReadFails, Reapply,
     RemoveUnclaimed, SyncEnd, Restart, vars, clusterVars, StoresMove
<1>2. QED
  BY <1>1, UsersMove, WatcherMoves, WorkerMoves, Zenon DEF Next

-----------------------------------------------------------------------------
(* The action properties. *)

LEMMA LatestStep ==
  ASSUME IndInv, StoresMove, NEW p \in Policy
  PROVE  Latest(p)' = Latest(p) \/ Moves(p, Latest(p)')
<1>0. ClusterTypeOK
  BY DEF IndInv, TypeOK
<1>1. CASE hist' = hist
  BY <1>1, Zenon DEF Latest
<1>2. ASSUME NEW q \in Policy, NEW obj \in Object, hist' = Store(q, obj),
             Moves(q, obj)
      PROVE  Latest(p)' = Latest(p) \/ Moves(p, Latest(p)')
  <2>1. /\ q # p => hist'[p] = hist[p]
        /\ hist'[q][Len(hist'[q])] = obj
    BY <1>0, <1>2, StoreEffect, Zenon
  <2>2. QED
    BY <1>2, <2>1, Zenon DEF Latest
<1>3. QED
  BY <1>1, <1>2, Zenon DEF StoresMove

\* A policy's status is frozen from its deletion mark to its removal, so the
\* copy finalize works from lists everything there is to undo.
THEOREM DeletionFreezesStatus == Spec => DeletingStatusIsFrozen
<1>1. IndInv /\ [Next]_vars => \A p \in Policy : DeletionFreezes(p)
  BY StepsMove, LatestStep, ZenonT(60) DEF Moves, DeletionFreezes
<1>2. QED
  BY <1>1, Invariance, PTL DEF Spec, DeletingStatusIsFrozen

\* Claims of a live policy shrink only after a whole dwell without a newer
\* mitigation, whatever copies the two writers work from.
THEOREM ReleaseAfterQuiet == Spec => QuietBeforeRelease
<1>1. ASSUME IndInv, [Next]_vars, NEW p \in Policy
      PROVE  ReleaseIsQuiet(p)
  <2>1. StoresMove /\ ClusterTypeOK
    BY <1>1, StepsMove, Zenon DEF IndInv, TypeOK
  <2>2. Latest(p)' = Latest(p) \/ Moves(p, Latest(p)')
    BY <1>1, <2>1, LatestStep, Zenon
  <2>3. /\ Latest(p).status.last \in Nat \cup {Never}
        /\ now \in Nat /\ Dwell \in Nat
    BY <2>1, VersionsAreObjects, ClusterAssumption, Zenon
       DEF Object, PolicyStatus, ClusterTypeOK
  <2>4. DwellElapsed(Latest(p).status)
          => Latest(p).status.last \in 0..(now - Dwell)
    BY <2>3 DEF DwellElapsed
  <2>5. QED
    BY <2>2, <2>4, Zenon DEF Moves, Restated, ReleaseIsQuiet
<1>2. IndInv /\ [Next]_vars => \A p \in Policy : ReleaseIsQuiet(p)
  BY <1>1, Zenon
<1>3. QED
  BY <1>2, Invariance, PTL DEF Spec, QuietBeforeRelease

-----------------------------------------------------------------------------
(* The refinement. *)

LEMMA NewStatusClaim ==
  NewStatus.blocked = {} /\ NewStatus.last = Never /\ NewStatus.phase = ""
BY Zenon DEF NewStatus

\* A store makes one claim become that of the stored object, and adds its
\* keys to the ones ever claimed.
LEMMA StoreBecomes ==
  ASSUME IndInv, NEW p \in Policy, NEW obj \in Object,
         hist' = Store(p, obj), UNCHANGED <<kernel, now>>
  PROVE  Promise!Becomes(p, ClaimOf(obj))
<1>0. ClusterTypeOK
  BY Zenon DEF IndInv, TypeOK
<1>1. /\ \A q \in Policy : q # p => hist'[q] = hist[q]
      /\ hist'[p][Len(hist'[p])] = obj
      /\ hist' \in [Policy -> Seq(Object)]
      /\ \A q \in Policy : Grows(q) /\ Len(hist'[q]) > 0
      /\ \A v \in 1..Len(hist'[p]) :
           v \in 1..Len(hist[p]) \/ hist'[p][v] = obj
  BY <1>0, StoreEffect, Zenon
<1>2. Latest(p)' = obj /\ \A q \in Policy : q # p => Latest(q)' = Latest(q)
  BY <1>1, Zenon DEF Latest
<1>3. claimed' = [claimed EXCEPT ![p] = ClaimOf(obj)]
  BY <1>2, ZenonT(60) DEF claimed, ClaimOf
<1>4. EverClaimed' = EverClaimed \cup obj.status.blocked
  <2>1. EverClaimed \subseteq EverClaimed'
    BY <1>0, <1>1, ClaimsKept, Zenon
  <2>2. obj.status.blocked \subseteq EverClaimed'
    <3>1. Len(hist'[p]) \in 1..Len(hist'[p])
      BY <1>1
    <3>2. obj.status.blocked \subseteq Target
      BY DEF Object, PolicyStatus
    <3>3. QED
      BY <1>1, <3>1, <3>2, Zenon DEF EverClaimed
  <2>3. ASSUME NEW k \in EverClaimed', k \notin obj.status.blocked
        PROVE  k \in EverClaimed
    <3>0. PICK q \in Policy : \E v \in 1..Len(hist'[q]) :
            k \in Target /\ k \in hist'[q][v].status.blocked
      BY <2>3, Zenon DEF EverClaimed
    <3>1. PICK v \in 1..Len(hist'[q]) :
            k \in Target /\ k \in hist'[q][v].status.blocked
      BY <3>0, Zenon
    <3>2. v \in 1..Len(hist[q])
      BY <1>1, <2>3, <3>1, Zenon
    <3>3. hist'[q][v] = hist[q][v]
      BY <1>0, <1>1, <3>2, VersionKept, Zenon
    <3>4. QED
      BY <3>1, <3>2, <3>3, Zenon DEF EverClaimed
  <2>4. QED
    BY <2>1, <2>2, <2>3, Zenon
<1>5. ClaimOf(obj).keys = obj.status.blocked
  BY Zenon DEF ClaimOf
<1>6. QED
  BY <1>3, <1>4, <1>5, Zenon DEF Promise!Becomes

LEMMA StoreRefines ==
  ASSUME IndInv, NEW p \in Policy, NEW obj \in Object, Moves(p, obj),
         hist' = Store(p, obj), UNCHANGED <<kernel, now>>
  PROVE  [Promise!EnforcementNext]_(Promise!promised)
<1>1. Promise!Becomes(p, ClaimOf(obj))
  BY StoreBecomes, Zenon
<1>2. /\ Latest(p) \in Object /\ claimed[p] = ClaimOf(Latest(p))
      /\ now \in Nat
  BY VersionsAreObjects, Zenon DEF IndInv, TypeOK, ClusterTypeOK, claimed
<1> DEFINE old == Latest(p)
<1>3. CASE ~obj.live /\ obj.status = NewStatus
  <2>1. ClaimOf(obj) = Promise!NoClaim
    BY <1>3, NewStatusClaim, Zenon DEF ClaimOf, Promise!NoClaim
  <2>2. Promise!Gone(p)
    BY <1>1, <2>1, Zenon DEF Promise!Gone
  <2>3. QED
    BY <2>2 DEF Promise!EnforcementNext
<1>4. CASE ~old.live /\ obj.live /\ ~obj.deleting /\ obj.status = NewStatus
  <2>1. ClaimOf(obj) = [Promise!NoClaim EXCEPT !.stage = "watching"]
    <3>1. [Promise!NoClaim EXCEPT !.stage = "watching"]
            = [stage |-> "watching", keys |-> {}, since |-> Never]
      BY DEF Promise!NoClaim
    <3>2. ClaimOf(obj) = [stage |-> "watching", keys |-> {}, since |-> Never]
      BY <1>4, NewStatusClaim, ZenonT(60) DEF ClaimOf
    <3>3. QED
      BY <3>1, <3>2, Zenon
  <2>2. claimed[p].stage = "none"
    BY <1>2, <1>4 DEF ClaimOf
  <2>3. Promise!Announce(p)
    BY <1>1, <2>1, <2>2, Zenon DEF Promise!Announce
  <2>4. QED
    BY <2>3, Zenon DEF Promise!EnforcementNext
<1>5. CASE ClaimOf(obj) = ClaimOf(old)
  <2>1. claimed' = claimed
    BY <1>1, <1>2, <1>5, Zenon DEF Promise!Becomes, claimed
  <2>2. old.status.blocked \subseteq EverClaimed
    <3>1. ClusterTypeOK
      BY Zenon DEF IndInv, TypeOK
    <3>2. Len(hist[p]) \in 1..Len(hist[p])
      BY <3>1, VersionsAreObjects
    <3>3. old.status.blocked \subseteq Target
      BY <1>2 DEF Object, PolicyStatus
    <3>4. QED
      BY <3>2, <3>3, Zenon DEF EverClaimed, Latest
  <2>3. EverClaimed' = EverClaimed
    BY <1>1, <1>5, <2>2, Zenon DEF Promise!Becomes, ClaimOf
  <2>4. QED
    BY <1>1, <2>1, <2>3, Zenon DEF Promise!Becomes, Promise!promised
<1>6. CASE /\ old.live /\ obj.live /\ ~old.deleting /\ obj.deleting
           /\ obj.status = old.status
  <2>0. ClaimOf(obj) = [stage |-> "leaving", keys |-> old.status.blocked,
                        since |-> old.status.last]
    BY <1>6, Zenon DEF ClaimOf
  <2>1. ClaimOf(obj) = [claimed[p] EXCEPT !.stage = "leaving"]
    <3>1. PICK stage : claimed[p] = [stage |-> stage,
                                     keys |-> old.status.blocked,
                                     since |-> old.status.last]
      BY <1>2, Zenon DEF ClaimOf
    <3>2. QED
      BY <2>0, <3>1
  <2>2. claimed[p].stage \in Promise!Live
    BY <1>2, <1>6 DEF ClaimOf, Promise!Live
  <2>3. Promise!Leave(p)
    BY <1>1, <2>1, <2>2, Zenon DEF Promise!Leave
  <2>4. QED
    BY <2>3, Zenon DEF Promise!EnforcementNext
<1>7. CASE /\ old.live /\ obj.live /\ ~old.deleting /\ ~obj.deleting
           /\ Restated(p, obj.status)
  <2>0. /\ claimed[p].stage \in Promise!Live
        /\ claimed[p].keys = old.status.blocked
        /\ claimed[p].since = old.status.last
        /\ old.status.phase = "Mitigating" => claimed[p].stage = "mitigating"
    <3>1. claimed[p] = [stage |-> IF old.status.phase = "Mitigating"
                                  THEN "mitigating" ELSE "watching",
                        keys |-> old.status.blocked,
                        since |-> old.status.last]
      BY <1>2, <1>7, Zenon DEF ClaimOf
    <3>2. QED
      BY <3>1 DEF Promise!Live
  <2>1. CASE /\ old.status.blocked \subseteq obj.status.blocked
             /\ obj.status.last = now /\ obj.status.phase = "Mitigating"
    <3>1. obj.status.blocked \in SUBSET Target
      BY DEF Object, PolicyStatus
    <3>2. ClaimOf(obj) = [stage |-> "mitigating",
                          keys |-> claimed[p].keys \cup obj.status.blocked,
                          since |-> now]
      BY <1>7, <2>0, <2>1, Zenon DEF ClaimOf
    <3>3. Promise!Escalate(p)
      BY <1>1, <2>0, <3>1, <3>2, Zenon DEF Promise!Escalate
    <3>4. QED
      BY <3>3, Zenon DEF Promise!EnforcementNext
  <2>2. CASE /\ obj.status.blocked = old.status.blocked
             /\ obj.status.last = old.status.last
             /\ obj.status.phase # "Mitigating"
             /\ old.status.phase = "Mitigating"
    <3>1. ClaimOf(obj) = [claimed[p] EXCEPT !.stage = "watching"]
      BY <1>2, <1>7, <2>2 DEF ClaimOf
    <3>2. Promise!StandDown(p)
      BY <1>1, <2>0, <2>2, <3>1, Zenon DEF Promise!StandDown
    <3>3. QED
      BY <3>2, Zenon DEF Promise!EnforcementNext
  <2>3. CASE /\ old.status.phase = "Mitigating" /\ DwellElapsed(old.status)
             /\ obj.status.blocked = {} /\ obj.status.last = old.status.last
             /\ obj.status.phase # "Mitigating"
    <3>1. ClaimOf(obj) = [stage |-> "watching", keys |-> {},
                          since |-> claimed[p].since]
      BY <1>7, <2>0, <2>3, ZenonT(60) DEF ClaimOf
    <3>2. Promise!Calm(p)
      BY <1>1, <2>0, <2>3, <3>1, Zenon DEF Promise!Calm, DwellElapsed
    <3>3. QED
      BY <3>2, Zenon DEF Promise!EnforcementNext
  <2>4. CASE /\ obj.status.blocked = old.status.blocked
             /\ obj.status.last = old.status.last
             /\ (obj.status.phase = "Mitigating")
                  <=> (old.status.phase = "Mitigating")
    BY <1>5, <1>7, <2>4, ZenonT(60) DEF ClaimOf
  <2>5. QED
    BY <1>7, <2>1, <2>2, <2>3, <2>4, ZenonT(60) DEF Restated
<1>8. CASE /\ old.live /\ obj.live /\ obj.status = old.status
           /\ obj.deleting = old.deleting
  BY <1>5, <1>8, Zenon DEF ClaimOf
<1>9. QED
  BY <1>2, <1>3, <1>4, <1>6, <1>7, <1>8, Zenon DEF Moves, Object

\* A step that stores nothing passes time, changes the drops or neither.
LEMMA IdleRefines ==
  ASSUME IndInv, [Next]_vars, hist' = hist
  PROVE  [Promise!EnforcementNext]_(Promise!promised)
<1>1. claimed' = claimed /\ EverClaimed' = EverClaimed
  BY Zenon DEF claimed, ClaimOf, Latest, EverClaimed
<1>2. kernel' \subseteq EverClaimed
  BY <1>1, NextKeeps, Zenon DEF IndInv, EveryDropWasRecorded
<1>3. \/ now' = now
      \/ now' = now + 1 /\ kernel' = kernel
  <2>1. CASE Environment \/ Tick
    BY <2>1, Zenon DEF Environment, CreatePolicy, EditSpec, DeletePolicy,
       InformerEvent, RequeueFires, ToggleKillSwitch, Tick, GraceExpires
  <2>2. CASE Deliver \/ WatcherStep
    BY <2>2, Zenon DEF Deliver, Handle, HandleNothing, WatcherStep, WarmList,
       WarmPut, Subscribe, ApplyWrites, ApplyFails, ApplyThrottled,
       WatcherPut, Block, Quarantine, ActionFails, ApplyDone, clusterVars
  <2>3. CASE WorkerStep
    BY <2>3, Zenon DEF WorkerStep, ReconcileGet, AddFinalizer, ReconcilePut,
       InitPhase, ReportScoring, AwaitQuiet, DeEscalateUnblock,
       DeEscalateRelease, DeEscalateClear, FinalizeRelease, FinalizeUnblock,
       FinalizeRemove, FinalizeForget
  <2>4. CASE SyncStep \/ Restart \/ UNCHANGED vars
    BY <2>4, Zenon DEF SyncStep, SyncList, SyncRead, SyncReadFails, Reapply,
       RemoveUnclaimed, SyncEnd, Restart, vars, clusterVars
  <2>5. QED
    BY <2>1, <2>2, <2>3, <2>4, Zenon DEF Next
<1>4. CASE now' = now
  BY <1>1, <1>2, <1>4, Zenon DEF Promise!EnforcementNext, Promise!Enforce
<1>5. CASE now' = now + 1 /\ kernel' = kernel
  BY <1>1, <1>5, Zenon DEF Promise!EnforcementNext, Promise!Pass
<1>6. QED
  BY <1>3, <1>4, <1>5, Zenon

LEMMA InitRefines == Init => Promise!EnforcementInit
<1> SUFFICES ASSUME Init PROVE Promise!EnforcementInit
  OBVIOUS
<1>1. \A p \in Policy : hist[p] = <<Absent>>
  BY Zenon DEF Init, ClusterInit
<1>2. \A p \in Policy : Len(hist[p]) = 1 /\ hist[p][1] = Absent
  <2>1. Len(<<Absent>>) = 1 /\ <<Absent>>[1] = Absent
    OBVIOUS
  <2>2. QED
    BY <1>1, <2>1, Zenon
<1>3. ClaimOf(Absent) = Promise!NoClaim
  BY AbsentType, NewStatusClaim, Zenon DEF ClaimOf, Promise!NoClaim
<1>4. claimed = [p \in Policy |-> Promise!NoClaim]
  BY <1>2, <1>3, Zenon DEF claimed, Latest
<1>5. EverClaimed = {}
  <2>1. \A p \in Policy : \A v \in 1..Len(hist[p]) :
          hist[p][v].status.blocked = NewStatus.blocked
    BY <1>2, AbsentType
  <2>2. QED
    BY <2>1, NewStatusClaim, Zenon DEF EverClaimed
<1>6. now = 0 /\ kernel = {}
  BY DEF Init, ClusterInit
<1>7. QED
  BY <1>4, <1>5, <1>6, Zenon DEF Promise!EnforcementInit

\* The loop implements Enforcement: with any number of policies, restarts
\* and failed calls, what the API server stores and the maps hold moves only
\* as a claim made, dated, given up after its dwell or removed would.
THEOREM LoopKeepsPromise == Spec => KeepsPromise
<1>1. IndInv /\ [Next]_vars => [Promise!EnforcementNext]_(Promise!promised)
  BY StepsMove, StoreRefines, IdleRefines, Zenon DEF StoresMove
<1>2. QED
  BY <1>1, InitRefines, Invariance, PTL
     DEF Spec, KeepsPromise, Promise!EnforcementSpec
=============================================================================
